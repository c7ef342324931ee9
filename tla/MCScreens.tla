----------------------------- MODULE MCScreens ------------------------------
(***************************************************************************)
(* The web clients, for TLC.  Their parts share no state that is modelled: *)
(* a behaviour is one of one part, and the others stay as they begin.      *)
(***************************************************************************)
EXTENDS AllPages, Assistant, PlanningBoard, Session, RepairClient, Appearance, Discipline

CONSTANT Worlds  \* the parts to check
VARIABLE world   \* the one of this behaviour

(* A stay within the first month, one across it, one after both, and a     *)
(* cancelled one; the clock of Mexico, where a date begins the day before. *)
MCStayDates == {[first |-> d, last |-> d + 2, cancelled |-> FALSE] : d \in 0..2}
                 \cup {[first |-> 1, last |-> 2, cancelled |-> TRUE]}
West == -1

(* A preset of each list; the second leaves some variables to the default. *)
MCVariable == {"primary", "font", "radius"}
MCBrand == {"primary"}
MCStyles ==
  [p \in {"classic", "claude"} |->
     [m \in {"light", "dark"} |->
        IF p = "classic" THEN {"primary", "radius"}
        ELSE IF m = "light" THEN MCVariable ELSE {"primary", "font"}]]
MCSheets == {[light |-> {"primary", "font"}, dark |-> {"primary"}],
             [light |-> {}, dark |-> {}]}

(* The pages keep the rules that the proofs are about.  The order's page,  *)
(* whose handlers the mutants of these properties change, is left to the   *)
(* properties themselves.                                                  *)
ASSUME PagesKeepRules == DOMAIN Screen \ {"ServiceOrderDetail"} \subseteq Disciplined

WebInit ==
  /\ world \in Worlds
  /\ ScreensInit /\ AssistantInit /\ BoardInit /\ SessionInit /\ ClientInit /\ AppearanceInit
  /\ world # "board" => \A r \in Reservation : dates[r].cancelled /\ server[r] = "x"
  /\ world # "look" => theme = "light" /\ ~systemDark

OtherThan(w) ==
  /\ world = w
  /\ UNCHANGED world
  /\ w # "screens"   => UNCHANGED screenVars
  /\ w # "assistant" => UNCHANGED assistantVars
  /\ w # "board"     => UNCHANGED boardVars
  /\ w # "session"   => UNCHANGED sessionVars
  /\ w # "client"    => UNCHANGED clientVars
  /\ w # "look"      => UNCHANGED appearanceVars

WebNext ==
  \/ OtherThan("screens")   /\ ScreensNext
  \/ OtherThan("assistant") /\ AssistantNext
  \/ OtherThan("board")     /\ BoardNext
  \/ OtherThan("session")   /\ SessionNext
  \/ OtherThan("client")    /\ ClientNext
  \/ OtherThan("look")      /\ AppearanceNext

WebSpec == WebInit /\ [][WebNext]_<<world, screenVars, assistantVars, boardVars, sessionVars,
                                    clientVars, appearanceVars>>
=============================================================================
