-------------------------------- MODULE Relay --------------------------------
(***************************************************************************)
(* What the notification pipeline promises about an operational alert,     *)
(* whatever tables, workers, retries and restarts lie behind it: only an   *)
(* alert that was raised is mailed, it may be mailed more than once while  *)
(* it is in the pipeline, and it is never mailed again once settled, that  *)
(* is, delivered or given up for good.                                     *)
(***************************************************************************)
EXTENDS Integers

CONSTANTS Alerts, MaxCopies

VARIABLES
  raised,   \* alerts that the business transactions have raised
  copies,   \* mails handed to the mail server, counted up to MaxCopies
  settled   \* alerts that are delivered or given up

relayVars == <<raised, copies, settled>>

Init == raised = {} /\ copies = [a \in Alerts |-> 0] /\ settled = {}

Raise(a) ==
  /\ a \notin raised
  /\ raised' = raised \cup {a}
  /\ UNCHANGED <<copies, settled>>

Mail(a) ==
  /\ a \in raised \ settled
  /\ copies[a] < MaxCopies
  /\ copies' = [copies EXCEPT ![a] = @ + 1]
  /\ UNCHANGED <<raised, settled>>

(* A batch settles together, when its transaction commits. *)
Settle(batch) ==
  /\ batch # {}
  /\ batch \subseteq raised \ settled
  /\ settled' = settled \cup batch
  /\ UNCHANGED <<raised, copies>>

Next ==
  \/ \E a \in Alerts : Raise(a) \/ Mail(a)
  \/ \E batch \in SUBSET Alerts : Settle(batch)

Spec == Init /\ [][Next]_relayVars
=============================================================================
