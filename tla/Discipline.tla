----------------------------- MODULE Discipline -----------------------------
(***************************************************************************)
(* What the pages of the web client observe, each of its handlers by       *)
(* itself, so that no order of clicks, answers and failures leaves a mark  *)
(* of work in progress behind (BusyReleased) or sends a form twice         *)
(* (OneSubmission).  The rules are about the text of a page only: nothing  *)
(* runs.  That they are enough, with any number of handlers at a time, is  *)
(* proved in DisciplineProofs.                                             *)
(***************************************************************************)
EXTENDS Screens

(* The markers of an assignment are none of the values that are assigned,  *)
(* and what the user picked is told from what the call returned.           *)
ASSUME MarkersAreNoValues ==
  /\ FALSE \notin {None, Arg, Answer, Patched}
  /\ TRUE \notin {None, Arg, Answer, Patched}
  /\ None \notin {Arg, Answer, Patched}
  /\ Arg \notin {Answer, Patched}

(***************************************************************************)
(* The text of a page.                                                     *)
(***************************************************************************)
StepAssignments(s) ==
  {s.begin, s.fail} \cup s.then \cup {s.needs[i].otherwise : i \in DOMAIN s.needs}
Assignments(d) ==
  {d.start, d.fail, d.final} \cup {d.needs[i].otherwise : i \in DOMAIN d.needs}
  \cup UNION {StepAssignments(d.steps[k]) : k \in DOMAIN d.steps}
PageAssignments(here) ==
  UNION {Assignments(here.handlers[h]) : h \in DOMAIN here.handlers}
CopiesInto(d) == DOMAIN d.copies \cup UNION {DOMAIN d.steps[k].copies : k \in DOMAIN d.steps}

(* The handlers that effects and other handlers start.                     *)
ByEffect(here) == {here.effects[n].run : n \in DOMAIN here.effects}
ByHandler(here) == {e.runs : e \in {a \in PageAssignments(here) : "runs" \in DOMAIN a}}
Automatic(here) == ByEffect(here) \cup ByHandler(here)

(* The parts of the page that hold field f.                                *)
PartsOf(here, f) == {p \in DOMAIN here.parts : f \in DOMAIN here.parts[p]}

(* Step k of d goes on to the next one after the assignment e.             *)
GoesOn(d, k, e) == k < Len(d.steps) /\ "return" \notin DOMAIN e

(* What handler d assigns as it starts, or returns early.                  *)
StartAssignments(d) ==
  {d.start} \cup {d.needs[i].otherwise : i \in DOMAIN d.needs}
  \cup (IF d.steps = <<>> THEN {} ELSE {d.steps[1].begin})

Listed(s) == Len(s) \in Nat /\ s = [i \in 1..Len(s) |-> s[i]]
HasField(here, f) == \A u \in here.states : f \in DOMAIN u

(* A page is left by an answer or a control, never as it is rendered.      *)
Navigates(here) ==
  /\ HasField(here, "goto") /\ \A u \in here.states : u.goto = None
  /\ "goto" \notin DOMAIN here.data
  /\ \A p \in DOMAIN here.parts : "goto" \notin DOMAIN here.parts[p]
  /\ \A h \in DOMAIN here.handlers : "goto" \notin CopiesInto(here.handlers[h])
  /\ \A e \in PageAssignments(here) :
       "goto" \in DOMAIN e => e.goto \notin {None, Arg, Answer, Patched}
  /\ \A h \in ByEffect(here) : \A e \in StartAssignments(here.handlers[h]) :
       "goto" \notin DOMAIN e

WellFormed(here) ==
  /\ Navigates(here)
  /\ Listed(here.effects)
  /\ Automatic(here) \cup DOMAIN here.controls \subseteq DOMAIN here.handlers
  /\ \A h \in DOMAIN here.handlers :
       LET d == here.handlers[h] IN
       /\ Listed(d.steps) /\ Listed(d.needs)
       /\ \A k \in DOMAIN d.steps : Listed(d.steps[k].needs)
       /\ d.part # None => d.part \in DOMAIN here.parts
  /\ \A p \in DOMAIN here.parts :
       /\ HasField(here, p) /\ p \notin {None, "toast", "goto"} \cup DOMAIN here.data
       /\ PartsOf(here, p) = {}

(***************************************************************************)
(* Marks of work in progress.                                              *)
(***************************************************************************)
Marks(e, f)   == f \in DOMAIN e /\ e[f] # FALSE
Unmarks(e, f) == (f \in DOMAIN e /\ e[f] = FALSE) \/ "goto" \in DOMAIN e \* or leaves the page
NeverMarks(needs, f)    == \A i \in DOMAIN needs : ~Marks(needs[i].otherwise, f)
AlwaysUnmarks(needs, f) == \A i \in DOMAIN needs : Unmarks(needs[i].otherwise, f)

(* However step k of d ends the handler, f is not marked then: finally, or *)
(* each answer, the failure and each early return of the next step unmarks *)
(* it.                                                                     *)
FailsUnmarked(d, k, f) ==
  LET s == d.steps[k] IN
  IF s.stop THEN Unmarks(d.fail, f) \/ Unmarks(s.fail, f)
  ELSE GoesOn(d, k, s.fail) \/ Unmarks(s.fail, f)
EndsUnmarked(d, k, f) ==
  LET s == d.steps[k] IN
  \/ Unmarks(d.final, f)
  \/ /\ \A e \in s.then : GoesOn(d, k, e) \/ Unmarks(e, f)
     /\ s.calls = {} \/ FailsUnmarked(d, k, f)
     /\ k < Len(d.steps) => AlwaysUnmarks(d.steps[k + 1].needs, f)

(* From step k on the handler owes it to the page that f is unmarked.      *)
Owes(d, k, f) == k \in DOMAIN d.steps /\ \A j \in k..Len(d.steps) : EndsUnmarked(d, j, f)

(* A run that owes f is begun, or an early return unmarks it.              *)
TakesOver(d, f) == Owes(d, 1, f) /\ AlwaysUnmarks(d.needs, f)

(* Handler h marks f only while it owes it, or it has an effect run that   *)
(* does: it changes what the effect depends on.                            *)
HasRun(here, h, f) ==
  LET d == here.handlers[h] IN
  /\ d.steps = <<>> /\ d.needs = <<>> /\ h \notin Automatic(here)
  /\ "runs" \notin DOMAIN d.start
  /\ \E g \in d.except \ {"toast"}, n \in DOMAIN here.effects :
       /\ HasField(here, g) /\ g \in DOMAIN d.start /\ d.start[g] = Arg
       /\ g \in here.effects[n].deps
       /\ TakesOver(here.handlers[here.effects[n].run], f)
StartMarks(d, f)   == Marks(d.start, f) \/ (d.steps # <<>> /\ Marks(d.steps[1].begin, f))
StepMarks(s, f)    == \E e \in {s.begin, s.fail} \cup s.then : Marks(e, f)
MarksOwed(here, h, f) ==
  LET d == here.handlers[h] IN
  /\ f \notin CopiesInto(d)
  /\ StartMarks(d, f) => Owes(d, 1, f) \/ HasRun(here, h, f)
  /\ NeverMarks(d.needs, f) /\ ~Marks(d.fail, f) /\ ~Marks(d.final, f)
  /\ \A k \in DOMAIN d.steps :
       /\ StepMarks(d.steps[k], f) => Owes(d, k, f)
       /\ NeverMarks(d.steps[k].needs, f)

(* Whoever drops a run that owes f takes it over.                          *)
DropsOwed(here, g, f) ==
  LET d == here.handlers[g]
      owing(h) == \E k \in DOMAIN here.handlers[h].steps : Owes(here.handlers[h], k, f)
  IN (\E h \in ({g} \cup d.cancels) \cap DOMAIN here.handlers :
        here.handlers[h].latest # "none" /\ owing(h)) => TakesOver(d, f)

(* What a page begins with marked is owed by an effect.                    *)
MountsOwed(here, f) ==
  \A u \in here.states :
    u[f] # FALSE =>
      \E n \in DOMAIN here.effects : TakesOver(here.handlers[here.effects[n].run], f)

(* Part p is mounted by the user only, when it is not mounted: nothing of  *)
(* it runs then.                                                           *)
Mounts(e, p) == p \in DOMAIN e /\ e[p] # None
NeverMounts(needs, p) == \A i \in DOMAIN needs : ~Mounts(needs[i].otherwise, p)
MountedByUser(here, p) ==
  \A h \in DOMAIN here.handlers :
    LET d == here.handlers[h] IN
    /\ p \notin CopiesInto(d)
    /\ (\E e \in Assignments(d) : Mounts(e, p)) =>
         /\ d.steps = <<>> /\ NeverMounts(d.needs, p)
         /\ ~Mounts(d.fail, p) /\ ~Mounts(d.final, p)
         /\ h \notin Automatic(here)
         /\ h \in DOMAIN here.controls =>
              \A pattern \in here.controls[h] : p \in DOMAIN pattern /\ pattern[p] = {None}

ReleasesMark(here, f) ==
  /\ HasField(here, f) /\ f \notin {"toast", "goto"} \cup DOMAIN here.data
  /\ MountsOwed(here, f)
  /\ \A h \in DOMAIN here.handlers : MarksOwed(here, h, f) /\ DropsOwed(here, h, f)
  /\ \A p \in PartsOf(here, f) : here.parts[p][f] = FALSE /\ MountedByUser(here, p)

(***************************************************************************)
(* Sending once.                                                           *)
(***************************************************************************)
(* The value of field f that lets its handlers start.                      *)
Free(here, f) == IF f \in here.busy THEN FALSE ELSE None

(* Only a control starts handler h, and not while f is held.  It holds f   *)
(* from its start until it ends.                                           *)
HoldsFrom(here, d, f) ==
  IF f \in here.busy THEN d.start[f] = TRUE ELSE d.start[f] = Arg /\ None \notin d.takes
Holds(here, h, f) ==
  LET d == here.handlers[h] IN
  /\ HoldsFrom(here, d, f) /\ f \notin CopiesInto(d)
  /\ d.latest = "none" /\ d.steps # <<>>
  /\ h \notin Automatic(here)
  /\ h \in DOMAIN here.controls =>
       \E condition \in {here.controls[h]} \cup {d.needs[i].that : i \in DOMAIN d.needs} :
         \A pattern \in condition : f \in DOMAIN pattern /\ pattern[f] = {Free(here, f)}
  /\ \A i \in DOMAIN d.needs : f \notin DOMAIN d.needs[i].otherwise
  /\ \A k \in DOMAIN d.steps :
       LET s == d.steps[k] IN
       /\ f \notin DOMAIN s.begin
       /\ \A e \in s.then : GoesOn(d, k, e) => f \notin DOMAIN e
       /\ ~s.stop /\ GoesOn(d, k, s.fail) => f \notin DOMAIN s.fail

(* A part that holds f is mounted while such a handler starts, and the     *)
(* handler belongs to it.                                                  *)
Leaves(d, p) == p \notin DOMAIN d.copies /\ \A e \in StartAssignments(d) : p \notin DOMAIN e
HoldsInPart(here, h, p) ==
  LET d == here.handlers[h] IN
  /\ d.part = p /\ Leaves(d, p) /\ "runs" \notin DOMAIN d.start
  /\ h \in DOMAIN here.controls =>
       \A pattern \in here.controls[h] : p \in DOMAIN pattern /\ None \notin pattern[p]

Lock(here, f) ==
  /\ HasField(here, f) /\ f \notin {"toast", "goto"} \cup DOMAIN here.data
  /\ \A h \in DOMAIN here.handlers :
       LET d == here.handlers[h] IN
       IF f \in DOMAIN d.start
       THEN Holds(here, h, f) /\ \A p \in PartsOf(here, f) : HoldsInPart(here, h, p)
       ELSE f \notin CopiesInto(d) /\ \A e \in Assignments(d) : f \notin DOMAIN e
  /\ \A p \in PartsOf(here, f) : \A n \in DOMAIN here.effects :
       here.effects[n].deps = {} \/ Leaves(here.handlers[here.effects[n].run], p)

(* Handler h runs when the page is mounted and never again.                *)
RunsOnMount(here, h) ==
  /\ h \notin DOMAIN here.controls \cup ByHandler(here)
  /\ \E n \in DOMAIN here.effects :
       here.effects[n].deps = {} /\ \A m \in DOMAIN here.effects : here.effects[m].run = h => m = n

SentOnce(here, h) ==
  RunsOnMount(here, h) \/ \E f \in DOMAIN here.handlers[h].start : Lock(here, f)

KeepsRules(here) ==
  /\ WellFormed(here)
  /\ \A f \in here.busy : ReleasesMark(here, f)
  /\ \A h \in DOMAIN here.handlers : Sends(here, h) /\ h \notin here.again => SentOnce(here, h)

(* The pages that keep the rules: each handler owes what it marks (its     *)
(* finally, or each of its answers and failures, unmarks it), and what is  *)
(* sent is held by a mark that its control looks at.                       *)
Disciplined == {name \in DOMAIN Screen : KeepsRules(Screen[name])}
=============================================================================
