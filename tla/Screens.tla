------------------------------ MODULE Screens ------------------------------
(***************************************************************************)
(* How a screen of the web client runs.  A screen is a React component     *)
(* tree: state, handlers that the user starts through the controls that    *)
(* are rendered, and effects that start a handler when a field they depend *)
(* on changes.  A handler runs to its next `await' without interruption;   *)
(* between two awaits other handlers, effects and answers come in any      *)
(* order.  What a handler has read when it started it keeps (a closure).   *)
(* What a handler still does when its screen is gone is left out.          *)
(*                                                                         *)
(* ScreenTable describes each screen (see ScreenOf for the fields) and     *)
(* CallTable what each call of the services reads and writes.  The modules *)
(* of the screens define them.                                             *)
(***************************************************************************)
EXTENDS Naturals, Sequences, FiniteSets, TLC
LOCAL INSTANCE SequencesExt
LOCAL INSTANCE FiniteSetsExt

CONSTANTS
  ScreenTable, \* name of a screen -> its description
  CallTable,   \* name of a call -> [reads, writes], sets of tables
  MaxTasks,    \* the user starts nothing with this many handlers running
  Patience,    \* the users there are: patient (TRUE) or not
  None,        \* no value
  Arg,         \* in an assignment: what the user picked
  Answer,      \* in an assignment: what the call returned
  Patched      \* in an assignment: the list as it was, with the answer in it

VARIABLES
  screen,      \* the mounted screen
  ui,          \* its state
  tasks,       \* the running handlers, in the order they were started
  patient      \* the user waits for what is running before the next action

screenVars == <<screen, ui, tasks, patient>>

Screen      == ScreenTable  \* TLC evaluates a definition once, a
CallTables  == CallTable    \* substituted constant again and again
Elsewhere   == "elsewhere"  \* another screen, of which nothing is told
Nothing     == <<>>         \* no assignment; as a pattern, any state
Always      == {Nothing}
Rows        == {"r1", "r2"} \* of a list; one where it does not matter which

ASSUME PatientOrNot == Patience \subseteq BOOLEAN
ASSUME NothingOfElsewhere == Elsewhere \notin DOMAIN ScreenTable

(***************************************************************************)
(* Descriptions.  A pattern is a function from fields to the values they   *)
(* may have, and a condition is a set of patterns, of which one must fit;  *)
(* an assignment is a function from fields to the values they get.         *)
(***************************************************************************)
Handler(h) ==
  h @@ [takes  |-> {None},    \* what the user can pick
        except |-> {},        \* fields that disable it for the pick they hold
        needs  |-> <<>>,      \* early returns: Unless(condition, assignment)
        reads  |-> {},        \* fields its closure passes to its calls
        latest |-> "none",    \* what its cleanup drops of the run before it:
                              \* "timer" or "run" (its timer, or its answers too)
        cancels |-> {},       \* whose timers it clears besides
        part   |-> None,      \* the part of the screen it sets the state of
        start  |-> Nothing,   \* assigned before the first await
        copies |-> Nothing,   \* field -> field copied into it by start
        steps  |-> <<>>,      \* its awaits
        fail   |-> Nothing,   \* catch
        final  |-> Nothing]   \* finally

(* An await of calls; of a timer when there are none, which never fails.   *)
Await(s) ==
  s @@ [calls  |-> {},        \* what is called (Promise.all)
        begin  |-> Nothing,   \* assigned just before
        needs  |-> <<>>,      \* early returns, as it begins
        then   |-> {Nothing}, \* assigned with the answer: one of these
        copies |-> Nothing,   \* field -> field copied into it then
        fail   |-> Nothing,   \* assigned if it fails
        stop   |-> TRUE]      \* a failure ends the handler

ScreenOf(s) ==
  s @@ [controls |-> Nothing, \* handler -> condition that renders its control
        effects  |-> <<>>,    \* [run, deps]: run on mount and on a change
        parts    |-> Nothing, \* field that mounts a part -> the part's state
        data     |-> Nothing, \* field -> tables it shows
        busy     |-> {},      \* fields that mark work in progress
        alerts   |-> {},      \* fields that show a failure
        outrun   |-> {},      \* data that an earlier question's answer may set
        untold   |-> Nothing, \* data -> handlers whose changes the code leaves it without
        again    |-> {}]      \* handlers that can be started while they run

Stop    == "return" :> TRUE   \* in an answer: the handler ends
Unchanged == "unchanged" :> TRUE \* in an answer: the calls changed nothing
Runs(h) == "runs" :> h        \* in an assignment: handler h is run as well
Sets(f, values) == Handler([takes |-> values, except |-> {f}, start |-> f :> Arg])
Does(e)    == Handler([start |-> e])
Goes(page) == Handler([start |-> [goto |-> page]])
Unless(that, otherwise) == [that |-> that, otherwise |-> otherwise]

(* The same controls, where c holds as well (under a dialog, on a tab).    *)
Within(c, controls) == [h \in DOMAIN controls |-> {p @@ c : p \in controls[h]}]

(* The usual shapes: a list is loaded, a form or a command is sent.        *)
Loads(calls, reads, then) ==
  Handler([reads |-> reads,
           start |-> [loading |-> TRUE, error |-> FALSE],
           steps |-> <<Await([calls |-> calls, then |-> then])>>,
           fail  |-> [error |-> TRUE],
           final |-> [loading |-> FALSE]])
Done == [toast |-> None]  \* that it is told is not looked at
Sorry == [toast |-> "error"]
(* What is typed into a search field takes effect after a pause.           *)
Search(field) ==
  Handler([takes |-> {"", "x"}, latest |-> "timer",
           steps |-> <<Await([then |-> {field :> Arg}])>>])
(* A modal form over a list: it validates, saves or deletes its record and *)
(* then closes and loads the list again.  The form is "bad" or "good".     *)
FormState == [form |-> "bad", errors |-> FALSE, saving |-> FALSE, confirming |-> FALSE]
SavesForm(calls, reads) ==
  Handler([part  |-> "modal",
           needs |-> <<Unless({[form |-> {"good"}]}, [errors |-> TRUE])>>,
           reads |-> reads,
           start |-> [errors |-> FALSE, saving |-> TRUE],
           steps |-> <<Await([calls |-> calls,
                              then  |-> {Done @@ Runs("load") @@ [modal |-> None]}])>>,
           fail  |-> Sorry,
           final |-> [saving |-> FALSE]])
DeletesForm(call, reads) ==
  Handler([part  |-> "modal",
           needs |-> <<Unless({[modal |-> Rows]}, Nothing)>>,
           reads |-> reads,
           start |-> [saving |-> TRUE],
           steps |-> <<Await([calls |-> {call},
                              then  |-> {Done @@ Runs("load") @@ [modal |-> None]}])>>,
           fail  |-> Sorry,
           final |-> [saving |-> FALSE, confirming |-> FALSE]])
FormHandlers(save, delete) ==
  [fill         |-> Sets("form", {"bad", "good"}),
   save         |-> save,
   askInForm    |-> Does([confirming |-> TRUE]),
   keepInForm   |-> Does([confirming |-> FALSE]),
   deleteInForm |-> delete,
   closeForm    |-> Does([modal |-> None])]
(* Cancel is disabled while it saves, the dialog's own close is not.       *)
FormControls ==
  LET idle == [saving |-> {FALSE}]
  IN Within([modal |-> {"new", "r1"}],
       [fill         |-> Always,
        closeForm    |-> Always,
        save         |-> {idle @@ [confirming |-> {FALSE}]},
        askInForm    |-> {idle @@ [confirming |-> {FALSE}, modal |-> {"r1"}]},
        keepInForm   |-> {idle @@ [confirming |-> {TRUE}]},
        deleteInForm |-> {idle @@ [confirming |-> {TRUE}]}])
Get(tables) == [reads |-> tables, writes |-> {}]
Put(tables) == [reads |-> {}, writes |-> tables]

(* A handler that another one awaits and that catches its own failures.    *)
Inline(h) ==
  LET s == h.steps[1] IN
  [s EXCEPT !.begin = s.begin @@ h.start,
            !.then  = {e @@ h.final : e \in s.then},
            !.fail  = h.fail @@ s.fail @@ h.final,
            !.stop  = FALSE]

With(step, e) == [step EXCEPT !.then = {a @@ e : a \in step.then}, !.fail = step.fail @@ e]

Shown(u)         == u @@ [goto |-> None, toast |-> None]
Fits(u, pattern) == \A f \in DOMAIN pattern : u[f] \in pattern[f]

(***************************************************************************)
(* Running a handler.                                                      *)
(***************************************************************************)

(* The state u after the assignment e; old is the state that is patched.   *)
Set(u, e, arg, ans, old) ==
  LET value(f) == CASE e[f] = Arg     -> arg
                    [] e[f] = Answer  -> ans
                    [] e[f] = Patched -> old[f]
                    [] OTHER          -> e[f]
  IN [f \in DOMAIN u |-> IF f \in DOMAIN e THEN value(f) ELSE u[f]]
Assign(u, e, arg) == Set(u, e, arg, None, u)
Copied(u, c) == [f \in DOMAIN u |-> IF f \in DOMAIN c THEN u[c[f]] ELSE u[f]]

(* here is the description of the mounted screen. *)
DescriptionOf(here, t) == here.handlers[t.h]
StepOf(here, t)   == DescriptionOf(here, t).steps[t.at]
ReadsOf(here, t)  == UNION {CallTables[c].reads : c \in StepOf(here, t).calls}
WritesOf(here, t) == UNION {CallTables[c].writes : c \in StepOf(here, t).calls}

(* The early return, if any, of the guards needs in the state v.           *)
Unmet(needs, v) == {i \in DOMAIN needs : \A p \in needs[i].that : ~Fits(v, p)}
Otherwise(needs, v) == needs[Min(Unmet(needs, v))].otherwise

(* What is left of the runs of a handler when its cleanup has run.         *)
Dropped(here, t) ==
  \/ DescriptionOf(here, t).latest = "run"
  \/ DescriptionOf(here, t).latest = "timer" /\ StepOf(here, t).calls = {}

(* What is left of the tasks ts when handler h starts or returns early.    *)
Remaining(here, ts, h) ==
  LET stays(t) == ~(t.h \in {h} \cup here.handlers[h].cancels /\ Dropped(here, t))
      kept[n \in 0..Len(ts)] ==
        IF n = 0 THEN <<>>
        ELSE IF stays(ts[n]) THEN Append(kept[n - 1], ts[n]) ELSE kept[n - 1]
  IN kept[Len(ts)]

(* Handler d passes on what was picked, not what was rendered for f.       *)
Picked(d, f) == f \in DOMAIN d.start /\ d.start[f] = Arg

(* Handler h starts in what was rendered, v, and runs to its first await.  *)
(* acc is the state and the tasks so far.                                  *)
Begin(here, acc, h, arg, v) ==
  LET d     == here.handlers[h]
      kept  == Remaining(here, acc.tasks, h)
      ui1   == Assign(Copied(acc.ui, d.copies), d.start, arg)
  IN CASE Unmet(d.needs, v) # {} ->
            [ui |-> Assign(acc.ui, Otherwise(d.needs, v), arg), tasks |-> kept]
       [] Unmet(d.needs, v) = {} /\ d.steps = <<>> ->
            [ui |-> ui1, tasks |-> kept]
       [] OTHER ->
            [ui    |-> Assign(ui1, d.steps[1].begin, arg),
             tasks |-> Append(kept, [h |-> h, arg |-> arg, at |-> 1,
                                     fresh |-> TRUE, new |-> TRUE, gone |-> FALSE,
                                     q |-> [f \in d.reads |-> IF Picked(d, f) THEN arg ELSE v[f]]])]

(* The effects due (their numbers) run in what was rendered, v, in order.  *)
RunEffects(here, due, v, acc) ==
  LET after[n \in 0..Len(here.effects)] ==
        IF n = 0 THEN acc
        ELSE IF n \in due THEN Begin(here, after[n - 1], here.effects[n].run, None, v)
        ELSE after[n - 1]
  IN after[Len(here.effects)]

(* One rendering after u: the effects whose dependencies changed.          *)
Render(here, u, acc) ==
  LET due == {n \in DOMAIN here.effects : \E f \in here.effects[n].deps : u[f] # acc.ui[f]}
  IN RunEffects(here, due, acc.ui, acc)

(* Renderings until nothing changes: an effect that sets a field another   *)
(* depends on renders once more.                                           *)
Rendered(here, u, acc) ==
  LET a == Render(here, u, acc)
      b == Render(here, acc.ui, a)
  IN Render(here, a.ui, b)

(* Mounting runs every effect of the screen.                               *)
Mounted(here, u) ==
  Rendered(here, u, RunEffects(here, DOMAIN here.effects, u, [ui |-> u, tasks |-> <<>>]))

(* A commit makes old what is shown of its tables, and what other calls    *)
(* may have read before it.  What the page does not load again after the   *)
(* changes of handler h (untold) is not told to be old.                    *)
LeftOut(here, f, h) == f \in DOMAIN here.untold /\ h \in here.untold[f]
Aged(here, u, h, tables) ==
  LET old == {f \in DOMAIN here.data :
                u[f] # None /\ here.data[f] \cap tables # {} /\ ~LeftOut(here, f, h)}
  IN [f \in DOMAIN u |-> IF f \in old THEN [u[f] EXCEPT !.fresh = FALSE] ELSE u[f]]
Raced(here, tables) ==
  [i \in DOMAIN tasks |->
     IF ReadsOf(here, tasks[i]) \cap tables # {}
     THEN [tasks[i] EXCEPT !.fresh = FALSE] ELSE tasks[i]]

(* What the handler of t can still assign of e: what belongs to a part that *)
(* was unmounted is lost.                                                  *)
Kept(here, t, e) ==
  IF t.gone
  THEN [f \in DOMAIN e \ DOMAIN here.parts[DescriptionOf(here, t).part] |-> e[f]]
  ELSE e

(* An assignment may also run another handler that nothing waits for.      *)
Run(here, e, acc, arg, v) ==
  IF "runs" \in DOMAIN e THEN Begin(here, acc, e.runs, arg, v) ELSE acc
Launch(here, acc, h, arg) ==
  LET begun == Begin(here, acc, h, arg, acc.ui)
      d     == here.handlers[h]
  IN IF Unmet(d.needs, acc.ui) # {} THEN begun ELSE Run(here, d.start, begun, arg, acc.ui)

(* Task i goes on with state u after e was assigned: to its next await, or *)
(* to its end.                                                             *)
GoOn(here, i, u, ts, e, ends) ==
  LET t    == ts[i]
      d    == DescriptionOf(here, t)
      next == d.steps[t.at + 1]
      v    == [f \in DOMAIN u |-> IF f \in DOMAIN t.q THEN t.q[f] ELSE u[f]]
      acc  == Run(here, e, [ui |-> u, tasks |-> RemoveAt(ts, i)], t.arg, v)
      end(x) == [ui    |-> Assign(Assign(acc.ui, Kept(here, t, x), t.arg),
                                  Kept(here, t, d.final), t.arg),
                 tasks |-> acc.tasks]
  IN CASE ends \/ t.at = Len(d.steps) -> end(Nothing)
       [] ~ends /\ t.at < Len(d.steps) /\ Unmet(next.needs, v) # {} ->
            end(Otherwise(next.needs, v))
       [] OTHER ->
            [ui    |-> Assign(acc.ui, Kept(here, t, next.begin), t.arg),
             tasks |-> Append(acc.tasks, [t EXCEPT !.at = t.at + 1, !.fresh = TRUE])]

(***************************************************************************)
(* Actions.                                                                *)
(***************************************************************************)
(* What was mounted is left for another screen: by a choice in the menu or *)
(* because a handler navigates.                                            *)
Away(toast) ==
  /\ screen' = Elsewhere
  /\ ui' = [Shown(Nothing) EXCEPT !.toast = toast]
  /\ tasks' = <<>>
  /\ patient' = FALSE

(* A part that is not mounted (its field is None) has no state: it starts  *)
(* afresh when it is.                                                      *)
Cleared(here, u) ==
  LET absent(f) == {p \in DOMAIN here.parts : u[p] = None /\ f \in DOMAIN here.parts[p]}
  IN [f \in DOMAIN u |-> IF absent(f) = {} THEN u[f]
                        ELSE here.parts[CHOOSE p \in absent(f) : TRUE][f]]

(* The screen goes on with the state and the tasks of acc.                 *)
Stay(here, acc) ==
  /\ UNCHANGED <<screen, patient>>
  /\ ui' = Cleared(here, acc.ui)
  /\ tasks' = [i \in DOMAIN acc.tasks |->
       LET t == acc.tasks[i]
           p == DescriptionOf(here, t).part
       IN IF t.new THEN [t EXCEPT !.new = FALSE]
          ELSE [t EXCEPT !.gone = t.gone \/ (p # None /\ ui[p] # acc.ui[p])]]

Continue(here, acc) ==
  IF acc.ui.goto # None THEN Away(acc.ui.toast) ELSE Stay(here, acc)

Open(name) ==
  /\ screen = Elsewhere
  /\ screen' = name
  /\ patient' \in Patience
  /\ \E here \in {Screen[name]} : \E u \in here.states :
       LET acc == Mounted(here, u)
       IN /\ ui' = Cleared(here, acc.ui)
          /\ tasks' = [i \in DOMAIN acc.tasks |-> [acc.tasks[i] EXCEPT !.new = FALSE]]

Leave == screen # Elsewhere /\ Away(None)

(* The user works a control that is rendered.                              *)
Use(here) ==
  /\ Len(tasks) < MaxTasks
  /\ patient => tasks = <<>>
  /\ \E h \in DOMAIN here.controls :
       /\ \E p \in here.controls[h] : Fits(ui, p)
       /\ \E arg \in here.handlers[h].takes :
            /\ \A f \in here.handlers[h].except : ui[f] # arg
            /\ LET u == [ui EXCEPT !.toast = None]
               IN Continue(here, Rendered(here, u, Launch(here, [ui |-> u, tasks |-> tasks], h, arg)))

(* The calls that task i awaits are answered, or its timer fires.  Whether *)
(* what is shown is old is told apart for a patient user only.             *)
Answered(here, i) ==
  LET t  == tasks[i]
      u0 == [ui EXCEPT !.toast = None]
  IN \E e \in StepOf(here, t).then, fresh \in {TRUE, t.fresh} :
       LET changed == IF "unchanged" \in DOMAIN e \/ ~patient THEN {} ELSE WritesOf(here, t)
           u1 == Copied(Aged(here, u0, t.h, changed), StepOf(here, t).copies)
       IN Continue(here, Rendered(here, ui,
                     GoOn(here, i, Set(u1, Kept(here, t, e), t.arg, [q |-> t.q, fresh |-> fresh], u0),
                          Raced(here, changed), e, "return" \in DOMAIN e)))

(* A failure is shown.                                                     *)
Alert(here, u) == u.toast = "error" \/ \E f \in here.alerts : u[f] # FALSE

(* When a screen tells that loading failed, its user knows that what it     *)
(* still shows of these tables may be old.                                 *)
Warned(here, u, tables) ==
  LET known == {f \in DOMAIN here.data : u[f] # None /\ here.data[f] \cap tables # {}}
      told(f) == IF f \in known THEN [u[f] EXCEPT !.fresh = TRUE] ELSE u[f]
  IN IF Alert(here, u) THEN [f \in DOMAIN u |-> told(f)] ELSE u

(* They fail: refused, or committed and the answer lost.  The screen cannot *)
(* tell which; fresh is about the changes it was told of.                  *)
Failed(here, i) ==
  LET t  == tasks[i]
      u0 == [ui EXCEPT !.toast = None]
      u1 == Assign(u0, Kept(here, t, StepOf(here, t).fail), t.arg)
      u2 == IF StepOf(here, t).stop THEN Assign(u1, Kept(here, t, DescriptionOf(here, t).fail), t.arg) ELSE u1
      ends == StepOf(here, t).stop \/ "return" \in DOMAIN StepOf(here, t).fail
  IN /\ StepOf(here, t).calls # {}
     /\ Continue(here, Rendered(here, ui,
                  GoOn(here, i, Warned(here, u2, ReadsOf(here, t)), tasks, StepOf(here, t).fail, ends)))

ScreensInit ==
  /\ screen = Elsewhere
  /\ ui = Shown(Nothing)
  /\ tasks = <<>>
  /\ patient = FALSE

ScreensNext ==
  \/ \E name \in DOMAIN Screen : Open(name)
  \/ Leave
  \/ /\ screen # Elsewhere
     /\ \E here \in {Screen[screen]} :
          \/ Use(here)
          \/ \E i \in DOMAIN tasks : Answered(here, i)
          \/ \E i \in DOMAIN tasks : Failed(here, i)

ScreensSpec == ScreensInit /\ [][ScreensNext]_screenVars

(***************************************************************************)
(* Properties.                                                             *)
(***************************************************************************)
Settled == screen # Elsewhere /\ tasks = <<>>

(* When nothing runs no spinner and no disabled button is left behind,     *)
(* whatever was answered, refused, left or unmounted in between.           *)
BusyReleased ==
  Settled => \A here \in {Screen[screen]} : \A f \in here.busy : ui[f] = FALSE

(* When nothing runs, what a page shows is what was asked for with the     *)
(* filters, the page and the choices that it shows beside it: no answer to *)
(* an earlier question came after and stayed.  outrun names the fields for *)
(* which the code does nothing about that.                                 *)
ShowsCurrent ==
  Settled => \A here \in {Screen[screen]} :
    ~Alert(here, ui) =>
      \A f \in DOMAIN here.data \ here.outrun :
        ui[f] # None => \A g \in DOMAIN ui[f].q : ui[f].q[g] = ui[g]

(* To a user who waits for each answer a page shows the effect of every    *)
(* change that it reported as done, in each of its lists that shows what   *)
(* was written.  untold names the lists that the code does not load again, *)
(* each with the handlers after which it does not.                         *)
ShowsOwnChanges ==
  Settled /\ patient => \A here \in {Screen[screen]} :
    ~Alert(here, ui) =>
      \A f \in DOMAIN here.data : ui[f] # None => ui[f].fresh

(* What writes is not sent a second time while the first is on its way, by *)
(* a double click or by another control of the same handler.  again names  *)
(* the handlers that no control holds back.                                *)
Sends(here, h) == \E s \in DOMAIN here.handlers[h].steps :
                    \E c \in here.handlers[h].steps[s].calls : CallTables[c].writes # {}
OneSubmission ==
  Len(tasks) > 1 => \A here \in {Screen[screen]} :
    \A i, j \in DOMAIN tasks :
      /\ i # j /\ tasks[i].h = tasks[j].h /\ ~tasks[i].gone /\ ~tasks[j].gone
      /\ Sends(here, tasks[i].h)
      => tasks[i].arg # tasks[j].arg \/ tasks[i].h \in here.again
=============================================================================
