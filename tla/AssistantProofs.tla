-------------------------- MODULE AssistantProofs ---------------------------
(***************************************************************************)
(* For any set of calls and any limits: whatever the model proposes and    *)
(* in whichever order answers come, the hotel's data changes only by what  *)
(* the user confirmed, and once for each confirmation that did not fail.   *)
(***************************************************************************)
EXTENDS Assistant, TLAPS

Thread == [at : {"idle", "chat", "read", "execute"}, round : Nat,
           call : Call \cup {NoCall}, confirmed : Call \cup {NoCall}]

TypeInv ==
  /\ asked \in [Call -> Request \cup {Unasked}]
  /\ conversation \in [Threads -> Thread]
  /\ pendingAction \in Call \cup {NoCall}

(* A read that runs was asked for as one.                                  *)
ReadInv ==
  \A t \in Threads :
    conversation[t].at = "read" =>
      conversation[t].call \in Call /\ asked[conversation[t].call].operation = "read"

(* Only a confirmed call runs as an action, its call is executed as far as *)
(* the page knows, and its failures were all told.                         *)
ConfirmInv ==
  /\ conversation["submit"].at # "execute"
  /\ conversation["confirm"].at # "idle" => conversation["confirm"].confirmed \in Call
  /\ conversation["confirm"].at = "execute" =>
       \E c \in Call :
         /\ conversation["confirm"].call = c
         /\ conversation["confirm"].confirmed = c
         /\ c \in executedCalls
         /\ c \in clicked
         /\ effects[c] <= told[c]

(* What a call that may be confirmed has done was told as a failure.       *)
EffectInv ==
  /\ effects \in [Call -> Nat] /\ told \in [Call -> Nat]
  /\ \A c \in Call :
       /\ effects[c] <= 1 + told[c]
       /\ c \notin executedCalls => effects[c] <= told[c]
       /\ effects[c] > 0 => c \in clicked

AInv == TypeInv /\ ReadInv /\ ConfirmInv /\ EffectInv

(* A call that was asked for stays what it was.                            *)
AskedOnce ==
  /\ asked' \in [Call -> Request \cup {Unasked}]
  /\ \A c \in Call : asked[c].operation = "read" => asked'[c] = asked[c]

(* What running a tool may have done, before the page takes note of it.    *)
RanTool ==
  /\ effects' \in [Call -> Nat]
  /\ \A c \in Call :
       /\ effects'[c] <= 1 + told[c]
       /\ c \notin executedCalls => effects'[c] <= told[c]
       /\ effects'[c] > 0 => c \in clicked

---------------------------------------------------------------------------
(* The assistant begins with nothing asked and nothing done.               *)
LEMMA AssistantInitInv == AssistantInit => AInv
<1> SUFFICES ASSUME AssistantInit
             PROVE  AInv
  OBVIOUS
<1>1. Idle \in Thread /\ Idle.at = "idle"
  BY DEF Idle, Thread
<1>2. TypeInv
  BY <1>1 DEF AssistantInit, TypeInv
<1>3. \A t \in Threads : conversation[t].at = "idle"
  BY <1>1 DEF AssistantInit
<1>4. ReadInv /\ ConfirmInv
  BY <1>3 DEF ReadInv, ConfirmInv, Threads
<1>5. EffectInv
  BY DEF AssistantInit, EffectInv
<1> QED
  BY <1>2, <1>4, <1>5 DEF AInv

(* An action asked anew was not asked for as a read.                       *)
LEMMA AskedAnew ==
  ASSUME AInv, NEW c \in Call, NEW request \in Request,
         asked[c] = Unasked, asked' = [asked EXCEPT ![c] = request]
  PROVE  AskedOnce /\ asked'[c] = request
BY DEF AInv, TypeInv, AskedOnce, Unasked

(* Nothing is asked.                                                       *)
LEMMA AskedNothing ==
  ASSUME AInv, UNCHANGED asked
  PROVE  AskedOnce
BY DEF AInv, TypeInv, AskedOnce

(* No tool ran.                                                            *)
LEMMA RanNothing ==
  ASSUME AInv, UNCHANGED effects
  PROVE  RanTool
BY DEF AInv, EffectInv, RanTool

(* A read has no effect on the hotel's data.                               *)
LEMMA ReadHasNoEffect ==
  ASSUME AInv, NEW c \in Call, asked[c].operation = "read", RunTool(c)
  PROVE  UNCHANGED effects
BY DEF AInv, EffectInv, RunTool

(* A confirmed action has one at most.                                     *)
LEMMA ActionRan ==
  ASSUME AInv, NEW c \in Call, RunTool(c), c \in executedCalls, c \in clicked,
         effects[c] <= told[c]
  PROVE  RanTool
<1>1. effects' \in [Call -> Nat]
  BY DEF AInv, EffectInv, RunTool
<1>2. effects'[c] <= 1 + told[c]
  BY DEF AInv, EffectInv, RunTool
<1>3. \A k \in Call \ {c} : effects'[k] = effects[k]
  BY DEF AInv, EffectInv, RunTool
<1> QED
  BY <1>1, <1>2, <1>3 DEF AInv, EffectInv, RanTool

---------------------------------------------------------------------------
(* How a conversation goes on.                                             *)

(* A conversation of one thread changes, the other goes on as it was.      *)
LEMMA OtherThread ==
  ASSUME AInv, NEW t \in Threads, NEW k \in Thread,
         conversation' = [conversation EXCEPT ![t] = k]
  PROVE  /\ conversation' \in [Threads -> Thread]
         /\ conversation'[t] = k
         /\ \A s \in Threads \ {t} : conversation'[s] = conversation[s]
BY DEF AInv, TypeInv

(* It waits for nothing that matters, and nothing else is noted.           *)
LEMMA TalkKeepsInv ==
  ASSUME AInv, NEW t \in Threads, NEW k \in Thread, k.at \in {"idle", "chat"},
         t = "confirm" /\ k.at # "idle" => k.confirmed \in Call,
         conversation' = [conversation EXCEPT ![t] = k],
         AskedOnce, RanTool, t = "submit" => UNCHANGED effects,
         pendingAction' \in Call \cup {NoCall},
         UNCHANGED <<executedCalls, told, clicked>>
  PROVE  AInv'
<1>1. /\ conversation' \in [Threads -> Thread]
      /\ conversation'[t] = k
      /\ \A s \in Threads \ {t} : conversation'[s] = conversation[s]
  BY OtherThread
<1>2. TypeInv'
  BY <1>1 DEF TypeInv, AskedOnce
<1>3. ReadInv'
  BY <1>1 DEF AInv, ReadInv, AskedOnce
<1>4. ConfirmInv'
  BY <1>1 DEF AInv, ConfirmInv, Threads
<1>5. EffectInv'
  BY DEF AInv, EffectInv, RanTool
<1> QED
  BY <1>2, <1>3, <1>4, <1>5 DEF AInv

(* It ends with an error; of a confirmed action the failure is told.       *)
LEMMA CaughtKeepsInv ==
  ASSUME AInv, NEW t \in Threads, NEW c, t = "confirm" => c \in Call, Caught(t, c),
         AskedOnce, RanTool, t = "submit" => UNCHANGED effects,
         pendingAction' \in Call \cup {NoCall}, clicked \subseteq clicked'
  PROVE  AInv'
<1>1. Idle \in Thread /\ Idle.at = "idle"
  BY DEF Idle, Thread
<1>2. /\ conversation' \in [Threads -> Thread]
      /\ conversation'[t].at = "idle"
      /\ \A s \in Threads \ {t} : conversation'[s] = conversation[s]
  BY <1>1, OtherThread DEF Caught, End
<1>3. TypeInv'
  BY <1>2 DEF TypeInv, AskedOnce
<1>4. ReadInv'
  BY <1>2 DEF AInv, ReadInv, AskedOnce
<1>5. CASE t = "submit"
  <2>1. UNCHANGED <<executedCalls, told, effects>>
    BY <1>5 DEF Caught
  <2>2. ConfirmInv'
    BY <1>2, <1>5, <2>1 DEF AInv, ConfirmInv, Threads
  <2>3. EffectInv'
    BY <2>1 DEF AInv, EffectInv
  <2> QED
    BY <1>3, <1>4, <2>2, <2>3 DEF AInv
<1>6. CASE t = "confirm"
  <2>1. ConfirmInv'
    BY <1>2, <1>6 DEF AInv, ConfirmInv, Threads
  <2>2. /\ executedCalls' = executedCalls \ {c}
        /\ told' = [told EXCEPT ![c] = told[c] + 1]
    BY <1>6 DEF Caught
  <2>3. told \in [Call -> Nat]
    BY DEF AInv, EffectInv
  <2>4. told' \in [Call -> Nat]
    BY <1>6, <2>2, <2>3
  <2>5. effects'[c] <= told'[c] /\ told'[c] = told[c] + 1
    BY <1>6, <2>2, <2>3 DEF RanTool
  <2>6. \A d \in Call \ {c} : told'[d] = told[d]
    BY <2>2, <2>3
  <2>7. EffectInv'
    BY <1>6, <2>2, <2>3, <2>4, <2>5, <2>6 DEF EffectInv, RanTool
  <2> QED
    BY <1>3, <1>4, <2>1, <2>7 DEF AInv
<1> QED
  BY <1>5, <1>6 DEF Threads

(* The next round, or one too many.                                        *)
LEMMA ContinueKeepsInv ==
  ASSUME AInv, NEW t \in Threads, NEW round \in Nat, NEW c \in Call \cup {NoCall},
         t = "confirm" => c \in Call, ContinueConversation(t, round, c),
         AskedOnce, RanTool, t = "submit" => UNCHANGED effects,
         pendingAction' \in Call \cup {NoCall}, UNCHANGED clicked
  PROVE  AInv'
<1>1. CASE round >= MAX_TOOL_ROUNDS
  BY <1>1, CaughtKeepsInv DEF ContinueConversation
<1>2. CASE ~(round >= MAX_TOOL_ROUNDS)
  <2> DEFINE k == [at |-> "chat", round |-> round, call |-> NoCall, confirmed |-> c]
  <2>1. k \in Thread /\ k.at = "chat" /\ k.confirmed = c
    BY DEF Thread
  <2>2. /\ conversation' = [conversation EXCEPT ![t] = k]
        /\ UNCHANGED <<executedCalls, told>>
    BY <1>2 DEF ContinueConversation
  <2> HIDE DEF k
  <2> QED
    BY <2>1, <2>2, TalkKeepsInv
<1> QED
  BY <1>1, <1>2

---------------------------------------------------------------------------
(* The steps.                                                              *)

(* A conversation ends without a failure.                                  *)
LEMMA EndKeepsInv ==
  ASSUME AInv, NEW t \in Threads, End(t), AskedOnce,
         pendingAction' \in Call \cup {NoCall},
         UNCHANGED <<executedCalls, told, clicked, effects>>
  PROVE  AInv'
<1>1. Idle \in Thread /\ Idle.at = "idle"
  BY DEF Idle, Thread
<1>2. conversation' = [conversation EXCEPT ![t] = Idle]
  BY DEF End
<1> QED
  BY <1>1, <1>2, RanNothing, TalkKeepsInv

(* What a conversation under way knows of its confirmed call.              *)
LEMMA ConfirmedCall ==
  ASSUME AInv, NEW t \in Threads, conversation[t].at # "idle"
  PROVE  /\ conversation[t].confirmed \in Call \cup {NoCall}
         /\ t = "confirm" => conversation[t].confirmed \in Call
         /\ conversation[t].round + 1 \in Nat
         /\ conversation[t].round \in Nat
BY DEF AInv, TypeInv, ConfirmInv, Thread

(* The user asks.                                                          *)
LEMMA SubmitStep == AInv /\ Submit => AInv'
<1> SUFFICES ASSUME AInv, Submit
             PROVE  AInv'
  OBVIOUS
<1> DEFINE k == [at |-> "chat", round |-> 0, call |-> NoCall, confirmed |-> NoCall]
<1>1. k \in Thread /\ k.at = "chat"
  BY DEF Thread
<1>2. /\ conversation' = [conversation EXCEPT !["submit"] = k]
      /\ UNCHANGED <<asked, pendingAction, executedCalls, clicked, effects, told>>
  BY DEF Submit
<1>3. pendingAction' \in Call \cup {NoCall}
  BY <1>2 DEF AInv, TypeInv
<1> HIDE DEF k
<1> QED
  BY <1>1, <1>2, <1>3, AskedNothing, RanNothing, TalkKeepsInv DEF Threads

(* The model proposes an action, or asks for a read.                       *)
LEMMA ChatAsksStep ==
  ASSUME AInv, NEW t \in Threads, NEW c \in Call, NEW request \in Request,
         ChatProposes(t, c, request) \/ ChatReads(t, c, request)
  PROVE  AInv'
<1>1. conversation[t].at = "chat" /\ UNCHANGED <<clicked, effects>>
  BY DEF ChatProposes, ChatReads
<1>2. AskedOnce /\ asked'[c] = request
  BY AskedAnew DEF ChatProposes, ChatReads
<1>3. RanTool
  BY <1>1, RanNothing
<1>4. pendingAction' \in Call \cup {NoCall}
  BY DEF ChatProposes, ChatReads, AInv, TypeInv
<1>5. /\ conversation[t].confirmed \in Call \cup {NoCall}
      /\ t = "confirm" => conversation[t].confirmed \in Call
      /\ conversation[t].round + 1 \in Nat
      /\ conversation[t].round \in Nat
  BY <1>1, ConfirmedCall
<1>6. CASE ChatProposes(t, c, request)
  <2>1. CASE request.operation = "invalid"
    <3>1. ContinueConversation(t, conversation[t].round + 1, conversation[t].confirmed)
      BY <1>6, <2>1 DEF ChatProposes
    <3> QED
      BY <1>1, <1>2, <1>3, <1>4, <1>5, <3>1, ContinueKeepsInv
  <2>2. CASE request.operation # "invalid"
    <3>1. End(t) /\ UNCHANGED <<executedCalls, told>>
      BY <1>6, <2>2 DEF ChatProposes
    <3> QED
      BY <1>1, <1>2, <1>4, <3>1, EndKeepsInv
  <2> QED
    BY <2>1, <2>2
<1>7. CASE ChatReads(t, c, request) /\ ~Readable(request)
  <2>1. Caught(t, conversation[t].confirmed)
    BY <1>7 DEF ChatReads
  <2> QED
    BY <1>1, <1>2, <1>3, <1>4, <1>5, <2>1, CaughtKeepsInv
<1>8. CASE ChatReads(t, c, request) /\ Readable(request)
  <2> DEFINE k == [at |-> "read", round |-> conversation[t].round, call |-> c,
                   confirmed |-> conversation[t].confirmed]
  <2>1. /\ k \in Thread /\ k.at = "read" /\ k.call = c
        /\ k.confirmed = conversation[t].confirmed
    BY <1>5 DEF Thread
  <2>2. /\ conversation' = [conversation EXCEPT ![t] = k]
        /\ UNCHANGED <<executedCalls, told>>
    BY <1>8 DEF ChatReads
  <2> HIDE DEF k
  <2>3. /\ conversation' \in [Threads -> Thread]
        /\ conversation'[t] = k
        /\ \A s \in Threads \ {t} : conversation'[s] = conversation[s]
    BY <2>1, <2>2, OtherThread
  <2>4. TypeInv'
    BY <1>2, <1>4, <2>3 DEF TypeInv, AskedOnce
  <2>5. request.operation = "read"
    BY <1>8 DEF Readable
  <2>6. ReadInv'
    BY <1>2, <2>1, <2>3, <2>5 DEF AInv, ReadInv, AskedOnce
  <2>7. ConfirmInv'
    BY <1>1, <1>5, <2>1, <2>2, <2>3 DEF AInv, ConfirmInv, Threads
  <2>8. EffectInv'
    BY <1>1, <2>2 DEF AInv, EffectInv
  <2> QED
    BY <2>4, <2>6, <2>7, <2>8 DEF AInv
<1> QED
  BY <1>6, <1>7, <1>8

(* The answers of the model that ask for nothing, and those of reads.      *)
LEMMA AnswerStep ==
  ASSUME AInv, NEW t \in Threads,
         ChatFails(t) \/ ChatAnswersText(t) \/ ReadReturns(t) \/ ReadFails(t)
  PROVE  AInv'
<1>1. UNCHANGED <<asked, pendingAction, clicked>>
  BY DEF ChatFails, ChatAnswersText, ReadReturns, ReadFails
<1>2. pendingAction' \in Call \cup {NoCall}
  BY <1>1 DEF AInv, TypeInv
<1>3. AskedOnce
  BY <1>1, AskedNothing
<1>4. /\ conversation[t].confirmed \in Call \cup {NoCall}
      /\ t = "confirm" => conversation[t].confirmed \in Call
      /\ conversation[t].round + 1 \in Nat
  <2>1. conversation[t].at # "idle"
    BY DEF ChatFails, ChatAnswersText, ReadReturns, ReadFails
  <2> QED
    BY <2>1, ConfirmedCall
<1>5. CASE ChatFails(t) \/ ReadFails(t)
  <2>1. Caught(t, conversation[t].confirmed) /\ UNCHANGED effects
    BY <1>5 DEF ChatFails, ReadFails
  <2> QED
    BY <1>1, <1>2, <1>3, <1>4, <2>1, RanNothing, CaughtKeepsInv
<1>6. CASE ChatAnswersText(t)
  BY <1>1, <1>2, <1>3, <1>6, EndKeepsInv DEF ChatAnswersText
<1>7. CASE ReadReturns(t)
  <2>1. UNCHANGED effects
    BY <1>7, ReadHasNoEffect DEF ReadReturns, AInv, ReadInv
  <2>2. ContinueConversation(t, conversation[t].round + 1, conversation[t].confirmed)
    BY <1>7 DEF ReadReturns
  <2> QED
    BY <1>1, <1>2, <1>3, <1>4, <2>1, <2>2, RanNothing, ContinueKeepsInv
<1> QED
  BY <1>5, <1>6, <1>7

(* The last click of the user.                                             *)
LEMMA ConfirmStep == AInv /\ ConfirmAction => AInv'
<1> SUFFICES ASSUME AInv, ConfirmAction
             PROVE  AInv'
  OBVIOUS
<1> DEFINE c == pendingAction
<1>1. /\ c \in Call /\ c \notin executedCalls
      /\ clicked' = clicked \cup {c}
      /\ UNCHANGED <<asked, pendingAction, effects>>
  BY DEF ConfirmAction, Confirmable
<1>2. effects[c] <= told[c]
  BY <1>1 DEF AInv, EffectInv
<1>3. pendingAction' \in Call \cup {NoCall}
  BY <1>1
<1>4. AskedOnce /\ RanTool
  BY <1>1, AskedNothing, RanNothing
<1>5. CASE ~Executable(asked[c])
  <2>1. Caught("confirm", c)
    BY <1>5 DEF ConfirmAction
  <2>2. "confirm" \in Threads /\ clicked \subseteq clicked'
    BY <1>1 DEF Threads
  <2> HIDE DEF c
  <2> QED
    BY <1>1, <1>3, <1>4, <2>1, <2>2, CaughtKeepsInv
<1>6. CASE Executable(asked[c])
  <2> DEFINE k == [at |-> "execute", round |-> 0, call |-> c, confirmed |-> c]
  <2>1. k \in Thread /\ k.at = "execute" /\ k.call = c /\ k.confirmed = c
    BY <1>1 DEF Thread
  <2>2. /\ conversation' = [conversation EXCEPT !["confirm"] = k]
        /\ executedCalls' = executedCalls \cup {c}
        /\ UNCHANGED told
    BY <1>6 DEF ConfirmAction
  <2> HIDE DEF c, k
  <2>3. /\ conversation' \in [Threads -> Thread]
        /\ conversation'["confirm"] = k
        /\ \A s \in Threads \ {"confirm"} : conversation'[s] = conversation[s]
    BY <2>1, <2>2, OtherThread DEF Threads
  <2>4. TypeInv'
    BY <1>3, <1>4, <2>3 DEF TypeInv, AskedOnce
  <2>5. ReadInv'
    BY <1>4, <2>1, <2>3 DEF AInv, ReadInv, AskedOnce
  <2>6. conversation'["submit"].at # "execute"
    BY <2>3 DEF AInv, ConfirmInv, Threads
  <2>7. ConfirmInv'
    BY <1>1, <1>2, <2>1, <2>2, <2>3, <2>6 DEF ConfirmInv
  <2>8. EffectInv'
    BY <1>1, <2>2 DEF AInv, EffectInv
  <2> QED
    BY <2>4, <2>5, <2>7, <2>8 DEF AInv
<1> QED
  BY <1>5, <1>6

(* The confirmed action is done, or fails; done or not, that is told.      *)
LEMMA ActionStep == AInv /\ (ActionReturns \/ ActionFails) => AInv'
<1> SUFFICES ASSUME AInv, ActionReturns \/ ActionFails
             PROVE  AInv'
  OBVIOUS
<1> DEFINE c == conversation["confirm"].call
<1>1. /\ c \in Call /\ c \in executedCalls /\ c \in clicked
      /\ effects[c] <= told[c]
  BY DEF ActionReturns, ActionFails, AInv, ConfirmInv
<1>2. UNCHANGED <<asked, clicked>> /\ pendingAction' \in Call \cup {NoCall}
  BY DEF ActionReturns, ActionFails, AInv, TypeInv
<1>3. AskedOnce
  BY <1>2, AskedNothing
<1>4. RanTool
  <2>1. RunTool(c) \/ UNCHANGED effects
    BY DEF ActionReturns, ActionFails
  <2> HIDE DEF c
  <2> QED
    BY <1>1, <2>1, ActionRan, RanNothing
<1>5. "confirm" \in Threads /\ "confirm" # "submit"
  BY DEF Threads
<1>6. ContinueConversation("confirm", 0, c) \/ Caught("confirm", c)
  BY DEF ActionReturns, ActionFails
<1> HIDE DEF c
<1>7. CASE ContinueConversation("confirm", 0, c)
  BY <1>1, <1>2, <1>3, <1>4, <1>5, <1>7, ContinueKeepsInv
<1>8. CASE Caught("confirm", c)
  BY <1>1, <1>2, <1>3, <1>4, <1>5, <1>8, CaughtKeepsInv
<1> QED
  BY <1>6, <1>7, <1>8

(* Every step keeps the invariant.                                         *)
LEMMA AssistantStepInv == AInv /\ [AssistantNext]_assistantVars => AInv'
<1> SUFFICES ASSUME AInv, [AssistantNext]_assistantVars
             PROVE  AInv'
  OBVIOUS
<1>1. CASE CancelAction
  BY <1>1 DEF CancelAction, AInv, TypeInv, ReadInv, ConfirmInv, EffectInv
<1>2. CASE UNCHANGED assistantVars
  BY <1>2 DEF assistantVars, AInv, TypeInv, ReadInv, ConfirmInv, EffectInv
<1> QED
  BY <1>1, <1>2, SubmitStep, ChatAsksStep, AnswerStep, ConfirmStep, ActionStep
  DEF AssistantNext

(* The invariant holds in every state.                                     *)
LEMMA AssistantInvariant == AssistantSpec => []AInv
BY AssistantInitInv, AssistantStepInv, PTL DEF AssistantSpec

(* The hotel's data changes only by what the user confirmed, for any       *)
(* number of calls, of rounds and of conversations.                        *)
THEOREM OnlyConfirmedChanges == AssistantSpec => []NoChangeUnconfirmed
<1>1. AInv => NoChangeUnconfirmed
  BY DEF AInv, EffectInv, NoChangeUnconfirmed
<1> QED
  BY <1>1, AssistantInvariant, PTL

(* An action takes effect at most once more than its failure was told.     *)
THEOREM ActionsRunOnce == AssistantSpec => []RunsOnce
<1>1. AInv => RunsOnce
  BY DEF AInv, EffectInv, RunsOnce
<1> QED
  BY <1>1, AssistantInvariant, PTL
=============================================================================
