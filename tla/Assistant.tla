----------------------------- MODULE Assistant ------------------------------
(***************************************************************************)
(* The assistant of the hotel client (src/frontend/src/pages/Assistant.tsx *)
(* with services/assistantToolService.ts): a conversation with a model     *)
(* that asks for reads, which run at once, and proposes actions, which run *)
(* when the user confirms them.                                            *)
(*                                                                         *)
(* Two conversations may be under way, one begun by a question ("submit")  *)
(* and one by a confirmed action ("confirm"), and answers come in any      *)
(* order.  The transcript is left out: nothing is decided from it.         *)
(***************************************************************************)
EXTENDS Naturals

CONSTANTS
  Call,        \* the tool calls the model may make, each once
  MAX_TOOL_ROUNDS,
  MaxTries,    \* bound: how often the user insists on an action that failed
  NoCall

ASSUME NoCallAssumption == NoCall \notin Call

VARIABLES
  asked,         \* call -> what the model asks for, once it has
  conversation,  \* "submit", "confirm" -> what it waits for
  pendingAction, \* the call that is shown for confirmation
  sending, executing, failure,
  executedCalls, \* the calls that must not be confirmed (again)
  clicked,       \* history: calls the user confirmed while they were shown
  effects,       \* history: call -> how often it changed the hotel's data
  told           \* history: call -> how often its failure was shown

assistantVars == <<asked, conversation, pendingAction, sending, executing, failure,
                   executedCalls, clicked, effects, told>>

(* A call names an operation that reads, one that changes, or none that is *)
(* valid, and says whether it is to be confirmed.                          *)
Request == [operation : {"read", "action", "invalid"}, requiresConfirmation : BOOLEAN]
Unasked == [operation |-> "none", requiresConfirmation |-> FALSE]

Threads == {"submit", "confirm"}
Idle == [at |-> "idle", round |-> 0, call |-> NoCall, confirmed |-> NoCall]

AssistantInit ==
  /\ asked = [c \in Call |-> Unasked]
  /\ conversation = [t \in Threads |-> Idle]
  /\ pendingAction = NoCall
  /\ sending = FALSE /\ executing = FALSE /\ failure = FALSE
  /\ executedCalls = {} /\ clicked = {}
  /\ effects = [c \in Call |-> 0] /\ told = [c \in Call |-> 0]

(* Mutant: whatever is valid runs at once. *)
RunsAtOnce(request) == request.operation # "invalid"

(* What executeRead and executeAction agree to run; what they run has an   *)
(* effect when it is an action.                                            *)
Readable(request) == request.operation = "read"
Executable(request) == request.operation = "action"
RunTool(c) ==
  effects' = [effects EXCEPT ![c] = IF asked[c].operation = "action" THEN effects[c] + 1 ELSE effects[c]]

(* The conversation of t ends; its spinner goes.                           *)
End(t) ==
  /\ conversation' = [conversation EXCEPT ![t] = Idle]
  /\ sending' = IF t = "submit" THEN FALSE ELSE sending
  /\ executing' = IF t = "confirm" THEN FALSE ELSE executing

(* It ends with an error: an action that failed may be confirmed again.    *)
Caught(t, c) ==
  /\ End(t)
  /\ failure' = TRUE
  /\ executedCalls' = IF t = "confirm" THEN executedCalls \ {c} ELSE executedCalls
  /\ told' = IF t = "confirm" THEN [told EXCEPT ![c] = told[c] + 1] ELSE told

(* The next round, unless there were too many.                             *)
ContinueConversation(t, round, c) ==
  IF round >= MAX_TOOL_ROUNDS THEN Caught(t, c)
  ELSE /\ conversation' = [conversation EXCEPT ![t] =
                             [at |-> "chat", round |-> round, call |-> NoCall, confirmed |-> c]]
       /\ UNCHANGED <<sending, executing, failure, executedCalls, told>>

Submit ==
  /\ ~sending
  /\ pendingAction = NoCall
  /\ conversation' = [conversation EXCEPT !["submit"] =
                        [at |-> "chat", round |-> 0, call |-> NoCall, confirmed |-> NoCall]]
  /\ sending' = TRUE
  /\ failure' = FALSE
  /\ UNCHANGED <<asked, pendingAction, executing, executedCalls, clicked, effects, told>>

ChatFails(t) ==
  /\ conversation[t].at = "chat"
  /\ Caught(t, conversation[t].confirmed)
  /\ UNCHANGED <<asked, pendingAction, clicked, effects>>

ChatAnswersText(t) ==
  /\ conversation[t].at = "chat"
  /\ End(t)
  /\ UNCHANGED <<asked, pendingAction, failure, executedCalls, clicked, effects, told>>

(* The model proposes an action: it is shown, or it is told at once that   *)
(* its parameters are invalid.                                             *)
ChatProposes(t, c, request) ==
  /\ conversation[t].at = "chat"
  /\ asked[c] = Unasked
  /\ request.requiresConfirmation
  /\ asked' = [asked EXCEPT ![c] = request]
  /\ IF request.operation = "invalid"
     THEN /\ ContinueConversation(t, conversation[t].round + 1, conversation[t].confirmed)
          /\ UNCHANGED pendingAction
     ELSE /\ End(t)
          /\ pendingAction' = c
          /\ UNCHANGED <<failure, executedCalls, told>>
  /\ UNCHANGED <<clicked, effects>>

(* It asks for something that needs no confirmation: only reads are run.   *)
ChatReads(t, c, request) ==
  /\ conversation[t].at = "chat"
  /\ asked[c] = Unasked
  /\ ~request.requiresConfirmation
  /\ asked' = [asked EXCEPT ![c] = request]
  /\ IF Readable(request)
     THEN /\ conversation' = [conversation EXCEPT ![t] =
                                [at |-> "read", round |-> conversation[t].round, call |-> c,
                                 confirmed |-> conversation[t].confirmed]]
          /\ UNCHANGED <<sending, executing, failure, executedCalls, told>>
     ELSE Caught(t, conversation[t].confirmed)
  /\ UNCHANGED <<pendingAction, clicked, effects>>

ReadReturns(t) ==
  /\ conversation[t].at = "read"
  /\ RunTool(conversation[t].call)
  /\ ContinueConversation(t, conversation[t].round + 1, conversation[t].confirmed)
  /\ UNCHANGED <<asked, pendingAction, clicked>>

ReadFails(t) ==
  /\ conversation[t].at = "read"
  /\ Caught(t, conversation[t].confirmed)
  /\ UNCHANGED <<asked, pendingAction, clicked, effects>>

(* The button is disabled while an action runs, and a second click of the  *)
(* same rendering finds the call among the executed ones.                  *)
Confirmable(c) == c \notin executedCalls /\ ~executing

ConfirmAction ==
  LET c == pendingAction IN
  /\ c \in Call
  /\ told[c] < MaxTries
  /\ Confirmable(c)
  /\ clicked' = clicked \cup {c}
  /\ IF Executable(asked[c])
     THEN /\ conversation' = [conversation EXCEPT !["confirm"] =
                                [at |-> "execute", round |-> 0, call |-> c, confirmed |-> c]]
          /\ executedCalls' = executedCalls \cup {c}
          /\ executing' = TRUE
          /\ failure' = FALSE
          /\ UNCHANGED <<sending, told>>
     ELSE Caught("confirm", c)
  /\ UNCHANGED <<asked, pendingAction, effects>>

(* The action is done: whatever is shown goes, and the model is told.      *)
ActionReturns ==
  LET c == conversation["confirm"].call IN
  /\ conversation["confirm"].at = "execute"
  /\ RunTool(c)
  /\ pendingAction' = NoCall
  /\ ContinueConversation("confirm", 0, c)
  /\ UNCHANGED <<asked, clicked>>

(* Mutant: an action without an answer is sent again and nothing is told. *)
ActionRetried ==
  /\ conversation["confirm"].at = "execute"
  /\ effects[conversation["confirm"].call] <= MaxTries
  /\ RunTool(conversation["confirm"].call)
  /\ UNCHANGED <<asked, conversation, pendingAction, sending, executing, failure,
                 executedCalls, clicked, told>>

(* It fails: refused, or done and the answer lost.                         *)
ActionFails ==
  LET c == conversation["confirm"].call IN
  /\ conversation["confirm"].at = "execute"
  /\ RunTool(c) \/ UNCHANGED effects
  /\ Caught("confirm", c)
  /\ UNCHANGED <<asked, pendingAction, clicked>>

CancelAction ==
  /\ pendingAction \in Call
  /\ ~executing
  /\ pendingAction' = NoCall
  /\ UNCHANGED <<asked, conversation, sending, executing, failure, executedCalls, clicked,
                 effects, told>>

AssistantNext ==
  \/ Submit
  \/ \E t \in Threads :
       \/ ChatFails(t) \/ ChatAnswersText(t)
       \/ \E c \in Call, request \in Request : ChatProposes(t, c, request) \/ ChatReads(t, c, request)
       \/ ReadReturns(t) \/ ReadFails(t)
  \/ ConfirmAction
  \/ ActionReturns \/ ActionFails
  \/ CancelAction

AssistantSpec == AssistantInit /\ [][AssistantNext]_assistantVars

(***************************************************************************)
(* Properties.                                                             *)
(***************************************************************************)

(* The data of the hotel changes only by an action that the user confirmed *)
(* while it was shown ("Ningun cambio se ejecuta sin tu ultimo clic", the  *)
(* page says), even when the model declares an action as one that needs no *)
(* confirmation.                                                           *)
NoChangeUnconfirmed == \A c \in Call : effects[c] > 0 => c \in clicked

(* An action has its effect again only after an error said that it failed: *)
(* clicks, a second conversation and a proposal that replaces the one that *)
(* is running never repeat it.                                             *)
RunsOnce == \A c \in Call : effects[c] <= 1 + told[c]
=============================================================================
