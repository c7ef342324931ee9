---------------------------- MODULE RepairOrders ----------------------------
(***************************************************************************)
(* The repair-order aggregate of frontdesk-service                         *)
(* (serviceorder/service/ServiceOrderService.java) with the workflow       *)
(* instance that may drive it (workflow/service/WorkflowService.java) and  *)
(* the stock its order holds (module Stock).                               *)
(*                                                                         *)
(* Two kinds of transaction touch an order row.  deliver,                  *)
(* recordPendingPayment, reserve and release read it FOR UPDATE: each is   *)
(* one step.  update, authorize, reject, quote, addTest and                *)
(* advanceConfiguredWorkflow read it without a lock (get) and, as the      *)
(* entity has no @Version, write the WHOLE row back from what they read:   *)
(* each is a Begin step that takes a snapshot and a later step that writes *)
(* it, with the steps of other clients between.  A configured transition   *)
(* also reads the workflow instance (Look) before it locks it.  Any        *)
(* transaction may fail before its commit (Abort).                         *)
(***************************************************************************)
EXTENDS Stock

CONSTANTS
  Clients,      \* request threads of the service
  PaymentIds,   \* idempotency keys of balance payments
  TestNames,    \* names of repair tests
  Phases,       \* semantic phases that the configured workflow uses
  WfStates,     \* state keys of the configured REPAIR workflow
  WfInitial,    \* its initial state
  WfTerminal,   \* its terminal states
  WfMoves,      \* its transitions, as pairs <<from, to>>
  WfPhase,      \* the semantic phase of each state
  MaxMoney,     \* bound of the model: largest quote and deposit
  MaxCash,      \* bound of the model: most cash collected for one order
  MaxAdvances   \* bound of the model: configured transitions of one order

ASSUME WorkflowAssumption ==
  /\ WfInitial \in WfStates
  /\ WfTerminal \subseteq WfStates
  /\ WfMoves \subseteq WfStates \X WfStates
  /\ Phases \subseteq {"INTAKE", "DIAGNOSIS", "QUOTE", "AUTHORIZATION", "WORK",
                       "READY", "DELIVERED", "CLOSED", "WARRANTY", "CANCELLED"}
  /\ WfPhase \in [WfStates -> Phases]

ASSUME BoundsAssumption == {MaxMoney, MaxCash, MaxAdvances} \subseteq Nat

VARIABLES
  order,      \* service_orders rows
  tests,      \* latest result of each repair test of each order
  instance,   \* workflow_instances rows: state and @Version
  tx,         \* what each client's unlocked transaction has read
  collected,  \* history: cash that changed hands for the order
  booked      \* history: how often each payment request was booked

orderVars == <<order, tests, instance, tx, collected, booked>>
vars == <<stockVars, orderVars>>

Statuses == {"INTAKE", "REVIEW", "DIAGNOSIS", "QUOTED", "QUOTE_REJECTED",
             "AUTHORIZED", "IN_PROGRESS", "QA", "COMPLETED", "CANCELLED"}
Absent == "ABSENT"   \* no row yet
Closed == {"COMPLETED", "CANCELLED"}

(* described: reported failure and intake checklist are both filled in.    *)
(* delivered: deliveredAt is set.  events: the sum of the payment events   *)
(* in the row, keys: the request ids among them.                           *)
Row == [status : Statuses \cup {Absent}, described : BOOLEAN,
        delivered : BOOLEAN, quoted : BOOLEAN, total : Nat, paid : Nat,
        payStatus : {"NONE", "PENDING", "PAID"}, events : Nat,
        keys : SUBSET PaymentIds]

(* The builder's defaults. *)
BlankRow ==
  [status |-> Absent, described |-> FALSE, delivered |-> FALSE, quoted |-> FALSE,
   total |-> 0, paid |-> 0, payStatus |-> "NONE", events |-> 0, keys |-> {}]

Instance == [state : WfStates, version : 0 .. MaxAdvances]

Idle == [phase |-> "idle"]

ActiveTx ==
  [phase : {"read", "seen", "consuming"}, order : Orders, row : Row,
   seen : Instance, rows : SUBSET Products, to : WfStates]

TypeOK ==
  /\ StockTypeOK
  /\ order \in [Orders -> Row]
  /\ tests \in [Orders -> [TestNames -> {"none", "passed", "failed"}]]
  /\ instance \in [Orders -> Instance]
  /\ tx \in [Clients -> ActiveTx \cup {Idle}]
  /\ collected \in [Orders -> Nat]
  /\ booked \in [Orders -> [PaymentIds -> Nat]]

Init ==
  /\ StockInit
  /\ order = [o \in Orders |-> BlankRow]
  /\ tests = [o \in Orders |-> [n \in TestNames |-> "none"]]
  /\ instance = [o \in Orders |-> [state |-> WfInitial, version |-> 0]]
  /\ tx = [c \in Clients |-> Idle]
  /\ collected = [o \in Orders |-> 0]
  /\ booked = [o \in Orders |-> [r \in PaymentIds |-> 0]]

---------------------------------------------------------------------------
(* Helpers of the service.                                                 *)
Outstanding(row) == IF row.quoted /\ row.total > row.paid
                      THEN row.total - row.paid ELSE 0

LatestTestFailed(o) == \E n \in TestNames : tests[o][n] = "failed"

(* Mutant: update accepts any status. *)
AnyTransition(from, to) == to \in Statuses

ManualTransition(from, to) ==
  \/ from = "INTAKE" /\ to = "REVIEW"
  \/ from \in {"REVIEW", "QUOTE_REJECTED"} /\ to = "DIAGNOSIS"
  \/ from = "AUTHORIZED" /\ to = "IN_PROGRESS"

(* The status that a configured state stands for; WARRANTY keeps it. *)
PhaseStatus(phase, current) ==
  CASE phase = "INTAKE" -> "INTAKE"
    [] phase = "DIAGNOSIS" -> "DIAGNOSIS"
    [] phase = "QUOTE" -> "QUOTED"
    [] phase = "AUTHORIZATION" -> "AUTHORIZED"
    [] phase = "WORK" -> "IN_PROGRESS"
    [] phase = "READY" -> "QA"
    [] phase \in {"DELIVERED", "CLOSED"} -> "COMPLETED"
    [] phase = "WARRANTY" -> current
    [] phase = "CANCELLED" -> "CANCELLED"

(* Another client is between locking reservation rows of o and committing. *)
RowsLocked(o, rows) ==
  \E c \in Clients : /\ tx[c].phase = "consuming"
                     /\ tx[c].order = o
                     /\ tx[c].rows \cap rows # {}

(* transition() holds the workflow definition row until its commit. *)
WorkflowLocked == \E c \in Clients : tx[c].phase = "consuming"

(* Mutants: a payment that leaves no event, or an event without its id. *)
PaymentWithoutEvent(row, amount, ids) ==
  [row EXCEPT !.paid = @ + amount, !.keys = @ \cup ids]

PaymentWithoutId(row, amount, ids) ==
  [row EXCEPT !.paid = @ + amount, !.events = @ + amount]

AddPayment(row, amount, ids) ==
  [row EXCEPT !.paid = @ + amount, !.events = @ + amount, !.keys = @ \cup ids]

---------------------------------------------------------------------------
(* create, and ServiceRequestConversionService.convert, which leaves the   *)
(* reported failure and the checklist empty and takes no deposit.          *)
Create(c, o, deposit) ==
  /\ tx[c] = Idle
  /\ order[o].status = Absent
  /\ order' = [order EXCEPT ![o] =
       AddPayment([BlankRow EXCEPT !.status = "INTAKE", !.described = TRUE], deposit, {})]
  /\ collected[o] + deposit <= MaxCash
  /\ collected' = [collected EXCEPT ![o] = @ + deposit]
  /\ UNCHANGED <<stockVars, tests, instance, tx, booked>>

Convert(c, o) ==
  /\ tx[c] = Idle
  /\ order[o].status = Absent
  /\ order' = [order EXCEPT ![o] = [BlankRow EXCEPT !.status = "INTAKE"]]
  /\ UNCHANGED <<stockVars, tests, instance, tx, collected, booked>>

(* get: an unlocked read of the order. *)
Begin(c, o) ==
  /\ tx[c] = Idle
  /\ order[o].status # Absent
  /\ tx' = [tx EXCEPT ![c] =
       [phase |-> "read", order |-> o, row |-> order[o],
        seen |-> [state |-> WfInitial, version |-> 0], rows |-> {}, to |-> WfInitial]]
  /\ UNCHANGED <<stockVars, order, tests, instance, collected, booked>>

(* The request is refused, or the transaction is rolled back. *)
Abort(c) ==
  /\ tx[c] # Idle
  /\ tx' = [tx EXCEPT ![c] = Idle]
  /\ UNCHANGED <<stockVars, order, tests, instance, collected, booked>>

(* The commit of client c's transaction: the row is written from the snapshot. *)
WriteBack(c, row) ==
  /\ order' = [order EXCEPT ![tx[c].order] = row]
  /\ tx' = [tx EXCEPT ![c] = Idle]

(* update: work log, technician, priority (not modelled) and the status.   *)
Update(c, status) ==
  /\ tx[c].phase = "read"
  /\ LET row == tx[c].row IN
       /\ row.status \notin Closed
       /\ status = row.status \/ ManualTransition(row.status, status)
       /\ status # "INTAKE" => row.described
       /\ WriteBack(c, [row EXCEPT !.status = status])
  /\ UNCHANGED <<stockVars, tests, instance, collected, booked>>

Authorize(c) ==
  /\ tx[c].phase = "read"
  /\ tx[c].row.status = "QUOTED"
  /\ WriteBack(c, [tx[c].row EXCEPT !.status = "AUTHORIZED"])
  /\ UNCHANGED <<stockVars, tests, instance, collected, booked>>

Reject(c) ==
  /\ tx[c].phase = "read"
  /\ tx[c].row.status = "QUOTED"
  /\ WriteBack(c, [tx[c].row EXCEPT !.status = "QUOTE_REJECTED"])
  /\ UNCHANGED <<stockVars, tests, instance, collected, booked>>

(* quote: labour, parts and tax are one amount; what was already received  *)
(* may cover it.                                                           *)
Quote(c, total) ==
  /\ tx[c].phase = "read"
  /\ LET row == tx[c].row IN
       /\ row.status \in {"DIAGNOSIS", "REVIEW"}
       /\ WriteBack(c, [row EXCEPT
            !.status = "QUOTED", !.quoted = TRUE, !.total = total,
            !.payStatus = IF row.paid >= total THEN "PAID" ELSE "PENDING"])
  /\ UNCHANGED <<stockVars, tests, instance, collected, booked>>

(* Mutant: tests are taken as long as the order is not cancelled. *)
TestableUntilCancelled(row) == row.status # "CANCELLED"

Testable(row) == row.status \in {"IN_PROGRESS", "QA"}

(* addTest: only the first test of an order in progress writes the row.    *)
AddTest(c, name, result) ==
  /\ tx[c].phase = "read"
  /\ LET o == tx[c].order
         row == tx[c].row
     IN /\ Testable(row)
        /\ tests' = [tests EXCEPT ![o][name] = result]
        /\ order' = IF row.status = "IN_PROGRESS"
                      THEN [order EXCEPT ![o] = [row EXCEPT !.status = "QA"]]
                      ELSE order
  /\ tx' = [tx EXCEPT ![c] = Idle]
  /\ UNCHANGED <<stockVars, instance, collected, booked>>

---------------------------------------------------------------------------
(* advanceConfiguredWorkflow and WorkflowService.transition.               *)

(* stateForAggregate: an unlocked read of the instance. *)
Look(c) ==
  /\ tx[c].phase = "read"
  /\ tx' = [tx EXCEPT ![c].phase = "seen", ![c].seen = instance[tx[c].order]]
  /\ UNCHANGED <<stockVars, order, tests, instance, collected, booked>>

(* Mutant: the version of the instance is not checked. *)
MayAdvanceStale(c, to) ==
  LET from == tx[c].seen.state
  IN <<from, to>> \in WfMoves /\ from \notin WfTerminal

(* The transition leaves the state that was read, and the instance row     *)
(* still has the version that was read (or was created meanwhile and is    *)
(* still in that state).                                                   *)
MayAdvance(c, to) ==
  LET from == tx[c].seen.state
      now  == instance[tx[c].order]
  IN /\ <<from, to>> \in WfMoves
     /\ from \notin WfTerminal
     /\ now.version = tx[c].seen.version \/ (tx[c].seen.version = 0 /\ now.state = from)

MoveInstance(c, to) ==
  /\ instance[tx[c].order].version < MaxAdvances
  /\ instance' = [instance EXCEPT ![tx[c].order] =
                    [state |-> to, version |-> @.version + 1]]

(* Every destination but a delivery: status, reservations (a cancellation  *)
(* locks the order and releases them) and commit are one step.             *)
Advance(c, to) ==
  /\ tx[c].phase = "seen"
  /\ ~WorkflowLocked
  /\ MayAdvance(c, to)
  /\ MoveInstance(c, to)
  /\ LET row  == tx[c].row
         next == PhaseStatus(WfPhase[to], row.status)
     IN /\ WfPhase[to] \notin {"DELIVERED", "CLOSED"}
        /\ WriteBack(c, [row EXCEPT !.status = next])
        /\ IF next = "CANCELLED" /\ row.status # "CANCELLED"
             THEN ReleaseAll(tx[c].order)
             ELSE UNCHANGED stockVars
  /\ UNCHANGED <<tests, collected, booked>>

(* A delivery locks the reservation rows it finds and consumes them; the   *)
(* order row itself is written, and so locked, only at the commit.         *)
AdvanceConsume(c, to) ==
  /\ tx[c].phase = "seen"
  /\ ~WorkflowLocked
  /\ MayAdvance(c, to)
  /\ WfPhase[to] \in {"DELIVERED", "CLOSED"}
  /\ tx[c].row.status = "QA"
  /\ ~LatestTestFailed(tx[c].order)
  /\ tx' = [tx EXCEPT ![c].phase = "consuming", ![c].to = to,
                      ![c].rows = RowsOf(tx[c].order)]
  /\ UNCHANGED <<stockVars, order, tests, instance, collected, booked>>

AdvanceDeliver(c) ==
  /\ tx[c].phase = "consuming"
  /\ MoveInstance(c, tx[c].to)
  /\ ConsumeRows(tx[c].order, tx[c].rows)
  /\ WriteBack(c, [tx[c].row EXCEPT !.status = "COMPLETED", !.delivered = TRUE])
  /\ UNCHANGED <<tests, collected, booked>>

---------------------------------------------------------------------------
(* Operations that lock the order row.                                     *)

(* deliver: pays what is outstanding unless the payment is deferred        *)
(* (method PENDING), consumes the reservations and completes the order.    *)
(* Repeating it on a delivered order changes nothing.                      *)
Deliver(c, o, deferred) ==
  /\ tx[c] = Idle
  /\ order[o].status = "QA"
  /\ ~LatestTestFailed(o)
  /\ deferred => Outstanding(order[o]) > 0
  /\ ~RowsLocked(o, Products)
  /\ ConsumeRows(o, Products)
  /\ LET received == IF deferred THEN 0 ELSE Outstanding(order[o]) IN
       /\ collected[o] + received <= MaxCash
       /\ order' = [order EXCEPT ![o] =
            [AddPayment(order[o], received, {}) EXCEPT
               !.status = "COMPLETED", !.delivered = TRUE,
               !.payStatus = IF deferred THEN "PENDING" ELSE "PAID"]]
       /\ collected' = [collected EXCEPT ![o] = @ + received]
  /\ UNCHANGED <<tests, instance, tx, booked>>

(* recordPendingPayment: a request id already among the row's payment      *)
(* events is answered (or refused) without booking it again.  ids is a     *)
(* singleton, or empty when the request carries no id.                     *)
RecordPendingPayment(c, o, amount, ids) ==
  /\ tx[c] = Idle
  /\ ids \cap order[o].keys = {}
  /\ order[o].status = "COMPLETED"
  /\ order[o].payStatus = "PENDING"
  /\ amount > 0
  /\ amount <= Outstanding(order[o])
  /\ collected[o] + amount <= MaxCash
  /\ order' = [order EXCEPT ![o] =
       [AddPayment(order[o], amount, ids) EXCEPT
          !.payStatus = IF amount = Outstanding(order[o]) THEN "PAID" ELSE "PENDING"]]
  /\ collected' = [collected EXCEPT ![o] = @ + amount]
  /\ booked' = [booked EXCEPT ![o] =
                  [r \in PaymentIds |-> IF r \in ids THEN @[r] + 1 ELSE @[r]]]
  /\ UNCHANGED <<stockVars, tests, instance, tx>>

ReserveStock(c, o, p, q) ==
  /\ tx[c] = Idle
  /\ order[o].status \notin Closed \cup {Absent}
  /\ ~RowsLocked(o, {p})
  /\ Reserve(o, p, q)
  /\ UNCHANGED orderVars

ReleaseStock(c, o, p) ==
  /\ tx[c] = Idle
  /\ order[o].status \notin {"COMPLETED", Absent}
  /\ ~RowsLocked(o, {p})
  /\ Release(o, p)
  /\ UNCHANGED orderVars

(* Movements and counts of the stock desk. *)
AdjustStock(p) ==
  /\ \/ \E delta \in -MaxStock .. MaxStock : Move(p, delta)
     \/ \E counted \in 0 .. MaxStock : Count(p, counted)
  /\ UNCHANGED orderVars

Next ==
  \/ \E c \in Clients, o \in Orders :
       \/ \E deposit \in 0 .. MaxMoney : Create(c, o, deposit)
       \/ Convert(c, o)
       \/ Begin(c, o)
       \/ \E deferred \in BOOLEAN : Deliver(c, o, deferred)
       \/ \E amount \in 1 .. MaxMoney, ids \in {{}} \cup {{r} : r \in PaymentIds} :
            RecordPendingPayment(c, o, amount, ids)
       \/ \E p \in Products :
            \/ \E q \in 1 .. MaxStock : ReserveStock(c, o, p, q)
            \/ ReleaseStock(c, o, p)
  \/ \E c \in Clients :
       \/ Abort(c)
       \/ Look(c)
       \/ \E status \in Statuses : Update(c, status)
       \/ Authorize(c)
       \/ Reject(c)
       \/ \E total \in 0 .. MaxMoney : Quote(c, total)
       \/ \E n \in TestNames, result \in {"passed", "failed"} : AddTest(c, n, result)
       \/ \E to \in WfStates : Advance(c, to) \/ AdvanceConsume(c, to)
       \/ AdvanceDeliver(c)
  \/ \E p \in Products : AdjustStock(p)

Spec == Init /\ [][Next]_vars

---------------------------------------------------------------------------
(* Properties that hold for any number of concurrent clients.              *)

(* The money of a row and its status agree: the paid amount is the sum of  *)
(* the payment events, a quoted row is PAID exactly when the quote is      *)
(* covered, and a COMPLETED row has its delivery date.                     *)
Coherent(row) ==
  /\ row.paid = row.events
  /\ row.quoted => (row.payStatus = "PAID" <=> row.paid >= row.total)
  /\ row.status = "COMPLETED" => row.delivered

(* Whole-row writes may lose a concurrent update of an order, but never    *)
(* mix two: what a reader of service_orders sees, or writes back, always   *)
(* comes from one coherent version (@implSpec of quote, deliver and        *)
(* recordPendingPayment: payment invariants).                              *)
RowsCoherent ==
  /\ \A o \in Orders : Coherent(order[o])
  /\ \A c \in Clients : tx[c] # Idle => Coherent(tx[c].row)

(* A configuration in which a cancelled order stays cancelled.  Nothing in *)
(* addState or addTransition enforces it: it is up to who configures the   *)
(* workflow, and what follows depends on it.                               *)
CancelledIsTerminal ==
  \A s \in WfStates : WfPhase[s] = "CANCELLED" => s \in WfTerminal

(* releaseReservationsForOrder runs in the transaction that cancels, under *)
(* the order lock, and reserve refuses a closed order: when cancellation   *)
(* is final, a CANCELLED order holds no stock, whoever races with it.      *)
CancelledHoldsNoStock ==
  \A o \in Orders : order[o].status = "CANCELLED" =>
     \A p \in Products : Status(o, p) # Reserved

(* WorkflowService.transition checks the version of the instance that the  *)
(* request looked at: concurrent transitions never skip an edge of the     *)
(* configured graph, apply one edge twice, or leave a terminal state.      *)
WorkflowFollowsGraph ==
  [][\A o \in Orders : instance'[o] # instance[o] =>
       /\ <<instance[o].state, instance'[o].state>> \in WfMoves
       /\ instance[o].state \notin WfTerminal
       /\ instance'[o].version = instance[o].version + 1]_vars

---------------------------------------------------------------------------
(* What the service documents.  It holds when requests about an order come *)
(* one at a time; the concurrent runs show where it does not.              *)

(* consumeReservations marks reserved stock as consumed after a service    *)
(* order is delivered (InventoryService.java:647), and a cancellation      *)
(* releases it: a closed order has no row still RESERVED.                  *)
ClosedOrderHoldsNoStock ==
  \A o \in Orders : order[o].status \in Closed =>
     \A p \in Products : Status(o, p) # Reserved

(* The payment events of an order account for all the cash that was        *)
(* received for it: deposits, balance paid on delivery, later payments.    *)
CashRecorded == \A o \in Orders : order[o].events = collected[o]

(* recordPendingPayment is idempotent in its request id: no retry, however *)
(* late and whatever happened to the order meanwhile, takes a second       *)
(* payment for the same id.                                                *)
RequestBookedOnce == \A o \in Orders, r \in PaymentIds : booked[o][r] <= 1

(* deliver delivers an order after quality checks: in a completed order,   *)
(* the latest result of every repair test is a pass.                       *)
DeliveredTested ==
  \A o \in Orders : order[o].status = "COMPLETED" => ~LatestTestFailed(o)

(* update may not bypass the dedicated transitions: an order becomes       *)
(* COMPLETED only from QA, and leaves COMPLETED only along the configured  *)
(* workflow (a warranty), never by an edit of the order.                   *)
DeliveryIsDedicated ==
  [][\A o \in Orders :
       /\ order'[o].status = "COMPLETED" /\ order[o].status # "COMPLETED" =>
            order[o].status = "QA"
       /\ order[o].status = "COMPLETED" /\ order'[o].status # "COMPLETED" =>
            instance'[o] # instance[o]]_vars
=============================================================================
