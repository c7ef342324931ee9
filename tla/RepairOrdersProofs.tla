------------------------- MODULE RepairOrdersProofs -------------------------
(***************************************************************************)
(* Proofs about RepairOrders for every set of orders, products and         *)
(* clients, every configured workflow and all bounds.                      *)
(***************************************************************************)
EXTENDS RepairOrders, SumProofs

---------------------------------------------------------------------------
(* Type correctness.                                                       *)

(* Every stock operation keeps the types of balances and reservations. *)
LEMMA StockTypes ==
  ASSUME StockTypeOK, MaxStock \in Nat,
         \/ UNCHANGED stockVars
         \/ \E p \in Products, d \in Int : Move(p, d)
         \/ \E p \in Products, n \in Int : Count(p, n)
         \/ \E o \in Orders, p \in Products, q \in Nat : Reserve(o, p, q)
         \/ \E o \in Orders, p \in Products : Release(o, p)
         \/ \E o \in Orders : ReleaseAll(o)
         \/ \E o \in Orders, rows \in SUBSET Products : ConsumeRows(o, rows)
  PROVE  StockTypeOK'
<1> USE DEF StockTypeOK, Reservation, NoRow, Reserved, Released, Consumed
<1>1. CASE UNCHANGED stockVars
  BY <1>1 DEF stockVars
<1>2. CASE \E p \in Products, d \in Int : Move(p, d)
  BY <1>2 DEF Move
<1>3. CASE \E p \in Products, n \in Int : Count(p, n)
  BY <1>3 DEF Count
<1>4. CASE \E o \in Orders, p \in Products, q \in Nat : Reserve(o, p, q)
  BY <1>4 DEF Reserve, Increase, Held, Status
<1>5. CASE \E o \in Orders, p \in Products : Release(o, p)
  <2>1. PICK o \in Orders, p \in Products : Release(o, p)
    BY <1>5
  <2>2. reservation[o][p] \in Reservation
    OBVIOUS
  <2>3. [reservation[o][p] EXCEPT !.status = Released] \in Reservation
    BY <2>2
  <2>4. reservation' \in [Orders -> [Products -> Reservation]]
    BY <2>1, <2>3 DEF Release
  <2>5. balance' \in [Products -> Nat] /\ supplied' = supplied
    BY <2>1, <2>2 DEF Release
  <2> QED
    BY <2>4, <2>5
<1>6. CASE \E o \in Orders : ReleaseAll(o)
  BY <1>6 DEF ReleaseAll, Held, Status
<1>7. CASE \E o \in Orders, rows \in SUBSET Products : ConsumeRows(o, rows)
  <2>1. PICK o \in Orders, rows \in SUBSET Products : ConsumeRows(o, rows)
    BY <1>7
  <2>2. \A p \in Products : /\ reservation[o][p] \in Reservation
                            /\ [reservation[o][p] EXCEPT !.status = Consumed] \in Reservation
    OBVIOUS
  <2>3. reservation' \in [Orders -> [Products -> Reservation]]
    BY <2>1, <2>2 DEF ConsumeRows
  <2> QED
    BY <2>1, <2>3 DEF ConsumeRows
<1> QED
  BY <1>1, <1>2, <1>3, <1>4, <1>5, <1>6, <1>7

(* A configured state stands for a status of the order. *)
LEMMA PhaseStatusType ==
  ASSUME NEW s \in WfStates, NEW current \in Statuses \cup {Absent}
  PROVE  PhaseStatus(WfPhase[s], current) \in Statuses \cup {Absent}
<1>1. WfPhase[s] \in {"INTAKE", "DIAGNOSIS", "QUOTE", "AUTHORIZATION", "WORK",
                     "READY", "DELIVERED", "CLOSED", "WARRANTY", "CANCELLED"}
  BY WorkflowAssumption
<1> QED
  BY <1>1 DEF PhaseStatus, Statuses

(* What is outstanding on a row is a natural number. *)
LEMMA OutstandingType ==
  ASSUME NEW row \in Row
  PROVE  Outstanding(row) \in Nat
BY DEF Outstanding, Row

(* Booking an amount keeps a row well-typed. *)
LEMMA AddPaymentType ==
  ASSUME NEW row \in Row, NEW amount \in Nat, NEW ids \in SUBSET PaymentIds
  PROVE  /\ AddPayment(row, amount, ids) \in Row
         /\ AddPayment(row, amount, ids).paid = row.paid + amount
         /\ AddPayment(row, amount, ids).events = row.events + amount
         /\ AddPayment(row, amount, ids).keys = row.keys \cup ids
         /\ ids = {} => AddPayment(row, amount, ids).keys = row.keys
         /\ \A f \in {"status", "described", "delivered", "quoted", "total", "payStatus"} :
              AddPayment(row, amount, ids)[f] = row[f]
<1> DEFINE new == AddPayment(row, amount, ids)
<1>1. /\ new.paid = row.paid + amount
      /\ new.events = row.events + amount
      /\ new.keys = row.keys \cup ids
      /\ \A f \in {"status", "described", "delivered", "quoted", "total", "payStatus"} :
           new[f] = row[f]
  BY DEF AddPayment, Row
<1>2. row.paid + amount \in Nat /\ row.events + amount \in Nat
      /\ row.keys \cup ids \in SUBSET PaymentIds
  BY DEF Row
<1>3. new \in Row
  BY <1>2 DEF AddPayment, Row
<1>4. ids = {} => row.keys \cup ids = row.keys
  OBVIOUS
<1> QED
  BY <1>1, <1>3, <1>4

(* What an active transaction holds. *)
LEMMA TxType ==
  ASSUME TypeOK, NEW c \in Clients, tx[c] # Idle
  PROVE  /\ tx[c] \in ActiveTx
         /\ tx[c].phase \in {"read", "seen", "consuming"}
         /\ tx[c].order \in Orders
         /\ tx[c].row \in Row
         /\ tx[c].seen \in Instance
         /\ tx[c].rows \in SUBSET Products
         /\ tx[c].to \in WfStates
BY DEF TypeOK, ActiveTx

(* A transaction in a phase of its own is not idle. *)
LEMMA PhaseNotIdle ==
  ASSUME NEW c \in Clients, tx[c].phase \in {"read", "seen", "consuming"}
  PROVE  tx[c] # Idle
BY DEF Idle

(* The write-back of a transaction keeps the types of rows and snapshots. *)
LEMMA WriteBackTypes ==
  ASSUME TypeOK, NEW c \in Clients, tx[c] # Idle, NEW row \in Row, WriteBack(c, row)
  PROVE  order' \in [Orders -> Row] /\ tx' \in [Clients -> ActiveTx \cup {Idle}]
BY TxType DEF TypeOK, WriteBack

(* An accepted transition keeps states and versions in their bounds. *)
LEMMA MoveInstanceTypes ==
  ASSUME TypeOK, NEW c \in Clients, tx[c] # Idle, NEW to \in WfStates, MoveInstance(c, to)
  PROVE  instance' \in [Orders -> Instance]
<1>1. tx[c].order \in Orders
  BY TxType
<1>2. instance[tx[c].order].version \in 0 .. MaxAdvances
  BY <1>1 DEF TypeOK, Instance
<1>3. instance[tx[c].order].version + 1 \in 0 .. MaxAdvances
  BY <1>2, BoundsAssumption DEF MoveInstance
<1> QED
  BY <1>1, <1>3 DEF MoveInstance, TypeOK, Instance

(* Counting cash keeps the history well-typed. *)
LEMMA CashType ==
  ASSUME collected \in [Orders -> Nat], NEW o \in Orders, NEW amount \in Nat
  PROVE  [collected EXCEPT ![o] = @ + amount] \in [Orders -> Nat]
OBVIOUS

(* Creating, reading and abandoning. *)
LEMMA TypeBegin ==
  ASSUME TypeOK, NEW c \in Clients,
         \/ \E o \in Orders, deposit \in 0 .. MaxMoney : Create(c, o, deposit)
         \/ \E o \in Orders : Convert(c, o) \/ Begin(c, o)
         \/ Abort(c)
         \/ Look(c)
  PROVE  TypeOK'
<1>1. ASSUME NEW o \in Orders, NEW deposit \in 0 .. MaxMoney, Create(c, o, deposit)
      PROVE  TypeOK'
  <2>0. deposit \in Nat
    BY BoundsAssumption
  <2>1. [BlankRow EXCEPT !.status = "INTAKE", !.described = TRUE] \in Row
    BY DEF Row, BlankRow, Statuses
  <2>2. AddPayment([BlankRow EXCEPT !.status = "INTAKE", !.described = TRUE],
                   deposit, {}) \in Row
    BY <2>0, <2>1, AddPaymentType
  <2>3. order' \in [Orders -> Row] /\ collected' \in [Orders -> Nat]
    <3>1. order' \in [Orders -> Row]
      BY <1>1, <2>2 DEF Create, TypeOK
    <3>2. collected' \in [Orders -> Nat]
      BY <1>1, <2>0, CashType DEF Create, TypeOK
    <3> QED
      BY <3>1, <3>2
  <2>4. StockTypeOK'
    BY <1>1, StockTypes, MaxStockAssumption DEF Create, TypeOK
  <2> QED
    BY <1>1, <2>3, <2>4 DEF Create, TypeOK
<1>2. ASSUME NEW o \in Orders, Convert(c, o)
      PROVE  TypeOK'
  <2>1. [BlankRow EXCEPT !.status = "INTAKE"] \in Row
    BY DEF Row, BlankRow, Statuses
  <2>2. order' \in [Orders -> Row]
    BY <1>2, <2>1 DEF Convert, TypeOK
  <2>3. StockTypeOK'
    BY <1>2, StockTypes, MaxStockAssumption DEF Convert, TypeOK
  <2> QED
    BY <1>2, <2>2, <2>3 DEF Convert, TypeOK
<1>3. ASSUME NEW o \in Orders, Begin(c, o)
      PROVE  TypeOK'
  <2>1. [phase |-> "read", order |-> o, row |-> order[o],
         seen |-> [state |-> WfInitial, version |-> 0], rows |-> {},
         to |-> WfInitial] \in ActiveTx
    <3>1. order[o] \in Row /\ WfInitial \in WfStates /\ 0 \in 0 .. MaxAdvances
      BY WorkflowAssumption, BoundsAssumption DEF TypeOK
    <3> QED
      BY <3>1 DEF ActiveTx, Instance
  <2>2. tx' \in [Clients -> ActiveTx \cup {Idle}]
    BY <1>3, <2>1 DEF Begin, TypeOK
  <2>3. StockTypeOK'
    BY <1>3, StockTypes, MaxStockAssumption DEF Begin, TypeOK
  <2> QED
    BY <1>3, <2>2, <2>3 DEF Begin, TypeOK
<1>4. CASE Abort(c)
  <2>1. StockTypeOK'
    BY <1>4, StockTypes, MaxStockAssumption DEF Abort, TypeOK
  <2> QED
    BY <1>4, <2>1 DEF Abort, TypeOK
<1>5. CASE Look(c)
  <2>1. tx[c] # Idle
    BY <1>5, PhaseNotIdle DEF Look
  <2>2. [tx[c] EXCEPT !.phase = "seen", !.seen = instance[tx[c].order]] \in ActiveTx
    BY <2>1, TxType DEF TypeOK, ActiveTx
  <2>3. tx' \in [Clients -> ActiveTx \cup {Idle}]
    BY <1>5, <2>2 DEF Look, TypeOK
  <2>4. StockTypeOK'
    BY <1>5, StockTypes, MaxStockAssumption DEF Look, TypeOK
  <2> QED
    BY <1>5, <2>3, <2>4 DEF Look, TypeOK
<1> QED
  BY <1>1, <1>2, <1>3, <1>4, <1>5

(* The unlocked operations that write an order. *)
LEMMA TypeWrite ==
  ASSUME TypeOK, NEW c \in Clients,
         \/ \E status \in Statuses : Update(c, status)
         \/ Authorize(c)
         \/ Reject(c)
         \/ \E total \in 0 .. MaxMoney : Quote(c, total)
         \/ \E n \in TestNames, result \in {"passed", "failed"} : AddTest(c, n, result)
  PROVE  TypeOK'
<1>1. /\ tx[c] # Idle
      /\ tx[c].row \in Row
      /\ tx[c].order \in Orders
  BY PhaseNotIdle, TxType DEF Update, Authorize, Reject, Quote, AddTest
<1>2. \A s \in Statuses : [tx[c].row EXCEPT !.status = s] \in Row
  BY <1>1 DEF Row
<1>3. ASSUME UNCHANGED stockVars PROVE StockTypeOK'
  BY <1>3, StockTypes, MaxStockAssumption DEF TypeOK
<1>4. ASSUME NEW s \in Statuses, WriteBack(c, [tx[c].row EXCEPT !.status = s]),
             UNCHANGED <<stockVars, tests, instance, collected, booked>>
      PROVE  TypeOK'
  <2>1. order' \in [Orders -> Row] /\ tx' \in [Clients -> ActiveTx \cup {Idle}]
    BY <1>1, <1>2, <1>4, WriteBackTypes
  <2> QED
    BY <1>3, <1>4, <2>1 DEF TypeOK
<1>5. ASSUME NEW s \in Statuses, Update(c, s) PROVE TypeOK'
  BY <1>4, <1>5 DEF Update
<1>6. CASE Authorize(c)
  BY <1>4, <1>6 DEF Authorize, Statuses
<1>7. CASE Reject(c)
  BY <1>4, <1>7 DEF Reject, Statuses
<1>8. ASSUME NEW total \in 0 .. MaxMoney, Quote(c, total) PROVE TypeOK'
  <2> DEFINE row == [tx[c].row EXCEPT
                       !.status = "QUOTED", !.quoted = TRUE, !.total = total,
                       !.payStatus = IF tx[c].row.paid >= total THEN "PAID" ELSE "PENDING"]
  <2>1. total \in Nat
    BY BoundsAssumption
  <2>2. row \in Row
    BY <1>1, <2>1 DEF Row, Statuses
  <2>3. order' \in [Orders -> Row] /\ tx' \in [Clients -> ActiveTx \cup {Idle}]
    <3>1. WriteBack(c, row)
      BY <1>8 DEF Quote
    <3> QED
      BY <1>1, <2>2, <3>1, WriteBackTypes
  <2> QED
    BY <1>3, <1>8, <2>3 DEF Quote, TypeOK
<1>9. ASSUME NEW n \in TestNames, NEW result \in {"passed", "failed"},
             AddTest(c, n, result)
      PROVE  TypeOK'
  <2>1. order' \in [Orders -> Row]
    BY <1>1, <1>2, <1>9 DEF AddTest, Testable, TypeOK, Statuses
  <2>2. tests' \in [Orders -> [TestNames -> {"none", "passed", "failed"}]]
    BY <1>1, <1>9 DEF AddTest, Testable, TypeOK
  <2>3. tx' \in [Clients -> ActiveTx \cup {Idle}]
    BY <1>9 DEF AddTest, Testable, TypeOK
  <2> QED
    BY <1>3, <1>9, <2>1, <2>2, <2>3 DEF AddTest, Testable, TypeOK
<1> QED
  BY <1>5, <1>6, <1>7, <1>8, <1>9

(* Configured transitions. *)
LEMMA TypeAdvance ==
  ASSUME TypeOK, NEW c \in Clients,
         \/ \E to \in WfStates : Advance(c, to) \/ AdvanceConsume(c, to)
         \/ AdvanceDeliver(c)
  PROVE  TypeOK'
<1>1. /\ tx[c] # Idle
      /\ tx[c] \in ActiveTx
      /\ tx[c].row \in Row
      /\ tx[c].order \in Orders
      /\ tx[c].to \in WfStates
      /\ tx[c].rows \in SUBSET Products
  BY PhaseNotIdle, TxType DEF Advance, AdvanceConsume, AdvanceDeliver
<1>2. ASSUME NEW to \in WfStates, Advance(c, to) PROVE TypeOK'
  <2> DEFINE next == PhaseStatus(WfPhase[to], tx[c].row.status)
  <2>1. next \in Statuses \cup {Absent}
    BY <1>1, PhaseStatusType DEF Row
  <2>2. [tx[c].row EXCEPT !.status = next] \in Row
    BY <1>1, <2>1 DEF Row
  <2>3. order' \in [Orders -> Row] /\ tx' \in [Clients -> ActiveTx \cup {Idle}]
    BY <1>1, <1>2, <2>2, WriteBackTypes DEF Advance
  <2>4. instance' \in [Orders -> Instance]
    BY <1>1, <1>2, MoveInstanceTypes DEF Advance
  <2>5. StockTypeOK'
    <3>1. ReleaseAll(tx[c].order) \/ UNCHANGED stockVars
      BY <1>2 DEF Advance
    <3> QED
      BY <1>1, <3>1, StockTypes, MaxStockAssumption DEF TypeOK
  <2> QED
    BY <1>2, <2>3, <2>4, <2>5 DEF Advance, TypeOK
<1>3. ASSUME NEW to \in WfStates, AdvanceConsume(c, to) PROVE TypeOK'
  <2>1. [tx[c] EXCEPT !.phase = "consuming", !.to = to,
                      !.rows = RowsOf(tx[c].order)] \in ActiveTx
    BY <1>1 DEF ActiveTx, RowsOf
  <2>2. tx' \in [Clients -> ActiveTx \cup {Idle}]
    BY <1>3, <2>1 DEF AdvanceConsume, TypeOK
  <2>3. StockTypeOK'
    BY <1>3, StockTypes, MaxStockAssumption DEF AdvanceConsume, TypeOK
  <2> QED
    BY <1>3, <2>2, <2>3 DEF AdvanceConsume, TypeOK
<1>4. CASE AdvanceDeliver(c)
  <2>1. [tx[c].row EXCEPT !.status = "COMPLETED", !.delivered = TRUE] \in Row
    BY <1>1 DEF Row, Statuses
  <2>2. order' \in [Orders -> Row] /\ tx' \in [Clients -> ActiveTx \cup {Idle}]
    BY <1>1, <1>4, <2>1, WriteBackTypes DEF AdvanceDeliver
  <2>3. instance' \in [Orders -> Instance]
    BY <1>1, <1>4, MoveInstanceTypes DEF AdvanceDeliver
  <2>4. StockTypeOK'
    BY <1>1, <1>4, StockTypes, MaxStockAssumption DEF AdvanceDeliver, TypeOK
  <2> QED
    BY <1>4, <2>2, <2>3, <2>4 DEF AdvanceDeliver, TypeOK
<1> QED
  BY <1>2, <1>3, <1>4

(* The row that deliver writes, and the row that a payment leaves. *)
DeliveredRow(o, deferred) ==
  LET received == IF deferred THEN 0 ELSE Outstanding(order[o]) IN
    [AddPayment(order[o], received, {}) EXCEPT
       !.status = "COMPLETED", !.delivered = TRUE,
       !.payStatus = IF deferred THEN "PENDING" ELSE "PAID"]

PaidRow(o, amount, ids) ==
  [AddPayment(order[o], amount, ids) EXCEPT
     !.payStatus = IF amount = Outstanding(order[o]) THEN "PAID" ELSE "PENDING"]

(* The row that deliver writes is well-typed. *)
LEMMA DeliveredRowType ==
  ASSUME NEW o \in Orders, order[o] \in Row, NEW deferred \in BOOLEAN
  PROVE  DeliveredRow(o, deferred) \in Row
<1>1. (IF deferred THEN 0 ELSE Outstanding(order[o])) \in Nat
  BY OutstandingType
<1>2. AddPayment(order[o], IF deferred THEN 0 ELSE Outstanding(order[o]), {}) \in Row
  BY <1>1, AddPaymentType
<1> QED
  BY <1>2 DEF DeliveredRow, Row, Statuses

(* The row that recordPendingPayment writes is well-typed. *)
LEMMA PaidRowType ==
  ASSUME NEW o \in Orders, order[o] \in Row, NEW amount \in Nat,
         NEW ids \in SUBSET PaymentIds
  PROVE  PaidRow(o, amount, ids) \in Row
<1>1. AddPayment(order[o], amount, ids) \in Row
  BY AddPaymentType
<1> QED
  BY <1>1 DEF PaidRow, Row

(* The operations that lock the order row. *)
LEMMA TypeLocked ==
  ASSUME TypeOK, NEW c \in Clients,
         \/ \E o \in Orders, deferred \in BOOLEAN : Deliver(c, o, deferred)
         \/ \E o \in Orders, amount \in 1 .. MaxMoney, ids \in SUBSET PaymentIds :
              RecordPendingPayment(c, o, amount, ids)
         \/ \E o \in Orders, p \in Products, q \in Nat : ReserveStock(c, o, p, q)
         \/ \E o \in Orders, p \in Products : ReleaseStock(c, o, p)
  PROVE  TypeOK'
<1>1. ASSUME NEW o \in Orders, NEW deferred \in BOOLEAN, Deliver(c, o, deferred)
      PROVE  TypeOK'
  <2> DEFINE received == IF deferred THEN 0 ELSE Outstanding(order[o])
  <2>1. order[o] \in Row
    BY DEF TypeOK
  <2>2. received \in Nat /\ DeliveredRow(o, deferred) \in Row
    BY <2>1, OutstandingType, DeliveredRowType
  <2>3. order' = [order EXCEPT ![o] = DeliveredRow(o, deferred)]
    BY <1>1 DEF Deliver, DeliveredRow
  <2>4. order' \in [Orders -> Row]
    BY <2>2, <2>3 DEF TypeOK
  <2>5. collected' \in [Orders -> Nat]
    <3>1. collected' = [collected EXCEPT ![o] = @ + received]
      BY <1>1 DEF Deliver
    <3> HIDE DEF received
    <3> QED
      BY <2>2, <3>1, CashType DEF TypeOK
  <2>6. StockTypeOK'
    BY <1>1, StockTypes, MaxStockAssumption DEF Deliver, TypeOK
  <2> QED
    BY <1>1, <2>4, <2>5, <2>6 DEF Deliver, TypeOK
<1>2. ASSUME NEW o \in Orders, NEW amount \in 1 .. MaxMoney,
             NEW ids \in SUBSET PaymentIds, RecordPendingPayment(c, o, amount, ids)
      PROVE  TypeOK'
  <2>1. order[o] \in Row /\ amount \in Nat
    BY BoundsAssumption DEF TypeOK
  <2>2. order' = [order EXCEPT ![o] = PaidRow(o, amount, ids)]
    BY <1>2 DEF RecordPendingPayment, PaidRow
  <2>3. order' \in [Orders -> Row]
    BY <2>1, <2>2, PaidRowType DEF TypeOK
  <2>4. collected' \in [Orders -> Nat]
    BY <1>2, <2>1, CashType DEF RecordPendingPayment, TypeOK
  <2>5. booked' \in [Orders -> [PaymentIds -> Nat]]
    <3>1. booked[o] \in [PaymentIds -> Nat]
      BY DEF TypeOK
    <3>2. [r \in PaymentIds |-> IF r \in ids THEN booked[o][r] + 1 ELSE booked[o][r]]
            \in [PaymentIds -> Nat]
      BY <3>1
    <3>3. booked' = [booked EXCEPT ![o] =
            [r \in PaymentIds |-> IF r \in ids THEN booked[o][r] + 1 ELSE booked[o][r]]]
      BY <1>2 DEF RecordPendingPayment
    <3> QED
      BY <3>2, <3>3 DEF TypeOK
  <2>6. StockTypeOK'
    BY <1>2, StockTypes, MaxStockAssumption DEF RecordPendingPayment, TypeOK
  <2> QED
    BY <1>2, <2>3, <2>4, <2>5, <2>6 DEF RecordPendingPayment, TypeOK
<1>3. ASSUME NEW o \in Orders, NEW p \in Products, NEW q \in Nat, ReserveStock(c, o, p, q)
      PROVE  TypeOK'
  <2>1. StockTypeOK'
    BY <1>3, StockTypes, MaxStockAssumption DEF ReserveStock, TypeOK
  <2> QED
    BY <1>3, <2>1 DEF ReserveStock, TypeOK, orderVars
<1>4. ASSUME NEW o \in Orders, NEW p \in Products, ReleaseStock(c, o, p)
      PROVE  TypeOK'
  <2>1. StockTypeOK'
    BY <1>4, StockTypes, MaxStockAssumption DEF ReleaseStock, TypeOK
  <2> QED
    BY <1>4, <2>1 DEF ReleaseStock, TypeOK, orderVars
<1> QED
  BY <1>1, <1>2, <1>3, <1>4

(* Movements and counts keep the types. *)
LEMMA TypeAdjust ==
  ASSUME TypeOK, NEW p \in Products, AdjustStock(p)
  PROVE  TypeOK'
<1>1. \/ \E d \in Int : Move(p, d)
      \/ \E n \in Int : Count(p, n)
  BY MaxStockAssumption DEF AdjustStock
<1>2. StockTypeOK'
  BY <1>1, StockTypes, MaxStockAssumption DEF TypeOK
<1> QED
  BY <1>2 DEF AdjustStock, TypeOK, orderVars

(* Whatever a step is, it is one of these operations. *)
LEMMA NextCases ==
  ASSUME Next
  PROVE  \/ \E c \in Clients :
              \/ \E o \in Orders, deposit \in 0 .. MaxMoney : Create(c, o, deposit)
              \/ \E o \in Orders : Convert(c, o) \/ Begin(c, o)
              \/ Abort(c)
              \/ Look(c)
         \/ \E c \in Clients :
              \/ \E status \in Statuses : Update(c, status)
              \/ Authorize(c)
              \/ Reject(c)
              \/ \E total \in 0 .. MaxMoney : Quote(c, total)
              \/ \E n \in TestNames, result \in {"passed", "failed"} : AddTest(c, n, result)
         \/ \E c \in Clients :
              \/ \E to \in WfStates : Advance(c, to) \/ AdvanceConsume(c, to)
              \/ AdvanceDeliver(c)
         \/ \E c \in Clients :
              \/ \E o \in Orders, deferred \in BOOLEAN : Deliver(c, o, deferred)
              \/ \E o \in Orders, amount \in 1 .. MaxMoney, ids \in SUBSET PaymentIds :
                   RecordPendingPayment(c, o, amount, ids)
              \/ \E o \in Orders, p \in Products, q \in Nat : ReserveStock(c, o, p, q)
              \/ \E o \in Orders, p \in Products : ReleaseStock(c, o, p)
         \/ \E p \in Products : AdjustStock(p)
<1>1. 1 .. MaxStock \subseteq Nat
  BY MaxStockAssumption
<1>2. {{}} \cup {{r} : r \in PaymentIds} \subseteq SUBSET PaymentIds
  OBVIOUS
<1> QED
  BY <1>1, <1>2, Zenon DEF Next

(* The empty database is well-typed. *)
LEMMA TypeInit == Init => TypeOK
<1> SUFFICES ASSUME Init PROVE TypeOK
  OBVIOUS
<1>1. StockTypeOK
  BY DEF Init, StockInit, StockTypeOK, Reservation, NoRow
<1>2. order \in [Orders -> Row]
  BY DEF Init, Row, BlankRow
<1>3. instance \in [Orders -> Instance]
  BY WorkflowAssumption, BoundsAssumption DEF Init, Instance
<1> QED
  BY <1>1, <1>2, <1>3 DEF Init, TypeOK

(* Every step of every client keeps the types. *)
LEMMA TypeStep == TypeOK /\ [Next]_vars => TypeOK'
<1> SUFFICES ASSUME TypeOK, [Next]_vars PROVE TypeOK'
  OBVIOUS
<1>1. CASE UNCHANGED vars
  BY <1>1 DEF vars, orderVars, stockVars, TypeOK, StockTypeOK
<1>2. CASE Next
  BY <1>2, NextCases, TypeBegin, TypeWrite, TypeAdvance, TypeLocked, TypeAdjust
<1> QED
  BY <1>1, <1>2

(* Rows, snapshots, balances, reservations and instances keep their types: *)
(* in particular no balance of InventoryService is ever negative and no    *)
(* paid amount is.                                                         *)
THEOREM TypeCorrect == Spec => []TypeOK
BY TypeInit, TypeStep, PTL DEF Spec

---------------------------------------------------------------------------
(* Coherent rows.                                                          *)

(* A row that reaches the table was read or written by one transaction:    *)
(* every write of Next is of a coherent row, so coherence is inductive     *)
(* together with the snapshots that are still to be written back.          *)
LEMMA CoherentStatus ==
  ASSUME NEW row \in Row, Coherent(row), NEW status \in Statuses \cup {Absent},
         status = "COMPLETED" => row.delivered
  PROVE  Coherent([row EXCEPT !.status = status])
BY DEF Coherent, Row

(* Writing a coherent snapshot back leaves every row and snapshot coherent. *)
LEMMA CoherentWriteBack ==
  ASSUME TypeOK, RowsCoherent, NEW c \in Clients, tx[c] # Idle, NEW row \in Row,
         Coherent(row), WriteBack(c, row)
  PROVE  RowsCoherent'
<1>1. \A o \in Orders : order'[o] = row \/ order'[o] = order[o]
  BY TxType DEF WriteBack, TypeOK
<1>2. \A d \in Clients : tx'[d] # Idle => tx'[d] = tx[d]
  BY DEF WriteBack, TypeOK
<1> QED
  BY <1>1, <1>2 DEF RowsCoherent, Coherent

(* So does a locked operation that writes one coherent row. *)
LEMMA CoherentOrder ==
  ASSUME TypeOK, RowsCoherent, NEW o \in Orders, NEW row \in Row, Coherent(row),
         order' = [order EXCEPT ![o] = row], UNCHANGED tx
  PROVE  RowsCoherent'
<1>1. \A u \in Orders : order'[u] = row \/ order'[u] = order[u]
  BY DEF TypeOK
<1> QED
  BY <1>1 DEF RowsCoherent, Coherent

(* A new order books its deposit once as paid and once as an event. *)
LEMMA CoherentCreate ==
  ASSUME TypeOK, RowsCoherent, NEW c \in Clients, NEW o \in Orders,
         NEW deposit \in 0 .. MaxMoney, Create(c, o, deposit)
  PROVE  RowsCoherent'
<1> DEFINE old == [BlankRow EXCEPT !.status = "INTAKE", !.described = TRUE]
           new == AddPayment(old, deposit, {})
<1>1. deposit \in Nat
  BY BoundsAssumption
<1>2. old \in Row /\ old.status = "INTAKE" /\ old.quoted = FALSE
      /\ old.paid = old.events
  BY DEF Row, Statuses, BlankRow
<1>3. order' = [order EXCEPT ![o] = new] /\ tx' = tx
  BY DEF Create
<1> HIDE DEF old
<1>4. new \in Row /\ new.paid = new.events /\ new.status = "INTAKE"
      /\ new.quoted = FALSE
  BY <1>1, <1>2, AddPaymentType
<1>5. Coherent(new)
  BY <1>4 DEF Coherent
<1> HIDE DEF new
<1> QED
  BY <1>3, <1>4, <1>5, CoherentOrder

(* An order converted from a request has no money on it. *)
LEMMA CoherentConvert ==
  ASSUME TypeOK, RowsCoherent, NEW c \in Clients, NEW o \in Orders, Convert(c, o)
  PROVE  RowsCoherent'
<1> DEFINE new == [BlankRow EXCEPT !.status = "INTAKE"]
<1>1. new \in Row /\ Coherent(new)
  BY DEF Row, Statuses, BlankRow, Coherent
<1>2. order' = [order EXCEPT ![o] = new] /\ tx' = tx
  BY DEF Convert
<1> HIDE DEF new
<1> QED
  BY <1>1, <1>2, CoherentOrder

(* deliver and a later payment keep PAID and the covered quote together. *)
LEMMA CoherentDeliver ==
  ASSUME TypeOK, RowsCoherent, NEW c \in Clients, NEW o \in Orders,
         NEW deferred \in BOOLEAN, Deliver(c, o, deferred)
  PROVE  RowsCoherent'
<1> DEFINE received == IF deferred THEN 0 ELSE Outstanding(order[o])
           paid == AddPayment(order[o], received, {})
           new == DeliveredRow(o, deferred)
<1>1. order[o] \in Row /\ Coherent(order[o])
  BY DEF TypeOK, RowsCoherent
<1>2. received \in Nat /\ new \in Row
  BY <1>1, OutstandingType, DeliveredRowType
<1>3. /\ paid \in Row
      /\ paid.paid = order[o].paid + received
      /\ paid.events = order[o].events + received
      /\ paid.quoted = order[o].quoted
      /\ paid.total = order[o].total
  <2> HIDE DEF received
  <2> QED
    BY <1>1, <1>2, AddPaymentType
<1>4. /\ new.paid = paid.paid /\ new.events = paid.events
      /\ new.quoted = paid.quoted /\ new.total = paid.total
      /\ new.delivered = TRUE
      /\ new.payStatus = IF deferred THEN "PENDING" ELSE "PAID"
  <2> HIDE DEF received
  <2> QED
    BY <1>3 DEF DeliveredRow, Row, received
<1>5. order[o].quoted => (new.payStatus = "PAID" <=> new.paid >= new.total)
  <2>1. CASE deferred
    BY <1>1, <1>3, <1>4, <2>1 DEF Deliver, Outstanding, Row
  <2>2. CASE ~deferred
    BY <1>1, <1>3, <1>4, <2>2 DEF Outstanding, Row
  <2> QED
    BY <2>1, <2>2
<1>6. Coherent(new)
  BY <1>1, <1>2, <1>3, <1>4, <1>5 DEF Coherent
<1>7. order' = [order EXCEPT ![o] = new] /\ tx' = tx
  BY DEF Deliver, DeliveredRow
<1> HIDE DEF new
<1> QED
  BY <1>2, <1>6, <1>7, CoherentOrder

(* A later payment turns PENDING into PAID exactly when it covers the quote. *)
LEMMA CoherentPayment ==
  ASSUME TypeOK, RowsCoherent, NEW c \in Clients, NEW o \in Orders,
         NEW amount \in 1 .. MaxMoney, NEW ids \in SUBSET PaymentIds,
         RecordPendingPayment(c, o, amount, ids)
  PROVE  RowsCoherent'
<1> DEFINE paid == AddPayment(order[o], amount, ids)
           new == PaidRow(o, amount, ids)
<1>1. order[o] \in Row /\ Coherent(order[o]) /\ amount \in Nat
  BY BoundsAssumption DEF TypeOK, RowsCoherent
<1>2. /\ paid \in Row
      /\ paid.paid = order[o].paid + amount
      /\ paid.events = order[o].events + amount
      /\ paid.quoted = order[o].quoted /\ paid.total = order[o].total
      /\ paid.status = order[o].status /\ paid.delivered = order[o].delivered
  BY <1>1, AddPaymentType
<1>3. /\ new \in Row
      /\ new.paid = paid.paid /\ new.events = paid.events
      /\ new.quoted = paid.quoted /\ new.total = paid.total
      /\ new.status = paid.status /\ new.delivered = paid.delivered
      /\ new.payStatus = IF amount = Outstanding(order[o]) THEN "PAID" ELSE "PENDING"
  BY <1>1, <1>2, PaidRowType DEF PaidRow, Row
<1>4. order[o].quoted => (new.payStatus = "PAID" <=> new.paid >= new.total)
  BY <1>1, <1>2, <1>3 DEF RecordPendingPayment, Outstanding, Row
<1>5. Coherent(new)
  BY <1>1, <1>2, <1>3, <1>4 DEF Coherent
<1>6. order' = [order EXCEPT ![o] = new] /\ tx' = tx
  BY DEF RecordPendingPayment, PaidRow
<1> HIDE DEF new
<1> QED
  BY <1>3, <1>5, <1>6, CoherentOrder

(* Every operation reads coherent rows and writes coherent rows. *)
LEMMA CoherentStep == TypeOK /\ RowsCoherent /\ [Next]_vars => RowsCoherent'
<1> SUFFICES ASSUME TypeOK, RowsCoherent, [Next]_vars PROVE RowsCoherent'
  OBVIOUS
<1>0. ASSUME UNCHANGED <<order, tx>> PROVE RowsCoherent'
  BY <1>0 DEF RowsCoherent, Coherent
<1>1. CASE UNCHANGED vars
  BY <1>0, <1>1 DEF vars, orderVars
<1>2. ASSUME NEW c \in Clients,
             \/ \E o \in Orders, deposit \in 0 .. MaxMoney : Create(c, o, deposit)
             \/ \E o \in Orders : Convert(c, o) \/ Begin(c, o)
             \/ Abort(c)
             \/ Look(c)
      PROVE  RowsCoherent'
  <2>1. ASSUME NEW o \in Orders, Begin(c, o) PROVE RowsCoherent'
    <3>1. \A d \in Clients : tx'[d] = tx[d] \/ tx'[d].row = order[o]
      BY <2>1 DEF Begin, TypeOK
    <3> QED
      BY <2>1, <3>1 DEF RowsCoherent, Coherent, Begin
  <2>2. CASE Abort(c)
    BY <2>2 DEF RowsCoherent, Coherent, Abort, TypeOK
  <2>3. CASE Look(c)
    <3>1. tx[c] # Idle /\ tx[c] \in ActiveTx
      BY <2>3, PhaseNotIdle, TxType DEF Look
    <3>2. \A d \in Clients : tx'[d] # Idle => tx[d] # Idle /\ tx'[d].row = tx[d].row
      BY <2>3, <3>1 DEF Look, TypeOK, ActiveTx
    <3> QED
      BY <2>3, <3>2 DEF RowsCoherent, Coherent, Look
  <2> QED
    BY <1>2, <2>1, <2>2, <2>3, CoherentCreate, CoherentConvert
<1>3. ASSUME NEW c \in Clients,
             \/ \E status \in Statuses : Update(c, status)
             \/ Authorize(c)
             \/ Reject(c)
             \/ \E total \in 0 .. MaxMoney : Quote(c, total)
             \/ \E n \in TestNames, result \in {"passed", "failed"} : AddTest(c, n, result)
      PROVE  RowsCoherent'
  <2>1. /\ tx[c] # Idle /\ tx[c].row \in Row /\ tx[c].order \in Orders
        /\ Coherent(tx[c].row)
    <3>1. tx[c] # Idle
      BY <1>3, PhaseNotIdle DEF Update, Authorize, Reject, Quote, AddTest
    <3> QED
      BY <3>1, TxType DEF RowsCoherent
  <2>2. ASSUME NEW s \in Statuses \ {"COMPLETED"} PROVE
             /\ [tx[c].row EXCEPT !.status = s] \in Row
             /\ Coherent([tx[c].row EXCEPT !.status = s])
    BY <2>1, CoherentStatus DEF Row
  <2>3. ASSUME NEW s \in Statuses \ {"COMPLETED"},
               WriteBack(c, [tx[c].row EXCEPT !.status = s])
        PROVE  RowsCoherent'
    BY <2>1, <2>2, <2>3, CoherentWriteBack
  <2>4. ASSUME NEW s \in Statuses, Update(c, s) PROVE RowsCoherent'
    BY <2>3, <2>4 DEF Update, ManualTransition, Closed
  <2>5. CASE Authorize(c)
    BY <2>3, <2>5 DEF Authorize, Statuses
  <2>6. CASE Reject(c)
    BY <2>3, <2>6 DEF Reject, Statuses
  <2>7. ASSUME NEW total \in 0 .. MaxMoney, Quote(c, total) PROVE RowsCoherent'
    <3> DEFINE row == [tx[c].row EXCEPT
                         !.status = "QUOTED", !.quoted = TRUE, !.total = total,
                         !.payStatus = IF tx[c].row.paid >= total THEN "PAID" ELSE "PENDING"]
    <3>1. total \in Nat
      BY BoundsAssumption
    <3>2. row \in Row /\ Coherent(row)
      BY <2>1, <3>1 DEF Row, Statuses, Coherent
    <3>3. WriteBack(c, row)
      BY <2>7 DEF Quote
    <3> QED
      BY <2>1, <3>2, <3>3, CoherentWriteBack
  <2>8. ASSUME NEW n \in TestNames, NEW result \in {"passed", "failed"},
               AddTest(c, n, result)
        PROVE  RowsCoherent'
    <3> DEFINE row == [tx[c].row EXCEPT !.status = "QA"]
    <3>1. \A o \in Orders : order'[o] = order[o] \/ order'[o] = row
      BY <2>1, <2>8 DEF AddTest, Testable, TypeOK
    <3>2. Coherent(row)
      BY <2>2 DEF Statuses
    <3>3. \A d \in Clients : tx'[d] # Idle => tx'[d] = tx[d]
      BY <2>8 DEF AddTest, Testable, TypeOK
    <3> HIDE DEF row
    <3> QED
      BY <3>1, <3>2, <3>3 DEF RowsCoherent, Coherent
  <2> QED
    BY <1>3, <2>4, <2>5, <2>6, <2>7, <2>8
<1>4. ASSUME NEW c \in Clients,
             \/ \E to \in WfStates : Advance(c, to) \/ AdvanceConsume(c, to)
             \/ AdvanceDeliver(c)
      PROVE  RowsCoherent'
  <2>1. /\ tx[c] # Idle /\ tx[c] \in ActiveTx /\ tx[c].row \in Row
        /\ tx[c].order \in Orders /\ Coherent(tx[c].row)
    <3>1. tx[c] # Idle
      BY <1>4, PhaseNotIdle DEF Advance, AdvanceConsume, AdvanceDeliver
    <3> QED
      BY <3>1, TxType DEF RowsCoherent
  <2>2. ASSUME NEW to \in WfStates, Advance(c, to) PROVE RowsCoherent'
    <3> DEFINE next == PhaseStatus(WfPhase[to], tx[c].row.status)
    <3>1. next \in Statuses \cup {Absent}
      BY <2>1, PhaseStatusType DEF Row
    <3>2. next = "COMPLETED" => tx[c].row.status = "COMPLETED"
      <4>1. WfPhase[to] \in {"INTAKE", "DIAGNOSIS", "QUOTE", "AUTHORIZATION", "WORK",
                            "READY", "WARRANTY", "CANCELLED"}
        BY <2>2, WorkflowAssumption DEF Advance
      <4> QED
        BY <4>1 DEF PhaseStatus
    <3>3. next = "COMPLETED" => tx[c].row.delivered
      BY <2>1, <3>2 DEF Coherent
    <3> HIDE DEF next
    <3>4. Coherent([tx[c].row EXCEPT !.status = next])
      BY <2>1, <3>1, <3>3, CoherentStatus
    <3>5. [tx[c].row EXCEPT !.status = next] \in Row
      BY <2>1, <3>1 DEF Row
    <3>6. WriteBack(c, [tx[c].row EXCEPT !.status = next])
      BY <2>2 DEF Advance, next
    <3> QED
      BY <2>1, <3>4, <3>5, <3>6, CoherentWriteBack
  <2>3. ASSUME NEW to \in WfStates, AdvanceConsume(c, to) PROVE RowsCoherent'
    <3>1. \A d \in Clients : tx'[d] # Idle => tx[d] # Idle /\ tx'[d].row = tx[d].row
      BY <2>1, <2>3 DEF AdvanceConsume, TypeOK, ActiveTx
    <3> QED
      BY <2>3, <3>1 DEF RowsCoherent, Coherent, AdvanceConsume
  <2>4. CASE AdvanceDeliver(c)
    <3> DEFINE row == [tx[c].row EXCEPT !.status = "COMPLETED", !.delivered = TRUE]
    <3>1. row \in Row /\ Coherent(row)
      BY <2>1 DEF Row, Statuses, Coherent
    <3>2. WriteBack(c, row)
      BY <2>4 DEF AdvanceDeliver
    <3> QED
      BY <2>1, <3>1, <3>2, CoherentWriteBack
  <2> QED
    BY <1>4, <2>2, <2>3, <2>4
<1>5. ASSUME NEW c \in Clients,
             \/ \E o \in Orders, deferred \in BOOLEAN : Deliver(c, o, deferred)
             \/ \E o \in Orders, amount \in 1 .. MaxMoney, ids \in SUBSET PaymentIds :
                  RecordPendingPayment(c, o, amount, ids)
             \/ \E o \in Orders, p \in Products, q \in Nat : ReserveStock(c, o, p, q)
             \/ \E o \in Orders, p \in Products : ReleaseStock(c, o, p)
      PROVE  RowsCoherent'
  BY <1>0, <1>5, CoherentDeliver, CoherentPayment DEF ReserveStock, ReleaseStock, orderVars
<1>6. ASSUME NEW p \in Products, AdjustStock(p) PROVE RowsCoherent'
  BY <1>0, <1>6 DEF AdjustStock, orderVars
<1> QED
  BY <1>1, <1>2, <1>3, <1>4, <1>5, <1>6, NextCases

(* Whatever clients race, no reader of an order sees money and status that *)
(* disagree: whole-row writes lose updates but never mix two of them.      *)
THEOREM RowsStayCoherent == Spec => []RowsCoherent
<1>1. Init => RowsCoherent
  BY DEF Init, RowsCoherent, Coherent, BlankRow, Absent
<1> QED
  BY <1>1, TypeInit, TypeStep, CoherentStep, PTL DEF Spec

---------------------------------------------------------------------------
(* The configured workflow.                                                *)

(* Why the version check is enough: what a request looked at is an earlier *)
(* version of the instance or the current one, and a delivery in progress, *)
(* of which there is at most one, still leaves the current state.          *)
WorkflowInv ==
  /\ \A c \in Clients : tx[c].phase = "seen" =>
       LET now == instance[tx[c].order] IN
         /\ tx[c].seen.version <= now.version
         /\ tx[c].seen.version = now.version => tx[c].seen.state = now.state
  /\ \A c \in Clients : tx[c].phase = "consuming" =>
       /\ <<instance[tx[c].order].state, tx[c].to>> \in WfMoves
       /\ instance[tx[c].order].state \notin WfTerminal
  /\ \A c, d \in Clients :
       tx[c].phase = "consuming" /\ tx[d].phase = "consuming" => c = d

(* A transition that is accepted leaves the current state of the instance. *)
LEMMA AcceptedMove ==
  ASSUME TypeOK, WorkflowInv, NEW c \in Clients, NEW to \in WfStates,
         tx[c].phase = "seen", MayAdvance(c, to)
  PROVE  /\ <<instance[tx[c].order].state, to>> \in WfMoves
         /\ instance[tx[c].order].state \notin WfTerminal
<1>1. tx[c].seen.state = instance[tx[c].order].state
  BY DEF WorkflowInv, MayAdvance
<1> QED
  BY <1>1 DEF MayAdvance

(* Moving an instance raises its version by one and touches no other. *)
LEMMA MovedInstance ==
  ASSUME TypeOK, NEW c \in Clients, tx[c] # Idle, NEW to \in WfStates, MoveInstance(c, to)
  PROVE  /\ tx[c].order \in Orders
         /\ instance'[tx[c].order].state = to
         /\ instance'[tx[c].order].version = instance[tx[c].order].version + 1
         /\ \A o \in Orders \ {tx[c].order} : instance'[o] = instance[o]
BY TxType DEF MoveInstance, TypeOK, Instance

(* A step that ends a transaction and moves its instance keeps WorkflowInv *)
(* when nobody else is in the middle of a delivery.                        *)
LEMMA WorkflowMove ==
  ASSUME TypeOK, WorkflowInv, NEW c \in Clients, tx[c] # Idle, NEW to \in WfStates,
         MoveInstance(c, to), tx' = [tx EXCEPT ![c] = Idle],
         \A d \in Clients \ {c} : tx[d].phase # "consuming"
  PROVE  WorkflowInv'
<1>1. \A d \in Clients : tx'[d] = Idle \/ (d # c /\ tx'[d] = tx[d])
  BY DEF TypeOK
<1>2. ASSUME NEW d \in Clients, tx'[d].phase = "seen"
      PROVE  /\ tx'[d].seen.version <= instance'[tx'[d].order].version
             /\ tx'[d].seen.version = instance'[tx'[d].order].version =>
                  tx'[d].seen.state = instance'[tx'[d].order].state
  <2>1. d # c /\ tx'[d] = tx[d] /\ tx[d].phase = "seen"
    BY <1>1, <1>2 DEF Idle
  <2>2. tx[d].order \in Orders /\ tx[d].seen.version \in Nat
    BY <2>1, PhaseNotIdle, TxType DEF Instance
  <2>3. \A o \in Orders : instance[o].version \in Nat
    BY DEF TypeOK, Instance
  <2>4. tx[d].seen.version <= instance[tx[d].order].version
        /\ (tx[d].seen.version = instance[tx[d].order].version =>
             tx[d].seen.state = instance[tx[d].order].state)
    BY <2>1 DEF WorkflowInv
  <2>5. CASE tx[d].order = tx[c].order
    BY <2>1, <2>2, <2>3, <2>4, <2>5, MovedInstance
  <2>6. CASE tx[d].order # tx[c].order
    BY <2>1, <2>2, <2>4, <2>6, MovedInstance
  <2> QED
    BY <2>5, <2>6
<1>3. \A d \in Clients : tx'[d].phase # "consuming"
  BY <1>1 DEF Idle
<1> QED
  BY <1>2, <1>3 DEF WorkflowInv

(* A step that leaves the instances alone and starts, ends or refreshes    *)
(* transactions keeps WorkflowInv.                                         *)
LEMMA WorkflowStill ==
  ASSUME TypeOK, WorkflowInv, UNCHANGED instance,
         \A d \in Clients : \/ tx'[d] = tx[d]
                            \/ tx'[d].phase \notin {"seen", "consuming"}
  PROVE  WorkflowInv'
BY DEF WorkflowInv

(* Every step keeps WorkflowInv. *)
LEMMA WorkflowStep == TypeOK /\ WorkflowInv /\ [Next]_vars => WorkflowInv'
<1> SUFFICES ASSUME TypeOK, WorkflowInv, [Next]_vars PROVE WorkflowInv'
  OBVIOUS
<1>0. ASSUME UNCHANGED <<instance, tx>> PROVE WorkflowInv'
  BY <1>0, WorkflowStill
<1>1. CASE UNCHANGED vars
  BY <1>0, <1>1 DEF vars, orderVars
<1>2. ASSUME NEW c \in Clients,
             \/ \E o \in Orders, deposit \in 0 .. MaxMoney : Create(c, o, deposit)
             \/ \E o \in Orders : Convert(c, o) \/ Begin(c, o)
             \/ Abort(c)
             \/ Look(c)
      PROVE  WorkflowInv'
  <2>1. ASSUME NEW o \in Orders, Begin(c, o) PROVE WorkflowInv'
    <3>1. \A d \in Clients : tx'[d] = tx[d] \/ tx'[d].phase = "read"
      BY <2>1 DEF Begin, TypeOK
    <3> QED
      BY <2>1, <3>1, WorkflowStill DEF Begin
  <2>2. CASE Abort(c)
    <3>1. \A d \in Clients : tx'[d] = tx[d] \/ tx'[d].phase = "idle"
      BY <2>2 DEF Abort, TypeOK, Idle
    <3> QED
      BY <2>2, <3>1, WorkflowStill DEF Abort
  <2>3. CASE Look(c)
    <3>1. tx[c] \in ActiveTx /\ tx[c].order \in Orders
      BY <2>3, PhaseNotIdle, TxType DEF Look
    <3>2. /\ tx'[c].phase = "seen" /\ tx'[c].order = tx[c].order
          /\ tx'[c].seen = instance[tx[c].order]
      BY <2>3, <3>1 DEF Look, TypeOK, ActiveTx
    <3>3. \A d \in Clients \ {c} : tx'[d] = tx[d]
      BY <2>3 DEF Look, TypeOK
    <3>4. instance' = instance /\ instance[tx[c].order].version \in Nat
      BY <2>3, <3>1 DEF Look, TypeOK, Instance
    <3> QED
      BY <3>2, <3>3, <3>4 DEF WorkflowInv
  <2> QED
    BY <1>0, <1>2, <2>1, <2>2, <2>3 DEF Create, Convert
<1>3. ASSUME NEW c \in Clients,
             \/ \E status \in Statuses : Update(c, status)
             \/ Authorize(c)
             \/ Reject(c)
             \/ \E total \in 0 .. MaxMoney : Quote(c, total)
             \/ \E n \in TestNames, result \in {"passed", "failed"} : AddTest(c, n, result)
      PROVE  WorkflowInv'
  <2>1. tx' = [tx EXCEPT ![c] = Idle] /\ instance' = instance
    BY <1>3 DEF Update, Authorize, Reject, Quote, AddTest, WriteBack
  <2>2. \A d \in Clients : tx'[d] = tx[d] \/ tx'[d].phase = "idle"
    BY <2>1 DEF TypeOK, Idle
  <2> QED
    BY <2>1, <2>2, WorkflowStill
<1>4. ASSUME NEW c \in Clients, NEW to \in WfStates, Advance(c, to) PROVE WorkflowInv'
  <2>1. tx[c] # Idle
    BY <1>4, PhaseNotIdle DEF Advance
  <2>2. \A d \in Clients : tx[d].phase # "consuming"
    BY <1>4 DEF Advance, WorkflowLocked
  <2> QED
    BY <1>4, <2>1, <2>2, WorkflowMove DEF Advance, WriteBack
<1>5. ASSUME NEW c \in Clients, NEW to \in WfStates, AdvanceConsume(c, to)
      PROVE  WorkflowInv'
  <2>1. tx[c] \in ActiveTx
    BY <1>5, PhaseNotIdle, TxType DEF AdvanceConsume
  <2>2. /\ tx'[c].phase = "consuming" /\ tx'[c].order = tx[c].order /\ tx'[c].to = to
        /\ \A d \in Clients \ {c} : tx'[d] = tx[d]
    BY <1>5, <2>1 DEF AdvanceConsume, TypeOK, ActiveTx
  <2>3. \A d \in Clients : tx[d].phase # "consuming"
    BY <1>5 DEF AdvanceConsume, WorkflowLocked
  <2>4. /\ <<instance[tx[c].order].state, to>> \in WfMoves
        /\ instance[tx[c].order].state \notin WfTerminal
    BY <1>5, AcceptedMove DEF AdvanceConsume
  <2>5. instance' = instance
    BY <1>5 DEF AdvanceConsume
  <2> QED
    BY <2>2, <2>3, <2>4, <2>5 DEF WorkflowInv
<1>6. ASSUME NEW c \in Clients, AdvanceDeliver(c) PROVE WorkflowInv'
  <2>1. tx[c] # Idle /\ tx[c].phase = "consuming" /\ tx[c].to \in WfStates
    BY <1>6, PhaseNotIdle, TxType DEF AdvanceDeliver
  <2>2. \A d \in Clients \ {c} : tx[d].phase # "consuming"
    BY <2>1 DEF WorkflowInv
  <2> QED
    BY <1>6, <2>1, <2>2, WorkflowMove DEF AdvanceDeliver, WriteBack
<1>7. ASSUME NEW c \in Clients,
             \/ \E o \in Orders, deferred \in BOOLEAN : Deliver(c, o, deferred)
             \/ \E o \in Orders, amount \in 1 .. MaxMoney, ids \in SUBSET PaymentIds :
                  RecordPendingPayment(c, o, amount, ids)
             \/ \E o \in Orders, p \in Products, q \in Nat : ReserveStock(c, o, p, q)
             \/ \E o \in Orders, p \in Products : ReleaseStock(c, o, p)
      PROVE  WorkflowInv'
  BY <1>0, <1>7 DEF Deliver, RecordPendingPayment, ReserveStock, ReleaseStock, orderVars
<1>8. ASSUME NEW p \in Products, AdjustStock(p) PROVE WorkflowInv'
  BY <1>0, <1>8 DEF AdjustStock, orderVars
<1> QED
  BY <1>1, <1>2, <1>3, <1>4, <1>5, <1>6, <1>7, <1>8, NextCases

(* How instances change: not at all, or along one accepted transition. *)
LEMMA InstanceStep ==
  ASSUME TypeOK, WorkflowInv, [Next]_vars, NEW o \in Orders, instance'[o] # instance[o]
  PROVE  /\ <<instance[o].state, instance'[o].state>> \in WfMoves
         /\ instance[o].state \notin WfTerminal
         /\ instance'[o].version = instance[o].version + 1
<1>1. CASE \E c \in Clients, to \in WfStates : Advance(c, to)
  <2>1. PICK c \in Clients, to \in WfStates : Advance(c, to)
    BY <1>1
  <2>2. tx[c] # Idle /\ MoveInstance(c, to)
    BY <2>1, PhaseNotIdle DEF Advance
  <2>3. o = tx[c].order
    BY <2>2, MovedInstance
  <2> QED
    BY <2>1, <2>2, <2>3, MovedInstance, AcceptedMove DEF Advance
<1>2. CASE \E c \in Clients : AdvanceDeliver(c)
  <2>1. PICK c \in Clients : AdvanceDeliver(c)
    BY <1>2
  <2>2. tx[c] # Idle /\ MoveInstance(c, tx[c].to) /\ tx[c].to \in WfStates
    BY <2>1, PhaseNotIdle, TxType DEF AdvanceDeliver
  <2>3. o = tx[c].order
    BY <2>2, MovedInstance
  <2> QED
    BY <2>1, <2>2, <2>3, MovedInstance DEF AdvanceDeliver, WorkflowInv
<1>3. UNCHANGED instance \/ (\E c \in Clients, to \in WfStates : Advance(c, to))
                         \/ (\E c \in Clients : AdvanceDeliver(c))
  BY NextCases DEF vars, orderVars, Create, Convert, Begin, Abort, Look, Update,
     Authorize, Reject, Quote, AddTest, AdvanceConsume, Deliver, RecordPendingPayment,
     ReserveStock, ReleaseStock, AdjustStock
<1> QED
  BY <1>1, <1>2, <1>3

(* No interleaving of configured transitions skips an edge, applies one    *)
(* twice or leaves a terminal state.                                       *)
THEOREM WorkflowRespected == Spec => WorkflowFollowsGraph
<1>1. Init => WorkflowInv
  BY DEF Init, WorkflowInv, Idle
<1>2. TypeOK /\ WorkflowInv /\ [Next]_vars =>
        [\A o \in Orders : instance'[o] # instance[o] =>
           /\ <<instance[o].state, instance'[o].state>> \in WfMoves
           /\ instance[o].state \notin WfTerminal
           /\ instance'[o].version = instance[o].version + 1]_vars
  BY InstanceStep
<1> QED
  BY <1>1, <1>2, TypeInit, TypeStep, WorkflowStep, PTL DEF Spec, WorkflowFollowsGraph

---------------------------------------------------------------------------
(* Consumed stock.                                                         *)

(* No stock operation rewrites a consumed row. *)
LEMMA ConsumedKept ==
  ASSUME StockTypeOK, NEW u \in Orders, NEW v \in Products, Status(u, v) = Consumed,
         \/ UNCHANGED stockVars
         \/ \E p \in Products : (\E d \in Int : Move(p, d)) \/ (\E n \in Int : Count(p, n))
         \/ \E o \in Orders, p \in Products, q \in Nat : Reserve(o, p, q)
         \/ \E o \in Orders, p \in Products : Release(o, p)
         \/ \E o \in Orders : ReleaseAll(o)
         \/ \E o \in Orders, rows \in SUBSET Products : ConsumeRows(o, rows)
  PROVE  reservation'[u][v] = reservation[u][v]
<1> USE DEF Status, Consumed, Reserved
<1>0. reservation \in [Orders -> [Products -> Reservation]]
  BY DEF StockTypeOK
<1>1. CASE UNCHANGED stockVars
  BY <1>1 DEF stockVars
<1>2. CASE \E p \in Products : (\E d \in Int : Move(p, d)) \/ (\E n \in Int : Count(p, n))
  BY <1>2 DEF Move, Count
<1>3. CASE \E o \in Orders, p \in Products, q \in Nat : Reserve(o, p, q)
  BY <1>0, <1>3 DEF Reserve
<1>4. CASE \E o \in Orders, p \in Products : Release(o, p)
  BY <1>0, <1>4 DEF Release
<1>5. CASE \E o \in Orders : ReleaseAll(o)
  BY <1>0, <1>5 DEF ReleaseAll
<1>6. CASE \E o \in Orders, rows \in SUBSET Products : ConsumeRows(o, rows)
  BY <1>0, <1>6 DEF ConsumeRows
<1> QED
  BY <1>1, <1>2, <1>3, <1>4, <1>5, <1>6

(* Every step of the service does one stock operation, or none; and it     *)
(* reserves only for an order that is open.                                *)
LEMMA StockStep ==
  ASSUME TypeOK, [Next]_vars
  PROVE  \/ UNCHANGED stockVars
         \/ \E p \in Products : (\E d \in Int : Move(p, d)) \/ (\E n \in Int : Count(p, n))
         \/ \E o \in Orders, p \in Products, q \in Nat :
              Reserve(o, p, q) /\ order[o].status \notin Closed /\ UNCHANGED order
         \/ \E o \in Orders, p \in Products : Release(o, p)
         \/ \E o \in Orders : ReleaseAll(o)
         \/ \E o \in Orders, rows \in SUBSET Products : ConsumeRows(o, rows)
<1>1. CASE \E c \in Clients, to \in WfStates : Advance(c, to)
  <2>1. PICK c \in Clients, to \in WfStates : Advance(c, to)
    BY <1>1
  <2>2. tx[c].order \in Orders
    BY <2>1, PhaseNotIdle, TxType DEF Advance
  <2> QED
    BY <2>1, <2>2 DEF Advance
<1>2. CASE \E c \in Clients : AdvanceDeliver(c)
  <2>1. PICK c \in Clients : AdvanceDeliver(c)
    BY <1>2
  <2>2. tx[c].order \in Orders /\ tx[c].rows \in SUBSET Products
    BY <2>1, PhaseNotIdle, TxType DEF AdvanceDeliver
  <2> QED
    BY <2>1, <2>2 DEF AdvanceDeliver
<1>3. CASE \E c \in Clients, o \in Orders, deferred \in BOOLEAN : Deliver(c, o, deferred)
  BY <1>3 DEF Deliver
<1>4. CASE \E p \in Products : AdjustStock(p)
  BY <1>4, MaxStockAssumption DEF AdjustStock
<1>5. CASE \E c \in Clients, o \in Orders, p \in Products, q \in Nat : ReserveStock(c, o, p, q)
  BY <1>5 DEF ReserveStock, orderVars
<1>6. CASE \E c \in Clients, o \in Orders, p \in Products : ReleaseStock(c, o, p)
  BY <1>6 DEF ReleaseStock
<1>7. \/ UNCHANGED stockVars
      \/ \E c \in Clients, to \in WfStates : Advance(c, to)
      \/ \E c \in Clients : AdvanceDeliver(c)
      \/ \E c \in Clients, o \in Orders, deferred \in BOOLEAN : Deliver(c, o, deferred)
      \/ \E p \in Products : AdjustStock(p)
      \/ \E c \in Clients, o \in Orders, p \in Products, q \in Nat : ReserveStock(c, o, p, q)
      \/ \E c \in Clients, o \in Orders, p \in Products : ReleaseStock(c, o, p)
  BY NextCases DEF vars, Create, Convert, Begin, Abort, Look, Update, Authorize,
     Reject, Quote, AddTest, AdvanceConsume, RecordPendingPayment
<1> QED
  BY <1>1, <1>2, <1>3, <1>4, <1>5, <1>6, <1>7

(* Parts built into a delivered device never return to the shelf. *)
THEOREM ConsumedStaysConsumed == Spec => ConsumedIsFinal
<1>1. TypeOK /\ [Next]_vars =>
        [\A o \in Orders, p \in Products :
           Status(o, p) = Consumed => reservation'[o][p] = reservation[o][p]]_stockVars
  BY StockStep, ConsumedKept, Zenon DEF TypeOK
<1> QED
  BY <1>1, TypeInit, TypeStep, PTL DEF Spec, ConsumedIsFinal

---------------------------------------------------------------------------
(* Conservation of stock.                                                  *)

(* What a table of reservations keeps out of the balance of p, by order.   *)
TakenIn(rows, p) ==
  [o \in Orders |-> IF rows[o][p].status \in {Reserved, Consumed}
                      THEN rows[o][p].quantity ELSE 0]

LEMMA TakenNatural ==
  ASSUME NEW rows \in [Orders -> [Products -> Reservation]], NEW p \in Products
  PROVE  \A o \in Orders : TakenIn(rows, p)[o] \in Nat
BY DEF TakenIn, Reservation

(* What is promised of a product changes by what one order's row changes.  *)
LEMMA PromisedChanges ==
  ASSUME StockTypeOK, StockTypeOK', NEW p \in Products, NEW o \in Orders,
         \A u \in Orders \ {o} : reservation'[u][p] = reservation[u][p]
  PROVE  /\ Promised(p)' =
              Promised(p) - TakenIn(reservation, p)[o] + TakenIn(reservation', p)[o]
         /\ Promised(p) \in Nat
         /\ TakenIn(reservation, p)[o] \in Nat
         /\ TakenIn(reservation', p)[o] \in Nat
<1>1. /\ Promised(p) = SumFunctionOnSet(TakenIn(reservation, p), Orders)
      /\ Promised(p)' = SumFunctionOnSet(TakenIn(reservation', p), Orders)
  BY DEF Promised, TakenBy, TakenIn, Status
<1>2. /\ \A u \in Orders : TakenIn(reservation, p)[u] \in Nat
      /\ \A u \in Orders : TakenIn(reservation', p)[u] \in Nat
  BY TakenNatural DEF StockTypeOK
<1>3. \A u \in Orders \ {o} : TakenIn(reservation, p)[u] = TakenIn(reservation', p)[u]
  BY DEF TakenIn
<1>4. \A u \in Orders :
        TakenIn(reservation, p)[u] \in Int /\ TakenIn(reservation', p)[u] \in Int
  BY <1>2
<1>5. Promised(p)' =
        Promised(p) - TakenIn(reservation, p)[o] + TakenIn(reservation', p)[o]
  BY <1>1, <1>3, <1>4, OrdersAssumption, SumChanged
<1>6. Promised(p) \in Nat
  BY <1>1, <1>2, OrdersAssumption, SumNatural
<1> QED
  BY <1>2, <1>5, <1>6

(* ... and not at all when no row of the product changes.                  *)
LEMMA PromisedStays ==
  ASSUME StockTypeOK, NEW p \in Products,
         \A u \in Orders : reservation'[u][p] = reservation[u][p]
  PROVE  Promised(p)' = Promised(p) /\ Promised(p) \in Nat
<1>1. /\ Promised(p) = SumFunctionOnSet(TakenIn(reservation, p), Orders)
      /\ Promised(p)' = SumFunctionOnSet(TakenIn(reservation', p), Orders)
  BY DEF Promised, TakenBy, TakenIn, Status
<1>2. TakenIn(reservation', p) = TakenIn(reservation, p)
  BY DEF TakenIn
<1>3. \A u \in Orders : TakenIn(reservation, p)[u] \in Nat
  BY TakenNatural DEF StockTypeOK
<1> QED
  BY <1>1, <1>2, <1>3, OrdersAssumption, SumNatural

(* Every stock operation takes from the balance what it promises, and puts *)
(* back what it no longer does.                                            *)
LEMMA ConservedStep ==
  ASSUME StockTypeOK, StockTypeOK', StockConserved,
         \/ UNCHANGED stockVars
         \/ \E p \in Products : (\E d \in Int : Move(p, d)) \/ (\E n \in Int : Count(p, n))
         \/ \E o \in Orders, p \in Products, q \in Nat : Reserve(o, p, q)
         \/ \E o \in Orders, p \in Products : Release(o, p)
         \/ \E o \in Orders : ReleaseAll(o)
         \/ \E o \in Orders, rows \in SUBSET Products : ConsumeRows(o, rows)
  PROVE  StockConserved'
<1> SUFFICES ASSUME NEW v \in Products
             PROVE  balance'[v] + Promised(v)' = supplied'[v]
  BY DEF StockConserved
<1>0. /\ balance \in [Products -> Nat] /\ supplied \in [Products -> Int]
      /\ reservation \in [Orders -> [Products -> Reservation]]
      /\ balance[v] \in Nat /\ supplied[v] \in Int
      /\ balance[v] + Promised(v) = supplied[v]
  BY DEF StockTypeOK, StockConserved
<1>1. CASE UNCHANGED stockVars
  BY <1>0, <1>1, PromisedStays DEF stockVars
<1>2. ASSUME NEW p \in Products,
             (\E d \in Int : Move(p, d)) \/ (\E n \in Int : Count(p, n))
      PROVE  balance'[v] + Promised(v)' = supplied'[v]
  <2>1. Promised(v)' = Promised(v) /\ Promised(v) \in Nat
    BY <1>2, PromisedStays DEF Move, Count
  <2>2. CASE \E d \in Int : Move(p, d)
    BY <1>0, <2>1, <2>2 DEF Move
  <2>3. CASE \E n \in Int : Count(p, n)
    BY <1>0, <2>1, <2>3 DEF Count
  <2> QED
    BY <1>2, <2>2, <2>3
<1>3. ASSUME NEW o \in Orders, NEW p \in Products, NEW q \in Nat, Reserve(o, p, q)
      PROVE  balance'[v] + Promised(v)' = supplied'[v]
  <2>1. CASE v # p
    <3>1. /\ \A u \in Orders : reservation'[u][v] = reservation[u][v]
          /\ balance'[v] = balance[v] /\ supplied'[v] = supplied[v]
      BY <1>0, <1>3, <2>1 DEF Reserve
    <3> QED
      BY <1>0, <3>1, PromisedStays
  <2>2. CASE v = p
    <3>1. /\ \A u \in Orders \ {o} : reservation'[u][v] = reservation[u][v]
          /\ reservation'[o][v] = [status |-> Reserved, quantity |-> q]
          /\ balance'[v] = balance[v] - (q - Held(o, v)) /\ supplied'[v] = supplied[v]
          /\ Status(o, v) # Consumed
      BY <1>0, <1>3, <2>2 DEF Reserve, Increase
    <3>2. TakenIn(reservation, v)[o] = Held(o, v) /\ TakenIn(reservation', v)[o] = q
      BY <3>1 DEF TakenIn, Held, Status, Reserved, Consumed
    <3> QED
      BY <1>0, <3>1, <3>2, PromisedChanges
  <2> QED
    BY <2>1, <2>2
<1>4. ASSUME NEW o \in Orders, NEW p \in Products, Release(o, p)
      PROVE  balance'[v] + Promised(v)' = supplied'[v]
  <2>1. CASE v # p
    <3>1. /\ \A u \in Orders : reservation'[u][v] = reservation[u][v]
          /\ balance'[v] = balance[v] /\ supplied'[v] = supplied[v]
      BY <1>0, <1>4, <2>1 DEF Release
    <3> QED
      BY <1>0, <3>1, PromisedStays
  <2>2. CASE v = p
    <3>1. /\ \A u \in Orders \ {o} : reservation'[u][v] = reservation[u][v]
          /\ reservation'[o][v].status = Released
          /\ balance'[v] = balance[v] + reservation[o][v].quantity
          /\ supplied'[v] = supplied[v]
          /\ Status(o, v) = Reserved
      BY <1>0, <1>4, <2>2 DEF Release, Reservation
    <3>2. /\ TakenIn(reservation, v)[o] = reservation[o][v].quantity
          /\ TakenIn(reservation', v)[o] = 0
      BY <3>1 DEF TakenIn, Status, Reserved, Released, Consumed
    <3> QED
      BY <1>0, <3>1, <3>2, PromisedChanges
  <2> QED
    BY <2>1, <2>2
<1>5. ASSUME NEW o \in Orders, ReleaseAll(o)
      PROVE  balance'[v] + Promised(v)' = supplied'[v]
  <2>1. /\ \A u \in Orders \ {o} : reservation'[u][v] = reservation[u][v]
        /\ reservation'[o][v] = IF Status(o, v) = Reserved
                                  THEN [reservation[o][v] EXCEPT !.status = Released]
                                  ELSE reservation[o][v]
        /\ balance'[v] = balance[v] + Held(o, v) /\ supplied'[v] = supplied[v]
    BY <1>0, <1>5 DEF ReleaseAll, Status
  <2>2. reservation[o][v] \in Reservation
    BY <1>0
  <2>3. TakenIn(reservation', v)[o] = TakenIn(reservation, v)[o] - Held(o, v)
    BY <2>1, <2>2 DEF TakenIn, Held, Status, Reservation, Reserved, Released, Consumed
  <2>4. Held(o, v) \in Nat
    BY <2>2 DEF Held, Reservation
  <2> QED
    BY <1>0, <2>1, <2>3, <2>4, PromisedChanges
<1>6. ASSUME NEW o \in Orders, NEW rows \in SUBSET Products, ConsumeRows(o, rows)
      PROVE  balance'[v] + Promised(v)' = supplied'[v]
  <2>1. /\ \A u \in Orders \ {o} : reservation'[u][v] = reservation[u][v]
        /\ reservation'[o][v] = IF v \in rows /\ Status(o, v) = Reserved
                                  THEN [reservation[o][v] EXCEPT !.status = Consumed]
                                  ELSE reservation[o][v]
        /\ balance' = balance /\ supplied' = supplied
    BY <1>0, <1>6 DEF ConsumeRows, Status
  <2>2. reservation[o][v] \in Reservation
    BY <1>0
  <2>3. TakenIn(reservation', v)[o] = TakenIn(reservation, v)[o]
    BY <2>1, <2>2 DEF TakenIn, Status, Reservation, Reserved, Consumed
  <2> QED
    BY <1>0, <2>1, <2>3, PromisedChanges
<1> QED
  BY <1>1, <1>2, <1>3, <1>4, <1>5, <1>6

LEMMA ConservedInit == Init => StockConserved
<1> SUFFICES ASSUME Init, NEW p \in Products
             PROVE  balance[p] + Promised(p) = supplied[p]
  BY DEF StockConserved
<1>1. \A o \in Orders : TakenBy(p)[o] = 0
  BY DEF Init, StockInit, TakenBy, Status, NoRow, Reserved, Consumed
<1>2. Promised(p) = 0
  BY <1>1, OrdersAssumption, SumZero DEF Promised
<1> QED
  BY <1>2 DEF Init, StockInit

(* For any number of orders, products and concurrent requests, what the    *)
(* movements and counts of the stock desk brought in is on the shelf,      *)
(* reserved or built into a device.                                        *)
THEOREM StockIsConserved == Spec => []StockConserved
<1>1. TypeOK /\ StockConserved /\ [Next]_vars => StockConserved'
  <2> SUFFICES ASSUME TypeOK, StockConserved, [Next]_vars
               PROVE  StockConserved'
    OBVIOUS
  <2>1. StockTypeOK /\ StockTypeOK'
    BY TypeStep DEF TypeOK
  <2> QED
    BY <2>1, StockStep, ConservedStep
<1> QED
  BY <1>1, ConservedInit, TypeInit, TypeStep, PTL DEF Spec

---------------------------------------------------------------------------
(* Cancelled orders.                                                       *)

(* An order row, or a snapshot of one, is only ever CANCELLED while the    *)
(* workflow instance stands in a cancelled, hence terminal, state.         *)
CancelledInv ==
  /\ \A o \in Orders : order[o].status = "CANCELLED" =>
       WfPhase[instance[o].state] = "CANCELLED"
  /\ \A c \in Clients : tx[c] # Idle /\ tx[c].row.status = "CANCELLED" =>
       WfPhase[instance[tx[c].order].state] = "CANCELLED"

(* Where snapshots come from: the transaction had it, or it read it now. *)
LEMMA SnapshotStep ==
  ASSUME TypeOK, [Next]_vars, NEW d \in Clients, tx'[d] # Idle
  PROVE  \/ tx[d] # Idle /\ tx'[d].row = tx[d].row /\ tx'[d].order = tx[d].order
         \/ tx'[d].order \in Orders /\ tx'[d].row = order[tx'[d].order]
<1>1. CASE UNCHANGED tx
  BY <1>1
<1>2. ASSUME NEW c \in Clients, tx' = [tx EXCEPT ![c] = Idle]
      PROVE  tx[d] # Idle /\ tx'[d].row = tx[d].row /\ tx'[d].order = tx[d].order
  BY <1>2 DEF TypeOK
<1>3. ASSUME NEW c \in Clients, NEW o \in Orders, Begin(c, o)
      PROVE  \/ tx[d] # Idle /\ tx'[d].row = tx[d].row /\ tx'[d].order = tx[d].order
             \/ tx'[d].order \in Orders /\ tx'[d].row = order[tx'[d].order]
  BY <1>3 DEF Begin, TypeOK
<1>4. ASSUME NEW c \in Clients,
             Look(c) \/ \E to \in WfStates : AdvanceConsume(c, to)
      PROVE  tx[d] # Idle /\ tx'[d].row = tx[d].row /\ tx'[d].order = tx[d].order
  <2>1. tx[c] # Idle /\ tx[c] \in ActiveTx
    BY <1>4, PhaseNotIdle, TxType DEF Look, AdvanceConsume
  <2>2. CASE d # c
    BY <1>4, <2>2 DEF Look, AdvanceConsume, TypeOK
  <2>3. CASE d = c
    <3>1. ASSUME Look(c) PROVE tx'[c].row = tx[c].row /\ tx'[c].order = tx[c].order
      BY <2>1, <3>1 DEF Look, TypeOK, ActiveTx
    <3>2. ASSUME NEW to \in WfStates, AdvanceConsume(c, to)
          PROVE  tx'[c].row = tx[c].row /\ tx'[c].order = tx[c].order
      BY <2>1, <3>2 DEF AdvanceConsume, TypeOK, ActiveTx
    <3> QED
      BY <1>4, <2>1, <2>3, <3>1, <3>2
  <2> QED
    BY <2>2, <2>3
<1>5. \/ UNCHANGED tx
      \/ \E c \in Clients : tx' = [tx EXCEPT ![c] = Idle]
      \/ \E c \in Clients, o \in Orders : Begin(c, o)
      \/ \E c \in Clients : Look(c) \/ \E to \in WfStates : AdvanceConsume(c, to)
  BY NextCases DEF vars, orderVars, Create, Convert, Abort, Update, Authorize, Reject,
     Quote, AddTest, Advance, AdvanceDeliver, WriteBack, Deliver, RecordPendingPayment,
     ReserveStock, ReleaseStock, AdjustStock
<1> QED
  BY <1>1, <1>2, <1>3, <1>4, <1>5

(* Nothing but a configured transition cancels an order. *)
LEMMA CancelStep ==
  ASSUME TypeOK, [Next]_vars, NEW o \in Orders, order'[o].status = "CANCELLED",
         order'[o] # order[o]
  PROVE  \E c \in Clients, to \in WfStates :
           /\ Advance(c, to)
           /\ tx[c].order = o
           /\ PhaseStatus(WfPhase[to], tx[c].row.status) = "CANCELLED"
<1>1. ASSUME NEW c \in Clients,
             \/ \E status \in Statuses : Update(c, status)
             \/ Authorize(c)
             \/ Reject(c)
             \/ \E total \in 0 .. MaxMoney : Quote(c, total)
             \/ \E n \in TestNames, result \in {"passed", "failed"} : AddTest(c, n, result)
             \/ AdvanceDeliver(c)
      PROVE  FALSE
  <2>1. tx[c].row \in Row /\ tx[c].order \in Orders
    <3>1. tx[c] # Idle
      BY <1>1, PhaseNotIdle DEF Update, Authorize, Reject, Quote, AddTest, AdvanceDeliver
    <3> QED
      BY <3>1, TxType
  <2>2. ASSUME NEW row, row.status # "CANCELLED",
               order' = [order EXCEPT ![tx[c].order] = row]
        PROVE  FALSE
    BY <2>1, <2>2 DEF TypeOK
  <2>3. ASSUME NEW s \in Statuses, Update(c, s) PROVE FALSE
    <3>1. s # "CANCELLED" /\ [tx[c].row EXCEPT !.status = s].status = s
      BY <2>1, <2>3 DEF Update, ManualTransition, Closed, Row
    <3> QED
      BY <2>2, <2>3, <3>1 DEF Update, WriteBack
  <2>4. CASE Authorize(c)
    BY <2>1, <2>2, <2>4 DEF Authorize, WriteBack, Row
  <2>5. CASE Reject(c)
    BY <2>1, <2>2, <2>5 DEF Reject, WriteBack, Row
  <2>6. ASSUME NEW total \in 0 .. MaxMoney, Quote(c, total) PROVE FALSE
    BY <2>1, <2>2, <2>6 DEF Quote, WriteBack, Row
  <2>7. ASSUME NEW n \in TestNames, NEW result \in {"passed", "failed"},
               AddTest(c, n, result)
        PROVE  FALSE
    BY <2>1, <2>2, <2>7 DEF AddTest, Testable, Row
  <2>8. CASE AdvanceDeliver(c)
    BY <2>1, <2>2, <2>8 DEF AdvanceDeliver, WriteBack, Row
  <2> QED
    BY <1>1, <2>3, <2>4, <2>5, <2>6, <2>7, <2>8
<1>2. ASSUME NEW c \in Clients, NEW u \in Orders,
             \/ \E deposit \in 0 .. MaxMoney : Create(c, u, deposit)
             \/ Convert(c, u)
             \/ \E deferred \in BOOLEAN : Deliver(c, u, deferred)
             \/ \E amount \in 1 .. MaxMoney, ids \in SUBSET PaymentIds :
                  RecordPendingPayment(c, u, amount, ids)
      PROVE  FALSE
  <2>1. order[u] \in Row
    BY DEF TypeOK
  <2>2. ASSUME NEW row, row.status # "CANCELLED", order' = [order EXCEPT ![u] = row]
        PROVE  FALSE
    BY <2>2 DEF TypeOK
  <2>3. ASSUME NEW deposit \in 0 .. MaxMoney, Create(c, u, deposit) PROVE FALSE
    <3> DEFINE old == [BlankRow EXCEPT !.status = "INTAKE", !.described = TRUE]
    <3>0. deposit \in Nat
      BY BoundsAssumption
    <3>1. old \in Row /\ old.status = "INTAKE"
      BY DEF Row, BlankRow, Statuses
    <3>2. order' = [order EXCEPT ![u] = AddPayment(old, deposit, {})]
      BY <2>3 DEF Create
    <3> HIDE DEF old
    <3>3. AddPayment(old, deposit, {}).status = "INTAKE"
      BY <3>0, <3>1, AddPaymentType
    <3> QED
      BY <2>2, <3>2, <3>3
  <2>4. CASE Convert(c, u)
    BY <2>2, <2>4 DEF Convert, BlankRow
  <2>5. ASSUME NEW deferred \in BOOLEAN, Deliver(c, u, deferred) PROVE FALSE
    <3>1. DeliveredRow(u, deferred).status = "COMPLETED"
      <4>1. (IF deferred THEN 0 ELSE Outstanding(order[u])) \in Nat
        BY <2>1, OutstandingType
      <4>2. AddPayment(order[u], IF deferred THEN 0 ELSE Outstanding(order[u]), {}) \in Row
        BY <2>1, <4>1, AddPaymentType
      <4> QED
        BY <4>2 DEF DeliveredRow, Row
    <3>2. order' = [order EXCEPT ![u] = DeliveredRow(u, deferred)]
      BY <2>5 DEF Deliver, DeliveredRow
    <3> QED
      BY <2>2, <3>1, <3>2
  <2>6. ASSUME NEW amount \in 1 .. MaxMoney, NEW ids \in SUBSET PaymentIds,
               RecordPendingPayment(c, u, amount, ids)
        PROVE  FALSE
    <3>1. AddPayment(order[u], amount, ids) \in Row
          /\ AddPayment(order[u], amount, ids).status = order[u].status
      BY <2>1, AddPaymentType, BoundsAssumption
    <3>2. PaidRow(u, amount, ids).status = "COMPLETED"
      BY <2>6, <3>1 DEF PaidRow, Row, RecordPendingPayment
    <3>3. order' = [order EXCEPT ![u] = PaidRow(u, amount, ids)]
      BY <2>6 DEF RecordPendingPayment, PaidRow
    <3> QED
      BY <2>2, <3>2, <3>3
  <2> QED
    BY <1>2, <2>3, <2>4, <2>5, <2>6
<1>3. ASSUME NEW c \in Clients, NEW to \in WfStates, Advance(c, to)
      PROVE  /\ tx[c].order = o
             /\ PhaseStatus(WfPhase[to], tx[c].row.status) = "CANCELLED"
  <2> DEFINE next == PhaseStatus(WfPhase[to], tx[c].row.status)
  <2>1. tx[c].row \in Row /\ tx[c].order \in Orders
    BY <1>3, PhaseNotIdle, TxType DEF Advance
  <2>2. order' = [order EXCEPT ![tx[c].order] = [tx[c].row EXCEPT !.status = next]]
    BY <1>3 DEF Advance, WriteBack
  <2> HIDE DEF next
  <2>3. tx[c].order = o
    BY <2>1, <2>2 DEF TypeOK
  <2>4. order'[o].status = next
    BY <2>1, <2>2, <2>3 DEF TypeOK, Row
  <2> QED
    BY <2>3, <2>4 DEF next
<1>4. order' # order
  OBVIOUS
<1> QED
  BY <1>1, <1>2, <1>3, <1>4, NextCases DEF vars, orderVars, Begin, Abort, Look,
     AdvanceConsume, ReserveStock, ReleaseStock, AdjustStock

(* A cancelled phase is never left. *)
LEMMA CancelledPhaseKept ==
  ASSUME TypeOK, WorkflowInv, CancelledIsTerminal, [Next]_vars, NEW o \in Orders,
         WfPhase[instance[o].state] = "CANCELLED"
  PROVE  instance'[o] = instance[o]
<1>1. instance[o].state \in WfStates
  BY DEF TypeOK, Instance
<1>2. instance[o].state \in WfTerminal
  BY <1>1 DEF CancelledIsTerminal
<1> QED
  BY <1>2, InstanceStep

(* The transition that cancels finds an order that is not yet cancelled,   *)
(* leads to a cancelled phase and releases every reservation.              *)
LEMMA CancelAdvance ==
  ASSUME TypeOK, WorkflowInv, CancelledInv, CancelledIsTerminal,
         NEW c \in Clients, NEW to \in WfStates, Advance(c, to),
         PhaseStatus(WfPhase[to], tx[c].row.status) = "CANCELLED"
  PROVE  /\ ReleaseAll(tx[c].order)
         /\ WfPhase[instance'[tx[c].order].state] = "CANCELLED"
<1>1. tx[c] # Idle /\ tx[c].order \in Orders
  BY PhaseNotIdle, TxType DEF Advance
<1>2. /\ instance[tx[c].order].state \notin WfTerminal
      /\ instance[tx[c].order].state \in WfStates
  BY <1>1, AcceptedMove DEF Advance, TypeOK, Instance
<1>3. tx[c].row.status # "CANCELLED"
  BY <1>1, <1>2 DEF CancelledInv, CancelledIsTerminal
<1>4. WfPhase[to] = "CANCELLED"
  <2>1. WfPhase[to] \in {"INTAKE", "DIAGNOSIS", "QUOTE", "AUTHORIZATION", "WORK",
                        "READY", "DELIVERED", "CLOSED", "WARRANTY", "CANCELLED"}
    BY WorkflowAssumption
  <2> QED
    BY <1>3, <2>1 DEF PhaseStatus
<1>5. instance'[tx[c].order].state = to
  BY <1>1, MovedInstance DEF Advance
<1> QED
  BY <1>3, <1>4, <1>5 DEF Advance

(* Every step keeps CancelledInv, when cancellation is final. *)
LEMMA CancelledStep ==
  TypeOK /\ WorkflowInv /\ CancelledInv /\ CancelledIsTerminal /\ [Next]_vars => CancelledInv'
<1> SUFFICES ASSUME TypeOK, WorkflowInv, CancelledInv, CancelledIsTerminal, [Next]_vars
             PROVE  CancelledInv'
  OBVIOUS
<1>1. ASSUME NEW o \in Orders, order'[o].status = "CANCELLED"
      PROVE  WfPhase[instance'[o].state] = "CANCELLED"
  <2>1. CASE order'[o] = order[o]
    BY <1>1, <2>1, CancelledPhaseKept DEF CancelledInv
  <2>2. CASE order'[o] # order[o]
    BY <1>1, <2>2, CancelStep, CancelAdvance
  <2> QED
    BY <2>1, <2>2
<1>2. ASSUME NEW d \in Clients, tx'[d] # Idle, tx'[d].row.status = "CANCELLED"
      PROVE  WfPhase[instance'[tx'[d].order].state] = "CANCELLED"
  <2>1. CASE tx[d] # Idle /\ tx'[d].row = tx[d].row /\ tx'[d].order = tx[d].order
    BY <1>2, <2>1, CancelledPhaseKept, TxType DEF CancelledInv
  <2>2. CASE tx'[d].order \in Orders /\ tx'[d].row = order[tx'[d].order]
    BY <1>2, <2>2, CancelledPhaseKept DEF CancelledInv
  <2> QED
    BY <1>2, <2>1, <2>2, SnapshotStep
<1> QED
  BY <1>1, <1>2 DEF CancelledInv

(* A row becomes RESERVED only through reserve, on an order still open. *)
LEMMA ReservedStep ==
  ASSUME TypeOK, [Next]_vars, NEW o \in Orders, NEW p \in Products,
         Status(o, p)' = Reserved
  PROVE  \/ Status(o, p) = Reserved
         \/ order[o].status \notin Closed /\ UNCHANGED order
<1> USE DEF Status, Reserved
<1>0. reservation \in [Orders -> [Products -> Reservation]]
  BY DEF TypeOK, StockTypeOK
<1>1. ASSUME NEW u \in Orders, NEW v \in Products, NEW q \in Nat, Reserve(u, v, q),
             order[u].status \notin Closed, UNCHANGED order
      PROVE  \/ Status(o, p) = Reserved
             \/ order[o].status \notin Closed /\ UNCHANGED order
  BY <1>0, <1>1 DEF Reserve
<1>2. ASSUME NEW u \in Orders, Release(u, p) \/ (\E v \in Products : Release(u, v))
                                 \/ ReleaseAll(u)
      PROVE  Status(o, p) = Reserved
  BY <1>0, <1>2 DEF Release, ReleaseAll, Released
<1>3. ASSUME NEW u \in Orders, NEW rows \in SUBSET Products, ConsumeRows(u, rows)
      PROVE  Status(o, p) = Reserved
  BY <1>0, <1>3 DEF ConsumeRows, Consumed
<1>4. ASSUME UNCHANGED stockVars \/ \E v \in Products : (\E d \in Int : Move(v, d))
                                                    \/ (\E n \in Int : Count(v, n))
      PROVE  Status(o, p) = Reserved
  BY <1>4 DEF Move, Count, stockVars
<1> QED
  BY <1>1, <1>2, <1>3, <1>4, StockStep

(* No step leaves reserved stock on a cancelled order. *)
LEMMA ReleaseStep ==
  TypeOK /\ WorkflowInv /\ CancelledInv /\ CancelledIsTerminal /\ CancelledHoldsNoStock
    /\ [Next]_vars => CancelledHoldsNoStock'
<1> SUFFICES ASSUME TypeOK, WorkflowInv, CancelledInv, CancelledIsTerminal,
                    CancelledHoldsNoStock, [Next]_vars,
                    NEW o \in Orders, order'[o].status = "CANCELLED", NEW p \in Products
             PROVE  Status(o, p)' # Reserved
  BY DEF CancelledHoldsNoStock
<1>1. CASE order'[o] = order[o]
  <2>1. Status(o, p) # Reserved
    BY <1>1 DEF CancelledHoldsNoStock
  <2>2. order[o].status \in Closed
    BY <1>1 DEF Closed
  <2> QED
    BY <2>1, <2>2, ReservedStep
<1>2. CASE order'[o] # order[o]
  <2>1. ReleaseAll(o)
    BY <1>2, CancelStep, CancelAdvance
  <2>2. reservation \in [Orders -> [Products -> Reservation]]
    BY DEF TypeOK, StockTypeOK
  <2> QED
    BY <2>1, <2>2 DEF ReleaseAll, Status, Reserved, Released
<1> QED
  BY <1>1, <1>2

(* Where a configuration makes cancellation final, a cancelled order holds *)
(* no stock, however many clients reserve, edit and advance it meanwhile.  *)
THEOREM CancelledReleased ==
  ASSUME CancelledIsTerminal
  PROVE  Spec => []CancelledHoldsNoStock
<1>1. Init => WorkflowInv /\ CancelledInv /\ CancelledHoldsNoStock
  BY DEF Init, WorkflowInv, CancelledInv, CancelledHoldsNoStock, Idle, BlankRow, Absent
<1>2. CancelledIsTerminal
  OBVIOUS
<1>3. TypeOK /\ WorkflowInv /\ CancelledInv /\ CancelledHoldsNoStock /\ [Next]_vars =>
        (TypeOK /\ WorkflowInv /\ CancelledInv /\ CancelledHoldsNoStock)'
  BY <1>2, TypeStep, WorkflowStep, CancelledStep, ReleaseStep
<1> QED
  BY <1>1, <1>3, TypeInit, PTL DEF Spec

---------------------------------------------------------------------------
(* What an order keeps to, when nobody writes it between the time that a   *)
(* request has read it and its commit, nor its tests and reservations      *)
(* between the checks of a configured delivery and its commit.  A lock     *)
(* from the read on would see to that; the code does not have one (the     *)
(* runs with two clients show what follows).                               *)

Isolated ==
  \A c \in Clients : tx[c] # Idle /\ tx'[c] = tx[c] =>
    /\ order'[tx[c].order] = order[tx[c].order]
    /\ tx[c].phase = "consuming" =>
         /\ tests'[tx[c].order] = tests[tx[c].order]
         /\ RowsOf(tx[c].order)' = RowsOf(tx[c].order)

(* The row that a transaction writes back is still the current one, and    *)
(* the rows it has locked for a delivery are all the order has.            *)
Fresh ==
  \A c \in Clients : tx[c] # Idle =>
    /\ tx[c].row = order[tx[c].order]
    /\ tx[c].row.status # Absent

DeliveryReady ==
  \A c \in Clients : tx[c].phase = "consuming" =>
    /\ tx[c].row.status = "QA"
    /\ ~LatestTestFailed(tx[c].order)
    /\ tx[c].rows = RowsOf(tx[c].order)

AbsentIsBlank == \A o \in Orders : order[o].status = Absent => order[o] = BlankRow

KeysBooked ==
  \A o \in Orders, r \in PaymentIds : booked[o][r] = IF r \in order[o].keys THEN 1 ELSE 0

(* A transaction that goes on by itself writes nothing before its commit. *)
LEMMA BusyStep ==
  ASSUME TypeOK, [Next]_vars, NEW c \in Clients, tx[c] # Idle, tx'[c] # Idle,
         tx'[c] # tx[c]
  PROVE  /\ UNCHANGED <<order, tests, reservation>>
         /\ tx'[c].order = tx[c].order
         /\ tx'[c].row = tx[c].row
         /\ \/ tx'[c].phase # "consuming"
            \/ /\ tx[c].row.status = "QA"
               /\ ~LatestTestFailed(tx[c].order)
               /\ tx'[c].rows = RowsOf(tx[c].order)
<1>1. tx[c] \in ActiveTx
  BY TxType
<1>2. ASSUME UNCHANGED tx PROVE FALSE
  BY <1>2
<1>3. ASSUME NEW d \in Clients, NEW t, tx' = [tx EXCEPT ![d] = t]
      PROVE  d = c /\ tx'[c] = t
  BY <1>3 DEF TypeOK
<1>4. ASSUME NEW d \in Clients, NEW o \in Orders, Begin(d, o) PROVE FALSE
  BY <1>3, <1>4 DEF Begin
<1>5. ASSUME NEW d \in Clients, tx' = [tx EXCEPT ![d] = Idle] PROVE FALSE
  BY <1>3, <1>5
<1>6. ASSUME NEW d \in Clients, Look(d)
      PROVE  /\ UNCHANGED <<order, tests, reservation>>
             /\ tx'[c].order = tx[c].order
             /\ tx'[c].row = tx[c].row
             /\ tx'[c].phase # "consuming"
  <2> DEFINE t == [tx[d] EXCEPT !.phase = "seen", !.seen = instance[tx[d].order]]
  <2>1. tx' = [tx EXCEPT ![d] = t]
    BY <1>6 DEF Look
  <2>2. d = c /\ tx'[c] = t
    <3> HIDE DEF t
    <3> QED
      BY <1>3, <2>1
  <2>3. tx'[c].phase = "seen" /\ tx'[c].order = tx[c].order /\ tx'[c].row = tx[c].row
    BY <1>1, <2>2 DEF ActiveTx
  <2> QED
    BY <1>6, <2>3 DEF Look, stockVars
<1>7. ASSUME NEW d \in Clients, NEW to \in WfStates, AdvanceConsume(d, to)
      PROVE  /\ UNCHANGED <<order, tests, reservation>>
             /\ tx'[c].order = tx[c].order
             /\ tx'[c].row = tx[c].row
             /\ tx[c].row.status = "QA"
             /\ ~LatestTestFailed(tx[c].order)
             /\ tx'[c].rows = RowsOf(tx[c].order)
  <2> DEFINE t == [tx[d] EXCEPT !.phase = "consuming", !.to = to, !.rows = RowsOf(tx[d].order)]
  <2>1. tx' = [tx EXCEPT ![d] = t]
    BY <1>7 DEF AdvanceConsume
  <2>2. d = c /\ tx'[c] = t
    <3> HIDE DEF t
    <3> QED
      BY <1>3, <2>1
  <2>3. /\ tx'[c].order = tx[c].order /\ tx'[c].row = tx[c].row
        /\ tx'[c].rows = RowsOf(tx[c].order)
    BY <1>1, <2>2 DEF ActiveTx
  <2> QED
    BY <1>7, <2>2, <2>3 DEF AdvanceConsume, stockVars
<1> QED
  BY <1>2, <1>4, <1>5, <1>6, <1>7, NextCases DEF vars, orderVars, Create, Convert,
     Abort, Update, Authorize, Reject, Quote, AddTest, Advance, AdvanceDeliver,
     WriteBack, Deliver, RecordPendingPayment, ReserveStock, ReleaseStock, AdjustStock

(* A transaction starts from the current row of an existing order. *)
LEMMA IdleStep ==
  ASSUME TypeOK, [Next]_vars, NEW c \in Clients, tx[c] = Idle, tx'[c] # Idle
  PROVE  /\ tx'[c].order \in Orders
         /\ tx'[c].row = order[tx'[c].order]
         /\ tx'[c].row.status # Absent
         /\ tx'[c].phase = "read"
         /\ UNCHANGED order
<1>1. ASSUME NEW d \in Clients, NEW o \in Orders, Begin(d, o)
      PROVE  /\ tx'[c].order \in Orders
             /\ tx'[c].row = order[tx'[c].order]
             /\ tx'[c].row.status # Absent
             /\ tx'[c].phase = "read"
             /\ UNCHANGED order
  BY <1>1 DEF Begin, TypeOK
<1>2. ASSUME NEW d \in Clients, tx' = [tx EXCEPT ![d] = Idle] PROVE FALSE
  BY <1>2 DEF TypeOK
<1>3. ASSUME UNCHANGED tx PROVE FALSE
  BY <1>3
<1>4. ASSUME NEW d \in Clients, Look(d) \/ \E to \in WfStates : AdvanceConsume(d, to)
      PROVE  FALSE
  <2>1. tx[d] # Idle
    BY <1>4, PhaseNotIdle DEF Look, AdvanceConsume
  <2> QED
    BY <1>4, <2>1 DEF Look, AdvanceConsume, TypeOK
<1> QED
  BY <1>1, <1>2, <1>3, <1>4, NextCases DEF vars, orderVars, Create, Convert, Abort,
     Update, Authorize, Reject, Quote, AddTest, Advance, AdvanceDeliver, WriteBack,
     Deliver, RecordPendingPayment, ReserveStock, ReleaseStock, AdjustStock

(* Isolated, no snapshot goes stale and no delivery loses its guards. *)
LEMMA FreshStep ==
  TypeOK /\ Fresh /\ DeliveryReady /\ [Next]_vars /\ [Isolated]_vars
    => Fresh' /\ DeliveryReady'
<1> SUFFICES ASSUME TypeOK, Fresh, DeliveryReady, [Next]_vars, [Isolated]_vars,
                    NEW c \in Clients, tx'[c] # Idle
             PROVE  /\ tx'[c].row = order'[tx'[c].order]
                    /\ tx'[c].row.status # Absent
                    /\ tx'[c].phase = "consuming" =>
                         /\ tx'[c].row.status = "QA"
                         /\ ~LatestTestFailed(tx[c].order)'
                         /\ tx'[c].rows = RowsOf(tx[c].order)'
  BY DEF Fresh, DeliveryReady, Idle
<1>1. CASE tx[c] = Idle
  BY <1>1, IdleStep
<1>2. CASE tx[c] # Idle /\ tx'[c] = tx[c]
  <2>1. /\ order'[tx[c].order] = order[tx[c].order]
        /\ tx[c].phase = "consuming" =>
             /\ tests'[tx[c].order] = tests[tx[c].order]
             /\ RowsOf(tx[c].order)' = RowsOf(tx[c].order)
    <3>1. CASE UNCHANGED vars
      BY <1>2, <3>1 DEF vars, orderVars, stockVars, RowsOf, Status
    <3>2. CASE Isolated
      BY <1>2, <3>2 DEF Isolated
    <3> QED
      BY <3>1, <3>2
  <2>2. tx'[c].row = order'[tx'[c].order] /\ tx'[c].row.status # Absent
    BY <1>2, <2>1 DEF Fresh
  <2>3. ASSUME tx'[c].phase = "consuming"
        PROVE  /\ tx'[c].row.status = "QA"
               /\ ~LatestTestFailed(tx[c].order)'
               /\ tx'[c].rows = RowsOf(tx[c].order)'
    <3>1. /\ tx[c].row.status = "QA"
          /\ ~LatestTestFailed(tx[c].order)
          /\ tx[c].rows = RowsOf(tx[c].order)
      BY <1>2, <2>3 DEF DeliveryReady
    <3>2. tests'[tx'[c].order] = tests[tx[c].order]
      BY <1>2, <2>1, <2>3
    <3>3. ~LatestTestFailed(tx[c].order)'
      BY <3>1, <3>2 DEF LatestTestFailed
    <3>4. tx'[c].rows = RowsOf(tx[c].order)'
      BY <1>2, <2>1, <2>3, <3>1 DEF RowsOf, Status
    <3> QED
      BY <1>2, <3>1, <3>3, <3>4
  <2> QED
    BY <2>2, <2>3
<1>3. CASE tx[c] # Idle /\ tx'[c] # tx[c]
  <2>1. /\ UNCHANGED <<order, tests, reservation>>
        /\ tx'[c].order = tx[c].order /\ tx'[c].row = tx[c].row
        /\ \/ tx'[c].phase # "consuming"
           \/ /\ tx[c].row.status = "QA"
              /\ ~LatestTestFailed(tx[c].order)
              /\ tx'[c].rows = RowsOf(tx[c].order)
    BY <1>3, BusyStep
  <2>2. tx'[c].row = order'[tx'[c].order] /\ tx'[c].row.status # Absent
    BY <1>3, <2>1 DEF Fresh
  <2>3. LatestTestFailed(tx[c].order)' <=> LatestTestFailed(tx[c].order)
    BY <2>1 DEF LatestTestFailed
  <2>4. RowsOf(tx[c].order)' = RowsOf(tx[c].order)
    BY <2>1 DEF RowsOf, Status
  <2> QED
    BY <2>1, <2>2, <2>3, <2>4
<1> QED
  BY <1>1, <1>2, <1>3

(* An edit of the current row leaves its payments alone, and neither       *)
(* closes an order nor touches a closed one.                               *)
LEMMA EditStep ==
  ASSUME TypeOK, Fresh, NEW c \in Clients,
         \/ \E status \in Statuses : Update(c, status)
         \/ Authorize(c)
         \/ Reject(c)
         \/ \E total \in 0 .. MaxMoney : Quote(c, total)
         \/ \E n \in TestNames, result \in {"passed", "failed"} : AddTest(c, n, result)
  PROVE  /\ UNCHANGED <<stockVars, instance, collected, booked>>
         /\ tx[c].order \in Orders
         /\ order[tx[c].order].status \notin Closed
         /\ \A o \in Orders \ {tx[c].order} : order'[o] = order[o] /\ tests'[o] = tests[o]
         /\ order'[tx[c].order].events = order[tx[c].order].events
         /\ order'[tx[c].order].keys = order[tx[c].order].keys
         /\ order'[tx[c].order].status \notin Closed \cup {Absent}
<1>1. /\ tx[c] # Idle /\ tx[c].row \in Row /\ tx[c].order \in Orders
      /\ tx[c].row = order[tx[c].order] /\ tx[c].row.status # Absent
  <2>1. tx[c] # Idle
    BY PhaseNotIdle DEF Update, Authorize, Reject, Quote, AddTest
  <2> QED
    BY <2>1, TxType DEF Fresh
<1> DEFINE o == tx[c].order
           Edited(row) == /\ row.events = order[o].events
                          /\ row.keys = order[o].keys
                          /\ row.status \notin Closed \cup {Absent}
<1>2. ASSUME NEW row, Edited(row), order' = [order EXCEPT ![o] = row],
             tests' = tests \/ (\E x : tests' = [tests EXCEPT ![o] = x]),
             UNCHANGED <<stockVars, instance, collected, booked>>,
             order[o].status \notin Closed
      PROVE  /\ UNCHANGED <<stockVars, instance, collected, booked>>
             /\ o \in Orders
             /\ order[o].status \notin Closed
             /\ \A u \in Orders \ {o} : order'[u] = order[u] /\ tests'[u] = tests[u]
             /\ Edited(order'[o])
  BY <1>1, <1>2 DEF TypeOK
<1>3. ASSUME NEW s \in Statuses \ Closed, order[o].status \notin Closed,
             order' = [order EXCEPT ![o] = [tx[c].row EXCEPT !.status = s]],
             tests' = tests \/ (\E x : tests' = [tests EXCEPT ![o] = x]),
             UNCHANGED <<stockVars, instance, collected, booked>>
      PROVE  /\ UNCHANGED <<stockVars, instance, collected, booked>>
             /\ o \in Orders
             /\ order[o].status \notin Closed
             /\ \A u \in Orders \ {o} : order'[u] = order[u] /\ tests'[u] = tests[u]
             /\ Edited(order'[o])
  <2>1. Edited([tx[c].row EXCEPT !.status = s])
    BY <1>1, <1>3 DEF Row, Statuses, Absent
  <2> QED
    BY <1>2, <1>3, <2>1
<1>4. ASSUME NEW s \in Statuses, Update(c, s)
      PROVE  s \notin Closed /\ order[o].status \notin Closed
  BY <1>1, <1>4 DEF Update, ManualTransition, Closed
<1>5. CASE \E s \in Statuses : Update(c, s)
  BY <1>3, <1>4, <1>5 DEF Update, WriteBack
<1>6. CASE Authorize(c)
  BY <1>1, <1>3, <1>6 DEF Authorize, WriteBack, Statuses, Closed
<1>7. CASE Reject(c)
  BY <1>1, <1>3, <1>7 DEF Reject, WriteBack, Statuses, Closed
<1>8. ASSUME NEW total \in 0 .. MaxMoney, Quote(c, total)
      PROVE  /\ UNCHANGED <<stockVars, instance, collected, booked>>
             /\ order[o].status \notin Closed
             /\ \A u \in Orders \ {o} : order'[u] = order[u] /\ tests'[u] = tests[u]
             /\ Edited(order'[o])
  <2> DEFINE row == [tx[c].row EXCEPT
                       !.status = "QUOTED", !.quoted = TRUE, !.total = total,
                       !.payStatus = IF tx[c].row.paid >= total THEN "PAID" ELSE "PENDING"]
  <2>1. Edited(row)
    BY <1>1 DEF Row, Closed, Absent
  <2>2. /\ order' = [order EXCEPT ![o] = row]
        /\ UNCHANGED <<stockVars, tests, instance, collected, booked>>
        /\ order[o].status \notin Closed
    BY <1>1, <1>8 DEF Quote, WriteBack, Closed
  <2> HIDE DEF row, Edited
  <2> QED
    BY <1>2, <2>1, <2>2
<1>9. ASSUME NEW n \in TestNames, NEW result \in {"passed", "failed"}, AddTest(c, n, result)
      PROVE  /\ UNCHANGED <<stockVars, instance, collected, booked>>
             /\ order[o].status \notin Closed
             /\ \A u \in Orders \ {o} : order'[u] = order[u] /\ tests'[u] = tests[u]
             /\ Edited(order'[o])
  <2>1. /\ UNCHANGED <<stockVars, instance, collected, booked>>
        /\ order[o].status \in {"IN_PROGRESS", "QA"}
        /\ \A u \in Orders \ {o} : tests'[u] = tests[u]
    BY <1>1, <1>9 DEF AddTest, Testable, TypeOK
  <2>2. CASE order' = order
    BY <2>1, <2>2 DEF Closed, Absent
  <2>3. CASE order' = [order EXCEPT ![o] = [tx[c].row EXCEPT !.status = "QA"]]
    <3>1. Edited([tx[c].row EXCEPT !.status = "QA"])
      BY <1>1 DEF Row, Closed, Absent
    <3>2. \E x : tests' = [tests EXCEPT ![o] = x]
      BY <1>9 DEF AddTest, Testable
    <3>3. order[o].status \notin Closed
      BY <2>1 DEF Closed
    <3> QED
      BY <1>2, <2>1, <2>3, <3>1, <3>2, <3>3
  <2> QED
    BY <1>9, <2>2, <2>3 DEF AddTest, Testable
<1> QED
  BY <1>1, <1>5, <1>6, <1>7, <1>8, <1>9

(* A configured transition of the current row: it delivers only what was   *)
(* in QA, with all its rows consumed, and cancels only by releasing.       *)
LEMMA MoveStep ==
  ASSUME TypeOK, Fresh, DeliveryReady, NEW c \in Clients,
         (\E to \in WfStates : Advance(c, to)) \/ AdvanceDeliver(c)
  PROVE  LET o == tx[c].order IN
         /\ o \in Orders
         /\ UNCHANGED <<tests, collected, booked>>
         /\ order[o].status # Absent
         /\ \A u \in Orders \ {o} : order'[u] = order[u]
         /\ order'[o].events = order[o].events
         /\ order'[o].keys = order[o].keys
         /\ order'[o].status # Absent
         /\ instance'[o] # instance[o]
         /\ \/ order'[o].status \in Closed => order'[o].status = order[o].status
            \/ order'[o].status = "CANCELLED" /\ ReleaseAll(o)
            \/ /\ order'[o].status = "COMPLETED" /\ order[o].status = "QA"
               /\ ~LatestTestFailed(o)
               /\ ConsumeRows(o, RowsOf(o))
<1> DEFINE o == tx[c].order
<1>1. /\ tx[c] # Idle /\ tx[c].row \in Row /\ o \in Orders
      /\ tx[c].row = order[o] /\ order[o].status # Absent
      /\ tx[c].to \in WfStates
  <2>1. tx[c] # Idle
    BY PhaseNotIdle DEF Advance, AdvanceDeliver
  <2> QED
    BY <2>1, TxType DEF Fresh
<1>2. ASSUME NEW to \in WfStates, MoveInstance(c, to) PROVE instance'[o] # instance[o]
  <2>1. instance[o].version \in Nat
    BY <1>1 DEF TypeOK, Instance
  <2> QED
    BY <1>1, <1>2, <2>1, MovedInstance
<1>3. ASSUME NEW to \in WfStates, Advance(c, to)
      PROVE  /\ UNCHANGED <<tests, collected, booked>>
             /\ instance'[o] # instance[o]
             /\ \A u \in Orders \ {o} : order'[u] = order[u]
             /\ order'[o].events = order[o].events
             /\ order'[o].keys = order[o].keys
             /\ order'[o].status # Absent
             /\ \/ order'[o].status \in Closed => order'[o].status = order[o].status
                \/ order'[o].status = "CANCELLED" /\ ReleaseAll(o)
  <2> DEFINE next == PhaseStatus(WfPhase[to], tx[c].row.status)
  <2>1. WfPhase[to] \in {"INTAKE", "DIAGNOSIS", "QUOTE", "AUTHORIZATION", "WORK",
                        "READY", "WARRANTY", "CANCELLED"}
    BY <1>3, WorkflowAssumption DEF Advance
  <2>2. /\ next # Absent
        /\ next = "COMPLETED" => order[o].status = "COMPLETED"
    BY <1>1, <2>1 DEF PhaseStatus, Absent
  <2>3. next = "CANCELLED" /\ order[o].status # "CANCELLED" => ReleaseAll(o)
    BY <1>1, <1>3 DEF Advance
  <2>4. order' = [order EXCEPT ![o] = [tx[c].row EXCEPT !.status = next]]
    BY <1>3 DEF Advance, WriteBack
  <2> HIDE DEF next
  <2>5. /\ order'[o].events = order[o].events
        /\ order'[o].keys = order[o].keys
        /\ order'[o].status = next
        /\ \A u \in Orders \ {o} : order'[u] = order[u]
    BY <1>1, <2>4 DEF TypeOK, Row
  <2>6. UNCHANGED <<tests, collected, booked>> /\ MoveInstance(c, to)
    BY <1>3 DEF Advance
  <2> QED
    BY <1>2, <2>2, <2>3, <2>5, <2>6 DEF Closed
<1>4. CASE AdvanceDeliver(c)
  <2>1. order' = [order EXCEPT ![o] =
                    [tx[c].row EXCEPT !.status = "COMPLETED", !.delivered = TRUE]]
    BY <1>4 DEF AdvanceDeliver, WriteBack
  <2>2. /\ order'[o].events = order[o].events
        /\ order'[o].keys = order[o].keys
        /\ order'[o].status = "COMPLETED"
        /\ \A u \in Orders \ {o} : order'[u] = order[u]
    BY <1>1, <2>1 DEF TypeOK, Row
  <2>3. /\ UNCHANGED <<tests, collected, booked>> /\ MoveInstance(c, tx[c].to)
        /\ ConsumeRows(o, tx[c].rows) /\ tx[c].phase = "consuming"
    BY <1>4 DEF AdvanceDeliver
  <2>4. /\ tx[c].rows = RowsOf(o) /\ order[o].status = "QA" /\ ~LatestTestFailed(o)
    BY <1>1, <2>3 DEF DeliveryReady
  <2> QED
    BY <1>1, <1>2, <2>2, <2>3, <2>4 DEF Absent
<1> QED
  BY <1>1, <1>3, <1>4

(* Delivering and paying one order: what is booked is what is collected. *)
LEMMA LockedStep ==
  ASSUME TypeOK, NEW c \in Clients, NEW o \in Orders,
         \/ \E deferred \in BOOLEAN : Deliver(c, o, deferred)
         \/ \E amount \in 1 .. MaxMoney, ids \in SUBSET PaymentIds :
              RecordPendingPayment(c, o, amount, ids)
  PROVE  /\ UNCHANGED <<tests, instance>>
         /\ \A u \in Orders \ {o} : /\ order'[u] = order[u]
                                   /\ collected'[u] = collected[u]
                                   /\ booked'[u] = booked[u]
         /\ order[o].events = collected[o] => order'[o].events = collected'[o]
         /\ \A r \in PaymentIds :
              booked[o][r] = (IF r \in order[o].keys THEN 1 ELSE 0) =>
                booked'[o][r] = (IF r \in order'[o].keys THEN 1 ELSE 0)
         /\ order'[o].status = "COMPLETED"
         /\ \/ order[o].status = "COMPLETED" /\ UNCHANGED stockVars
            \/ order[o].status = "QA" /\ ~LatestTestFailed(o) /\ ConsumeRows(o, Products)
<1>1. order[o] \in Row /\ collected[o] \in Nat
  BY DEF TypeOK
<1>2. ASSUME NEW deferred \in BOOLEAN, Deliver(c, o, deferred)
      PROVE  /\ UNCHANGED <<tests, instance, booked>>
             /\ \A u \in Orders \ {o} : order'[u] = order[u] /\ collected'[u] = collected[u]
             /\ order[o].events = collected[o] => order'[o].events = collected'[o]
             /\ order'[o].keys = order[o].keys
             /\ order'[o].status = "COMPLETED"
             /\ order[o].status = "QA" /\ ~LatestTestFailed(o) /\ ConsumeRows(o, Products)
  <2> DEFINE received == IF deferred THEN 0 ELSE Outstanding(order[o])
             paid == AddPayment(order[o], received, {})
  <2>1. received \in Nat
    BY <1>1, OutstandingType
  <2>2. collected' = [collected EXCEPT ![o] = @ + received]
    BY <1>2 DEF Deliver
  <2>3. order' = [order EXCEPT ![o] =
          [paid EXCEPT !.status = "COMPLETED", !.delivered = TRUE,
                       !.payStatus = IF deferred THEN "PENDING" ELSE "PAID"]]
    BY <1>2 DEF Deliver
  <2>4. /\ UNCHANGED <<tests, instance, booked>>
        /\ order[o].status = "QA" /\ ~LatestTestFailed(o) /\ ConsumeRows(o, Products)
    BY <1>2 DEF Deliver
  <2> HIDE DEF received
  <2>5. /\ paid \in Row /\ paid.events = order[o].events + received
        /\ paid.keys = order[o].keys
    BY <1>1, <2>1, AddPaymentType
  <2> HIDE DEF paid
  <2>6. /\ order'[o].events = paid.events /\ order'[o].keys = paid.keys
        /\ order'[o].status = "COMPLETED"
        /\ \A u \in Orders \ {o} : order'[u] = order[u]
    BY <2>3, <2>5 DEF TypeOK, Row
  <2>7. /\ collected'[o] = collected[o] + received
        /\ \A u \in Orders \ {o} : collected'[u] = collected[u]
    BY <2>2 DEF TypeOK
  <2> QED
    BY <2>4, <2>5, <2>6, <2>7
<1>3. ASSUME NEW amount \in 1 .. MaxMoney, NEW ids \in SUBSET PaymentIds,
             RecordPendingPayment(c, o, amount, ids)
      PROVE  /\ UNCHANGED <<tests, instance, stockVars>>
             /\ \A u \in Orders \ {o} : /\ order'[u] = order[u]
                                       /\ collected'[u] = collected[u]
                                       /\ booked'[u] = booked[u]
             /\ order[o].events = collected[o] => order'[o].events = collected'[o]
             /\ \A r \in PaymentIds :
                  booked[o][r] = (IF r \in order[o].keys THEN 1 ELSE 0) =>
                    booked'[o][r] = (IF r \in order'[o].keys THEN 1 ELSE 0)
             /\ order'[o].status = "COMPLETED" /\ order[o].status = "COMPLETED"
  <2> DEFINE paid == AddPayment(order[o], amount, ids)
  <2>1. amount \in Nat
    BY BoundsAssumption
  <2>2. collected' = [collected EXCEPT ![o] = @ + amount]
    BY <1>3 DEF RecordPendingPayment
  <2>3. order' = [order EXCEPT ![o] =
          [paid EXCEPT !.payStatus = IF amount = Outstanding(order[o]) THEN "PAID"
                                                                    ELSE "PENDING"]]
    BY <1>3 DEF RecordPendingPayment
  <2>4. /\ UNCHANGED <<tests, instance, stockVars>> /\ order[o].status = "COMPLETED"
        /\ ids \cap order[o].keys = {}
    BY <1>3 DEF RecordPendingPayment
  <2>5. /\ paid \in Row /\ paid.events = order[o].events + amount
        /\ paid.keys = order[o].keys \cup ids /\ paid.status = order[o].status
    BY <1>1, <2>1, AddPaymentType
  <2> HIDE DEF paid
  <2>6. /\ order'[o].events = paid.events /\ order'[o].keys = paid.keys
        /\ order'[o].status = paid.status
        /\ \A u \in Orders \ {o} : order'[u] = order[u]
    BY <2>3, <2>5 DEF TypeOK, Row
  <2>7. /\ collected'[o] = collected[o] + amount
        /\ \A u \in Orders \ {o} : collected'[u] = collected[u]
    BY <2>2 DEF TypeOK
  <2>8. booked' = [booked EXCEPT ![o] =
          [r \in PaymentIds |-> IF r \in ids THEN booked[o][r] + 1 ELSE booked[o][r]]]
    BY <1>3 DEF RecordPendingPayment
  <2>9. /\ \A r \in PaymentIds :
             booked'[o][r] = IF r \in ids THEN booked[o][r] + 1 ELSE booked[o][r]
        /\ \A u \in Orders \ {o} : booked'[u] = booked[u]
    BY <2>8 DEF TypeOK
  <2>10. \A r \in PaymentIds :
           booked[o][r] = (IF r \in order[o].keys THEN 1 ELSE 0) =>
             booked'[o][r] = (IF r \in order'[o].keys THEN 1 ELSE 0)
    BY <2>4, <2>5, <2>6, <2>9
  <2> QED
    BY <2>1, <2>4, <2>5, <2>6, <2>7, <2>9, <2>10
<1> QED
  BY <1>2, <1>3

(* A new order starts with its deposit and nothing else. *)
LEMMA NewOrderStep ==
  ASSUME TypeOK, AbsentIsBlank, NEW c \in Clients, NEW o \in Orders,
         Convert(c, o) \/ \E deposit \in 0 .. MaxMoney : Create(c, o, deposit)
  PROVE  /\ UNCHANGED <<stockVars, tests, instance, booked>>
         /\ order[o].status = Absent
         /\ \A u \in Orders \ {o} : order'[u] = order[u] /\ collected'[u] = collected[u]
         /\ order[o].events = collected[o] => order'[o].events = collected'[o]
         /\ order'[o].keys = order[o].keys
         /\ order'[o].status = "INTAKE"
<1>1. order[o] = BlankRow
  BY DEF AbsentIsBlank, Create, Convert
<1>2. CASE Convert(c, o)
  BY <1>1, <1>2 DEF Convert, TypeOK, BlankRow
<1>3. ASSUME NEW deposit \in 0 .. MaxMoney, Create(c, o, deposit)
      PROVE  /\ UNCHANGED <<stockVars, tests, instance, booked>>
             /\ order[o].status = Absent
             /\ \A u \in Orders \ {o} : order'[u] = order[u] /\ collected'[u] = collected[u]
             /\ order[o].events = collected[o] => order'[o].events = collected'[o]
             /\ order'[o].keys = order[o].keys
             /\ order'[o].status = "INTAKE"
  <2> DEFINE old == [BlankRow EXCEPT !.status = "INTAKE", !.described = TRUE]
             new == AddPayment(old, deposit, {})
  <2>1. deposit \in Nat
    BY BoundsAssumption
  <2>2. /\ old \in Row /\ old.status = "INTAKE"
        /\ old.events = order[o].events /\ old.keys = order[o].keys
    BY <1>1 DEF Row, Statuses, BlankRow
  <2>3. order' = [order EXCEPT ![o] = new]
    BY <1>3 DEF Create
  <2>4. /\ collected' = [collected EXCEPT ![o] = @ + deposit]
        /\ UNCHANGED <<stockVars, tests, instance, booked>>
        /\ order[o].status = Absent
    BY <1>3 DEF Create
  <2> HIDE DEF old
  <2>5. /\ new.events = order[o].events + deposit
        /\ new.keys = order[o].keys
        /\ new.status = "INTAKE"
    BY <2>1, <2>2, AddPaymentType
  <2> HIDE DEF new
  <2>7. order'[o] = new /\ \A u \in Orders \ {o} : order'[u] = order[u]
    BY <2>3 DEF TypeOK
  <2>8. /\ collected'[o] = collected[o] + deposit
        /\ \A u \in Orders \ {o} : collected'[u] = collected[u]
    BY <2>4 DEF TypeOK
  <2> QED
    BY <2>4, <2>5, <2>7, <2>8
<1> QED
  BY <1>2, <1>3

(* What is left are steps that change no order. *)
LEMMA OtherStep ==
  ASSUME [Next]_vars
  PROVE  \/ UNCHANGED <<order, tests, instance, collected, booked>>
         \/ \E c \in Clients, o \in Orders :
              Convert(c, o) \/ \E deposit \in 0 .. MaxMoney : Create(c, o, deposit)
         \/ \E c \in Clients :
              \/ \E status \in Statuses : Update(c, status)
              \/ Authorize(c)
              \/ Reject(c)
              \/ \E total \in 0 .. MaxMoney : Quote(c, total)
              \/ \E n \in TestNames, result \in {"passed", "failed"} : AddTest(c, n, result)
         \/ \E c \in Clients : (\E to \in WfStates : Advance(c, to)) \/ AdvanceDeliver(c)
         \/ \E c \in Clients, o \in Orders :
              \/ \E deferred \in BOOLEAN : Deliver(c, o, deferred)
              \/ \E amount \in 1 .. MaxMoney, ids \in SUBSET PaymentIds :
                   RecordPendingPayment(c, o, amount, ids)
<1>1. CASE UNCHANGED vars
  BY <1>1 DEF vars, orderVars
<1>2. CASE Next
  BY <1>2, NextCases DEF Begin, Abort, Look, AdvanceConsume, ReserveStock, ReleaseStock,
     AdjustStock, orderVars
<1> QED
  BY <1>1, <1>2

(* No operation fills the row of an order that does not exist. *)
LEMMA BlankStep ==
  TypeOK /\ Fresh /\ DeliveryReady /\ AbsentIsBlank /\ [Next]_vars => AbsentIsBlank'
<1> SUFFICES ASSUME TypeOK, Fresh, DeliveryReady, AbsentIsBlank, [Next]_vars,
                    NEW o \in Orders, order'[o].status = Absent
             PROVE  order'[o] = order[o]
  BY DEF AbsentIsBlank
<1>1. ASSUME NEW c \in Clients, NEW u \in Orders,
             Convert(c, u) \/ \E deposit \in 0 .. MaxMoney : Create(c, u, deposit)
      PROVE  order'[o] = order[o]
  <2>1. /\ order'[u].status = "INTAKE"
        /\ \A v \in Orders \ {u} : order'[v] = order[v]
    BY <1>1, NewOrderStep
  <2> QED
    BY <2>1 DEF Absent
<1>2. ASSUME NEW c \in Clients,
             \/ \E status \in Statuses : Update(c, status)
             \/ Authorize(c)
             \/ Reject(c)
             \/ \E total \in 0 .. MaxMoney : Quote(c, total)
             \/ \E n \in TestNames, result \in {"passed", "failed"} : AddTest(c, n, result)
      PROVE  order'[o] = order[o]
  BY <1>2, EditStep
<1>3. ASSUME NEW c \in Clients, (\E to \in WfStates : Advance(c, to)) \/ AdvanceDeliver(c)
      PROVE  order'[o] = order[o]
  BY <1>3, MoveStep
<1>4. ASSUME NEW c \in Clients, NEW u \in Orders,
             \/ \E deferred \in BOOLEAN : Deliver(c, u, deferred)
             \/ \E amount \in 1 .. MaxMoney, ids \in SUBSET PaymentIds :
                  RecordPendingPayment(c, u, amount, ids)
      PROVE  order'[o] = order[o]
  <2>1. /\ order'[u].status = "COMPLETED"
        /\ \A v \in Orders \ {u} : order'[v] = order[v]
    BY <1>4, LockedStep
  <2> QED
    BY <2>1 DEF Absent
<1> QED
  BY <1>1, <1>2, <1>3, <1>4, OtherStep

(* The cash and the request ids of every order stay accounted for. *)
LEMMA MoneyStep ==
  TypeOK /\ Fresh /\ DeliveryReady /\ AbsentIsBlank /\ CashRecorded /\ KeysBooked
    /\ [Next]_vars => CashRecorded' /\ KeysBooked'
<1> SUFFICES ASSUME TypeOK, Fresh, DeliveryReady, AbsentIsBlank, CashRecorded, KeysBooked,
                    [Next]_vars, NEW o \in Orders
             PROVE  /\ order'[o].events = collected'[o]
                    /\ \A r \in PaymentIds :
                         booked'[o][r] = IF r \in order'[o].keys THEN 1 ELSE 0
  BY DEF CashRecorded, KeysBooked
<1>0. /\ order[o].events = collected[o]
      /\ \A r \in PaymentIds : booked[o][r] = IF r \in order[o].keys THEN 1 ELSE 0
  BY DEF CashRecorded, KeysBooked
<1>1. ASSUME NEW c \in Clients, NEW u \in Orders,
             Convert(c, u) \/ \E deposit \in 0 .. MaxMoney : Create(c, u, deposit)
      PROVE  /\ order'[o].events = collected'[o]
             /\ order'[o].keys = order[o].keys /\ booked' = booked
  BY <1>0, <1>1, NewOrderStep
<1>2. ASSUME NEW c \in Clients,
             \/ \E status \in Statuses : Update(c, status)
             \/ Authorize(c)
             \/ Reject(c)
             \/ \E total \in 0 .. MaxMoney : Quote(c, total)
             \/ \E n \in TestNames, result \in {"passed", "failed"} : AddTest(c, n, result)
      PROVE  /\ order'[o].events = collected'[o]
             /\ order'[o].keys = order[o].keys /\ booked' = booked
  BY <1>0, <1>2, EditStep
<1>3. ASSUME NEW c \in Clients, (\E to \in WfStates : Advance(c, to)) \/ AdvanceDeliver(c)
      PROVE  /\ order'[o].events = collected'[o]
             /\ order'[o].keys = order[o].keys /\ booked' = booked
  BY <1>0, <1>3, MoveStep
<1>4. ASSUME NEW c \in Clients, NEW u \in Orders,
             \/ \E deferred \in BOOLEAN : Deliver(c, u, deferred)
             \/ \E amount \in 1 .. MaxMoney, ids \in SUBSET PaymentIds :
                  RecordPendingPayment(c, u, amount, ids)
      PROVE  /\ order'[o].events = collected'[o]
             /\ \A r \in PaymentIds :
                  booked'[o][r] = IF r \in order'[o].keys THEN 1 ELSE 0
  BY <1>0, <1>4, LockedStep
<1> QED
  BY <1>0, <1>1, <1>2, <1>3, <1>4, OtherStep

(* Closing an order settles its stock, and its tests. *)
LEMMA ClosedStep ==
  TypeOK /\ Fresh /\ DeliveryReady /\ AbsentIsBlank /\ ClosedOrderHoldsNoStock
    /\ [Next]_vars => ClosedOrderHoldsNoStock'
<1> SUFFICES ASSUME TypeOK, Fresh, DeliveryReady, AbsentIsBlank, ClosedOrderHoldsNoStock,
                    [Next]_vars, NEW o \in Orders, order'[o].status \in Closed,
                    NEW p \in Products
             PROVE  Status(o, p)' # Reserved
  BY DEF ClosedOrderHoldsNoStock
<1> USE DEF Status
<1>0. /\ reservation \in [Orders -> [Products -> Reservation]]
      /\ {Reserved, Released, Consumed} = {"RESERVED", "RELEASED", "CONSUMED"}
  BY DEF TypeOK, StockTypeOK, Reserved, Released, Consumed
<1>1. CASE order'[o].status = order[o].status
  <2>1. Status(o, p) # Reserved /\ order[o].status \in Closed
    BY <1>1 DEF ClosedOrderHoldsNoStock
  <2> QED
    BY <2>1, ReservedStep
<1>2. ASSUME ReleaseAll(o) PROVE Status(o, p)' # Reserved
  BY <1>0, <1>2 DEF ReleaseAll, Reserved, Released
<1>3. ASSUME ConsumeRows(o, RowsOf(o)) \/ ConsumeRows(o, Products)
      PROVE  Status(o, p)' # Reserved
  <2>1. PICK rows \in {RowsOf(o), Products} : ConsumeRows(o, rows)
    BY <1>3
  <2>2. Status(o, p) = Reserved => p \in rows
    BY <2>1 DEF RowsOf, Reserved, NoRow
  <2>3. reservation'[o][p] = IF p \in rows /\ reservation[o][p].status = Reserved
                               THEN [reservation[o][p] EXCEPT !.status = Consumed]
                               ELSE reservation[o][p]
    BY <1>0, <2>1 DEF ConsumeRows
  <2>4. reservation[o][p] \in Reservation
    BY <1>0
  <2> QED
    BY <2>2, <2>3, <2>4 DEF Reservation, Reserved, Consumed
<1>4. ASSUME order'[o].status # order[o].status,
             NEW c \in Clients, NEW u \in Orders,
             Convert(c, u) \/ \E deposit \in 0 .. MaxMoney : Create(c, u, deposit)
      PROVE  FALSE
  <2>1. u = o /\ order'[u].status = "INTAKE"
    BY <1>4, NewOrderStep
  <2> QED
    BY <2>1 DEF Closed
<1>5. ASSUME order'[o].status # order[o].status, NEW c \in Clients,
             \/ \E status \in Statuses : Update(c, status)
             \/ Authorize(c)
             \/ Reject(c)
             \/ \E total \in 0 .. MaxMoney : Quote(c, total)
             \/ \E n \in TestNames, result \in {"passed", "failed"} : AddTest(c, n, result)
      PROVE  FALSE
  BY <1>5, EditStep
<1>6. ASSUME order'[o].status # order[o].status, NEW c \in Clients,
             (\E to \in WfStates : Advance(c, to)) \/ AdvanceDeliver(c)
      PROVE  Status(o, p)' # Reserved
  <2>1. tx[c].order = o
    BY <1>6, MoveStep
  <2> QED
    BY <1>2, <1>3, <1>6, <2>1, MoveStep
<1>7. ASSUME order'[o].status # order[o].status, NEW c \in Clients, NEW u \in Orders,
             \/ \E deferred \in BOOLEAN : Deliver(c, u, deferred)
             \/ \E amount \in 1 .. MaxMoney, ids \in SUBSET PaymentIds :
                  RecordPendingPayment(c, u, amount, ids)
      PROVE  Status(o, p)' # Reserved
  <2>1. u = o
    BY <1>7, LockedStep
  <2> QED
    BY <1>3, <1>7, <2>1, LockedStep
<1> QED
  BY <1>1, <1>4, <1>5, <1>6, <1>7, OtherStep

(* No step completes an order whose latest tests fail, or tests a completed one. *)
LEMMA TestedStep ==
  TypeOK /\ Fresh /\ DeliveryReady /\ AbsentIsBlank /\ DeliveredTested
    /\ [Next]_vars => DeliveredTested'
<1> SUFFICES ASSUME TypeOK, Fresh, DeliveryReady, AbsentIsBlank, DeliveredTested,
                    [Next]_vars, NEW o \in Orders, order'[o].status = "COMPLETED"
             PROVE  ~LatestTestFailed(o)'
  BY DEF DeliveredTested
<1>0. ASSUME tests'[o] = tests[o], order[o].status = "COMPLETED" \/ ~LatestTestFailed(o)
      PROVE  ~LatestTestFailed(o)'
  BY <1>0 DEF DeliveredTested, LatestTestFailed
<1>1. ASSUME NEW c \in Clients, NEW u \in Orders,
             Convert(c, u) \/ \E deposit \in 0 .. MaxMoney : Create(c, u, deposit)
      PROVE  ~LatestTestFailed(o)'
  <2>1. order'[u].status = "INTAKE" /\ (u # o => order'[o] = order[o]) /\ tests' = tests
    BY <1>1, NewOrderStep
  <2> QED
    BY <1>0, <2>1
<1>2. ASSUME NEW c \in Clients,
             \/ \E status \in Statuses : Update(c, status)
             \/ Authorize(c)
             \/ Reject(c)
             \/ \E total \in 0 .. MaxMoney : Quote(c, total)
             \/ \E n \in TestNames, result \in {"passed", "failed"} : AddTest(c, n, result)
      PROVE  ~LatestTestFailed(o)'
  <2>1. tx[c].order # o /\ order'[o] = order[o] /\ tests'[o] = tests[o]
    BY <1>2, EditStep DEF Closed
  <2> QED
    BY <1>0, <2>1
<1>3. ASSUME NEW c \in Clients, (\E to \in WfStates : Advance(c, to)) \/ AdvanceDeliver(c)
      PROVE  ~LatestTestFailed(o)'
  <2>1. tests' = tests
    BY <1>3, MoveStep
  <2>2. order[o].status = "COMPLETED" \/ ~LatestTestFailed(o)
    BY <1>3, MoveStep DEF Closed
  <2> QED
    BY <1>0, <2>1, <2>2
<1>4. ASSUME NEW c \in Clients, NEW u \in Orders,
             \/ \E deferred \in BOOLEAN : Deliver(c, u, deferred)
             \/ \E amount \in 1 .. MaxMoney, ids \in SUBSET PaymentIds :
                  RecordPendingPayment(c, u, amount, ids)
      PROVE  ~LatestTestFailed(o)'
  <2>1. tests' = tests
    BY <1>4, LockedStep
  <2>2. order[o].status = "COMPLETED" \/ ~LatestTestFailed(o)
    BY <1>4, LockedStep
  <2> QED
    BY <1>0, <2>1, <2>2
<1> QED
  BY <1>0, <1>1, <1>2, <1>3, <1>4, OtherStep

(* Every step that completes or reopens an order is a dedicated one. *)
LEMMA DedicatedStep ==
  TypeOK /\ Fresh /\ DeliveryReady /\ AbsentIsBlank /\ [Next]_vars =>
    \A o \in Orders :
      /\ order'[o].status = "COMPLETED" /\ order[o].status # "COMPLETED" =>
           order[o].status = "QA"
      /\ order[o].status = "COMPLETED" /\ order'[o].status # "COMPLETED" =>
           instance'[o] # instance[o]
<1> SUFFICES ASSUME TypeOK, Fresh, DeliveryReady, AbsentIsBlank, [Next]_vars,
                    NEW o \in Orders, order'[o].status # order[o].status
             PROVE  /\ order'[o].status = "COMPLETED" => order[o].status = "QA"
                    /\ order[o].status = "COMPLETED" => instance'[o] # instance[o]
  OBVIOUS
<1>1. ASSUME NEW c \in Clients, NEW u \in Orders,
             Convert(c, u) \/ \E deposit \in 0 .. MaxMoney : Create(c, u, deposit)
      PROVE  order'[o].status = "INTAKE" /\ order[o].status = Absent
  BY <1>1, NewOrderStep
<1>2. ASSUME NEW c \in Clients,
             \/ \E status \in Statuses : Update(c, status)
             \/ Authorize(c)
             \/ Reject(c)
             \/ \E total \in 0 .. MaxMoney : Quote(c, total)
             \/ \E n \in TestNames, result \in {"passed", "failed"} : AddTest(c, n, result)
      PROVE  order'[o].status # "COMPLETED" /\ order[o].status # "COMPLETED"
  <2>1. tx[c].order = o
    BY <1>2, EditStep
  <2> QED
    BY <1>2, <2>1, EditStep DEF Closed
<1>3. ASSUME NEW c \in Clients, (\E to \in WfStates : Advance(c, to)) \/ AdvanceDeliver(c)
      PROVE  /\ instance'[o] # instance[o]
             /\ order'[o].status = "COMPLETED" => order[o].status = "QA"
  <2>1. tx[c].order = o
    BY <1>3, MoveStep
  <2> QED
    BY <1>3, <2>1, MoveStep DEF Closed
<1>4. ASSUME NEW c \in Clients, NEW u \in Orders,
             \/ \E deferred \in BOOLEAN : Deliver(c, u, deferred)
             \/ \E amount \in 1 .. MaxMoney, ids \in SUBSET PaymentIds :
                  RecordPendingPayment(c, u, amount, ids)
      PROVE  order[o].status = "QA"
  <2>1. u = o
    BY <1>4, LockedStep
  <2> QED
    BY <1>4, <2>1, LockedStep
<1> QED
  BY <1>1, <1>2, <1>3, <1>4, OtherStep DEF Absent

(* Everything that a request in isolation may rely on. *)
SerialInv ==
  /\ TypeOK
  /\ Fresh
  /\ DeliveryReady
  /\ AbsentIsBlank
  /\ CashRecorded
  /\ KeysBooked
  /\ ClosedOrderHoldsNoStock
  /\ DeliveredTested

(* The empty database satisfies SerialInv. *)
LEMMA SerialInit == Init => SerialInv
<1> SUFFICES ASSUME Init PROVE SerialInv
  OBVIOUS
<1>1. TypeOK
  BY TypeInit
<1>2. Fresh /\ DeliveryReady
  BY DEF Init, Fresh, DeliveryReady, Idle
<1>3. AbsentIsBlank /\ CashRecorded /\ KeysBooked
  BY DEF Init, AbsentIsBlank, CashRecorded, KeysBooked, BlankRow
<1>4. ClosedOrderHoldsNoStock /\ DeliveredTested
  BY DEF Init, ClosedOrderHoldsNoStock, DeliveredTested, BlankRow, Absent, Closed
<1> QED
  BY <1>1, <1>2, <1>3, <1>4 DEF SerialInv

(* Isolated, every step keeps SerialInv. *)
LEMMA SerialStep == SerialInv /\ [Next]_vars /\ [Isolated]_vars => SerialInv'
BY TypeStep, FreshStep, BlankStep, MoneyStep, ClosedStep, TestedStep DEF SerialInv

LEMMA SerialSpec == Spec /\ [][Isolated]_vars => []SerialInv
BY SerialInit, SerialStep, PTL DEF Spec

(* With one request at a time nobody comes in between. *)
OneClient == \A c, d \in Clients : c = d

LEMMA OneIsIsolated == OneClient /\ Spec => [][Isolated]_vars
<1>1. OneClient /\ TypeOK /\ [Next]_vars => [Isolated]_vars
  <2> SUFFICES ASSUME OneClient, TypeOK, Next,
                      NEW c \in Clients, tx[c] # Idle, tx'[c] = tx[c]
               PROVE  /\ order'[tx[c].order] = order[tx[c].order]
                      /\ tests'[tx[c].order] = tests[tx[c].order]
                      /\ RowsOf(tx[c].order)' = RowsOf(tx[c].order)
    BY DEF Isolated
  <2>1. CASE \E p \in Products : AdjustStock(p)
    BY <2>1 DEF AdjustStock, Move, Count, orderVars, RowsOf, Status
  <2>2. \A d \in Clients : d = c
    BY DEF OneClient
  <2>3. ASSUME NEW d \in Clients, tx[d] = Idle PROVE FALSE
    BY <2>2, <2>3
  <2>4. ASSUME NEW d \in Clients, tx' = [tx EXCEPT ![d] = Idle] PROVE FALSE
    BY <2>2, <2>4 DEF TypeOK
  <2>5. ASSUME NEW d \in Clients, Look(d) PROVE FALSE
    <3>1. tx[c].phase = "read" /\ tx'[c].phase = "seen"
      BY <2>2, <2>5, TxType DEF Look, TypeOK, ActiveTx
    <3> QED
      BY <3>1
  <2>6. ASSUME NEW d \in Clients, NEW to \in WfStates, AdvanceConsume(d, to) PROVE FALSE
    <3>1. tx[c].phase = "seen" /\ tx'[c].phase = "consuming"
      BY <2>2, <2>6, TxType DEF AdvanceConsume, TypeOK, ActiveTx
    <3> QED
      BY <3>1
  <2>7. \/ \E p \in Products : AdjustStock(p)
        \/ \E d \in Clients : tx[d] = Idle \/ tx' = [tx EXCEPT ![d] = Idle]
        \/ \E d \in Clients : Look(d) \/ \E to \in WfStates : AdvanceConsume(d, to)
    BY NextCases DEF Create, Convert, Begin, Abort, Update,
       Authorize, Reject, Quote, AddTest, Advance, AdvanceDeliver, WriteBack, Deliver,
       RecordPendingPayment, ReserveStock, ReleaseStock
  <2> QED
    BY <2>1, <2>3, <2>4, <2>5, <2>6, <2>7
<1>2. OneClient => []OneClient
  <2>1. OneClient /\ [OneClient]_vars => OneClient'
    BY DEF OneClient
  <2> QED
    BY <2>1, PTL
<1> QED
  BY <1>1, <1>2, TypeCorrect, PTL DEF Spec

(* When no two requests about an order interleave, in particular when      *)
(* requests come one at a time, a closed order holds no stock: deliveries  *)
(* have consumed it, cancellations released it.                            *)
THEOREM ClosedReleasesStock ==
  /\ Spec /\ [][Isolated]_vars => []ClosedOrderHoldsNoStock
  /\ OneClient /\ Spec => []ClosedOrderHoldsNoStock
<1>1. SerialInv => ClosedOrderHoldsNoStock
  BY DEF SerialInv
<1> QED
  BY <1>1, SerialSpec, OneIsIsolated, PTL

(* Under the same condition the payment events of an order account for all *)
(* the cash that was received for it.                                      *)
THEOREM CashIsRecorded ==
  /\ Spec /\ [][Isolated]_vars => []CashRecorded
  /\ OneClient /\ Spec => []CashRecorded
<1>1. SerialInv => CashRecorded
  BY DEF SerialInv
<1> QED
  BY <1>1, SerialSpec, OneIsIsolated, PTL

(* Under the same condition no payment request is booked twice, however    *)
(* late its retry comes.                                                   *)
THEOREM BookedAtMostOnce ==
  /\ Spec /\ [][Isolated]_vars => []RequestBookedOnce
  /\ OneClient /\ Spec => []RequestBookedOnce
<1>1. SerialInv => RequestBookedOnce
  BY DEF SerialInv, KeysBooked, RequestBookedOnce
<1> QED
  BY <1>1, SerialSpec, OneIsIsolated, PTL

(* Under the same condition what is delivered has passed its tests.        *)
THEOREM DeliveredPassed ==
  /\ Spec /\ [][Isolated]_vars => []DeliveredTested
  /\ OneClient /\ Spec => []DeliveredTested
<1>1. SerialInv => DeliveredTested
  BY DEF SerialInv
<1> QED
  BY <1>1, SerialSpec, OneIsIsolated, PTL

(* Under the same condition orders are completed and reopened only the     *)
(* dedicated way.                                                          *)
THEOREM SerialDelivery ==
  /\ Spec /\ [][Isolated]_vars => DeliveryIsDedicated
  /\ OneClient /\ Spec => DeliveryIsDedicated
<1>1. SerialInv /\ [Next]_vars =>
        [\A o \in Orders :
           /\ order'[o].status = "COMPLETED" /\ order[o].status # "COMPLETED" =>
                order[o].status = "QA"
           /\ order[o].status = "COMPLETED" /\ order'[o].status # "COMPLETED" =>
                instance'[o] # instance[o]]_vars
  BY DedicatedStep DEF SerialInv
<1> QED
  BY <1>1, SerialSpec, OneIsIsolated, PTL DEF Spec, DeliveryIsDedicated
---------------------------------------------------------------------------
(* What concurrent requests cannot do to the money of an order.  They may  *)
(* erase a payment from its row, never invent one: whatever is written     *)
(* back was once read, and what had been received then still was.          *)

Accounted(o, row) ==
  /\ row.events <= collected[o]
  /\ \A r \in row.keys : booked[o][r] >= 1

AccountedInv ==
  /\ \A o \in Orders : Accounted(o, order[o])
  /\ \A c \in Clients : tx[c] # Idle => Accounted(tx[c].order, tx[c].row)

(* An operation that writes back what it has read receives nothing. *)
LEMMA BooksOnly ==
  ASSUME NEW c \in Clients,
         \/ \E status \in Statuses : Update(c, status)
         \/ Authorize(c)
         \/ Reject(c)
         \/ \E total \in 0 .. MaxMoney : Quote(c, total)
         \/ \E n \in TestNames, result \in {"passed", "failed"} : AddTest(c, n, result)
         \/ \E to \in WfStates : Advance(c, to)
         \/ AdvanceDeliver(c)
  PROVE  tx[c] # Idle /\ UNCHANGED <<collected, booked>>
<1>1. ASSUME NEW status \in Statuses, Update(c, status)
      PROVE  tx[c].phase = "read" /\ UNCHANGED <<collected, booked>>
  BY <1>1 DEF Update
<1>2. ASSUME Authorize(c) \/ Reject(c)
      PROVE  tx[c].phase = "read" /\ UNCHANGED <<collected, booked>>
  BY <1>2 DEF Authorize, Reject
<1>3. ASSUME NEW total \in 0 .. MaxMoney, Quote(c, total)
      PROVE  tx[c].phase = "read" /\ UNCHANGED <<collected, booked>>
  <2>1. /\ tx[c].phase = "read"
        /\ UNCHANGED <<stockVars, tests, instance, collected, booked>>
    BY <1>3, Zenon DEF Quote
  <2> QED
    BY <2>1
<1>4. ASSUME NEW n, NEW result, AddTest(c, n, result)
      PROVE  tx[c].phase = "read" /\ UNCHANGED <<collected, booked>>
  BY <1>4 DEF AddTest
<1>5. ASSUME NEW to, Advance(c, to)
      PROVE  tx[c].phase = "seen" /\ UNCHANGED <<collected, booked>>
  BY <1>5 DEF Advance
<1>6. ASSUME AdvanceDeliver(c)
      PROVE  tx[c].phase = "consuming" /\ UNCHANGED <<collected, booked>>
  BY <1>6 DEF AdvanceDeliver
<1>7. /\ tx[c].phase \in {"read", "seen", "consuming"}
      /\ UNCHANGED <<collected, booked>>
  BY <1>1, <1>2, <1>3, <1>4, <1>5, <1>6
<1> QED
  BY <1>7, PhaseNotIdle

(* Cash that was received, and what was booked, is not taken back. *)
LEMMA ReceivedGrows ==
  ASSUME TypeOK, [Next]_vars
  PROVE  \A o \in Orders :
           /\ collected[o] \in Nat /\ collected'[o] \in Nat /\ collected[o] <= collected'[o]
           /\ \A r \in PaymentIds :
                /\ booked[o][r] \in Nat /\ booked'[o][r] \in Nat
                /\ booked[o][r] <= booked'[o][r]
<1>1. /\ collected \in [Orders -> Nat] /\ booked \in [Orders -> [PaymentIds -> Nat]]
      /\ collected' \in [Orders -> Nat] /\ booked' \in [Orders -> [PaymentIds -> Nat]]
  BY TypeStep DEF TypeOK
<1>2. ASSUME NEW o \in Orders, NEW n \in Nat, collected' = [collected EXCEPT ![o] = @ + n]
      PROVE  \A u \in Orders : collected[u] <= collected'[u]
  BY <1>1, <1>2
<1>3. \/ UNCHANGED collected
      \/ \E o \in Orders, n \in Nat : collected' = [collected EXCEPT ![o] = @ + n]
  <2>1. ASSUME NEW c \in Clients, NEW o \in Orders, NEW n \in 0 .. MaxMoney, Create(c, o, n)
        PROVE  \E m \in Nat : collected' = [collected EXCEPT ![o] = @ + m]
    <3>1. n \in Nat
      BY BoundsAssumption
    <3> QED
      BY <2>1, <3>1 DEF Create
  <2>2. ASSUME NEW c \in Clients, NEW o \in Orders, NEW deferred \in BOOLEAN,
               Deliver(c, o, deferred)
        PROVE  \E m \in Nat : collected' = [collected EXCEPT ![o] = @ + m]
    <3> DEFINE received == IF deferred THEN 0 ELSE Outstanding(order[o])
    <3>1. received \in Nat
      BY OutstandingType DEF TypeOK
    <3>2. collected' = [collected EXCEPT ![o] = @ + received]
      BY <2>2 DEF Deliver
    <3> HIDE DEF received
    <3> QED
      BY <3>1, <3>2
  <2>3. ASSUME NEW c \in Clients, NEW o \in Orders, NEW n \in 1 .. MaxMoney,
               NEW ids \in SUBSET PaymentIds, RecordPendingPayment(c, o, n, ids)
        PROVE  \E m \in Nat : collected' = [collected EXCEPT ![o] = @ + m]
    <3>1. n \in Nat
      BY BoundsAssumption
    <3>2. collected' = [collected EXCEPT ![o] = @ + n]
      BY <2>3 DEF RecordPendingPayment
    <3> QED
      BY <3>1, <3>2
  <2>4. ASSUME NEW c \in Clients, NEW o \in Orders, Convert(c, o) PROVE UNCHANGED collected
    BY <2>4 DEF Convert
  <2>5. ASSUME NEW c \in Clients,
               \/ \E status \in Statuses : Update(c, status)
               \/ Authorize(c)
               \/ Reject(c)
               \/ \E total \in 0 .. MaxMoney : Quote(c, total)
               \/ \E n \in TestNames, result \in {"passed", "failed"} : AddTest(c, n, result)
               \/ \E to \in WfStates : Advance(c, to)
               \/ AdvanceDeliver(c)
        PROVE  UNCHANGED collected
    BY <2>5, BooksOnly
  <2> QED
    BY <2>1, <2>2, <2>3, <2>4, <2>5, OtherStep
<1>4. \A o \in Orders, r \in PaymentIds : booked[o][r] <= booked'[o][r]
  <2>1. ASSUME UNCHANGED booked PROVE \A o \in Orders, r \in PaymentIds : booked[o][r] <= booked'[o][r]
    BY <1>1, <2>1
  <2>2. ASSUME NEW c \in Clients, NEW o \in Orders, NEW n, NEW ids,
               RecordPendingPayment(c, o, n, ids)
        PROVE  \A u \in Orders, r \in PaymentIds : booked[u][r] <= booked'[u][r]
    <3>1. booked' = [booked EXCEPT ![o] =
            [r \in PaymentIds |-> IF r \in ids THEN booked[o][r] + 1 ELSE booked[o][r]]]
      BY <2>2 DEF RecordPendingPayment
    <3>2. \A u \in Orders, r \in PaymentIds :
            booked'[u][r] = IF u = o /\ r \in ids THEN booked[u][r] + 1 ELSE booked[u][r]
      BY <1>1, <3>1
    <3> QED
      BY <1>1, <3>2
  <2>3. ASSUME NEW c \in Clients,
               \/ \E status \in Statuses : Update(c, status)
               \/ Authorize(c)
               \/ Reject(c)
               \/ \E total \in 0 .. MaxMoney : Quote(c, total)
               \/ \E n \in TestNames, result \in {"passed", "failed"} : AddTest(c, n, result)
               \/ \E to \in WfStates : Advance(c, to)
               \/ AdvanceDeliver(c)
        PROVE  UNCHANGED booked
    BY <2>3, BooksOnly
  <2>4. ASSUME NEW c \in Clients, NEW o \in Orders,
               Convert(c, o) \/ \E deposit \in 0 .. MaxMoney : Create(c, o, deposit)
        PROVE  UNCHANGED booked
    BY <2>4 DEF Convert, Create
  <2>5. ASSUME NEW c \in Clients, NEW o \in Orders, NEW deferred \in BOOLEAN,
               Deliver(c, o, deferred)
        PROVE  UNCHANGED booked
    BY <2>5 DEF Deliver
  <2> QED
    BY <2>1, <2>2, <2>3, <2>4, <2>5, OtherStep
<1> QED
  BY <1>1, <1>2, <1>3, <1>4

(* What an unlocked operation writes has the payments of the row that its  *)
(* transaction had read.                                                   *)
LEMMA WrittenFromRead ==
  ASSUME TypeOK, NEW c \in Clients,
         \/ \E status \in Statuses : Update(c, status)
         \/ Authorize(c)
         \/ Reject(c)
         \/ \E total \in 0 .. MaxMoney : Quote(c, total)
         \/ \E n \in TestNames, result \in {"passed", "failed"} : AddTest(c, n, result)
         \/ \E to \in WfStates : Advance(c, to)
         \/ AdvanceDeliver(c)
  PROVE  /\ tx[c] # Idle
         /\ \A o \in Orders :
              \/ order'[o] = order[o]
              \/ /\ o = tx[c].order
                 /\ order'[o].events = tx[c].row.events
                 /\ order'[o].keys = tx[c].row.keys
<1>1. tx[c] # Idle
  BY BooksOnly
<1>2. tx[c].row \in Row /\ tx[c].order \in Orders
  BY <1>1, TxType
<1>3. ASSUME NEW row, WriteBack(c, row), row.events = tx[c].row.events,
             row.keys = tx[c].row.keys, NEW o \in Orders
      PROVE  \/ order'[o] = order[o]
             \/ /\ o = tx[c].order
                /\ order'[o].events = tx[c].row.events
                /\ order'[o].keys = tx[c].row.keys
  BY <1>3 DEF WriteBack, TypeOK
<1>4. ASSUME NEW status
      PROVE  LET row == [tx[c].row EXCEPT !.status = status]
             IN row.events = tx[c].row.events /\ row.keys = tx[c].row.keys
  BY <1>2 DEF Row
<1>5. ASSUME NEW status \in Statuses, Update(c, status)
      PROVE  WriteBack(c, [tx[c].row EXCEPT !.status = status])
  BY <1>5 DEF Update
<1>6. ASSUME Authorize(c) PROVE WriteBack(c, [tx[c].row EXCEPT !.status = "AUTHORIZED"])
  BY <1>6 DEF Authorize
<1>7. ASSUME Reject(c) PROVE WriteBack(c, [tx[c].row EXCEPT !.status = "QUOTE_REJECTED"])
  BY <1>7 DEF Reject
<1>8. ASSUME NEW total \in 0 .. MaxMoney, Quote(c, total)
      PROVE  \E row : /\ WriteBack(c, row) /\ row.events = tx[c].row.events
                      /\ row.keys = tx[c].row.keys
  <2> DEFINE row == [tx[c].row EXCEPT
                       !.status = "QUOTED", !.quoted = TRUE, !.total = total,
                       !.payStatus = IF tx[c].row.paid >= total THEN "PAID" ELSE "PENDING"]
  <2>1. WriteBack(c, row)
    BY <1>8, Zenon DEF Quote
  <2>2. row.events = tx[c].row.events /\ row.keys = tx[c].row.keys
    BY <1>2 DEF Row
  <2> HIDE DEF row
  <2> QED
    BY <2>1, <2>2
<1>9. ASSUME NEW n \in TestNames, NEW result \in {"passed", "failed"}, AddTest(c, n, result),
             NEW o \in Orders
      PROVE  \/ order'[o] = order[o]
             \/ o = tx[c].order /\ order'[o] = [tx[c].row EXCEPT !.status = "QA"]
  BY <1>9 DEF AddTest, TypeOK
<1>10. ASSUME NEW to \in WfStates, Advance(c, to)
       PROVE  WriteBack(c, [tx[c].row EXCEPT
                              !.status = PhaseStatus(WfPhase[to], tx[c].row.status)])
  BY <1>10 DEF Advance
<1>11. ASSUME AdvanceDeliver(c)
       PROVE  \E row : /\ WriteBack(c, row) /\ row.events = tx[c].row.events
                       /\ row.keys = tx[c].row.keys
  <2> DEFINE row == [tx[c].row EXCEPT !.status = "COMPLETED", !.delivered = TRUE]
  <2>1. WriteBack(c, row)
    BY <1>11 DEF AdvanceDeliver
  <2>2. row.events = tx[c].row.events /\ row.keys = tx[c].row.keys
    BY <1>2 DEF Row
  <2> HIDE DEF row
  <2> QED
    BY <2>1, <2>2
<1> QED
  BY <1>1, <1>3, <1>4, <1>5, <1>6, <1>7, <1>8, <1>9, <1>10, <1>11

(* A new order, a delivery and a later payment book what they receive. *)
LEMMA ReceivedIsBooked ==
  ASSUME TypeOK, AccountedInv, NEW c \in Clients, NEW u \in Orders,
         \/ Convert(c, u)
         \/ \E deposit \in 0 .. MaxMoney : Create(c, u, deposit)
         \/ \E deferred \in BOOLEAN : Deliver(c, u, deferred)
         \/ \E amount \in 1 .. MaxMoney, ids \in SUBSET PaymentIds :
              RecordPendingPayment(c, u, amount, ids),
         NEW o \in Orders
  PROVE  Accounted(o, order[o])'
<1>1. /\ order[o] \in Row /\ order[u] \in Row
      /\ collected \in [Orders -> Nat] /\ booked \in [Orders -> [PaymentIds -> Nat]]
      /\ order[o].events \in Nat /\ order[o].keys \subseteq PaymentIds
  BY DEF TypeOK, Row
<1>2. Accounted(o, order[o]) /\ Accounted(u, order[u])
  BY DEF AccountedInv
<1>3. ASSUME NEW amount \in Nat, NEW row \in Row, NEW ids \in SUBSET PaymentIds, NEW new,
             row.events <= collected[u], \A r \in row.keys : booked[u][r] >= 1,
             new.events = row.events + amount, new.keys = row.keys \cup ids,
             order' = [order EXCEPT ![u] = new],
             collected' = [collected EXCEPT ![u] = @ + amount],
             \/ ids = {} /\ UNCHANGED booked
             \/ booked' = [booked EXCEPT ![u] =
                  [r \in PaymentIds |-> IF r \in ids THEN @[r] + 1 ELSE @[r]]]
      PROVE  Accounted(o, order[o])'
  <2>1. CASE o # u
    <3>1. order'[o] = order[o] /\ collected'[o] = collected[o] /\ booked'[o] = booked[o]
      BY <1>1, <1>3, <2>1 DEF TypeOK
    <3> QED
      BY <1>2, <3>1 DEF Accounted
  <2>2. CASE o = u
    <3>1. order'[o] = new /\ collected'[o] = collected[o] + amount
      BY <1>1, <1>3, <2>2 DEF TypeOK
    <3>2. row.events \in Nat /\ row.keys \subseteq PaymentIds
      BY DEF Row
    <3>3. order'[o].events <= collected'[o]
      BY <1>1, <1>3, <2>2, <3>1, <3>2
    <3>4. ASSUME NEW r \in order'[o].keys PROVE booked'[o][r] >= 1
      <4>1. CASE ids = {} /\ UNCHANGED booked
        BY <1>3, <2>2, <3>1, <4>1
      <4>2. CASE booked' = [booked EXCEPT ![u] =
                   [q \in PaymentIds |-> IF q \in ids THEN @[q] + 1 ELSE @[q]]]
        <5>1. r \in row.keys \cup ids /\ r \in PaymentIds
          BY <1>3, <3>1, <3>2
        <5>2. booked'[o][r] = IF r \in ids THEN booked[o][r] + 1 ELSE booked[o][r]
          BY <1>1, <2>2, <4>2, <5>1
        <5>3. booked[o][r] \in Nat
          BY <1>1, <5>1
        <5> QED
          BY <1>3, <2>2, <5>1, <5>2, <5>3
      <4> QED
        BY <1>3, <4>1, <4>2
    <3> QED
      BY <3>3, <3>4 DEF Accounted
  <2> QED
    BY <2>1, <2>2
<1>4. CASE Convert(c, u)
  <2> DEFINE new == [BlankRow EXCEPT !.status = "INTAKE"]
  <2>1. new \in Row /\ new.events = 0 /\ new.keys = {}
    BY DEF Row, Statuses, BlankRow
  <2>2. order' = [order EXCEPT ![u] = new] /\ UNCHANGED <<collected, booked>>
    BY <1>4 DEF Convert
  <2> HIDE DEF new
  <2>3. CASE o # u
    BY <1>2, <2>2, <2>3 DEF Accounted, TypeOK
  <2>4. CASE o = u
    <3>1. order'[o] = new /\ collected'[o] \in Nat
      BY <1>1, <2>2, <2>4 DEF TypeOK
    <3> QED
      BY <2>1, <3>1 DEF Accounted
  <2> QED
    BY <2>3, <2>4
<1>5. ASSUME NEW deposit \in 0 .. MaxMoney, Create(c, u, deposit)
      PROVE  Accounted(o, order[o])'
  <2> DEFINE old == [BlankRow EXCEPT !.status = "INTAKE", !.described = TRUE]
             new == AddPayment(old, deposit, {})
  <2>1. deposit \in Nat
    BY BoundsAssumption
  <2>2. old \in Row /\ old.events = 0 /\ old.keys = {}
    BY DEF Row, Statuses, BlankRow
  <2>3. /\ order' = [order EXCEPT ![u] = new]
        /\ collected' = [collected EXCEPT ![u] = @ + deposit] /\ UNCHANGED booked
    BY <1>5 DEF Create
  <2> HIDE DEF old
  <2>4. new.events = old.events + deposit /\ new.keys = old.keys \cup {}
    BY <2>1, <2>2, AddPaymentType
  <2>5. old.events <= collected[u] /\ \A r \in old.keys : booked[u][r] >= 1
    BY <1>1, <2>2
  <2> HIDE DEF new
  <2> QED
    BY <1>3, <2>1, <2>2, <2>3, <2>4, <2>5
<1>6. ASSUME NEW deferred \in BOOLEAN, Deliver(c, u, deferred)
      PROVE  Accounted(o, order[o])'
  <2> DEFINE received == IF deferred THEN 0 ELSE Outstanding(order[u])
             paid == AddPayment(order[u], received, {})
             new == [paid EXCEPT !.status = "COMPLETED", !.delivered = TRUE,
                                 !.payStatus = IF deferred THEN "PENDING" ELSE "PAID"]
  <2>1. received \in Nat
    BY <1>1, OutstandingType
  <2>2. /\ order' = [order EXCEPT ![u] = new]
        /\ collected' = [collected EXCEPT ![u] = @ + received] /\ UNCHANGED booked
    BY <1>6, Zenon DEF Deliver
  <2> HIDE DEF received
  <2>3. /\ paid \in Row /\ paid.events = order[u].events + received
        /\ paid.keys = order[u].keys \cup {}
    BY <1>1, <2>1, AddPaymentType
  <2>4. new.events = paid.events /\ new.keys = paid.keys
    <3> HIDE DEF paid
    <3> QED
      BY <2>3 DEF Row
  <2> HIDE DEF paid, new
  <2> QED
    BY <1>1, <1>2, <1>3, <2>1, <2>2, <2>3, <2>4 DEF Accounted
<1>7. ASSUME NEW amount \in 1 .. MaxMoney, NEW ids \in SUBSET PaymentIds,
             RecordPendingPayment(c, u, amount, ids)
      PROVE  Accounted(o, order[o])'
  <2> DEFINE paid == AddPayment(order[u], amount, ids)
             new == [paid EXCEPT
                       !.payStatus = IF amount = Outstanding(order[u]) THEN "PAID" ELSE "PENDING"]
  <2>1. amount \in Nat
    BY BoundsAssumption
  <2>2. /\ order' = [order EXCEPT ![u] = new]
        /\ collected' = [collected EXCEPT ![u] = @ + amount]
        /\ booked' = [booked EXCEPT ![u] =
             [r \in PaymentIds |-> IF r \in ids THEN @[r] + 1 ELSE @[r]]]
    BY <1>7 DEF RecordPendingPayment
  <2>3. /\ paid \in Row /\ paid.events = order[u].events + amount
        /\ paid.keys = order[u].keys \cup ids
    BY <1>1, <2>1, AddPaymentType
  <2>4. new.events = paid.events /\ new.keys = paid.keys
    <3> HIDE DEF paid
    <3> QED
      BY <2>3 DEF Row
  <2> HIDE DEF paid, new
  <2> QED
    BY <1>1, <1>2, <1>3, <2>1, <2>2, <2>3, <2>4 DEF Accounted
<1> QED
  BY <1>4, <1>5, <1>6, <1>7

(* A row that was accounted for stays so, since receipts only grow; a row  *)
(* that is written back was accounted for when it was read.                *)
LEMMA AccountedStep == TypeOK /\ AccountedInv /\ [Next]_vars => AccountedInv'
<1> SUFFICES ASSUME TypeOK, AccountedInv, [Next]_vars PROVE AccountedInv'
  OBVIOUS
<1>1. ASSUME NEW o \in Orders, NEW row, row.events \in Nat, row.keys \subseteq PaymentIds,
             Accounted(o, row)
      PROVE  row.events <= collected'[o] /\ \A r \in row.keys : booked'[o][r] >= 1
  <2>1. collected[o] \in Nat /\ collected'[o] \in Nat /\ collected[o] <= collected'[o]
    BY ReceivedGrows
  <2>2. ASSUME NEW r \in row.keys PROVE booked'[o][r] >= 1
    <3>1. booked[o][r] \in Nat /\ booked'[o][r] \in Nat /\ booked[o][r] <= booked'[o][r]
      BY <1>1, ReceivedGrows
    <3>2. booked[o][r] >= 1
      BY <1>1 DEF Accounted
    <3> QED
      BY <3>1, <3>2
  <2>3. row.events <= collected'[o]
    BY <1>1, <2>1 DEF Accounted
  <2> QED
    BY <2>2, <2>3
<1>2. \A o \in Orders : /\ order[o].events \in Nat /\ order[o].keys \subseteq PaymentIds
                        /\ Accounted(o, order[o])
  BY DEF TypeOK, Row, AccountedInv
<1>3. ASSUME NEW c \in Clients, tx[c] # Idle
      PROVE  /\ tx[c].order \in Orders /\ Accounted(tx[c].order, tx[c].row)
             /\ tx[c].row.events \in Nat /\ tx[c].row.keys \subseteq PaymentIds
  BY <1>3, TxType DEF Row, AccountedInv
<1>4. ASSUME NEW o \in Orders, order'[o] = order[o] PROVE Accounted(o, order[o])'
  BY <1>1, <1>2, <1>4 DEF Accounted
<1>5. ASSUME NEW o \in Orders PROVE Accounted(o, order[o])'
  <2>1. ASSUME NEW c \in Clients,
               \/ \E status \in Statuses : Update(c, status)
               \/ Authorize(c)
               \/ Reject(c)
               \/ \E total \in 0 .. MaxMoney : Quote(c, total)
               \/ \E n \in TestNames, result \in {"passed", "failed"} : AddTest(c, n, result)
               \/ \E to \in WfStates : Advance(c, to)
               \/ AdvanceDeliver(c)
        PROVE  Accounted(o, order[o])'
    <3>1. tx[c] # Idle
      BY <2>1, WrittenFromRead
    <3>2. CASE order'[o] = order[o]
      BY <1>4, <3>2
    <3>3. CASE /\ o = tx[c].order
               /\ order'[o].events = tx[c].row.events
               /\ order'[o].keys = tx[c].row.keys
      BY <1>1, <1>3, <3>1, <3>3 DEF Accounted
    <3> QED
      BY <2>1, <3>2, <3>3, WrittenFromRead
  <2>2. ASSUME NEW c \in Clients, NEW u \in Orders,
               \/ Convert(c, u)
               \/ \E deposit \in 0 .. MaxMoney : Create(c, u, deposit)
               \/ \E deferred \in BOOLEAN : Deliver(c, u, deferred)
               \/ \E amount \in 1 .. MaxMoney, ids \in SUBSET PaymentIds :
                    RecordPendingPayment(c, u, amount, ids)
        PROVE  Accounted(o, order[o])'
    BY <2>2, ReceivedIsBooked
  <2>3. CASE UNCHANGED order
    BY <1>4, <2>3
  <2> QED
    BY <2>1, <2>2, <2>3, OtherStep
<1>6. ASSUME NEW c \in Clients, tx'[c] # Idle PROVE Accounted(tx[c].order, tx[c].row)'
  <2>1. CASE tx[c] # Idle /\ tx'[c].row = tx[c].row /\ tx'[c].order = tx[c].order
    BY <1>1, <1>3, <2>1 DEF Accounted
  <2>2. CASE tx'[c].order \in Orders /\ tx'[c].row = order[tx'[c].order]
    BY <1>1, <1>2, <2>2 DEF Accounted
  <2> QED
    BY <1>6, <2>1, <2>2, SnapshotStep
<1> QED
  BY <1>5, <1>6 DEF AccountedInv

(* However requests interleave, an order whose quote is shown as PAID has  *)
(* received its price: concurrent requests may ask a customer to pay       *)
(* twice, they never let one go without paying (deliver, quote,            *)
(* recordPendingPayment).                                                  *)
PaidWasReceived ==
  \A o \in Orders : order[o].quoted /\ order[o].payStatus = "PAID" =>
    order[o].total <= collected[o]

THEOREM PaidIsBacked == Spec => []PaidWasReceived
<1>1. Init => AccountedInv
  BY DEF Init, AccountedInv, Accounted, BlankRow
<1>2. TypeOK /\ RowsCoherent /\ AccountedInv => PaidWasReceived
  <2> SUFFICES ASSUME TypeOK, RowsCoherent, AccountedInv, NEW o \in Orders,
                      order[o].quoted, order[o].payStatus = "PAID"
               PROVE  order[o].total <= collected[o]
    BY DEF PaidWasReceived
  <2>1. /\ order[o] \in Row /\ Coherent(order[o]) /\ Accounted(o, order[o])
        /\ collected[o] \in Nat
    BY DEF TypeOK, RowsCoherent, AccountedInv
  <2> QED
    BY <2>1 DEF Row, Coherent, Accounted
<1> QED
  BY <1>1, <1>2, TypeCorrect, RowsStayCoherent, AccountedStep, PTL DEF Spec
=============================================================================
