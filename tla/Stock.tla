------------------------------- MODULE Stock -------------------------------
(***************************************************************************)
(* Branch stock and the reservations that repair orders hold on it         *)
(* (frontdesk-service, inventory/service/InventoryService.java).           *)
(*                                                                         *)
(* A balance is the quantity that may still be promised: reserving takes   *)
(* the quantity out of the balance, releasing puts it back and consuming   *)
(* leaves it out for good.  There is at most one reservation row per       *)
(* (order, product).  Every operation locks the product row first, so each *)
(* is one step here.  One branch is modelled: an order reserves only at    *)
(* its own branch, and the rows of two branches never meet.                *)
(***************************************************************************)
EXTENDS Integers, FiniteSets, FiniteSetsExt

CONSTANTS
  Orders,     \* repair orders
  Products,   \* inventory products
  MaxStock    \* bound of the model: largest quantity a step puts on the shelf

ASSUME MaxStockAssumption == MaxStock \in Nat \ {0}
ASSUME OrdersAssumption == IsFiniteSet(Orders)

VARIABLES
  balance,      \* Products -> quantity free to promise (inventory_balances)
  reservation,  \* Orders -> Products -> reservation row (inventory_reservations)
  supplied      \* history: net quantity that movements and counts brought in

stockVars == <<balance, reservation, supplied>>

NoRow    == "NONE"
Reserved == "RESERVED"
Released == "RELEASED"
Consumed == "CONSUMED"

Reservation == [status : {NoRow, Reserved, Released, Consumed}, quantity : Nat]

StockTypeOK ==
  /\ balance \in [Products -> Nat]
  /\ reservation \in [Orders -> [Products -> Reservation]]
  /\ supplied \in [Products -> Int]

StockInit ==
  /\ balance = [p \in Products |-> 0]
  /\ reservation =
       [o \in Orders |-> [p \in Products |-> [status |-> NoRow, quantity |-> 0]]]
  /\ supplied = [p \in Products |-> 0]

Status(o, p) == reservation[o][p].status

(* The quantity that the row of (o, p) keeps out of the balance. *)
Held(o, p) == IF Status(o, p) = Reserved THEN reservation[o][p].quantity ELSE 0

---------------------------------------------------------------------------
(* Mutant: a movement that may overdraw the balance. *)
MoveOverdrawn(p, delta) ==
  /\ balance[p] + delta <= MaxStock
  /\ balance' = [balance EXCEPT ![p] = @ + delta]
  /\ supplied' = [supplied EXCEPT ![p] = @ + delta]
  /\ UNCHANGED reservation

(* move: a signed manual movement; a balance never goes below zero. *)
Move(p, delta) ==
  /\ balance[p] + delta \in 0 .. MaxStock
  /\ balance' = [balance EXCEPT ![p] = @ + delta]
  /\ supplied' = [supplied EXCEPT ![p] = @ + delta]
  /\ UNCHANGED reservation

(* count: the balance becomes the counted quantity.  The optional expected *)
(* quantity only turns a stale request into a refusal.                     *)
Count(p, counted) ==
  /\ counted \in 0 .. MaxStock
  /\ balance' = [balance EXCEPT ![p] = counted]
  /\ supplied' = [supplied EXCEPT ![p] = @ + counted - balance[p]]
  /\ UNCHANGED reservation

(* Mutant: re-reserving forgets what the row already holds. *)
WholeQuantity(o, p, q) == q

(* What a reservation of q takes from the balance beyond what is held. *)
Increase(o, p, q) == q - Held(o, p)

(* reserve: the row becomes RESERVED with quantity q and the balance pays   *)
(* for the difference with what the row already held.                       *)
Reserve(o, p, q) ==
  /\ q > 0
  /\ Status(o, p) # Consumed
  /\ Increase(o, p, q) <= balance[p]
  /\ balance' = [balance EXCEPT ![p] = @ - Increase(o, p, q)]
  /\ reservation' =
       [reservation EXCEPT ![o][p] = [status |-> Reserved, quantity |-> q]]
  /\ UNCHANGED supplied

(* Mutant: a consumed row can be released too. *)
ReleaseConsumed(o, p) ==
  /\ Status(o, p) \in {Reserved, Consumed}
  /\ balance' = [balance EXCEPT ![p] = @ + reservation[o][p].quantity]
  /\ reservation' = [reservation EXCEPT ![o][p].status = Released]
  /\ UNCHANGED supplied

(* release: a RESERVED row gives its quantity back. *)
Release(o, p) ==
  /\ Status(o, p) = Reserved
  /\ balance' = [balance EXCEPT ![p] = @ + reservation[o][p].quantity]
  /\ reservation' = [reservation EXCEPT ![o][p].status = Released]
  /\ UNCHANGED supplied

(* Mutant: a cancellation that forgets the reservations. *)
ReleaseNothing(o) == UNCHANGED stockVars

(* releaseReservationsForOrder: every row still RESERVED is released. *)
ReleaseAll(o) ==
  /\ balance' = [p \in Products |-> balance[p] + Held(o, p)]
  /\ reservation' =
       [reservation EXCEPT ![o] =
          [p \in Products |->
             IF @[p].status = Reserved THEN [@[p] EXCEPT !.status = Released]
                                       ELSE @[p]]]
  /\ UNCHANGED supplied

(* consumeReservations, over the rows the transaction has locked. *)
ConsumeRows(o, rows) ==
  /\ reservation' =
       [reservation EXCEPT ![o] =
          [p \in Products |->
             IF p \in rows /\ @[p].status = Reserved
               THEN [@[p] EXCEPT !.status = Consumed]
               ELSE @[p]]]
  /\ UNCHANGED <<balance, supplied>>

(* The rows findAllForUpdateByHotelIdAndServiceOrderId... locks. *)
RowsOf(o) == {p \in Products : Status(o, p) # NoRow}

---------------------------------------------------------------------------
(* What the rows of all orders keep out of the balance of p, for now or    *)
(* for good.                                                               *)
TakenBy(p) ==
  [o \in Orders |-> IF Status(o, p) \in {Reserved, Consumed}
                      THEN reservation[o][p].quantity ELSE 0]
Promised(p) == SumFunctionOnSet(TakenBy(p), Orders)

(* No unit of stock appears or disappears: what movements and counts       *)
(* brought in is on the shelf, reserved or consumed, whatever sequence of  *)
(* re-reservations, releases, cancellations and deliveries came between.   *)
StockConserved == \A p \in Products : balance[p] + Promised(p) = supplied[p]

(* InventoryService refuses to reserve or to release a consumed row        *)
(* (RESERVATION_ALREADY_CONSUMED): parts built into a delivered device     *)
(* never return to the shelf, and their quantity is never rewritten.       *)
ConsumedIsFinal ==
  [][\A o \in Orders, p \in Products :
       Status(o, p) = Consumed => reservation'[o][p] = reservation[o][p]]_stockVars
=============================================================================
