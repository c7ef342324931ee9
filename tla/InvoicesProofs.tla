--------------------------- MODULE InvoicesProofs ---------------------------
(***************************************************************************)
(* For any finite sets of invoices, payments and deposits, any number of   *)
(* requests at a time and any amounts: what the version of the invoice,    *)
(* the unique number and the copy of the payment row guarantee.            *)
(***************************************************************************)
EXTENDS Invoices, SumProofs

(* A request that has read an invoice: the row it keeps is the current one *)
(* unless the version has moved on.                                        *)
SeenInv(t) ==
  t.op \in {"open", "charge", "pay", "refund"} =>
    /\ t.invoice \in Created
    /\ t.seen \in InvoiceRow
    /\ t.seen.version <= invoice[t.invoice].version
    /\ t.seen.version = invoice[t.invoice].version => t.seen = invoice[t.invoice]

(* The other things that it has read.                                      *)
ReadInv(t) ==
  /\ t.op = "create" => t \in CreateTx /\ t.number <= lastNumber + 1
  /\ t.op = "charge" => t.seen.status = "ISSUED"
  /\ t.op = "pay" => t.amount \in Nat /\ t.reference \in AnyReference
  /\ t.op = "refund" =>
       /\ t.target \in Payments /\ t.row \in PaymentRow
       /\ t.amount \in Nat /\ t.reference \in AnyReference
       /\ t.row.reversed + t.amount <= t.row.amount

TxInv ==
  /\ tx = [c \in Clients |-> tx[c]]
  /\ \A c \in Clients : SeenInv(tx[c]) /\ ReadInv(tx[c])

RowInv ==
  /\ invoice \in [Invoices -> InvoiceRow]
  /\ charged \in [Invoices -> Nat]
  /\ \A i \in Invoices : i \notin Created => invoice[i] = NoInvoice

PaymentInv ==
  /\ payment \in [Payments -> PaymentRow]
  /\ ReversedWithinPayment

NumberInv == lastNumber \in Nat /\ NumbersWithoutGaps

IInv == TxInv /\ RowInv /\ TotalIsCharged /\ PaymentInv /\ NumberInv

(* What a step may do to the rows of invoices: a created one stays, and is *)
(* the same or has the next version.                                       *)
RowsAdvance ==
  /\ \A i \in Created :
       /\ i \in Created'
       /\ \/ invoice'[i] = invoice[i]
          \/ invoice'[i].version = invoice[i].version + 1
  /\ lastNumber' \in Nat /\ lastNumber <= lastNumber'

(* The total of an invoice that is PAID stays.                             *)
TotalsFinal ==
  \A i \in Invoices : invoice[i].status = "PAID" => invoice'[i].total = invoice[i].total

---------------------------------------------------------------------------
(* The rows of invoices.                                                   *)

(* Nothing is invoiced in the beginning.                                   *)
LEMMA InvoicesInitInv == Init => IInv
<1> SUFFICES ASSUME Init
             PROVE  IInv
  OBVIOUS
<1>1. NoInvoice \in InvoiceRow /\ NoInvoice.status = "ABSENT" /\ NoInvoice.total = 0
  BY DEF NoInvoice, InvoiceRow
<1>2. NoPayment \in PaymentRow /\ NoPayment.reversed <= NoPayment.amount
  BY DEF NoPayment, PaymentRow, AnyReference
<1>3. TxInv
  BY DEF Init, TxInv, Idle, SeenInv, ReadInv
<1>4. Created = {}
  BY <1>1 DEF Init, Created
<1>5. RowInv /\ TotalIsCharged
  BY <1>1 DEF Init, RowInv, TotalIsCharged
<1>6. PaymentInv
  BY <1>2 DEF Init, PaymentInv, ReversedWithinPayment
<1>7. NumberInv
  <2>1. Cardinality(Created) = 0
    BY <1>4, FS_EmptySet
  <2>2. {invoice[i].number : i \in Created} = {} /\ 1 .. 0 = {}
    BY <1>4
  <2> QED
    BY <2>1, <2>2 DEF Init, NumberInv, NumbersWithoutGaps
<1> QED
  BY <1>3, <1>5, <1>6, <1>7 DEF IInv

(* A request that the step is not about keeps what it has read.            *)
LEMMA OtherRequest ==
  ASSUME IInv, RowsAdvance, NEW t, SeenInv(t), ReadInv(t)
  PROVE  SeenInv(t)' /\ ReadInv(t)'
<1>1. CASE t.op \in {"open", "charge", "pay", "refund"}
  <2> DEFINE i == t.invoice
  <2>1. i \in Created /\ i \in Invoices /\ t.seen \in InvoiceRow
    BY <1>1 DEF SeenInv, Created
  <2>2. /\ t.seen.version \in Nat /\ invoice[i].version \in Nat
    BY <2>1 DEF IInv, RowInv, InvoiceRow
  <2>3. /\ t.seen.version <= invoice[i].version
        /\ t.seen.version = invoice[i].version => t.seen = invoice[i]
    BY <1>1 DEF SeenInv
  <2>4. /\ i \in Created'
        /\ invoice'[i] = invoice[i] \/ invoice'[i].version = invoice[i].version + 1
    BY <2>1 DEF RowsAdvance
  <2>5. /\ t.seen.version <= invoice'[i].version
        /\ t.seen.version = invoice'[i].version => t.seen = invoice'[i]
    BY <2>2, <2>3, <2>4
  <2>6. SeenInv(t)'
    BY <2>1, <2>4, <2>5 DEF SeenInv
  <2>7. ReadInv(t)'
    BY <1>1 DEF ReadInv
  <2> QED
    BY <2>6, <2>7
<1>2. CASE t.op \notin {"open", "charge", "pay", "refund"}
  <2>1. lastNumber \in Nat /\ lastNumber' \in Nat /\ lastNumber <= lastNumber'
    BY DEF IInv, NumberInv, RowsAdvance
  <2>2. t.op = "create" => t \in CreateTx /\ t.number <= lastNumber + 1
    BY DEF ReadInv
  <2>3. t.op = "create" => t.number \in Nat
    BY <2>2 DEF CreateTx
  <2>4. t.op = "create" => t \in CreateTx /\ t.number <= lastNumber' + 1
    BY <2>1, <2>2, <2>3
  <2>5. SeenInv(t)'
    BY <1>2 DEF SeenInv
  <2>6. ReadInv(t)'
    BY <1>2, <2>4 DEF ReadInv
  <2> QED
    BY <2>5, <2>6
<1> QED
  BY <1>1, <1>2

(* Of all requests, when one of them goes on with t.                       *)
LEMMA Requests ==
  ASSUME IInv, RowsAdvance, NEW c \in Clients, NEW t, tx' = [tx EXCEPT ![c] = t],
         SeenInv(t)', ReadInv(t)'
  PROVE  TxInv'
<1>1. tx' = [d \in Clients |-> IF d = c THEN t ELSE tx[d]]
  BY DEF IInv, TxInv
<1>2. ASSUME NEW d \in Clients
      PROVE  SeenInv(tx[d])' /\ ReadInv(tx[d])'
  <2>1. PICK s : s = IF d = c THEN t ELSE tx[d]
    OBVIOUS
  <2>2. SeenInv(s)' /\ ReadInv(s)'
    <3>1. CASE d = c
      <4>1. s = t
        BY <2>1, <3>1
      <4> QED
        BY <4>1
    <3>2. CASE d # c
      <4>1. s = tx[d]
        BY <2>1, <3>2
      <4>2. SeenInv(s) /\ ReadInv(s)
        BY <4>1 DEF IInv, TxInv
      <4> QED
        BY <4>2, OtherRequest
    <3> QED
      BY <3>1, <3>2
  <2>3. tx'[d] = s
    BY <1>1, <2>1
  <2> QED
    BY <2>2, <2>3 DEF SeenInv, ReadInv
<1>3. tx' = [d \in Clients |-> tx'[d]]
  BY <1>1
<1> QED
  BY <1>2, <1>3 DEF TxInv

(* A request that ends has read nothing.                                   *)
LEMMA Ended ==
  ASSUME IInv, RowsAdvance, NEW c \in Clients, End(c)
  PROVE  TxInv'
<1>1. SeenInv(Idle)' /\ ReadInv(Idle)'
  BY DEF Idle, SeenInv, ReadInv
<1> QED
  BY <1>1, Requests DEF End

---------------------------------------------------------------------------
(* Writing rows.                                                           *)

(* A step that leaves the rows of invoices alone.                          *)
LEMMA Unwritten ==
  ASSUME IInv, UNCHANGED <<invoice, lastNumber>>
  PROVE  RowsAdvance /\ NumberInv' /\ TotalsFinal
<1>1. Created' = Created
  BY DEF Created
<1>2. lastNumber \in Nat
  BY DEF IInv, NumberInv
<1>3. RowsAdvance
  BY <1>1, <1>2 DEF RowsAdvance
<1>4. NumberInv'
  BY <1>1 DEF IInv, NumberInv, NumbersWithoutGaps
<1>5. TotalsFinal
  BY DEF TotalsFinal
<1> QED
  BY <1>3, <1>4, <1>5

(* ... and the ledger.                                                     *)
LEMMA Uncharged ==
  ASSUME IInv, UNCHANGED <<invoice, charged>>
  PROVE  RowInv' /\ TotalIsCharged'
<1>1. Created' = Created
  BY DEF Created
<1>2. RowInv'
  BY <1>1 DEF IInv, RowInv
<1> QED
  BY <1>2 DEF IInv, TotalIsCharged

(* A step that leaves the payments alone.                                  *)
LEMMA Unpaid ==
  ASSUME IInv, UNCHANGED payment
  PROVE  PaymentInv'
BY DEF IInv, PaymentInv, ReversedWithinPayment

(* A write that passes the version check writes over the row that was      *)
(* read.                                                                   *)
LEMMA Written ==
  ASSUME IInv, NEW i \in Created, NEW seen, NEW row \in InvoiceRow,
         seen.version = invoice[i].version => seen = invoice[i],
         SameVersion(seen, i), WriteInvoice(i, row), UNCHANGED lastNumber,
         row.status # "ABSENT", row.number = seen.number, row.version = seen.version
  PROVE  /\ seen = invoice[i]
         /\ invoice' \in [Invoices -> InvoiceRow]
         /\ invoice'[i].total = row.total
         /\ \A j \in Invoices \ {i} : invoice'[j] = invoice[j]
         /\ \A j \in Invoices : j \notin Created' => invoice'[j] = NoInvoice
         /\ RowsAdvance /\ NumberInv'
<1> DEFINE next == [row EXCEPT !.version = row.version + 1]
<1>1. /\ i \in Invoices
      /\ seen = invoice[i]
  BY DEF Created, SameVersion
<1>2. invoice \in [Invoices -> InvoiceRow]
  BY DEF IInv, RowInv
<1>3. /\ next \in InvoiceRow
      /\ next.version = row.version + 1
      /\ next.total = row.total
      /\ next.number = row.number
      /\ next.status = row.status
  BY DEF InvoiceRow
<1>4. invoice' = [invoice EXCEPT ![i] = next]
  BY DEF WriteInvoice
<1> HIDE DEF next
<1>5. /\ invoice' \in [Invoices -> InvoiceRow]
      /\ invoice'[i] = next
      /\ \A j \in Invoices \ {i} : invoice'[j] = invoice[j]
  BY <1>1, <1>2, <1>3, <1>4
<1>6. invoice[i].status # "ABSENT" /\ invoice'[i].status # "ABSENT"
  BY <1>3, <1>5 DEF Created
<1>7. Created' = Created
  BY <1>1, <1>5, <1>6 DEF Created
<1>8. lastNumber \in Nat
  BY DEF IInv, NumberInv
<1>9. invoice'[i].version = invoice[i].version + 1
  BY <1>1, <1>3, <1>5
<1>10. RowsAdvance
  BY <1>5, <1>7, <1>8, <1>9 DEF RowsAdvance, Created
<1>11. NumberInv'
  <2>1. \A j \in Created : j \in Invoices /\ invoice'[j].number = invoice[j].number
    BY <1>1, <1>3, <1>5 DEF Created
  <2>2. {invoice'[j].number : j \in Created'} = {invoice[j].number : j \in Created}
    BY <1>7, <2>1
  <2> QED
    BY <1>7, <2>2 DEF IInv, NumberInv, NumbersWithoutGaps
<1>12. \A j \in Invoices : j \notin Created' => invoice'[j] = NoInvoice
  BY <1>1, <1>5, <1>7 DEF IInv, RowInv
<1> QED
  BY <1>1, <1>3, <1>5, <1>10, <1>11, <1>12

(* A request that only reads.                                              *)
LEMMA Reading ==
  ASSUME IInv, NEW c \in Clients, NEW t, tx' = [tx EXCEPT ![c] = t],
         SeenInv(t), ReadInv(t), UNCHANGED tables
  PROVE  IInv' /\ TotalsFinal
<1>1. RowsAdvance /\ NumberInv' /\ TotalsFinal
  BY Unwritten DEF tables
<1>2. RowInv' /\ TotalIsCharged' /\ PaymentInv'
  BY Uncharged, Unpaid DEF tables
<1>3. SeenInv(t)' /\ ReadInv(t)'
  BY <1>1, OtherRequest
<1>4. TxInv'
  BY <1>1, <1>3, Requests
<1> QED
  BY <1>1, <1>2, <1>4 DEF IInv

---------------------------------------------------------------------------
(* What requests read.                                                     *)

(* The row an open invoice is read from is its current one.                *)
LEMMA Current ==
  ASSUME IInv, NEW i \in Created, NEW t, t.invoice = i, t.seen = invoice[i]
  PROVE  SeenInv(t)
<1>1. invoice[i] \in InvoiceRow
  BY DEF IInv, RowInv, Created
<1>2. invoice[i].version \in Nat
  BY <1>1 DEF InvoiceRow
<1> QED
  BY <1>1, <1>2 DEF SeenInv

(* A request that keeps the invoice row it has read already.               *)
LEMMA StillSeen ==
  ASSUME NEW s, NEW t, SeenInv(s), t.invoice = s.invoice, t.seen = s.seen,
         s.op \in {"open", "charge", "pay", "refund"}
  PROVE  SeenInv(t)
BY DEF SeenInv

LEMMA AbortInv ==
  ASSUME IInv, NEW c \in Clients, Abort(c)
  PROVE  IInv' /\ TotalsFinal
<1>1. SeenInv(Idle) /\ ReadInv(Idle)
  BY DEF Idle, SeenInv, ReadInv
<1> QED
  BY <1>1, Reading DEF Abort, End

LEMMA BeginCreateInv ==
  ASSUME IInv, NEW c \in Clients, NEW s \in Stays, BeginCreate(c, s)
  PROVE  IInv' /\ TotalsFinal
<1>1. PICK t : t = [op |-> "create", stay |-> s, number |-> 0]
  OBVIOUS
<1>2. tx' = [tx EXCEPT ![c] = t] /\ UNCHANGED tables
  BY <1>1 DEF BeginCreate
<1>3. SeenInv(t)
  BY <1>1 DEF SeenInv
<1>4. ReadInv(t)
  BY <1>1 DEF IInv, NumberInv, ReadInv, CreateTx
<1> QED
  BY <1>2, <1>3, <1>4, Reading

(* The number of a transaction is the next one, when it is taken.          *)
LEMMA TakeNumberInv ==
  ASSUME IInv, NEW c \in Clients, TakeNumber(c)
  PROVE  IInv' /\ TotalsFinal
<1>1. PICK t : t = [tx[c] EXCEPT !.number = lastNumber + 1]
  OBVIOUS
<1>2. tx' = [tx EXCEPT ![c] = t] /\ UNCHANGED tables
  <2>1. tx' = [tx EXCEPT ![c].number = lastNumber + 1] /\ UNCHANGED tables
    BY DEF TakeNumber
  <2> QED
    BY <1>1, <2>1
<1>3. ReadInv(tx[c]) /\ tx[c].op = "create"
  BY DEF IInv, TxInv, TakeNumber
<1>4. lastNumber \in Nat
  BY DEF IInv, NumberInv
<1>5. t \in CreateTx /\ t.op = "create" /\ t.number = lastNumber + 1
  BY <1>1, <1>3, <1>4 DEF ReadInv, CreateTx
<1>6. SeenInv(t) /\ ReadInv(t)
  BY <1>4, <1>5 DEF SeenInv, ReadInv
<1> QED
  BY <1>2, <1>6, Reading

LEMMA OpenInv ==
  ASSUME IInv, NEW c \in Clients, NEW i \in Invoices, Open(c, i)
  PROVE  IInv' /\ TotalsFinal
<1>1. PICK t : t = [op |-> "open", invoice |-> i, seen |-> invoice[i]]
  OBVIOUS
<1>2. tx' = [tx EXCEPT ![c] = t] /\ UNCHANGED tables /\ i \in Created
  BY <1>1 DEF Open
<1>3. SeenInv(t)
  BY <1>1, <1>2, Current
<1>4. ReadInv(t)
  BY <1>1 DEF ReadInv
<1> QED
  BY <1>2, <1>3, <1>4, Reading

LEMMA OpenChargeInv ==
  ASSUME IInv, NEW c \in Clients, NEW s \in Stays, NEW i \in Invoices, OpenCharge(c, s, i)
  PROVE  IInv' /\ TotalsFinal
<1>1. PICK t : t = [op |-> "charge", invoice |-> i, seen |-> invoice[i]]
  OBVIOUS
<1>2. tx' = [tx EXCEPT ![c] = t] /\ UNCHANGED tables
  BY <1>1 DEF OpenCharge
<1>3. i \in Created
  BY DEF OpenCharge, OfStay
<1>4. SeenInv(t)
  BY <1>1, <1>3, Current
<1>5. ReadInv(t)
  BY <1>1 DEF ReadInv, OpenCharge, OpenForCharges
<1> QED
  BY <1>2, <1>4, <1>5, Reading

LEMMA LoadPaymentInv ==
  ASSUME IInv, NEW c \in Clients, NEW amount \in Amounts, NEW reference \in AnyReference,
         LoadPayment(c, amount, reference)
  PROVE  IInv' /\ TotalsFinal
<1>1. PICK s : s = tx[c]
  OBVIOUS
<1>2. PICK t : t = [op |-> "pay", invoice |-> s.invoice, seen |-> s.seen,
                    amount |-> amount, reference |-> reference,
                    paid |-> Collected(s.invoice)]
  OBVIOUS
<1>3. tx' = [tx EXCEPT ![c] = t] /\ UNCHANGED tables /\ s.op = "open"
  BY <1>1, <1>2 DEF LoadPayment
<1>4. SeenInv(s)
  BY <1>1 DEF IInv, TxInv
<1>5. SeenInv(t)
  BY <1>2, <1>3, <1>4, StillSeen
<1>6. amount \in Nat
  BY DEF Amounts
<1>7. ReadInv(t)
  BY <1>2, <1>6 DEF ReadInv
<1> QED
  BY <1>3, <1>5, <1>7, Reading

LEMMA LoadDepositInv ==
  ASSUME IInv, NEW c \in Clients, NEW amount \in Amounts, NEW k \in DepositKeys,
         LoadDeposit(c, amount, k)
  PROVE  IInv' /\ TotalsFinal
<1>1. PICK t : t = [op |-> "deposit", invoice |-> tx[c].invoice, amount |-> amount, key |-> k]
  OBVIOUS
<1>2. tx' = [tx EXCEPT ![c] = t] /\ UNCHANGED tables
  BY <1>1 DEF LoadDeposit
<1>3. SeenInv(t) /\ ReadInv(t)
  BY <1>1 DEF SeenInv, ReadInv
<1> QED
  BY <1>2, <1>3, Reading

(* A refund is within what is left of the payment as it was read.          *)
LEMMA LoadRefundInv ==
  ASSUME IInv, NEW c \in Clients, NEW p \in Payments, NEW amount \in Amounts,
         NEW reference \in AnyReference, LoadRefund(c, p, amount, reference)
  PROVE  IInv' /\ TotalsFinal
<1>1. PICK s : s = tx[c]
  OBVIOUS
<1>2. PICK t : t = [op |-> "refund", invoice |-> s.invoice, seen |-> s.seen,
                    amount |-> amount, reference |-> reference,
                    paid |-> NetPaid(s.invoice), target |-> p, row |-> payment[p]]
  OBVIOUS
<1>3. tx' = [tx EXCEPT ![c] = t] /\ UNCHANGED tables /\ s.op = "open"
  BY <1>1, <1>2 DEF LoadRefund
<1>4. SeenInv(s)
  BY <1>1 DEF IInv, TxInv
<1>5. SeenInv(t)
  BY <1>2, <1>3, <1>4, StillSeen
<1>6. payment[p] \in PaymentRow /\ amount \in Nat
  BY DEF Amounts, IInv, PaymentInv
<1>7. amount <= payment[p].amount - payment[p].reversed
  BY DEF LoadRefund, WithinRemainder
<1>8. payment[p].reversed + amount <= payment[p].amount
  BY <1>6, <1>7 DEF PaymentRow
<1>9. ReadInv(t)
  BY <1>2, <1>6, <1>8 DEF ReadInv
<1> QED
  BY <1>3, <1>5, <1>9, Reading

---------------------------------------------------------------------------
(* What requests commit.                                                   *)

(* The number of a created invoice is the next one: those below it are all *)
(* taken, and it is unique.                                                *)
LEMMA CommitCreateInv ==
  ASSUME IInv, NEW c \in Clients, NEW i \in Invoices, CommitCreate(c, i)
  PROVE  IInv' /\ TotalsFinal
<1>1. PICK t : t = tx[c]
  OBVIOUS
<1>2. /\ t.op = "create" /\ t.number > 0
      /\ i \notin Created
      /\ NumberFree(t.number)
      /\ invoice' = [invoice EXCEPT ![i] =
           [status |-> "ISSUED", stay |-> t.stay, number |-> t.number,
            total |-> 0, version |-> 0]]
      /\ lastNumber' = t.number
      /\ End(c)
      /\ UNCHANGED <<payment, deposit, charged, refunded>>
  BY <1>1 DEF CommitCreate
<1>3. t.stay \in Stays /\ t.number \in Nat /\ t.number <= lastNumber + 1
  <2>1. ReadInv(t)
    BY <1>1 DEF IInv, TxInv
  <2>2. t \in CreateTx /\ t.number <= lastNumber + 1
    BY <1>2, <2>1 DEF ReadInv
  <2> QED
    BY <2>2 DEF CreateTx
<1> DEFINE row == [status |-> "ISSUED", stay |-> t.stay, number |-> t.number,
                   total |-> 0, version |-> 0]
<1>4. invoice' = [invoice EXCEPT ![i] = row]
  BY <1>2
<1>5. row \in InvoiceRow /\ row.status = "ISSUED" /\ row.total = 0 /\ row.number = t.number
  BY <1>3 DEF InvoiceRow
<1> HIDE DEF row
<1>6. invoice \in [Invoices -> InvoiceRow]
  BY DEF IInv, RowInv
<1>7. /\ invoice' \in [Invoices -> InvoiceRow]
      /\ invoice'[i] = row
      /\ \A j \in Invoices \ {i} : invoice'[j] = invoice[j]
  BY <1>4, <1>5, <1>6
<1>8. Created' = Created \cup {i}
  BY <1>5, <1>7 DEF Created
<1>9. invoice[i] = NoInvoice /\ invoice[i].total = 0 /\ invoice[i].status = "ABSENT"
  BY <1>2 DEF IInv, RowInv, NoInvoice
<1>10. /\ {invoice[j].number : j \in Created} = 1 .. Cardinality(Created)
       /\ lastNumber = Cardinality(Created) /\ lastNumber \in Nat
  BY DEF IInv, NumberInv, NumbersWithoutGaps
<1>11. t.number = lastNumber + 1
  <2>1. t.number \notin 1 .. lastNumber
    BY <1>2, <1>10 DEF NumberFree
  <2> QED
    BY <1>2, <1>3, <1>10, <2>1
<1>12. RowsAdvance
  <2>1. \A j \in Created : j \in Created' /\ invoice'[j] = invoice[j]
    BY <1>2, <1>7, <1>8 DEF Created
  <2>2. lastNumber' \in Nat /\ lastNumber <= lastNumber'
    BY <1>2, <1>3, <1>10, <1>11
  <2> QED
    BY <2>1, <2>2 DEF RowsAdvance
<1>13. TxInv'
  BY <1>2, <1>12, Ended
<1>14. RowInv'
  BY <1>2, <1>7, <1>8 DEF IInv, RowInv
<1>15. TotalIsCharged'
  BY <1>2, <1>5, <1>7, <1>9 DEF IInv, TotalIsCharged
<1>16. NumberInv'
  <2>1. IsFiniteSet(Created)
    BY InvoicesAssumption, FS_Subset DEF Created
  <2>2. Cardinality(Created') = lastNumber + 1
    BY <1>2, <1>8, <1>10, <2>1, FS_AddElement
  <2>3. \A j \in Created : invoice'[j].number = invoice[j].number
    BY <1>2, <1>7 DEF Created
  <2>4. {invoice'[j].number : j \in Created'} = (1 .. lastNumber) \cup {lastNumber + 1}
    <3>1. invoice'[i].number = lastNumber + 1
      BY <1>5, <1>7, <1>11
    <3>2. {invoice'[j].number : j \in Created'} =
            {invoice[j].number : j \in Created} \cup {lastNumber + 1}
      BY <1>8, <2>3, <3>1
    <3> QED
      BY <1>10, <3>2
  <2>5. (1 .. lastNumber) \cup {lastNumber + 1} = 1 .. (lastNumber + 1)
    BY <1>10
  <2> QED
    BY <1>2, <1>3, <1>11, <2>2, <2>4, <2>5 DEF NumberInv, NumbersWithoutGaps
<1>17. PaymentInv'
  BY <1>2, Unpaid
<1>18. TotalsFinal
  BY <1>5, <1>7, <1>9 DEF TotalsFinal
<1> QED
  BY <1>13, <1>14, <1>15, <1>16, <1>17, <1>18 DEF IInv

(* The charge is added to the row as it is now: it was not PAID when it    *)
(* was read, and has not changed since.                                    *)
LEMMA CommitChargeInv ==
  ASSUME IInv, NEW c \in Clients, NEW amount \in Amounts, CommitCharge(c, amount)
  PROVE  IInv' /\ TotalsFinal
<1>1. PICK t : t = tx[c]
  OBVIOUS
<1> DEFINE i == t.invoice
           row == [t.seen EXCEPT !.total = t.seen.total + amount]
<1>2. /\ t.op = "charge"
      /\ SameVersion(t.seen, i)
      /\ WriteInvoice(i, row)
      /\ charged' = [charged EXCEPT ![i] = charged[i] + amount]
      /\ End(c)
      /\ UNCHANGED <<payment, deposit, refunded, lastNumber>>
  BY <1>1 DEF CommitCharge
<1>3. SeenInv(t) /\ ReadInv(t)
  BY <1>1 DEF IInv, TxInv
<1>4. /\ i \in Created /\ t.seen \in InvoiceRow
      /\ t.seen.version = invoice[i].version => t.seen = invoice[i]
      /\ t.seen.status = "ISSUED"
  BY <1>2, <1>3 DEF SeenInv, ReadInv
<1>5. amount \in Nat
  BY DEF Amounts
<1>6. /\ row \in InvoiceRow /\ row.status = "ISSUED"
      /\ row.number = t.seen.number /\ row.version = t.seen.version
      /\ row.total = t.seen.total + amount
  BY <1>4, <1>5 DEF InvoiceRow
<1> HIDE DEF i, row
<1>7. /\ t.seen = invoice[i]
      /\ invoice' \in [Invoices -> InvoiceRow]
      /\ invoice'[i].total = row.total
      /\ \A j \in Invoices \ {i} : invoice'[j] = invoice[j]
      /\ \A j \in Invoices : j \notin Created' => invoice'[j] = NoInvoice
      /\ RowsAdvance /\ NumberInv'
  BY <1>2, <1>4, <1>6, Written
<1>8. TxInv'
  BY <1>2, <1>7, Ended
<1>9. /\ charged \in [Invoices -> Nat] /\ i \in Invoices
      /\ \A j \in Invoices : invoice[j].total = charged[j]
  BY <1>4 DEF IInv, RowInv, Created, TotalIsCharged
<1>10. /\ charged' \in [Invoices -> Nat]
       /\ charged'[i] = charged[i] + amount
       /\ \A j \in Invoices \ {i} : charged'[j] = charged[j]
  BY <1>2, <1>5, <1>9
<1>11. RowInv' /\ TotalIsCharged'
  BY <1>6, <1>7, <1>9, <1>10 DEF RowInv, TotalIsCharged
<1>12. PaymentInv'
  BY <1>2, Unpaid
<1>13. TotalsFinal
  BY <1>4, <1>7 DEF TotalsFinal
<1> QED
  BY <1>7, <1>8, <1>11, <1>12, <1>13 DEF IInv

(* A payment or a refund that changes the status of the invoice, or does   *)
(* not write it.                                                           *)
LEMMA StatusOnly ==
  ASSUME IInv, NEW t, SeenInv(t), t.op \in {"pay", "refund"}, UNCHANGED <<charged, lastNumber>>,
         NEW status \in {"ISSUED", "PAID"},
         \/ UNCHANGED invoice
         \/ /\ SameVersion(t.seen, t.invoice)
            /\ WriteInvoice(t.invoice, [t.seen EXCEPT !.status = status])
  PROVE  RowsAdvance /\ NumberInv' /\ TotalsFinal /\ RowInv' /\ TotalIsCharged'
<1>1. CASE UNCHANGED invoice
  BY <1>1, Unwritten, Uncharged
<1>2. CASE /\ SameVersion(t.seen, t.invoice)
           /\ WriteInvoice(t.invoice, [t.seen EXCEPT !.status = status])
  <2> DEFINE i == t.invoice
             row == [t.seen EXCEPT !.status = status]
  <2>1. /\ i \in Created /\ t.seen \in InvoiceRow
        /\ t.seen.version = invoice[i].version => t.seen = invoice[i]
    BY DEF SeenInv
  <2>2. /\ row \in InvoiceRow /\ row.status # "ABSENT"
        /\ row.number = t.seen.number /\ row.version = t.seen.version
        /\ row.total = t.seen.total
    BY <2>1 DEF InvoiceRow
  <2>3. SameVersion(t.seen, i) /\ WriteInvoice(i, row)
    BY <1>2
  <2> HIDE DEF i, row
  <2>4. /\ t.seen = invoice[i]
        /\ invoice' \in [Invoices -> InvoiceRow]
        /\ invoice'[i].total = row.total
        /\ \A j \in Invoices \ {i} : invoice'[j] = invoice[j]
        /\ \A j \in Invoices : j \notin Created' => invoice'[j] = NoInvoice
        /\ RowsAdvance /\ NumberInv'
    BY <2>1, <2>2, <2>3, Written
  <2>5. \A j \in Invoices : invoice'[j].total = invoice[j].total
    BY <2>2, <2>4
  <2>6. TotalsFinal
    BY <2>5 DEF TotalsFinal
  <2>7. RowInv'
    BY <2>4 DEF IInv, RowInv
  <2>8. TotalIsCharged'
    BY <2>5 DEF IInv, TotalIsCharged
  <2> QED
    BY <2>4, <2>6, <2>7, <2>8
<1> QED
  BY <1>1, <1>2

LEMMA CommitPaymentInv ==
  ASSUME IInv, NEW c \in Clients, NEW p \in Payments, CommitPayment(c, p)
  PROVE  IInv' /\ TotalsFinal
<1>1. PICK t : t = tx[c]
  OBVIOUS
<1> DEFINE row == [invoice |-> t.invoice, amount |-> t.amount, reversed |-> 0,
                   reference |-> t.reference, reversal |-> NoReference]
<1>2. /\ t.op = "pay"
      /\ payment' = [payment EXCEPT ![p] =
           [invoice |-> t.invoice, amount |-> t.amount, reversed |-> 0,
            reference |-> t.reference, reversal |-> NoReference]]
      /\ End(c)
      /\ UNCHANGED <<deposit, charged, refunded, lastNumber>>
  BY <1>1 DEF CommitPayment
<1>3. \/ UNCHANGED invoice
      \/ /\ SameVersion(t.seen, t.invoice)
         /\ WriteInvoice(t.invoice, [t.seen EXCEPT !.status = "PAID"])
  BY <1>1 DEF CommitPayment
<1>4. SeenInv(t) /\ ReadInv(t)
  BY <1>1 DEF IInv, TxInv
<1>5. RowsAdvance /\ NumberInv' /\ TotalsFinal /\ RowInv' /\ TotalIsCharged'
  BY <1>2, <1>3, <1>4, StatusOnly
<1>6. TxInv'
  BY <1>2, <1>5, Ended
<1>7. PaymentInv'
  <2>1. payment' = [payment EXCEPT ![p] = row]
    BY <1>2
  <2>2. t.invoice \in Invoices /\ t.amount \in Nat /\ t.reference \in AnyReference
    BY <1>2, <1>4 DEF SeenInv, ReadInv, Created
  <2>3. row \in PaymentRow /\ row.reversed <= row.amount
    BY <2>2 DEF PaymentRow, AnyReference
  <2> HIDE DEF row
  <2>4. /\ payment \in [Payments -> PaymentRow]
        /\ \A q \in Payments : payment[q].reversed <= payment[q].amount
    BY DEF IInv, PaymentInv, ReversedWithinPayment
  <2>5. /\ payment' \in [Payments -> PaymentRow]
        /\ \A q \in Payments : payment'[q] = IF q = p THEN row ELSE payment[q]
    BY <2>1, <2>3, <2>4
  <2> QED
    BY <2>3, <2>4, <2>5 DEF PaymentInv, ReversedWithinPayment
<1> QED
  BY <1>5, <1>6, <1>7 DEF IInv

LEMMA CommitDepositInv ==
  ASSUME IInv, NEW c \in Clients, CommitDeposit(c)
  PROVE  IInv' /\ TotalsFinal
<1>1. End(c) /\ UNCHANGED <<invoice, payment, charged, refunded, lastNumber>>
  BY DEF CommitDeposit
<1>2. RowsAdvance /\ NumberInv' /\ TotalsFinal
  BY <1>1, Unwritten
<1>3. RowInv' /\ TotalIsCharged' /\ PaymentInv'
  BY <1>1, Uncharged, Unpaid
<1>4. TxInv'
  BY <1>1, <1>2, Ended
<1> QED
  BY <1>2, <1>3, <1>4 DEF IInv

(* The payment row is written as it was read, so what is reversed of it is *)
(* what was checked, whatever another refund wrote in between.             *)
LEMMA CommitRefundInv ==
  ASSUME IInv, NEW c \in Clients, CommitRefund(c)
  PROVE  IInv' /\ TotalsFinal
<1>1. PICK t : t = tx[c]
  OBVIOUS
<1> DEFINE row == Reversed(t.row, t.amount, t.reference)
<1>2. /\ t.op = "refund"
      /\ payment' = [payment EXCEPT ![t.target] = row]
      /\ End(c)
      /\ UNCHANGED <<deposit, charged, lastNumber>>
  BY <1>1 DEF CommitRefund
<1>3. \/ UNCHANGED invoice
      \/ /\ SameVersion(t.seen, t.invoice)
         /\ WriteInvoice(t.invoice, [t.seen EXCEPT !.status = "ISSUED"])
  BY <1>1 DEF CommitRefund
<1>4. SeenInv(t) /\ ReadInv(t)
  BY <1>1 DEF IInv, TxInv
<1>5. RowsAdvance /\ NumberInv' /\ TotalsFinal /\ RowInv' /\ TotalIsCharged'
  BY <1>2, <1>3, <1>4, StatusOnly
<1>6. TxInv'
  BY <1>2, <1>5, Ended
<1>7. PaymentInv'
  <2>1. /\ t.target \in Payments /\ t.row \in PaymentRow
        /\ t.amount \in Nat /\ t.reference \in AnyReference
        /\ t.row.reversed + t.amount <= t.row.amount
    BY <1>2, <1>4 DEF ReadInv
  <2>2. /\ row \in PaymentRow
        /\ row.reversed = t.row.reversed + t.amount
        /\ row.amount = t.row.amount
    <3> DEFINE half == [t.row EXCEPT !.reversed = t.row.reversed + t.amount]
    <3>1. row = [half EXCEPT !.reversal = t.reference]
      BY DEF Reversed
    <3>2. t.row.reversed + t.amount \in Nat
      BY <2>1 DEF PaymentRow
    <3>3. /\ half \in PaymentRow
          /\ half.reversed = t.row.reversed + t.amount
          /\ half.amount = t.row.amount
      BY <2>1, <3>2 DEF PaymentRow
    <3> HIDE DEF row, half
    <3>4. /\ row \in PaymentRow
          /\ row.reversed = half.reversed
          /\ row.amount = half.amount
      BY <2>1, <3>1, <3>3 DEF PaymentRow
    <3> QED
      BY <3>3, <3>4
  <2> HIDE DEF row
  <2>3. row.reversed <= row.amount
    BY <2>1, <2>2
  <2>4. /\ payment \in [Payments -> PaymentRow]
        /\ \A q \in Payments : payment[q].reversed <= payment[q].amount
    BY DEF IInv, PaymentInv, ReversedWithinPayment
  <2>5. /\ payment' \in [Payments -> PaymentRow]
        /\ \A q \in Payments : payment'[q] = IF q = t.target THEN row ELSE payment[q]
    BY <1>2, <2>1, <2>2, <2>4
  <2> QED
    BY <2>3, <2>4, <2>5 DEF PaymentInv, ReversedWithinPayment
<1> QED
  BY <1>5, <1>6, <1>7 DEF IInv

---------------------------------------------------------------------------
(* Every step, and the theorems.                                           *)

LEMMA InvoicesStep == IInv /\ [Next]_vars => IInv' /\ TotalsFinal
<1> SUFFICES ASSUME IInv, [Next]_vars
             PROVE  IInv' /\ TotalsFinal
  OBVIOUS
<1>1. CASE UNCHANGED vars
  <2>1. UNCHANGED tables /\ tx' = tx
    BY <1>1 DEF vars
  <2>2. RowsAdvance /\ NumberInv' /\ TotalsFinal
    BY <2>1, Unwritten DEF tables
  <2>3. RowInv' /\ TotalIsCharged' /\ PaymentInv'
    BY <2>1, Uncharged, Unpaid DEF tables
  <2>4. TxInv'
    BY <2>1 DEF IInv, TxInv, tables, SeenInv, ReadInv, Created
  <2> QED
    BY <2>2, <2>3, <2>4 DEF IInv
<1>2. CASE Next
  <2>1. PICK c \in Clients :
          \/ Abort(c)
          \/ TakeNumber(c)
          \/ \E s \in Stays : BeginCreate(c, s)
          \/ \E s \in Stays, i \in Invoices : OpenCharge(c, s, i)
          \/ \E i \in Invoices : CommitCreate(c, i) \/ Open(c, i)
          \/ \E a \in Amounts :
               \/ CommitCharge(c, a)
               \/ \E k \in DepositKeys : LoadDeposit(c, a, k)
               \/ \E r \in AnyReference :
                    LoadPayment(c, a, r) \/ \E p \in Payments : LoadRefund(c, p, a, r)
          \/ \E p \in Payments : CommitPayment(c, p)
          \/ CommitDeposit(c)
          \/ CommitRefund(c)
    BY <1>2 DEF Next
  <2>2. CASE Abort(c)
    BY <2>2, AbortInv
  <2>3. CASE TakeNumber(c)
    BY <2>3, TakeNumberInv
  <2>4. CASE \E s \in Stays : BeginCreate(c, s)
    BY <2>4, BeginCreateInv
  <2>5. CASE \E s \in Stays, i \in Invoices : OpenCharge(c, s, i)
    BY <2>5, OpenChargeInv
  <2>6. CASE \E i \in Invoices : CommitCreate(c, i) \/ Open(c, i)
    BY <2>6, CommitCreateInv, OpenInv
  <2>7. ASSUME NEW a \in Amounts,
               \/ CommitCharge(c, a)
               \/ \E k \in DepositKeys : LoadDeposit(c, a, k)
               \/ \E r \in AnyReference :
                    LoadPayment(c, a, r) \/ \E p \in Payments : LoadRefund(c, p, a, r)
        PROVE  IInv' /\ TotalsFinal
    <3>1. CASE CommitCharge(c, a)
      BY <3>1, CommitChargeInv
    <3>2. CASE \E k \in DepositKeys : LoadDeposit(c, a, k)
      BY <3>2, LoadDepositInv
    <3>3. CASE \E r \in AnyReference : LoadPayment(c, a, r)
      BY <3>3, LoadPaymentInv
    <3>4. CASE \E r \in AnyReference, p \in Payments : LoadRefund(c, p, a, r)
      BY <3>4, LoadRefundInv
    <3> QED
      BY <2>7, <3>1, <3>2, <3>3, <3>4
  <2>8. CASE \E p \in Payments : CommitPayment(c, p)
    BY <2>8, CommitPaymentInv
  <2>9. CASE CommitDeposit(c)
    BY <2>9, CommitDepositInv
  <2>10. CASE CommitRefund(c)
    BY <2>10, CommitRefundInv
  <2> QED
    BY <2>1, <2>2, <2>3, <2>4, <2>5, <2>6, <2>7, <2>8, <2>9, <2>10
<1> QED
  BY <1>1, <1>2

LEMMA InvoicesInv == Spec => []IInv
<1>1. IInv /\ [Next]_vars => IInv'
  BY InvoicesStep
<1> QED
  BY <1>1, InvoicesInitInv, PTL DEF Spec

(* However charges race with each other, with payments and with refunds,   *)
(* the total that addCharge keeps on the row is the sum of the ledger.     *)
THEOREM ChargesKeepTotal == Spec => []TotalIsCharged
<1>1. IInv => TotalIsCharged
  BY DEF IInv
<1> QED
  BY <1>1, InvoicesInv, PTL

(* addCharge never adds to an invoice whose last payment has committed.    *)
THEOREM SettledIsFinal == Spec => SettledTotalIsFinal
<1>1. IInv /\ [Next]_vars =>
        [\A i \in Invoices :
           invoice[i].status = "PAID" => invoice'[i].total = invoice[i].total]_vars
  BY InvoicesStep DEF TotalsFinal
<1> QED
  BY <1>1, InvoicesInv, PTL DEF Spec, SettledTotalIsFinal

(* generateInvoiceNumber and the unique constraint number the invoices of  *)
(* a year 1, 2, ... without a gap.                                         *)
THEOREM NoGaps == Spec => []NumbersWithoutGaps
<1>1. IInv => NumbersWithoutGaps
  BY DEF IInv, NumberInv
<1> QED
  BY <1>1, InvoicesInv, PTL

(* Refunds that race never record more as reversed than a payment was.     *)
THEOREM NeverReversedBeyond == Spec => []ReversedWithinPayment
<1>1. IInv => ReversedWithinPayment
  BY DEF IInv, PaymentInv
<1> QED
  BY <1>1, InvoicesInv, PTL
---------------------------------------------------------------------------
(* Types.  What was collected is a natural number because no payment is    *)
(* reversed beyond its amount.                                             *)

TxType == {Idle} \cup CreateTx \cup OpenTx \cup PaymentTx \cup DepositTx \cup RefundTx

(* What each payment of a table brought in, and each deposit.              *)
NetOf(rows) == [p \in Payments |-> rows[p].amount - rows[p].reversed]
DepositOf(rows) == [k \in DepositKeys |-> rows[k].amount]

LEMMA NetNatural ==
  ASSUME NEW rows \in [Payments -> PaymentRow],
         \A p \in Payments : rows[p].reversed <= rows[p].amount
  PROVE  \A p \in Payments : NetOf(rows)[p] \in Nat
BY DEF NetOf, PaymentRow

LEMMA DepositNatural ==
  ASSUME NEW rows \in [DepositKeys -> DepositRow]
  PROVE  \A k \in DepositKeys : DepositOf(rows)[k] \in Nat
BY DEF DepositOf, DepositRow

(* The rows that are summed for an invoice are finitely many.              *)
LEMMA RowsFinite ==
  ASSUME NEW i
  PROVE  /\ PaymentsOf(i) \in SUBSET Payments /\ IsFiniteSet(PaymentsOf(i))
         /\ DepositsOf(i) \in SUBSET DepositKeys /\ IsFiniteSet(DepositsOf(i))
<1>1. PaymentsOf(i) \in SUBSET Payments /\ DepositsOf(i) \in SUBSET DepositKeys
  BY DEF PaymentsOf, DepositsOf
<1> QED
  BY <1>1, FS_Subset, InvoicesAssumption

(* What is collected for an invoice is never negative.                     *)
LEMMA CollectedNatural ==
  ASSUME PaymentInv, deposit \in [DepositKeys -> DepositRow], NEW i
  PROVE  NetPaid(i) \in Nat /\ Deposited(i) \in Nat /\ Collected(i) \in Nat
<1>1. NetPaid(i) \in Nat
  <2>1. NetPaid(i) = SumFunctionOnSet(NetOf(payment), PaymentsOf(i))
    BY DEF NetPaid, NetOf
  <2>2. \A p \in PaymentsOf(i) : NetOf(payment)[p] \in Nat
    BY NetNatural, RowsFinite DEF PaymentInv, ReversedWithinPayment
  <2> QED
    BY <2>1, <2>2, RowsFinite, SumNatural
<1>2. Deposited(i) \in Nat
  <2>1. Deposited(i) = SumFunctionOnSet(DepositOf(deposit), DepositsOf(i))
    BY DEF Deposited, DepositOf
  <2>2. \A k \in DepositsOf(i) : DepositOf(deposit)[k] \in Nat
    BY DepositNatural, RowsFinite
  <2> QED
    BY <2>1, <2>2, RowsFinite, SumNatural
<1> QED
  BY <1>1, <1>2 DEF Collected

(* What a typed request holds, by its operation.                           *)
LEMMA HeldByOp ==
  ASSUME NEW t \in TxType
  PROVE  /\ t.op = "create" => t \in CreateTx
         /\ t.op \in {"open", "charge"} => t \in OpenTx
         /\ t.op = "pay" => t \in PaymentTx
         /\ t.op = "deposit" => t \in DepositTx
         /\ t.op = "refund" => t \in RefundTx
BY DEF TxType, Idle, CreateTx, OpenTx, PaymentTx, DepositTx, RefundTx

(* A typed request, and deposits and refunds of their types, are all that  *)
(* IInv leaves to show.                                                    *)
LEMMA TypesFrom ==
  ASSUME TypeOK, IInv', NEW c \in Clients, NEW t \in TxType, tx' = [tx EXCEPT ![c] = t],
         deposit' \in [DepositKeys -> DepositRow],
         refunded' \in [Payments -> [AnyReference -> Nat]]
  PROVE  TypeOK'
<1>1. tx' \in [Clients -> TxType]
  BY DEF TypeOK, TxType
<1> QED
  BY <1>1 DEF TypeOK, TxType, IInv, RowInv, PaymentInv, NumberInv

(* The tables of a step that only reads keep their types.                  *)
LEMMA TypesRead ==
  ASSUME TypeOK, IInv', NEW c \in Clients, NEW t \in TxType, tx' = [tx EXCEPT ![c] = t],
         UNCHANGED <<deposit, refunded>>
  PROVE  TypeOK'
BY TypesFrom DEF TypeOK

LEMMA IdleTyped == Idle \in TxType
BY DEF TxType

LEMMA TypesStep == TypeOK /\ IInv /\ IInv' /\ [Next]_vars => TypeOK'
<1> SUFFICES ASSUME TypeOK, IInv, IInv', [Next]_vars
             PROVE  TypeOK'
  OBVIOUS
<1>0. /\ \A c \in Clients : tx[c] \in TxType
      /\ PaymentInv /\ deposit \in [DepositKeys -> DepositRow]
      /\ refunded \in [Payments -> [AnyReference -> Nat]]
  BY DEF TypeOK, TxType, IInv
<1>1. CASE UNCHANGED vars
  BY <1>1 DEF vars, tables, TypeOK, InvoiceRow, PaymentRow, DepositRow, Idle
<1>2. ASSUME NEW c \in Clients, Abort(c)
      PROVE  TypeOK'
  BY <1>2, IdleTyped, TypesRead DEF Abort, End, tables
<1>3. ASSUME NEW c \in Clients, NEW s \in Stays, BeginCreate(c, s)
      PROVE  TypeOK'
  <2> DEFINE t == [op |-> "create", stay |-> s, number |-> 0]
  <2>1. t \in TxType
    BY DEF TxType, CreateTx
  <2>2. tx' = [tx EXCEPT ![c] = t] /\ UNCHANGED <<deposit, refunded>>
    BY <1>3 DEF BeginCreate, tables
  <2> HIDE DEF t
  <2> QED
    BY <2>1, <2>2, TypesRead
<1>4. ASSUME NEW c \in Clients, TakeNumber(c)
      PROVE  TypeOK'
  <2> DEFINE t == [tx[c] EXCEPT !.number = lastNumber + 1]
  <2>1. tx[c] \in CreateTx /\ lastNumber \in Nat
    BY <1>0, <1>4, HeldByOp DEF TakeNumber, TypeOK
  <2>2. t \in TxType
    BY <2>1 DEF TxType, CreateTx
  <2>3. tx' = [tx EXCEPT ![c] = t] /\ UNCHANGED <<deposit, refunded>>
    BY <1>4 DEF TakeNumber, tables
  <2> HIDE DEF t
  <2> QED
    BY <2>2, <2>3, TypesRead
<1>5. ASSUME NEW c \in Clients, NEW i \in Invoices,
             Open(c, i) \/ \E s \in Stays : OpenCharge(c, s, i)
      PROVE  TypeOK'
  <2>1. PICK op \in {"open", "charge"} :
          /\ tx' = [tx EXCEPT ![c] = [op |-> op, invoice |-> i, seen |-> invoice[i]]]
          /\ UNCHANGED <<deposit, refunded>>
    BY <1>5 DEF Open, OpenCharge, tables
  <2>2. [op |-> op, invoice |-> i, seen |-> invoice[i]] \in TxType
    BY DEF TxType, OpenTx, TypeOK
  <2> QED
    BY <2>1, <2>2, TypesRead
<1>6. ASSUME NEW c \in Clients, NEW a \in Amounts, NEW r \in AnyReference,
             LoadPayment(c, a, r)
      PROVE  TypeOK'
  <2> DEFINE i == tx[c].invoice
             t == [op |-> "pay", invoice |-> i, seen |-> tx[c].seen, amount |-> a,
                   reference |-> r, paid |-> Collected(i)]
  <2>1. tx[c] \in OpenTx
    BY <1>0, <1>6, HeldByOp DEF LoadPayment
  <2>2. Collected(i) \in Nat
    BY <1>0, CollectedNatural
  <2>3. t \in TxType
    BY <2>1, <2>2 DEF TxType, OpenTx, PaymentTx
  <2>4. tx' = [tx EXCEPT ![c] = t] /\ UNCHANGED <<deposit, refunded>>
    BY <1>6 DEF LoadPayment, tables
  <2> HIDE DEF t
  <2> QED
    BY <2>3, <2>4, TypesRead
<1>7. ASSUME NEW c \in Clients, NEW a \in Amounts, NEW k \in DepositKeys, LoadDeposit(c, a, k)
      PROVE  TypeOK'
  <2> DEFINE t == [op |-> "deposit", invoice |-> tx[c].invoice, amount |-> a, key |-> k]
  <2>1. tx[c] \in OpenTx
    BY <1>0, <1>7, HeldByOp DEF LoadDeposit
  <2>2. t \in TxType
    BY <2>1 DEF TxType, OpenTx, DepositTx
  <2>3. tx' = [tx EXCEPT ![c] = t] /\ UNCHANGED <<deposit, refunded>>
    BY <1>7 DEF LoadDeposit, tables
  <2> HIDE DEF t
  <2> QED
    BY <2>2, <2>3, TypesRead
<1>8. ASSUME NEW c \in Clients, NEW a \in Amounts, NEW r \in AnyReference,
             NEW p \in Payments, LoadRefund(c, p, a, r)
      PROVE  TypeOK'
  <2> DEFINE i == tx[c].invoice
             t == [op |-> "refund", invoice |-> i, seen |-> tx[c].seen, amount |-> a,
                   reference |-> r, paid |-> NetPaid(i), target |-> p, row |-> payment[p]]
  <2>1. tx[c] \in OpenTx
    BY <1>0, <1>8, HeldByOp DEF LoadRefund
  <2>2. NetPaid(i) \in Nat /\ payment[p] \in PaymentRow
    BY <1>0, CollectedNatural DEF PaymentInv
  <2>3. t \in TxType
    BY <2>1, <2>2 DEF TxType, OpenTx, RefundTx
  <2>4. tx' = [tx EXCEPT ![c] = t] /\ UNCHANGED <<deposit, refunded>>
    BY <1>8 DEF LoadRefund, tables
  <2> HIDE DEF t
  <2> QED
    BY <2>3, <2>4, TypesRead
<1>9. ASSUME NEW c \in Clients,
             \/ \E i \in Invoices : CommitCreate(c, i)
             \/ \E a \in Amounts : CommitCharge(c, a)
             \/ \E p \in Payments : CommitPayment(c, p)
      PROVE  TypeOK'
  <2>1. End(c) /\ UNCHANGED <<deposit, refunded>>
    BY <1>9 DEF CommitCreate, CommitCharge, CommitPayment
  <2> QED
    BY <2>1, IdleTyped, TypesRead DEF End
<1>10. ASSUME NEW c \in Clients, CommitDeposit(c)
       PROVE  TypeOK'
  <2>1. tx[c] \in DepositTx
    BY <1>0, <1>10, HeldByOp DEF CommitDeposit
  <2>2. [invoice |-> tx[c].invoice, amount |-> tx[c].amount] \in DepositRow
    BY <2>1 DEF DepositTx, DepositRow, Amounts
  <2>3. deposit' \in [DepositKeys -> DepositRow]
    BY <1>0, <1>10, <2>2 DEF CommitDeposit
  <2>4. End(c) /\ refunded' = refunded
    BY <1>10 DEF CommitDeposit
  <2> QED
    BY <1>0, <2>3, <2>4, IdleTyped, TypesFrom DEF End
<1>11. ASSUME NEW c \in Clients, CommitRefund(c)
       PROVE  TypeOK'
  <2>1. tx[c] \in RefundTx
    BY <1>0, <1>11, HeldByOp DEF CommitRefund
  <2>2. tx[c].amount \in Nat /\ tx[c].reference \in AnyReference /\ tx[c].target \in Payments
    BY <2>1 DEF RefundTx, Amounts
  <2>3. refunded' = [refunded EXCEPT ![tx[c].target][tx[c].reference] = tx[c].amount]
    BY <1>11 DEF CommitRefund
  <2>4. refunded' \in [Payments -> [AnyReference -> Nat]]
    BY <1>0, <2>2, <2>3
  <2>5. End(c) /\ deposit' = deposit
    BY <1>11 DEF CommitRefund
  <2> QED
    BY <1>0, <2>4, <2>5, IdleTyped, TypesFrom DEF End
<1> QED
  BY <1>1, <1>2, <1>3, <1>4, <1>5, <1>6, <1>7, <1>8, <1>9, <1>10, <1>11 DEF Next

LEMMA TypesInit == Init => TypeOK
<1> SUFFICES ASSUME Init
             PROVE  TypeOK
  OBVIOUS
<1>1. NoInvoice \in InvoiceRow /\ NoPayment \in PaymentRow /\ NoDeposit \in DepositRow
  BY DEF NoInvoice, NoPayment, NoDeposit, InvoiceRow, PaymentRow, DepositRow, AnyReference
<1> QED
  BY <1>1 DEF Init, TypeOK

LEMMA InvoicesTypes == Spec => [](IInv /\ TypeOK)
<1>1. Init => IInv /\ TypeOK
  BY InvoicesInitInv, TypesInit
<1>2. IInv /\ TypeOK /\ [Next]_vars => (IInv /\ TypeOK)'
  BY InvoicesStep, TypesStep
<1> QED
  BY <1>1, <1>2, PTL DEF Spec

(* For any number of requests, rows and amounts the tables keep their      *)
(* types: in particular what a request has added up of payments, refunds   *)
(* and deposits is never negative.                                         *)
THEOREM InvoicesTypeCorrect == Spec => []TypeOK
BY InvoicesTypes, PTL
---------------------------------------------------------------------------
(* Money, when nobody else's payment, deposit or refund is written for an  *)
(* invoice between the time that a request has read what was paid and its  *)
(* commit.  The code does not see to that (the runs with two requests show *)
(* what follows); charges may come in between, the version covers them.    *)

(* A step leaves the payments and deposits of i alone.                     *)
Untouched(i) ==
  /\ \A p \in Payments :
       i \in {payment[p].invoice, payment'[p].invoice} => payment'[p] = payment[p]
  /\ \A k \in DepositKeys :
       i \in {deposit[k].invoice, deposit'[k].invoice} => deposit'[k] = deposit[k]

(* ... of every invoice that a request which stays as it is works on.      *)
Isolated ==
  \A c \in Clients :
    tx[c].op \in {"open", "pay", "deposit", "refund"} /\ tx'[c] = tx[c]
      => Untouched(tx[c].invoice)

(* What a request has read of an invoice and its money still holds.        *)
Funds(t) ==
  /\ t.op \in {"open", "pay", "refund"} =>
       /\ t.seen.total <= invoice[t.invoice].total
       /\ t.seen.status = "PAID" <=> invoice[t.invoice].status = "PAID"
       /\ t.seen.status = "PAID" => t.seen.total = invoice[t.invoice].total
  /\ t.op = "pay" =>
       /\ t.seen.status # "PAID"
       /\ t.paid = Collected(t.invoice)
       /\ t.amount <= t.seen.total - t.paid
       /\ ~Seen(t.invoice, t.reference)
  /\ t.op = "deposit" => t.amount <= invoice[t.invoice].total - Collected(t.invoice)
  /\ t.op = "refund" =>
       /\ t.paid = NetPaid(t.invoice)
       /\ t.target \in PaymentsOf(t.invoice)
       /\ t.row = payment[t.target]

(* No more than the total, which is 0 before an invoice is created.        *)
WithinTotal == \A i \in Invoices : Collected(i) <= invoice[i].total

Books == PaidIsSettled /\ WithinTotal /\ ReferencePaidOnce /\ RefundEntriesBacked

FundsInv == Books /\ \A c \in Clients : Funds(tx[c])

(* What a step may do to an invoice: the total does not fall, and whether  *)
(* it is PAID changes only with its payments.                              *)
StatusFollows ==
  \A i \in Invoices :
    /\ invoice[i].total <= invoice'[i].total
    /\ Untouched(i) => (invoice[i].status = "PAID" <=> invoice'[i].status = "PAID")

(* The types that sums need.                                               *)
RowsTyped == IInv /\ TypeOK

LEMMA RowTypes ==
  ASSUME RowsTyped
  PROVE  /\ \A i \in Invoices : invoice[i] \in InvoiceRow /\ invoice[i].total \in Nat
         /\ \A p \in Payments : payment[p] \in PaymentRow
         /\ \A c \in Clients : tx[c] \in TxType
         /\ PaymentInv /\ deposit \in [DepositKeys -> DepositRow]
         /\ \A p \in Payments : NetOf(payment)[p] \in Nat
         /\ \A k \in DepositKeys : DepositOf(deposit)[k] \in Nat
<1>1. /\ invoice \in [Invoices -> InvoiceRow]
      /\ payment \in [Payments -> PaymentRow]
      /\ deposit \in [DepositKeys -> DepositRow]
      /\ PaymentInv
      /\ tx \in [Clients -> TxType]
  BY DEF RowsTyped, TypeOK, IInv, TxType
<1>2. \A i \in Invoices : invoice[i] \in InvoiceRow /\ invoice[i].total \in Nat
  BY <1>1 DEF InvoiceRow
<1>3. \A p \in Payments : NetOf(payment)[p] \in Nat
  BY <1>1, NetNatural DEF PaymentInv, ReversedWithinPayment
<1>4. \A k \in DepositKeys : DepositOf(deposit)[k] \in Nat
  BY <1>1, DepositNatural
<1> QED
  BY <1>1, <1>2, <1>3, <1>4

LEMMA RowTypesNext ==
  ASSUME RowsTyped'
  PROVE  /\ \A i \in Invoices : invoice'[i] \in InvoiceRow /\ invoice'[i].total \in Nat
         /\ \A p \in Payments : NetOf(payment')[p] \in Nat
         /\ \A k \in DepositKeys : DepositOf(deposit')[k] \in Nat
<1>1. /\ invoice' \in [Invoices -> InvoiceRow]
      /\ payment' \in [Payments -> PaymentRow]
      /\ deposit' \in [DepositKeys -> DepositRow]
      /\ \A p \in Payments : payment'[p].reversed <= payment'[p].amount
  BY DEF RowsTyped, TypeOK, IInv, PaymentInv, ReversedWithinPayment
<1>2. \A i \in Invoices : invoice'[i] \in InvoiceRow /\ invoice'[i].total \in Nat
  BY <1>1 DEF InvoiceRow
<1>3. \A p \in Payments : NetOf(payment')[p] \in Nat
  BY <1>1, NetNatural
<1>4. \A k \in DepositKeys : DepositOf(deposit')[k] \in Nat
  BY <1>1, DepositNatural
<1> QED
  BY <1>2, <1>3, <1>4

(* What is collected for an invoice that is left alone stays, and so do    *)
(* its payments.                                                           *)
LEMMA SumsKept ==
  ASSUME RowsTyped, RowsTyped', NEW i, Untouched(i)
  PROVE  /\ PaymentsOf(i)' = PaymentsOf(i)
         /\ NetPaid(i)' = NetPaid(i)
         /\ Deposited(i)' = Deposited(i)
         /\ Collected(i)' = Collected(i)
         /\ \A p \in PaymentsOf(i) : payment'[p] = payment[p]
<1>1. /\ PaymentsOf(i)' = PaymentsOf(i)
      /\ DepositsOf(i)' = DepositsOf(i)
      /\ \A p \in PaymentsOf(i) : p \in Payments /\ payment'[p] = payment[p]
      /\ \A k \in DepositsOf(i) : k \in DepositKeys /\ deposit'[k] = deposit[k]
  BY DEF Untouched, PaymentsOf, DepositsOf
<1>2. NetPaid(i)' = NetPaid(i)
  <2>1. /\ NetPaid(i) = SumFunctionOnSet(NetOf(payment), PaymentsOf(i))
        /\ NetPaid(i)' = SumFunctionOnSet(NetOf(payment'), PaymentsOf(i))
    BY <1>1 DEF NetPaid, NetOf
  <2>2. \A p \in PaymentsOf(i) :
          NetOf(payment)[p] \in Int /\ NetOf(payment)[p] = NetOf(payment')[p]
    BY <1>1, RowTypes DEF NetOf
  <2> QED
    BY <2>1, <2>2, RowsFinite, SumSame
<1>3. Deposited(i)' = Deposited(i)
  <2>1. /\ Deposited(i) = SumFunctionOnSet(DepositOf(deposit), DepositsOf(i))
        /\ Deposited(i)' = SumFunctionOnSet(DepositOf(deposit'), DepositsOf(i))
    BY <1>1 DEF Deposited, DepositOf
  <2>2. \A k \in DepositsOf(i) :
          DepositOf(deposit)[k] \in Int /\ DepositOf(deposit)[k] = DepositOf(deposit')[k]
    BY <1>1, RowTypes DEF DepositOf
  <2> QED
    BY <2>1, <2>2, RowsFinite, SumSame
<1> QED
  BY <1>1, <1>2, <1>3 DEF Collected

(* A request keeps what it knows of an invoice that is left alone.         *)
LEMMA FundsKept ==
  ASSUME RowsTyped, RowsTyped', StatusFollows, TotalsFinal,
         NEW t \in TxType, Funds(t),
         t.op \in {"open", "pay", "deposit", "refund"} => Untouched(t.invoice)
  PROVE  Funds(t)'
<1>1. CASE t.op \notin {"open", "pay", "deposit", "refund"}
  BY <1>1 DEF Funds
<1>2. CASE t.op \in {"open", "pay", "deposit", "refund"}
  <2> DEFINE i == t.invoice
  <2>1. i \in Invoices
    BY <1>2, HeldByOp DEF OpenTx, PaymentTx, DepositTx, RefundTx
  <2>2. /\ PaymentsOf(i)' = PaymentsOf(i)
        /\ NetPaid(i)' = NetPaid(i)
        /\ Collected(i)' = Collected(i)
        /\ \A p \in PaymentsOf(i) : payment'[p] = payment[p]
    BY <1>2, SumsKept
  <2>3. /\ invoice[i].total \in Nat /\ invoice'[i].total \in Nat /\ Collected(i) \in Nat
        /\ invoice[i].total <= invoice'[i].total
        /\ invoice[i].status = "PAID" <=> invoice'[i].status = "PAID"
        /\ invoice[i].status = "PAID" => invoice'[i].total = invoice[i].total
    BY <1>2, <2>1, RowTypes, RowTypesNext, CollectedNatural DEF StatusFollows, TotalsFinal
  <2>4. t.op = "pay" => Seen(i, t.reference)' = Seen(i, t.reference)
    BY <2>2 DEF Seen
  <2>5. t.op \in {"open", "pay", "refund"} =>
          /\ t.seen.total <= invoice'[i].total
          /\ t.seen.status = "PAID" <=> invoice'[i].status = "PAID"
          /\ t.seen.status = "PAID" => t.seen.total = invoice'[i].total
    <3> SUFFICES ASSUME t.op \in {"open", "pay", "refund"}
                 PROVE  /\ t.seen.total <= invoice'[i].total
                        /\ t.seen.status = "PAID" <=> invoice'[i].status = "PAID"
                        /\ t.seen.status = "PAID" => t.seen.total = invoice'[i].total
      OBVIOUS
    <3>1. t.seen.total \in Nat
      BY HeldByOp DEF OpenTx, PaymentTx, RefundTx, InvoiceRow
    <3>2. /\ t.seen.total <= invoice[i].total
          /\ t.seen.status = "PAID" <=> invoice[i].status = "PAID"
          /\ t.seen.status = "PAID" => t.seen.total = invoice[i].total
      BY DEF Funds
    <3> QED
      BY <2>3, <3>1, <3>2
  <2>6. t.op = "pay" =>
          /\ t.seen.status # "PAID"
          /\ t.paid = Collected(i)'
          /\ t.amount <= t.seen.total - t.paid
          /\ ~Seen(i, t.reference)'
    BY <2>2, <2>4 DEF Funds
  <2>7. t.op = "deposit" => t.amount <= invoice'[i].total - Collected(i)'
    <3>1. t.op = "deposit" => t.amount \in Nat /\ t.amount <= invoice[i].total - Collected(i)
      BY HeldByOp DEF DepositTx, Amounts, Funds
    <3> QED
      BY <2>2, <2>3, <3>1
  <2>8. t.op = "refund" =>
          t.paid = NetPaid(i)' /\ t.target \in PaymentsOf(i)' /\ t.row = payment'[t.target]
    BY <2>2 DEF Funds
  <2> QED
    BY <2>5, <2>6, <2>7, <2>8 DEF Funds
<1> QED
  BY <1>1, <1>2
(* The requests, when one of them goes on with t.                          *)
LEMMA FundsRequests ==
  ASSUME RowsTyped, RowsTyped', StatusFollows, TotalsFinal, FundsInv, Isolated,
         NEW c \in Clients, NEW t, tx' = [tx EXCEPT ![c] = t], Funds(t)', Books'
  PROVE  FundsInv'
<1>1. tx' = [d \in Clients |-> IF d = c THEN t ELSE tx[d]]
  BY DEF RowsTyped, IInv, TxInv
<1>2. ASSUME NEW d \in Clients
      PROVE  Funds(tx[d])'
  <2>1. PICK s : s = tx[d]
    OBVIOUS
  <2>2. CASE d = c
    <3>1. tx'[d] = t
      BY <1>1, <2>2
    <3> QED
      BY <3>1 DEF Funds
  <2>3. CASE d # c
    <3>1. tx'[d] = s
      BY <1>1, <2>1, <2>3
    <3>2. s \in TxType /\ Funds(s)
      BY <2>1, RowTypes DEF FundsInv
    <3>3. s.op \in {"open", "pay", "deposit", "refund"} => Untouched(s.invoice)
      BY <2>1, <3>1 DEF Isolated
    <3>4. Funds(s)'
      BY <3>2, <3>3, FundsKept
    <3> QED
      BY <3>1, <3>4 DEF Funds
  <2> QED
    BY <2>2, <2>3
<1> QED
  BY <1>2 DEF FundsInv

(* An invoice whose money is left alone stays in order.                    *)
LEMMA InvoiceKept ==
  ASSUME RowsTyped, RowsTyped', StatusFollows, TotalsFinal, PaidIsSettled, WithinTotal,
         NEW i \in Invoices, Untouched(i)
  PROVE  /\ invoice'[i].status = "PAID" => Collected(i)' = invoice'[i].total
         /\ Collected(i)' <= invoice'[i].total
<1>1. Collected(i)' = Collected(i) /\ Collected(i) \in Nat
  BY SumsKept, RowTypes, CollectedNatural
<1>2. /\ invoice[i].total \in Nat /\ invoice'[i].total \in Nat
      /\ invoice[i].total <= invoice'[i].total
      /\ invoice'[i].status = "PAID" => invoice[i].status = "PAID"
      /\ invoice'[i].status = "PAID" => invoice'[i].total = invoice[i].total
  BY RowTypes, RowTypesNext DEF StatusFollows, TotalsFinal
<1>3. /\ invoice[i].status = "PAID" => Collected(i) = invoice[i].total
      /\ Collected(i) <= invoice[i].total
  BY DEF PaidIsSettled, WithinTotal
<1> QED
  BY <1>1, <1>2, <1>3

(* A step that writes no payment, deposit or refund: reading, creating an  *)
(* invoice, charging it.                                                   *)
LEMMA MoneyKept ==
  ASSUME RowsTyped, RowsTyped', StatusFollows, TotalsFinal, FundsInv, Isolated,
         NEW c \in Clients, NEW t \in TxType, Funds(t), tx' = [tx EXCEPT ![c] = t],
         UNCHANGED <<payment, deposit, refunded>>
  PROVE  FundsInv'
<1>1. \A i : Untouched(i)
  BY DEF Untouched
<1>2. Funds(t)'
  BY <1>1, FundsKept
<1>3. PaidIsSettled' /\ WithinTotal'
  <2>1. PaidIsSettled /\ WithinTotal
    BY DEF FundsInv, Books
  <2>2. \A i \in Invoices :
          /\ invoice'[i].status = "PAID" => Collected(i)' = invoice'[i].total
          /\ Collected(i)' <= invoice'[i].total
    BY <1>1, <2>1, InvoiceKept
  <2> QED
    BY <2>2 DEF PaidIsSettled, WithinTotal
<1>4. ReferencePaidOnce' /\ RefundEntriesBacked'
  BY DEF FundsInv, Books, ReferencePaidOnce, RefundEntriesBacked, Refunds
<1> QED
  BY <1>2, <1>3, <1>4, FundsRequests DEF Books

(* Reading leaves the invoices as they are.                                *)
LEMMA FundsReading ==
  ASSUME RowsTyped, RowsTyped', FundsInv, Isolated,
         NEW c \in Clients, NEW t \in TxType, Funds(t), tx' = [tx EXCEPT ![c] = t],
         UNCHANGED tables
  PROVE  FundsInv'
<1>1. \A i \in Invoices : invoice[i].total \in Nat
  BY RowTypes
<1>2. UNCHANGED <<invoice, payment, deposit, refunded>>
  BY DEF tables
<1>3. StatusFollows /\ TotalsFinal
  BY <1>1, <1>2 DEF StatusFollows, TotalsFinal
<1> QED
  BY <1>2, <1>3, MoneyKept

LEMMA IdleFunds == Idle \in TxType /\ Funds(Idle)
BY DEF TxType, Idle, Funds

LEMMA OpenFunds ==
  ASSUME RowsTyped, RowsTyped', FundsInv, Isolated,
         NEW c \in Clients, NEW i \in Invoices, Open(c, i)
  PROVE  FundsInv'
<1> DEFINE t == [op |-> "open", invoice |-> i, seen |-> invoice[i]]
<1>1. invoice[i] \in InvoiceRow /\ invoice[i].total \in Nat
  BY RowTypes
<1>2. t \in TxType
  BY <1>1 DEF TxType, OpenTx
<1>3. Funds(t)
  BY <1>1 DEF Funds
<1>4. tx' = [tx EXCEPT ![c] = t] /\ UNCHANGED tables
  BY DEF Open
<1> HIDE DEF t
<1> QED
  BY <1>2, <1>3, <1>4, FundsReading

(* The invoice as it was read may be charged by now, not paid.             *)
LEMMA LoadPaymentFunds ==
  ASSUME RowsTyped, RowsTyped', FundsInv, Isolated,
         NEW c \in Clients, NEW a \in Amounts, NEW r \in AnyReference, LoadPayment(c, a, r)
  PROVE  FundsInv'
<1> DEFINE i == tx[c].invoice
           t == [op |-> "pay", invoice |-> i, seen |-> tx[c].seen, amount |-> a,
                 reference |-> r, paid |-> Collected(i)]
<1>1. tx[c] \in OpenTx /\ tx[c].op = "open" /\ Funds(tx[c])
  BY RowTypes, HeldByOp DEF LoadPayment, FundsInv
<1>2. Collected(i) \in Nat
  BY RowTypes, CollectedNatural
<1>3. t \in TxType
  BY <1>1, <1>2 DEF TxType, OpenTx, PaymentTx
<1>4. /\ tx[c].seen.status # "PAID" /\ ~Seen(i, r)
      /\ a <= tx[c].seen.total - Collected(i)
  BY DEF LoadPayment, WithinBalance
<1>5. Funds(t)
  BY <1>1, <1>4 DEF Funds
<1>6. tx' = [tx EXCEPT ![c] = t] /\ UNCHANGED tables
  BY DEF LoadPayment
<1> HIDE DEF t
<1> QED
  BY <1>3, <1>5, <1>6, FundsReading

LEMMA LoadDepositFunds ==
  ASSUME RowsTyped, RowsTyped', FundsInv, Isolated,
         NEW c \in Clients, NEW a \in Amounts, NEW k \in DepositKeys, LoadDeposit(c, a, k)
  PROVE  FundsInv'
<1> DEFINE i == tx[c].invoice
           t == [op |-> "deposit", invoice |-> i, amount |-> a, key |-> k]
<1>1. tx[c] \in OpenTx /\ tx[c].op = "open" /\ Funds(tx[c])
  BY RowTypes, HeldByOp DEF LoadDeposit, FundsInv
<1>2. Collected(i) \in Nat
  BY RowTypes, CollectedNatural
<1>3. t \in TxType
  BY <1>1 DEF TxType, OpenTx, DepositTx
<1>4. a <= tx[c].seen.total - Collected(i)
  BY DEF LoadDeposit, WithinBalance
<1>5. /\ tx[c].seen.total \in Nat /\ invoice[i].total \in Nat /\ a \in Nat
      /\ tx[c].seen.total <= invoice[i].total
  BY <1>1, RowTypes DEF OpenTx, InvoiceRow, Funds, Amounts
<1>6. a <= invoice[i].total - Collected(i)
  BY <1>2, <1>4, <1>5
<1>7. Funds(t)
  BY <1>6 DEF Funds
<1>8. tx' = [tx EXCEPT ![c] = t] /\ UNCHANGED tables
  BY DEF LoadDeposit
<1> HIDE DEF t
<1> QED
  BY <1>3, <1>7, <1>8, FundsReading

LEMMA LoadRefundFunds ==
  ASSUME RowsTyped, RowsTyped', FundsInv, Isolated,
         NEW c \in Clients, NEW p \in Payments, NEW a \in Amounts, NEW r \in AnyReference,
         LoadRefund(c, p, a, r)
  PROVE  FundsInv'
<1> DEFINE i == tx[c].invoice
           t == [op |-> "refund", invoice |-> i, seen |-> tx[c].seen, amount |-> a,
                 reference |-> r, paid |-> NetPaid(i), target |-> p, row |-> payment[p]]
<1>1. tx[c] \in OpenTx /\ tx[c].op = "open" /\ Funds(tx[c])
  BY RowTypes, HeldByOp DEF LoadRefund, FundsInv
<1>2. NetPaid(i) \in Nat /\ payment[p] \in PaymentRow
  BY RowTypes, CollectedNatural
<1>3. t \in TxType
  BY <1>1, <1>2 DEF TxType, OpenTx, RefundTx
<1>4. p \in PaymentsOf(i)
  BY DEF LoadRefund
<1>5. Funds(t)
  BY <1>1, <1>4 DEF Funds
<1>6. tx' = [tx EXCEPT ![c] = t] /\ UNCHANGED tables
  BY DEF LoadRefund
<1> HIDE DEF t
<1> QED
  BY <1>3, <1>5, <1>6, FundsReading
(* What is read for a new invoice or a charge is not about money paid.     *)
LEMMA OtherReadingFunds ==
  ASSUME RowsTyped, RowsTyped', FundsInv, Isolated, NEW c \in Clients,
         \/ Abort(c)
         \/ TakeNumber(c)
         \/ \E s \in Stays : BeginCreate(c, s)
         \/ \E s \in Stays, i \in Invoices : OpenCharge(c, s, i)
  PROVE  FundsInv'
<1>1. UNCHANGED tables
  BY DEF Abort, TakeNumber, BeginCreate, OpenCharge
<1>2. CASE Abort(c)
  BY <1>1, <1>2, IdleFunds, FundsReading DEF Abort, End
<1>3. CASE TakeNumber(c)
  <2> DEFINE t == [tx[c] EXCEPT !.number = lastNumber + 1]
  <2>1. tx[c] \in CreateTx /\ lastNumber \in Nat
    BY <1>3, RowTypes, HeldByOp DEF TakeNumber, RowsTyped, TypeOK
  <2>2. t \in TxType /\ t.op = "create"
    BY <2>1 DEF TxType, CreateTx
  <2>3. tx' = [tx EXCEPT ![c] = t]
    BY <1>3 DEF TakeNumber
  <2> HIDE DEF t
  <2>4. Funds(t)
    BY <2>2 DEF Funds
  <2> QED
    BY <1>1, <2>2, <2>3, <2>4, FundsReading
<1>4. ASSUME NEW s \in Stays, BeginCreate(c, s)
      PROVE  FundsInv'
  <2> DEFINE t == [op |-> "create", stay |-> s, number |-> 0]
  <2>1. t \in TxType /\ t.op = "create"
    BY DEF TxType, CreateTx
  <2>2. tx' = [tx EXCEPT ![c] = t]
    BY <1>4 DEF BeginCreate
  <2> HIDE DEF t
  <2>3. Funds(t)
    BY <2>1 DEF Funds
  <2> QED
    BY <1>1, <2>1, <2>2, <2>3, FundsReading
<1>5. ASSUME NEW s \in Stays, NEW i \in Invoices, OpenCharge(c, s, i)
      PROVE  FundsInv'
  <2> DEFINE t == [op |-> "charge", invoice |-> i, seen |-> invoice[i]]
  <2>1. t \in TxType /\ t.op = "charge"
    BY RowTypes DEF TxType, OpenTx
  <2>2. tx' = [tx EXCEPT ![c] = t]
    BY <1>5 DEF OpenCharge
  <2> HIDE DEF t
  <2>3. Funds(t)
    BY <2>1 DEF Funds
  <2> QED
    BY <1>1, <2>1, <2>2, <2>3, FundsReading
<1> QED
  BY <1>2, <1>3, <1>4, <1>5

(* A new invoice owes nothing, and nothing was paid for it.                *)
LEMMA CommitCreateFunds ==
  ASSUME RowsTyped, RowsTyped', FundsInv, Isolated, TotalsFinal,
         NEW c \in Clients, NEW i \in Invoices, CommitCreate(c, i)
  PROVE  FundsInv'
<1> DEFINE row == [status |-> "ISSUED", stay |-> tx[c].stay, number |-> tx[c].number,
                   total |-> 0, version |-> 0]
<1>1. invoice' = [invoice EXCEPT ![i] = row]
  BY DEF CommitCreate
<1>2. row.status = "ISSUED" /\ row.total = 0
  OBVIOUS
<1> HIDE DEF row
<1>3. invoice \in [Invoices -> InvoiceRow] /\ \A j \in Invoices : invoice[j].total \in Nat
  BY RowTypes DEF RowsTyped, TypeOK
<1>4. invoice[i].status # "PAID" /\ invoice[i].total = 0
  BY DEF CommitCreate, RowsTyped, IInv, RowInv, NoInvoice
<1>5. /\ invoice'[i] = row
      /\ \A j \in Invoices \ {i} : invoice'[j] = invoice[j]
  BY <1>1, <1>3
<1>6. StatusFollows
  BY <1>2, <1>3, <1>4, <1>5 DEF StatusFollows
<1>7. End(c) /\ UNCHANGED <<payment, deposit, refunded>>
  BY DEF CommitCreate
<1> QED
  BY <1>6, <1>7, IdleFunds, MoneyKept DEF End

(* A charge is added to an invoice that is not PAID.                       *)
LEMMA CommitChargeFunds ==
  ASSUME RowsTyped, RowsTyped', FundsInv, Isolated, TotalsFinal,
         NEW c \in Clients, NEW a \in Amounts, CommitCharge(c, a)
  PROVE  FundsInv'
<1>1. PICK t : t = tx[c]
  OBVIOUS
<1> DEFINE i == t.invoice
           next == [[t.seen EXCEPT !.total = t.seen.total + a]
                      EXCEPT !.version = t.seen.version + 1]
<1>2. /\ t.op = "charge"
      /\ SameVersion(t.seen, i)
      /\ WriteInvoice(i, [t.seen EXCEPT !.total = t.seen.total + a])
      /\ End(c) /\ UNCHANGED <<payment, deposit, refunded>>
  BY <1>1 DEF CommitCharge
<1>3. SeenInv(t) /\ ReadInv(t)
  BY <1>1 DEF RowsTyped, IInv, TxInv
<1>4. /\ i \in Invoices /\ t.seen = invoice[i] /\ t.seen \in InvoiceRow
      /\ t.seen.status = "ISSUED"
  BY <1>2, <1>3 DEF SeenInv, ReadInv, Created, SameVersion
<1>5. a \in Nat
  BY DEF Amounts
<1>6. next.status = "ISSUED" /\ next.total = t.seen.total + a
  BY <1>4 DEF InvoiceRow
<1>7. invoice' = [invoice EXCEPT ![i] = next]
  BY <1>2, <1>4 DEF WriteInvoice, InvoiceRow
<1> HIDE DEF i, next
<1>8. invoice \in [Invoices -> InvoiceRow] /\ \A j \in Invoices : invoice[j].total \in Nat
  BY RowTypes DEF RowsTyped, TypeOK
<1>9. /\ invoice'[i] = next
      /\ \A j \in Invoices \ {i} : invoice'[j] = invoice[j]
  BY <1>4, <1>7, <1>8
<1>10. StatusFollows
  <2>1. /\ invoice[i].total <= invoice'[i].total
        /\ invoice[i].status # "PAID" /\ invoice'[i].status # "PAID"
    BY <1>4, <1>5, <1>6, <1>8, <1>9
  <2>2. \A j \in Invoices \ {i} :
          /\ invoice[j].total <= invoice'[j].total
          /\ invoice[j].status = "PAID" <=> invoice'[j].status = "PAID"
    BY <1>8, <1>9
  <2> QED
    BY <2>1, <2>2 DEF StatusFollows
<1> QED
  BY <1>2, <1>10, IdleFunds, MoneyKept DEF End

---------------------------------------------------------------------------
(* What is paid, deposited and refunded.                                   *)

(* All invoices but one are left alone, and that one is in order.          *)
LEMMA OneInvoice ==
  ASSUME RowsTyped, RowsTyped', StatusFollows, TotalsFinal, FundsInv, Isolated,
         NEW c \in Clients, End(c), NEW i \in Invoices,
         \A j \in Invoices \ {i} : Untouched(j),
         invoice'[i].status = "PAID" => Collected(i)' = invoice'[i].total,
         Collected(i)' <= invoice'[i].total,
         ReferencePaidOnce', RefundEntriesBacked'
  PROVE  FundsInv'
<1>1. PaidIsSettled /\ WithinTotal
  BY DEF FundsInv, Books
<1>2. ASSUME NEW j \in Invoices
      PROVE  /\ invoice'[j].status = "PAID" => Collected(j)' = invoice'[j].total
             /\ Collected(j)' <= invoice'[j].total
  <2>1. CASE j = i
    BY <2>1
  <2>2. CASE j # i
    BY <1>1, <2>2, InvoiceKept
  <2> QED
    BY <2>1, <2>2
<1>3. PaidIsSettled' /\ WithinTotal'
  BY <1>2 DEF PaidIsSettled, WithinTotal
<1>4. Funds(Idle)'
  BY DEF Funds, Idle
<1> QED
  BY <1>3, <1>4, FundsRequests DEF Books, End
(* A change of status writes the row that was read, and keeps its total.   *)
LEMMA StatusWritten ==
  ASSUME RowsTyped, NEW t, SeenInv(t), t.op \in {"pay", "refund"},
         NEW status \in {"ISSUED", "PAID"},
         SameVersion(t.seen, t.invoice),
         WriteInvoice(t.invoice, [t.seen EXCEPT !.status = status])
  PROVE  /\ t.invoice \in Invoices /\ t.seen = invoice[t.invoice]
         /\ invoice'[t.invoice].status = status
         /\ invoice'[t.invoice].total = invoice[t.invoice].total
         /\ \A j \in Invoices \ {t.invoice} : invoice'[j] = invoice[j]
<1> DEFINE i == t.invoice
           next == [[t.seen EXCEPT !.status = status] EXCEPT !.version = t.seen.version + 1]
<1>1. i \in Invoices /\ t.seen = invoice[i] /\ t.seen \in InvoiceRow
  BY DEF SeenInv, Created, SameVersion
<1>2. next.status = status /\ next.total = t.seen.total
  BY <1>1 DEF InvoiceRow
<1>3. invoice' = [invoice EXCEPT ![i] = next]
  BY <1>1 DEF WriteInvoice, InvoiceRow
<1> HIDE DEF next
<1>4. invoice \in [Invoices -> InvoiceRow]
  BY DEF RowsTyped, TypeOK
<1>5. invoice'[i] = next /\ \A j \in Invoices \ {i} : invoice'[j] = invoice[j]
  BY <1>1, <1>3, <1>4
<1> QED
  BY <1>1, <1>2, <1>5

(* The payment is within the balance, is the only one with its reference,  *)
(* and settles the invoice when it completes the total.                    *)
LEMMA CommitPaymentFunds ==
  ASSUME RowsTyped, RowsTyped', FundsInv, Isolated, TotalsFinal,
         NEW c \in Clients, NEW p \in Payments, CommitPayment(c, p)
  PROVE  FundsInv'
<1>1. PICK t : t = tx[c]
  OBVIOUS
<1>2. PICK i : i = t.invoice
  OBVIOUS
<1> DEFINE row == [invoice |-> i, amount |-> t.amount, reversed |-> 0,
                   reference |-> t.reference, reversal |-> NoReference]
<1>3. /\ t.op = "pay" /\ payment[p] = NoPayment
      /\ payment' = [payment EXCEPT ![p] = row]
      /\ End(c) /\ UNCHANGED <<deposit, refunded>>
  BY <1>1, <1>2 DEF CommitPayment
<1>4. /\ row.invoice = i /\ row.amount = t.amount /\ row.reversed = 0
      /\ row.reference = t.reference
  OBVIOUS
<1> HIDE DEF row
<1>5. t \in PaymentTx /\ Funds(t) /\ SeenInv(t)
  BY <1>1, <1>3, RowTypes, HeldByOp DEF FundsInv, RowsTyped, IInv, TxInv
<1>6. /\ i \in Invoices /\ i # Nothing
      /\ t.amount \in Nat /\ t.amount > 0 /\ t.seen.total \in Nat
  BY <1>2, <1>5, InvoicesAssumption DEF PaymentTx, Amounts, InvoiceRow
<1>7. /\ t.seen.status # "PAID" /\ invoice[i].status # "PAID"
      /\ t.seen.total <= invoice[i].total
      /\ t.paid = Collected(i) /\ t.amount <= t.seen.total - t.paid
      /\ ~Seen(i, t.reference)
  BY <1>2, <1>3, <1>5 DEF Funds
<1>8. /\ payment[p].invoice = Nothing /\ payment[p].reversed = 0
      /\ payment[p].reference = NoReference
  BY <1>3 DEF NoPayment
<1>9. /\ payment'[p] = row
      /\ \A q \in Payments \ {p} : payment'[q] = payment[q]
  BY <1>3 DEF RowsTyped, TypeOK
<1>10. \A j \in Invoices \ {i} : Untouched(j)
  <2>1. ASSUME NEW j \in Invoices \ {i}
        PROVE  Untouched(j)
    <3>1. j # Nothing
      BY InvoicesAssumption
    <3> QED
      BY <1>3, <1>4, <1>8, <1>9, <3>1 DEF Untouched
  <2> QED
    BY <2>1
<1>11. Collected(i)' = Collected(i) + t.amount
  <2>1. /\ p \notin PaymentsOf(i)
        /\ PaymentsOf(i)' = PaymentsOf(i) \cup {p}
    BY <1>4, <1>6, <1>8, <1>9 DEF PaymentsOf
  <2>2. /\ NetPaid(i) = SumFunctionOnSet(NetOf(payment), PaymentsOf(i))
        /\ NetPaid(i)' = SumFunctionOnSet(NetOf(payment'), PaymentsOf(i) \cup {p})
    BY <2>1 DEF NetPaid, NetOf
  <2>3. \A q \in PaymentsOf(i) :
          NetOf(payment)[q] \in Int /\ NetOf(payment)[q] = NetOf(payment')[q]
    <3>1. \A q \in PaymentsOf(i) : q \in Payments \ {p}
      BY <2>1, RowsFinite
    <3> QED
      BY <1>9, <3>1, RowTypes DEF NetOf
  <2>4. NetOf(payment')[p] = t.amount
    BY <1>4, <1>6, <1>9 DEF NetOf
  <2>5. NetPaid(i)' = NetPaid(i) + t.amount
    BY <1>6, <2>1, <2>2, <2>3, <2>4, RowsFinite, SumAdded
  <2>6. Deposited(i)' = Deposited(i)
    BY <1>3 DEF Deposited, DepositsOf
  <2>7. NetPaid(i) \in Nat /\ Deposited(i) \in Nat
    BY RowTypes, CollectedNatural
  <2> QED
    BY <1>6, <2>5, <2>6, <2>7 DEF Collected
<1>12. Collected(i) \in Nat /\ invoice[i].total \in Nat
  BY <1>6, RowTypes, CollectedNatural
<1>13. /\ invoice'[i].total = invoice[i].total
       /\ \A j \in Invoices \ {i} : invoice'[j] = invoice[j]
       /\ invoice'[i].status = "PAID" => Collected(i)' = invoice'[i].total
  <2>1. CASE t.paid + t.amount = t.seen.total
    <3>1. /\ SameVersion(t.seen, t.invoice)
          /\ WriteInvoice(t.invoice, [t.seen EXCEPT !.status = "PAID"])
      BY <1>1, <2>1 DEF CommitPayment
    <3>2. /\ t.seen = invoice[i]
          /\ invoice'[i].total = invoice[i].total
          /\ \A j \in Invoices \ {i} : invoice'[j] = invoice[j]
      BY <1>2, <1>3, <1>5, <3>1, StatusWritten
    <3> QED
      BY <1>7, <1>11, <2>1, <3>2
  <2>2. CASE t.paid + t.amount # t.seen.total
    <3>1. UNCHANGED invoice
      BY <1>1, <2>2 DEF CommitPayment
    <3> QED
      BY <1>7, <3>1
  <2> QED
    BY <2>1, <2>2
<1>14. Collected(i)' <= invoice'[i].total
  BY <1>6, <1>7, <1>11, <1>12, <1>13
<1>15. StatusFollows
  <2>1. ~Untouched(i)
    <3>1. payment'[p] # payment[p]
      BY <1>4, <1>6, <1>8, <1>9
    <3> QED
      BY <1>4, <1>9, <3>1 DEF Untouched
  <2>2. \A j \in Invoices : invoice[j].total \in Nat
    BY RowTypes
  <2> QED
    BY <1>13, <2>1, <2>2 DEF StatusFollows
<1>16. ReferencePaidOnce'
  <2> SUFFICES ASSUME NEW q \in Payments, NEW s \in Payments,
                      payment'[q].reference # NoReference,
                      payment'[q].reference = payment'[s].reference,
                      payment'[q].invoice = payment'[s].invoice,
                      q # s
               PROVE  FALSE
    BY DEF ReferencePaidOnce
  <2>1. ASSUME NEW u \in Payments \ {p}
        PROVE  payment[u].invoice = i /\ payment[u].reference = t.reference => t.reference = NoReference
    BY <1>7 DEF Seen, PaymentsOf
  <2>2. CASE q = p
    BY <1>4, <1>9, <2>1, <2>2
  <2>3. CASE s = p
    BY <1>4, <1>9, <2>1, <2>3
  <2>4. CASE q # p /\ s # p
    <3>1. payment'[q] = payment[q] /\ payment'[s] = payment[s]
      BY <1>9, <2>4
    <3> QED
      BY <3>1 DEF FundsInv, Books, ReferencePaidOnce
  <2> QED
    BY <2>2, <2>3, <2>4
<1>17. RefundEntriesBacked'
  <2>1. \A q \in Payments : payment'[q].reversed = payment[q].reversed
    BY <1>4, <1>8, <1>9
  <2>2. \A q \in Payments : Refunds(q)' = Refunds(q)
    BY <1>3 DEF Refunds
  <2> QED
    BY <2>1, <2>2 DEF FundsInv, Books, RefundEntriesBacked
<1> QED
  BY <1>3, <1>6, <1>10, <1>13, <1>14, <1>15, <1>16, <1>17, OneInvoice

(* A deposit is within what is due, so the invoice is not PAID.            *)
LEMMA CommitDepositFunds ==
  ASSUME RowsTyped, RowsTyped', FundsInv, Isolated, TotalsFinal,
         NEW c \in Clients, CommitDeposit(c)
  PROVE  FundsInv'
<1>1. PICK t : t = tx[c]
  OBVIOUS
<1>2. PICK i : i = t.invoice
  OBVIOUS
<1>3. PICK k : k = t.key
  OBVIOUS
<1> DEFINE row == [invoice |-> i, amount |-> t.amount]
<1>4. /\ t.op = "deposit" /\ deposit[k] = NoDeposit
      /\ deposit' = [deposit EXCEPT ![k] = row]
      /\ End(c) /\ UNCHANGED <<invoice, payment, refunded>>
  BY <1>1, <1>2, <1>3 DEF CommitDeposit
<1>5. row.invoice = i /\ row.amount = t.amount
  OBVIOUS
<1> HIDE DEF row
<1>6. t \in DepositTx /\ Funds(t)
  BY <1>1, <1>4, RowTypes, HeldByOp DEF FundsInv
<1>7. /\ i \in Invoices /\ i # Nothing /\ k \in DepositKeys
      /\ t.amount \in Nat /\ t.amount > 0
  BY <1>2, <1>3, <1>6, InvoicesAssumption DEF DepositTx, Amounts
<1>8. t.amount <= invoice[i].total - Collected(i)
  BY <1>2, <1>4, <1>6 DEF Funds
<1>9. /\ deposit'[k] = row
      /\ \A m \in DepositKeys \ {k} : deposit'[m] = deposit[m]
  BY <1>4, <1>7 DEF RowsTyped, TypeOK
<1>10. deposit[k].invoice = Nothing
  BY <1>4 DEF NoDeposit
<1>11. \A j \in Invoices \ {i} : Untouched(j)
  <2>1. ASSUME NEW j \in Invoices \ {i}
        PROVE  Untouched(j)
    <3>1. j # Nothing
      BY InvoicesAssumption
    <3> QED
      BY <1>4, <1>5, <1>9, <1>10, <3>1 DEF Untouched
  <2> QED
    BY <2>1
<1>12. Collected(i)' = Collected(i) + t.amount
  <2>1. /\ k \notin DepositsOf(i)
        /\ DepositsOf(i)' = DepositsOf(i) \cup {k}
    BY <1>5, <1>7, <1>9, <1>10 DEF DepositsOf
  <2>2. /\ Deposited(i) = SumFunctionOnSet(DepositOf(deposit), DepositsOf(i))
        /\ Deposited(i)' = SumFunctionOnSet(DepositOf(deposit'), DepositsOf(i) \cup {k})
    BY <2>1 DEF Deposited, DepositOf
  <2>3. \A m \in DepositsOf(i) :
          DepositOf(deposit)[m] \in Int /\ DepositOf(deposit)[m] = DepositOf(deposit')[m]
    <3>1. \A m \in DepositsOf(i) : m \in DepositKeys \ {k}
      BY <2>1, RowsFinite
    <3> QED
      BY <1>9, <3>1, RowTypes DEF DepositOf
  <2>4. DepositOf(deposit')[k] = t.amount
    BY <1>5, <1>7, <1>9 DEF DepositOf
  <2>5. Deposited(i)' = Deposited(i) + t.amount
    BY <1>7, <2>1, <2>2, <2>3, <2>4, RowsFinite, SumAdded
  <2>6. NetPaid(i)' = NetPaid(i)
    BY <1>4 DEF NetPaid, PaymentsOf
  <2>7. NetPaid(i) \in Nat /\ Deposited(i) \in Nat
    BY RowTypes, CollectedNatural
  <2> QED
    BY <1>7, <2>5, <2>6, <2>7 DEF Collected
<1>13. Collected(i) \in Nat /\ \A j \in Invoices : invoice[j].total \in Nat
  BY RowTypes, CollectedNatural
<1>14. invoice[i].status # "PAID"
  <2>1. invoice[i].status = "PAID" => Collected(i) = invoice[i].total
    BY <1>7 DEF FundsInv, Books, PaidIsSettled
  <2> QED
    BY <1>7, <1>8, <1>13, <2>1
<1>15. Collected(i)' <= invoice'[i].total
  BY <1>4, <1>7, <1>8, <1>12, <1>13
<1>16. StatusFollows
  BY <1>4, <1>13 DEF StatusFollows
<1>17. ReferencePaidOnce' /\ RefundEntriesBacked'
  BY <1>4 DEF FundsInv, Books, ReferencePaidOnce, RefundEntriesBacked, Refunds
<1> QED
  BY <1>4, <1>7, <1>11, <1>14, <1>15, <1>16, <1>17, OneInvoice
(* The row that was read is the current one, so what is reversed of it     *)
(* goes up by the amount, and so does the ledger or it has it already.     *)
LEMMA CommitRefundFunds ==
  ASSUME RowsTyped, RowsTyped', FundsInv, Isolated, TotalsFinal,
         NEW c \in Clients, CommitRefund(c)
  PROVE  FundsInv'
<1>1. PICK t : t = tx[c]
  OBVIOUS
<1>2. PICK i : i = t.invoice
  OBVIOUS
<1>3. PICK p : p = t.target
  OBVIOUS
<1>4. PICK due : due = t.paid - t.amount + Deposited(i)
  OBVIOUS
<1> DEFINE row == [[t.row EXCEPT !.reversed = t.row.reversed + t.amount]
                     EXCEPT !.reversal = t.reference]
<1>5. /\ t.op = "refund" /\ Recordable(p, t.reference, t.amount)
      /\ payment' = [payment EXCEPT ![p] = row]
      /\ refunded' = [refunded EXCEPT ![p][t.reference] = t.amount]
      /\ End(c) /\ UNCHANGED deposit
  BY <1>1, <1>3 DEF CommitRefund, Reversed
<1>6. t \in RefundTx /\ Funds(t) /\ SeenInv(t)
  BY <1>1, <1>5, RowTypes, HeldByOp DEF FundsInv, RowsTyped, IInv, TxInv
<1>7. /\ i \in Invoices /\ p \in Payments /\ t.reference \in AnyReference
      /\ t.amount \in Nat /\ t.amount > 0 /\ t.seen.total \in Nat
  BY <1>2, <1>3, <1>6 DEF RefundTx, Amounts, InvoiceRow
<1>8. /\ t.seen.status = "PAID" <=> invoice[i].status = "PAID"
      /\ t.seen.status = "PAID" => t.seen.total = invoice[i].total
      /\ t.paid = NetPaid(i) /\ payment[p].invoice = i /\ t.row = payment[p]
  BY <1>2, <1>3, <1>5, <1>6 DEF Funds, PaymentsOf
<1>9. /\ payment[p] \in PaymentRow
      /\ payment[p].amount \in Nat /\ payment[p].reversed \in Nat
  BY <1>7, RowTypes DEF PaymentRow
<1>10. /\ row.invoice = i /\ row.amount = payment[p].amount
       /\ row.reversed = payment[p].reversed + t.amount
       /\ row.reference = payment[p].reference
  BY <1>8, <1>9 DEF PaymentRow
<1> HIDE DEF row
<1>11. /\ payment'[p] = row
       /\ \A q \in Payments \ {p} : payment'[q] = payment[q]
  BY <1>5, <1>7 DEF RowsTyped, TypeOK
<1>12. \A j \in Invoices \ {i} : Untouched(j)
  BY <1>5, <1>8, <1>10, <1>11 DEF Untouched
<1>13. Collected(i)' = Collected(i) - t.amount
  <2>1. PaymentsOf(i)' = PaymentsOf(i) /\ p \in PaymentsOf(i)
    BY <1>7, <1>8, <1>10, <1>11 DEF PaymentsOf
  <2>2. /\ NetPaid(i) = SumFunctionOnSet(NetOf(payment), PaymentsOf(i))
        /\ NetPaid(i)' = SumFunctionOnSet(NetOf(payment'), PaymentsOf(i))
    BY <2>1 DEF NetPaid, NetOf
  <2>3. \A q \in PaymentsOf(i) : NetOf(payment)[q] \in Int /\ NetOf(payment')[q] \in Int
    BY RowsFinite, RowTypes, RowTypesNext
  <2>4. \A q \in PaymentsOf(i) \ {p} : NetOf(payment)[q] = NetOf(payment')[q]
    BY <1>11, RowsFinite DEF NetOf
  <2>5. NetOf(payment')[p] = NetOf(payment)[p] - t.amount
    BY <1>7, <1>9, <1>10, <1>11 DEF NetOf
  <2>6. NetPaid(i)' = NetPaid(i) - NetOf(payment)[p] + NetOf(payment')[p]
    BY <2>1, <2>2, <2>3, <2>4, RowsFinite, SumChanged
  <2>7. Deposited(i)' = Deposited(i)
    BY <1>5 DEF Deposited, DepositsOf
  <2>8. NetPaid(i) \in Nat /\ Deposited(i) \in Nat /\ NetOf(payment)[p] \in Nat
    BY <1>7, RowTypes, CollectedNatural
  <2> QED
    BY <1>7, <2>5, <2>6, <2>7, <2>8 DEF Collected
<1>14. /\ Collected(i) \in Nat /\ NetPaid(i) \in Nat /\ Deposited(i) \in Nat
       /\ invoice[i].total \in Nat
  BY <1>7, RowTypes, CollectedNatural
<1>15. due = Collected(i) - t.amount
  BY <1>4, <1>7, <1>8, <1>14 DEF Collected
<1>16. Collected(i) <= invoice[i].total
  BY <1>7 DEF FundsInv, Books, WithinTotal
<1>17. /\ invoice'[i].total = invoice[i].total
       /\ \A j \in Invoices \ {i} : invoice'[j] = invoice[j]
       /\ invoice'[i].status # "PAID"
  <2>1. CASE t.seen.status = "PAID" /\ Unsettled(due, t.seen.total)
    <3>1. /\ SameVersion(t.seen, t.invoice)
          /\ WriteInvoice(t.invoice, [t.seen EXCEPT !.status = "ISSUED"])
      BY <1>1, <1>2, <1>4, <2>1 DEF CommitRefund
    <3> QED
      BY <1>2, <1>5, <1>6, <3>1, StatusWritten
  <2>2. CASE ~(t.seen.status = "PAID" /\ Unsettled(due, t.seen.total))
    <3>1. UNCHANGED invoice
      BY <1>1, <1>2, <1>4, <2>2 DEF CommitRefund
    <3>2. invoice[i].status # "PAID"
      <4>1. t.seen.status = "PAID" => due < t.seen.total
        BY <1>7, <1>8, <1>14, <1>15, <1>16
      <4> QED
        BY <1>8, <2>2, <4>1 DEF Unsettled
    <3> QED
      BY <3>1, <3>2
  <2> QED
    BY <2>1, <2>2
<1>18. Collected(i)' <= invoice'[i].total
  BY <1>7, <1>13, <1>14, <1>16, <1>17
<1>19. StatusFollows
  <2>1. ~Untouched(i)
    <3>1. payment'[p] # payment[p]
      BY <1>7, <1>9, <1>10, <1>11
    <3> QED
      BY <1>7, <1>8, <3>1 DEF Untouched
  <2>2. \A j \in Invoices : invoice[j].total \in Nat
    BY RowTypes
  <2> QED
    BY <1>17, <2>1, <2>2 DEF StatusFollows
<1>20. ReferencePaidOnce'
  <2>1. \A q \in Payments : /\ payment'[q].reference = payment[q].reference
                            /\ payment'[q].invoice = payment[q].invoice
    BY <1>8, <1>10, <1>11
  <2> QED
    BY <2>1 DEF FundsInv, Books, ReferencePaidOnce
<1>21. RefundEntriesBacked'
  <2>1. refunded \in [Payments -> [AnyReference -> Nat]]
    BY DEF RowsTyped, TypeOK
  <2>2. /\ \A q \in Payments \ {p} : refunded'[q] = refunded[q]
        /\ refunded'[p] = [refunded[p] EXCEPT ![t.reference] = t.amount]
    BY <1>5, <1>7, <2>1
  <2>3. IsFiniteSet(AnyReference)
    BY FS_AddElement, InvoicesAssumption DEF AnyReference
  <2>4. /\ \A r \in AnyReference : refunded[p][r] \in Int /\ refunded'[p][r] \in Int
        /\ \A r \in AnyReference \ {t.reference} : refunded[p][r] = refunded'[p][r]
        /\ refunded'[p][t.reference] = t.amount
    BY <1>7, <2>1, <2>2
  <2>5. Refunds(p)' = Refunds(p) - refunded[p][t.reference] + t.amount
    BY <1>7, <2>3, <2>4, SumChanged DEF Refunds
  <2>6. Refunds(p) \in Int /\ Refunds(p) <= payment[p].reversed
    BY <1>7, <2>3, <2>4, SumInteger DEF Refunds, FundsInv, Books, RefundEntriesBacked
  <2>7. refunded[p][t.reference] \in Nat
    BY <1>7, <2>1
  <2>8. Refunds(p)' <= payment'[p].reversed
    BY <1>7, <1>9, <1>10, <1>11, <2>5, <2>6, <2>7
  <2>9. ASSUME NEW q \in Payments \ {p}
        PROVE  Refunds(q)' <= payment'[q].reversed
    BY <1>11, <2>2 DEF Refunds, FundsInv, Books, RefundEntriesBacked
  <2> QED
    BY <2>8, <2>9 DEF RefundEntriesBacked
<1> QED
  BY <1>5, <1>7, <1>12, <1>17, <1>18, <1>19, <1>20, <1>21, OneInvoice

---------------------------------------------------------------------------
(* Every step, and the theorems.                                           *)

LEMMA FundsStep ==
  RowsTyped /\ RowsTyped' /\ TotalsFinal /\ FundsInv /\ [Next]_vars /\ [Isolated]_vars
    => FundsInv'
<1> SUFFICES ASSUME RowsTyped, RowsTyped', TotalsFinal, FundsInv, [Next]_vars, [Isolated]_vars
             PROVE  FundsInv'
  OBVIOUS
<1>1. CASE UNCHANGED vars
  <2>1. UNCHANGED <<invoice, payment, deposit, refunded, tx>>
    BY <1>1 DEF vars, tables
  <2>2. StatusFollows /\ \A i : Untouched(i)
    BY <2>1, RowTypes DEF StatusFollows, Untouched
  <2>3. PaidIsSettled' /\ WithinTotal'
    BY <2>2, InvoiceKept DEF FundsInv, Books, PaidIsSettled, WithinTotal
  <2>4. ReferencePaidOnce' /\ RefundEntriesBacked'
    BY <2>1 DEF FundsInv, Books, ReferencePaidOnce, RefundEntriesBacked, Refunds
  <2>5. ASSUME NEW c \in Clients
        PROVE  Funds(tx[c])'
    <3>1. PICK t : t = tx[c]
      OBVIOUS
    <3>2. t \in TxType /\ Funds(t)
      BY <3>1, RowTypes DEF FundsInv
    <3>3. Funds(t)'
      BY <2>2, <3>2, FundsKept
    <3> QED
      BY <2>1, <3>1, <3>3 DEF Funds
  <2> QED
    BY <2>3, <2>4, <2>5 DEF FundsInv, Books
<1>2. CASE Next /\ Isolated
  <2>1. PICK c \in Clients :
          \/ \/ Abort(c)
             \/ TakeNumber(c)
             \/ \E s \in Stays : BeginCreate(c, s)
             \/ \E s \in Stays, i \in Invoices : OpenCharge(c, s, i)
          \/ \E i \in Invoices : CommitCreate(c, i) \/ Open(c, i)
          \/ \E a \in Amounts : CommitCharge(c, a)
          \/ \E a \in Amounts, k \in DepositKeys : LoadDeposit(c, a, k)
          \/ \E a \in Amounts, r \in AnyReference : LoadPayment(c, a, r)
          \/ \E a \in Amounts, r \in AnyReference, p \in Payments : LoadRefund(c, p, a, r)
          \/ \E p \in Payments : CommitPayment(c, p)
          \/ CommitDeposit(c)
          \/ CommitRefund(c)
    BY <1>2 DEF Next
  <2>2. CASE \/ Abort(c)
             \/ TakeNumber(c)
             \/ \E s \in Stays : BeginCreate(c, s)
             \/ \E s \in Stays, i \in Invoices : OpenCharge(c, s, i)
    BY <1>2, <2>2, OtherReadingFunds
  <2>3. CASE \E i \in Invoices : CommitCreate(c, i) \/ Open(c, i)
    BY <1>2, <2>3, CommitCreateFunds, OpenFunds
  <2>4. CASE \E a \in Amounts : CommitCharge(c, a)
    BY <1>2, <2>4, CommitChargeFunds
  <2>5. CASE \E a \in Amounts, k \in DepositKeys : LoadDeposit(c, a, k)
    BY <1>2, <2>5, LoadDepositFunds
  <2>6. CASE \E a \in Amounts, r \in AnyReference : LoadPayment(c, a, r)
    BY <1>2, <2>6, LoadPaymentFunds
  <2>7. CASE \E a \in Amounts, r \in AnyReference, p \in Payments : LoadRefund(c, p, a, r)
    BY <1>2, <2>7, LoadRefundFunds
  <2>8. CASE \E p \in Payments : CommitPayment(c, p)
    BY <1>2, <2>8, CommitPaymentFunds
  <2>9. CASE CommitDeposit(c)
    BY <1>2, <2>9, CommitDepositFunds
  <2>10. CASE CommitRefund(c)
    BY <1>2, <2>10, CommitRefundFunds
  <2> QED
    BY <2>1, <2>2, <2>3, <2>4, <2>5, <2>6, <2>7, <2>8, <2>9, <2>10
<1> QED
  BY <1>1, <1>2

LEMMA FundsInit == Init => FundsInv
<1> SUFFICES ASSUME Init
             PROVE  FundsInv
  OBVIOUS
<1>1. \A i \in Invoices : invoice[i].status # "PAID" /\ invoice[i].total = 0
  BY DEF Init, NoInvoice
<1>2. /\ \A p \in Payments : payment[p].invoice = Nothing /\ payment[p].reference = NoReference
                             /\ payment[p].reversed = 0
      /\ \A k \in DepositKeys : deposit[k].invoice = Nothing
  BY DEF Init, NoPayment, NoDeposit
<1>3. ASSUME NEW i \in Invoices
      PROVE  Collected(i) = 0
  <2>1. PaymentsOf(i) = {} /\ DepositsOf(i) = {}
    BY <1>2, InvoicesAssumption DEF PaymentsOf, DepositsOf
  <2> QED
    BY <2>1, SumEmpty DEF Collected, NetPaid, Deposited
<1>4. PaidIsSettled /\ WithinTotal /\ ReferencePaidOnce
  BY <1>1, <1>2, <1>3 DEF PaidIsSettled, WithinTotal, ReferencePaidOnce
<1>5. RefundEntriesBacked
  <2>1. IsFiniteSet(AnyReference)
    BY FS_AddElement, InvoicesAssumption DEF AnyReference
  <2>2. ASSUME NEW p \in Payments
        PROVE  Refunds(p) = 0
    <3>1. \A r \in AnyReference : refunded[p][r] = 0
      BY DEF Init
    <3> QED
      BY <2>1, <3>1, SumZero DEF Refunds
  <2> QED
    BY <1>2, <2>2 DEF RefundEntriesBacked
<1>6. \A c \in Clients : Funds(tx[c])
  BY DEF Init, Idle, Funds
<1> QED
  BY <1>4, <1>5, <1>6 DEF FundsInv, Books

LEMMA BooksKept == Spec /\ [][Isolated]_vars => []FundsInv
<1>1. Init => RowsTyped /\ FundsInv
  BY InvoicesInitInv, TypesInit, FundsInit DEF RowsTyped
<1>2. RowsTyped /\ [Next]_vars => RowsTyped' /\ TotalsFinal
  BY InvoicesStep, TypesStep DEF RowsTyped
<1> QED
  BY <1>1, <1>2, FundsStep, PTL DEF Spec

(* With one request at a time nobody comes in between.                     *)
OneClient == \A c, d \in Clients : c = d

LEMMA OneIsIsolated == OneClient /\ Spec => [][Isolated]_vars
<1>1. OneClient /\ IInv /\ [Next]_vars => [Isolated]_vars
  <2> SUFFICES ASSUME OneClient, IInv, Next
               PROVE  Isolated
    OBVIOUS
  <2>1. PICK c \in Clients :
          \/ \/ Abort(c)
             \/ TakeNumber(c)
             \/ \E s \in Stays : BeginCreate(c, s)
             \/ \E s \in Stays, i \in Invoices : OpenCharge(c, s, i)
          \/ \E i \in Invoices : CommitCreate(c, i) \/ Open(c, i)
          \/ \E a \in Amounts : CommitCharge(c, a)
          \/ \E a \in Amounts, k \in DepositKeys : LoadDeposit(c, a, k)
          \/ \E a \in Amounts, r \in AnyReference : LoadPayment(c, a, r)
          \/ \E a \in Amounts, r \in AnyReference, p \in Payments : LoadRefund(c, p, a, r)
          \/ (\E p \in Payments : CommitPayment(c, p)) \/ CommitDeposit(c) \/ CommitRefund(c)
    BY DEF Next
  <2>2. CASE (\E p \in Payments : CommitPayment(c, p)) \/ CommitDeposit(c) \/ CommitRefund(c)
    <3>1. tx[c].op \in {"pay", "deposit", "refund"} /\ End(c)
      BY <2>2 DEF CommitPayment, CommitDeposit, CommitRefund
    <3>2. tx'[c] = Idle
      BY <3>1 DEF End, IInv, TxInv
    <3>3. tx'[c] # tx[c]
      BY <3>1, <3>2 DEF Idle
    <3> QED
      BY <3>3 DEF OneClient, Isolated
  <2>3. CASE UNCHANGED <<payment, deposit>>
    BY <2>3 DEF Isolated, Untouched
  <2> QED
    BY <2>1, <2>2, <2>3
         DEF Abort, TakeNumber, BeginCreate, OpenCharge, CommitCreate, Open,
             CommitCharge, LoadDeposit, LoadPayment, LoadRefund, tables
<1>2. OneClient => []OneClient
  <2>1. OneClient => OneClient'
    BY DEF OneClient
  <2>2. OneClient /\ [OneClient]_vars => OneClient'
    BY <2>1
  <2> QED
    BY <2>1, PTL
<1> QED
  BY <1>1, <1>2, InvoicesInv, PTL DEF Spec

(* While nobody else's payment, deposit or refund comes between its own    *)
(* read and its commit, an invoice is PAID only when its money is there,   *)
(* whatever charges race with it; requests one at a time are a case.       *)
THEOREM PaidMeansSettled ==
  /\ Spec /\ [][Isolated]_vars => []PaidIsSettled
  /\ OneClient /\ Spec => []PaidIsSettled
<1>1. FundsInv => PaidIsSettled
  BY DEF FundsInv, Books
<1> QED
  BY <1>1, BooksKept, OneIsIsolated, PTL

(* Under the same condition no more is collected than was charged.         *)
THEOREM CollectedWithinTotal ==
  /\ Spec /\ [][Isolated]_vars => []NeverOvercollected
  /\ OneClient /\ Spec => []NeverOvercollected
<1>1. FundsInv => NeverOvercollected
  BY DEF FundsInv, Books, WithinTotal, NeverOvercollected, Created
<1> QED
  BY <1>1, BooksKept, OneIsIsolated, PTL

(* Under the same condition a reference stands for one payment, however    *)
(* often its request is repeated.                                          *)
THEOREM ReferenceStandsForOne ==
  /\ Spec /\ [][Isolated]_vars => []ReferencePaidOnce
  /\ OneClient /\ Spec => []ReferencePaidOnce
<1>1. FundsInv => ReferencePaidOnce
  BY DEF FundsInv, Books
<1> QED
  BY <1>1, BooksKept, OneIsIsolated, PTL

(* Under the same condition the ledger records no refund that the payment  *)
(* does not show.                                                          *)
THEOREM RefundsAreBacked ==
  /\ Spec /\ [][Isolated]_vars => []RefundEntriesBacked
  /\ OneClient /\ Spec => []RefundEntriesBacked
<1>1. FundsInv => RefundEntriesBacked
  BY DEF FundsInv, Books
<1> QED
  BY <1>1, BooksKept, OneIsIsolated, PTL
=============================================================================
