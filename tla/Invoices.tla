------------------------------ MODULE Invoices ------------------------------
(***************************************************************************)
(* Invoices, payments, deposits, refunds and the ledger of billing-service *)
(* (service/impl/InvoiceServiceImpl.java, PaymentServiceImpl.java,         *)
(* service/DepositService.java, LedgerService.java), for one hotel and one *)
(* calendar year.                                                          *)
(*                                                                         *)
(* A request is a transaction at READ COMMITTED: it reads the invoice row  *)
(* (Open), then the payments and deposits (Load), and commits what it      *)
(* computed from them.  Only the invoice row has a @Version, and Hibernate *)
(* checks it only when that row itself is written: a payment or a deposit  *)
(* that does not change the status leaves the version alone.               *)
(*                                                                         *)
(* Nothing in the service cancels an invoice or stores a fiscal export, so *)
(* the guards on them are left out; so is updateDocumentType, whose effect *)
(* on what is modelled, a new version of the row, is to make others fail,  *)
(* as Abort does.  Cash movements belong to the cash desk.                 *)
(***************************************************************************)
EXTENDS Integers, FiniteSets, FiniteSetsExt

CONSTANTS
  Clients,      \* request threads
  Invoices,     \* invoice rows that may be created
  Stays,        \* stays invoiced
  Payments,     \* payment rows that may be created
  DepositKeys,  \* reference keys of deposits
  References,   \* transaction references and refund references
  NoReference,  \* a request without one
  Nothing,      \* no invoice, no stay
  MaxTotal      \* bound of the model: largest total of an invoice

ASSUME InvoicesAssumption ==
  /\ IsFiniteSet(Payments) /\ IsFiniteSet(DepositKeys) /\ IsFiniteSet(Invoices)
  /\ IsFiniteSet(References)
  /\ NoReference \notin References
  /\ Nothing \notin Invoices \cup Stays
  /\ MaxTotal \in Nat

VARIABLES
  invoice,     \* invoices rows
  payment,     \* payments rows
  deposit,     \* deposits rows, by their unique reference key
  charged,     \* CHARGE entries of the ledger: their sum for each invoice
  refunded,    \* REFUND entries: amount by payment and reference, 0 for none
  lastNumber,  \* invoice_sequences.last_seq, 0 before the first invoice
  tx           \* what each request has read

tables == <<invoice, payment, deposit, charged, refunded, lastNumber>>
vars == <<tables, tx>>

Amounts == 1 .. MaxTotal
AnyReference == References \cup {NoReference}

InvoiceRow == [status : {"ABSENT", "ISSUED", "PAID"}, stay : Stays \cup {Nothing},
               number : Nat, total : Nat, version : Nat]

PaymentRow == [invoice : Invoices \cup {Nothing}, amount : Nat, reversed : Nat,
               reference : AnyReference, reversal : AnyReference]

DepositRow == [invoice : Invoices \cup {Nothing}, amount : Nat]

NoInvoice ==
  [status |-> "ABSENT", stay |-> Nothing, number |-> 0, total |-> 0, version |-> 0]

NoPayment ==
  [invoice |-> Nothing, amount |-> 0, reversed |-> 0,
   reference |-> NoReference, reversal |-> NoReference]

NoDeposit == [invoice |-> Nothing, amount |-> 0]

Idle == [op |-> "idle"]

(* number: taken from the sequence, 0 before.  seen: the invoice row read. *)
(* paid: what was collected when the payments were read; row: the target   *)
(* of a refund as it was then.                                             *)
CreateTx  == [op : {"create"}, stay : Stays, number : Nat]
OpenTx    == [op : {"open", "charge"}, invoice : Invoices, seen : InvoiceRow]
PaymentTx == [op : {"pay"}, invoice : Invoices, seen : InvoiceRow, amount : Amounts,
              reference : AnyReference, paid : Nat]
DepositTx == [op : {"deposit"}, invoice : Invoices, amount : Amounts, key : DepositKeys]
RefundTx  == [op : {"refund"}, invoice : Invoices, seen : InvoiceRow, amount : Amounts,
              reference : AnyReference, paid : Nat, target : Payments, row : PaymentRow]

TypeOK ==
  /\ invoice \in [Invoices -> InvoiceRow]
  /\ payment \in [Payments -> PaymentRow]
  /\ deposit \in [DepositKeys -> DepositRow]
  /\ charged \in [Invoices -> Nat]
  /\ refunded \in [Payments -> [AnyReference -> Nat]]
  /\ lastNumber \in Nat
  /\ tx \in [Clients -> {Idle} \cup CreateTx \cup OpenTx \cup PaymentTx \cup DepositTx
                        \cup RefundTx]

Init ==
  /\ invoice = [i \in Invoices |-> NoInvoice]
  /\ payment = [p \in Payments |-> NoPayment]
  /\ deposit = [k \in DepositKeys |-> NoDeposit]
  /\ charged = [i \in Invoices |-> 0]
  /\ refunded = [p \in Payments |-> [r \in AnyReference |-> 0]]
  /\ lastNumber = 0
  /\ tx = [c \in Clients |-> Idle]

---------------------------------------------------------------------------
(* Queries.                                                                *)

Created == {i \in Invoices : invoice[i].status # "ABSENT"}
OfStay(s) == {i \in Created : invoice[i].stay = s}
PaymentsOf(i) == {p \in Payments : payment[p].invoice = i}
DepositsOf(i) == {k \in DepositKeys : deposit[k].invoice = i}

NetPaid(i) ==
  SumFunctionOnSet([p \in Payments |-> payment[p].amount - payment[p].reversed], PaymentsOf(i))
Deposited(i) == SumFunctionOnSet([k \in DepositKeys |-> deposit[k].amount], DepositsOf(i))

(* Payments net of refunds, and deposits (they stay RECEIVED). *)
Collected(i) == NetPaid(i) + Deposited(i)

(* Mutant: a write of the invoice row that ignores the version. *)
NoVersion(seen, i) == TRUE

(* UPDATE invoices ... WHERE id = ? AND version = ?. *)
SameVersion(seen, i) == invoice[i].version = seen.version

WriteInvoice(i, row) == invoice' = [invoice EXCEPT ![i] = [row EXCEPT !.version = @ + 1]]

End(c) == tx' = [tx EXCEPT ![c] = Idle]

(* A refusal, a failed commit or a lost connection: nothing is written. *)
Abort(c) ==
  /\ tx[c] # Idle
  /\ End(c)
  /\ UNCHANGED tables

---------------------------------------------------------------------------
(* createInvoiceForStay.                                                   *)

(* findByStayIdAndHotelId fails when the stay has two invoices. *)
BeginCreate(c, s) ==
  /\ tx[c] = Idle
  /\ Cardinality(OfStay(s)) <= 1
  /\ \A i \in OfStay(s) : invoice[i].status # "ISSUED"
  /\ tx' = [tx EXCEPT ![c] = [op |-> "create", stay |-> s, number |-> 0]]
  /\ UNCHANGED tables

(* The sequence row, once it exists, is held until the commit. *)
SequenceHeld == \E d \in Clients : tx[d].op = "create" /\ tx[d].number > 1

(* generateInvoiceNumber. *)
TakeNumber(c) ==
  /\ tx[c].op = "create" /\ tx[c].number = 0
  /\ lastNumber > 0 => ~SequenceHeld
  /\ tx' = [tx EXCEPT ![c].number = lastNumber + 1]
  /\ UNCHANGED tables

(* Mutant: no unique constraint on the number. *)
NumberUnchecked(n) == TRUE

NumberFree(n) == \A i \in Created : invoice[i].number # n

CommitCreate(c, i) ==
  /\ tx[c].op = "create" /\ tx[c].number > 0
  /\ i \notin Created
  /\ NumberFree(tx[c].number)
  /\ invoice' = [invoice EXCEPT ![i] =
       [status |-> "ISSUED", stay |-> tx[c].stay, number |-> tx[c].number,
        total |-> 0, version |-> 0]]
  /\ lastNumber' = tx[c].number
  /\ End(c)
  /\ UNCHANGED <<payment, deposit, charged, refunded>>

---------------------------------------------------------------------------
(* addCharge.                                                              *)

(* Mutant: charges to invoices that are settled. *)
AlwaysOpen(row) == TRUE

OpenForCharges(row) == row.status = "ISSUED"

OpenCharge(c, s, i) ==
  /\ tx[c] = Idle
  /\ OfStay(s) = {i}
  /\ OpenForCharges(invoice[i])
  /\ tx' = [tx EXCEPT ![c] = [op |-> "charge", invoice |-> i, seen |-> invoice[i]]]
  /\ UNCHANGED tables

CommitCharge(c, amount) ==
  LET t == tx[c] IN
  /\ t.op = "charge"
  /\ t.seen.total + amount <= MaxTotal
  /\ SameVersion(t.seen, t.invoice)
  /\ WriteInvoice(t.invoice, [t.seen EXCEPT !.total = @ + amount])
  /\ charged' = [charged EXCEPT ![t.invoice] = @ + amount]
  /\ End(c)
  /\ UNCHANGED <<payment, deposit, refunded, lastNumber>>

---------------------------------------------------------------------------
(* addPayment (and addPaymentForStay, which finds the invoice by its       *)
(* stay), DepositService.receive, refund and refundForStay all read the    *)
(* invoice first.                                                          *)
Open(c, i) ==
  /\ tx[c] = Idle
  /\ i \in Created
  /\ tx' = [tx EXCEPT ![c] = [op |-> "open", invoice |-> i, seen |-> invoice[i]]]
  /\ UNCHANGED tables

(* Mutant: a payment that repeats a reference is a new payment. *)
NeverSeen(i, reference) == FALSE

(* A reference that is stored already is answered without a change. *)
Seen(i, reference) ==
  reference # NoReference /\ \E p \in PaymentsOf(i) : payment[p].reference = reference

(* Mutant: a payment is accepted while anything is due. *)
SomethingDue(amount, paid, total) == paid < total

WithinBalance(amount, paid, total) == amount <= total - paid

LoadPayment(c, amount, reference) ==
  LET t == tx[c] IN
  /\ t.op = "open"
  /\ ~Seen(t.invoice, reference)
  /\ t.seen.status # "PAID"
  /\ WithinBalance(amount, Collected(t.invoice), t.seen.total)
  /\ tx' = [tx EXCEPT ![c] =
       [op |-> "pay", invoice |-> t.invoice, seen |-> t.seen, amount |-> amount,
        reference |-> reference, paid |-> Collected(t.invoice)]]
  /\ UNCHANGED tables

LoadDeposit(c, amount, key) ==
  LET t == tx[c] IN
  /\ t.op = "open"
  /\ deposit[key] = NoDeposit
  /\ WithinBalance(amount, Collected(t.invoice), t.seen.total)
  /\ tx' = [tx EXCEPT ![c] =
       [op |-> "deposit", invoice |-> t.invoice, amount |-> amount, key |-> key]]
  /\ UNCHANGED tables

(* Mutant: refunds bounded by the payment, not by what is left of it. *)
WithinPayment(amount, row) == amount <= row.amount

WithinRemainder(amount, row) == amount <= row.amount - row.reversed

(* Only the last reference of a payment is recognised as a repetition. *)
LoadRefund(c, p, amount, reference) ==
  LET t == tx[c] IN
  /\ t.op = "open"
  /\ p \in PaymentsOf(t.invoice)
  /\ ~(reference # NoReference /\ reference = payment[p].reversal)
  /\ WithinRemainder(amount, payment[p])
  /\ tx' = [tx EXCEPT ![c] =
       [op |-> "refund", invoice |-> t.invoice, seen |-> t.seen, amount |-> amount,
        reference |-> reference, paid |-> NetPaid(t.invoice), target |-> p,
        row |-> payment[p]]]
  /\ UNCHANGED tables

(* The invoice row is written, and its version checked, only when the      *)
(* payment completes the total.                                            *)
CommitPayment(c, p) ==
  LET t == tx[c] IN
  /\ t.op = "pay"
  /\ payment[p] = NoPayment
  /\ payment' = [payment EXCEPT ![p] =
       [invoice |-> t.invoice, amount |-> t.amount, reversed |-> 0,
        reference |-> t.reference, reversal |-> NoReference]]
  /\ IF t.paid + t.amount = t.seen.total
       THEN /\ SameVersion(t.seen, t.invoice)
            /\ WriteInvoice(t.invoice, [t.seen EXCEPT !.status = "PAID"])
       ELSE UNCHANGED invoice
  /\ End(c)
  /\ UNCHANGED <<deposit, charged, refunded, lastNumber>>

(* The unique key lets only one of two racing deposits in. *)
CommitDeposit(c) ==
  LET t == tx[c] IN
  /\ t.op = "deposit"
  /\ deposit[t.key] = NoDeposit
  /\ deposit' = [deposit EXCEPT ![t.key] = [invoice |-> t.invoice, amount |-> t.amount]]
  /\ End(c)
  /\ UNCHANGED <<invoice, payment, charged, refunded, lastNumber>>

(* Mutant: the reversed amount is set, not added to. *)
ReversedAnew(row, amount, reference) ==
  [row EXCEPT !.reversed = amount, !.reversal = reference]

Reversed(row, amount, reference) ==
  [row EXCEPT !.reversed = @ + amount, !.reversal = reference]

(* LedgerService.record refuses a repeated key with another amount and     *)
(* ignores it with the same.                                               *)
Recordable(p, reference, amount) == refunded[p][reference] \in {0, amount}

(* Mutant: a refund leaves the invoice PAID. *)
NeverUnsettled(paid, total) == FALSE

Unsettled(paid, total) == paid < total

CommitRefund(c) ==
  LET t == tx[c]
      paid == t.paid - t.amount + Deposited(t.invoice) IN
  /\ t.op = "refund"
  /\ Recordable(t.target, t.reference, t.amount)
  /\ payment' = [payment EXCEPT ![t.target] = Reversed(t.row, t.amount, t.reference)]
  /\ refunded' = [refunded EXCEPT ![t.target][t.reference] = t.amount]
  /\ IF t.seen.status = "PAID" /\ Unsettled(paid, t.seen.total)
       THEN /\ SameVersion(t.seen, t.invoice)
            /\ WriteInvoice(t.invoice, [t.seen EXCEPT !.status = "ISSUED"])
       ELSE UNCHANGED invoice
  /\ End(c)
  /\ UNCHANGED <<deposit, charged, lastNumber>>

Next ==
  \E c \in Clients :
    \/ Abort(c)
    \/ TakeNumber(c)
    \/ \E s \in Stays : BeginCreate(c, s)
    \/ \E s \in Stays, i \in Invoices : OpenCharge(c, s, i)
    \/ \E i \in Invoices : CommitCreate(c, i) \/ Open(c, i)
    \/ \E a \in Amounts :
         \/ CommitCharge(c, a)
         \/ \E k \in DepositKeys : LoadDeposit(c, a, k)
         \/ \E r \in AnyReference :
              LoadPayment(c, a, r) \/ \E p \in Payments : LoadRefund(c, p, a, r)
    \/ \E p \in Payments : CommitPayment(c, p)
    \/ CommitDeposit(c)
    \/ CommitRefund(c)

Spec == Init /\ [][Next]_vars

---------------------------------------------------------------------------
(* Properties that hold for concurrent requests.                           *)

(* "totalAmount on invoices is kept in sync by the application layer"      *)
(* (V2__add_stay_charges.sql): whatever races with addCharge, the total of *)
(* an invoice is the sum of the charges in the ledger.                     *)
TotalIsCharged == \A i \in Invoices : invoice[i].total = charged[i]

(* A settled invoice is not charged any more: a charge that read the       *)
(* invoice before its last payment never commits after it.                 *)
SettledTotalIsFinal ==
  [][\A i \in Invoices :
       invoice[i].status = "PAID" => invoice'[i].total = invoice[i].total]_vars

(* The fiscal numbers of a year are unique and have no gap, also under     *)
(* concurrent load (Javadoc of generateInvoiceNumber).                     *)
NumbersWithoutGaps ==
  /\ {invoice[i].number : i \in Created} = 1 .. Cardinality(Created)
  /\ lastNumber = Cardinality(Created)

(* However refunds race, a payment is never recorded as reversed beyond    *)
(* its amount, so what is collected is never negative.                     *)
ReversedWithinPayment == \A p \in Payments : payment[p].reversed <= payment[p].amount

---------------------------------------------------------------------------
(* Properties that hold when requests come one at a time.                  *)

(* PAID means that the money is there: checkout and reports rely on it.    *)
(* The converse does not hold, deposits never mark an invoice paid.        *)
PaidIsSettled ==
  \A i \in Invoices : invoice[i].status = "PAID" => Collected(i) = invoice[i].total

(* PAYMENT_EXCEEDS_BALANCE and DEPOSIT_EXCEEDS_BALANCE: never more is      *)
(* collected than was charged.                                             *)
NeverOvercollected == \A i \in Created : Collected(i) <= invoice[i].total

(* A transaction reference stands for one payment of an invoice, whatever  *)
(* happened between a request and its repetition.                          *)
ReferencePaidOnce ==
  \A p, q \in Payments :
    /\ payment[p].reference # NoReference
    /\ payment[p].reference = payment[q].reference
    /\ payment[p].invoice = payment[q].invoice
    => p = q

Refunds(p) == SumFunctionOnSet(refunded[p], AnyReference)

(* The ledger never records a refund that the payment does not show.       *)
RefundEntriesBacked == \A p \in Payments : Refunds(p) <= payment[p].reversed

(* "Single write boundary for financial facts" (LedgerService.java:12):    *)
(* what a payment shows as reversed is in the ledger.                      *)
ReversalsRecorded == \A p \in Payments : payment[p].reversed <= Refunds(p)
=============================================================================
