---------------------------- MODULE Notifications ----------------------------
(***************************************************************************)
(* Operational alerts on their way to the mail server: the transactional   *)
(* outbox of frontdesk-service                                             *)
(* (notifications/OperationalNotificationOutboxService.java) and the       *)
(* delivery table of notification-service                                  *)
(* (service/NotificationDeliveryService.java).                             *)
(*                                                                         *)
(* A poll of either service is one transaction: it locks a batch of due    *)
(* rows, works through them oldest first and writes them all at its        *)
(* commit.  What it does outside its database meanwhile (the row that a    *)
(* call inserts downstream, the mail handed to the mail server) stays when *)
(* the transaction is rolled back.                                         *)
(***************************************************************************)
EXTENDS Integers, FiniteSets

CONSTANTS
  Events,       \* alerts, one per (source event, recipient)
  Refused,      \* alerts whose mail the server refuses with a MailException
  Forwarders,   \* pollers of the outbox
  Deliverers,   \* pollers of the delivery table
  BatchSize,    \* BATCH_SIZE of both pollers
  MaxForward,   \* MAX_FORWARD_ATTEMPTS of the outbox
  MaxDeliver,   \* MAX_ATTEMPTS of the delivery table
  MaxRollbacks  \* bound of the model: transactions rolled back in one run

ASSUME SetsAssumption ==
  /\ IsFiniteSet(Events)
  /\ Refused \subseteq Events
  /\ Forwarders \cap Deliverers = {}

ASSUME LimitsAssumption ==
  /\ {BatchSize, MaxForward, MaxDeliver} \subseteq Nat \ {0}
  /\ MaxRollbacks \in Nat

VARIABLES
  outbox,     \* operational_notification_outbox rows
  delivery,   \* notification_deliveries rows
  job,        \* what each poller's transaction has locked and changed
  late,       \* alerts whose call to notification-service has outlived its caller
  mails,      \* history: mails handed to the server, up to MaxRollbacks + 1
  rollbacks   \* history: polls rolled back, up to MaxRollbacks

vars == <<outbox, delivery, job, late, mails, rollbacks>>

Pollers == Forwarders \cup Deliverers

(* due: next_attempt_at has passed.  created: rank of created_at. *)
Entry(max) == [status : {"NONE", "PENDING", "FAILED", "SENT"}, attempts : 0 .. max,
               due : BOOLEAN, created : Nat]

NoEntry == [status |-> "NONE", attempts |-> 0, due |-> FALSE, created |-> 0]

(* todo: locked rows not handled yet.  entry: the rows as the transaction  *)
(* will write them; NoEntry for a row it has not locked.                   *)
Job(max) == [todo : SUBSET Events, entry : [Events -> Entry(max)]]

Idle == [todo |-> {}, entry |-> [e \in Events |-> NoEntry]]

Batch(p) == {e \in Events : job[p].entry[e] # NoEntry}

TypeOK ==
  /\ outbox \in [Events -> Entry(MaxForward)]
  /\ delivery \in [Events -> Entry(MaxDeliver)]
  /\ DOMAIN job = Pollers
  /\ \A f \in Forwarders : job[f] \in Job(MaxForward)
  /\ \A d \in Deliverers : job[d] \in Job(MaxDeliver)
  /\ late \subseteq Events
  /\ mails \in [Events -> 0 .. MaxRollbacks + 1]
  /\ rollbacks \in 0 .. MaxRollbacks

Init ==
  /\ outbox = [e \in Events |-> NoEntry]
  /\ delivery = [e \in Events |-> NoEntry]
  /\ job = [p \in Pollers |-> Idle]
  /\ late = {}
  /\ mails = [e \in Events |-> 0]
  /\ rollbacks = 0

---------------------------------------------------------------------------
(* Rows and batches.                                                       *)

Rows(table) == {e \in Events : table[e].status # "NONE"}

NewEntry(table) ==
  [status |-> "PENDING", attempts |-> 0, due |-> TRUE,
   created |-> Cardinality(Rows(table)) + 1]

(* Mutant: the second insertion replaces the row. *)
InsertAlways(table, e) == [table EXCEPT ![e] = NewEntry(table)]

(* INSERT ... ON CONFLICT DO NOTHING. *)
InsertIfAbsent(table, e) ==
  IF e \in Rows(table) THEN table ELSE [table EXCEPT ![e] = NewEntry(table)]

(* Mutants: exhausted rows are tried again, failed rows are not. *)
DueForever(table, max) ==
  {e \in Events : table[e].status \in {"PENDING", "FAILED"} /\ table[e].due}

DueOnce(table, max) ==
  {e \in Events : table[e].status = "PENDING" /\ table[e].attempts < max /\ table[e].due}

Due(table, max) ==
  {e \in Events : /\ table[e].status \in {"PENDING", "FAILED"}
                  /\ table[e].attempts < max
                  /\ table[e].due}

(* Mutant: the query does not lock what it reads. *)
NeverLocked(pollers, e) == FALSE

Locked(pollers, e) == \E p \in pollers : e \in Batch(p)

(* ORDER BY created_at, limited to a page. *)
IsPage(batch, rows, table) ==
  /\ batch # {}
  /\ batch \subseteq rows
  /\ \A e \in batch, d \in rows \ batch : table[e].created < table[d].created
  /\ \/ Cardinality(batch) = BatchSize
     \/ batch = rows /\ Cardinality(rows) < BatchSize

Take(p, batch, table) ==
  job' = [job EXCEPT ![p] =
    [todo |-> batch,
     entry |-> [e \in Events |-> IF e \in batch THEN table[e] ELSE NoEntry]]]

(* The loop handles the batch in the order of the query. *)
IsNext(p, e) ==
  /\ e \in job[p].todo
  /\ \A d \in job[p].todo : job[p].entry[e].created <= job[p].entry[d].created

(* recordSuccess, recordFailure and saveOutcome. *)
Tried(row, status) ==
  [row EXCEPT !.status = status, !.attempts = @ + 1, !.due = FALSE]

(* The outcome of one attempt, kept in the persistence context. *)
Handle(p, e, status) ==
  job' = [job EXCEPT ![p] =
    [todo |-> job[p].todo \ {e},
     entry |-> [job[p].entry EXCEPT ![e] = Tried(job[p].entry[e], status)]]]

Written(p, table) ==
  [e \in Events |-> IF e \in Batch(p) THEN job[p].entry[e] ELSE table[e]]

Counted(n, max) == IF n < max THEN n + 1 ELSE n

RollBack(p) ==
  /\ job' = [job EXCEPT ![p] = Idle]
  /\ rollbacks' = Counted(rollbacks, MaxRollbacks)

---------------------------------------------------------------------------
(* frontdesk-service.                                                      *)

(* enqueue, in the transaction that changes the order or the stock; a      *)
(* repeated key changes nothing.                                           *)
Enqueue(e) ==
  /\ outbox' = InsertIfAbsent(outbox, e)
  /\ UNCHANGED <<delivery, job, mails, rollbacks, late>>

(* lockDue: FOR UPDATE SKIP LOCKED. *)
LockDue(f) ==
  /\ job[f] = Idle
  /\ \E batch \in SUBSET Events :
       /\ IsPage(batch, {e \in Due(outbox, MaxForward) : ~Locked(Forwarders, e)}, outbox)
       /\ Take(f, batch, outbox)
  /\ UNCHANGED <<outbox, delivery, mails, rollbacks, late>>

(* The call is answered: notification-service has the row. *)
ForwardAccepted(f, e) ==
  /\ IsNext(f, e)
  /\ delivery' = InsertIfAbsent(delivery, e)
  /\ Handle(f, e, "SENT")
  /\ UNCHANGED <<outbox, mails, rollbacks, late>>

(* The answer is lost, and the call goes on in notification-service.       *)
ForwardLost(f, e) ==
  /\ IsNext(f, e)
  /\ late' = late \cup {e}
  /\ Handle(f, e, "FAILED")
  /\ UNCHANGED <<outbox, delivery, mails, rollbacks>>

(* Mutant: the null of the circuit breaker's fallback counts as an answer. *)
ForwardUnchecked(f, e) ==
  /\ IsNext(f, e)
  /\ Handle(f, e, "SENT")
  /\ UNCHANGED <<outbox, delivery, mails, rollbacks, late>>

(* The call does not reach notification-service, or is refused there.      *)
ForwardFailed(f, e) ==
  /\ IsNext(f, e)
  /\ Handle(f, e, "FAILED")
  /\ UNCHANGED <<outbox, delivery, mails, rollbacks, late>>

ForwardCommit(f) ==
  /\ job[f] # Idle
  /\ job[f].todo = {}
  /\ outbox' = Written(f, outbox)
  /\ job' = [job EXCEPT ![f] = Idle]
  /\ UNCHANGED <<delivery, mails, rollbacks, late>>

---------------------------------------------------------------------------
(* notification-service.                                                   *)

(* enqueue commits the row of a call that nobody waits for any more.       *)
LateInsert(e) ==
  /\ e \in late
  /\ delivery' = InsertIfAbsent(delivery, e)
  /\ late' = late \ {e}
  /\ UNCHANGED <<outbox, job, mails, rollbacks>>

(* Such a call ends without a row: refused, rolled back, cut by a restart. *)
LateDropped(e) ==
  /\ e \in late
  /\ late' = late \ {e}
  /\ UNCHANGED <<outbox, delivery, job, mails, rollbacks>>

(* lockNextDeliveries: FOR UPDATE, waiting for rows that are locked. *)
LockNext(d) ==
  /\ job[d] = Idle
  /\ \E batch \in SUBSET Events :
       /\ IsPage(batch, Due(delivery, MaxDeliver), delivery)
       /\ \A e \in batch : ~Locked(Deliverers, e)
       /\ Take(d, batch, delivery)
  /\ UNCHANGED <<outbox, delivery, mails, rollbacks, late>>

DeliverSent(d, e) ==
  /\ IsNext(d, e)
  /\ e \notin Refused
  /\ mails' = [mails EXCEPT ![e] = Counted(@, MaxRollbacks + 1)]
  /\ Handle(d, e, "SENT")
  /\ UNCHANGED <<outbox, delivery, rollbacks, late>>

(* The exceptions that the loop catches: payload, template, message. *)
DeliverFailed(d, e) ==
  /\ IsNext(d, e)
  /\ e \notin Refused
  /\ Handle(d, e, "FAILED")
  /\ UNCHANGED <<outbox, delivery, mails, rollbacks, late>>

(* JavaMailSender throws a MailException, which the loop does not catch:   *)
(* the transaction of the whole batch is rolled back.                      *)
DeliverRefused(d, e) ==
  /\ IsNext(d, e)
  /\ e \in Refused
  /\ RollBack(d)
  /\ UNCHANGED <<outbox, delivery, mails, late>>

DeliverCommit(d) ==
  /\ job[d] # Idle
  /\ job[d].todo = {}
  /\ delivery' = Written(d, delivery)
  /\ job' = [job EXCEPT ![d] = Idle]
  /\ UNCHANGED <<outbox, mails, rollbacks, late>>

---------------------------------------------------------------------------
(* A poll is lost: the service restarts, the database drops the            *)
(* connection, the mail server is down for a while.                        *)
Crash(p) ==
  /\ job[p] # Idle
  /\ rollbacks < MaxRollbacks
  /\ RollBack(p)
  /\ UNCHANGED <<outbox, delivery, mails, late>>

(* next_attempt_at passes. *)
OutboxWait(e) ==
  /\ outbox[e].status = "FAILED" /\ ~outbox[e].due
  /\ outbox' = [outbox EXCEPT ![e].due = TRUE]
  /\ UNCHANGED <<delivery, job, mails, rollbacks, late>>

DeliveryWait(e) ==
  /\ delivery[e].status = "FAILED" /\ ~delivery[e].due
  /\ delivery' = [delivery EXCEPT ![e].due = TRUE]
  /\ UNCHANGED <<outbox, job, mails, rollbacks, late>>

Forward(f) ==
  \/ LockDue(f)
  \/ \E e \in Events : ForwardAccepted(f, e) \/ ForwardLost(f, e) \/ ForwardFailed(f, e)
  \/ ForwardCommit(f)

Deliver(d) ==
  \/ LockNext(d)
  \/ \E e \in Events : DeliverSent(d, e) \/ DeliverFailed(d, e) \/ DeliverRefused(d, e)
  \/ DeliverCommit(d)

LateEnds(e) == LateInsert(e) \/ LateDropped(e)

Next ==
  \/ \E e \in Events : Enqueue(e) \/ OutboxWait(e) \/ DeliveryWait(e) \/ LateEnds(e)
  \/ \E f \in Forwarders : Forward(f)
  \/ \E d \in Deliverers : Deliver(d)
  \/ \E p \in Pollers : Crash(p)

Spec == Init /\ [][Next]_vars

(* @Scheduled runs both pollers again and again, every call ends, and time  *)
(* passes.                                                                 *)
Fairness ==
  /\ \A f \in Forwarders : WF_vars(Forward(f))
  /\ \A d \in Deliverers : WF_vars(Deliver(d))
  /\ \A e \in Events : WF_vars(OutboxWait(e)) /\ WF_vars(DeliveryWait(e))
                      /\ WF_vars(LateEnds(e))

FairSpec == Spec /\ Fairness

---------------------------------------------------------------------------
(* SENT is true.  The outbox row is marked SENT, and its payload wiped,     *)
(* only when notification-service has the alert, and a delivery only after *)
(* its mail left: no lost answer, rollback or race of two pollers loses an *)
(* alert on its way.                                                       *)
NothingLost ==
  \A e \in Events : outbox[e].status = "SENT" => delivery[e].status # "NONE"
SentWasMailed ==
  \A e \in Events : delivery[e].status = "SENT" => mails[e] > 0
SentIsTrue == NothingLost /\ SentWasMailed

(* Nobody is mailed twice unless a poll was rolled back after its mail had *)
(* left: lost answers, repeated events and concurrent pollers do not       *)
(* duplicate a mail.                                                       *)
DuplicatesNeedRollback == \A e \in Events : mails[e] <= 1 + rollbacks

GivenUp(table, max, e) == table[e].status = "FAILED" /\ table[e].attempts >= max

(* Delivered, or given up by the service that had the alert last: by the   *)
(* outbox only when no call of its own can bring it further any more.      *)
Settled(e) ==
  \/ delivery[e].status = "SENT"
  \/ GivenUp(delivery, MaxDeliver, e)
  \/ delivery[e].status = "NONE" /\ GivenUp(outbox, MaxForward, e) /\ e \notin late

(* The pipeline implements Relay: in particular, what is settled is never  *)
(* mailed again.                                                           *)
Pipeline == INSTANCE Relay WITH
  Alerts <- Events, MaxCopies <- MaxRollbacks + 1,
  raised <- Rows(outbox), copies <- mails, settled <- {e \in Events : Settled(e)}

ImplementsRelay == Pipeline!Spec

(* "Delivers the next eligible outbox batch and schedules failed items for *)
(* retry" (NotificationDeliveryService.java:67): with a bounded number of  *)
(* attempts, every alert is delivered or given up in the end.              *)
EveryAlertSettles ==
  \A e \in Events : outbox[e].status = "PENDING" ~> Settled(e)
=============================================================================
