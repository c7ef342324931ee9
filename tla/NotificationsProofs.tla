------------------------- MODULE NotificationsProofs -------------------------
(***************************************************************************)
(* Proofs about Notifications, for any number of events and pollers and    *)
(* any batch size and limits: its types, its safety properties and that    *)
(* every step of the pipeline is a step of Relay or changes nothing there. *)
(***************************************************************************)
EXTENDS Notifications, FiniteSetTheorems, TLAPS

BatchOf(j) == {e \in Events : j.entry[e] # NoEntry}

(* What one attempt makes of a row. *)
Attempted(new, old) ==
  /\ new.status \in {"FAILED", "SENT"}
  /\ new.attempts = old.attempts + 1
  /\ new.due = FALSE
  /\ new.created = old.created

(* A locked row is still due in the table; the transaction has it as it is *)
(* there or as one attempt leaves it.                                      *)
Coherent(j, table, max) ==
  /\ j.todo \subseteq BatchOf(j)
  /\ \A e \in BatchOf(j) :
       /\ e \in Due(table, max)
       /\ e \in j.todo => j.entry[e] = table[e]
       /\ e \notin j.todo => Attempted(j.entry[e], table[e])

(* One service: its table, and its pollers' transactions jobs, of which no *)
(* two lock the same row.                                                  *)
Service(jobs, pollers, table, max) ==
  /\ table \in [Events -> Entry(max)]
  /\ \A p \in pollers : jobs[p] \in Job(max) /\ Coherent(jobs[p], table, max)
  /\ \A p, q \in pollers : p # q => BatchOf(jobs[p]) \cap BatchOf(jobs[q]) = {}

LockInv ==
  /\ DOMAIN job = Pollers
  /\ Service(job, Forwarders, outbox, MaxForward)
  /\ Service(job, Deliverers, delivery, MaxDeliver)
  /\ late \subseteq Events
  /\ mails \in [Events -> 0 .. MaxRollbacks + 1]
  /\ rollbacks \in 0 .. MaxRollbacks

---------------------------------------------------------------------------
(* One transaction and the rows it works on.                               *)

(* A batch is coherent as long as nobody else writes its rows.             *)
LEMMA CoherentStable ==
  ASSUME NEW j, NEW max, NEW table, NEW table2, Coherent(j, table, max),
         \A e \in BatchOf(j) : table2[e] = table[e]
  PROVE  Coherent(j, table2, max)
BY DEF Coherent, Due, BatchOf

(* What LockDue and LockNext take is a coherent job with just that batch.  *)
LEMMA TakenJob ==
  ASSUME NEW max \in Nat, NEW table \in [Events -> Entry(max)],
         NEW batch \in SUBSET Events, batch \subseteq Due(table, max),
         NEW j, j = [todo |-> batch,
                     entry |-> [e \in Events |-> IF e \in batch THEN table[e] ELSE NoEntry]]
  PROVE  /\ j \in Job(max)
         /\ BatchOf(j) = batch
         /\ Coherent(j, table, max)
         /\ \A e \in Events : j.entry[e].status # "SENT"
<1>1. NoEntry \in Entry(max)
  BY DEF NoEntry, Entry
<1>2. j.todo = batch /\ \A e \in Events : j.entry[e] = IF e \in batch THEN table[e] ELSE NoEntry
  OBVIOUS
<1>3. j \in Job(max)
  BY <1>1 DEF Job
<1>4. \A e \in batch : table[e].status # "NONE" /\ table[e].status # "SENT"
  BY DEF Due
<1>5. \A e \in batch : table[e] # NoEntry
  BY <1>4 DEF NoEntry
<1>6. BatchOf(j) = batch
  BY <1>2, <1>5 DEF BatchOf
<1>7. Coherent(j, table, max)
  BY <1>2, <1>6 DEF Coherent
<1>8. \A e \in Events : j.entry[e].status # "SENT"
  BY <1>2, <1>4 DEF NoEntry
<1> QED BY <1>3, <1>6, <1>7, <1>8

(* One attempt leaves a row of the table's type.                           *)
LEMMA TriedRow ==
  ASSUME NEW max \in Nat, NEW row \in Entry(max), row.attempts < max,
         NEW status \in {"FAILED", "SENT"}
  PROVE  /\ Tried(row, status) \in Entry(max)
         /\ Tried(row, status).status = status
         /\ Attempted(Tried(row, status), row)
<1>1. row.attempts \in Nat /\ row.attempts + 1 \in 0 .. max
  BY DEF Entry
<1>2. Tried(row, status) \in Entry(max)
  BY <1>1 DEF Tried, Entry
<1>3. /\ Tried(row, status).status = status
      /\ Tried(row, status).attempts = row.attempts + 1
      /\ Tried(row, status).due = FALSE
      /\ Tried(row, status).created = row.created
  BY <1>1 DEF Tried, Entry
<1> QED BY <1>2, <1>3 DEF Attempted

(* Handling a row keeps the batch and leaves the other rows as they were.  *)
LEMMA HandledJob ==
  ASSUME NEW max \in Nat, NEW table \in [Events -> Entry(max)],
         NEW j \in Job(max), Coherent(j, table, max),
         NEW e \in j.todo, NEW status \in {"FAILED", "SENT"},
         NEW k, k = [todo |-> j.todo \ {e},
                     entry |-> [j.entry EXCEPT ![e] = Tried(j.entry[e], status)]]
  PROVE  /\ k \in Job(max)
         /\ BatchOf(k) = BatchOf(j)
         /\ Coherent(k, table, max)
         /\ k.entry[e].status = status
         /\ \A d \in Events \ {e} : k.entry[d] = j.entry[d]
<1>1. e \in Events /\ e \in BatchOf(j) /\ e \in Due(table, max) /\ j.entry[e] = table[e]
  BY DEF Coherent, BatchOf
<1>2. /\ j.todo \in SUBSET Events /\ j.entry \in [Events -> Entry(max)]
      /\ j.entry[e] \in Entry(max) /\ table[e] \in Entry(max)
  BY <1>1 DEF Job
<1>3. j.entry[e].attempts \in Nat /\ j.entry[e].attempts < max
  BY <1>1, <1>2 DEF Due, Entry
<1> DEFINE new == Tried(j.entry[e], status)
<1>4. new \in Entry(max) /\ new.status = status /\ Attempted(new, table[e])
  BY <1>1, <1>2, <1>3, TriedRow
<1>5. /\ k.todo = j.todo \ {e} /\ k.entry = [j.entry EXCEPT ![e] = new]
      /\ k = [todo |-> k.todo, entry |-> k.entry]
  OBVIOUS
<1> HIDE DEF new
<1>6. k.entry[e] = new /\ \A d \in Events \ {e} : k.entry[d] = j.entry[d]
  BY <1>1, <1>2, <1>5
<1>7. k \in Job(max)
  BY <1>2, <1>4, <1>5 DEF Job
<1>8. new # NoEntry
  BY <1>4 DEF NoEntry
<1>9. BatchOf(k) = BatchOf(j)
  BY <1>1, <1>6, <1>8 DEF BatchOf
<1>10. Coherent(k, table, max)
  <2>1. k.todo \subseteq BatchOf(k)
    BY <1>5, <1>9 DEF Coherent
  <2>2. ASSUME NEW d \in BatchOf(k)
        PROVE  /\ d \in Due(table, max)
               /\ d \in k.todo => k.entry[d] = table[d]
               /\ d \notin k.todo => Attempted(k.entry[d], table[d])
    <3>1. CASE d = e
      BY <3>1, <1>1, <1>4, <1>5, <1>6
    <3>2. CASE d # e
      BY <3>2, <1>5, <1>6, <1>9 DEF Coherent, BatchOf
    <3> QED BY <3>1, <3>2
  <2> QED BY <2>1, <2>2 DEF Coherent
<1> QED BY <1>4, <1>6, <1>7, <1>9, <1>10

(* A poller without a transaction holds nothing.                           *)
LEMMA IdleJob ==
  ASSUME NEW max \in Nat, NEW table
  PROVE  /\ Idle \in Job(max)
         /\ BatchOf(Idle) = {}
         /\ Coherent(Idle, table, max)
         /\ \A e \in Events : Idle.entry[e].status = "NONE"
<1>1. NoEntry \in Entry(max) /\ NoEntry.status = "NONE"
  BY DEF NoEntry, Entry
<1>2. Idle.todo = {} /\ \A e \in Events : Idle.entry[e] = NoEntry
  BY DEF Idle
<1>3. Idle \in Job(max)
  BY <1>1 DEF Idle, Job
<1> QED BY <1>1, <1>2, <1>3 DEF BatchOf, Coherent

(* What a commit writes: the attempted rows of the batch, the others as    *)
(* they were.                                                              *)
LEMMA WrittenRows ==
  ASSUME NEW max \in Nat, NEW table \in [Events -> Entry(max)], NEW p,
         job[p] \in Job(max), Coherent(job[p], table, max), job[p].todo = {}
  PROVE  /\ Written(p, table) \in [Events -> Entry(max)]
         /\ \A e \in BatchOf(job[p]) :
              /\ Written(p, table)[e] = job[p].entry[e]
              /\ Attempted(job[p].entry[e], table[e])
              /\ e \in Due(table, max)
         /\ \A e \in Events \ BatchOf(job[p]) : Written(p, table)[e] = table[e]
<1>1. Batch(p) = BatchOf(job[p]) /\ BatchOf(job[p]) \subseteq Events
  BY DEF Batch, BatchOf
<1>2. job[p].entry \in [Events -> Entry(max)]
  BY DEF Job
<1> QED BY <1>1, <1>2 DEF Written, Coherent

(* An insertion adds a PENDING row or changes nothing.                     *)
LEMMA InsertedRow ==
  ASSUME NEW max \in Nat, NEW table \in [Events -> Entry(max)], NEW e \in Events
  PROVE  /\ InsertIfAbsent(table, e) \in [Events -> Entry(max)]
         /\ InsertIfAbsent(table, e)[e].status # "NONE"
         /\ e \in Rows(table) => InsertIfAbsent(table, e) = table
         /\ e \notin Rows(table) => InsertIfAbsent(table, e)[e].status = "PENDING"
         /\ e \notin Rows(table) => InsertIfAbsent(table, e)[e].attempts = 0
         /\ \A d \in Events \ {e} : InsertIfAbsent(table, e)[d] = table[d]
<1>1. Rows(table) \subseteq Events /\ IsFiniteSet(Events)
  BY SetsAssumption DEF Rows
<1>2. Cardinality(Rows(table)) \in Nat
  BY <1>1, FS_Subset, FS_CardinalityType
<1>3. NewEntry(table) \in Entry(max) /\ NewEntry(table).status = "PENDING"
      /\ NewEntry(table).attempts = 0
  BY <1>2 DEF NewEntry, Entry
<1> QED BY <1>3 DEF InsertIfAbsent, Rows

---------------------------------------------------------------------------
(* One service, its table and its pollers.                                 *)

(* A poller gets another job, and no row that another one locked changes.  *)
LEMMA ServiceStep ==
  ASSUME NEW pollers, NEW max \in Nat, NEW jobs, NEW table, NEW table2,
         Service(jobs, pollers, table, max), pollers \subseteq DOMAIN jobs,
         table2 \in [Events -> Entry(max)],
         NEW p \in pollers, NEW k \in Job(max), Coherent(k, table2, max),
         \A q \in pollers \ {p} :
           /\ BatchOf(k) \cap BatchOf(jobs[q]) = {}
           /\ \A e \in BatchOf(jobs[q]) : table2[e] = table[e]
  PROVE  Service([jobs EXCEPT ![p] = k], pollers, table2, max)
<1> DEFINE jobs2 == [jobs EXCEPT ![p] = k]
<1>1. jobs2[p] = k /\ \A q \in pollers \ {p} : jobs2[q] = jobs[q]
  OBVIOUS
<1> HIDE DEF jobs2
<1>2. ASSUME NEW q \in pollers
      PROVE  jobs2[q] \in Job(max) /\ Coherent(jobs2[q], table2, max)
  <2>1. CASE q = p
    BY <1>1, <2>1
  <2>2. CASE q # p
    BY <1>1, <2>2, CoherentStable DEF Service
  <2> QED BY <2>1, <2>2
<1>3. ASSUME NEW q \in pollers, NEW r \in pollers, q # r
      PROVE  BatchOf(jobs2[q]) \cap BatchOf(jobs2[r]) = {}
  BY <1>1, <1>3 DEF Service
<1>4. Service(jobs2, pollers, table2, max)
  BY <1>2, <1>3 DEF Service
<1> QED BY <1>4 DEF jobs2

(* The jobs of a service stay as they are, and so do the rows they locked. *)
LEMMA ServiceKept ==
  ASSUME NEW pollers, NEW max \in Nat, NEW jobs, NEW jobs2, NEW table, NEW table2,
         Service(jobs, pollers, table, max),
         table2 \in [Events -> Entry(max)],
         \A q \in pollers : /\ jobs2[q] = jobs[q]
                           /\ \A e \in BatchOf(jobs[q]) : table2[e] = table[e]
  PROVE  Service(jobs2, pollers, table2, max)
BY CoherentStable DEF Service

(* An insertion does not touch a locked row.                               *)
LEMMA InsertUnlocked ==
  ASSUME NEW pollers, NEW max \in Nat, NEW jobs, NEW table,
         Service(jobs, pollers, table, max), NEW d \in Events,
         NEW p \in pollers, NEW e \in BatchOf(jobs[p])
  PROVE  InsertIfAbsent(table, d)[e] = table[e]
<1>1. e \in Events /\ e \in Due(table, max)
  BY DEF Service, Coherent, BatchOf
<1>2. e \in Rows(table)
  BY <1>1 DEF Due, Rows
<1> QED BY <1>1, <1>2, InsertedRow DEF Service

Waited(table, d) == [table EXCEPT ![d].due = TRUE]

(* The end of a wait changes neither status nor attempts of a row.         *)
LEMMA WaitedRow ==
  ASSUME NEW max \in Nat, NEW table \in [Events -> Entry(max)], NEW d \in Events
  PROVE  /\ Waited(table, d) \in [Events -> Entry(max)]
         /\ \A e \in Events \ {d} : Waited(table, d)[e] = table[e]
         /\ \A e \in Events : /\ Waited(table, d)[e].status = table[e].status
                           /\ Waited(table, d)[e].attempts = table[e].attempts
<1> DEFINE table2 == Waited(table, d)
           row == [table[d] EXCEPT !.due = TRUE]
<1>1. table2 = [table EXCEPT ![d] = row]
  BY DEF Waited
<1>2. /\ row \in Entry(max)
      /\ row.status = table[d].status /\ row.attempts = table[d].attempts
  BY DEF Entry
<1> HIDE DEF table2, row
<1>3. table2 \in [Events -> Entry(max)]
  BY <1>1, <1>2
<1>4. table2[d] = row /\ \A e \in Events \ {d} : table2[e] = table[e]
  BY <1>1
<1> QED BY <1>2, <1>3, <1>4 DEF table2

(* A waiting row is not locked.                                            *)
LEMMA WaitUnlocked ==
  ASSUME NEW pollers, NEW max \in Nat, NEW jobs, NEW table,
         Service(jobs, pollers, table, max), NEW d \in Events, d \notin Due(table, max),
         NEW p \in pollers, NEW e \in BatchOf(jobs[p])
  PROVE  Waited(table, d)[e] = table[e]
<1>1. e \in Events /\ e # d /\ table \in [Events -> Entry(max)]
  BY DEF Service, Coherent, BatchOf
<1> QED BY <1>1, WaitedRow

(* A job that one attempt at e makes of another. *)
HandledAs(j, e, status) ==
  [todo |-> j.todo \ {e}, entry |-> [j.entry EXCEPT ![e] = Tried(j.entry[e], status)]]

(* One attempt, seen from the service of the poller.                       *)
LEMMA ServiceHandle ==
  ASSUME NEW pollers, NEW max \in Nat, NEW jobs, NEW table,
         Service(jobs, pollers, table, max), pollers \subseteq DOMAIN jobs,
         NEW p \in pollers, NEW e \in jobs[p].todo, NEW status \in {"FAILED", "SENT"}
  PROVE  /\ Service([jobs EXCEPT ![p] = HandledAs(jobs[p], e, status)], pollers, table, max)
         /\ e \in Due(table, max) /\ e \in BatchOf(jobs[p]) /\ jobs[p].entry[e] = table[e]
<1> DEFINE k == HandledAs(jobs[p], e, status)
<1>1. jobs[p] \in Job(max) /\ Coherent(jobs[p], table, max) /\ table \in [Events -> Entry(max)]
  BY DEF Service
<1>2. k = [todo |-> jobs[p].todo \ {e},
           entry |-> [jobs[p].entry EXCEPT ![e] = Tried(jobs[p].entry[e], status)]]
  BY DEF HandledAs
<1> HIDE DEF k
<1>3. k \in Job(max) /\ BatchOf(k) = BatchOf(jobs[p]) /\ Coherent(k, table, max)
  BY <1>1, <1>2, HandledJob
<1>4. \A q \in pollers \ {p} : BatchOf(k) \cap BatchOf(jobs[q]) = {}
  BY <1>3 DEF Service
<1>5. Service([jobs EXCEPT ![p] = k], pollers, table, max)
  BY <1>1, <1>3, <1>4, ServiceStep
<1>6. e \in Due(table, max) /\ e \in BatchOf(jobs[p]) /\ jobs[p].entry[e] = table[e]
  BY <1>1 DEF Coherent
<1> QED BY <1>5, <1>6 DEF k

(* A transaction ends, by its commit or by its rollback.                   *)
LEMMA ServiceEnd ==
  ASSUME NEW pollers, NEW max \in Nat, NEW jobs, NEW table, NEW table2,
         Service(jobs, pollers, table, max), pollers \subseteq DOMAIN jobs,
         table2 \in [Events -> Entry(max)], NEW p \in pollers,
         \A e \in Events \ BatchOf(jobs[p]) : table2[e] = table[e]
  PROVE  Service([jobs EXCEPT ![p] = Idle], pollers, table2, max)
<1>1. /\ Idle \in Job(max) /\ BatchOf(Idle) = {} /\ Coherent(Idle, table2, max)
  BY IdleJob
<1>2. \A q \in pollers \ {p} : \A e \in BatchOf(jobs[q]) : table2[e] = table[e]
  BY DEF Service, BatchOf
<1> QED BY <1>1, <1>2, ServiceStep

---------------------------------------------------------------------------
(* The locking discipline of the two services.                             *)

LEMMA Limits ==
  /\ MaxForward \in Nat /\ MaxDeliver \in Nat /\ MaxRollbacks \in Nat
  /\ Forwarders \subseteq Pollers /\ Deliverers \subseteq Pollers
  /\ Forwarders \cap Deliverers = {}
BY LimitsAssumption, SetsAssumption DEF Pollers

(* ServiceKept for the two services. *)
LEMMA OutboxKept ==
  ASSUME LockInv, outbox' \in [Events -> Entry(MaxForward)],
         \A f \in Forwarders :
           job'[f] = job[f] /\ \A e \in BatchOf(job[f]) : outbox'[e] = outbox[e]
  PROVE  Service(job', Forwarders, outbox', MaxForward)
<1>1. Service(job, Forwarders, outbox, MaxForward) /\ MaxForward \in Nat
  BY Limits DEF LockInv
<1> DEFINE jobs2 == job'
           table2 == outbox'
<1>2. /\ table2 \in [Events -> Entry(MaxForward)]
      /\ \A q \in Forwarders : /\ jobs2[q] = job[q]
                              /\ \A e \in BatchOf(job[q]) : table2[e] = outbox[e]
  OBVIOUS
<1> HIDE DEF jobs2, table2
<1>3. Service(jobs2, Forwarders, table2, MaxForward)
  BY <1>1, <1>2, ServiceKept
<1> QED BY <1>3 DEF jobs2, table2

LEMMA DeliveryKept ==
  ASSUME LockInv, delivery' \in [Events -> Entry(MaxDeliver)],
         \A d \in Deliverers :
           job'[d] = job[d] /\ \A e \in BatchOf(job[d]) : delivery'[e] = delivery[e]
  PROVE  Service(job', Deliverers, delivery', MaxDeliver)
<1>1. Service(job, Deliverers, delivery, MaxDeliver) /\ MaxDeliver \in Nat
  BY Limits DEF LockInv
<1> DEFINE jobs2 == job'
           table2 == delivery'
<1>2. /\ table2 \in [Events -> Entry(MaxDeliver)]
      /\ \A q \in Deliverers : /\ jobs2[q] = job[q]
                              /\ \A e \in BatchOf(job[q]) : table2[e] = delivery[e]
  OBVIOUS
<1> HIDE DEF jobs2, table2
<1>3. Service(jobs2, Deliverers, table2, MaxDeliver)
  BY <1>1, <1>2, ServiceKept
<1> QED BY <1>3 DEF jobs2, table2

LEMMA LockTypes == LockInv => TypeOK
BY DEF LockInv, Service, TypeOK

LEMMA LockInit == Init => LockInv
<1> SUFFICES ASSUME Init PROVE LockInv
  OBVIOUS
<1>1. NoEntry \in Entry(MaxForward) /\ NoEntry \in Entry(MaxDeliver)
  BY Limits DEF NoEntry, Entry
<1>2. \A p \in Pollers : job[p] = Idle
  BY DEF Init
<1>3. /\ outbox \in [Events -> Entry(MaxForward)]
      /\ delivery \in [Events -> Entry(MaxDeliver)]
  BY <1>1 DEF Init
<1>4. Service(job, Forwarders, outbox, MaxForward)
  BY <1>2, <1>3, Limits, IdleJob DEF Service
<1>5. Service(job, Deliverers, delivery, MaxDeliver)
  BY <1>2, <1>3, Limits, IdleJob DEF Service
<1> QED BY <1>4, <1>5, Limits DEF Init, LockInv

(* A call to notification-service does not touch a locked row.             *)
LEMMA UnlockedByCall ==
  ASSUME LockInv, \/ delivery' = delivery
                  \/ \E e \in Events : delivery' = InsertIfAbsent(delivery, e)
  PROVE  \A d \in Deliverers : \A x \in BatchOf(job[d]) : delivery'[x] = delivery[x]
<1>1. Service(job, Deliverers, delivery, MaxDeliver) /\ MaxDeliver \in Nat
  BY Limits DEF LockInv
<1>2. \A e \in Events : \A d \in Deliverers : \A x \in BatchOf(job[d]) :
        InsertIfAbsent(delivery, e)[x] = delivery[x]
  BY <1>1, InsertUnlocked
<1> QED BY <1>2

(* The job of a poller changes, and the other service's table at most by   *)
(* an insertion.                                                           *)
LEMMA LockForwarder ==
  ASSUME LockInv, NEW f \in Forwarders, NEW k,
         job' = [job EXCEPT ![f] = k],
         Service([job EXCEPT ![f] = k], Forwarders, outbox', MaxForward),
         \/ delivery' = delivery
         \/ \E e \in Events : delivery' = InsertIfAbsent(delivery, e),
         late' \subseteq Events, UNCHANGED <<mails, rollbacks>>
  PROVE  LockInv'
<1>1. delivery' \in [Events -> Entry(MaxDeliver)]
  BY Limits, InsertedRow DEF LockInv, Service
<1>2. \A d \in Deliverers : \A e \in BatchOf(job[d]) : delivery'[e] = delivery[e]
  BY UnlockedByCall
<1>3. \A d \in Deliverers : job'[d] = job[d]
  BY Limits DEF LockInv
<1>4. Service(job', Deliverers, delivery', MaxDeliver)
  BY <1>1, <1>2, <1>3, DeliveryKept
<1> QED BY <1>4 DEF LockInv

LEMMA LockDeliverer ==
  ASSUME LockInv, NEW d \in Deliverers, NEW k,
         job' = [job EXCEPT ![d] = k],
         Service([job EXCEPT ![d] = k], Deliverers, delivery', MaxDeliver),
         UNCHANGED <<outbox, late>>,
         mails' \in [Events -> 0 .. MaxRollbacks + 1], rollbacks' \in 0 .. MaxRollbacks
  PROVE  LockInv'
<1>1. \A f \in Forwarders : job'[f] = job[f]
  BY Limits DEF LockInv
<1>2. Service(job', Forwarders, outbox', MaxForward)
  BY <1>1, OutboxKept DEF LockInv, Service
<1> QED BY <1>2 DEF LockInv

(* A poll that is rolled back leaves the locks of the others as they were. *)
LEMMA LockRollBack ==
  ASSUME LockInv, NEW p \in Pollers, RollBack(p), UNCHANGED <<outbox, delivery, mails, late>>
  PROVE  LockInv'
<1>1. rollbacks' \in 0 .. MaxRollbacks
  BY Limits DEF LockInv, RollBack, Counted
<1>2. job' = [job EXCEPT ![p] = Idle]
  BY DEF RollBack
<1>3. CASE p \in Forwarders
  <2>1. Service(job', Forwarders, outbox, MaxForward)
    <3>1. /\ Service(job, Forwarders, outbox, MaxForward) /\ Forwarders \subseteq DOMAIN job
          /\ outbox \in [Events -> Entry(MaxForward)]
      BY Limits DEF LockInv, Service
    <3> QED BY <1>2, <1>3, <3>1, Limits, ServiceEnd
  <2>2. \A d \in Deliverers : job'[d] = job[d]
    BY <1>2, <1>3, Limits DEF LockInv
  <2>3. Service(job', Deliverers, delivery, MaxDeliver)
    BY <2>2, DeliveryKept DEF LockInv, Service
  <2> QED BY <1>1, <1>2, <2>1, <2>3 DEF LockInv
<1>4. CASE p \in Deliverers
  <2>1. Service(job', Deliverers, delivery, MaxDeliver)
    <3>1. /\ Service(job, Deliverers, delivery, MaxDeliver) /\ Deliverers \subseteq DOMAIN job
          /\ delivery \in [Events -> Entry(MaxDeliver)]
      BY Limits DEF LockInv, Service
    <3> QED BY <1>2, <1>4, <3>1, Limits, ServiceEnd
  <2>2. UNCHANGED <<mails, late>>
    OBVIOUS
  <2> QED BY <1>1, <1>2, <1>4, <2>1, <2>2, LockDeliverer DEF LockInv
<1> QED BY <1>3, <1>4 DEF Pollers

(* A page of due rows that nobody locked becomes a batch.                  *)
LEMMA ServiceTake ==
  ASSUME NEW pollers, NEW max \in Nat, NEW table,
         Service(job, pollers, table, max), pollers \subseteq DOMAIN job,
         NEW p \in pollers, NEW batch \in SUBSET Events, batch \subseteq Due(table, max),
         \A e \in batch : ~Locked(pollers, e),
         Take(p, batch, table)
  PROVE  \E k : /\ job' = [job EXCEPT ![p] = k]
                /\ Service([job EXCEPT ![p] = k], pollers, table, max)
                /\ \A e \in Events : k.entry[e].status # "SENT"
<1> DEFINE k == [todo |-> batch,
                 entry |-> [e \in Events |-> IF e \in batch THEN table[e] ELSE NoEntry]]
<1>1. job' = [job EXCEPT ![p] = k]
  BY DEF Take
<1>2. /\ k \in Job(max) /\ BatchOf(k) = batch /\ Coherent(k, table, max)
      /\ \A e \in Events : k.entry[e].status # "SENT"
  BY TakenJob DEF Service
<1> HIDE DEF k
<1>3. \A q \in pollers : batch \cap BatchOf(job[q]) = {}
  BY DEF Locked, Batch, BatchOf
<1>4. Service([job EXCEPT ![p] = k], pollers, table, max)
  BY <1>2, <1>3, ServiceStep DEF Service
<1> QED BY <1>1, <1>2, <1>4

(* Every step of the system keeps the locking discipline.                  *)
LEMMA LockStep == LockInv /\ [Next]_vars => LockInv'
<1> SUFFICES ASSUME LockInv, [Next]_vars PROVE LockInv'
  OBVIOUS
<1>0. /\ Service(job, Forwarders, outbox, MaxForward)
      /\ Service(job, Deliverers, delivery, MaxDeliver)
      /\ Forwarders \subseteq DOMAIN job /\ Deliverers \subseteq DOMAIN job
      /\ outbox \in [Events -> Entry(MaxForward)]
      /\ delivery \in [Events -> Entry(MaxDeliver)]
  BY Limits DEF LockInv, Service
<1>1. ASSUME NEW e \in Events, Enqueue(e) PROVE LockInv'
  <2>1. outbox' \in [Events -> Entry(MaxForward)]
    BY <1>0, <1>1, Limits, InsertedRow DEF Enqueue
  <2>2. \A f \in Forwarders : \A x \in BatchOf(job[f]) : outbox'[x] = outbox[x]
    BY <1>0, <1>1, Limits, InsertUnlocked DEF Enqueue
  <2>3. Service(job', Forwarders, outbox', MaxForward)
    BY <1>1, <2>1, <2>2, OutboxKept DEF Enqueue
  <2> QED BY <1>0, <1>1, <2>3 DEF LockInv, Enqueue
<1>2. ASSUME NEW e \in Events, OutboxWait(e) PROVE LockInv'
  <2>1. /\ outbox' \in [Events -> Entry(MaxForward)]
        /\ \A f \in Forwarders : \A x \in BatchOf(job[f]) : outbox'[x] = outbox[x]
    <3>1. e \notin Due(outbox, MaxForward) /\ outbox' = Waited(outbox, e)
      BY <1>2 DEF OutboxWait, Waited, Due
    <3>2. Service(job, Forwarders, outbox, MaxForward) /\ MaxForward \in Nat
      BY <1>0, Limits
    <3>3. Waited(outbox, e) \in [Events -> Entry(MaxForward)]
      BY <1>0, <3>2, WaitedRow
    <3>4. ASSUME NEW f \in Forwarders, NEW x \in BatchOf(job[f])
          PROVE  Waited(outbox, e)[x] = outbox[x]
      <4>1. e \notin Due(outbox, MaxForward)
        BY <3>1
      <4> QED BY <3>2, <4>1, WaitUnlocked
    <3> QED BY <3>1, <3>3, <3>4
  <2>2. Service(job', Forwarders, outbox', MaxForward)
    BY <1>2, <2>1, OutboxKept DEF OutboxWait
  <2> QED BY <1>0, <1>2, <2>2 DEF LockInv, OutboxWait
<1>3. ASSUME NEW e \in Events, DeliveryWait(e) PROVE LockInv'
  <2>1. /\ delivery' \in [Events -> Entry(MaxDeliver)]
        /\ \A d \in Deliverers : \A x \in BatchOf(job[d]) : delivery'[x] = delivery[x]
    <3>1. e \notin Due(delivery, MaxDeliver) /\ delivery' = Waited(delivery, e)
      BY <1>3 DEF DeliveryWait, Waited, Due
    <3>2. Service(job, Deliverers, delivery, MaxDeliver) /\ MaxDeliver \in Nat
      BY <1>0, Limits
    <3>3. Waited(delivery, e) \in [Events -> Entry(MaxDeliver)]
      BY <1>0, <3>2, WaitedRow
    <3>4. ASSUME NEW d \in Deliverers, NEW x \in BatchOf(job[d])
          PROVE  Waited(delivery, e)[x] = delivery[x]
      <4>1. e \notin Due(delivery, MaxDeliver)
        BY <3>1
      <4> QED BY <3>2, <4>1, WaitUnlocked
    <3> QED BY <3>1, <3>3, <3>4
  <2>2. Service(job', Deliverers, delivery', MaxDeliver)
    BY <1>3, <2>1, DeliveryKept DEF DeliveryWait
  <2> QED BY <1>0, <1>3, <2>2 DEF LockInv, DeliveryWait
<1>4. ASSUME NEW f \in Forwarders, LockDue(f) PROVE LockInv'
  <2>1. PICK batch \in SUBSET Events :
          /\ IsPage(batch, {e \in Due(outbox, MaxForward) : ~Locked(Forwarders, e)}, outbox)
          /\ Take(f, batch, outbox)
    BY <1>4 DEF LockDue
  <2>2. batch \subseteq Due(outbox, MaxForward) /\ \A e \in batch : ~Locked(Forwarders, e)
    BY <2>1 DEF IsPage
  <2>3. UNCHANGED <<outbox, delivery, mails, rollbacks, late>>
    BY <1>4 DEF LockDue
  <2>4. PICK k : /\ job' = [job EXCEPT ![f] = k]
                 /\ Service([job EXCEPT ![f] = k], Forwarders, outbox, MaxForward)
    BY <1>0, <2>1, <2>2, Limits, ServiceTake
  <2> QED BY <2>3, <2>4, LockForwarder DEF LockInv
<1>5. ASSUME NEW f \in Forwarders, NEW e \in Events,
             ForwardAccepted(f, e) \/ ForwardLost(f, e) \/ ForwardFailed(f, e)
      PROVE  LockInv'
  <2>1. PICK status \in {"FAILED", "SENT"} : Handle(f, e, status)
    BY <1>5 DEF ForwardAccepted, ForwardLost, ForwardFailed
  <2>2. job' = [job EXCEPT ![f] = HandledAs(job[f], e, status)]
    BY <2>1 DEF Handle, HandledAs
  <2>3. /\ e \in job[f].todo
        /\ UNCHANGED <<outbox, mails, rollbacks>>
        /\ delivery' = delivery \/ delivery' = InsertIfAbsent(delivery, e)
        /\ late' \subseteq Events
    BY <1>5 DEF ForwardAccepted, ForwardLost, ForwardFailed, IsNext, LockInv
  <2>4. Service([job EXCEPT ![f] = HandledAs(job[f], e, status)],
                Forwarders, outbox, MaxForward)
    BY <1>0, <2>3, Limits, ServiceHandle
  <2> QED BY <2>2, <2>3, <2>4, LockForwarder DEF LockInv
<1>6. ASSUME NEW f \in Forwarders, ForwardCommit(f) PROVE LockInv'
  <2>1. /\ job' = [job EXCEPT ![f] = Idle] /\ outbox' = Written(f, outbox)
        /\ job[f].todo = {} /\ UNCHANGED <<delivery, mails, rollbacks, late>>
    BY <1>6 DEF ForwardCommit
  <2>2. /\ outbox' \in [Events -> Entry(MaxForward)]
        /\ \A e \in Events \ BatchOf(job[f]) : outbox'[e] = outbox[e]
    BY <1>0, <2>1, Limits, WrittenRows DEF Service
  <2>3. Service([job EXCEPT ![f] = Idle], Forwarders, outbox', MaxForward)
    BY <1>0, <2>2, Limits, ServiceEnd
  <2> QED BY <2>1, <2>3, LockForwarder DEF LockInv
<1>7. ASSUME NEW d \in Deliverers, LockNext(d) PROVE LockInv'
  <2>1. PICK batch \in SUBSET Events :
          /\ IsPage(batch, Due(delivery, MaxDeliver), delivery)
          /\ \A e \in batch : ~Locked(Deliverers, e)
          /\ Take(d, batch, delivery)
    BY <1>7 DEF LockNext
  <2>2. batch \subseteq Due(delivery, MaxDeliver)
    BY <2>1 DEF IsPage
  <2>3. UNCHANGED <<outbox, delivery, mails, rollbacks, late>>
    BY <1>7 DEF LockNext
  <2>4. PICK k : /\ job' = [job EXCEPT ![d] = k]
                 /\ Service([job EXCEPT ![d] = k], Deliverers, delivery, MaxDeliver)
    BY <1>0, <2>1, <2>2, Limits, ServiceTake
  <2> QED BY <2>3, <2>4, LockDeliverer DEF LockInv
<1>8. ASSUME NEW d \in Deliverers, NEW e \in Events,
             DeliverSent(d, e) \/ DeliverFailed(d, e)
      PROVE  LockInv'
  <2>1. PICK status \in {"FAILED", "SENT"} : Handle(d, e, status)
    BY <1>8 DEF DeliverSent, DeliverFailed
  <2>2. job' = [job EXCEPT ![d] = HandledAs(job[d], e, status)]
    BY <2>1 DEF Handle, HandledAs
  <2>3. e \in job[d].todo /\ UNCHANGED <<outbox, delivery, rollbacks, late>>
    BY <1>8 DEF DeliverSent, DeliverFailed, IsNext
  <2>4. mails' \in [Events -> 0 .. MaxRollbacks + 1]
    BY <1>8, Limits DEF DeliverSent, DeliverFailed, LockInv, Counted
  <2>5. Service([job EXCEPT ![d] = HandledAs(job[d], e, status)],
                Deliverers, delivery, MaxDeliver)
    BY <1>0, <2>3, Limits, ServiceHandle
  <2> QED BY <2>2, <2>3, <2>4, <2>5, LockDeliverer DEF LockInv
<1>9. ASSUME NEW d \in Deliverers, NEW e \in Events, DeliverRefused(d, e) PROVE LockInv'
  BY <1>9, Limits, LockRollBack DEF DeliverRefused
<1>10. ASSUME NEW d \in Deliverers, DeliverCommit(d) PROVE LockInv'
  <2>1. /\ job' = [job EXCEPT ![d] = Idle] /\ delivery' = Written(d, delivery)
        /\ job[d].todo = {} /\ UNCHANGED <<outbox, mails, rollbacks, late>>
    BY <1>10 DEF DeliverCommit
  <2>2. /\ delivery' \in [Events -> Entry(MaxDeliver)]
        /\ \A e \in Events \ BatchOf(job[d]) : delivery'[e] = delivery[e]
    BY <1>0, <2>1, Limits, WrittenRows DEF Service
  <2>3. Service([job EXCEPT ![d] = Idle], Deliverers, delivery', MaxDeliver)
    BY <1>0, <2>2, Limits, ServiceEnd
  <2> QED BY <2>1, <2>3, LockDeliverer DEF LockInv
<1>11. ASSUME NEW p \in Pollers, Crash(p) PROVE LockInv'
  BY <1>11, LockRollBack DEF Crash
<1>12. ASSUME NEW e \in Events, LateEnds(e) PROVE LockInv'
  <2>1. /\ delivery' = delivery \/ delivery' = InsertIfAbsent(delivery, e)
        /\ late' \subseteq Events /\ UNCHANGED <<outbox, job, mails, rollbacks>>
    BY <1>12 DEF LateEnds, LateInsert, LateDropped, LockInv
  <2>2. delivery' \in [Events -> Entry(MaxDeliver)]
    BY <1>0, <2>1, Limits, InsertedRow
  <2>3. \A d \in Deliverers : \A x \in BatchOf(job[d]) : delivery'[x] = delivery[x]
    BY <2>1, UnlockedByCall
  <2>4. Service(job', Deliverers, delivery', MaxDeliver)
    BY <2>1, <2>2, <2>3, DeliveryKept
  <2> QED BY <1>0, <2>1, <2>4 DEF LockInv
<1>13. CASE UNCHANGED vars
  BY <1>13 DEF vars, LockInv
<1> QED
  BY <1>1, <1>2, <1>3, <1>4, <1>5, <1>6, <1>7, <1>8, <1>9, <1>10, <1>11, <1>12, <1>13
     DEF Next, Forward, Deliver

(* Whatever batches, retries and crashes, the two tables hold proper rows, *)
(* no attempt exceeds its limit and every transaction holds proper copies  *)
(* (entities OperationalNotificationOutbox and NotificationDelivery).      *)
THEOREM NotificationTypes == Spec => []TypeOK
<1>1. Spec => []LockInv
  BY LockInit, LockStep, PTL DEF Spec
<1> QED BY <1>1, LockTypes, PTL

---------------------------------------------------------------------------
(* The way of an alert through the two services.                           *)

(* A delivery row has its outbox row. *)
OnlyRaised ==
  \A e \in Events : delivery[e].status # "NONE" => outbox[e].status # "NONE"

(* A call that runs on was made for an outbox row. *)
LateRaised == \A e \in late : outbox[e].status # "NONE"

(* What a poller is about to record as SENT has left. *)
Forwarded ==
  \A f \in Forwarders, e \in Events :
    job[f].entry[e].status = "SENT" => delivery[e].status # "NONE"

Mailed ==
  \A d \in Deliverers, e \in Events : job[d].entry[e].status = "SENT" => mails[e] > 0

(* The mail of e is recorded, in the table or in an open transaction. *)
Recorded(e) ==
  \/ delivery[e].status = "SENT"
  \/ \E d \in Deliverers : job[d].entry[e].status = "SENT"

(* One mail per rolled back poll, and one more once it is recorded; the    *)
(* last rollback that is counted uses up the difference.                   *)
MailsCounted ==
  \A e \in Events : /\ mails[e] <= 1 + rollbacks
                    /\ rollbacks < MaxRollbacks /\ ~Recorded(e) => mails[e] <= rollbacks

FlowInv ==
  /\ OnlyRaised /\ LateRaised /\ NothingLost /\ Forwarded
  /\ SentWasMailed /\ Mailed /\ MailsCounted

LEMMA FlowInit == Init => FlowInv
<1> SUFFICES ASSUME Init PROVE FlowInv
  OBVIOUS
<1>1. \A e \in Events : /\ outbox[e].status = "NONE" /\ delivery[e].status = "NONE"
                        /\ mails[e] = 0
  BY DEF Init, NoEntry
<1>2. \A p \in Pollers : \A e \in Events : job[p].entry[e].status = "NONE"
  BY Limits, IdleJob DEF Init
<1> QED BY <1>1, <1>2, Limits
     DEF Init, FlowInv, OnlyRaised, LateRaised, NothingLost, Forwarded, SentWasMailed, Mailed,
         MailsCounted, Recorded

(* A step changes the job of one poller only, and one row of it.           *)
LEMMA HandledStatus ==
  ASSUME LockInv, NEW p \in Pollers, NEW e \in Events, e \in job[p].todo,
         NEW status \in {"FAILED", "SENT"}, Handle(p, e, status)
  PROVE  /\ job'[p].entry[e].status = status
         /\ \A d \in Events \ {e} : job'[p].entry[d] = job[p].entry[d]
         /\ \A q \in Pollers \ {p} : job'[q] = job[q]
<1>0. PICK max \in Nat :
        \E table \in [Events -> Entry(max)] :
          job[p] \in Job(max) /\ Coherent(job[p], table, max)
  BY Limits DEF LockInv, Service, Pollers
<1>1. PICK table \in [Events -> Entry(max)] :
        job[p] \in Job(max) /\ Coherent(job[p], table, max)
  BY <1>0
<1> DEFINE k == HandledAs(job[p], e, status)
<1>2. job'[p] = k /\ \A q \in Pollers \ {p} : job'[q] = job[q]
  BY DEF LockInv, Handle, HandledAs
<1>3. k = [todo |-> job[p].todo \ {e},
           entry |-> [job[p].entry EXCEPT ![e] = Tried(job[p].entry[e], status)]]
  BY DEF HandledAs
<1> HIDE DEF k
<1>4. k.entry[e].status = status /\ \A d \in Events \ {e} : k.entry[d] = job[p].entry[d]
  BY <1>1, <1>3, HandledJob
<1> QED BY <1>2, <1>4

(* A rollback or a commit forgets the job of one poller only.              *)
LEMMA EndedStatus ==
  ASSUME LockInv, NEW p \in Pollers, job' = [job EXCEPT ![p] = Idle]
  PROVE  /\ \A e \in Events : job'[p].entry[e].status = "NONE"
         /\ \A q \in Pollers \ {p} : job'[q] = job[q]
<1>1. job'[p] = Idle /\ \A q \in Pollers \ {p} : job'[q] = job[q]
  BY DEF LockInv
<1> QED BY <1>1, Limits, IdleJob

(* A row that a poller has still to handle is recorded by nobody.          *)
LEMMA TodoUnrecorded ==
  ASSUME LockInv, NEW d \in Deliverers, NEW e \in Events, e \in job[d].todo
  PROVE  ~Recorded(e) /\ e \in Due(delivery, MaxDeliver)
<1>1. /\ e \in BatchOf(job[d]) /\ e \in Due(delivery, MaxDeliver)
      /\ job[d].entry[e] = delivery[e]
  BY DEF LockInv, Service, Coherent
<1>2. delivery[e].status # "SENT"
  BY <1>1 DEF Due
<1>3. \A q \in Deliverers \ {d} : e \notin BatchOf(job[q])
  BY <1>1 DEF LockInv, Service
<1>4. \A q \in Deliverers \ {d} : job[q].entry[e] = NoEntry
  BY <1>3 DEF BatchOf
<1>5. NoEntry.status # "SENT"
  BY DEF NoEntry
<1> QED BY <1>1, <1>2, <1>4, <1>5 DEF Recorded

(* A poll that is rolled back forgets what it was about to record, and is  *)
(* counted for the mails it has sent.                                      *)
LEMMA FlowRollBack ==
  ASSUME LockInv, FlowInv, NEW p \in Pollers, RollBack(p),
         UNCHANGED <<outbox, delivery, mails, late>>
  PROVE  FlowInv'
<1>1. /\ \A e \in Events : job'[p].entry[e].status = "NONE"
      /\ \A q \in Pollers \ {p} : job'[q] = job[q]
  BY EndedStatus DEF RollBack
<1>2. /\ rollbacks \in 0 .. MaxRollbacks /\ MaxRollbacks \in Nat
      /\ rollbacks' = IF rollbacks < MaxRollbacks THEN rollbacks + 1 ELSE rollbacks
      /\ \A e \in Events : mails[e] \in Nat
  BY Limits DEF LockInv, RollBack, Counted
<1>3. OnlyRaised' /\ LateRaised' /\ NothingLost' /\ SentWasMailed'
  BY DEF FlowInv, OnlyRaised, LateRaised, NothingLost, SentWasMailed
<1>4. Forwarded' /\ Mailed'
  BY <1>1, Limits DEF FlowInv, Forwarded, Mailed
<1>5. MailsCounted'
  BY <1>2 DEF FlowInv, MailsCounted
<1> QED BY <1>3, <1>4, <1>5 DEF FlowInv

(* A poller that takes a batch has recorded nothing yet.                   *)
LEMMA FlowTake ==
  ASSUME LockInv, FlowInv, NEW p \in Pollers,
         \A e \in Events : job'[p].entry[e].status # "SENT",
         \A q \in Pollers \ {p} : job'[q] = job[q],
         \A e \in Events : job[p].entry[e].status # "SENT",
         UNCHANGED <<outbox, delivery, mails, rollbacks, late>>
  PROVE  FlowInv'
<1>1. OnlyRaised' /\ LateRaised' /\ NothingLost' /\ SentWasMailed'
  BY DEF FlowInv, OnlyRaised, LateRaised, NothingLost, SentWasMailed
<1>2. Forwarded' /\ Mailed'
  BY Limits DEF FlowInv, Forwarded, Mailed
<1>3. \A e \in Events : Recorded(e)' <=> Recorded(e)
  BY Limits DEF Recorded
<1>4. MailsCounted'
  BY <1>3 DEF FlowInv, MailsCounted
<1> QED BY <1>1, <1>2, <1>4 DEF FlowInv

(* What the other service's table is after a call that may insert e.       *)
LEMMA InsertedStatus ==
  ASSUME LockInv, NEW e \in Events, delivery' = InsertIfAbsent(delivery, e)
  PROVE  /\ delivery'[e].status # "NONE"
         /\ \A d \in Events \ {e} : delivery'[d] = delivery[d]
         /\ delivery[e].status # "NONE" => delivery'[e] = delivery[e]
         /\ delivery[e].status = "NONE" => /\ delivery'[e].status = "PENDING"
                                          /\ delivery'[e].attempts = 0
<1>1. delivery \in [Events -> Entry(MaxDeliver)] /\ MaxDeliver \in Nat
  BY Limits DEF LockInv, Service
<1>2. e \in Rows(delivery) <=> delivery[e].status # "NONE"
  BY DEF Rows
<1>3. e \in Rows(delivery) => delivery' = delivery
  BY <1>1, InsertedRow
<1>4. /\ delivery'[e].status # "NONE"
      /\ \A d \in Events \ {e} : delivery'[d] = delivery[d]
  BY <1>1, InsertedRow
<1>5. e \notin Rows(delivery) => delivery'[e].status = "PENDING" /\ delivery'[e].attempts = 0
  BY <1>1, InsertedRow
<1> QED BY <1>2, <1>3, <1>4, <1>5

LEMMA EnqueuedStatus ==
  ASSUME LockInv, NEW e \in Events, outbox' = InsertIfAbsent(outbox, e)
  PROVE  /\ outbox'[e].status # "NONE"
         /\ \A d \in Events \ {e} : outbox'[d] = outbox[d]
         /\ outbox[e].status # "NONE" => outbox' = outbox
         /\ outbox[e].status = "NONE" => outbox'[e].status = "PENDING"
<1>1. outbox \in [Events -> Entry(MaxForward)] /\ MaxForward \in Nat
  BY Limits DEF LockInv, Service
<1>2. e \in Rows(outbox) <=> outbox[e].status # "NONE"
  BY DEF Rows
<1>3. e \in Rows(outbox) => outbox' = outbox
  BY <1>1, InsertedRow
<1>4. /\ outbox'[e].status # "NONE"
      /\ \A d \in Events \ {e} : outbox'[d] = outbox[d]
  BY <1>1, InsertedRow
<1>5. e \notin Rows(outbox) => outbox'[e].status = "PENDING"
  BY <1>1, InsertedRow
<1> QED BY <1>2, <1>3, <1>4, <1>5

(* What the commits write.                                                 *)
LEMMA OutboxWritten ==
  ASSUME LockInv, NEW f \in Forwarders, job[f].todo = {}, outbox' = Written(f, outbox)
  PROVE  \A e \in Events :
           \/ outbox'[e] = outbox[e]
           \/ /\ e \in Due(outbox, MaxForward)
              /\ outbox'[e] = job[f].entry[e]
              /\ outbox'[e].status \in {"FAILED", "SENT"}
<1>1. /\ outbox \in [Events -> Entry(MaxForward)] /\ MaxForward \in Nat
      /\ job[f] \in Job(MaxForward) /\ Coherent(job[f], outbox, MaxForward)
  BY Limits DEF LockInv, Service
<1>2. /\ \A e \in BatchOf(job[f]) : /\ outbox'[e] = job[f].entry[e]
                                    /\ Attempted(job[f].entry[e], outbox[e])
                                    /\ e \in Due(outbox, MaxForward)
      /\ \A e \in Events \ BatchOf(job[f]) : outbox'[e] = outbox[e]
  BY <1>1, WrittenRows
<1> QED BY <1>2 DEF Attempted

LEMMA DeliveryWritten ==
  ASSUME LockInv, NEW d \in Deliverers, job[d].todo = {}, delivery' = Written(d, delivery)
  PROVE  \A e \in Events :
           \/ e \notin BatchOf(job[d]) /\ delivery'[e] = delivery[e]
           \/ /\ e \in Due(delivery, MaxDeliver)
              /\ delivery'[e] = job[d].entry[e]
              /\ delivery'[e].status \in {"FAILED", "SENT"}
<1>1. /\ delivery \in [Events -> Entry(MaxDeliver)] /\ MaxDeliver \in Nat
      /\ job[d] \in Job(MaxDeliver) /\ Coherent(job[d], delivery, MaxDeliver)
  BY Limits DEF LockInv, Service
<1>2. /\ \A e \in BatchOf(job[d]) : /\ delivery'[e] = job[d].entry[e]
                                    /\ Attempted(job[d].entry[e], delivery[e])
                                    /\ e \in Due(delivery, MaxDeliver)
      /\ \A e \in Events \ BatchOf(job[d]) : delivery'[e] = delivery[e]
  BY <1>1, WrittenRows
<1> QED BY <1>2 DEF Attempted

(* A poller without a transaction records nothing.                         *)
LEMMA IdleStatus ==
  ASSUME NEW p \in Pollers, job[p] = Idle
  PROVE  \A e \in Events : job[p].entry[e].status # "SENT"
BY Limits, IdleJob

(* Every step keeps the alerts on their way.                               *)
LEMMA FlowStep == LockInv /\ FlowInv /\ [Next]_vars => FlowInv'
<1> SUFFICES ASSUME LockInv, FlowInv, [Next]_vars PROVE FlowInv'
  OBVIOUS
<1>0. /\ OnlyRaised /\ LateRaised /\ NothingLost /\ Forwarded
      /\ SentWasMailed /\ Mailed /\ MailsCounted
  BY DEF FlowInv
<1>1. ASSUME NEW e \in Events, Enqueue(e) PROVE FlowInv'
  <2>1. /\ \A x \in Events : /\ outbox[x].status # "NONE" => outbox'[x] = outbox[x]
                             /\ outbox'[x].status = "SENT" => outbox[x].status = "SENT"
      /\ UNCHANGED <<delivery, job, mails, rollbacks, late>>
    BY <1>1, EnqueuedStatus DEF Enqueue
  <2>2. OnlyRaised' /\ LateRaised' /\ NothingLost'
    BY <1>0, <2>1 DEF OnlyRaised, LateRaised, NothingLost, LockInv
  <2>3. Forwarded' /\ SentWasMailed' /\ Mailed' /\ MailsCounted'
    BY <1>0, <2>1 DEF Forwarded, SentWasMailed, Mailed, MailsCounted, Recorded
  <2> QED BY <2>2, <2>3 DEF FlowInv
<1>2. ASSUME NEW e \in Events, OutboxWait(e) PROVE FlowInv'
  <2>1. outbox' = Waited(outbox, e) /\ UNCHANGED <<delivery, job, mails, rollbacks, late>>
    BY <1>2 DEF OutboxWait, Waited
  <2>2. \A x \in Events : outbox'[x].status = outbox[x].status
    <3>1. outbox \in [Events -> Entry(MaxForward)] /\ MaxForward \in Nat
      BY Limits DEF LockInv, Service
    <3> QED BY <2>1, <3>1, WaitedRow
  <2>3. OnlyRaised' /\ LateRaised' /\ NothingLost'
    BY <1>0, <2>1, <2>2 DEF OnlyRaised, LateRaised, NothingLost, LockInv
  <2>4. Forwarded' /\ SentWasMailed' /\ Mailed' /\ MailsCounted'
    BY <1>0, <2>1 DEF Forwarded, SentWasMailed, Mailed, MailsCounted, Recorded
  <2> QED BY <2>3, <2>4 DEF FlowInv
<1>3. ASSUME NEW e \in Events, DeliveryWait(e) PROVE FlowInv'
  <2>1. delivery' = Waited(delivery, e) /\ UNCHANGED <<outbox, job, mails, rollbacks, late>>
    BY <1>3 DEF DeliveryWait, Waited
  <2>2. \A x \in Events : delivery'[x].status = delivery[x].status
    <3>1. delivery \in [Events -> Entry(MaxDeliver)] /\ MaxDeliver \in Nat
      BY Limits DEF LockInv, Service
    <3> QED BY <2>1, <3>1, WaitedRow
  <2>3. OnlyRaised' /\ LateRaised' /\ NothingLost' /\ SentWasMailed' /\ Forwarded'
    BY <1>0, <2>1, <2>2 DEF OnlyRaised, LateRaised, NothingLost, SentWasMailed, Forwarded, LockInv
  <2>4. Mailed' /\ MailsCounted'
    BY <1>0, <2>1, <2>2 DEF Mailed, MailsCounted, Recorded
  <2> QED BY <2>3, <2>4 DEF FlowInv
<1>4. ASSUME NEW f \in Forwarders, LockDue(f) PROVE FlowInv'
  <2>1. PICK batch \in SUBSET Events :
          /\ IsPage(batch, {e \in Due(outbox, MaxForward) : ~Locked(Forwarders, e)}, outbox)
          /\ Take(f, batch, outbox)
    BY <1>4 DEF LockDue
  <2>2. batch \subseteq Due(outbox, MaxForward) /\ \A e \in batch : ~Locked(Forwarders, e)
    BY <2>1 DEF IsPage
  <2>3. Service(job, Forwarders, outbox, MaxForward) /\ Forwarders \subseteq DOMAIN job
    BY Limits DEF LockInv
  <2>4. PICK k : job' = [job EXCEPT ![f] = k] /\ \A e \in Events : k.entry[e].status # "SENT"
    BY <2>1, <2>2, <2>3, Limits, ServiceTake
  <2>5. f \in Pollers /\ job[f] = Idle /\ UNCHANGED <<outbox, delivery, mails, rollbacks, late>>
    BY <1>4, Limits DEF LockDue
  <2>6. job'[f] = k /\ \A q \in Pollers \ {f} : job'[q] = job[q]
    BY <2>4, <2>5 DEF LockInv
  <2> QED BY <2>4, <2>5, <2>6, FlowTake, IdleStatus
<1>5. ASSUME NEW f \in Forwarders, NEW e \in Events,
             ForwardAccepted(f, e) \/ ForwardLost(f, e) \/ ForwardFailed(f, e)
      PROVE  FlowInv'
  <2>1. PICK status \in {"FAILED", "SENT"} :
          /\ Handle(f, e, status)
          /\ status = "SENT" => delivery' = InsertIfAbsent(delivery, e)
    BY <1>5 DEF ForwardAccepted, ForwardLost, ForwardFailed
  <2>2. /\ e \in job[f].todo /\ f \in Pollers
        /\ UNCHANGED <<outbox, mails, rollbacks>>
        /\ delivery' = delivery \/ delivery' = InsertIfAbsent(delivery, e)
        /\ late' = late \/ late' = late \cup {e}
    BY <1>5, Limits DEF ForwardAccepted, ForwardLost, ForwardFailed, IsNext
  <2>3. /\ job'[f].entry[e].status = status
        /\ \A x \in Events \ {e} : job'[f].entry[x] = job[f].entry[x]
        /\ \A q \in Pollers \ {f} : job'[q] = job[q]
    BY <2>1, <2>2, HandledStatus
  <2>4. /\ \A x \in Events \ {e} : delivery'[x] = delivery[x]
        /\ delivery[e].status # "NONE" => delivery'[e] = delivery[e]
        /\ delivery[e].status = "NONE" => delivery'[e].status \in {"NONE", "PENDING"}
        /\ status = "SENT" => delivery'[e].status # "NONE"
    BY <2>1, <2>2, InsertedStatus
  <2>5. outbox[e].status # "NONE"
    BY <2>2 DEF LockInv, Service, Coherent, Due
  <2>6. OnlyRaised' /\ LateRaised' /\ NothingLost' /\ SentWasMailed'
    BY <1>0, <2>2, <2>4, <2>5 DEF OnlyRaised, LateRaised, NothingLost, SentWasMailed
  <2>7. Forwarded'
    BY <1>0, <2>2, <2>3, <2>4, Limits DEF Forwarded
  <2>8. \A d \in Deliverers : job'[d] = job[d]
    BY <2>3, Limits
  <2>9. \A x \in Events : Recorded(x)' <=> Recorded(x)
    BY <2>4, <2>8 DEF Recorded
  <2>10. Mailed' /\ MailsCounted'
    BY <1>0, <2>2, <2>8, <2>9 DEF Mailed, MailsCounted
  <2> QED BY <2>6, <2>7, <2>10 DEF FlowInv
<1>6. ASSUME NEW f \in Forwarders, ForwardCommit(f) PROVE FlowInv'
  <2>1. /\ job' = [job EXCEPT ![f] = Idle] /\ outbox' = Written(f, outbox)
        /\ job[f].todo = {} /\ f \in Pollers /\ UNCHANGED <<delivery, mails, rollbacks, late>>
    BY <1>6, Limits DEF ForwardCommit
  <2>2. \A e \in Events : \/ outbox'[e] = outbox[e]
                          \/ /\ outbox'[e] = job[f].entry[e]
                             /\ outbox'[e].status \in {"FAILED", "SENT"}
    BY <2>1, OutboxWritten
  <2>3. /\ \A e \in Events : job'[f].entry[e].status = "NONE"
        /\ \A q \in Pollers \ {f} : job'[q] = job[q]
    BY <2>1, EndedStatus
  <2>4. OnlyRaised' /\ LateRaised' /\ NothingLost' /\ SentWasMailed'
    BY <1>0, <2>1, <2>2 DEF OnlyRaised, LateRaised, NothingLost, SentWasMailed, Forwarded, LockInv
  <2>5. Forwarded'
    BY <1>0, <2>1, <2>3, Limits DEF Forwarded
  <2>6. \A d \in Deliverers : job'[d] = job[d]
    BY <2>3, Limits
  <2>7. Mailed' /\ MailsCounted'
    BY <1>0, <2>1, <2>6 DEF Mailed, MailsCounted, Recorded
  <2> QED BY <2>4, <2>5, <2>7 DEF FlowInv
<1>7. ASSUME NEW d \in Deliverers, LockNext(d) PROVE FlowInv'
  <2>1. PICK batch \in SUBSET Events :
          /\ IsPage(batch, Due(delivery, MaxDeliver), delivery)
          /\ \A e \in batch : ~Locked(Deliverers, e)
          /\ Take(d, batch, delivery)
    BY <1>7 DEF LockNext
  <2>2. batch \subseteq Due(delivery, MaxDeliver)
    BY <2>1 DEF IsPage
  <2>3. Service(job, Deliverers, delivery, MaxDeliver) /\ Deliverers \subseteq DOMAIN job
    BY Limits DEF LockInv
  <2>4. PICK k : job' = [job EXCEPT ![d] = k] /\ \A e \in Events : k.entry[e].status # "SENT"
    BY <2>1, <2>2, <2>3, Limits, ServiceTake
  <2>5. d \in Pollers /\ job[d] = Idle /\ UNCHANGED <<outbox, delivery, mails, rollbacks, late>>
    BY <1>7, Limits DEF LockNext
  <2>6. job'[d] = k /\ \A q \in Pollers \ {d} : job'[q] = job[q]
    BY <2>4, <2>5 DEF LockInv
  <2> QED BY <2>4, <2>5, <2>6, FlowTake, IdleStatus
<1>8. ASSUME NEW d \in Deliverers, NEW e \in Events, DeliverSent(d, e) PROVE FlowInv'
  <2>1. /\ Handle(d, e, "SENT") /\ e \in job[d].todo /\ d \in Pollers
        /\ UNCHANGED <<outbox, delivery, rollbacks, late>>
        /\ mails' = [mails EXCEPT ![e] = Counted(mails[e], MaxRollbacks + 1)]
    BY <1>8, Limits DEF DeliverSent, IsNext
  <2>2. /\ job'[d].entry[e].status = "SENT"
        /\ \A x \in Events \ {e} : job'[d].entry[x] = job[d].entry[x]
        /\ \A q \in Pollers \ {d} : job'[q] = job[q]
    BY <2>1, HandledStatus
  <2>3. /\ \A x \in Events : mails[x] \in 0 .. MaxRollbacks + 1
        /\ MaxRollbacks \in Nat /\ rollbacks \in 0 .. MaxRollbacks
        /\ mails'[e] = IF mails[e] < MaxRollbacks + 1 THEN mails[e] + 1 ELSE mails[e]
        /\ \A x \in Events \ {e} : mails'[x] = mails[x]
    BY <2>1, Limits DEF LockInv, Counted
  <2>4. ~Recorded(e)
    BY <2>1, TodoUnrecorded
  <2>5. OnlyRaised' /\ LateRaised' /\ NothingLost'
    BY <1>0, <2>1 DEF OnlyRaised, LateRaised, NothingLost, LockInv
  <2>6. SentWasMailed'
    BY <1>0, <2>1, <2>3 DEF SentWasMailed
  <2>7. Forwarded'
    BY <1>0, <2>1, <2>2, Limits DEF Forwarded
  <2>8. Mailed'
    BY <1>0, <2>1, <2>2, <2>3, Limits DEF Mailed
  <2>9. Recorded(e)' /\ \A x \in Events \ {e} : Recorded(x)' <=> Recorded(x)
    BY <2>1, <2>2, Limits DEF Recorded
  <2>10. mails'[e] <= 1 + rollbacks
    BY <1>0, <2>3, <2>4 DEF MailsCounted
  <2>11. MailsCounted'
    BY <1>0, <2>1, <2>3, <2>9, <2>10 DEF MailsCounted
  <2> QED BY <2>5, <2>6, <2>7, <2>8, <2>11 DEF FlowInv
<1>9. ASSUME NEW d \in Deliverers, NEW e \in Events, DeliverFailed(d, e) PROVE FlowInv'
  <2>1. /\ Handle(d, e, "FAILED") /\ e \in job[d].todo /\ d \in Pollers
        /\ UNCHANGED <<outbox, delivery, mails, rollbacks, late>>
    BY <1>9, Limits DEF DeliverFailed, IsNext
  <2>2. /\ job'[d].entry[e].status = "FAILED"
        /\ \A x \in Events \ {e} : job'[d].entry[x] = job[d].entry[x]
        /\ \A q \in Pollers \ {d} : job'[q] = job[q]
    BY <2>1, HandledStatus
  <2>3. ~Recorded(e)
    BY <2>1, TodoUnrecorded
  <2>4. OnlyRaised' /\ LateRaised' /\ NothingLost' /\ SentWasMailed'
    BY <1>0, <2>1 DEF OnlyRaised, LateRaised, NothingLost, SentWasMailed
  <2>5. Forwarded'
    BY <1>0, <2>1, <2>2, Limits DEF Forwarded
  <2>6. Mailed'
    BY <1>0, <2>1, <2>2, Limits DEF Mailed
  <2>7. \A x \in Events : Recorded(x)' <=> Recorded(x)
    BY <2>1, <2>2, <2>3, Limits DEF Recorded
  <2>8. MailsCounted'
    BY <1>0, <2>1, <2>7 DEF MailsCounted
  <2> QED BY <2>4, <2>5, <2>6, <2>8 DEF FlowInv
<1>10. ASSUME NEW d \in Deliverers, NEW e \in Events, DeliverRefused(d, e) PROVE FlowInv'
  BY <1>10, Limits, FlowRollBack DEF DeliverRefused
<1>11. ASSUME NEW d \in Deliverers, DeliverCommit(d) PROVE FlowInv'
  <2>1. /\ job' = [job EXCEPT ![d] = Idle] /\ delivery' = Written(d, delivery)
        /\ job[d].todo = {} /\ d \in Pollers /\ UNCHANGED <<outbox, mails, rollbacks, late>>
    BY <1>11, Limits DEF DeliverCommit
  <2>2. \A e \in Events :
          \/ e \notin BatchOf(job[d]) /\ delivery'[e] = delivery[e]
          \/ /\ e \in Due(delivery, MaxDeliver)
             /\ delivery'[e] = job[d].entry[e]
             /\ delivery'[e].status \in {"FAILED", "SENT"}
    BY <2>1, DeliveryWritten
  <2>3. /\ \A e \in Events : job'[d].entry[e].status = "NONE"
        /\ \A q \in Pollers \ {d} : job'[q] = job[q]
    BY <2>1, EndedStatus
  <2>4. \A e \in Events : /\ delivery'[e].status = "NONE" <=> delivery[e].status = "NONE"
                          /\ delivery[e].status = "SENT" => delivery'[e].status = "SENT"
    BY <2>2 DEF Due
  <2>5. OnlyRaised' /\ LateRaised' /\ NothingLost'
    BY <1>0, <2>1, <2>4 DEF OnlyRaised, LateRaised, NothingLost, LockInv
  <2>6. SentWasMailed'
    BY <1>0, <2>1, <2>2 DEF SentWasMailed, Mailed
  <2>7. Forwarded'
    BY <1>0, <2>1, <2>3, <2>4, Limits DEF Forwarded
  <2>8. Mailed'
    BY <1>0, <2>1, <2>3, Limits DEF Mailed
  <2>9. ASSUME NEW e \in Events, Recorded(e) PROVE Recorded(e)'
    <3>1. CASE delivery[e].status = "SENT"
      BY <2>4, <3>1 DEF Recorded
    <3>2. CASE job[d].entry[e].status = "SENT"
      <4>1. e \in BatchOf(job[d])
        BY <3>2 DEF BatchOf, NoEntry
      <4> QED BY <2>2, <3>2, <4>1 DEF Recorded
    <3>3. CASE \E q \in Deliverers \ {d} : job[q].entry[e].status = "SENT"
      BY <2>3, <3>3, Limits DEF Recorded
    <3> QED BY <2>9, <3>1, <3>2, <3>3 DEF Recorded
  <2>10. MailsCounted'
    BY <1>0, <2>1, <2>9 DEF MailsCounted
  <2> QED BY <2>5, <2>6, <2>7, <2>8, <2>10 DEF FlowInv
<1>12. ASSUME NEW p \in Pollers, Crash(p) PROVE FlowInv'
  BY <1>12, FlowRollBack DEF Crash
<1>13. ASSUME NEW e \in Events, LateEnds(e) PROVE FlowInv'
  <2>1. /\ e \in late /\ late' = late \ {e} /\ UNCHANGED <<outbox, job, mails, rollbacks>>
        /\ delivery' = delivery \/ delivery' = InsertIfAbsent(delivery, e)
    BY <1>13 DEF LateEnds, LateInsert, LateDropped
  <2>2. /\ \A x \in Events \ {e} : delivery'[x] = delivery[x]
        /\ delivery[e].status # "NONE" => delivery'[e] = delivery[e]
        /\ delivery[e].status = "NONE" => delivery'[e].status \in {"NONE", "PENDING"}
    BY <2>1, InsertedStatus
  <2>3. OnlyRaised' /\ LateRaised' /\ NothingLost' /\ SentWasMailed' /\ Forwarded'
    BY <1>0, <2>1, <2>2 DEF OnlyRaised, LateRaised, NothingLost, SentWasMailed, Forwarded, LockInv
  <2>4. \A x \in Events : Recorded(x)' <=> Recorded(x)
    BY <2>1, <2>2 DEF Recorded
  <2>5. Mailed' /\ MailsCounted'
    BY <1>0, <2>1, <2>4 DEF Mailed, MailsCounted
  <2> QED BY <2>3, <2>5 DEF FlowInv
<1>14. CASE UNCHANGED vars
  BY <1>0, <1>14 DEF vars, FlowInv, OnlyRaised, LateRaised, NothingLost, Forwarded, SentWasMailed, Mailed,
                     MailsCounted, Recorded
<1> QED
  BY <1>1, <1>2, <1>3, <1>4, <1>5, <1>6, <1>7, <1>8, <1>9, <1>10, <1>11, <1>12, <1>13,
     <1>14
     DEF Next, Forward, Deliver

LEMMA FlowAlways == Spec => [](LockInv /\ FlowInv)
BY LockInit, LockStep, FlowInit, FlowStep, PTL DEF Spec

(* SENT is true in both services: a row that the outbox marks SENT has its *)
(* row in notification-service, and deliverBatch marks SENT what it has    *)
(* mailed, however many answers are lost, polls rolled back and pollers    *)
(* running.                                                                *)
THEOREM SentOnlyWhenSent == Spec => []SentIsTrue
<1>1. FlowInv => SentIsTrue
  BY DEF FlowInv, SentIsTrue
<1> QED
  BY FlowAlways, <1>1, PTL

(* The number of mails of one alert exceeds one by at most the number of   *)
(* polls that were rolled back: two pollers never send the same row.       *)
THEOREM DuplicatesBounded == Spec => []DuplicatesNeedRollback
<1>1. FlowInv => DuplicatesNeedRollback
  BY DEF FlowInv, MailsCounted, DuplicatesNeedRollback
<1> QED BY <1>1, FlowAlways, PTL

---------------------------------------------------------------------------
(* The pipeline implements Relay.                                          *)

SettledSet == {e \in Events : Settled(e)}

(* The three mapped variables stay as they are. *)
RelayKept == Rows(outbox)' = Rows(outbox) /\ mails' = mails /\ SettledSet' = SettledSet

LEMMA KeptIsStutter == RelayKept => [Pipeline!Next]_(Pipeline!relayVars)
BY DEF RelayKept, SettledSet, Pipeline!relayVars

LEMMA RelayInit == Init => Pipeline!Init
<1> SUFFICES ASSUME Init PROVE Pipeline!Init
  OBVIOUS
<1>1. \A e \in Events : outbox[e].status = "NONE" /\ delivery[e].status = "NONE"
  BY DEF Init, NoEntry
<1>2. Rows(outbox) = {}
  BY <1>1 DEF Rows
<1>3. {e \in Events : Settled(e)} = {}
  BY <1>1 DEF Settled, GivenUp
<1> QED BY <1>2, <1>3 DEF Init, Pipeline!Init

(* Statuses and attempts alone decide what is raised and settled.          *)
LEMMA StatusDecides ==
  ASSUME \A e \in Events :
           /\ outbox'[e].status = outbox[e].status /\ outbox'[e].attempts = outbox[e].attempts
           /\ delivery'[e].status = delivery[e].status
           /\ delivery'[e].attempts = delivery[e].attempts,
         UNCHANGED <<mails, late>>
  PROVE  RelayKept
<1>1. Rows(outbox)' = Rows(outbox)
  BY DEF Rows
<1>2. \A e \in Events : Settled(e)' <=> Settled(e)
  BY DEF Settled, GivenUp
<1> QED BY <1>1, <1>2 DEF RelayKept, SettledSet

(* A row that is due in a service is not settled.                          *)
LEMMA DueUnsettled ==
  ASSUME LockInv, OnlyRaised, NEW e \in Events, e \in Due(delivery, MaxDeliver)
  PROVE  e \in Rows(outbox) \ SettledSet
<1>1. /\ delivery[e].status \in {"PENDING", "FAILED"}
      /\ delivery[e].attempts < MaxDeliver
  BY DEF Due
<1>2. e \in Rows(outbox)
  BY <1>1 DEF OnlyRaised, Rows
<1>3. delivery[e].attempts \in Nat /\ MaxDeliver \in Nat
  BY Limits DEF LockInv, Service, Entry
<1>4. ~(delivery[e].attempts >= MaxDeliver)
  BY <1>1, <1>3
<1> QED BY <1>1, <1>2, <1>4 DEF SettledSet, Settled, GivenUp

(* Alerts settle together at a commit, or nothing changes.                 *)
LEMMA CommitSettles ==
  ASSUME Rows(outbox)' = Rows(outbox), UNCHANGED mails,
         SettledSet \subseteq SettledSet', SettledSet' \subseteq Rows(outbox)
  PROVE  [Pipeline!Next]_(Pipeline!relayVars)
<1> DEFINE batch == SettledSet' \ SettledSet
<1>1. CASE batch = {}
  BY <1>1, KeptIsStutter DEF RelayKept
<1>2. CASE batch # {}
  <2>1. /\ batch \subseteq Rows(outbox) \ SettledSet
        /\ SettledSet' = SettledSet \cup batch
        /\ batch \in SUBSET Events
    BY DEF SettledSet
  <2>2. Pipeline!Settle(batch)
    BY <1>2, <2>1 DEF Pipeline!Settle, SettledSet
  <2> QED BY <2>1, <2>2 DEF Pipeline!Next
<1> QED BY <1>1, <1>2

(* A job changes, and nothing else that matters to Relay.                  *)
LEMMA JobOnly ==
  ASSUME UNCHANGED <<outbox, delivery, mails, late>>
  PROVE  [Pipeline!Next]_(Pipeline!relayVars)
BY StatusDecides, KeptIsStutter

(* A call for an alert that can still go on inserts its row at most: that  *)
(* settles nothing, before the call or after it.                           *)
LEMMA CallUnsettled ==
  ASSUME LockInv, NEW e \in Events, UNCHANGED <<outbox, mails>>,
         delivery' = delivery \/ delivery' = InsertIfAbsent(delivery, e),
         late' = late \/ late' = late \cup {e},
         ~GivenUp(outbox, MaxForward, e)
  PROVE  [Pipeline!Next]_(Pipeline!relayVars)
<1>1. /\ \A d \in Events \ {e} : delivery'[d] = delivery[d]
      /\ delivery[e].status # "NONE" => delivery'[e] = delivery[e]
      /\ delivery[e].status = "NONE" => delivery'[e].status \in {"NONE", "PENDING"}
  BY InsertedStatus
<1>2. Settled(e)' <=> Settled(e)
  BY <1>1 DEF Settled, GivenUp
<1>3. \A x \in Events \ {e} : Settled(x)' <=> Settled(x)
  BY <1>1 DEF Settled, GivenUp
<1>4. \A x \in Events : Settled(x)' <=> Settled(x)
  BY <1>2, <1>3
<1>5. RelayKept
  BY <1>4 DEF RelayKept, Rows, SettledSet
<1> QED BY <1>5, KeptIsStutter

(* Every step of the pipeline is a step of Relay or changes nothing there. *)
LEMMA RelayStep == LockInv /\ FlowInv /\ [Next]_vars => [Pipeline!Next]_(Pipeline!relayVars)
<1> SUFFICES ASSUME LockInv, FlowInv, [Next]_vars
             PROVE  [Pipeline!Next]_(Pipeline!relayVars)
  OBVIOUS
<1> DEFINE Goal == [Pipeline!Next]_(Pipeline!relayVars)
<1>0. OnlyRaised
  BY DEF FlowInv
<1>1. ASSUME NEW e \in Events, Enqueue(e) PROVE Goal
  <2>1. /\ outbox' = InsertIfAbsent(outbox, e) /\ UNCHANGED <<delivery, job, mails, rollbacks, late>>
    BY <1>1 DEF Enqueue
  <2>2. CASE outbox[e].status # "NONE"
    BY <2>1, <2>2, EnqueuedStatus, JobOnly
  <2>3. CASE outbox[e].status = "NONE"
    <3>1. /\ outbox'[e].status = "PENDING"
          /\ \A d \in Events \ {e} : outbox'[d] = outbox[d]
      BY <2>1, <2>3, EnqueuedStatus
    <3>2. e \notin Rows(outbox) /\ Rows(outbox)' = Rows(outbox) \cup {e}
      BY <2>3, <3>1 DEF Rows
    <3>3. \A x \in Events : Settled(x)' <=> Settled(x)
      BY <2>1, <2>3, <3>1 DEF Settled, GivenUp
    <3>4. Pipeline!Raise(e)
      BY <2>1, <3>2, <3>3 DEF Pipeline!Raise
    <3> QED BY <3>4 DEF Pipeline!Next
  <2> QED BY <2>2, <2>3
<1>2. ASSUME NEW e \in Events, OutboxWait(e) PROVE Goal
  <2>1. outbox' = Waited(outbox, e) /\ UNCHANGED <<delivery, mails, late>>
    BY <1>2 DEF OutboxWait, Waited
  <2>2. \A x \in Events : /\ outbox'[x].status = outbox[x].status
                          /\ outbox'[x].attempts = outbox[x].attempts
    <3>1. outbox \in [Events -> Entry(MaxForward)] /\ MaxForward \in Nat
      BY Limits DEF LockInv, Service
    <3> QED BY <2>1, <3>1, WaitedRow
  <2> QED BY <2>1, <2>2, StatusDecides, KeptIsStutter
<1>3. ASSUME NEW e \in Events, DeliveryWait(e) PROVE Goal
  <2>1. delivery' = Waited(delivery, e) /\ UNCHANGED <<outbox, mails, late>>
    BY <1>3 DEF DeliveryWait, Waited
  <2>2. \A x \in Events : /\ delivery'[x].status = delivery[x].status
                          /\ delivery'[x].attempts = delivery[x].attempts
    <3>1. delivery \in [Events -> Entry(MaxDeliver)] /\ MaxDeliver \in Nat
      BY Limits DEF LockInv, Service
    <3> QED BY <2>1, <3>1, WaitedRow
  <2> QED BY <2>1, <2>2, StatusDecides, KeptIsStutter
<1>4. ASSUME NEW f \in Forwarders, LockDue(f) PROVE Goal
  BY <1>4, JobOnly DEF LockDue
<1>5. ASSUME NEW f \in Forwarders, NEW e \in Events,
             ForwardAccepted(f, e) \/ ForwardLost(f, e) \/ ForwardFailed(f, e)
      PROVE  Goal
  <2>1. /\ e \in job[f].todo /\ UNCHANGED <<outbox, mails>>
        /\ delivery' = delivery \/ delivery' = InsertIfAbsent(delivery, e)
        /\ late' = late \/ late' = late \cup {e}
    BY <1>5 DEF ForwardAccepted, ForwardLost, ForwardFailed, IsNext
  <2>2. outbox[e].attempts < MaxForward /\ outbox[e].attempts \in Nat /\ MaxForward \in Nat
    BY <2>1, Limits DEF LockInv, Service, Coherent, Due, Entry
  <2>3. ~GivenUp(outbox, MaxForward, e)
    BY <2>2 DEF GivenUp
  <2> QED BY <2>1, <2>3, CallUnsettled
<1>6. ASSUME NEW f \in Forwarders, ForwardCommit(f) PROVE Goal
  <2>1. job[f].todo = {} /\ outbox' = Written(f, outbox) /\ UNCHANGED <<delivery, mails, late>>
    BY <1>6 DEF ForwardCommit
  <2>2. \A e \in Events : \/ outbox'[e] = outbox[e]
                          \/ /\ e \in Due(outbox, MaxForward)
                             /\ outbox'[e].status \in {"FAILED", "SENT"}
    BY <2>1, OutboxWritten
  <2>3. Rows(outbox)' = Rows(outbox)
    BY <2>2 DEF Rows, Due
  <2>4. \A e \in Events : outbox[e].attempts \in Nat /\ MaxForward \in Nat
    BY Limits DEF LockInv, Service, Entry
  <2>5. \A e \in Events : GivenUp(outbox, MaxForward, e) => outbox'[e] = outbox[e]
    BY <2>2, <2>4 DEF GivenUp, Due
  <2>6. \A e \in Events : Settled(e) => Settled(e)'
    BY <2>1, <2>5 DEF Settled, GivenUp
  <2>7. \A e \in Events : Settled(e)' => outbox'[e].status # "NONE"
    <3>1. \A e \in Events : delivery[e].status # "NONE" => outbox'[e].status # "NONE"
      BY <1>0, <2>3 DEF OnlyRaised, Rows
    <3> QED BY <2>1, <3>1 DEF Settled, GivenUp
  <2>8. SettledSet \subseteq SettledSet' /\ SettledSet' \subseteq Rows(outbox)
    BY <2>3, <2>6, <2>7 DEF SettledSet, Rows
  <2> QED BY <2>1, <2>3, <2>8, CommitSettles
<1>7. ASSUME NEW d \in Deliverers, LockNext(d) PROVE Goal
  BY <1>7, JobOnly DEF LockNext
<1>8. ASSUME NEW d \in Deliverers, NEW e \in Events, DeliverSent(d, e) PROVE Goal
  <2>1. /\ e \in job[d].todo /\ UNCHANGED <<outbox, delivery, late>>
        /\ mails' = [mails EXCEPT ![e] = Counted(mails[e], MaxRollbacks + 1)]
    BY <1>8 DEF DeliverSent, IsNext
  <2>2. e \in Rows(outbox) \ SettledSet
    BY <1>0, <2>1, TodoUnrecorded, DueUnsettled
  <2>3. Rows(outbox)' = Rows(outbox) /\ SettledSet' = SettledSet
    BY <2>1 DEF Rows, SettledSet, Settled, GivenUp
  <2>4. CASE mails[e] < MaxRollbacks + 1
    <3>1. mails' = [mails EXCEPT ![e] = mails[e] + 1]
      BY <2>1, <2>4 DEF Counted
    <3>2. Pipeline!Mail(e)
      BY <2>2, <2>3, <2>4, <3>1 DEF Pipeline!Mail, SettledSet
    <3> QED BY <3>2 DEF Pipeline!Next
  <2>5. CASE ~(mails[e] < MaxRollbacks + 1)
    <3>1. mails' = mails
      BY <2>1, <2>5 DEF Counted, LockInv
    <3> QED BY <2>3, <3>1, KeptIsStutter DEF RelayKept
  <2> QED BY <2>4, <2>5
<1>9. ASSUME NEW d \in Deliverers, NEW e \in Events, DeliverFailed(d, e) PROVE Goal
  BY <1>9, JobOnly DEF DeliverFailed
<1>10. ASSUME NEW d \in Deliverers, NEW e \in Events, DeliverRefused(d, e) PROVE Goal
  BY <1>10, JobOnly DEF DeliverRefused
<1>11. ASSUME NEW d \in Deliverers, DeliverCommit(d) PROVE Goal
  <2>1. job[d].todo = {} /\ delivery' = Written(d, delivery) /\ UNCHANGED <<outbox, mails, late>>
    BY <1>11 DEF DeliverCommit
  <2>2. \A e \in Events : \/ delivery'[e] = delivery[e]
                          \/ /\ e \in Due(delivery, MaxDeliver)
                             /\ delivery'[e].status \in {"FAILED", "SENT"}
    BY <2>1, DeliveryWritten
  <2>3. \A e \in Events : e \in Due(delivery, MaxDeliver) =>
          e \in Rows(outbox) /\ e \notin SettledSet
    BY <1>0, DueUnsettled
  <2>4. Rows(outbox)' = Rows(outbox)
    BY <2>1 DEF Rows
  <2>5. \A e \in Events : Settled(e) => Settled(e)'
    BY <2>1, <2>2, <2>3 DEF SettledSet, Settled, GivenUp
  <2>6. \A e \in Events : Settled(e)' => e \in Rows(outbox)
    <3>1. \A e \in Events : delivery'[e].status # "NONE" => e \in Rows(outbox)
      BY <1>0, <2>2, <2>3 DEF OnlyRaised, Rows
    <3> QED BY <2>1, <3>1 DEF Settled, GivenUp, Rows
  <2>7. SettledSet \subseteq SettledSet' /\ SettledSet' \subseteq Rows(outbox)
    BY <2>5, <2>6 DEF SettledSet
  <2> QED BY <2>1, <2>4, <2>7, CommitSettles
<1>12. ASSUME NEW p \in Pollers, Crash(p) PROVE Goal
  BY <1>12, JobOnly DEF Crash
<1>13. ASSUME NEW e \in Events, LateInsert(e) PROVE Goal
  <2>1. /\ e \in late /\ late' = late \ {e} /\ UNCHANGED <<outbox, mails>>
        /\ delivery' = InsertIfAbsent(delivery, e)
    BY <1>13 DEF LateInsert
  <2>2. /\ \A d \in Events \ {e} : delivery'[d] = delivery[d]
        /\ delivery'[e].status # "NONE"
        /\ delivery[e].status # "NONE" => delivery'[e] = delivery[e]
        /\ delivery[e].status = "NONE" => /\ delivery'[e].status = "PENDING"
                                         /\ delivery'[e].attempts = 0
    BY <2>1, InsertedStatus
  <2>3. Settled(e)' <=> Settled(e)
    BY <2>1, <2>2 DEF Settled, GivenUp
  <2>4. \A x \in Events \ {e} : Settled(x)' <=> Settled(x)
    BY <2>1, <2>2 DEF Settled, GivenUp
  <2>5. \A x \in Events : Settled(x)' <=> Settled(x)
    BY <2>3, <2>4
  <2>6. RelayKept
    BY <2>1, <2>5 DEF RelayKept, Rows, SettledSet
  <2> QED BY <2>6, KeptIsStutter
<1>14. ASSUME NEW e \in Events, LateDropped(e) PROVE Goal
  <2>1. e \in late /\ late' = late \ {e} /\ UNCHANGED <<outbox, delivery, mails>>
    BY <1>14 DEF LateDropped
  <2>2. Rows(outbox)' = Rows(outbox)
    BY <2>1 DEF Rows
  <2>3. \A x \in Events : Settled(x) => Settled(x)'
    BY <2>1 DEF Settled, GivenUp
  <2>4. \A x \in Events : Settled(x)' => x \in Rows(outbox)
    BY <1>0, <2>1 DEF OnlyRaised, Rows, Settled, GivenUp
  <2>5. SettledSet \subseteq SettledSet' /\ SettledSet' \subseteq Rows(outbox)
    BY <2>3, <2>4 DEF SettledSet
  <2> QED BY <2>1, <2>2, <2>5, CommitSettles
<1>15. CASE UNCHANGED vars
  BY <1>15, JobOnly DEF vars
<1> QED
  BY <1>1, <1>2, <1>3, <1>4, <1>5, <1>6, <1>7, <1>8, <1>9, <1>10, <1>11, <1>12, <1>13,
     <1>14, <1>15
     DEF Next, Forward, Deliver, LateEnds

(* The two services together do what Relay promises: only an alert that    *)
(* was raised is mailed, and one that is delivered or given up is never    *)
(* mailed again, whatever answers, polls and restarts are lost.            *)
THEOREM PipelineImplementsRelay == Spec => ImplementsRelay
BY RelayInit, RelayStep, FlowAlways, PTL DEF Spec, ImplementsRelay, Pipeline!Spec
=============================================================================
