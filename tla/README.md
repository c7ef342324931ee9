# Verification of the PMS

TLA+ models of the services and of the web clients of this repository, checked
with TLC on small instances and, where the result matters for every size, proved
with TLAPS. The models are translated from the Java and TypeScript sources; this
file says what they cover, how they correspond to the code, what was found, and
what is left.

Contents: [the system](#the-system), [modules](#modules),
[correspondence](#how-the-modules-correspond-to-the-code), [runs](#runs),
[bounds](#bounds), [fairness](#fairness), [proofs](#proofs),
[what the runs found](#what-the-runs-found), [not modelled](#not-modelled),
[what is left](#what-is-left-to-do).

## The system

Eight Spring Boot services over PostgreSQL (and Redis for tokens and nonces),
one React and one Android client. Services call each other synchronously
through Feign clients with circuit breakers; every service owns its tables.
Transactions run at READ COMMITTED. Concurrency control is per row and differs
from one operation to the next: `SELECT ... FOR UPDATE`, a JPA `@Version`, a
unique key, an exclusion constraint, or nothing. That is where the hard
behaviours of the back end come from.

The web client (`src/frontend`) is two applications in one: the hotel's pages
(`pages/`, over axios with a refresh of the session) and the repair shop's
(`fixi/`, over fetch). Each page keeps its state in React hooks and a few stores
and talks to the services through promises. JavaScript runs a handler without
interruption to its next `await`; between two awaits the user clicks, effects
start, other answers arrive, dialogs close and sessions end. That is where the
hard behaviours of the clients come from.

| Part | State | Operations | Talks to | What is hard | What makes it correct |
|---|---|---|---|---|---|
| Repair orders (frontdesk-service, `serviceorder`) | order row: status, quote, paid amount, payment events as JSON; repair tests | create, update, quote, authorize, reject, addTest, advanceConfiguredWorkflow, deliver, recordPendingPayment | inventory, workflow, outbox (same transaction) | half of the operations lock the row, half write the whole row back from an unlocked read | money and status of a row agree; a payment request is booked once; a closed order holds no stock; delivery only after QA |
| Configured workflow (`workflow`) | published graph; instance of each order with `@Version` | stateForAggregate, transition, editing of versions | repair orders | target chosen from a state read before the lock | only edges of the graph, terminal states stay |
| Inventory (`inventory`) | balances, reservations | move, count, reserve, release, releaseReservationsForOrder, consumeReservations | repair orders, procurement, POS | races for the last pieces, reservations of orders that close | stock is conserved, never negative; consumed is final |
| Procurement (`inventory`) | purchases, receipts | create, receive, correctReceipt, cancel | inventory | order of the locks, corrections of what was used | received within ordered, stock accounts for receipts |
| Operational notifications (frontdesk-service, notification-service) | outbox table, delivery table | enqueue, forwardDue, enqueueEvent, deliverPending | mail server | at-least-once over two databases and SMTP, poll transactions that roll back | nothing lost, nothing repeated without cause, every alert settles |
| Invoices and payments (billing-service) | invoices with `@Version`, payments, deposits, ledger, number sequence | createInvoiceForStay, addCharge, addPayment, receive, refund | stays, restaurant orders, cash desk | the version is checked only when the invoice row changes | total is what was charged, never over-collected, numbers without gaps, a repetition books nothing |
| Cash desk and expenses (billing-service) | cash sessions, movements, recurring expenses | open, close, generateRecurring, changeRecurringActive | payments | closing against a payment, stale template rows | a closed session counts all its movements, one expense per period |
| Stays (frontdesk-service, `stays`) | stays, guests, room status | checkIn, checkOut, cancel | billing, reservations, rooms, notifications | answers of billing lost after it committed | a stay has one invoice, each night charged once, checkout only when paid |
| Reservations, quotations (frontdesk-service) | reservations, quotations | create, update, cancel, accept, convert | rooms, stays | check then insert against an exclusion constraint | no two bookings of a room overlap, one conversion |
| Rooms and pricing | rooms, seasons | status changes, prices | stays | status written from three sides | a free room is not occupied |
| Warranty claims, service requests, time entries, evidence, catalogue | records of an order | open, close, convert | repair orders | a request converted twice | one order per request |
| Customer portal | tokens, one-time codes | issue, verify | repair orders | expiry, repeated use | a code works once |
| Restaurant orders (fb-service) | orders, items | confirm, charge to room, cancel | billing | a charge that fails is swallowed | a confirmed room order is billed once |
| Authentication (auth-service, internal-auth-lib) | refresh tokens, attempts, nonces (Redis) | login, refresh, logout; signed internal calls | all | rotation against reuse, lifetimes | a token is used once |
| Screens of the hotel client (`pages/`) | lists, filters, dialogs, forms, busy flags, messages of each page | load, search, page, open, save, delete, confirm, pay, check in, ... | all services | answers out of order, double clicks, a dialog closed while it saves, failures of one of several calls | nothing stays busy, what is shown is what was asked for, changes are shown, nothing is sent twice |
| Screens of the repair client (`fixi/`) | as above | reception, orders, devices, catalogue, inventory, purchases, expenses, team, portal, ... | repair orders, inventory, billing, users | as above, over `useAsync`, which drops no answer | as above |
| Assistant (`pages/Assistant.tsx`) | conversation, pending action, executed calls | submit, confirm, cancel; reads run by themselves | model provider, all services | two conversations at a time, proposals that replace each other, lost answers | no change without a click, no change twice |
| Planning board (`pages/CalendarPlanning.tsx`, `PlanningBoard.tsx`) | reservations as shown, drag, month, view | drop, rollback | reservations | optimistic moves refused out of order; half days and UTC dates | the board is true again, no double booking by dropping, bars side by side |
| Session (`services/api.ts`, `store/authStore.ts`, `store/settingsStore.ts`; `fixi/api.ts`) | queue of refused requests, refresh, user, settings | request, refresh, sign in and out | authentication | refresh against sign-out, late answers of an earlier session | one refresh, nobody waits for ever, settings of this session |
| Appearance (theme manager and panels) | CSS variables, preset, mode | choose, import, reset, toggle | | a preset sets fewer variables than the last one | nothing of the last look stays |
| Tenants and users, guests, gateway, WhatsApp, automation, audit, reports, PDF, template pages, Android | administration, filters, adapters, append-only records, rendering | | | little control of their own | |

`PROJECT.json` lists every component with its status, and every hazard at its
line with the properties that watch it.

## Modules

| Module | What it is |
|---|---|
| `Stock` | balances and reservations of the inventory; one step per operation |
| `RepairOrders` | extends `Stock`: the order aggregate, its workflow instance, transactions of concurrent clients |
| `MCRepairOrders` | a small REPAIR workflow for TLC |
| `RepairOrdersProofs` | twelve theorems about `RepairOrders` and its `Stock` |
| `Relay` | what the notification pipeline promises, in three variables |
| `Notifications` | outbox, delivery table and their pollers; implements `Relay` |
| `MCNotifications` | symmetry for TLC |
| `NotificationsProofs` | four theorems about `Notifications`, among them the refinement |
| `Invoices` | invoices, payments, deposits, refunds and the ledger |
| `MCInvoices` | symmetry for TLC |
| `InvoicesProofs` | nine theorems about `Invoices` |
| `SumProofs` | lemmas about sums over finite sets, for stock and money |
| `Screens` | how any screen runs: handlers, awaits, effects, closures, parts that unmount; the four properties of screens |
| `AllPages` | the table of all pages and the table of the calls they make |
| `Discipline` | rules that the text of each page keeps by itself, so that nothing stays busy and nothing is sent twice |
| `DisciplineProofs` | two theorems: the rules are enough, with any number of handlers at a time |
| `FrontDeskScreens`, `RoomScreens`, `BillingScreens`, `AdminScreens` | the pages of the hotel client |
| `ShopScreens`, `WorkshopScreens`, `StoreScreens` | the pages of the repair client |
| `ShellScreens` | layouts, menus, toasts, search, the lock after idle time |
| `Assistant`, `AssistantProofs` | the assistant and two theorems |
| `PlanningBoard`, `PlanningBoardProofs` | the planning board and three theorems |
| `Session`, `RepairClient` | session of the hotel client, shared refresh of the repair client |
| `Appearance` | theme manager |
| `SessionProofs` | five theorems about `Session`, `RepairClient` and `Appearance` |
| `MCScreens` | all parts of the clients, composed for TLC; evaluates the rules of `Discipline` |

The modules of the services have their types (`TypeOK`), their actions in the
order of the code, and their properties at the end; those of the clients are
built alike, and the types that their proofs need are in the proof modules. Definitions commented "Mutant" stand for a plausible
bug; they are used by nothing else, and each property has one that breaks it.

## How the modules correspond to the code

**Transactions.** An operation that first locks the row it decides on is one
action: nothing it has read can change before it commits. An operation that
reads without a lock is a pair of actions, one that keeps what it read in
`tx[c]` and one that decides on that copy and writes, with the steps of other
clients between. `Abort` ends any open transaction without a write: a refusal,
a lost connection, a failed flush, a restart.

**Stock.** `balance` is `inventory_balances.quantity`, `reservation` the row of
(order, product) in `inventory_reservations`. Reserving subtracts only the
difference to what the row already holds (`InventoryService.reserve`), so
`Increase` is the heart of it. `supplied` is history: what movements and counts
brought in. Every operation locks the product row first, so each is one step.
One branch is modelled, an order reserves at its own.

**RepairOrders.** `order[o]` is the `service_orders` row as far as the control
looks at it; payment events are their sum and the set of their request ids.
`Begin` is the unlocked `get`; `Update`, `Authorize`, `Reject`, `Quote`,
`AddTest` and `Advance` write the whole row from that copy, as Hibernate does
for an entity without `@Version`. `Deliver`, `RecordPendingPayment`,
`ReserveStock` and `ReleaseStock` lock the order. A configured transition reads
the instance (`Look`), then locks the workflow definition and moves the
instance under its version; a transition that delivers locks the reservation
rows it finds (`AdvanceConsume`) before the order row is written at the commit
(`AdvanceDeliver`), and that gap is modelled because the code has it.
`collected` and `booked` are history: the cash that changed hands, and how
often each payment request was booked.

**Notifications.** `outbox` and `delivery` are the two tables; `job[p]` is what
poller p's transaction has locked, in the state in which it will write it. A
poll takes a page of due rows oldest first, handles them one by one and writes
them all at its commit. The effects outside of its database (the row that the
Feign call inserts downstream, the mail that leaves) happen at once and survive
a rollback. `ForwardLost` is a call whose answer is lost: the attempt is recorded
as a failure, and the call may go on downstream (`late`), where it stores its row
at any later time (`LateInsert`), also after further attempts or none, or ends
without one (`LateDropped`). Two lost calls of one alert are one in `late`, since
the second insertion changes nothing. `ForwardFailed` also
stands for the circuit breaker's fallback, which answers `null` and is recorded
as a failure; `DeliverRefused` is the `MailException` that no handler of
`deliverPending` catches; `Crash` loses a poll anywhere. `next_attempt_at` is a
flag `due` that time sets (`OutboxWait`, `DeliveryWait`).

**Relay.** Raised, mailed, settled. `Notifications` implements it with `raised`
the rows of the outbox, `copies` the mails that left and `settled` the alerts
that are SENT or whose attempts are exhausted in the service that has them.

**Invoices.** A request reads the invoice (`Open`, `OpenCharge`), then the
payments and deposits (`Load...`), and commits what it computed (`Commit...`).
Consecutive reads of payments and of deposits are one step. The `@Version` of
the invoice is checked only by the commits that change the invoice row, as
Hibernate does: a payment that does not complete the total leaves it alone.
`refunded` is the part of the ledger keyed by payment and reference, `charged`
the sum of its CHARGE entries.

**Screens.** The pages have a common execution model and differ in what they
call, wait for and assign, so `Screens` states the first once, as actions over
`screen`, `ui` (the fields of the page that anything looks at) and `tasks` (its
running handlers), and the modules of the pages state the second: a page is a
record of handlers, controls, effects and parts, one handler for each function
of the component. `Use` is a click on a control that is rendered and enabled in
the state shown; the handler reads what was rendered then (a closure), assigns
`start`, and stops at its first await. `Answered` and `Failed` continue any
task, in any order, with `then` or with `fail` (catch) and at its end `final`
(finally). A failure is also a lost answer: the screen cannot tell. After each
assignment the effects whose dependencies changed run, and their cleanups drop
earlier timers or answers exactly where the code has such a cleanup (`latest`,
`cancels`). What belongs to a dialog that was closed and opened again is another
instance of it: assignments of a handler of the old one are lost (`parts`,
`gone`). Data is not its content but the question it answers (`q`, the filters
it was asked with) and whether anything was committed since it was read
(`fresh`); `CallTable` says which tables a call reads and writes, those that the
server writes in the same transaction included: a configured transition and a
delivery write the reservations and the stock of the order, the import of
products their stock. A form is "good" or "bad" where the code validates it.

A page is modelled with everything that the program mounts at the same time, each
part with its own data and its own reloads: the order with its panel of
reservations, the catalogue with its stock, audit and CSV panel, the suppliers
with the panel of their life cycles, the customers with their duplicates, the
team with its members, devices with their merge. What one part writes can so be
old in another.

`patient` says of a visit whether the user waits for each answer before the next
click; `Patience` has the kinds of users of an instance. Of two loads that are on
their way at once the later answer stays, which `ShowsCurrent` looks at;
`ShowsOwnChanges` asks what the code of the page loads again, and is about
visits in which nothing else is on its way.

Three fields of a page name what its code leaves open, and the properties of
screens do not ask for more: `outrun`, lists for which nothing stops the answer
to an earlier question from staying; `untold`, data that is not loaded again
after a change, or whose reload fails silently, each with the handlers that
leave it so; `again`, handlers that no busy flag holds back. They are listed under [what the runs found](#what-the-runs-found).

**Assistant.** Two conversations can be on their way, one from `handleSubmit`
and one from `confirmAction`; each is a thread with its round and its call.
`effects` and `told` are history: how often a call changed the hotel's data and
how often the user was told that it failed.

**PlanningBoard.** `board` is the state of the page, `server` what the
reservation service has, `moves` the updates on their way. `muddled` and
`restored` are history.

**Session.** `jar` is whose cookies the browser has, `accessGood` and
`refreshGood` whether the server still takes them; a request is sent, queued,
refreshing or done. Who-am-I, after a sign-in or another password, is a request
like any other: it can be refused, wait for a refresh and be sent again, and its
answer is what changes the session (`WhoAmIAnswered`). A refresh fails where the
server refuses it and clears the cookies, or where its answer is lost, with the
refresh token spent or not. When an access token expires (`AccessExpires`) and
when a refresh token is revoked (`RefreshRevoked`) is decided by auth-service.
`PerformLogout` loads the login page, unless that page is shown already;
`SignOut` is the layout's, which tells the server nothing.

**RepairClient.** `refreshInFlight` is the shared promise; a request is sent
first, waits for the refresh, and is sent a second and last time.

**Appearance.** `css` is who set each variable of the document last: a preset in
a mode, a sheet, the user, or nobody.

## Runs

| Run | Instance | Shows |
|---|---|---|
| `repair_serial` | 1 client, 1 order, 1 product | with one request at a time: closed orders hold no stock, events account for the cash, a request id is booked once, delivered orders passed their tests, orders are completed only from QA and reopened only along the workflow |
| `repair_concurrent` | 2 clients, 1 order, 1 product | whatever the interleaving: rows are coherent versions, stock is conserved, consumed parts are final, a cancelled order holds no stock, the workflow follows its graph |
| `repair_race_booked` | 2 clients | violation: a payment request booked twice |
| `repair_race_stock` | 2 clients | violation: a delivered order with a row still RESERVED |
| `notify_safety` | 2 alerts (one refused), 2 + 2 pollers | an alert is SENT only when it is delivered downstream and was mailed, duplicates only after rollbacks, `Relay` is implemented |
| `notify_liveness` | 2 alerts, 1 + 1 pollers | without a refused mail, every alert is delivered or given up |
| `notify_refused` | as above, one alert refused | violation: a refused mail never settles and takes its batch with it |
| `invoices_serial` | 1 client, 1 invoice, 3 payments, 1 deposit | one request at a time: PAID is settled, never over-collected, a reference is one payment, ledger refunds are backed by the payment |
| `invoices_concurrent` | 2 clients, 2 invoices, 2 payments | whatever the interleaving: the total is what was charged, a settled total is final, numbers have no gap, a payment is never reversed beyond its amount |
| `invoices_race` | 2 clients | violation: more collected than charged |
| `invoices_refund` | 1 client | violation: a reversal that the ledger does not have |
| `web_screens` | 79 pages, each with two handlers at a time and, apart, with a user who waits for each answer; 3 calls of the assistant; 2 reservations, 2 rooms; 2 requests, 2 accounts, 3 sessions; 3 fetches; 3 variables | screens: nothing stays busy, what is shown is what was asked for, what a page changed is shown in each of its lists except where `untold` says so, nothing is sent twice; assistant: only confirmed changes, once; board: true when answers are in, no clash by dropping, bars disjoint; sessions: one refresh, nobody left waiting, settings of this session, two tries at most; appearance: nothing left over |

A behaviour of `web_screens` is one of one part of the clients, chosen by
`world` in `WebInit`: the parts share no state that is modelled, and a page is
left before another is opened. It is one run because it asks one question, what
each part shows and sends under any order of answers; the properties of each
part constrain its own variables. `CHECK_DEADLOCK FALSE` is set for this run
only: an assistant whose calls are all used up and a session at its bound may
stop, as users do. In every other model some request can always be made, and in
no reachable state does everyone wait on everyone.

## Bounds

Every bound is a CONSTANT and is named in its module.

* `MaxStock`, `MaxMoney`, `MaxCash`: quantities and amounts. One unit is enough
  for a race, two are enough to reserve, raise and lower a row and to pay a
  quote in parts.
* `MaxAdvances`: configured transitions of one order. The small workflow is
  delivered after three, and six lead through a warranty back to a second
  delivery.
* `MaxTotal`: 3 lets three payments of one invoice race or fill it in every
  order.
* `MaxForward`, `MaxDeliver`: two attempts, so that a row fails, waits and is
  exhausted. `BatchSize` 2 lets a batch hold a good and a refused mail, 1
  forces the pages of the query.
* `MaxRollbacks`: one lost poll may hit any step. The proofs remove this bound:
  they hold for every value.
* `MaxTasks`: the user starts nothing while two handlers run; effects and
  answers may start more. Two are what it takes to be overtaken, sent twice or
  to find the other's busy flag; a third repeats the pair. For busy marks and for
  sending twice the theorems hold for any number of handlers. A user
  who waits (`Patience`) has one; effects and reloads that follow a change still
  overlap.
* Rows of a list are `r1` and `r2`, where it matters that there is another;
  a search is empty or "x", a filter has two or three values.
* `MAX_TOOL_ROUNDS`: 2 (6 in the code), so that a conversation reads, asks again
  and gives up. `MaxTries`: how often the user tries a call that failed, 2.
* `MonthDays`: 2. With stays of two nights that begin on any of three days, a
  bar begins, ends, spans or misses the month. `MaxMoves`: two on their way,
  of one reservation or of two.
* `Pending`: two requests, one that refreshes and one that waits; `MaxSessions`
  3 session transitions: out, in as another, and one more while an answer is
  late. `Fetch`: 3, so that two share a refresh and one comes late.
* One order, product, stay: the code never reads two of them in one decision
  (an order's rows are found by its id; the total of a stay's invoices is not
  used). The theorems hold for any number of orders, products and stays.

## Fairness

Only `notify_liveness` and `notify_refused` use it. `FairSpec` asks for weak
fairness of each poller as a whole (`Forward(f)`, `Deliver(d)`), of time
(`OutboxWait`, `DeliveryWait`) and of calls that nobody waits for any more
(`LateEnds`): a transaction of notification-service ends, with its row or without. Both pollers are `@Scheduled` with a fixed
delay: they run again after whatever happened to the last poll, and the
containers are restarted (`restart: unless-stopped` in docker-compose.yml).
Nothing is assumed about which of the outcomes of an attempt happens: mails may
fail until they are exhausted. `Crash` is bounded by `MaxRollbacks`: polls are
not lost for ever. No fairness is assumed for clients or for `Enqueue`. The web
clients have none: a user may stop anywhere, and their properties say what holds
when nothing runs any more.

## Proofs

`RepairOrdersProofs`, for every finite set of orders, all sets of products and
clients, every configured workflow and all bounds:

| Theorem | Statement |
|---|---|
| `TypeCorrect` | `Spec => []TypeOK`; no balance or paid amount becomes negative |
| `RowsStayCoherent` | `Spec => []RowsCoherent` |
| `StockIsConserved` | `Spec => []StockConserved` |
| `PaidIsBacked` | `Spec => []PaidWasReceived`: a quote shown as PAID was received |
| `WorkflowRespected` | `Spec => WorkflowFollowsGraph` |
| `ConsumedStaysConsumed` | `Spec => ConsumedIsFinal` |
| `CancelledReleased` | under `CancelledIsTerminal`, `Spec => []CancelledHoldsNoStock` |
| `ClosedReleasesStock` | under `[][Isolated]_vars` or `OneClient`, `[]ClosedOrderHoldsNoStock` |
| `CashIsRecorded` | likewise, `[]CashRecorded` |
| `BookedAtMostOnce` | likewise, `[]RequestBookedOnce` |
| `DeliveredPassed` | likewise, `[]DeliveredTested` |
| `SerialDelivery` | likewise, `DeliveryIsDedicated` |

The first seven hold for any number of concurrent requests. The coherence of
rows is inductive only together with that of the snapshots, since a snapshot
becomes a row. The stock is conserved by each operation on its own: an operation
changes the row of one order, so the sum over the orders changes by that row
(`SumChanged`), and by as much as the balance. `PaidWasReceived` is what is left
of the accounts under lost updates: `AccountedInv` says of every row, and of
every snapshot that may still be written back, that its events were received and
its request ids were booked, and receipts only grow; so a payment can be erased,
as finding 1 shows, but none can appear that was not made. The workflow needs
`WorkflowInv`: what a client has seen of an instance is never ahead of it, and
equal versions mean equal states; a client between consuming and committing
holds the definition, so nobody else moves an instance. Cancellation needs
`CancelledInv`: an order row, or a client's snapshot of one, is CANCELLED only
while its workflow instance stands in a cancelled state, which is terminal, so
neither can be advanced any more. `CancelledIsTerminal` is an assumption on the
configuration: nothing in the code enforces it.

The last five are false with two clients (`repair_race_booked` and
`repair_race_stock` show it for the booking and for the stock, finding 1 names
the others), so they cannot be proved without a condition. What they need is
`Isolated`, a condition on behaviours and not on the constants: while a request
holds a copy of an order, no other writes the order, and between the checks of a
configured delivery and its commit none adds a test or a reservation to it. Any
number of clients may work at the same time on other orders, and read the same
one. A row lock from the read to the commit, which `deliver` and
`recordPendingPayment` take and the other operations do not, would bring it
about. `OneClient` (requests come one at a time) is a case of it, the one that
`repair_serial` checks (`OneIsIsolated`). Each theorem states both. `SerialInv`
carries them together: a snapshot is still the row (`Fresh`), what a delivery
has checked is still so (`DeliveryReady`), and a payment request was booked once
exactly if the order has its id (`KeysBooked`). The five need each other: cash
is recorded because the row written back is the current one, a delivered order
holds no stock because the rows that were locked are all it has.

`NotificationsProofs`, for every finite set of alerts, any
sets of pollers, any batch size and limits:

| Theorem | Statement |
|---|---|
| `NotificationTypes` | `Spec => []TypeOK`; no row is tried beyond its maximum |
| `SentOnlyWhenSent` | `Spec => []SentIsTrue`: an outbox row is SENT only with its row downstream (`NothingLost`), that one only with its mail (`SentWasMailed`) |
| `DuplicatesBounded` | `Spec => []DuplicatesNeedRollback` |
| `PipelineImplementsRelay` | `Spec => ImplementsRelay` |

The argument has two layers. `LockInv` is about the locks: a row in a batch is
still due in its table, the transaction has it as it is there or as one attempt
leaves it, and two transactions of a service share no row. It is proved once
for a service (`ServiceStep`, `ServiceHandle`, `ServiceEnd`, `ServiceTake`) and
used for both. `FlowInv` follows an alert: a delivery row has its outbox row, a
SENT that is about to be written has its row downstream or its mail, and
`MailsCounted` balances mails, rollbacks and what is recorded. The refinement
uses both: only due rows are written, and a due row is not settled. A call that
goes on after its caller gave up adds a third part: its alert was raised
(`LateRaised`), and what the outbox gave up counts as settled only when no such
call is left (`CallUnsettled`), so one that still stores its row mails an alert
that was not settled.

`InvoicesProofs`, for every finite set of invoices, payments, deposits and
references, any number of requests and any amounts:

| Theorem | Statement |
|---|---|
| `InvoicesTypeCorrect` | `Spec => []TypeOK` |
| `ChargesKeepTotal` | `Spec => []TotalIsCharged` |
| `SettledIsFinal` | `Spec => SettledTotalIsFinal` |
| `NoGaps` | `Spec => []NumbersWithoutGaps` |
| `NeverReversedBeyond` | `Spec => []ReversedWithinPayment` |
| `PaidMeansSettled` | under `[][Isolated]_vars` or `OneClient`, `[]PaidIsSettled` |
| `CollectedWithinTotal` | likewise, `[]NeverOvercollected` |
| `ReferenceStandsForOne` | likewise, `[]ReferencePaidOnce` |
| `RefundsAreBacked` | likewise, `[]RefundEntriesBacked` |

`SeenInv` is the heart of the first five: the row that a request keeps has a
version no later than the invoice's, and equal versions mean equal rows. A write
that passes the version check (`Written`) therefore writes over the row that was
read, so it adds to the current total and never to a settled one. A number that
was taken is at most one above the last; those below are all used, and the unique
key leaves only the next. A refund writes the payment row as it was read, which
bounds what it records although it may forget another refund. That the sums a
request keeps are not negative follows from the same bound.

The last four are about the money that the version does not cover. With two
clients TLC finds each of them false (`invoices_race` is the run for
`NeverOvercollected`): payments race for the balance, or repeat a reference that
neither has read, and a refund that read an ISSUED invoice leaves it PAID when
the last payment came between. Here `Isolated` says: while a request that has
read an invoice to pay it, to take a deposit or to refund stays as it is, no
payment or deposit row of that invoice changes. Charges may still come between,
and requests of other invoices. A lock of the invoice row from the read on would
bring it about; `OneClient` is the case that `invoices_serial` checks.
`FundsInv` carries the four together (`Books`), with what each request knows
(`Funds`): the total it has seen is not above the current one, the sums it has
read are the current sums, what it may pay or refund still fits, its reference
is still new. A payment that completes the total writes the invoice, so its
version check leaves no charge between; one that does not complete it writes no
invoice row, and a charge that came between only makes room. `SeenInv` excludes
charges to a PAID invoice, and a refund that leaves less than the total takes
PAID away. `FundsInv` was checked by TLC with two clients under `Isolated`
before it was proved.

`SumProofs` has what both need about sums: `SumFunctionOnSet` over a finite set
is an integer, natural when its terms are, independent of the order in which it
is evaluated, bounded termwise, and changes with one term by the change of that
term (`SumChanged`), with one element by its term (`SumAdded`, `SumRemove`). The
induction rules of the library take a predicate as a parameter, which the
provers cannot instantiate; here the hypothesis is a set. `AllNumbers` and
`AllSubsets` derive from the well-foundedness of the naturals that a set of
numbers with 0 and each successor is all of `Nat`, and that a family of subsets
of a finite set that has each subset as soon as it has those with one element
less has all of them.

The client's parts, for every value of their constants:

| Module | Theorem | Statement |
|---|---|---|
| `AssistantProofs` | `OnlyConfirmedChanges` | `AssistantSpec => []NoChangeUnconfirmed` |
| | `ActionsRunOnce` | `AssistantSpec => []RunsOnce` |
| `PlanningBoardProofs` | `BoardIsTrue` | `BoardSpec => []BoardTrue` |
| | `DropsNeverClash` | `BoardSpec => []OverlapOnlyRestored` |
| | `BarsAreDisjoint` | `BoardSpec => []BarsDisjoint` |
| `SessionProofs` | `AtMostOneRefresh` | `SessionSpec => []OneRefresh` |
| | `NobodyForgotten` | `SessionSpec => []NothingLeftQueued` |
| | `SettingsOfTheSession` | `SessionSpec => []SettingsOfThisSession` |
| | `OneSharedRefresh` | `ClientSpec => []RefreshShared` |
| | `NothingLeftOver` | `AppearanceSpec => []NoColorLeftOver` |

* Assistant: `AInv` says that only a call which was clicked, and which the page
  has noted as executed, runs as an action, and that a call not so noted has had
  no more effects than failures told. A read cannot change anything since a call
  stays what it was asked for (`ReadInv`).
* Planning board: a reservation that was not moved twice at a time has at most
  one move on its way, which leads from the server's room to the one shown
  (`MoveInv`); so taking it back restores the server's. `ClashInv` carries the
  double bookings: a drop adds none, since it looks at what is shown, and a move
  that is taken back marks its reservation.
* Session: `QueueInv`, exactly one request refreshes while `isRefreshing`, and
  only then others wait; a refresh that ends empties the queue either way.
* Repair client: a request that waits was sent once, one that was sent again
  finishes whatever the answer (`SentSoFar`), and whoever waits shares the
  refresh on its way (`Shared`).
* Appearance: `LookInv`, each variable belongs to the selected preset in the
  mode that is on; the reset before a preset removes all others.

`DisciplineProofs`, for any table of pages and of calls and any `MaxTasks`:

| Theorem | Statement |
|---|---|
| `MarksReleased` | `ScreensSpec => [](screen \in Disciplined => BusyReleased)` |
| `SentOnceAtATime` | `ScreensSpec => [](screen \in Disciplined => OneSubmission)` |

The two properties are about interleavings, and what makes them true is written
in each handler by itself. `Discipline` says what that is, as predicates on the
text of one page, in which nothing runs:

* a handler marks a flag only while it owes it: its `finally` unmarks it, or
  each answer, the failure and each early return from there on does, or leaves
  the page (`Owes`); a click that marks without a call changes what an effect
  depends on that takes the mark over (`HasRun`);
* whoever drops a run (`latest`, `cancels`) owes what it owed (`DropsOwed`), and
  a page that is opened with a mark has an effect that owes it (`MountsOwed`);
* a part of the page that holds a mark is mounted by the user only, when it is
  not mounted, and begins unmarked (`MountedByUser`);
* a handler that sends holds a field from its start until it ends, and its
  control or its first early return looks at that field (`Holds`, `Lock`); or
  it runs when the page is mounted and never again (`RunsOnMount`).

The first rules carry `PageInv`, whose heart is `Carried`: a flag that is marked
has a task at a step from which it owes it, whose part is still the mounted one.
The last carries `SendInv`: while a task of a group runs its field is not free
(`LockedBy`), so the control starts no other of the group, and a task that runs on
mount is the only one (`Once`). Both are shown of each event (a click, an answer,
a failure, the mounting of a page) and then of the rendering it leads to, where
effects start, drop and restart handlers. That rendering is a fold over the
effects; an invariant of its accumulator (`EffectsKeep`, `RenderedKeep`) is
carried through it by `AllNumbers`. `OneSubmission` counts the tasks of what is
mounted: one whose part was closed and opened again has lost its form.

`Disciplined` is the set of pages whose text keeps the rules. `web_screens`
evaluates it for the pages of the two clients before it starts
(`PagesKeepRules` in `MCScreens`): a page that breaks a rule is found there, and
one that keeps them has the two properties for any `MaxTasks`. One page is left
out of that evaluation, `ServiceOrderDetail`, because the mutants of the two
properties are changes of its handlers and have to be found by the properties;
it keeps the rules too, which `DOMAIN Screen \subseteq Disciplined` in place of
that assumption shows. The handlers that a page lists under `again` are excepted
from the last rule as they are from `OneSubmission`. The assumptions on
constants are that `Elsewhere` is no page (`NothingOfElsewhere`) and that the
markers of an assignment are none of the values that are assigned
(`MarkersAreNoValues`).

Left to TLC:

* `ShowsCurrent` and `ShowsOwnChanges` of `Screens`. Which calls read what, and
  which tables a change touches, is data of the 79 pages; whether a list is
  loaded again after each of them depends on all of the data together, and a rule
  for it would repeat the property.
* `EveryAlertSettles`: liveness under fairness, and the enabledness it rests on,
  are out of the prover's reach.

Every other property of a passing run is a theorem. `ReversalsRecorded` and what
`notify_refused` asks for are false of the code, and in no theorem.

## What the runs found

Each is a violation run and an entry under `findings` in `PROJECT.json`.

1. `repair_race_booked`: the unlocked `get` (ServiceOrderService.java:478) and
   the missing `@Version` of `ServiceOrder` let addTest, update or a configured
   transition erase a payment event that committed meanwhile, with its request
   id; a retry then books the cash again. `CashRecorded`, `DeliveredTested` and
   `DeliveryIsDedicated` fail with two clients for the same reason.
2. `repair_race_stock`: a reservation that slips between the consumption and
   the commit of a configured delivery stays RESERVED on a completed order and
   `release` refuses it.
3. `notify_refused`: `deliverPending` does not catch `MailException`. One
   address that the server refuses rolls back the whole batch at every poll;
   the mails before it in the batch leave again each time.
4. `invoices_race`: two payments of one invoice that do not each complete the
   total are both accepted against the same balance.
5. `invoices_refund`: a refund is recognised as a repetition only by the last
   reference of the payment; otherwise the payment is reversed again and the
   ledger is not.

Also visible in the models, without a promise of the code to hold against them:
`deliver` leaves the workflow instance behind, so a delivered order can still be
advanced, or cancelled, by configuration; an invoice that deposits cover never
becomes PAID, which check-out asks for; a PAID invoice lets a second one be
created for its stay, after which the lookup by stay fails.

In the clients no line of the code promises the contrary, so these are no
findings, but the models had to take them in:

* `services/api.ts` replays a request without a mark: one that is refused with
  401 for its own reason (a wrong current password) is refreshed and replayed
  as long as refreshes succeed. A refresh that is answered after another account
  signed in brings the earlier account's cookies back. `MainLayout` signs out
  without telling the server.
* The answer to an earlier question stays (`outrun`): reservations, guests,
  billing and quotations when the filter changes on a later page (two loads are
  started), rooms, the calendar of rates, the owner's dashboard; in the repair
  client the devices of a customer, the members and grants of the team, the
  messages of WhatsApp, stock and catalogue when the branch changes, the
  customers' pages.
* Sent twice by a second click (`again`): the buttons of the customer portals,
  accepting an invitation, resetting a password, onboarding, the conversion of a
  quotation in a row, activating a user, signing out in the sidebar, settings that are saved as a field
  is left, connecting and answering in WhatsApp, and what is marked busy one row
  at a time: expenses and customers, retrying a reservation, sending a quotation,
  checking out a stay and retrying its invoice or its e-mail, confirming a
  restaurant order and deleting an item of the menu.
* Not loaded again (`untold`), by the handler that leaves the list old:
  - order: the panel of reservations after a configured transition or a delivery,
    which release or consume them (`order-detail.tsx:30,45` load the order only;
    `reservationRevision` counts reservations made, line 37);
  - catalogue: stock and audit after an import of products, which writes both
    (`inventory.tsx:116` loads the products only);
  - suppliers: the page's list and the panel's each after a change made in the
    other (`operations.tsx:15` mounts them side by side);
  - customers: the results of the search after a customer is saved or imported,
    the possible duplicates after an import or an anonymization;
  - devices: the devices of the customer after a merge, the device that was
    looked up after it is saved, confirmed or merged; at the reception, the device
    found after one is created;
  - team: the users after a profile is saved in the editor, the editor's list
    after a user is saved or switched;
  - restaurant: the menu when its reload after a save or a deletion fails, which
    the page does not tell.
* After an action of the assistant failed or its answer was lost it can be
  confirmed again; the user is told that it failed, which is what `RunsOnce`
  counts.
* A payment or a receipt gets a new request id when its amount, method or
  quantity is edited after a lost answer, so the server books both.

## Not modelled

Left out of the modelled parts:

* Repair orders: notes and history rows, access credentials and other text,
  permissions, the state of a service request after its conversion, editing and
  publication of workflow versions (the graph is a CONSTANT).
* Inventory: the movement journal, prices and costs, consumePosOrder and the
  reversal of returns, alerts.
* Notifications: the content of the mails, the length of the delays.
* Invoices: updateDocumentType (its only effect here is to make others fail, as
  `Abort` does), cash movements, the fiscal export (nothing in the service
  writes one), VAT and the items of a charge.
* Screens: what a handler still does after its screen is gone, downloads,
  previews of files, the layout and wording of anything, keyboard and focus,
  what a form contains beyond "valid" and "not valid". A permission that hides
  a control is a choice of the initial state.

Parts without a module, and why:

* Procurement, cash desk, expenses, the saga of check-in and check-out,
  reservations, quotations, warranty claims, restaurant orders, portal tokens and
  refresh tokens of the services: see [what is left](#what-is-left-to-do).
  Their screens are modelled.
* Template pages (`app/users`, `app/tasks`, `app/calendar`, `app/chat`,
  `app/mail`, `app/dashboard`, `app/settings`), which show sample data without a
  server and keep nothing, the library of controls (`components/ui`), and the
  presets of colors (`utils/*-theme-presets.ts`), which are data.
* Pages that no route mounts: the hotel pages are modelled although
  `config/routes.tsx` mounts the repair client (they have their tests and their
  services); of the repair client, the older pages that nothing imports any more
  (`CustomerDetailPage`, `EquipmentPage`, `ReceptionPage`, `OrderDetailPage`,
  `InventoryPage`, `PurchasesPage`, and the adapters of `services.tsx`) are not.
* The Android client, configuration, gateway filters, rendering of documents:
  no state of their own, or a second interface to the same services.

`PROJECT.json` names every component with its status.

## What is left to do

In this order:

1. `Stays`: check-in and check-out over `Invoices`, with answers of billing
   lost after their commit, invoices without a stay, an invoice refunded
   between the check and the check-out; abstract specification "one invoice per
   stay, each charge once".
2. `Procurement` over `Stock`: receive, correctReceipt, cancel; received
   within ordered, `StockConserved` extended by receipts; POS consumption and
   returns.
3. `Bookings`: reservations and quotations against an abstract calendar that
   the exclusion constraint implements; conversion once.
4. `CashDesk`: sessions, payments in cash, recurring expenses (a template that
   `changeRecurringActive` writes back stale is due again and stays so).
5. Service requests and warranty claims on `RepairOrders`; restaurant orders on
   `Invoices`; refresh tokens, login attempts and nonces.
6. A screen composed with the service it calls: `RequestBookedOnce` end to end,
   with the request ids that the payment page renews.
