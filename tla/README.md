# A TLA+ model of the Pulse booking platform

This directory holds a formal model of the server of Pulse (`src/booking-api`):
TLA+ modules translated from its code, small instances that TLC checks, and
theorems with proofs that TLAPS checks. It is kept beside the code: every
definition that stands for code names its lines in `PROJECT.json` ("map").

Read it in this order: the inventory below, `Schedule.tla`, `Calendar.tla`,
`Bookings.tla`, `Availability.tla`, `Ledger.tla`, `Notices.tla`, `Handlers.tla` and
one of the services built on it, the runs, then the proof modules.

## 1. The system

Pulse is an appointment platform for small service businesses. One NestJS
process (or several replicas of it) serves an HTTP API; a Next.js site and an
Expo app are its clients. State lives in PostgreSQL (through Prisma), in Redis
(locks, failure counters, the BullMQ job queue) and in three outside services:
Stripe (deposits, fees, subscriptions), Google Calendar, and the mail and SMS
gateways. A request handler is one `async` function: between two of its
`await`s any other handler, webhook or job may run, in this process or in
another replica. Nothing but the database orders them.

### 1.1 Inventory

| component | state it keeps | operations | talks to |
|---|---|---|---|
| Booking engine (`bookings/`) | `Appointment` rows: provider, service, start, end, status | create, createRecurring, confirm, reschedule, updateStatus, updateDetails, late-cancel request | notifications, calendar sync, waitlist, promotions, payments |
| Promotions (`promo-codes/`) | `PromoCode`: maxUsages, usageCount, expiry | create, update, remove, validate; used inside a booking transaction | booking engine |
| Deposits and ledger (`payments/`) | `Payment`, `Refund` rows; intents at Stripe | booking intent, custom charge, refund, no-show and late-cancel fee, webhooks | Stripe, booking engine, notifications |
| Subscriptions, memberships, referrals (`payments/`, `memberships/`, `referrals/`) | `Subscription`, `Business.plan`, `ClientMembership`, `Referral` | checkout, portal, webhooks, reward | Stripe |
| Notifications (`notifications/`) | BullMQ jobs (delayed, repeated), `NotificationDelivery` | schedule and cancel reminders, send, sweep jobs (win-back, birthdays, due follow-ups, plan expiry) | rows of every other component at the time a job runs |
| Google Calendar sync (`calendar-sync/`) | `googleEventId` on the appointment, the connection with its token | push, remove, busy intervals, token refresh | Google, availability |
| Availability (`availability/`) | none (reads rules, hours, time off, appointments) | slots of a day | booking page |
| Gift cards, packages | balance or credits, redemptions, status | issue, redeem (serializable), void | |
| Waitlist | `WaitlistEntry`: WAITING, NOTIFIED, CANCELLED | join, remove; notified by a cancellation | booking engine, notifications |
| Follow-ups (`service-due/`) | `ServiceDue`: SCHEDULED, DUE, CANCELLED, due date, cadence; `FollowUpPolicy` | set, approve, reschedule, cancel, policies, daily scan | booking engine (completed visits), notifications |
| Campaigns | `Campaign`: DRAFT, SENDING, SENT | create, update, send with a daily limit | notifications |
| Invoices | `Invoice`: DRAFT, SENT, PAID, VOID | create, edit, status, mail, remove | |
| Sign-in (`auth/`) | users, refresh sessions, one-time challenges; failure counters in Redis | register, login, second factor, refresh, logout, reset | Redis, notifications |
| Data migration (`migrations/`) | request, batch and row status | stage, confirm | clients |
| Clients, staff, services, resources, locations, businesses, offers | catalogue and profile rows | single-row edits; merge, remove | booking engine reads them |
| Messages, inbox, events, reviews, tasks, uploads, search, portal, users, privacy, verification, system errors | append-only or single-row state | one read or one write per request | |
| Front ends (`booking-web`, `mobile`) | none that matters to the rules | | API |

### 1.2 What is hard, and what makes each component correct

* **Booking engine.** Two requests may check the same free slot at once. A
  booking must be checked against every other booking of the provider and of
  the room, buffers included, and the answer must still hold when the row is
  written. Three handlers use a serializable transaction that is retried on a
  conflict; four others and two webhooks write rows without one. Correct: no
  two checked appointments collide, classes stay within capacity, a promotion
  is not used too often, no request is retried for ever, statuses that are
  final stay so.
* **Ledger.** Stripe reports late, twice and out of order, while endpoints wait
  for Stripe's answer. Correct: the rows agree with Stripe once all is
  delivered, a settled payment stays settled, nothing is refunded twice.
* **Subscriptions and referrals.** Events without versions; claim, then credit.
  Correct: the plan is that of the newest event, a reward is paid once.
* **Notifications.** Jobs outlive the row they were made from; job ids are also
  the duplicate guard. Correct: a confirmed appointment is reminded of its
  current time, once, and a cancelled one is not.
* **Calendar sync.** Fire-and-forget pushes race on `googleEventId`, and half of the handlers
  that write an appointment push nothing. Correct: at most one event per appointment,
  none for a cancelled one, current time.
* **Gift cards, packages.** Redemptions race with one another and with a void.
  Correct: redemptions and balance always add up to what was issued.
* **Availability.** The offer and the check of a booking are two programs. Correct: what is
  offered is accepted, and what could be booked is offered.
* **Waitlist, follow-ups, campaigns, invoices, migration.** Each reads a status
  and later writes one. Correct: nobody who waits is passed over, a limit is a limit, numbers have
  no gap, what was mailed stands, a batch is imported whole and once, what the owner
  approved is written to the client.
* **Sign-in.** Correct: refreshes that overlap do not sign a device out.

`PROJECT.json` lists the hazards line by line, with the properties that catch
each, or the reason why none does yet.

## 2. The modules

```
Schedule            time arithmetic, buffers, opening hours, constants
   |        \
Calendar     Bookings        abstract calendar / appointment table and handlers
   |    \      |    \
   |     `-----+     MCBookings (+ *.cfg)          instances for TLC
   |           |
CalendarProofs BookingsProofs --- ScheduleProofs   theorems

Availability        extends Bookings: the times on offer; BookingsProofs, MCBookings

Ledger              payment and refund rows, Stripe and its events
   |     \
MCLedger  LedgerProofs

Notices             jobs, workers and delivery log of one appointment
   |     \
MCNotices  NoticesProofs

Handlers            handlers in flight, shared by the services below
   |
Accounts <- Vouchers   Invoices   Subscriptions            BillingProofs
Campaigns   Waitlist   Imports   FollowUps                 ClientsProofs
GoogleSync   Sessions                                      SyncProofs
   |
MCDesk              the nine of them for TLC, one at a time
```

`Bookings` and `Ledger` meet in the two deposit webhooks, each of which writes a
payment row and then an appointment. The two writes are separate statements
without a transaction and neither reads what the other wrote, so each module
has its own part of the webhook.

**Schedule** has the operators of `assertBookableWindow` that do not read the
database: the span an appointment occupies with its buffers (`Occupied`), when
two spans collide, the 480-minute margin of the queries (`Near`), seats of a
class, rooms, and the check of opening hours as the code makes it, on times of
day. Times are integers; a day is `DayLen` long.

**Calendar** is the abstract specification: a partial map from appointments to
calendar entries; `Place` puts or moves an entry where it fits, `Release` takes
one out. No requests, no transactions.

**Bookings** is the code. Its variables and what they stand for:

| variable | code |
|---|---|
| `appointment` | the `Appointment` table; status `NONE` is a row that does not exist |
| `usageCount`, `promoOf` | `PromoCode.usageCount`; the appointments with its `promoCodeId` |
| `intents` | appointments with a `stripePaymentIntentId` |
| `calls` | one record per request in flight: what its handler holds in local variables, and what its transaction has read |
| `unvetted` | history, not in the code: active rows whose time was last written without a check |

| action | code |
|---|---|
| `RequestCreate` ... `TxCommit` | `create`: reads, builds the row, runs the transaction |
| `RequestReschedule`, `StartTx` ... | `reschedule`: reads the row, later runs the transaction |
| `RequestDetails`, `StartTx` or `WriteDetails` | `updateDetails`: transaction only if the start differs from the one read |
| `RequestStatus`, `WriteStatus` | `updateStatus`: validates on the row read, then a plain update |
| `Confirm` | `confirm`: a plain update whatever the status |
| `CreateBookingIntent`, `PaymentIntentSucceeded`, `PaymentIntentFailed` | the deposit intent and the two webhooks, any number of times, in any order |
| `TxCommit`, `TxReject`, `TxAbort` | how a transaction ends: commit, a refusal (409 or 400), a write conflict (P2034) |

*How PostgreSQL is modelled.* A transaction takes its snapshot in one step
(`BeginTx`): the answers of its queries (`accepts`), and the rows it locks
(`locked`). It ends in another step, so anything may happen in between. If a
row that it locks or is going to write is written meanwhile, its lock or write
fails (`doomed`). A row that it could not lock, because another checked
transaction inserted or moved it, is remembered (`missed`); if both wrote a row
that the other's query would have returned, both have a read-write dependency
and serializable snapshot isolation lets at most one commit
(`SerializationFailure`). A transaction may also abort for no reason the model
knows (`TxAbort` has no further guard), as PostgreSQL's conflict detection has
false positives. The dependency is evaluated on the rows as they are at commit;
where a missed row was itself rewritten since, this only leaves out aborts, so
the model has more behaviours there, not fewer. `PostgreSQL` reports the
conflict of a raw query under another Prisma code (P2010) than the one the
retry loop knows (P2034); the model retries both, which is again more behaviour.

*Abstractions.* One business, one location, one promotion, one working window
per provider. A booking has at most one additional service. Deposits have no
amount. `createRecurring` calls `create` in a loop and adds no interleaving.
Setting `stripePaymentIntentId` after the call to Stripe is one step; no
handler of the model reads it in between. Other fields of `updateDetails` and
the messages, pushes and log entries that follow a write belong to other
components. `Ops` and `AutoApproval` choose which endpoints an instance uses, so
that each run stays small; the theorems hold for every choice.

**Ledger** is the payment part of `payments.service.ts`.

| variable | code |
|---|---|
| `row` | the `Payment` row of each charge, or `NoRow` |
| `refundRow` | the `Refund` rows by their unique `stripeRefundId` |
| `call` | a handler in flight: where it stands and its local variables |
| `kind` | the client confirms (deposit, in-person), or a saved card is charged (fee), at once or slowly |
| `intent`, `refund`, `events` | Stripe: intents, refunds with the answer given under their idempotency key, events sent |
| `reconciled` | history, not in the code: payments for which a refund webhook was handled |

| action | code |
|---|---|
| `CreateIntent`, `RecordPayment` | `createBookingIntent`, `createCustomCharge`: call Stripe, then insert the row, whose failure is logged only |
| `ChargeFee`, `RecordPayment` | `chargeNoShowFee`, `chargeCancellationFee` |
| `PaymentSucceeded`, `PaymentFailed` | the two `payment_intent` webhooks: one conditional `updateMany` each |
| `RequestRefund`, `AskStripe`, `RefundTx` | `refundPayment`: checks, call of Stripe, transaction |
| `ChargeRefunded`, `MirrorRefund` | webhook `charge.refunded`: writes the total, then one upsert per refund |
| `RefundUpdated`, `SumRefunds`, `WriteSum` | `reconcileStripeRefund`: upsert, aggregate, write |
| `CutOff` | the process dies or a query fails between two awaits; Stripe delivers the event again |

*Stripe as the code sees it.* `events` only grows: an event that was sent may be
handled now, later, again, or never, in any order, which covers delay, loss,
duplication and reordering. Stripe never returns more than was taken. A request
with a known idempotency key is answered as the first time. A refund is
succeeded or pending when it is made, a pending one may succeed, any may fail
later. `charge.refunded` carries the total at that moment and, when `Listed`,
the refunds: Stripe's API lists them up to version 2022-11-15 only, and the
code handles both.

*Steps.* What lies between two awaits of a handler is one step, with two
exceptions that are sound. The read of the payment row at the start of
a webhook is in one step with the write that follows: of that row the write
uses only the id and the amount, which never change. The transaction of
`refundPayment` is one step: the insert of the refund row is guarded by the
unique `stripeRefundId`, the increment is atomic in the database, and a status
that is computed from the incremented row is written while the row is locked.

*Abstractions.* All charges have the same amount (`Amount`, in cents). A card
that is declined when a fee is charged makes Stripe's client throw, so nothing
is recorded and nothing is modelled. A slow fee may be declined after it
was recorded, like any open intent. The reason of a refund, which is part of
the idempotency key, is constant; another reason gives what another
amount gives, a new key. Receipts, tips, taxes and accounts are left out.

**Availability** has `getAvailableSlots` and `generateDaySlots` as operators over the
state of `Bookings`: the grid of a day, what is in the way of a slot, and the
slots on offer; and beside them what `create` asks of a start
(`assertStartsAtAvailable`, then `AssertBookableWindow` of `Bookings`). Two programs,
written apart from each other, that must agree on every calendar the handlers
leave behind.

**Notices** is one appointment, the job queue and the workers.

| variable | code |
|---|---|
| `apt`, `ops` | the `Appointment` row; how often it was written (a bound) |
| `todo` | of each handler in flight, the queue calls it still has to await |
| `jobs` | BullMQ's jobs by their id: state, due time, `expectedStartsAt`, attempts left |
| `hand` | of each worker (`concurrency: 1`), the job it holds, the row it read, the messages still to send |
| `log` | the `dedupeKey`s of `NotificationDelivery` rows with status SENT |
| `follow` | a behaviour follows one set of job types; those of the others touch nothing of theirs |
| `now`, `faults`, `mailed`, `clean` | the clock; faults so far (a bound); history |

Handlers are `Create`, `Confirm`, `Reschedule`, `UpdateStatus`, `UpdateDetails` and
`DepositFailed`, each its write and then `CancelReminders` and `AddJob` one by one; a
worker does `Take`, per message `Suppress` or `Send` and `LogSent`, then `Finish`, or
`Throw` at any point. `CutOff` and `Crash` are processes that die between two awaits.
An id that is taken is not added again, a job that is held is not removed, a job
that throws waits again until its attempts are used up, and the job of a dead
worker is found stalled and waits again: this is BullMQ as the code uses it.

**Handlers** is what the remaining services share: handlers in flight, each with its
local variables, whose steps are what lies between two awaits, and which may die.

| module | state | actions |
|---|---|---|
| `Accounts` | abstract: balance and redemptions of a voucher | open, take, close |
| `Vouchers` | `GiftCard`, `ClientPackage` rows and their redemptions | `BeginRedeem` (snapshot and checks), `CommitRedeem`, `ConflictRedeem` (three attempts), void, issue, expiry |
| `Subscriptions` | `Subscription`, `Business.plan` and its grant, `Referral`, the referrer's credit | `ReceiveEvent`, `ApplyRow`, `ApplyBusiness`, `ClaimPendingReward`, `GrantReferralReward`; checkout; `SetPlanAdmin`, `GrantComplimentaryPlan`, `ExpireComplimentaryPlan` |
| `Campaigns` | `Campaign` status and day of sending; history: the day each went out, and those removed on that day | `CountToday`, `MarkSending`, `QueueMessages`, `MarkSent`; create, remove; midnight |
| `Invoices` | `Invoice` rows, `Business.invoiceSeq` | `TakeNumber`, `CommitInvoice`; update, status, mail and its mark, remove |
| `GoogleSync` | status, start and `googleEventId` of an appointment, the calendar's events | the handlers that push or remove: `CreateMeeting`, `ConfirmMeeting`, `RescheduleMeeting`, `RequestSync`, `CheckStatus` and `WriteStatus`; those that do not: `DepositPaid`, `DepositFailed`, `MoveMeeting`; `ReadForPush`, `GetToken`, `Patch`, `Insert`, `StoreEvent`; `ReadForRemove`, `DeleteEvent`, `ForgetEvent`; `GiveUp` where a call fails or its answer is lost |
| `Waitlist` | `WaitlistEntry` rows with the queries that find each for an opening, jobs queued | `FindFirst` (one query of the six at a time), `MarkNotified`, `NotifyWaitlistOpening`; join, leave |
| `Imports` | the file, the staged batch, the clients' addresses | `ReadClients`, `StageRows`, `ConfirmImport` |
| `Sessions` | `RefreshSession` rows, the lock in Redis, what each device holds | `RequestRefresh`, `LockToken`, then the transaction of `issueTokens` statement by statement: `StoreToken`, `ListRows`, `CommitTokens`; sign-in, sign-out, change of password |
| `FollowUps` | `ServiceDue` rows, a `FollowUpPolicy`, what the scan has read, the job of each tracker, the delivery log | `RequestSetDue`, `ReplaceOpen`, `CreateDue`; `RequestApprove`, `Invite`, `Advance`; `Move`, cancel, policy; `RunServiceDueScan`, `MarkDue`; `TakeFollowUp`, `SendFollowUp`, `FailFollowUp`; `CompleteVisit` |

History variables are marked as such in each module. Several of them (`calm`, `alone`,
`tended`, `oneByOne`, `inTurn`, `orderly`, `clean`) say whether handlers have overlapped,
and `overtook` that a token went into a row another transaction had listed: these services
are written for requests that come one after another, and where the code lets an overlap
break its promise the property says so instead of leaving the overlap out of the model.

## 3. What TLC checks

All instances of `Bookings` have two concurrent requests and two or three appointments;
times 0 to 2 in a day of length 6 with four open hours (`bookings_refine`: two and four); services of length 1,
with clean-up time 1, with a class of two seats, or with a room. That is enough for
each case of the check: touching, overlapping and equal spans, buffers that
collide although the appointments do not, a full class and one with a seat
left, a row on either side of the margin, an edit that moves a row out of and
into another's way, and three snapshots of one request.

| run | instance | shows |
|---|---|---|
| `bookings_create` | three appointments, class, add-on, override, one promotion | `TypeOK`; `SnapshotsStillFit`: a check is not overtaken; `PromoExact`: the promotion is used once |
| `bookings_edit` | manual approval, create, edits, status changes | `VettedNeverCollide` with every kind of write |
| `bookings_refine` | two providers, one with a short day and one with a pause, one room, a class; create, reschedule, confirm | `ImplementsCalendar`: the engine implements `Calendar`; `OffersAreExact`: on every calendar it leaves behind, what is offered is what is accepted |
| `bookings_return` | one appointment, create, deposits, reschedules, edits, weak fairness | `EveryCallReturns`: no request is retried for ever |
| `ledger` | one charge of each kind, amount 2, two refunds, two handlers | `StatusMatchesTotal`, `SettledIsPaid`, `SettledStaysSettled`, `RowsMirrorStripe`; `EndpointCountsExactly`: concurrent and repeated refunds are counted once each |
| `notices` | two starts, a clock of four values, two handlers, two workers, two attempts, each job type by itself with up to four writes | `OncePerJob`: a retry never mails twice; `QueueFollowsRow`: reminders follow the row |
| `notices_remind` | the reminder with two writes and one fault, fair clock, handlers and workers | `RemindedUnlessWritten`: a reminder of the present start goes out, though a worker dies |
| `desk` | each of the nine services with two handlers | see the next table |

*Bounds of `ledger`.* A charge shares nothing with another one but the code,
so one is enough; two refunds of amount 1 or one of amount 2 give a partial and
a full refund, two refunds that race, and a total that is cut; two handlers
give an endpoint against a webhook and two endpoints against each other. Three
handlers add no pair of steps that two do not have. Refunds of the dashboard
succeed at once (`DashStatus`); those of the endpoint may be pending.

`desk` asks of each service:

| service | instance | shows |
|---|---|---|
| vouchers | one gift card, one package, amounts to 2 | `ImplementsAccounts`, `Balanced`, `VoidIsFinal` |
| subscriptions | one paid plan | `PlanIsEarned`, `FailureKeepsGrant`, `RewardedOnce` |
| campaigns | three, limit 2, two days | `LimitHoldsInTurn`, `QueuedOnce` |
| invoices | two, items worth 2, two discounts | `NumbersWithoutGap`, `MailedStands` |
| Google Calendar | one appointment, two times, two events | `CalendarShowsAppointment` |
| waitlist | two entries, two openings, two queries of which an entry answers both or the second | `OpeningsReachClients`, `OldestFirst`, `LeaversStayAway` |
| imports | files of three rows over two addresses or none | `ImportedWhole`, `ImportedOnce` |
| sessions | two devices, two sessions kept, four tokens | `DeviceStaysSignedIn` |
| follow-ups | two trackers, one with a message, one policy, three requests | `ApprovedIsWritten`, `PromptsAreDue`, `OneOpenInTurn` |

*Bounds of `desk` and `notices`.* The nine services share no table and no lock, so the
interleavings of two of them are those of each alone: `focus` picks one at the start. Two
handlers give every pair that can overlap, and a handler that is done makes room for the
next, so sequences are as long as the rows allow; a third in flight would add no pair. Three
campaigns pass a limit of two; two discounts give an invoice two totals to be mailed and
edited between (that new items change the total as well adds no case here, and the theorem
covers every set of both); two events are what two handlers create at once, or one that is
removed and its successor; two waiting entries have an older and a newer, a better and a
worse one in each order, other ones for each opening, either may join or leave between the
two queries, and the properties compare entries two by two (the six queries of the code are
a bound of the instance, not of the module); three rows have a pair of equal addresses and
one without; with two sessions kept, four tokens remove a row, also one that was rotated
since it was listed; three requests set a follow-up and let two more overlap on it, with as
many scans and attempts as there are (`MaxAsked` bounds what is asked for). In `notices` two
starts give one before and one at the end of the clock, two attempts a job that is tried
again and one that is given up; four writes of the reminder give create, two moves and a
confirmation.

Runs that TLC must refute; each shows that the code does not do what a line of
its documentation says (see "findings" in `PROJECT.json`):

| run | what happens | what the documentation says |
|---|---|---|
| `status_race_double_books` | a confirmation that read PENDING revives a cancelled appointment whose time is sold | README: concurrent requests serialise, only one succeeds |
| `refund_counted_twice` | a `charge.refunded` event is handled between Stripe's answer and the transaction of `refundPayment`, which adds the refund to the total once more | comments at 497 and 508 of `payments.service.ts`: reconcile with our endpoint, idempotent on the refund id |
| `campaign_limit` | two sends count before either marks its campaign | comment at 103 of `campaigns.service.ts`: one serializable transaction (no isolation level is passed, so it is READ COMMITTED) |
| `offered_rejected` | a time on offer for a service with an additional one is not on the grid of the service alone, which `create` asks for | comment at 234 of `availability.service.ts`: never offers a time that create() will reject |

*Fairness.* `FairSpec` has weak fairness on `Continue(c)`: a handler that has
started runs on. Node's event loop and the database give that: no handler waits
for another request, locks are released when a transaction ends, and a
transaction that waits for one that commits is aborted. Nothing is assumed of
callers or of Stripe, whose requests may never come. `Ledger` has no liveness
property: what should come true at last (each paid charge is in the ledger, each
total is Stripe's) does not, because a failed insert is only logged and an older
event may be the last to be handled. These are listed as hazards. `Notices` has weak fairness on the clock, on a handler that
has queue calls left, and on each worker, since BullMQ's workers run in every process
of the API as long as there is one; not on requests, and not on a provider of mail that keeps
refusing, after which a job is given up. The services of `desk` have no liveness property: what
they leave undone (a campaign that stays SENDING, an invoice that was mailed and not marked)
nobody takes up again.

*Symmetry.* Appointments and requests are permuted in the safety runs. An idle
request holds an arbitrary appointment id, which no action or property reads.
In `MCLedger` refunds and handlers are permuted, in `MCNotices` handlers and workers, in
`MCDesk` handlers; no definition orders them. The liveness runs have no symmetry. `CHECK_DEADLOCK FALSE`: when all
appointments exist and all are final, nobody has to ask for anything.

## 4. What is proved

Every safety invariant and every action property that a passing run checks is a
theorem, for every value of the constants that meets the named assumptions. These are, of
`Schedule`: durations are positive, buffers at most the margin, as the DTO enforces;
`Availability`: a day closes before midnight; `Accounts` and `Ledger`: a positive amount, and in
`Ledger` a finite set of refunds, and `NoRow` is no row; `Notices`: finitely many
reminders, starts after the clock's zero, offsets that are integers, at least one attempt; `Campaigns`: finitely many, a
positive limit; `Invoices`: amounts are natural numbers; `Sessions`: at
least one session is kept; `Waitlist`: at least one query; `Imports`: no address is not an address;
`Vouchers` and `FollowUps`: packages are vouchers, what has a message is a tracker; and bounds that are
natural numbers.

| module | theorem | statement |
|---|---|---|
| `CalendarProofs` | `CalendarSafe` | `CalendarSpec => []CalendarInv` |
| `BookingsProofs` | `TypeSafety` | `Spec => []TypeOK` |
| | `PromoSafety` | `Spec => []PromoExact` |
| | `SnapshotSafety` | `Spec => []SnapshotsStillFit` |
| | `Refinement` | `Spec => ImplementsCalendar` |
| | `BookingSafety` | `Spec => []VettedNeverCollide` |
| | `OffersExact` | `Spec => []OffersAreExact` of `Availability` |
| `LedgerProofs` | `TypeSafety` | `Spec => []TypeOK` |
| | `PaidSafety` | `Spec => []SettledIsPaid` |
| | `StatusSafety` | `Spec => []StatusMatchesTotal` |
| | `SettledSafety` | `Spec => SettledStaysSettled` |
| | `MirrorSafety` | `Spec => []RowsMirrorStripe` |
| | `CountSafety` | `Spec => []EndpointCountsExactly` |
| `NoticesProofs` | `NoticesTyped` | `Spec => []TypeOK` |
| | `OncePerJobAlways` | `Spec => []OncePerJob` |
| | `QueueFollowsRowAlways` | `Spec => []QueueFollowsRow` |
| `BillingProofs` | `AccountsSafe`, `AccountsVoidIsFinal` | type, balance and finality of the abstract account |
| | `VouchersImplementAccounts` | `VouchersSpec => ImplementsAccounts` |
| | `VouchersTyped`, `VouchersBalanced`, `VouchersVoidIsFinal` | the same of gift cards and packages |
| | `NumbersWithoutGapAlways`, `MailedStandsAlways` | `InvoicesSpec => []NumbersWithoutGap`, ... |
| | `RewardedOnceAlways`, `PlanIsEarnedAlways` | `SubscriptionsSpec => []RewardedOnce`, `[]PlanIsEarned` |
| | `FailureKeepsGrantAlways` | `SubscriptionsSpec => FailureKeepsGrant` |
| `ClientsProofs` | `QueuedOnceHolds`, `LimitHoldsInTurnAlways` | `CampaignsSpec => []QueuedOnce`, `[]LimitHoldsInTurn` |
| | `OpeningsReachClientsAlways`, `OldestFirstAlways` | `WaitlistSpec => []OpeningsReachClients`, `[]OldestFirst` |
| | `LeaversStayAwayAlways` | `WaitlistSpec => LeaversStayAway` |
| | `ImportedWholeAlways`, `ImportedOnceAlways` | `ImportsSpec => []ImportedWhole`, `[]ImportedOnce` |
| | `ApprovedIsWrittenAlways`, `PromptsAreDueAlways`, `OneOpenInTurnAlways` | `FollowUpsSpec => []ApprovedIsWritten`, ... |
| `SyncProofs` | `CalendarShowsAlways` | `GoogleSpec => []CalendarShowsAppointment` |
| | `DeviceStaysSignedInAlways` | `SessionsSpec => []DeviceStaysSignedIn` |

The argument for `Bookings` has three layers.

1. *Arithmetic* (`ScheduleProofs`). A buffer is at most the margin, so spans
   that overlap are `Near` each other in both directions: the query misses no
   row that matters (`CollideIsOverlap`). Conflicts are symmetric.
2. *The inductive invariant* (`BookingsProofs`). `TypeOK` is not inductive: a
   commit writes a row that was built from an older one, so one needs that rows
   that exist have a positive length (`RowsOK`) and that every request in
   flight has one of the shapes its handler can give it (`HandlersOK`: phases,
   that an insert has an id of its own, that `resourceIds` contains the room of
   the service). `TypeInv` is their conjunction. `PromoInv` adds that a request
   that has been accepted with the promotion saw the present counter: whoever
   commits first dooms the others. `SnapshotsStillFit` is the heart: a write
   of anybody either keeps what an open transaction saw, or dooms it, or is
   recorded in `missed`.
3. *Commit* . At the commit, the missed rows are exactly those that
   `SerializationFailure` looks at, so an entry that passed fits among *all*
   vetted rows (`CommitFits`). Hence a commit is `Calendar`'s `Place`, every
   plain update is a `Release` or a stutter, and `BookingSafety` follows from
   `CalendarSafe` through the refinement.

Removing `SerializationFailure` from `TxCommit` makes `CommitFits` the step that
cannot be proved, as it should be.

For `Ledger`, each variable first gets one lemma that says in which ways a step
may change it (`CallStep`, `RowStep`, `RefundStep`, `EventsStay`, `IntentStays`);
the invariants are then shown from these lemmas, not action by action.
`LedgerInv` is inductive: `TypeOK` needs that what events and handlers carry
about a refund is about one that was made (`EventsReached`,
`MirrorsReached`), `SettledIsPaid` needs that every event or handler that is
about to settle a row or write a total belongs to an intent that succeeded
(`EventsPaid`, `RefundsPaid`, `CallsPaid`), and both need that a refund was only
asked for a row that exists (`CallsHaveRow`). `RowsMirrorStripe` follows with two
more parts, on Stripe's answers: the one kept under a key is for the amount of
that key and has been reached (`AnswersTrue`), and what a handler of
`refundPayment` is about to write is that refund (`AnswersMirror`).

`EndpointCountsExactly` is about a sum. A sum of amounts is defined as the number of
their cents (`SumCents`: the pairs of a refund and a cent of it), a cardinality, so that
what one more row adds (`SumWithOne`) and what leaves the sum as it is (`SameSum`) are facts about
finite sets and need no induction. `CountInv` says besides it that an event lists refunds of
its own charge (`EventsOfCharge`), that a webhook past its first write works on
payments that are marked as handled (`CallsHandled`), and
that no Refund row is without its payment row (`RowsHaveCharge`); so a total that no webhook has touched is changed by the
transaction of the endpoint alone, together with the row it adds.

For `Notices` the invariant has three layers. `QueueShapes` says in which form the steps of
a handler are (its write first, then the removal, then jobs to add), that a
job is active exactly while one worker holds it, and that what is held or gone is due.
`MailCounted`: a message counted once more than there were faults has its row in the delivery log
or is in the hands of a worker that is about to write it; so a retry suppresses it, whichever worker takes it.
`QueueCatchesUp`: of the handlers that follow a row at most one is in flight while nothing overlapped,
and for each reminder what is in the queue and what this handler has still to do
make up what the row calls for (`OnItsWay`). The clock is what makes it delicate: a job
may fall due between the write and the removal, and then runs and reads the new row.

For `Vouchers`, `VouchersInv` says that a redemption in flight holds a row that covered its
amount; serializability gives that this row is still the row when it is
written, so a commit is `Spend` of `Accounts`, and `Balanced` and `VoidIsFinal`
come down from the abstract account through the refinement.

For `Availability` the theorem is about a state: in every state that satisfies the
inductive invariant of `Bookings`, a time that is open passes both checks and one that is not
is refused. The argument is that both queries look far enough
(`BothLookFarEnough`: the margin of the transaction and the day of the slot page each return every row that
can collide), so both see the same blocking rows (`SameBlocking`), and that
the grid keeps a slot within the opening hours (`SlotHours`), so that the comparison
of times of day does not wrap (`TimeInDay`).

For `Subscriptions`, `RewardClaimed` says that only the handler whose update found the referral PENDING is
about to credit it. `Calm` says what each control point of a handler that runs alone relies
on: the row and the business as it read them, and the plan that was earned by then.

For `Campaigns`, `QueueInv` says that a campaign which has not gone out is not queued, and that
a request past its mark is the only one there: the update that is tied to the
status DRAFT lets one request through. `TurnInv` says that while sends do not
overlap the one request in flight counted less than the limit on a day that is
not later than today, so that there is room when it marks its campaign, also
when midnight has passed. What went out is counted in a history (`WentOn`), not in the rows, and `Standing` ties
the two: the row of what went out today still counts, unless it was removed today; without `inTurn` the step `MarkSending` has no such count, and
`campaign_limit` shows the limit broken.

For `Invoices`, `Numbered` says that at most one create is past its update of the sequence, with
the number that follows; `MailOf` says of an invoice on which handlers did not
overlap what its one handler has read: the update found a DRAFT, the mail carries
the present total, the mark has just been mailed.

For `Waitlist`, `InOrder` has two parts, since a client may join or leave between two queries of one
search: of a search under way, that no query made so far finds anybody who waited when it began
(`Sought`), because a query that finds nobody leaves none who waits, and nobody who left comes to wait again; and of
one that has found somebody, that whoever the same query would find now joined later (`Oldest`). `InTurn` counts
the openings: each is a job or the one handler on its way to make it.

For `Imports`, a confirmation in flight has read the batch that there is, and the addresses
of an imported batch are among the clients' (`ImportsInv`): a second confirmation is
refused by the unique index if any row has an address, and the batch is refused as a whole.

For `FollowUps`, `OwedOpen` says that a tracker which is owed a message is not cancelled, so no worker drops it;
`Orderly` says what is true between the steps of the one request in flight: no open tracker of a
kind between the replacement and the new one, none of the policy while it is deleted, and every
tracker of the scan scheduled and ripe.

For `GoogleSync`, `Tended` says that either the calendar shows the appointment and nothing is in flight, or one
handler runs alone and has in hand what its next step relies on (`InHand`, one case
per await): a change of status the status it found, a push the row it read, which
only a handler that ends the tending may change. A deposit that confirms what was to be shown already leaves
all of it in place.

For `Sessions`, the transaction of `issueTokens` is three steps, since at READ COMMITTED others commit between its
statements. `TokensApart`: a token that is to be stored is on no device and in no row. `RowsApart` and
`RowsLocked`: no two rows hold one token, and a row that a transaction has written is written by no other until
it ends. `ListedIsOld` is the heart: of the rows that a transaction is about to remove by their ids, each holds a token that
as many newer ones were signed after as are kept, unless another transaction has rotated it since, whose device is
then among those that the property excepts (`overtook`).

*Only model-checked:* `EveryCallReturns` and `RemindedUnlessWritten`, since liveness under fairness is
beyond the prover; and the refuted statements of section 3, which are no theorems.

## 5. What the model shows does not hold

Beside the refuted runs, these behaviours of the code were met while modelling. They
are in the models (as history variables in the guard of a property, or as steps that a
property excepts):

* A deposit that fails and then succeeds confirms an appointment whose time was released
  (`payments.service.ts:443`); an edit that keeps the time it read undoes a
  concurrent reschedule (`bookings.service.ts:1088`); two status changes that read one row
  reverse a final status (831); two providers may start one room service together (1342);
  preparation time that reaches back over midnight passes as late evening (1274).
* Notices: a type that has gone out once for an appointment is suppressed for good, where the comment at
  `notifications.processor.ts:257` speaks of two minutes; the comment at 256 says that jobs run
  once, while the queue's default is three attempts.
* Subscriptions: an event that read a grant before it was renewed overwrites it
  (`payments.service.ts:796`); a grant renewed between its end and the daily job makes the old
  grant's plan permanent (`verification.service.ts:347`); a new subscription row is
  ACTIVE by default (`schema.prisma:1226`), so opening a checkout blocks the administrator's endpoints.
* Google Calendar: two pushes that overlap make two events; a push after a removal
  brings the event back; the loop that retries sees no failure. A deposit that succeeds revives a cancelled appointment and
  pushes nothing (`payments.service.ts:443`), one that fails cancels an appointment whose event was pushed when it was made,
  and removes nothing (488; `bookings.service.ts:560`). `reschedule` and the endpoint that asks for a push do not look at the
  status, so the event of a cancelled appointment comes back (`bookings.service.ts:748`). `CalendarShowsAppointment` excepts
  these until the next push or removal that runs alone.
* Waitlist: cancellations that overlap may pick the same client, and one who leaves meanwhile is marked NOTIFIED. The six
  queries of a search are made one after another (`bookings.service.ts:1138`): one who joins after the first and wants exactly
  this slot is passed over for somebody whom a later query finds, also when nothing else overlaps.
* Campaigns: `remove` looks at no status (`campaigns.service.ts:64`), so a campaign that went out and is deleted on the same day
  counts no more, and another may be sent beyond the limit, also in turn. `LimitHoldsInTurn` leaves it out of the count of that day.
* Invoices: of two updates that overlap, the later takes back what the earlier gave (`invoices.service.ts:126`).
* Follow-ups: a tracker without a cadence, as every completed visit makes them, is closed by its own
  approval, and a worker that comes to the message after that drops it (`service-due.service.ts:87,98`,
  `notifications.processor.ts:1049`); the second and later messages of a tracker with a cadence are suppressed, since its
  key in the delivery log never expires (1042, 268), and the owner sees the next date set as if it had gone out. The scan
  writes DUE over a tracker that was moved, replaced or cancelled since it read it (392); `setDue` replaces the tracker of
  the same service and policy, where its comment (15) speaks of one per client.
* Imports: the `catch` of a unique violation cannot go on, since the transaction is spoilt;
  rows without an address are imported twice when two confirmations overlap.
* Sessions: an answer to a refresh that is lost signs the device out, since the old row is replaced. `issueTokens` removes
  the rows beyond the limit by the ids it has listed (`auth.service.ts:1359`, 1366): a refresh that rotates such a row in between
  has its new token removed, although it is the newest.
* Offers: the limit on how far ahead one may book is checked by `create` alone, and a client whose
  time zone is not the business's gets the days of the former.

## 6. Not modelled

Most of this repository's lines are user interface (the Next.js site and the Expo
app), mark-up of e-mails, validation of request bodies, demo data and tests: they
have no state of their own that several steps could bring out of order, and every rule they show is
enforced again by the API. The map therefore covers a small share of all
lines, and the larger part of those in the API that change shared state. Of the API itself:

* removing a provider, which moves appointments without a check: no guarantee of `Bookings` survives it;
* the wording of follow-up policies and the merge of clients, which hands their trackers over;
* client memberships, saved cards, payouts, the monthly allowance of fees;
* one-time codes, registration and social sign-in; the lock after failed attempts;
* the deletion of a client or a business, which removes appointments and leaves their events in the calendar;
* reading busy times from Google; split shifts and locations of the slot page;
* catalogue edits, messages, search, uploads, tenant scoping: one read or one write per request.

## 7. Plan

Done: all modules with their runs, and proofs of all their safety properties. Next, in this
order: the total of a payment after a refund has failed; the monthly allowance of fees; an abstract
specification of the reminders of an appointment, which `Notices` implements while nothing
overlaps.
