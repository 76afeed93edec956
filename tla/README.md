# A formal model of RWMS

RWMS is the backend of a workforce management system: a NestJS application
(`src/src`) over PostgreSQL (through Prisma), Redis, Kafka and BullMQ. This
directory holds TLA+ modules that model its components, TLC configurations that
check them on small instances, and proofs, checked by TLAPS, of theorems about
them for every value of their constants.

Several processes run the same code (API instances, the cron job and the BullMQ
workers inside each of them), and a request handler is a sequence of awaited
database, Redis and Kafka calls. The models therefore share one idea of a step:

* every awaited call is **one atomic step**, and any other process may act
  between two of them. No isolation level is configured, so Prisma uses
  PostgreSQL's default READ COMMITTED: a single statement sees committed rows, a
  `$transaction` commits its writes together, and a row read before a
  transaction may have changed when it writes;
* `{ increment: n }` and `{ decrement: n }` are relative updates, applied to the
  value the row has when the transaction writes it, while a value computed in
  the handler from an earlier read is absolute and overwrites;
* what the environment may do wrong (a crash, a failed call, an expired lock) is
  a parameter of the model, so that each property says under which faults it
  holds.

## Inventory

| Component | State it keeps | Operations | What is hard |
|---|---|---|---|
| Outbox relay (`infrastructure/outbox`, `kafka`, `redis`) | `outbox_events` rows, the Redis lock, Kafka | record an event; cron run: lock, fetch, mark, send, settle, unlock | overlapping runs, expiring lock, crash between steps, retries |
| Leave (`modules/leave`) | leave balances and requests | submit, approve, reject | check-then-act on balances, double review, rounding |
| Attendance (`modules/attendance`) | attendance records | clock in, clock out, correct | duplicate and double open records, lost updates |
| Kiosk (`modules/kiosk`) | devices, attendance records of offline batches | register, approve, sync a batch, heartbeat | resent batches, partial failure, order of records |
| Payroll (`modules/payroll`) | periods, payslips, the `payroll` queue | create period, generate, job per period | job versus request, rerun of a job, totals versus payslips |
| Authentication (`modules/auth`) | users' failed logins, locks and passwords, sessions, refresh tokens and revoked families in Redis | login, refresh, logout, change password | lost updates of a counter, rotation races, failures between Redis and PostgreSQL |
| Notification (`modules/notification`) | notifications, the `notifications` queue, the mail server | send, job per notification, mark read | row, job and message have no common transaction; rerun of a job |
| Identity (`modules/identity`) | workers | create, update, deactivate | uniqueness checked in code |
| Compliance (`modules/compliance`) | workers, audit logs | anonymise, list audit logs | one transaction over two tables, beside updates of the worker |
| Scheduling (`modules/scheduling`) | shifts, assignments | create shift, assign, roster | upsert with a partial update |
| Emergency (`modules/emergency`) | incidents | report (and record an event), resolve, list | event recorded outside the transaction |
| Tenancy (`modules/tenancy`) | tenants and their first rows | create tenant (and record an event), read | uniqueness race, event after the transaction |
| Realtime (`modules/realtime`) | socket rooms | join, broadcast | rooms nobody joins |
| Lists (queries of eight modules) | none | read a page and the total | pages counted while rows appear, leave and move |
| Analytics and daily attendance (`modules/analytics`, `attendance`) | none | key figures, trend, attendance of a day | counts at different moments; days in local time and in UTC |
| Demo data (`prisma/seed.ts`) | the rows of a demo company | a script of upserts, run by hand | dies anywhere and is run again; one step without a key |
| Common, config, health, metrics, storage | none that survives a request | guards, filters, interceptors | none |

How they interact:

* **Shared tables.** Payroll reads the attendance records, the salaries and the
  status of workers that other handlers write. Kiosk batches and the attendance
  API write the same records. Identity and compliance write the same worker rows.
  Every component reads `workers` or `users`.
* **Outbox.** Emergency and tenancy insert rows into `outbox_events`; the relay
  is the only reader and the only one that talks to Kafka. Nothing in the
  repository consumes the topics.
* **Queues.** Payroll and notification hand work to BullMQ; the consumer runs in
  some process of the API, at some later time, possibly twice.
* **Redis** holds the relay's lock, the refresh tokens and revoked families of
  authentication, and BullMQ's queues.
* **Calls between modules** otherwise go through the command bus within one
  process, one handler at a time.

What makes each component correct:

| Component | Properties |
|---|---|
| Outbox relay | PUBLISHED means that Kafka has the event; status and attempts agree; no row is stranded in PROCESSING; the lock excludes and is freed; copies are bounded; a new event is not overtaken by one that came after it; every event is settled |
| Leave | nobody takes more than the balance; the balance columns are the sums of the requests; a review is final; approved leave is charged |
| Attendance, kiosk | one open record; no repeated clock-in; hours agree with times; a correction stands; a batch that is sent again changes nothing |
| Payroll | open periods are disjoint; totals are the sums of payslips; nobody is forgotten; completed stays completed; what is queued gets paid |
| Authentication | too many failures lock; a lock stands; only who knows the password gets in; one usable token per login; logging out lasts; no client is left without a token |
| Notification | a row that says SENT is true, nobody gets more copies than the queue has tries, none stays PENDING for ever |
| Identity, compliance | a tap is credited to whoever made it; an anonymised worker stays anonymous; who was deactivated stays so |
| Emergency, tenancy | an incident or tenant that was committed has its event, and no event speaks of one that was not; a tenant is made as a whole, however requests race for its slug or its owner's address |
| Demo data | once the script has reached its end nothing that it makes is missing, wherever earlier runs died |
| Kiosk registration | an approved kiosk stays approved; a kiosk syncs only when it has been approved |
| Scheduling | the roster shows what was asked for last, once per worker and day, and the kiosks know its shifts |
| Lists, analytics | who reads page after page misses nothing; figures are true of some moment of the request; every record belongs to one day |

The full list of hazards, at their lines, is in `PROJECT.json`.

## Modules

| Module | Models | Rests on |
|---|---|---|
| `EventDelivery` | what the outbox promises to its users (abstract) | |
| `Outbox` | `outbox_events`, the Redis lock, Kafka and the runs of the cron job | refines `EventDelivery` |
| `OutboxOrder` | `Outbox` with a history of the order in which rows appeared | extends `Outbox` |
| `Leave` | balances, requests, submission and review | |
| `Attendance` | records, clock-in, clock-out, correction, kiosk batches | |
| `JobQueue` | a BullMQ queue with default options (a library, modelled from its use) | |
| `Payroll` | periods, payslips, the API calls and the job | extends `JobQueue` |
| `Accounts` | users, sessions, refresh tokens and the four requests that change them | |
| `Directory` | workers, their NFC cards and their anonymisation; kiosks, and the taps that they collect offline | |
| `Producers` | creating tenants, reporting and resolving incidents, and the events that both record | extends `EventDelivery`, which `Outbox` implements |
| `Seed` | the script that fills in a demo company, beside the requests of `Producers` | extends `Producers` |
| `Notifications` | notifications, the job that sends one, and the mail server | extends `JobQueue` |
| `Scheduling` | shifts, their assignment, the roster and what a kiosk is told | |
| `Lists` | the seven paged lists, read while rows are written | |
| `Reports` | key figures, attendance of a day, trend | extends `Lists` (for the properties of both) |
| `MCDesk` | one instance of the last six, which share no state | `Seed`, `Notifications`, `Scheduling`, `Reports` |
| `MCTime` | one instance of `Leave` and `Attendance`, which share no state | `MCLeave`, `Attendance` |
| other `MC*` | instances for TLC: definitions that the `.cfg` files put in for constants | the module of the same name |
| `Sums` | lemmas about sums of a function over finite sets, which `Leave` and `Payroll` speak of | `FiniteSetTheorems`, `TLAPS` |
| `DeskProofs` | theorems about the modules of `MCDesk` | `MCDesk`, `TLAPS` |
| other `*Proofs` | theorems and their proofs | the module of the same name (`OutboxProofs`: also `OutboxOrder`), `TLAPS`; those of `Leave` and `Payroll` also `Sums` |

`PROJECT.json` maps every definition to the lines it models. Definitions marked
"mutant" in a comment are not part of a model: each is a plausible bug, and the
property that it is meant to break is checked to break when it takes the place of
the definition that follows it.

All modules follow one scheme. A call of a handler, a run of the cron job or a
job is a member of a constant set; its program counter (`pc`, `op`, `clockOp`, `call[c].step`,
`run[k].step`) names the statement that it is about to execute, and further
variables hold what it has read and will use. What is a single row, a queue or a
key is a function. An early return is a step to idle; a request that is refused by
its first statement changes nothing and is left out, unless it is what a property
is about (`refused` in `Leave`).

A constant set says what may happen that the code does not prevent: crashes,
failing calls, which requests may overlap, what clients may send. Where a run checks
several such environments (`Environments`, `Weather`, `HabitSets`, `Bustles`), a
variable that never changes holds the one of the behaviour, chosen in the initial
state; a property names in its premise what it cannot stand. **An overlap that is switched off is an
assumption about clients, not something the code enforces**; each
property's comment says which it needs. The hazards in `PROJECT.json` at which the
code is known to break without the assumption say so in their notes.

### Outbox

| Code (`infrastructure/outbox/outbox.processor.ts`) | Model |
|---|---|
| `OutboxService.publish` | `Publish`: rows are numbered in the order of `createdAt`, and appear in any order (any instance inserts, and `createdAt` is fixed before the commit) |
| `acquireLock`: `SETNX`, `EXPIRE`; any error returns true | `AcquireLock`, `SetLockTTL` |
| expiry of the key after 30 s | `LockTimeout`: at any time with the fault "slow", otherwise only after its run ended |
| `findMany` (PENDING, attempts left, oldest first, 100) | `FindPending`, `Sendable`, `OldestOf` |
| `updateMany` to PROCESSING | `MarkProcessing` |
| the loop: `kafka.publish`, `update` to PUBLISHED, the catch | `KafkaPublish`, `MarkPublished`, `RecordFailure`, `Advance` |
| the outer catch | `GiveUpBatch` |
| `releaseLock` in `finally` | `ReleaseLock`: deletes the key whoever made it |

`batch[r]` keeps, for each event still to be handled, the attempts as `findMany`
returned them, since the updates write a value computed from them. A failing
statement may or may not have taken effect. `OutboxOrder` adds the history variable
`ahead[e]`, the older rows that the row of `e` found when it appeared: only of those can
one say that `e` must not overtake them.

### Leave

Each handler is two steps, the reads and the transaction: `SubmitCheck` and
`SubmitCommit`, `ReviewCheck` and `ApproveCommit` or `RejectCommit`. The
transaction's increments are relative to the row. Columns are DECIMAL(5, 1) and
days asked for are not: `Rounded` is PostgreSQL's rounding, and `Scale` is the
number of units of a day asked for in a tenth. `SentAs` is the id that the
controller passes as `workerId`. `may`, chosen once from `Environments` and then
fixed, says whether submissions to one account and reviews of one request overlap.

### Attendance and kiosk batches

One program counter per call goes through the three reads and the insert of a
clock-in, the read and update of a clock-out, the read and update of a correction,
or the entries of a batch one by one. `draft[c]` is what the call computed from
the record it read and will write there by id. A column that cannot hold the hours
makes the statement fail. Nothing checks the times in a kiosk's batch, which may be of the
future. Only `Tick` and `DeactivateWorker` come from outside.

### Payroll

`CheckOverlap`, `CreatePeriod`; `ReadPeriod`, `MarkProcessing`, `Enqueue`; and the
job: `StartRun`, `ListWorkers`, then `SumAttendance` and `UpsertPayslip` for each
worker, `CompletePeriod`, `ReturnFromJob`. The loop variable's amounts and the
running totals are fields of `run[k]`. A job throws (`ThrowFromJob`), or its lock
is not renewed and BullMQ queues it again (`LoseJob`), because the consumer died or,
with the liberty "stalls", because it was merely slow. `WorkerLeaves`,
`WorkerJoins`, `UpdateSalary` and `SetOvertime` are what other modules do to the tables
that the job reads. Workers are listed once per job: who is hired after that is not paid by
it, even if the period is completed much later; the history variable `roster[p]` keeps the
list of the job that completed `p`, and `NobodyForgotten` speaks of those. Amounts are
computed in units of which `Scale` make a cent and rounded when stored.

### Accounts

| Code (`modules/auth`) | Model |
|---|---|
| `LoginHandler` | `StartLogin` (reads, checks), then `CountFailure`, or `ResetFailures`, `CreateSession`, `IssueFirst`, `WriteAudit` |
| `RefreshTokenHandler` | `StartRefresh` (signature, family), `getRefreshTokenData`, then `revokeFamily`, or `RevokeExchanged`, `ReadUser`, `IssueNext` |
| `LogoutHandler` | `StartLogout` (any good refresh token or none: the handler does not compare its user), `RevokeGiven` (an error is caught), `CloseSession` |
| `ChangePasswordHandler` | `StartChange`, `WritePassword` |

`key[t]` is the Redis key of a refresh token together with the reason why it is gone.
`token[t].login` is a history variable: the login from which the token descends
through refreshes. The code does not know it, because every refresh starts a new
family and a new session id; the properties of chains of tokens need it. A family
is named for its first token, which makes ids unique as random ids are.

`may` is the environment, chosen once from `Environments` and then fixed: whether
requests of one user overlap, calls fail, passwords are mistyped, tokens expire, and
whether a token is sent again that has been exchanged (`Used`). The code answers the last
by revoking the family of that token, which no other token belongs to.

### Directory

| Code | Model |
|---|---|
| `CreateWorkerHandler` | `StartCreate` (the employee id is free), `CheckCard`, `InsertWorker` (refused by the index if the id was taken meanwhile) |
| `UpdateWorkerHandler` | `StartUpdate`, `UpdateWorker`: `Keep` is a column the request does not set |
| `DeactivateWorkerHandler` | `StartDeactivate`, `DeactivateWorker` |
| `AnonymizeWorkerHandler` | `StartAnonymize`, `AnonymizeWorker`: row and audit log in one transaction |
| `RegisterKioskHandler`, `ApproveKioskHandler` | `StartRegister`, `RegisterKiosk`; `StartApprove`, `ApproveKiosk` |
| a card held against a kiosk | `Tap` |
| `DeviceJwtStrategy`, `SyncBatchHandler` | `StartSync`, then `ResolveTap` and `RecordTap` per tap, `EndSync` |

`worker[w].personal` says whether the columns for name, e-mail and phone name a
person. `offline[d]` is what a kiosk has not had an answer for; each tap carries
its author in `by`, which the code does not know and the property needs. What a
credited tap does to attendance records is in `Attendance`. Since an answer may be
lost (`EndSync`), a batch may be sent again.

### Producers and Seed

`call[h].step` is the statement that a handler is about to execute: `FindSlug`,
`FindEmail`, `CreateTenant` (the transaction), `RecordTenant`; `InsertIncident`,
`RecordIncident`; `FindIncident`, `UpdateIncident`. `CreateTenant` fails as a whole on the
two unique indexes (`NoConflict`). `RecordTenant` and `RecordIncident` are
`OutboxService.publish`, which is `Accept` of the abstract outbox: what becomes of the
event afterwards is `EventDelivery`, and that `Outbox` implements it is checked and
proved there. So the two levels compose without the state of the relay.

`Seed` gives each statement of the script an action; `seed.step` is the next one and
`seed.todo` what a loop has left. `AddShift` is the request by which a user of the demo
company makes a shift while the script runs. The script and the requests write the same
rows: `Demo` is a slug like others, and `Admin` an address like others, so that a request
may have made the tenant or the account that the script finds.

### Notifications

| Code (`modules/notification`) | Model |
|---|---|
| `SendNotificationHandler` | `CreateNotice`, `AddNoticeJob` |
| `NotificationProcessor.process` | `TakeLetter`, `FindNotice`, `SendNotice` (`sendEmail`, `sendSms`, `StoredInApp`), `MarkSent`; the catch: `MarkFailed`; BullMQ learns how the processor ended: `EndLetter` |
| `NotificationController.markRead` | `MarkRead` |
| BullMQ with default options | `JobQueue`: a job that throws is not tried again, one whose consumer died is, once |

`mailed[n]` counts what the mail server has accepted; an error of its own may hide that it
did. `troubles` says what may fail. A consumer may die between the update of the row and
the end of the job: the job is repeated for a row that says SENT or FAILED already, which
the processor does not look at, so that a mail goes out again and SENT may become FAILED.
A mail to a recipient without address and a text message (`sms.provider.ts:20` sends
nothing) are marked SENT like a message in the application: that is what the code does, and
`SentIsSent` speaks of mails with an address only.

### Scheduling

`FindWorkerAndShift` and `UpsertAssignment` are the two statements of `AssignShiftHandler`;
the update branch (`Upserted`) changes the shift and leaves the factory. Dates are
instants, `DayLength` of which make a day: a client may send a time with the date, and then
there is a row for each. `asked` is a history variable, the assignment last written for
a worker and an instant as the planner meant it.

### Lists and Reports

Each of the seven list queries is a record of the conditions it puts on rows and of
those that an existing row may begin or cease to meet; otherwise they are one program:
`FindPage` and `CountRows`, two statements in any order, and `Answer`. A row fails at most one
condition, which stands for any number. The reader (`StartReading`, `IsLastPage`) is a
client as the answer invites one: it asks for the next page until a page is not full,
or, if it trusts `totalPages` (computed from `total` where the answer has none), until it
has seen that many. `reader.due` is what the query would have returned as a whole when
it began.

In `Reports`, `CountWorkers` and `CountActive` are two of the five statements of the key
figures. `DailyAttendance` and `Headcount` are the two ways in which the code assigns a
record to a day, in moments of which `DAY` make a day, on a server that is `zone` ahead of
UTC the whole year. `setHours` follows a clock that is changed in summer: where such a
clock is then on the other side of UTC (the Azores), a date is another local day in summer
than in winter, and on the day of the change a record may belong to no date or to two.

## What the runs check

Every run but those marked "violation" passes. The outbox is checked for deadlock,
with one exception: in `outbox_exclusive` the system really may stop, because a
process that dies between `SETNX` and `EXPIRE` leaves a lock without expiry that no
run ever takes again. In the other models everything comes to rest when the ids
(of records, requests, periods, tokens) that the instance bounds are used up.

| Run | Shows | Instance and faults |
|---|---|---|
| `outbox_exclusive` | `MutualExclusion`, `ImplementsDelivery` (refinement of `EventDelivery`), `OldestFirst`, `LockIsFreed`, `TypeOK` | 2 runs, 3 events that appear in any order, batches of 2, 2 attempts; sends fail, processes die (that `OldestFirst` also holds when runs overlap is in the theorem only) |
| `outbox_faults` | `RowsAreHonest`, `NoStranding`, `EventuallySettled` | 2 runs, 2 events; slow runs overlap and sends fail, or everything fails, the lock included |
| `outbox_duplicate` (violation) | `NoDuplicateProcessing` | a run slower than its lock |
| `time` | leave: `NoOverdraft`, `BalancesAreRight`, `ReviewIsFinal`, `TypeOK`; attendance: `OneOpenRecord`, `NoRepeatedClockIn`, `HoursMatchTimes`, `CorrectionStands`, `ClockTypeOK` | one of the two at a time. Leave: 2 calls, 3 requests, 2 accounts of which one is not found, 3 amounts of which two round; submissions, reviews or both overlap. `NoOverdraft` bounds the columns under overlapping reviews, and the leave itself (`LeaveFits`) without them. Attendance: 2 calls, 1 worker, 2 records, 4 moments, a window of 1, hours up to 2, one kiosk batch, whose times need not have come yet |
| `leave_double_review` (violation) | `PendingIsNotNegative` | two reviews of one request |
| `leave_endpoint` (violation) | `BalanceIsFound` | a worker who submits through the endpoint |
| `payroll` | `OpenPeriodsDisjoint`, `TotalsAddUp`, `NobodyForgotten`, `CompletedStays`, `QueuedIsPaid`, `TypeOK` | 2 calls, 1 consumer, 2 periods, 2 workers of which one may be hired at any time, 2 jobs; consumers die, jobs err, jobs get lost |
| `payroll_tax` (violation) | `TaxMatchesGross` | a job repeated after overtime changed |
| `accounts` | `CounterLocks`, `LockStands`, `OneTokenPerLogin`, `LoggedOutIsOut`, `ATokenWorks`, `LoginsAreAudited`, `TypeOK` | 1 user, 2 calls, 3 tokens, 2 sessions, 2 passwords, a limit of 2; six environments |
| `accounts_reuse` (violation) | `ReuseEndsTheChain` | a token that is sent again after it was exchanged |
| `directory` | `TapsReachTheHolder`, `ErasureStands`, `TypeOK` | 2 calls, 2 workers, 1 card, 1 kiosk, 2 of the 3 statuses of a deactivation; three environments, the last of which allows everything |
| `desk` | `NothingHalfDone`, `Announced`, `SentIsSent`, `NoticesSettle`, `RosterAgrees`, `AnswersAgree`, `DeskTypeOK` | one of the parts of `MCDesk` at a time, see below |

What the properties say is in the comments above them.

### Bounds

* **Outbox.** Two runs are what an overlap takes, since a run interferes with
  another only through the table and the lock. Three events with batches of two
  make a batch that does not take everything; two attempts distinguish a first
  failure from the last one. `MaxDeliveries` cuts off the sends that duplicate
  processing could repeat; in `outbox_exclusive` it is one above
  the attempts, so that a third copy could be seen.
* **Leave.** Two calls race on a row; the second may also be a series of calls that
  commit between the reads and the transaction of the first. Three requests are a
  pending one beside two that race. Amounts of 1, 6 and 8 units at four units a tenth are rounded down, up, and
  not at all; a total of two tenths is used up by two of them.
* **Attendance.** Two records and two calls are what a second open record or a
  lost update takes. Four moments leave room for a stay longer than the hours
  column, and a second clock-in inside and outside the window.
* **Payroll.** Two periods overlap; two workers let one be paid and one be left;
  one of them may be hired while a job runs (`Joiners` bounds who may);
  two jobs are a second generation; a job is repeated at most once because that is
  BullMQ's default. A salary of 3 cents and an hour at 1.2 % of it exercise
  both roundings.
* **Accounts.** Three tokens are a login and two refreshes, or two refreshes of one
  token that race (two of them where tokens expire while requests overlap, one where
  passwords are mistyped meanwhile); two sessions are two logins. A limit of 2 and a counter of up
  to 3 reach beyond the limit, which is what happens after a lock ended. One tick
  is the lock's end. There is one user: a logout that brings another user's token is in the
  proofs only, which are for any number of users.
* **Directory.** Two workers and one card are what a card that changes hands takes;
  two calls are a sync beside a request, or two requests that overlap. Taps are a
  set per kiosk, so that any number of taps of a card by a worker are one. The two
  statuses stand for the three, among which no handler distinguishes.
* **Desk.** The parts share no state (nor do the two of `time`), so a behaviour is one of
  a single part and the others rest in one initial state: the run checks the parts, not their product.
  *Tenancy*: two requests race for two slugs and two addresses, of which the script
  uses one each, alone with the relay (first environment) and beside an incident while
  statements fail and processes die (fourth); incidents meet the relay in the second one;
  in the third the script runs beside one request and both die. One shift beside the script's three
  shows a count that is not zero. *Notifications*: two of them, one consumer, mails
  with and without address and a text; two jobs, each tried twice; the mail server
  fails, or the request's own process and Redis, or the database, and consumers die in
  the first and the last case. *Scheduling*: one
  worker (an assignment touches one), two shifts in two factories, two planners, and
  three instants on two days. *Lists*: two rows and one that is inserted anywhere, pages
  of one and two, at most one optional parameter, each list by itself. *Reports*: two
  workers, one record around midnight, and servers west, at, and east of Greenwich.

### Fairness

Safety needs none. `outbox_exclusive` and `outbox_faults` assume
`Outbox!Fairness`: a run that can take its next step eventually does (the Node.js
event loop resumes every pending await); some run eventually tries to take the lock
while it is free (the cron job fires every five seconds, whatever became of
earlier runs); and Redis eventually drops a key whose time is up. Sends may fail
for ever, and nothing obliges anybody to record an event.
`EventuallySettled` holds because each failure uses up an attempt.
`payroll` assumes that a live consumer goes on (`WF` of `RunStep`): BullMQ's worker
loop takes a waiting job whenever it has none. It assumes nothing of the API
calls, of the faults, or of changes to workers and attendance.
`desk` assumes `NoticesFairness` (a request that has inserted its row goes on to add the
job, and a live consumer takes jobs and goes on) and `ProducersFairness` (handlers go on,
and the outbox settles what it has accepted: not an assumption about the code but what
`EventuallySettled` shows of it). Nobody has to send a request, run the script, die or fail.
`QueuedIsPaid`, `Announced` and `NoticesSettle` say `<>[]` of all periods, events or
notifications at once instead of leads-to of each: what starts to wait (a row, a job) does not go
away by itself and there are finitely many, so the two say the same, and the first
is much cheaper to check.

### Where the code and its documents disagree

1. **Two runs process one batch** (`outbox_duplicate`). The comment at
   `outbox.processor.ts:30` says "Distributed lock to prevent duplicate
   processing", but the lock expires after 30 s and is not renewed, while a batch
   of 100 sends has no time limit.
2. **A leave request is reviewed twice** (`leave_double_review`). The status is
   read before the transaction and not checked in it; two overlapping reviews both
   take the days from `pendingDays`, which becomes negative.
3. **A worker cannot submit leave** (`leave_endpoint`). The controller sends the
   user's id, the handler looks it up as a worker's id.
4. **The tax of a repeated payslip is stale** (`payroll_tax`). The update branch of
   the upsert writes gross and net pay and leaves the deduction labelled
   "Income Tax (15%)" as it was.
5. **A token that is sent again ends nothing** (`accounts_reuse`). The messages at
   `refresh-token.handler.ts:35` and `:44` say "Token family revoked due to suspected
   reuse" and "Refresh token reuse detected. Please login again.", but every refresh gives
   the new token a family of its own (line 59), so that what is revoked is the family of a
   token that is gone, and the tokens that came after it go on working.

## What is proved

`tlapm` proves the theorems below for all values of the constants that satisfy the
modules' `ASSUME`s: any number of runs, calls, users, events, records and any sizes
of batches, limits and amounts.

| Theorem | States | Needs |
|---|---|---|
| `OutboxProofs!TypeCorrect`, `RowsTellTheTruth` | `TypeOK`, `RowsAreHonest` | nothing: every fault allowed |
| `OutboxProofs!EventsGoInOrder` | `OldestFirst` | nothing: every fault allowed, rows appear in any order |
| `OutboxProofs!NothingStranded` | `NoStranding` | its premise: no "crash", no "database" |
| `OutboxProofs!LockExcludes` | `MutualExclusion` | its premise: no "slow", no "redis" |
| `OutboxProofs!CopiesAreBounded` | an event is in Kafka at most `MAX_ATTEMPTS` times | no environment has "slow" or "redis" |
| `OutboxProofs!RelayImplementsDelivery` | `Spec => Delivery!DeliverySpec` | also none has "database" |
| `LeaveProofs!TypeCorrect` | `TypeOK` | nothing |
| `LeaveProofs!NeverOverdrawn` | `NoOverdraft` | the premises of its parts: submissions to an account do not overlap; for the leave itself, reviews of a request neither |
| `LeaveProofs!ColumnsAreSums` | `BalancesAreRight` | nothing: every overlap (one of its parts has a premise) |
| `LeaveProofs!ReviewsAreFinal` | `ReviewIsFinal` | its premise: reviews of a request do not overlap |
| `AttendanceProofs!TypeCorrect` | `ClockTypeOK` | nothing |
| `AttendanceProofs!OneOpenAtATime` | `OneOpenRecord` | clock-ins of a worker do not overlap |
| `AttendanceProofs!NobodyClocksInAgain` | `NoRepeatedClockIn` | also that clock-ins are stamped on arrival |
| `AttendanceProofs!HoursAlwaysMatch`, `CorrectionsStand` | `HoursMatchTimes`, `CorrectionStands` | corrections of a record do not overlap with its other updates |
| `PayrollProofs!Control`, `NobodyIsForgotten` | the control invariant, `NobodyForgotten` | nothing: whatever overlaps, whoever is hired or leaves |
| `PayrollProofs!TypeCorrect` | `TypeOK` | nothing |
| `PayrollProofs!TotalsAreSums` | `TotalsAddUp` | neither calls to generate a period overlap, nor a job and its repetition |
| `PayrollProofs!CompletedIsFinal` | `CompletedStays` | calls to generate a period do not overlap |
| `PayrollProofs!OpenPeriodsAreDisjoint` | `OpenPeriodsDisjoint` | also creations do not overlap |
| `AccountsProofs!…` (seven theorems) | every property of the run `accounts` | what the property's own premise says |
| `DirectoryProofs!TypeCorrect`, `NobodyComesBack` | `TypeOK`, `NoWayBack` | nothing |
| `DirectoryProofs!AnonymousStaysAnonymous` | `ErasureStands` | its premise: no update together with or after the request |
| `DirectoryProofs!TapsAreCredited` | `TapsReachTheHolder` | its premise: requests for one card do not overlap, no update gives away another's card, a card is withdrawn after its taps are synced |
| `DeskProofs!SeedTypeCorrect`, `NothingIsHalfDone` | the types, `NothingHalfDone` | nothing: every environment |
| `DeskProofs!MailsAreCounted` | `NoticesTypeOK`, `SentIsSent` | nothing: every fault allowed |
| `DeskProofs!RosterShowsThePlan` | `SchedulingTypeOK`, `RosterAgrees` | the premises of its parts: how clients choose dates and factories |
| `DeskProofs!NothingMissed` | `ListsTypeOK`, `NothingIsMissed` | its premises: no condition of the query changes, no two rows are of one moment, and nothing is inserted while a reader trusts `totalPages` |
| `DeskProofs!ReportsAreTrue` | `ReportsTypeOK`, `FiguresAgree`, `EveryEntryOnce` | the premises of its parts: nobody is registered during the request; the server shows UTC |
| `DeskProofs!DeskTypeCorrect` | `DeskTypeOK` | nothing |
| `DeskProofs!AnswersAreTrue` | `AnswersAgree` | those of `NothingMissed` and `ReportsAreTrue` |

The inductive invariants and why they are needed:

* **Outbox.** `RowsInv` adds to the two properties of rows that whoever is about to
  settle an event has sent it (`SentBeforeSettle`). It survives overlapping runs
  because attempts in a batch are always below the limit, so that a stale value
  written back is still a legal one. `ExclusiveInv` says that only the holder of the lock
  works (`HolderRuns`), that runs without work hold no batch, and how the copies in
  Kafka relate to attempts (`CopyInv`: never more copies than attempts, one more
  while an attempt is being settled); the refinement follows from it action by
  action. `OrderInv` says that a batch has everything that is older than one of its
  events, was there before it and is untried (`NoneOvertaken`), which holds because a row
  that appears later is ahead of nothing that a batch has, whatever its `createdAt`
  (`AheadAreRows`).
* **Leave.** `TypeInv` (`CallsInv`, `OwnerInv`) ties what a call remembers to the
  rows. `NeverOverdrawn` needs `RoomForSubmits`: what a submission has checked is
  still available when it commits, because reviews never make less available. The
  rest is arithmetic of `Rounded`: a sum of tenths that fits unrounded fits
  rounded. `ReviewsAlone` says the same of the status that a review has read. `BalanceInv`
  adds to `BalancesAreRight` that the submitted requests are finitely many; then a step
  changes each sum by the one request that it is about. The leave itself (`LeaveFits`) is
  bounded because the columns are these sums when reviews do not overlap.
* **Attendance.** `HoursInv` says of every draft that it still fits its record
  (`DraftOK`) and that a correction has its record to itself (`Alone`); `OpenInv`
  says that whoever is about to insert has no open record (`NoneOpen`). `WindowInv` says
  of a clock-in under way that it is not older than any of its worker's, and out of
  their windows once it has looked (`Younger`).
* **Payroll.** `ControlInv` describes which periods calls, jobs and runs may refer
  to and in which status. `DisjointInv` extends disjointness to the period about to be
  created. `NobodyIsForgotten` rests on an invariant that says of each run that every
  worker whom it has listed has a payslip, is still to do, or is the one at hand.
  `AmountTypes` keeps every amount a natural number: the tax is never more than what is
  taxed. `JobsInv` says that a period has at most one job, a job at most one run, and that
  payslips come from a job; so a run that finds payslips is a repetition. `SumsInv` follows
  the totals of a run through its loop (`SumsSoFar`: up to half a cent for each payslip
  written so far, `Near`) and into the row. After a repetition it says so only if everybody
  with a payslip is still active (`AllAgain`), which is the premise of `TotalsAddUp`.
* **Accounts.** `TypeInv`, with the invariant that a request without overlap is its user's
  only one; `AccountInv` for counter, lock and password (what a login has
  read is still true); `WorksInv` for the life of tokens under any overlap (a token
  that is about to be revoked as reused is gone already, and every family holds one
  token, so that revoking it takes no working token away); `ChainInv` for the tokens
  of one login without overlap (at most one is good or in exchange).
* **Directory.** `TypeInv` adds to the types which calls work on workers and which on
  kiosks (`CallOK`). `AloneInv`: without overlap no two calls are for one worker or
  one card. `ErasureInv` adds that no update of an anonymised worker is under way.
  `CardsInv` says that a card has one holder and that the one a request is about to
  hand out has none or the same; `TapsInv`, that whoever made an outstanding tap
  still holds its card.
* **Tenancy and demo data.** `SeedTypeInv` says what a call works on at each step and that
  the script makes no more shifts than there may be. `WholeInv`: a tenant that a request
  made is whole, and no account belongs to a tenant that is not there. `EventInv`: whoever
  is about to record an event has committed its row. `SeedInv` lists, step by step of the
  script, the rows that must be there by then.
* **Notifications.** `AddingInv`, `QueueInv` and `MailInv` say where a notification is: it
  has its row, then its request is about to add its job, then it has that one job. With
  `SenderInv` (an active job has one consumer), `CopyInv` counts copies by stalls: one more
  only between send and end of the job. `TruthInv` carries "the mail server accepted it"
  from the send to the mark.
* **Scheduling.** `PlansInv` and `CellInv` say of the rows and of the requests under way
  that they keep to the clients' habits, so that the factory that the update branch
  leaves alone is the one asked for if workers stay in theirs.
* **Lists.** The rank of a row is the number of rows that are not older. If no two rows are
  of one moment, it is the place of the row in every answer of the database
  (`RankIsPlace`), and rows that are inserted only raise it (`RowsShiftOn`). So what a
  reader has still to see lies beyond the pages read so far (`DueInv`), and a page that is
  not full, or that reaches a total which nothing has changed, is the last one. `PagesInv`
  bounds the pages by the rows.
* **Reports.** `FiguresInv`: nobody becomes active again, so that, while nobody is
  registered, what the two counts differ by is the number of inactive workers when the
  active ones were counted. For the days no invariant but the types
  is needed: those that the handler lays around the dates are the days of a clock that is
  ahead by less than one day (`DaysBegin`).
* **Desk.** A step of one part leaves the others alone (`PartsStep`), so that the
  invariants of all parts together are inductive.

Induction over finite sets, which the sums need, is made in `Sums` without an operator as
a parameter: the sets for which a claim fails are a set, and of the subsets of a finite set
one is smallest (`SmallestSet`, from the library's theorem that strict inclusion is well-founded).

## What is only model-checked

* Liveness: `EventuallySettled`, `LockIsFreed`, `QueuedIsPaid`, `Announced`, `NoticesSettle`.
  Fairness and `ENABLED` are
  out of the prover's reach.

Every safety property that a passing run checks is also a theorem. Beyond the types of the
constants, the `ASSUME`s of the modules say that what the code counts and adds up is finite
(`Attendance`, `ListedRows`, `People`; the rows of a table are) and that null (`Unset`) is
no number, page or condition.

## What is not modelled

* Guards, interceptors, filters and DTO validation are functions of one request; so is
  the choice of the tenant by the middleware. Every model but `Producers` is one tenant.
* Metrics, health and object storage change no state. Queries for one row are single
  statements. Of the reports, sums of hours, pending requests and open incidents are left
  out: nothing is compared with them. The trend ignores its granularity, and the roster the
  department, that they are asked for.
* Realtime rooms die with the process and nothing calls the broadcasts. Nothing
  dispatches `SendNotificationCommand` either, but its handler and its consumer are
  complete, so that `Notifications` takes the commands from its type.
* The one-time password service is called by nothing.
* Migrations are generated.
* Of incidents, who resolved one (a second resolution overwrites the first, and the notes
  of a resolution are dropped by the handler). Of kiosks, the heartbeat columns and the
  token that an approval signs and stores. Refreshing a token makes up a session id
  without a row; what that means for the list of sessions is not stated as a property.
* Kiosk batches are modelled in `Attendance`, but nothing is promised about a batch
  that is sent twice; nor about a period that is created again after it was completed,
  which the code allows on purpose.

## Plan

1. `EventDelivery`, `Outbox`, `OutboxProofs`: **done**.
2. `Leave`, `LeaveProofs`: **done**.
3. `Attendance`, `AttendanceProofs`, `JobQueue`, `Payroll`, `PayrollProofs`: **done**.
4. `Accounts`, `AccountsProofs`: **done**.
5. `Directory`, `DirectoryProofs`: **done**.
6. `Producers` on `EventDelivery`, `Seed`: **done**.
7. `Notifications` on `JobQueue`, `Scheduling`, `Lists`, `Reports`; `DeskProofs` for these and for 6: **done**.
8. `Sums`, and the theorems about totals, pages and figures: **done**.
9. What a kiosk's batch that is sent again may and may not do, as a property of `Attendance`:
   the model lets it happen already.
