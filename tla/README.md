# daraja-studio in TLA+

A model of the parts of daraja-studio that decide what happens to money: what leaves
(`server/src/money_out`), what arrives (`server/src/collect`, `money_in`, `invoices`), what is passed
on or paid on a date (`sweep`, `schedules`), under which credential (`operators`), for which account
(`businesses`, `routing`), and what the apps that ask for it are told (`http/idempotency.ts`,
`webhooks`). The modules are model-checked with TLC on small instances, and the most important results
are proved with TLAPS for every value of the constants.

All paths below are relative to `server/src` unless they say otherwise.

## The system and what was found in it

### Components, state and operations

| Component | Its state | Its operations |
| --- | --- | --- |
| Money out (`money_out/service.ts`) | `requests` rows of type b2c/b2b: status, our identifier, Safaricom's, operator, polls, who approved | create, hold, release, refuse, expire, attempt, record an outcome, move to another operator, sweep, poll, mark checked |
| Result callbacks (`callbacks/apply.ts`, `status.ts`, `b2cTimeout.ts`) | none of their own: they write the rows | apply a result, apply a status answer, apply a queue timeout, start a failover |
| Reversals (`money_out/reversal.ts`, `callbacks/reversal.ts`) | `requests` rows of type reversal, one receipt each | request, hold, attempt, record an outcome; released, refused, moved and polled by money out |
| Operators (`operators/service.ts`, `money_out/operatorHealth.ts`, `operatorLock.ts`) | `operators` rows: status, priority, consecutive failures; probes; the in-flight slot, a lease in `cache` | add, probe, rotate, disable, answer, time out; count a refusal, clear the count; take and give back the slot |
| Collect (`collect/service.ts`) | `requests` rows of prompts | ask, record Safaricom's answer, give up after fifteen minutes |
| Money in (`money_in/record.ts`, `link.ts`) | `requests` rows of confirmations, the links between both | record a confirmation, link by receipt, link by inference, undo a wrong inference |
| Invoices (`invoices/service.ts`) | `customer_invoices`, payments of theirs | send one or many, cancel, apply a push, record a payment by hand |
| Sweep-through (`sweep/service.ts`) | `sweeps`, `sweep_payments`, `sweep_settings` | reconcile, work out what is owed, hold, prepare, claim, send, note, stop |
| Scheduled payments (`schedules/service.ts`, `timetable.ts`) | `schedules`, `schedule_lines`, `pay_runs`, `pay_run_lines` | create, edit, pause, resume, stop, pass, retry, reconcile; the next date of a timetable |
| Bulk sends (`money_out/bulk.ts`) | `bulk_plans` with their results | create, drain, retry |
| Jobs (`db/jobs.ts`, `scheduler/loop.ts`) | `jobs` rows and their locks | enqueue, claim, complete, fail, rearm |
| Idempotency (`http/idempotency.ts`) | `idempotency_keys` | claim, take over, replay, store, release |
| Webhooks (`webhooks/*`), events (`events/hub.ts`) | `webhook_deliveries`; a LISTEN connection | enqueue, dispatch, retry, clear; publish, reconnect |
| Businesses, accounts, routing (`businesses/*`, `routing/claims.ts`) | businesses with their codes, accounts with their numbers, `number_history`, `route_claims` | add, delete, mint, claim and release a word, read what a payer typed, assign a payment |
| Sign-in (`auth/*`) | sessions, `login_attempts` | count an attempt, lock, clear |

`PROJECT.json` lists these and the rest (settings, people, reports, notifications, the web console)
with what is modelled of each and why the rest is not.

### How they interact

* Everything meets in PostgreSQL. There is no in-memory lock: a handler, a job or a request runs as
  a sequence of single statements, each atomic, and what keeps two of them apart is the `WHERE`
  clause of an `UPDATE`, a unique index or an advisory lock.
* Safaricom is called over HTTP and answers twice: with an acknowledgement at once, and with a
  result posted to a callback address later. Either may be lost, late, or arrive first, and a result
  may be posted again.
* Recurring jobs (a sweep of money out every thirty seconds, a pass of sweep-through every minute,
  the expiry of approvals) run in every server process, and a job older than five minutes is taken
  over.
* Sweep-through, scheduled payments and bulk sends send through money out: `moneyOut.send`. They
  read the row they got back, now or when they reconcile. A reversal is released, moved to another
  operator and polled by money out as if it were a payment.
* Sweep-through pays out what money in counts (`countedIn`), so what money in counts twice is paid
  out twice. For whom it counts is what `businesses/match.ts` read in the reference.
* An app calls money out through the idempotency middleware, whose key and money out's duplicate
  guard (same recipient and amount within five minutes) are two different promises; it is told the
  end of a payment through an event, a queued delivery and a dispatcher.

### What is hard here

Callbacks that overtake the acknowledgement or repeat; a refusal that puts a row back in flight and
sends it under another operator while answers about the first attempt still come in; a crash between
Safaricom's acceptance and the note of it; two transactions that choose the same prompt; sums read
in several queries while another pass writes; a row that says *not sent* about money that is on its
way; leases and claims that run out under whoever holds them; a probe answered after its credential
was replaced; a cascade that deletes more than was read. `PROJECT.json` lists the hazards at their
lines, each with the properties that watch it.

### What makes each component correct

* Money out: a payment moves money at most once; it is called failed only if it moved nothing and
  never will; nothing at or above the threshold leaves without a second person; nothing turned down
  leaves at all; a settled payment stays settled; every payment ends.
* Reversals: of all requests to take one receipt back, Safaricom takes the money for one at most.
* Operators: a refusal never hands the payment to an operator that refused it; one refusal does not
  take an operator down; what reads as verified is the credential of now; off stays off; nothing
  stays pending; two sends under the slot are never at Safaricom at once.
* Money in: a prompt and its confirmation name each other or nobody; money on record is counted
  exactly once; a prompt and its confirmation end up joined.
* Invoices: a receipt pays once; what an invoice says is paid is the sum of its payments; no number
  is given to Safaricom twice.
* Sweep-through: a payment leaves at most once; a business is never sent more than arrived for it; a
  sweep called failed or held has moved nothing; one pass fits in the float it read; every prepared
  sweep ends.
* Scheduled payments: a line of a date is asked for at most once; a run that reads as refused or
  missed has paid nobody, a line that reads as failed was not paid, a run that reads as ended is over;
  a schedule that is on has a next date; nobody forgets a run; what is paid is what the timetable
  names, no date twice and none left out.
* Bulk sends: a row has at most one payment of the batch standing; a row reported as not sent has
  none; a batch that reads as being sent has a job, and ends, unless the job was given up or never queued.
* Idempotency: one key, one payment; no claim is held for ever; the duplicate guard holds whatever
  happens to the claims.
* Webhooks: the end of a payment is told unless its event was lost; a notice stays pending
  only if passes throw for ever.
* Accounts and routing: what a payer is told to type reaches that account; what starts with an app's
  prefix is nobody else's; a released name names nobody else for a year; who had a number is on record.

## The modules

```
Payment            what an outgoing payment promises (abstract)
  ^ implemented by                 ^ used as the payout of a sweep,
                                   the payment of a scheduled line
OperatorPool <- MoneyOut       SweepThrough, ScheduledPayments        MoneyIn

JobQueue <- BulkSend   OperatorGate   OperatorProbe    AppCalls   Webhooks
Invoices   Reversals   Accounts   Timetable

Proofs             about
  MoneyOutProofs           MoneyOut, OperatorPool
  MoneyInProofs            MoneyIn
  SweepThroughProofs       SweepThrough
  ScheduledPaymentsProofs  ScheduledPayments
  OfficeProofs             OperatorGate, OperatorProbe, BulkSend
  AppsProofs               AppCalls, Webhooks
  DeskProofs               Invoices, Reversals, Accounts, Timetable
  Sums                     sums over finite sets, for SweepThroughProofs and DeskProofs
```

Each of `MCMoneyOut`, `MCMoneyIn`, `MCSweepThrough` and `MCScheduledPayments` extends the module it
checks. The smaller components are checked together: `MCApps` (`AppCalls`, `Webhooks`), `MCOffice`
(`BulkSend`, `OperatorProbe`) and `MCDesk` (`BulkSend`, `OperatorGate`, `Invoices`, `Timetable`,
`Accounts`, `Reversals`). They share no state, so such a module has a variable `part`, chosen at the
start, and a behaviour is of that part while the others stay as they began: the state spaces add up
and do not multiply. The `.cfg` files give the constants their values.

### Payment

The promise. A payment is asked for, may wait for a second person, is in flight until it is settled,
and is paid at most once, only while in flight. *Completed* is what was paid; *failed* is what was
not and never will be. `MoneyOut` implements it (`KeepsPromise`), and `SweepThrough` uses it as the
payout of a sweep and `ScheduledPayments` as the payment of a line, so that their state spaces do not
hold the whole of money out.

### OperatorPool

Pure definitions over a sequence of operators in order of priority: which one the next attempt goes
out under (`FirstOperator`, for `pickOperator`), and what a refusal or a success does to its count
(`AfterRefusal`, `AfterSuccess`, for `money_out/operatorHealth.ts`: a second refusal in a row takes
an operator down).

### MoneyOut

`row` is the table, `tasks` what a continuation of the server holds between two statements (a phase
for every place where `attempt`, `createAndDispatch` and `failover` may stop), `due` the status
queries about to be asked, `wire` what Safaricom knows of each attempt, `queries` the status queries,
`pool` the operators.

| Action | Code |
| --- | --- |
| `Create`, `Hold` | `createAndDispatch`: the insert, then the statement that puts the row to wait |
| `Release`, `Refuse`, `ExpireApproval` | `release`, `refuse`, `expireApprovals` |
| `CallAccepted`, `CallNotAccepted` | the HTTP call of `attempt` |
| `RecordAck`, `RecordUnconfirmed`, `RecordDeclined`, `RecordRefused` | the four ways `attempt` ends |
| `AckThrew` | its catch, when the acknowledgement could not be stored |
| `MoveOn`, `Failover` | `nextOperator` with `moveRow`, from the sender and from the result |
| `ResultPaid`, `ResultFailed`, `ResultRefused` | `applyResult` |
| `QueueTimeout` | `b2cTimeoutHandler` |
| `SweepExpire`, `SweepSelect`, `Ask`, `RecordQuery`, `PollOne`, `MarkChecked` | the thirty-second sweep, `pollTarget`, `recordStatusQuery`, `pollOne`, `markChecked` |
| `StatusResult`, `StatusDirect` | `statusHandler`, through a query row or onto the row named directly |
| `Disable`, `Reinstate`, `Crash` | `disable`, a probe that succeeds, a restart |

Where a statement is guarded by a status, `UpdateWhere` is the guard; an `UPDATE` that matches no row
still lets the continuation go on, as in the code. An identifier is never a string: an attempt is a
number, and what Safaricom quotes is that number with the form (`keeps` ours, `assigns` its own).
Counting a refusal, picking the next operator and moving the row are one action: the statements in
between are reads and a write of the `operators` row whose other writers are modelled, and a pick
that is stale by the time it is used is refused by the code itself (`nextOperator` reads the status
again). `Around` is the set of things that may happen around the server, so that a run can say which
of them it is about.

Left out: the v3-to-v1 fallback on a gateway refusal (which by its definition reaches nobody), the
five-minute duplicate guard and the operator's slot, which have modules of their own, amount
mismatches and texts. Without the slot attempts overlap more than in the code.

### Reversals

Every request is about the same receipt: requests of different receipts do not meet. `reversals` are
the rows, `hands` what the request, the release or the failover holds between two statements, `taken`
what became of each attempt at Safaricom. The differences from `MoneyOut` are the module's reason:
Safaricom's reversal API takes no identifier of ours, so an answer finds its row only through the one
the acknowledgement gave (`acked`, `Named`), and the guard of `request` counts a row as over only when
it is failed, cancelled or rejected (`OutOfPlay`).

| Action | Code |
| --- | --- |
| `RequestReversal`, `HoldReversal` | the locked guard and insert of `request`, and the statement that puts the row to wait |
| `ReleaseReversal`, `TurnDownReversal` | `release`, `refuse` and `expireApprovals` of money out |
| `CallReversal`, `RecordReversalAck`, `RecordMaybeQueued`, `RecordNotSent` | the call and the ways it ends |
| `NextOperatorTakes`, `NobodyElseTakes` | a credential refusal, with and without another operator |
| `ReversalResult`, `ReversalRefused`, `ReversalTimeout` | `applyResult` through `reversalHandler`, `reversalTimeoutHandler` |
| `StatusSays`, `PollsRunOut`, `Restart` | `statusHandler`, the end of polling, a stop of the server |

### OperatorGate

One operator: its status and count, Safaricom's count of wrong passwords, the cache row of the slot,
and the sends. A send picks the operator, takes the slot (`TakeSlot`) or stops waiting
(`GoWithoutSlot`), calls, counts a refusal and gives the slot back by its ticket (`ReleaseSlot`).
The lease and the wait run out with `Moment`. All of it is inside one failure window of ten minutes.

### OperatorProbe

One operator and its credentials, numbered; Safaricom accepts some. `tests` are the calls of `probe`
at each of its statements (read, supersede the older probe, call, write the row, the job and the
pointer), `probes` the acknowledged queries with their rows and timeout jobs, `disabling` the next
statement of `disable`. The answer (`balanceHandler`) and the timeout (`timeoutHandler`) come in any
order with them. Left out: the job that acknowledges an operator, and the pointer of the sandbox's
sign-up.

### MoneyIn

`prompt` and `confirmation` are the two kinds of row, `joining` the transaction that holds a
receipt's advisory lock, `calls` the senders waiting for Safaricom, `linking` the receipts between a
prompt's completion and `linkPromptReceipt`, `phone` and `money` the customer. A transaction is two
steps: it chooses a partner (`RecordBegins`, `LinkBegins`) and writes (`Commits`) or is aborted by a
unique index of migration 049 (`Aborts`). All prompts ask for the same amount under the same account
number: that is the case the inference has to tell apart. Labels and names are left out.

### Invoices

`invoices` and `receipts` are the rows of one account reference, `told` how often Safaricom was given
each number, `work` what a request or a callback has in hand. A lock is what it keeps out: a task
inside a transaction holds its receipt (`ReceiptFree`), its invoice (`InvoiceFree`) or the numbering
(`NumberingFree`) until it commits, and the choice of an invoice (`ReadPush`, `ReadByHand`) comes
before all of them, as in `applyPush`. Cancelling asks Safaricom first and writes afterwards. Opting
in to Bill Manager and the reminders are left out.

### SweepThrough

`sweeps` is the table with the claims of each row, `passes` what each running pass keeps in memory,
`stage` and `paidBy` the payouts as `Payment` describes them.

| Action | Code |
| --- | --- |
| `Begin` | `reconcile`, with which a pass begins |
| `ReadPayments`, `ReadClaimedSum`, `ReadClaimedList`, `Consider` | the three queries of `owedOf`, the first in parallel with the other two |
| `ReadingEnds` | the float, chosen where it is first used |
| `Skip`, `Hold`, `Prepare` | the rules of `run` in their order, `hold`, the insert of `sweepOne` |
| `Claim`, `Send`, `Note`, `Threw` | the claims, `moneyOut.send`, the update that notes it, the catch |
| `Arrives`, `Assign`, `SetStopped`, `ClockMoves`, `FiveMinutesPass`, `Crash`, `PayoutMoves` | money in, `businesses/service.ts` `assign`, `setStopped`, the clock, the age of a prepared row, a restart, money out |

A window is a number, and the clock begins in any of them; all businesses are due in every window; the
clock may slip back. Reconciling is
one step: its updates are guarded row by row, and only they change what they read. The reads of
`hold` are merged with its insert: the insert is guarded by the unique index. The fee is a flat one
(the percentage is the same subtraction with other numbers). The branch `lost` of `reconcile` (a
payout row that was deleted) is left out: nothing deletes one.

### ScheduledPayments and Timetable

`schedules`, `lines`, `runs` and `copies` are the four tables of migration 048, `saves` what a request
of an owner has still to write, `workers` what a pass or a retry keeps in memory: the schedules it read
and has not come to, the run it is at, the lines it is about to copy or to send. `again` collects the
payments that were asked for a second time.

| Action | Code |
| --- | --- |
| `Create`, `Edit`, `WritesRow`, `Clears`, `Adds` | `create` and `update`, whose lines are deleted and inserted one by one in no transaction |
| `Pause`, `Resume`, `Resumes`, `Stop` | the same names; `resume` reads the timetable in one statement and writes the date in another |
| `Begin` | `reconcile`, and the schedules that are on |
| `Leaves` | a schedule not due, or one that waits for a fresh reading of the float |
| `Inserts`, `Advances`, `Copies` | the insert that may lose the date to another pass, `advance`, the copy of the lines |
| `Refuses`, `Goes` | `attempt` with `refuse`, or with the start of `sendLines` |
| `Calls`, `Notes`, `Threw`, `AllSent` | the loop of `sendLines` |
| `Retry` | the flip of a refused run; what follows is the same as in a pass |
| `End` | the `reconcile` with which a pass and a retry end |

A date is the moment its payment falls due, as a number; a timetable is the set of its dates. A line
is a payee with the request that wrote it, so that two edits at once leave two lines of one payee, as
in the table. Whether the float covers a run, and whether a contact was deleted, are free choices. The
clock is read wherever a step needs it, where the code takes one reading per pass: the model does more.
`reconcile` is one step, and so is the copy of the lines, which nobody else reads before the run is
sent; a run that loses its pass while copying is lost either way. The alert that tells the owner of a
run is part of the statement that settles it. A crash also stands for an exception that ends a pass.
The module switch is left out.

`Timetable` is the arithmetic that makes the set: `nextOccurrence`, `payDateOf` and `firstToCome` over
a calendar given by the lengths of its months, so that a small calendar has the short months, the
weekends and the fortnights of a long one. A schedule is set up at some moment, hours pass, and what
is due is paid. `PaysItsDates` compares it with a definition of the dates that does not step from one
to the next. A month is longer than a weekend, and the calendar goes on for a fortnight and for the
beginning of a month after every day the bounds let be asked about, so no date is missing because the
calendar ends (`CalendarGoesOn`).

### JobQueue and BulkSend

`JobQueue` holds what a claim, a completion and a failure do to a job's row, as functions. `BulkSend`
is a batch, the people who press, the jobs that drain it and the workers that claim them. A press of
*Try again* is three statements under no lock (`presses`): `retry` reads the batch and checks what it
read (`ReadAgain`), writes it back by its id alone, without the results worth trying again
(`WriteAgain`), and queues a job (`Enqueue`); another press may come in between. A worker reads the
batch (`Load`), and for each row without a result `moneyOut.send` is called (`SendAnswered`,
`SendRefused`, and `SendThrewLate` when it throws after its request was written), and all the results
known are written (`Note`). `Around` names what breaks the promise: a fault between a send and its note
(`noting`), after the batch's end (`ended`) or between the batch and its job (`queueing`), a worker
that outlasts its lease (`slow`), a send that throws late (`lateThrow`). Faults elsewhere are always
there. Recurring jobs are left out; the passes they start overlap freely in `SweepThrough` and
`ScheduledPayments`.

### AppCalls

Calls of an app under one key. The rows of `idempotency_keys`, and per call what it has in hand at
every statement of the middleware: the insert that claims, the read of what is there, the takeover of
a claim older than sixty seconds, the handler with money out's guard under its advisory lock
(`Check`, `Write`), the stored answer. A dropped connection releases the claim while the handler runs
on; a store may fail; the server may stop. Each of these, and a handler slower than its claim, counts
as a disturbance.

### Webhooks

From a change of a payment to the app: `Publish`, the writer that reads the payment when it handles
the event (`HandleEvent`, `EnqueueNotice`), and passes of the dispatcher that read what is pending and
post it (`BeginDispatch`, `Post`) without keeping the rows: what a pass has read is a set of rows with the
number of tries each had. A handler may throw, and its event is gone (`WriterThrows`); a statement of a
pass may throw, and then the row's try is not counted and the rest of the pass is dropped
(`PostThrows`). A person retries, clears, and switches the
developer side off. How long a try waits is left out.

### Accounts

`codes`, `accounts` and `claims` are the three tables a reference is read with, `clerks` the requests
between two of their statements, `numberHistory` the accounts on record there, and `worn` who let which
name go within the year (kept only to state `NameHeldBack`). A reference is a sequence of digits and
letters. A code is no longer than the block of an account (`CodeLength \in 1..FirstWidth`): in the source
both are of three digits, and `mint` leaves room for a code of the block's length.

| Definition | Code |
| --- | --- |
| `Nines`, `Width`, `Levels`, `ResolveTail` | `readNumber`, `resolveTail`: the width of a number is its leading nines |
| `ReadOnly`, `ReadAmong`, `FiledUnder` | `parseAccount` with one business and with several, `matchAccount` |
| `HeldBack`, `Conflict`, `ClaimName`, `ReleaseName`, `AddClaim`, `DropClaim` | `route_claim_conflict` and the trigger of migration 052, `routing/claims.ts`, `configfile/plan.ts` |
| `AddBusiness`, `BeginDeleteBusiness`, `DeleteBusiness` | `create`, and `deleteBusiness`, which reads the count of accounts before its transaction |
| `BeginMint`, `WithRoom`, `Mint`, `MintRefused` | `addAccount` and `addSubAccount`, `widthWithRoom`, `mint` |
| `BeginDelete`, `ReadChildren`, `DeleteAccount` | `deleteAccount`: the sub-accounts are read and locked, recorded, and deleted with whatever else is under the account |

`Beside` names two things that happen beside a deletion and break what it promises (below). Left out:
accounts an app opens by its own reference, aliases of an app, the counters of `number_widths` (which
repeat the live count), and edits of names, phones and notes.

## What the runs check

| Run | Instance | Shows | States |
| --- | --- | --- | --- |
| `money_out_callbacks` | one payment, two operators, two attempts, one query, one crash; results overtake, repeat, come late; an operator may be switched off; an acknowledgement may fail to be stored; Safaricom assigns identifiers | `SecondPerson`, `RejectedNeverSent`, `SettledStays` | 947,610 |
| `money_out_orderly` | the same with results in order; an operator may be reinstated; our identifiers are kept | `InFlightIsCurrent`, `PaysOnce`, `FailedNotPaid`, `KeepsPromise` (refinement of `Payment`), `EveryPaymentEnds` | 223,507 |
| `money_out_redelivered` | three attempts, results repeat | a violation of `PaysOnce` | |
| `money_in_races` | two prompts, two payments, one crash, everything in `Around` | `MutualLinks`, `ReceiptLinkStays` | 464,436 |
| `money_in_orderly` | two prompts answered in order, transactions overlapping | `CountedOnce`, `PairsMeet` | 29,297 |
| `sweep_two_passes` | one business, two payments, two windows, two passes, one crash | `SweptOnce`, `NeverOverpaid`, `UnsentMovedNothing` | 1,184,520 |
| `sweep_two_businesses` | two businesses, one float, a fee and a charge, one crash | `WithinFloat`, `SweepsEnd` | 209,064 |
| `sweep_crash` | a crash between the payout's row and the note of it | a violation of `SweptOnce` | |
| `schedules_two_passes` | one schedule, one payee, two passes or retries, one owner at a time, a clock that slips back or past the date, one crash | `PaidOnce`, `UnsentPaidNobody`, `FailedLineNotPaid`, `NobodyForgets` | 866,868 |
| `apps_calls_and_notices` | two connections under one key, one disturbance, a key's whole life; two deliveries, two passes, two tries | `KeyPaysOnce`, `PaymentsApart`, `EndIsTold`, `KeyIsFreed`, `NoticeEnds` | 193,876 |
| `office_batches_and_probes` | a batch of one row, two workers, two throws or crashes wherever they fall, which is as many as a job has attempts; it is drained once with everything in `Around`, or tried again by workers that keep their leases; two tests at once, two credentials of which one is good, one stop | `VerifiedIsCurrent`, `SendingHasJob`, `BatchEnds`, `OffStaysOff`, `PendingEnds` | 706,935 |
| `desk_books_and_dates` | a batch of two rows beside a send by hand; three sends and a slot; two invoices, two receipts, two requests; every timetable of a calendar of short months; two businesses, three accounts, two clerks, one word and one prefix; three reversals with two operators and a restart | `RowSentOnce`, `OneInFlight`, `BooksAgree`, `ReceiptOnce`, `PaysItsDates`, `AddressReaches`, `HolderRemembered`, `TakenBackOnce`, `NameHeldBack` | 665,694 |

Eight more configurations are kept beside the runs, each for one disagreement told below:
`MCMoneyOutSlowAnswer.cfg`, `MCMoneyOutDisabled.cfg`, `MCMoneyOutDbError.cfg` (with `MCMoneyOut`),
`MCMoneyInDirect.cfg` (with `MCMoneyIn`), `OperatorGateBurst.cfg` (with `OperatorGate`), `BulkSendPresses.cfg`,
`BulkSendLateThrow.cfg` (with `BulkSend`) and `WebhooksThrow.cfg` (with `Webhooks`). TLC finds their one
property violated.

### What the code does otherwise than it says

Of money out and reversals:

* **`money_out_redelivered`.** A refused row is put back to `pending` with the refused attempt's
  identifier until `moveRow` replaces it. A second delivery of the refusal in between passes the
  guard, a second failover starts, and both send.
* **`MCMoneyOutSlowAnswer.cfg`** violates `FailedNotPaid`. `statusHandler` (`callbacks/status.ts:143`)
  writes an answer onto the row its query was about without asking whether the row still carries the
  identifier that was asked about.
* **`MCMoneyOutDisabled.cfg`** violates `PendingHasSender`. A refusal of an operator just switched off
  is not counted, and the code that sends the row again *or fails it* is inside the branch for counted
  refusals (`callbacks/apply.ts:130`).
* **`OperatorGateBurst.cfg`** violates `StoppedBeforeThird`. `operatorLock.ts:7` says the slot stops a
  burst on an expired credential before the third refusal, at which Safaricom locks the operator. A
  send picks its operator before it waits for the slot and does not look again
  (`money_out/service.ts:315`), so those that wait go out after the second refusal.
* **`MCMoneyOutDbError.cfg`** violates `FailedNotPaid`. A statement that fails after Safaricom answered
  is caught with everything else, and the payment is called failed *before Safaricom was reached*
  (`money_out/service.ts:398`; `AckThrew`). So is a reversal (`money_out/reversal.ts:200`), which
  frees its receipt for a second request, although `reversal.ts:34` says that "the same receipt must
  never be reversed twice": `TakenBackOnce` fails with `Mishaps = {"dbError"}` in `MCDesk.cfg`. With
  `{"slow"}` it fails as `FailedNotPaid` does above. And a reversal whose acknowledgement was lost is
  unknown for ever: no answer can name it, and its receipt cannot be asked for again.

Of money in and sweep-through:

* **`MCMoneyInDirect.cfg`** violates `CountedOnce`. With a customer who pays without a prompt beside
  two open prompts, an inference onto the wrong prompt (`money_in/link.ts:74`) takes a confirmation
  away from its own; undoing it later joins one pair and leaves a completed prompt whose confirmation
  is elsewhere. Both are counted. The same follows from a confirmation found late by the pull, one
  that arrives before the prompt's acknowledgement is stored, and a crash between completing a prompt
  and linking it.
* **`sweep_crash`.** A sweep is called *interrupted, still owed* although its payout is with
  Safaricom, and the next window sends the same payments again. `SweptOnce` also fails with
  `slowSend` (a send longer than five minutes), `slowPass` (two passes of different windows at the
  same time), `lateThrow` (a send that throws after it wrote its row) and `reassign` (a swept payment
  assigned to another business). The claims themselves never stop a second sweep: the key of
  `sweep_payments` is the pair, as migration 043 says.
* A held row takes its window (`hold` inserts it under the same unique index), although
  `sweep/window.ts` says a daily window "stays due until it has been swept": the money waits for the
  next window. A business stopped while a pass is running may still be sent to by that pass, although
  `setStopped` says "nothing is sent while it is stopped". The weekly window of a business just set up
  is due at once, and what was reversed since is not taken off what is owed.
* A payment that lands on an invoice closed between the choice and the write is recorded for it, and
  is neither in its paid amount nor among the payments that matched none (`invoices/service.ts:167`).
  A number is given to Safaricom again after a transaction that was lost once Safaricom was told.

Of scheduled payments and batches:

* A pass that read a schedule as on pays it after a pause or a stop, although migration 048 says that
  a paused one "pays nothing" and a stopped one "never pays again". A run is *done* when no line
  failed, waits or reads as sent, so with lines whose outcome is unknown as well, although 048 says "every
  line paid"; it is not looked at again when the answer comes. A run that a crash leaves prepared or
  sending is never settled, so its owner is never told, although `reconcile` says "every run tells the
  owner afterwards". A pass that advances a schedule from an old copy can write the old timetable's
  next date, or *finished*, over an edit that kept the date. A pass that reads the lines while they
  are saved pays a part of the list, and a crash there leaves the list short. With `lateThrow`,
  `FailedLineNotPaid` fails: a line is called failed, "nothing reached Safaricom", after its payment
  was written.
* **`BulkSendPresses.cfg`** violates `RowSentOnce`. The drain is called "safe to re-run" (`bulk.ts:28`).
  A press checks what it read and writes without asking again (`bulk.ts:160-171`): of two that read the ended batch, the
  later write puts the batch back to before the first one's job sent its rows, and the second job sends
  them again once the duplicate window has passed.
* **`BulkSendLateThrow.cfg`** violates `FailedRowNotSent`. Whatever `moneyOut.send` throws is recorded
  as *failed*, *retriable* (`bulk.ts:143`), also what it throws after it wrote and released its request: the row reads as failed
  while its payment stands, and *Try again* pays it again once the duplicate window has passed.
* `RowSentOnce` also fails with `"noting"` (a crash between a send and its note), with `"slow"` (the
  worker that took over sends beside the slow one) and with `"ended"` (a batch that ended is drained once
  more). A batch whose job failed three times, or was never queued (`"queueing"`), stays *sending* for
  ever and cannot be tried again: `SendingHasJob` and `BatchEnds` name these two, and say that there
  is no other way.

Of apps, operators and accounts:

* `http/idempotency.ts:9` says that a key "never makes a second payment". On a route without the
  duplicate guard a dropped connection, a stop, a failed store or a handler slower than sixty seconds
  lets the next call make one: `KeyPaysOnce` speaks of undisturbed keys, and `PaymentsApart` of the
  guarded route.
* **`WebhooksThrow.cfg`** violates `TriesRunOut`. A notice is to be "left failed for a person" after its tries
  (`webhooks/dispatcher.ts`). The try is counted by the statement after the post (line 109). If that throws,
  as it does when the body of the app's answer holds a NUL byte, which PostgreSQL does not store in a
  text, or if decryption throws (line 78), the row is as due as before, is posted again at every tick, and
  the rows behind it wait.
* An event published while the LISTEN connection is down is lost with its notice, and so is one whose
  handler throws (`webhooks/writer.ts:127`). Two passes of the
  dispatcher post the same delivery, and write the number of tries each of them read.
* A probe's timeout between two statements of `disable` turns an operator that was just disabled into
  a failed or deleted one; a rotation there leaves the new credential pending without a probe
  (`RotateWhileDisabling = TRUE` in `MCOffice.cfg`, which violates `PendingEnds`).
* `route_claims` is deleted with its business (migration 052, line 20), although the same table says
  that "a claim is released, never deleted": names of a deleted business are free at once.
  `NameHeldBack` fails with `Beside = {"closing"}`.
* A sub-account opened between the reading of the sub-accounts and the delete of their account is
  taken by the cascade without a row in `number_history`, and so is an account opened while its
  business is deleted, whose count was read before the transaction: `HolderRemembered` fails with
  `Beside = {"minting"}`.
* With one business the code is optional, and the form with it is read first: the short form of a
  sub-account under the account whose number equals the code is read as another account (`000123`,
  under code `000`, is account `123`). `AddressReaches` is about the full numbers, which are what a
  payer is told.

Without a module: two presses of a module's switch can leave it on without what it needs
(`modules/service.ts`), bands of fees may overlap after `ensure` and `replace`, and
`money_out/balanceRefresh.ts:24` reads before it takes its advisory lock.

### Bounds and why they are enough

* One payment in `MoneyOut`: rows meet only in the pool, and every other operator state is reached
  by `Disable` and `Reinstate`. The proofs have no such bound. Two operators are one failover; two
  attempts are the refused one and the one after it; the violation of `PaysOnce` needs three. One
  status query is enough for an answer about an old attempt. One crash falls at every step.
* Two prompts and two payments in `MoneyIn` are the least for an inference to be wrong.
* Two passes and two windows in `SweepThrough` are the least for a payment to be in two sweeps; two
  payments are what makes the list and the sum of what is owed differ. Two businesses are what makes
  a float run out inside a pass. Passes are interchangeable, so the run with two uses symmetry; it
  checks invariants only.
* Two workers in `ScheduledPayments` are the least for a date to be taken twice; each may be a pass or
  a retry. One of two dates ever falls due: runs of different dates meet only in the schedule's row,
  which the second date takes part in through edits and `Advances`. One line: lines of a run meet in
  `Settled` only (`partly_failed` needs two). The proofs have none of these bounds. Workers are
  interchangeable, and the run checks invariants only, so it uses symmetry.
* `MCApps`: two connections are the least for a takeover; time runs to four minutes past a patience of
  one, a duplicate window and a key's life of two, so that a claim is abandoned, the window passes and
  the key expires in one behaviour. One disturbance falls at every step. Two deliveries are the notice
  of an intermediate status and of the end; two tries are one that is repeated and the last.
* `MCOffice`: a job has two attempts and there are two faults, so that a job can be given up, and one
  that is left with its last attempt can go through; `max_attempts` of three adds a fault of the same
  kind. One row is enough: whether a batch ends asks only which of a worker's steps comes next, and
  `MCDesk` has two rows, one before and one after a fault. Two workers are a takeover, and with
  `"slow"` a worker that is still at it when its job is done. A batch is either drained once with
  everything in `Around` (`part = "drained"`), or tried again by workers that keep their leases and whose
  sends do not throw late (`"triedAgain"`): liveness of the two together is too large for TLC, and so is
  that of presses that overlap. `SendingHasJob` is proved for all of it.
* `BulkSendPresses.cfg` has the two presses it needs. `MCDesk` has one and nothing in `Around`: with
  either, `RowSentOnce` is violated, as told above.
* Of `MCOffice` and `MCDesk` besides: leases and windows of a minute run out. Two tests and two
  credentials are a probe that is replaced; two probes one that is superseded. Three sends
  are a holder, one that took its place and one that gave up waiting. Two receipts, invoices and requests are the least for two
  payments of one invoice and one payment of two. The calendar has months of eight to ten days, which
  a day of the month, a fortnight and a weekend can all miss. Two businesses are what makes the code
  required; numbers have a first digit and up to four in all, so there are two widths of accounts and
  of sub-accounts with two numbers each; three accounts are an account, one under it and one beside
  it, and two clerks the least for a deletion to be overtaken. Three reversals are one that ended, one
  that is in play and one that is asked for.
* In `MCDesk` workers, sends and businesses are interchangeable and the run checks invariants and one
  action property, so it uses symmetry. Values of parts that are never in one behaviour are shared
  (requests and clerks are the workers, reversals the sends) to keep the group small.
* `CHECK_DEADLOCK FALSE` is set where a system may stop: every payment has ended and the bounded
  payments, calls or crashes are used up. A sweep-through instance and one of scheduled payments
  never stop.

### Fairness and why the code has it

* `MoneyOut!FairSpec`: a continuation in memory goes on (the process runs or has crashed, and a crash
  removes it), status queries about to be asked are asked, two minutes pass, and the recurring sweep
  job keeps coming (`ensureRecurring`, `rearm`). Nothing is assumed of people or Safaricom.
  `EveryPaymentEnds` says it of behaviours with an operator to ask with and where a refusal is not
  redelivered for ever.
* `MoneyIn!FairSpec`: transactions that began end, and the hourly pull records a confirmation that
  was never delivered. Customers and results may never come.
* `SweepThrough!FairSpec`: the job runs every minute and a pass goes on, five minutes pass, and a
  payout asked for ends, which is `EveryPaymentEnds` of `MoneyOut`, or a person's decision for one
  that waits.
* `BulkSend!BatchFairness`: a request runs to its end, time passes, and the loop's tick comes every
  few seconds while a server is up. A press goes on once it has read the batch (`PressStep`); that anybody
  presses is not assumed. Throws and crashes are not excluded: the bound reaches `MaxAttempts`, and
  `BatchEnds` says what is left when a job is given up.
* `AppCalls!CallsFairness`: a call goes on, time passes, and an app without an answer calls again,
  which is what the key is for. `KeyIsFreed` needs the last: a claim is taken over only by a call.
* `Webhooks!WebhooksFairness`: the dispatcher runs every thirty seconds. That the app ever accepts a
  notice is not assumed, nor that a pass does not throw: `NoticeEnds` speaks of the behaviours in which
  passes do not throw for ever.
* `OperatorProbe!ProbeFairness`: a request runs to its end and the loop takes a timeout that is due.
  That Safaricom ever answers is not assumed.

## What is proved

Every theorem holds for every value of the constants, from the named assumptions of the modules and
what its own statement assumes; TLC evaluates the assumptions in the runs, and checked the inductive
invariants before they were proved. Every safety invariant and action property a passing run checks is
stated by a theorem, and so is the refinement `KeepsPromise`. What a theorem assumes
of the disturbances around the server is what the findings above show to be needed:

| Assumed | Says that | By the theorems about |
| --- | --- | --- |
| `Orderly` | no result overtakes its acknowledgement or comes again, no status answer comes after its row moved on, an acknowledgement is stored | payments paid once, and the promise |
| `Undisturbed` | every payment answers a prompt, no result is early, no confirmation late, the server stays up | what is counted |
| `"lateThrow" \notin Around` | a send that wrote its row does not throw | the float of a pass |
| `NoMishap` | nor does it take five minutes, nor does the server stop between a payout and its note | sweeps not sent |
| `Calm` | nor do passes of two windows overlap, nor is a payment of one business assigned to another | payments swept |
| `Around = {}` in `ScheduledPayments` | a send that wrote its row does not throw | lines that failed |
| `Noted` | the server does not stop, and nothing throws, between a send and its note or after the batch's end; no worker outlasts its lease; no send throws after its request was written; nobody presses beside another press | rows of a batch |
| `Mishaps = {}` | no statement fails after Safaricom answered, no status answer comes late | reversals |
| `Beside = {}` | nothing is opened under what is being deleted | names and holders |
| `MaxDisturbances \in Nat \ {0}` | the bound leaves room to count a disturbance | keys |

Crashes in other places, takeovers, overlapping passes, lost answers and the rest remain in all of them.

`MoneyOutProofs`: `FirstRefusalTakesNobodyDown`, about `OperatorPool`; `TypeCorrect`,
`Spec => []TypeOK`, whose inductive invariant `Typed` adds that a row
that exists carries an identifier, and that a continuation or a status query is only ever about a row
that exists: without it, `KeyOf` of a row's attempt has no type. And `SecondPersonAlways`,
`RejectedNeverSentAlways`, `SettledStaysAlways`, for every number of rows, people, operators, attempts,
queries and crashes, and for every `Around`: the findings above do not touch them. The three are not
inductive by themselves. A result finds its row by an identifier, so they need that an identifier
belongs to one payment wherever it is written down: in the row, in a continuation, in a query, at
Safaricom (`OneOwner`). A continuation about to send must be of a payment that was let through
(`TasksAllowed`), one about to hold must be the only one that knows of the payment, what Safaricom has
must have been let through (`SentCleared`), and an answer to a status query that says anything must be
of a payment that was sent (`AnswersOfSent`). `Safe` is the conjunction, and the proof goes action by
action: the actions that keep the row's identifiers and its approval go through one lemma
(`CarriedStep`), the ones that send, hold, move or decide each have their own.

Where results come in order and acknowledgements are stored (`Orderly`), `InFlightIsCurrentInOrder`,
`PaysOnceInOrder` and `FailedNotPaidInOrder` follow from `InOrder`, which holds beside `Safe`: one continuation at a time works
on a row (`OneHand`), on the attempt the row stands for, and knows what Safaricom did with it: absent
until it was called, refused if another operator is looked for (`AtWork`); what the row says of that
attempt is so (`RowsTrue`), and so is what a status query was answered (`AnswersTrue`). `PromiseKept` is
the refinement of `Payment` for any number of payments and attempts: with `InOrder`, each action is a
step of the promise for one payment or leaves its stage and what was paid as they were. A write that
says what is true of the attempt is dealt with once (`HonestStep`, `HonestPromise`).

`MoneyInProofs`: `MutualLinksAlways` and `ReceiptLinkStaysAlways`, for every number of prompts and
receipts and every `Around`. A transaction decides from what it read and writes later, so neither is
inductive: `Linked` adds that a confirmation not on record names no prompt (`RecordedFirst`), that one
about to be linked still has no partner (`StillFree`), that the links about to be undone are still
inferences of prompts with this receipt (`StillWrong`), and that a receipt is written once, on a
completed row (`ReceiptRows`). `Writing` is the step that matters: after the wrong links are undone on
both sides, the unique index leaves the chosen prompt without a partner. `StillFree` holds because the
receipt's lock is kept from the choice to the write; the prompt's own side has only the index.
`CountedOnceUndisturbed` is about money: under `Undisturbed` a payment that was made for a prompt finds
that prompt among the candidates of the inference, so an inference is right or is not made
(`PayerChosen`, `TruthfulRecord`). `Truthful` says so of every receipt, link and choice (`TrueRows`,
`TrueJoins`), and that a completed prompt whose confirmation is on record without it is about to be
joined to it (`Meeting`), whatever transactions overlap.

`SweepThroughProofs` rests on `Shape`: the types (`SweepTypes`), that no two passes are at the same sweep
(`Alone`), and that the sweep a pass is at is the one it found owed, prepared, and handed over exactly
when the pass is about to note it (`Sending`). `FloatCoversPass`: what a pass handed over and may still
be paid, with what is left to it, is within the float it read (`FloatInv`), although a payout may end
while the pass goes on. `UnsentIsUnpaid`: a prepared sweep that has a payout is in the hands of a pass and
is not old, so reconciling leaves it alone (`Told`). `PaymentsLeaveOnce` and `NoMoreLeavesThanCame` share
one invariant, `Owed`: what a pass has read, list by list and sum by sum, covers every sweep of the
other windows that may still pay (`ReadFits`, `DueFits`), although the queries are separate, other
passes write in between and payments arrive; the sweep of the pass's own window is kept from being
written twice by the unique index. So what may be paid out of a business, with what a pass is about to
add, is within what arrived for it. The sums are over sets of any size and need `Sums`.

`ScheduledPaymentsProofs`: `TypeCorrect`, the four invariants of the run, and two more: `EndedIsOver`
(a run that reads as ended has no line that waits or reads as sent; lines whose outcome is unknown it
may have) and `OnHasNext` (a schedule that is on has
a next date, one that is stopped or finished has none), for every number of schedules, dates, payees,
passes, retries, edits and crashes (`FailedLineNotPaid` where `Around` is empty). The inductive
invariant is `Handled`: a run that may still be sent is in one hand only (`OneHand`), and until its
lines go out it is prepared (`PreparedFirst`), so nobody else can take it (a date is taken only while
it has no run, a run retried only while it is refused); what that hand will still send waits and was
not asked for (`StillToSend`), the line it just called being the only exception (`LineInHand`). Three
lemmas carry the steps: `Quiet` for those that take no run in hand and send nothing, whatever they
reconcile or let go; `Takes` for the insert and the retry; one each for the start of the sending, the
call and the note. `NobodyForgets` needs, besides, that a pass that is sending has every line that
waits still before it (`AllBefore`), so that the pass that leaves a run has left nothing waiting.

`OfficeProofs`: `OneInFlightAlways` (a send at Safaricom whose lease still runs is the one the slot
names, `SlotKept`). `VerifiedIsCurrentAlways` and `OffStaysOffAlways`, for any number of tests,
credentials and probes, a stop, and a rotation in the middle of a disable: the credential a test read
is no newer than the one its call used, and that is no newer than the one of now (`TestFits`), so a row
that is written while the one read is still current names the credential Safaricom answers about
(`RowsTrue`); once `disable` is through no probe that waits is still linked (`OffIsQuiet`). Most
actions leave rows that only follow from what was there (`Follows`), which one lemma carries.
`RowSentOnceAlways` and `FailedRowNotSentAlways`, under `Noted`, for any number of rows, jobs, workers,
presses one after another and sends by hand, and for any duplicate window, none included: it is not the
duplicate guard that keeps a row from being paid twice (the second is proved only; a run of it beside
`RowSentOnce` would ask nothing new). A worker that has a job holds its lease (`LeaseHeld`); of the jobs
one at most is to be done, and only while the batch is being sent (`OneToDo`); what its worker knows is
what the batch knows, but for the row it has in hand (`InHand`); and a payment of the batch that stands
is known as sent to the batch, or to the worker that has yet to note it (`SentKnown`).
`SendingHasJobAlways` needs no condition: presses overlap, workers outlast their leases, and everything
else in `Around` may happen. Its invariant `HandInv` is that a batch left to its jobs (nobody about to
queue one) has a last job that is open or was given up, and no worker that has only to complete that job;
a worker that ends the batch beside another leaves it ended, and a press that reopens it queues a job
of its own.

`AppsProofs`: `PaymentsApartAlways` (who holds the lock after the check has a clear window, `Guarding`),
whatever happens to the claims. `KeyPaysOnceAlways`, for guarded routes and others: while nothing is
disturbed a call is over within its patience (`OnTime`), the key it works under stays (`KeyHeld`), one
call runs the handler and it is the one the key names (`OneHandler`), and a payment is either of an
earlier life of the key or the one of this life, after which nobody is before the write (`PaidUnder`).
A disturbance, once counted, stays counted, which is all that is said from there on. `EndIsToldAlways`: a
payment that ended without a lost event has its notice queued or still on its way, and what the writer
holds says *ended* if it read the payment after its end (`EndFollowed`), for any number of passes,
retries, clearings, passes that throw, and handlers that do (which lose the event).

`DeskProofs`, of invoices: `ReceiptOnceAlways` (a task inside its transaction is the only one with its
receipt, and that receipt has no row yet, `ReceiptHeld`), `NumberOnceAlways` (the rows are numbered from
one without gaps and nobody numbers beside another, `Numbered`) and `BooksAgreeAlways`: a payment being
recorded holds its invoice, so the sum it is about to write is what is on it and its own amount
(`InvoiceHeld`), and what was paid was paid on an invoice on record (`PaidOnRecord`). `PaidOn` is a sum
over a set of rows of any size.

Of reversals: `TakenBackOnceAlways`, for any number of requests, operators and restarts where
`Mishaps` is empty. `ReversalsInv` says of each row that only the attempt it is at may still take the
money, the ones before it were refused or never arrived (`LastAlone`); that while it may, the row does
not read as failed (`Admits`), whatever the request holds in hand (`Busy`); and that at most one row is
in play (`OneInPlay`). Most actions are one row that moves within what `Fits` allows (`OneRowMoves`).

Of accounts: `WordsApartAlways` (whichever of two words or codes comes second is refused if one
starts the other), `HolderRememberedAlways` and `NameHeldBackAlways`, where `Beside` is empty.
A deletion knows every sub-account that goes with its account (`ChildrenRead`), a business about to be
deleted has neither accounts nor names (`ClosingIsEmpty`), and every name somebody let go is still
held for that account or for nobody (`WornIsHeld`), which is what the comparison with NULL in
`route_claim_conflict` is for. `AddressReachesAlways` needs no condition: codes, numbers under one parent
and live names are told apart (`CodesApart`, `NumbersApart`, `NamesStand`), what a request is about is
gone or still what it was (`RequestsStand`), and a number that was given reads back: its leading nines
announce its width, so the digits of an account, or of one under another, come apart in one way only
(`GivenAnnounces`, `OneLevel`, `TwoLevels`). A full number has no letter and so is never a name.

Of timetables: `PaysItsDatesAlways`, for every timetable and every calendar, whatever the lengths of the
months, the weekday it starts on, the moment of the set-up and how late the passes are. Two functions that
are computed by stepping, from month to month (`Monthly`) and from date to date (`FirstToCome`), are shown
to be the functions that say what is looked for; `CalendarGoesOn` is what makes a fixed point of the steps
exist. `NextIs` is the heart: for each of the four kinds, `nextOccurrence` is the first date the timetable
names on or after a day, or there is none (`DailyFirst`, `WeeklyFirst`, `FortnightFirst`, which counts
weekdays by sevens in `WeekdaysCounted`, and `MonthlyFirst`, which needs that every day is in one month,
`MonthOfDay`). `PayOrder` is why no two dates are paid on one day: two dates moved back from a weekend
keep their order, a month being longer than one. The invariant adds to `PaysItsDates` the types and
that the clock is within its bounds (`Dated`).

`Sums`: the community modules define a sum over a function by recursion over the sets, and nothing says
that the recursion means anything. `SumExists` does, for finite sets of any size; the rest is what a sum
does when an element is taken away, added or changed. The induction is by a smallest set for which the
claim fails, there being one by the well-foundedness of the strict subset on finite sets: this needs
no theorem with an operator for parameter. `DeskProofs` uses a least number in the same way, and the
first days of the months are such a sum.

The assumptions on the constants: `MoneyOutAssumption`, `OperatorCountAssumption`, `MoneyInAssumption`
(finitely many prompts), `SweepAssumption` (amounts and windows are numbers), `ScheduleAssumption`,
`ReversalsAssumption` (at least one operator), `ProbeAssumption`, `GateAssumption`, `JobAssumption`,
`BatchAssumption`, `CallsAssumption` (a key lives longer than a caller's patience), `WebhookAssumption`,
`InvoiceAssumption`, `AccountsAssumption`, `CalendarAssumption` and `CalendarGoesOn`, each about the sorts of the constants and otherwise about
what is in brackets or said with its module.

Only model-checked: all liveness (`EveryPaymentEnds`, `PairsMeet`, `SweepsEnd`, `KeyIsFreed`,
`NoticeEnds`, `BatchEnds`, `PendingEnds`), which is out of the prover's reach, as `ENABLED` is.

## What is not modelled

* Of the modelled components, what each section above says is left out.
* Balances and the float (`money_out/balanceRefresh.ts`): the readers take the float as any value.
* Fees and charges (`fees/service.ts`): `SweepThrough` takes the price of an amount as a constant.
* Sign-in, sessions and lockout (`auth/*`), organisations, people, permissions, API keys, settings,
  modules and setup, contacts: single-row operations around library calls, read at the start of an
  operation and constant in the models. One organisation is assumed throughout; that organisations do
  not see each other is PostgreSQL's row-level security.
* Reads, reports, exports, reconciliation, health, the audit log, notifications and push: nothing
  else reads what they write.
* The callback router's allowlist, the HTTP client and its token cache, the routes with their
  validation and wording, the stand-in for Safaricom used in development.
* The web console, its texts in two languages, the deployment and the marketing site. They and the
  reads are by far the largest part of the repository's lines, and keep no state of the payments.
