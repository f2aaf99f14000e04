# A verification of the billing engine

TLA+ models of the event-sourced billing engine in `src/`, TLC configurations that check them on
small instances, and TLAPS proofs, for every value of the constants, of every invariant, action
property and refinement that those runs check. Source paths below are relative to `src/src/` unless they start with `src/`.

## The system

The engine keeps two kinds of event-sourced aggregates, accounts and transactions, in Kafka topics.
A command handler loads an aggregate by reading its events, decides, appends new events and then
publishes them on the in-process NestJS event bus. Published events start sagas, which issue further
commands, and update read models in PostgreSQL.

| Component | State | Operations | Interacts with |
|---|---|---|---|
| Account aggregate (`modules/account/aggregates`) | status, balance, reservation per region, limits, home region, version | create, changeBalance, reserve, changeStatus, replay | command handlers |
| Account command handlers (`modules/account/handlers`) | none between calls; a decision while it waits | create, update balance, reserve, update status | event store, event bus |
| Event store (`cqrs/kafka`) | one log per aggregate | append (version check only if asked, never asked), getEvents (whatever was read when a 15 s timer fires) | every command handler |
| Transaction aggregate and handlers (`modules/transaction/aggregates`, `handlers`) | status of one transaction | request (5 kinds), complete (5 kinds), fail, compensate | sagas, event store |
| Sagas (`modules/transaction/handlers/*-requested.handler.ts`) | position in the handler, the returned balance | a chain of awaited commands, compensation in the catch block | account commands, transaction commands, coordinator |
| Saga coordinator (`cqrs/saga/saga-coordinator.service.ts`) | one row per saga | startSaga, completeStep, failSaga, recordCompensation, completeCompensation | sagas, saga API |
| Projections and rebuild (`modules/*/projections`, `modules/*/services`) | read-model rows with a version | create, guarded updates, rebuild | event bus, queries |
| Outbox and timers (`cqrs/outbox`, `cqrs/saga/timer.*`) | rows with a status | poll, publish, retry, cancel | event bus |
| Saga event bus (`cqrs/saga/saga-event-bus.service.ts`) | queue, running flag | enqueue, drain | no handler is registered with it |
| Transaction service (`modules/transaction/transaction.service.ts`) | none | idempotency lookup, checks on projections, command | projections |
| Hybrid clock, replicator, replenishment policy | clock; consumer position | now, update; replicate; reserve for another region | event store of another region |
| Currencies, audit, notifications, admin, validation, HTTP | reference data | lookups, logging, formatting | - |

### What is hard

* **Concurrency without a check.** `append()` takes an `expectedVersion`, and no handler passes one.
  Between the load and the append of one handler others append; the appended event carries an
  absolute balance.
* **Short reads.** `getEvents()` resolves when a timer fires. A slow consumer yields a prefix.
* **Sagas across aggregates.** Up to nine awaited calls, any of which may be refused, fail, or fail
  with only its answer lost; a catch block decides from one local variable whether to compensate.
* **Crashes.** A saga lives in the memory of a process; the row it leaves behind is not resumed.
* **Read models** that see events in any order, and a rebuild that competes with them.
* **Polling loops** (outbox, timers) that overlap themselves and publish before they save.

### What makes each part correct

* Account: never outside its limits; reservations backed by the balance; the books balance; closed
  is final. As a whole: it behaves like an object whose commands are indivisible.
* Transaction: one terminal status.
* Sagas: what a log reports happened; money equals the stored legs; missing money can be found;
  every transaction ends.
* Projections: never older than what they showed, and in the end equal to the log.
* Outbox and timers: at least once, and as rarely twice as the code allows.
* Idempotency: one key, one transaction.

## Modules

| Module | What it models |
|---|---|
| `Account` | The account aggregate as pure operators: guards, events and event handlers. |
| `AccountLedger` | Accounts in the event store under concurrent command handlers. |
| `AtomicAccount` | The abstract account: each accepted command is one indivisible step. |
| `AccountLedgerMC` | Instances of `AccountLedger` for TLC. |
| `AccountProofs` | Lemmas about the operators of `Account` and about sums. |
| `AccountLedgerProofs` | Theorems about `AccountLedger`. |
| `Transaction` | The transaction aggregate's guards and replay. |
| `Sagas` | The five sagas over accounts, transaction logs and saga rows. Composes `Account` and `Transaction`. |
| `Escrow` | The abstract promise of the sagas: indivisible movements of money, and outcomes that are earned. |
| `SagasMC` | Instances of `Sagas` for TLC. |
| `SagasProofs` | Theorems about `Sagas`. |
| `Requests` | The five endpoints, the idempotency lookup, the outcomes that sagas append, and the read model of transactions. Extends `Transaction`. |
| `RequestsMC` | Instances of `Requests` for TLC. |
| `RequestsProofs` | Theorems about `Requests`. |
| `AccountRows` | The read model of an account, its rebuild and its reconciliation. |
| `Replica` | The abstract promise of an account's row: a lagging copy that never goes back. |
| `AccountRowsProofs` | Theorems about `AccountRows`. |
| `Outbox` | The outbox processor. |
| `OutboxProofs` | Theorems about `Outbox`. |
| `Timers` | Durable timers and their processor. |
| `TimersProofs` | Theorems about `Timers`. |
| `Clock` | The hybrid logical clock as pure operators. |
| `Regions` | Processes of several regions that stamp, replay and replicate events. Extends `Clock`. |
| `RegionsMC` | An instance of `Regions` for TLC. |
| `RegionsProofs` | Theorems about `Regions`. |

Definitions marked "Mutant" are deliberately wrong variants of the definition that follows them.
Nothing uses them; each breaks one property when it replaces the original, which shows that the
property depends on that piece of code.

### `Account` and `AccountLedger`

A state is what `fromEvents()` rebuilds. `CanChangeBalance`, `CanReserve` and `CanChangeStatus` are
the guards of the command methods; `BalanceChanged` and its siblings are the events they emit;
`Apply` is the dispatch of the aggregate root, `OnBalanceChanged` and its siblings are the `on...`
methods. Two details of the code matter and are kept: the balance is overwritten with the absolute
value in the event while reservations move by differences, and `ReplenishmentRequestedEvent` matches
no `on...` method (its type name ends in `Event`), so only the version moves.

`history[a]` is the log of account `a`, stored as the states that replaying each prefix gives: loading
`n` events is reading `history[a][n]`. A command has two steps. `UpdateBalance`, `ReserveBalance` and
`UpdateStatus` load any non-empty prefix and decide; the decision waits in `pending[h]`.
`AppendEvents` puts it behind whatever the log holds by then, or `AppendFails` loses it. This covers
both sources of stale decisions, appends in between and short reads. `CreateAccount` is one step: the
id is fresh. Limits are constants of an account because no command handler calls `changeLimits()`. Regions are
the values of `REGION_ID` of the processes that share the topics.

Two history variables exist for the properties only: `raced`, the accounts that got an append decided
on an older log, and `posted`, the sum of signed amounts.

### `AtomicAccount`

Each accepted command is one step on the current state, and a step may also break the promise for one
account, which from then on may show anything (no other account is affected). `AccountLedger`
instantiates it with what the rest of the system sees of an account and with `broken <- raced`:
`AtomicUnlessRaced` says that only a stale append ends the promise.

### `Transaction` and `Sagas`

A transaction's log is the sequence of statuses its events set, as nothing else in it is read by a
guard. Replaying a compensated transaction throws (`toISOString()` on a string): `Replays`.

`pc[t]` is the awaited call that the saga of `t` is in. `Program[kind[t]]` lists the calls of its try
block, `Compensation` and `Failure` those of the branches of the catch block, and `Catch` says where a
throwing call leads. Calls are of three kinds: on an account (`Leg...`), on the transaction (`Tx...`),
on the row (`Row...`). Each returns, is refused, fails without effect (`CallFails`), or takes effect
and then reports an error (`...AnswerLost`). The failure of a query inside a call is the same as its
failing without effect. A command's load and append are one action here, with the read a prefix of at
most `MaxLag` events short: interleaved appends by others are then part of the missed events, so no
outcome is lost. `ChangeStatus` is an operator who suspends or closes an account meanwhile; `Crash` ends every
running handler. The same process, hence the same region, runs all sagas; several regions are the
subject of `AccountLedger`.

### `Escrow`

What somebody sees who reads only balances and transaction logs, and knows which movements were made. `Take`,
`Give` and `GiveBack` each move one transaction's money once and within the account's limits, and only where the
movements and reports before allow it; `Report` adds an outcome that the movements earn. Nothing in it knows of
handlers, awaited calls, reservations, answers, saga rows, retries or processes. `Sagas` instantiates it with its balances,
the three kinds of legs that move money, the statuses in each log, and `broken <- stale`: a balance decided on an old read
ends the promise for that account, and an outcome decided on an old read for that transaction's one outcome, and for
nothing else. Two things the promise does not say, because the code does not keep them: that a destination that got its
money keeps the source from getting it back (`saga_atomicity`), and that a movement is followed by another
(`saga_recovery`).

### `Requests` and `AccountRows`

Both are about rows that are read before they are written. `Repository.save()` of an entity whose key is
set reads the row and then inserts it, or writes only the columns in which the entity differs from
that read; the models keep the two steps (`base` is what `save()` read). The updates of
`transaction_projections` are single guarded statements (`Older`).

In `Requests`, `LookUp` is `findByIdempotencyKey()`, `CheckAccounts` the tests of an endpoint on the rows
of the accounts (which may say anything: their own module is `AccountRows`), and `Store` the command
handler. The five endpoints differ in what they test: a top-up tests nothing, a payment accepts
inactive accounts, a refund goes straight to its command. A saga is reduced to what it appends (`End`):
complete, compensate, fail, in this order. Each stored and published event starts a job, the projection
handler of its type; the handler of a requested top-up first looks for a row, the other four do not.
`Rebuild` is an administrator's `rebuildTransaction()`. `StoreUnpublished`, `EndUnpublished` and
`JobFails` are the points where an event or an update is lost; `Crash` ends all jobs.

In `AccountRows`, a column holds the position in the log of the event whose value it shows, so that
"current" can be said without values. The handlers of one account run concurrently, as the event bus
does not wait for them; each is a job with the steps load, reload (the read of `save()`) and write.
Reservations and replenishment requests take versions of the log and have no projection handler
(`"other"`). `Issues` is what the reconciliation of an account reports.

Ghosts say what went wrong before: `disturbed` (an event of the row was lost, handled out of order, or
stored on an old read), `raced`, `overlapped`, `alone`; `shown` and `before` record what the read model
had shown when a key was looked up.

### `Replica`

What a client that polls an account's row may rely on: while the row is `trusted` it shows the account as it was
after some prefix of its events (`Snapshot`), and no column ever goes back to an older event (`CatchUp`). Every event may be
the one that is never shown, and trust may end at any time (`Store`, `Doubt`); a row that is not trusted may show anything
(`Drift`) until a rebuild that had the account for itself (`Repair`). `AccountRows` instantiates it with
`trusted <- ~disturbed`. Handlers, jobs, versions and the columns' merge in `save()` do not appear in it.

### `Outbox` and `Timers`

Both loops are started by `setInterval()`, which does not wait: `poll[p]` and `run[r]` are the runs that
overlap, with the entities each still holds as it loaded them. An entity's `save()` has two steps as
above. In `Outbox`, `todo` is the set of loaded entities not yet begun and `entity` the one being processed;
`ClaimReads` takes the next in the order of the query (`Precedes`), and `RequeueReads`, whose query has no
order, takes any. `StartLoads`, `StartEmpty` and `Tick` are `start()` and the interval; `ClaimReads` to
`DeliverWrites` are `processEvent()`; `SaveFails`, `RecordReads`, `RecordWrites` are
`handleEventFailure()`; `LeavesLoop` is a save of that method or of `retryFailedEvents()` that throws, an
error that leaves the loop; `RetryFailed` and `Cleanup` are
the operations for administrators, and `Ages` is the passing of 30 seconds. Events are numbered in the
order they were added. `retries` is unbounded by `maxRetries`: a poll that read an event before another gave
it up goes on with it and counts further. `nextRetryAt` is written and never read, so the backoff has no effect and is left
out. In `Timers`, an error in the catch block, or of `find()`, is a rejection that nothing handles, which
ends the process (`Crash`). The operations of the outbox and of the timer service have no
caller in the repository; they are modelled as what the module exports.

### `Clock` and `Regions`

`Now` and `Update` translate the clock; a wall clock (`Times`) may return anything, also less than before.
In `Regions` a command awaits its events (`Load`), and then replays them and stamps the new event without
an await; `target` marks the process that is busy with this, so `Replay`, `Decide` and `Refuse` of one
command are not interrupted. `sent` holds stamped events whose `append()` has not ended: the log may get
them in another order. `Replicate` is the replicator: it moves the clock on, and its own append always
throws, because a parsed event has no `toJSON()`. `Restart` sets a clock to zero.

## Runs

| Run | Instance | Shows |
|---|---|---|
| `account_ledger` | 1 account, 2 regions, 2 handlers, amounts 1 and 2, limits 1..3, threshold 1, 5 events | the invariants, `ClosedIsFinal`, and that the ledger implements `AtomicAccount` |
| `account_race` | the same | `NoDoubleSpend` fails |
| `sagas` | 2 accounts, 2 sagas of amounts 1 and 2; withdrawal with transfer, top-up with payment, top-up with refund; 1 missed event per read, 1 fault, 1 crash, 1 status change | the safety properties, `EndsUnlessEscaped`, and that the sagas implement `Escrow` |
| `saga_atomicity` | 1 transfer, 1 fault, 1 status change, no crash, complete reads | `TransfersAreAtomic` fails |
| `saga_recovery` | 1 payment, 1 crash, 1 status change, no fault, complete reads | `EveryTransactionEnds` fails |
| `account_rows` | 1 account, 4 events, 1 missed event per read, 1 rebuild, 1 fault | when the row is current, that it moves forward, that it catches up, and that it implements `Replica` |
| `requests` | 2 requests: a retry of a transfer, a top-up and a withdrawal under one key, a payment and its refund; account rows rich, poor or suspended; 1 missed event per read, 1 rebuild, 1 fault | what lookup and read model guarantee |
| `idempotency` | a top-up and its retry, no fault, no rebuild | `OneTransactionPerKey` fails |
| `refund_limit` | a payment of 1 and a refund of 2, no fault, no rebuild | `RefundsWithinOriginal` fails |
| `outbox` | 2 events of either priority, 2 retries, batches of 2, 2 overlapping polls, 2 faults | delivery, giving up, order |
| `timers` | 2 timers, batches of 2, 2 overlapping runs, 2 faults | firing and cancelling |
| `regions` | 2 processes of 2 regions, 2 aggregates, wall clocks 1 and 2, 3 events, counters up to 2, 1 restart | causality of stamps |

Why the bounds are enough. Commands on different accounts never touch the same state in
`AccountLedger` (the proofs show that no step depends on a second account), so one account with two
handlers has every race of two; five events leave room for creation, funding, a reservation, and two events
after it, one of which may be a replenishment request. The reservation a region holds and its home
decide together about that request, so there is a home and a remote region. Amounts 1 and 2 around a
minimum of 1 and a maximum of 3 make both limits, and every guard of the reservation, bind. For the
sagas, two compete for a source that can pay either but not both, or for a destination that has room for
only one of them; one fault at any call and one crash at any moment reach every branch of every catch block, the compensation's
own catch block by a refused refund (the account was suspended) or a refused completion.

Rows of different accounts, and of different transactions except for the unique key, never meet, so one
account and two transactions have every race; four events are a creation, two that update one column
each in either order, and one that a stale command stored or that has no handler. A lost, late or
repeated update needs one fault; the rebuild competes with handlers before, between and after their steps.
Two polls or runs that overlap, and two faults (a failing save and a failing save in its error handling, or
a crash after it) reach every branch of the loops, and two retries are the least at which a first
failure differs from the last. For the clocks, two times give a clock that advances, stands still and is
set back; three events are a cause, its effect in the other region and an effect of that one.

All configurations switch deadlock checking off: logs, events and faults are bounded in the model, and
when they are used up and every job, poll, run or saga has ended, nothing is left to do.

**Fairness.** Weakly fair are the steps of a saga (`Step(t)` of `Sagas`), of a job (`Step(j)` of `Requests`
and `AccountRows`), of a poll and of a run: an awaited call settles, because the Kafka
client and the database driver have timeouts and `getEvents()` resolves by a timer. So are `Tick` and
`Load` of the loops (an interval goes off) and `Ages` (30 seconds pass). Nothing is
assumed about requests, outcomes, status changes, rebuilds, faults, crashes or restarts.

### What the runs show

`account_ledger`. Even with stale appends no replay leaves the account's limits, because every event
carries a balance that was checked (`LimitsHold`). The rest holds until the first stale append on the
account, and no other step endangers it: reservations are backed (`BackedUnlessRaced`), balances equal the
posted amounts and versions are consecutive (`BooksBalanceUnlessRaced`), closed is final
(`ClosedIsFinal`), commands are atomic (`AtomicUnlessRaced`).

`account_race`. The shortest counterexample: a region reserves 1, two handlers load the same events
and both debit 1, both append. The region's reservation is negative on replay. The README promises
"Zero double-spend guarantees via regional reservation pools" (`src/README.md:30`).

`sagas`. Logs never report what did not happen (`OutcomesAreEarned`); accounts without a stale append
hold exactly what the stored legs moved (`AccountsMatchTransactions`); money that is neither at its
source nor at its destination belongs to a row that `getPendingSagas()` lists, unless an answer of
the event store was lost (`MissingMoneyIsListed`); a completed row means a completed transaction
(`CompletedRowIsCompletedTransaction`); a terminal status is final up to a stale append
(`TerminalIsFinal`); a pending transaction ends unless the process died or an error escaped the
handler (`EndsUnlessEscaped`). While no account has a stale append, the sum of all balances is the opening
funds plus, for each transaction, what its legs brought in, took out or have on the way (`MoneyIsConserved`): the sum that
`verifyAccountingEquation()` logs, without comparing it with anything (`modules/account/services/account-reconciliation.service.ts:168`).
`MoneyIsEscrowed` says that all this is what a client sees of indivisible movements.

`saga_atomicity`. `completeStep()` after the credit of the destination throws. The catch block sees a
debited source, refunds it and marks the transaction compensated. The destination keeps its credit.
"Either both accounts update or neither updates" (`src/docs/operations/transfer.md:134`).

`saga_recovery`. The process dies while a saga is running. Nothing resumes it: `getPendingSagas()` has one
caller, a query of the saga API. The coordinator lists "Enable saga recovery after crashes" among its
responsibilities (`cqrs/saga/saga-coordinator.service.ts:37`).

`account_rows`. Once no handler runs, the row agrees with the log, except for a version that trails behind
events that no handler projects, if since the last clean rebuild no event was lost, handled out of
order or stored on an old read (`RowIsCurrent`). Without overlapping handlers the version never
decreases, whatever is lost or reordered (`VersionsMoveForward`); with them it may, since version check
and save are not one statement. `RowLagsConsistently` is about the times in between: an undisturbed row never
shows a balance together with a status from another time, nor an older one of either, also when
handlers of events that a rebuild covers run before, between and after its steps. A handled event is in the row after a while (`RowCatchesUp`).

`requests`. The unique key keeps two transactions of one key from both having a row (`OneRowPerKey`), and a
retry sent after the first transaction became visible stores nothing, through rebuilds and updates
(`RetriesAreRefused`). Rows agree with the logs unless an event was lost or decided on an old read
(`RowsAreCurrent`), move to newer versions only until a rebuild (`RowsMoveForward`), and show the end of a
transaction after a while (`PollersSeeTheEnd`).

`idempotency`. Both lookups happen before the first transaction has a row. Both transactions are stored, and
no later step compares keys, so both sagas move money; the second transaction never gets a row, so a
client that polls it is told it does not exist. "Performing the same operation multiple times has the same effect as
performing it once" (`src/docs/concepts/idempotency.md:5`).

`refund_limit`. The refund endpoint issues `RefundCommand` directly. The preconditions of a refund are in
`TransactionService.refund()`, which has no caller. "Refund Amount Cannot Exceed Original"
(`src/docs/operations/refund.md:92`).

`outbox`. A row that says delivered, or that was cleaned up, belongs to a published event
(`DeliveredWasPublished`), and a failed one to an event that failed `maxRetries` times
(`GivenUpAfterRetries`), although overlapping polls write old entities over newer rows. Without overlap and
faults each event is published once and in order (`InOrderUnlessDisturbed`). Every event is published or
given up unless the processor is stopped (`EventsAreDelivered`).

`timers`. A timer cancelled before a run loaded it never fires (`RevokedNeverFires`). A timer that fired is not
left pending unless the process died (`FiredIsSettled`), and fires once unless runs overlap or the process
died (`FiresOnceUnlessDisturbed`). A due timer is settled while the process stays up (`DueTimersSettle`).

`regions`. An event is stamped after everything its process had read, replicated or stamped since its start
(`CausesPrecede`), also after a restart, because a command replays before it stamps. What is lost at a
restart is the order between aggregates that share no cause in the new process. Clocks only move forward
(`ClocksMoveForward`) and never invent a time (`NoInventedTime`).

## Proofs

Every invariant, action property and refinement that a passing run checks is proved for every value of the
constants. A theorem that excepts what a ghost variable collects (`raced`, `stale`, `unseen`, `disturbed`,
`overlapped`) states that the events the ghost stands for are the only ones that can break the property.
Each `...Proofs` module has one lemma per action (or per kind of action) and per part of its invariant.

### The ledger

`AccountLedgerProofs` proves for every set of accounts, handlers and amounts, every finite set of regions,
and for every limit, threshold and length of the logs:

| Theorem | States |
|---|---|
| `TypeCorrect` | `Spec => []TypeOK` |
| `BaseInvariant` | `Spec => []Base` |
| `TotalsAreSums` | `Spec => []TypeOKWithTotals` |
| `LimitsAlwaysHold` | `Spec => []LimitsHold` |
| `ReservationsBacked` | `Spec => []BackedUnlessRaced` |
| `BooksBalance` | `Spec => []BooksBalanceUnlessRaced` |
| `ClosedAccountsAreFinal` | `Spec => ClosedIsFinal` |
| `LedgerImplementsPromise` | `Spec => AtomicUnlessRaced` |

Assumptions: `LimitsAssumption` (limits are integers or absent), `RegionsAssumption` (finitely many regions:
they are the values of an environment variable of the deployed processes) and `LedgerAssumption` (amounts are
integers, the empty slot is not a command); TLC evaluates them in every run of the ledger.

The argument. None of the invariants is inductive alone, because `AppendEvents` appends what was
decided on an earlier state. The strengthening is `PendingAccepted`, part of `Base`: what a slot holds was accepted
by the aggregate on a prefix of the log that is still there. It is inductive because logs only grow:
no append changes `history[a][n]` for an existing `n`. If the append is not stale, the prefix it was decided
on is the whole log, so the guards hold of the current state and the event follows it; if it is stale,
the account joins `raced` and only `LimitsHold` has to survive, which speaks of the balance in the
event. Lemmas state what each event handler and each guard gives; `StepCases` reduces a step to an
append, a decision or a creation. The refinement proof maps a fresh append to `Credit`, `Debit`,
`Reserve` or `SetStatus`, a stale one to `Break`, a creation to `Open`, and everything else to a
stutter.

`TotalsAreSums` needs what a sum over a map becomes when one entry changes (`SumChange`), and that it is an
integer (`SumType`). `AccountProofs` proves both without a rule of induction. `SumFunction` unfolds to a
`CHOOSE` of a function that adds up every subset of the domain (`SumIsAdding`). That such a function exists
(`AddingExists`) and how a changed entry changes its values (`AddingChange`) holds of every subset, as otherwise a smallest
subset would violate it (`MinimalSubset`) and the recursion would lead to a smaller one.
`ApplyTotal` then says that each event moves the map and its total together.

### The sagas

`SagasProofs` proves for every finite set of transactions of any mix of kinds, every choice of accounts,
amounts and funds, every lag of the reads and every number of faults and crashes, from `SagasAssumption` and
the assumptions of `Account`:

| Theorem | States |
|---|---|
| `BaseInvariant` | `Spec => []Base` |
| `TypeCorrect` | `Spec => []TypeOK` |
| `OutcomesEarned` | `Spec => []OutcomesAreEarned` |
| `MissingMoneyListed` | `Spec => []MissingMoneyIsListed` |
| `CompletedRowsCompleted` | `Spec => []CompletedRowIsCompletedTransaction` |
| `TerminalStatusFinal` | `Spec => TerminalIsFinal` |
| `AccountsMatch` | `Spec => []AccountsMatchTransactions` |
| `ReportsInvariant` | `Spec => [](\A t \in Transactions : ReportsOK(t))` |
| `SagasImplementEscrow` | `Spec => MoneyIsEscrowed` |
| `MoneyConserved` | `Spec => []MoneyIsConserved` |
| `ReportsExact` | `Spec => []ReportsAreExact` |

The argument. The properties speak of logs, rows and accounts, and what a saga will do to them depends on the
call it is in; `Base` ties these together for each transaction. `PlaceOK`: the saga is in a call of its own program.
`LegsOK`: behind a call to an account its leg is stored, before it the leg is not. `LogOK` and `RowOK`: what the log
and the row report, in terms of `pc`; a row is marked failed only when no debit is outstanding or an answer was lost.
The programs are sequences, so `TopupTable` and its siblings first say what follows each call and where each throw
leads; after that, steps are cases on `pc`. Sagas share accounts but not legs, logs or rows, so `Base` needs
nothing about two of them. `AccountsMatch` does: `Books(a)` says that the balance is the opening
funds plus all credits and refunds less all debits, and the step of one saga changes one sum at one
transaction (`SumChange`).

`SagasImplementEscrow` maps a stored leg to `Take`, `Give` or `GiveBack`, a stored outcome to `Report`, a request to `Request`,
a status change or a reservation decided on an old read to `Break`, and everything else, lost answers included, to a stutter.
That a movement has not been made before and that the log still reads as it requires is a fact about the call the saga
is in, `LegsOK` for movements and `ReportsOK` for reports; that it respects the limits is a fact about the account, whose guard ran on the current
state unless the append is stale. `MoneyConserved` is kept by each step because a stored leg changes the sum of the balances
(at its account) and the sum of the transactions' contributions (at its transaction) by the same amount (`ConservedLeg`); that it changes the
first is `LegPays`, a lemma of the refinement, and that it changes the second is that no leg is stored twice (`NetStep`).

`ReportsExact` is the counterpart of `saga_atomicity`: what the sagas do when every read is complete, every call works and only
the aggregates refuse. Each saga that the process lives to finish reports one outcome, and the outcome tells exactly
which legs are stored. Completed is all of them; compensated is a debit and its refund; failed is nothing but perhaps a
reservation, with one exception: the account was suspended or closed between the debit and the refund, the refund is
refused, and the failed transaction keeps the money, while its row says COMPENSATING. So the double credit of
`saga_atomicity` takes a failing call or an incomplete read. No run checks `ReportsAreExact`: its premise is
`MaxLag = 0`, and the run `sagas` lets a read miss an event. Setting `MaxLag` and `MaxFaults` to 0 in `Sagas.cfg` checks it on that instance.

The proof needs more than `Base`, which allows for what a failed call leaves behind: `ExactOK` gives, for each call, the very
set of stored legs and the very log. While no call has failed and reads are complete, a call returns or is refused (`ExactEffects`). A
transaction whose log is just its request refuses nothing (`ExactRefused`), so the compensation is entered only from a
refused credit and `giveUp` only from a refused refund. The number of failed calls never goes back to zero
(`FaultsCount`), which makes the premise of the property safe to carry from step to step.

### The read models

`AccountRowsProofs` proves for every number of events, rebuilds and faults and every lag, from
`BoundsAssumption` and `NoRowAssumption` (the absent row is not a row):

| Theorem | States |
|---|---|
| `BaseInvariant` | `Spec => []Base` |
| `TypeCorrect` | `Spec => []TypeOK` |
| `VersionsForward` | `Spec => VersionsMoveForward` |
| `RowCurrent` | `Spec => []RowIsCurrent` |
| `RowsImplementReplica` | `Spec => RowLagsConsistently` |

The argument. `Base` says what the log, the row, and each job with its entity can be (`LogOK`, `RowOK`, `JobOK`).
For `VersionsForward`, `VersionInv` adds that before a rebuild each event has at most one job, and that
until two of them overlap one job at most is between its read and its save, with the row still as it read it
(`OneMidway`). For `RowCurrent`, `UndisturbedInv` says that one job at most is midway and that the row follows
the log: for some `d` it shows what the first `d` events set, every later event that has a handler still has its
job, and the job midway carries the row on, either by the first of those events or, if it is a rebuild, to
a longer prefix (`Follows`). A rebuild that runs alone ends a disturbance: `AloneInv` says that its entity is
the state of the whole log for as long as it is alone. `RowsImplementReplica` needs no more than these: a write to an undisturbed row
leaves one that `UndisturbedInv'` says shows a prefix (`ShowsSnapshot`), it takes no column back because the job midway
is for a later event or a longer prefix (`WriteNeverBack`), and a write that ends a disturbance is a `Repair` by `AloneInv`.

`RequestsProofs` proves for every set of transactions, every case of requests, every number of rebuilds and
faults and every lag, from `BoundsAssumption` and `NoRowAssumption`:

| Theorem | States |
|---|---|
| `BaseInvariant` | `Spec => []Base` |
| `TypeCorrect` | `Spec => []TypeOK` |
| `RowsHaveOwnKeys` | `Spec => []OneRowPerKey` |
| `RetriesRefused` | `Spec => []RetriesAreRefused` |
| `RowsForward` | `Spec => RowsMoveForward` |
| `RowsCurrent` | `Spec => []RowsAreCurrent` |

The argument. `Base` relates the log of a transaction, where its request is, its row and its jobs.
`RowsHaveOwnKeys` is `Insertable` plus the fact, from `Base`, that no update or rebuild gives a row another key.
`RetriesAreRefused` is not inductive: `Refused` says it of `pc`, and a retry is refused because a row that was
once there is never removed. For `RowsForward`, `FirstInv` says that before a rebuild one job at most creates the
row, and none once there is one. For `RowsCurrent`, `CurrentInv` says of a transaction that is neither disturbed nor
raced: if it has no row, a job is about to create it; its row is that of one of its events; and if that is not the
last one, the handler of the last has yet to run.

### The outbox

`OutboxProofs` proves for every number of events, retries, overlapping polls and faults and every batch
size, from `BoundsAssumption` and `NoRowAssumption`:

| Theorem | States |
|---|---|
| `BaseInvariant` | `Spec => []Base` |
| `TypeCorrect` | `Spec => []TypeOK` |
| `DeliveredPublished` | `Spec => []DeliveredWasPublished` |
| `GivenUpEarned` | `Spec => []GivenUpAfterRetries` |
| `InOrder` | `Spec => []InOrderUnlessDisturbed` |

The argument. A `save()` writes the columns in which an entity differs from the row it read, so a row may be a
mix of what two polls had. `Earned(e, status, retries)` is therefore a statement about each column alone:
delivered only if published, failed only after `MaxRetries` failures, never more retries than failures.
`Base` says it of the rows and of all entities that polls hold, and any mix keeps it. For `InOrder`,
`CalmInv` describes the processor while no poll has overlapped and no call has failed: one poll is busy, rows
and entities have not failed, and with an event the poll holds every older waiting event of the same
priority (`Closed`). A batch has that property when it is loaded, although it is cut off at the batch size,
because the query sorts before it cuts (`BatchClosed`).

### Clocks and timers

`RegionsProofs` proves for every set of processes, regions, aggregates and times, and every bound:

| Theorem | States |
|---|---|
| `ClocksAreTyped` | `Spec => []TypeOK` |
| `StampsRespectCausality` | `Spec => []CausesPrecede` |
| `MonotoneClocks` | `Spec => ClocksMoveForward` |
| `TimesAreReal` | `Spec => []NoInventedTime` |

The argument. `NowIsLater` and `UpdateIsLater` say that a clock's new value is later than its old one, and than
the stamp it took in, whatever the wall clock shows; `BeforeIsTransitive` orders the rest. `CausesPrecede`
is not inductive alone: `KnownIsPast` adds that a clock is at or after every stamp its process knows.
A restart keeps it because the process then knows nothing. The assumption is `RegionsAssumption`.

`TimersProofs` proves for every finite set of timers, any batch size, and any number of overlapping runs
and of faults:

| Theorem | States |
|---|---|
| `TypeCorrect` | `Spec => []TypeOK` |
| `CancelledNeverFires` | `Spec => []RevokedNeverFires` |
| `FiredSettles` | `Spec => []FiredIsSettled` |
| `FiresOnce` | `Spec => []FiresOnceUnlessDisturbed` |

The argument. None of the three is inductive: they speak of rows and payloads, and what a run will do
depends on the entities it still has. `IInv` relates the two. A pending timer that was fired is still held by
a run that will settle it (`FiredAreHeld`). A run at its save either leaves a row that is not pending, or its save
writes nothing because the row already has that status (`SavesSettle`). A revoked timer
is held by no run and stays cancelled, so that none loads it (`RevokedAreFree`). While no runs overlap there is
one run (`OneRun`), it has each timer once (`EachOnce`), and what it has not come to was not fired
(`RestUnfired`). There is one lemma per action. The assumption is `TimersAssumption`.

### Model-checked only

Liveness: `EndsUnlessEscaped`, `RowCatchesUp`, `PollersSeeTheEnd`, `EventsAreDelivered`, `DueTimersSettle`. They
rest on weak fairness, hence on `ENABLED`, which the installed provers do not treat. The runs that expect a violation are
counterexamples and need no proof.

## Not modelled

Currencies, owners, timestamps, the hash chain, HTTP, validation, audit and notifications: no guard of
the modelled parts reads them. `changeLimits()`, `verifyExpectedVersion()`, `validateInvariants()`,
`TransactionService.refund()`, `HLC.compare()` and the retry utility have no caller; limits-changed
events have no producer. No saga is registered with the saga event bus, and it filters out what the
outbox publishes. The replenishment policy acts only in the home region, on events that are emitted only
outside it and published only in the process that emitted them. The transaction reconciliation, the
statistics and the accounting equation only report. A load whose events have gaps (two loads of one
aggregate in one millisecond share a consumer group) is outside the models: a load returns a prefix.
Amounts are integers in the models and exact decimals in the code.

## Plan

Done: all modules with their runs; proofs of every invariant and action property that the runs check; the refinements
of `AtomicAccount`, `Escrow` and `Replica`.

What could be added: an abstract outbox (events are added, published at least once, settled) that `Outbox` implements; the lemmas
of `OutboxProofs` about saves would carry over.
