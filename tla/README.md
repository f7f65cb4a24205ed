# Payroll event processing: TLA+ models and proofs

This directory is a verification project for the payroll event processing
service: TLA+ models of its submission, its worker side, its queue, its reads
and its web console, the TLC runs that check them, and TLAPS proofs about them.
Paths below are relative to the repository; `event-processing.service.ts` and
the like live in `backend/src/processing`, `events.service.ts` and the like in
`backend/src/events`, the console's pages in `frontend/app`.

## 1. The system

The service accepts payroll events over HTTP, stores them in PostgreSQL, and
processes them through a BullMQ queue in Redis. An API process runs the HTTP
side; one or more worker processes run five concurrent job slots each and two
periodic sweeps. PostgreSQL is the only shared truth: every actor decides by a
guarded statement on the event's row. A web console submits events and shows
what becomes of them, by polling.

| Component | State it keeps | Operations | Talks to |
|---|---|---|---|
| Submission (`events.service.ts`, `sequence-allocation.ts`) | `payroll_events` rows, their `sequence` and `idempotency_key` | one transaction: advisory lock, `MAX(sequence)+1`, insert, history row; resolve a duplicate key; enqueue | database, queue |
| Event processing (`event-processing.service.ts`) | `status`, `attempts`, `result`, `failure_type`, `processing_started_at`, `event_status_history` | read, claim, call the provider, finish (succeed, fail, retry) | database, provider |
| Payroll provider (`simulated-payroll-provider.ts`) | none | answers success, transient or permanent failure | event processing |
| Job processor (`payroll-event-processor.ts`) | none | turns an outcome into completion, a throw or a defer | event processing, queue |
| Queue (BullMQ, `payroll-events-queue.*`) | job state, attempts made, stalls, locks | add, take, complete, retry, fail, delay, stall, evict | everyone |
| Backstop (`payroll-event-failed-backstop.ts`) | none | on an exhausted job: read the row, fail it if PROCESSING | database |
| Stale sweep (`stale-processing-sweep.service.ts`) | a candidate list per pass | list, and for each: read, recover or fail, enqueue | database, queue |
| Reconciliation sweep (`reconciliation-sweep.service.ts`) | a candidate list per pass | list long-PENDING events, enqueue each | database, queue |
| Reads (`events.controller.ts`, `events.service.ts`) | none | one event, then its history; a filtered page of events, then their number | database |
| Validation (`event-types/`) | none | dispatch on `eventType`, check, strip `eventType` | submission |
| Health (`health/`) | none | two probes at once, both awaited | database, Redis |
| Event page (`event/page.tsx`) | the answer it holds, flags, a poll's count and timer | poll, give up, resume, change of address | reads |
| Submit form (`submit/page.tsx`, `lib/api.ts`) | texts, idempotency key, errors | edit, preset, new key, submit, navigate | submission |
| List, dashboard, metrics, health page | the last answer, filter, page | load, filter, page, refresh at an interval | reads, health |
| Bootstrap, Prisma wiring, containers | connections | startup, shutdown | database, Redis |

### What is hard here, and what makes each part correct

* **Submission.** Concurrent transactions of one employee, retries under one
  key, rollbacks, a crash after the commit. Correct: numbers without gaps that
  appear in order, one event per key, an honest answer to every request,
  nothing enqueued that is not committed, no request stuck.
* **Event processing.** Two calls for one event; a call that outlasts the
  staleness threshold; a crash between the claim and the finish; the decision
  to retry taken from a value read earlier. Correct: order per employee, one
  outcome that never changes, a history that agrees with the row, attempts
  within the budget.
* **Sweeps and backstop.** They act on events whose worker may be alive, from
  lists and reads that may be old. Correct: only an abandoned attempt is taken
  back or failed.
* **Queue.** At-least-once delivery, no-op additions, two attempt counters
  that drift apart. Correct: one handler per event, and every event ends.
* **Reads.** Two statements without a common snapshot while workers commit.
  Correct: an answer's history tells how the event came to its status, and
  figures shown side by side add up.
* **Event page.** An answer under way when the address changes, the page is
  left or polling is resumed. Correct: it shows the event of its address, never
  goes back in time, keeps one poll alive, says truly whether it still polls,
  and shows the outcome in the end.
* **Submit form.** A key kept over failures and lost answers; a check of its
  own besides the service's. Correct: one event per key the user was given, and
  no form let pass that the service calls invalid, which holds but for dates.
* **Lists and health.** Requests that nobody cancels are answered in any order;
  a probe that waits while Redis is down. Correct: what is shown in the end is
  what is there, for the filter and page in force.

`PROJECT.json` lists each hazard at its line with the properties aimed at it.

## 2. The modules

```
                     EventLifecycle        what the service promises of an event
      implements   ^    ^         ^ EXTENDS
           +-------+    |         |
     Submission   EventProcessing  EventReads      GET /events/:id
                        ^              ^
                        |          EventPage       the page that polls it
                   PayrollSystem
                   INSTANCE PayrollQueue

     PayloadValidation <- ConsoleBackend <- ConsolePages <- SubmitPage <- Console
```

| Module | Models |
|---|---|
| `EventLifecycle` | The abstract specification: acceptance into one line per employee, start when everything ahead has ended, end. No database, worker or queue. |
| `EventProcessing` | The rows and everyone who changes them: `processEvent`, `recoverStaleProcessing` under the stale sweep, `reconcileExhaustedJob`, the submission's insert. |
| `Submission` | `EventsService.submit`, statement by statement. |
| `PayrollQueue` | BullMQ as this service configures and uses it. |
| `PayrollSystem` | Event processing behind the queue, with the job processor, the `failed` listener, both sweeps' enqueues and bounded faults. |
| `EventReads` | `findOne`: the lifecycle with its history rows, and the two statements that read them. |
| `EventPage` | The polling effect of `event/page.tsx` and what the page shows. |
| `PayloadValidation` | The DTOs and `validateEventPayload` as operators on small bodies. |
| `ConsoleBackend` | `findMany`, `/health` and the requests under way, over rows that change and dependencies that fail. |
| `ConsolePages` | List, dashboard, metrics and health page. |
| `SubmitPage` | The form, its POST and the POST's answer. |
| `Console` | The pages together, the links between them, other clients and faults. |
| `MC*` | Instances for TLC. |
| `EventLifecycleProofs`, `EventProcessingProofs`, `AttemptProofs`, `PayrollSystemProofs`, `SubmissionProofs`, `EventPageProofs`, `ConsoleProofs`, `ConsoleViewProofs` | Theorems, see section 4. |

### EventProcessing and the code

`status`, `sequence`, `attempts`, `failureType` and `result` are the columns
(`"NONE"`: no row yet); `history` is the event's `event_status_history`;
`stale` is the comparison of `processing_started_at` with the threshold, false
after a claim and turned true by the passing of time. A `worker` is one call of
`processEvent`, wherever it runs; its record holds what the call remembers
between its transactions: the event, the `attempts` read back at the claim, and
the provider's answer. A `sweep` is one pass, with its candidates and the
`attempts` it has read.

| Action | Code |
|---|---|
| `ReceiveJob` | `processEvent`: the first read and the early returns |
| `Claim`, `ClaimMiss`, `Diagnose` | `claimForProcessing`: the guarded UPDATE with its history row, its miss, the diagnostic read |
| `ProviderAnswers` | `provider.apply`, outside any transaction |
| `Finalize` | `runProviderAndFinalize`, then `finalizeSuccess`, `finalizeFailure` or `retryTransition` |
| `Throw`, `Crash`, `Acknowledge` | a rejected promise, the process's death, the return to the job processor |
| `BecomeStale` | time passes the threshold |
| `SweepSelect`, `SweepRead`, `SweepRecover`, `SweepEnqueue`, `SweepThrow`, `SweepCrash` | `runSweep` and `recoverStaleProcessing` |
| `BackstopRead`, `BackstopFinalize`, `BackstopLost` | `reconcileExhaustedJob` |
| `Submit` | the submission's transaction, seen from here as one step |

A transaction is one action when it runs one guarded statement and then works
on the row that statement has locked. The claim's `NOT EXISTS` is evaluated
with the update: an earlier event never leaves a terminal state, and none
appears late (`Submission!CommitsInOrder`), so an older snapshot of the
siblings can only refuse a claim that would now succeed. The diagnostic read
after a miss has no lock to protect it and is an action of its own.

Two constants separate what the code guarantees from what it hopes for.
`Overlap` says whether a call may still be running when its event is taken for
dead: no deadline in the code prevents it, the comment on
`STALE_PROCESSING_TIMEOUT_MS` argues that it is unlikely. `MayExhaust` says
which events' jobs the queue may give up while a call runs; by itself this
module lets the queue do anything, `PayrollSystem` makes it precise.

### Submission and the code

A request goes through `AcquireLock`, `ReadMax`, `Insert` (or
`InsertViolates`), `Commit`, then `Resolve` for a duplicate key, and
`EnqueueSafely`. `table` holds committed rows only, as READ COMMITTED shows
them; an insert waits for an uncommitted row with one of its unique values, as
PostgreSQL's unique indexes do. `Abort` is a failed statement, Prisma's
transaction timeout or the API process's death. The employee is part of the
payload (`BodyOf` determines `EmployeeOf`).

### PayrollQueue, PayrollSystem and the code

A job's id is its event's id. `Add` is a no-op while a job of that id exists in
any state, finished ones included; `removeOnComplete` and `removeOnFail` make
`Evict` possible once enough later jobs have finished, which depends on other
traffic and is therefore the constant `Eviction`. `FinishJob` maps the outcome
to a move of the job: a throw (also for `retry-scheduled`) to `Retry` or
`Exhaust`, `ordering-blocked` to `Defer`, everything else to `Complete`; a slot
whose lock is gone moves nothing. A job that stalls too often fails without the
backstop's acting on it, since its `attemptsMade` is below `attempts`. Faults
of each kind are bounded by `FaultLimit`. BullMQ's own code is not in the
repository: the module follows what the sources and their comments rely on.

### EventReads, EventPage and the code

`EventPage` stands on the lifecycle, not on `EventProcessing`: that rows take
the lifecycle's steps and that each step writes one history row is what
`ImplementsLifecycle` and `AuditTrail` say of the detailed model, both proved.
A position in `trail[e]` stands for a state of the row, so "older" and "newer"
are numbers to compare.

| Action | Code |
|---|---|
| `FindById`, `FindHistory` | `findOne` of the controller: the row, a 404, then the history |
| `RunEffect`, `Effect` | a run of `useEffect([id, resumeTick])`, after the cleanup of the one before |
| `CleanedUp` | the cleanup: `cancelled` and `clearTimeout`; a request under way is not aborted |
| `TakeAnswer`, `TakeFailure` | `fetchOnce` after its await: `setEvent`, the terminal check, the count, the next timer; the catch |
| `TimerFires` | `setTimeout(fetchOnce, POLL_INTERVAL_MS)` |
| `Open`, `Navigate`, `ResumePolling`, `LeavePage` | the user |
| `View`, `Pipeline`, `Timeline`, the banners | the component's return |

A change of address renders once with the old answer before the effect runs:
`due` is that moment, the only one in which an event is shown under another
address.

### The console's modules and the code

`ConsoleBackend` has one row list in the order of submission, of which
`FindMany` shows the newest first: of the matching rows, those whose place,
counted from the newest, lies on the page asked for. `ReadList` takes its two statements in two
steps, as READ COMMITTED gives each a snapshot. `calls` are the requests of the
mounted page. A request is answered when it can be: with a failure if the
database is down, and for health not before Redis is up, since the connection
has `maxRetriesPerRequest: null` and keeps a ping until it is back.

`ConsolePages` keeps one `view` record, since one page is mounted at a time.
`Load` is the list's `load`, silent from the interval; `OnList` is what a change
of filter or page leads to. Answers are taken in the order in which they come,
as nothing in the code cancels a request or compares it with the current query.
`SubmitPage` follows `handleSubmit`, the presets, `regenerateKey` and
`buildPayload`; its request goes through `Create` and `Enqueue`, which stand for
the behaviour `Submission` shows in detail, and outlives the page (`post.live`
says whether the form that sent it is still mounted). Texts and dates are the
few that validation tells apart (`PayloadValidation`); a date is none, one with
a year of four digits, or one with a year of five or six, which a date field
without a maximum takes too.

## 3. The runs

| Run | Instance | Shows |
|---|---|---|
| `overlap` | 2 events of one employee, 2 workers, 1 sweep, budget 2, late calls | typing, `OrderedClaim`, `AuditTrail`, `OneOutcome`, `DistinctAttempts`, `TerminalFrozen`, the budget's overrun bounded, and every step one of the lifecycle |
| `submission` | 5 requests: a repeated one, one reusing its key, two more; 3 employees, two of them on one lock | the submission's guarantees, that it implements the lifecycle's `Accept`, and that every request ends |
| `system_safety` | 2 events, 2 slots, timely calls, one fault of each kind | one handler per event, serial calls, the budget; a worker ends its own attempt only, the sweep a stale one only, the backstop none that runs |
| `evicting` | 1 event, slow calls, one fault of each kind, eviction | the event ends |
| `lost_enqueue` | 2 events, lost enqueues, no eviction | the reconciliation sweep makes up for them, and the event behind a delayed one ends too |
| `tracking` | 2 events of one employee, one page, 2 requests under way, 3 moves | the lifecycle's guarantees, consistent answers, the right event, one poll, no way back, and the outcome shown |
| `console` | 5 pages and the event page's link, 3 rows, 2 requests, 3 moves | forms refused for their date at most, one event per intent, figures that add up, lists and health that settle |

Five further runs end in a counterexample: each states what a comment or
document says, and TLC finds the steps that contradict it.

| Run | Says | The code |
|---|---|---|
| `sixth_claim` | no claim beyond the budget (`event-processing.service.ts:519`) | a late call or sweep acts on an `attempts` it read before the last claim; the CAS compares `status` only |
| `two_calls` | the provider is never called twice concurrently for an event (`:102`) | after a recovery, the slow call and its replacement overlap |
| `fresh_recovery` | a re-claimed event is left alone (`:525`) | it is PROCESSING, so a second pass takes it back although it is fresh; calls are timely here, so one pass at a time is a condition of its own |
| `crash` | a job that ran to completion has no PENDING event (`architecture.md:495`) | the redelivery after a crash completes as a no-op, and while that job is retained no enqueue has effect |
| `given_up` | a PENDING event of an exhausted job has a delivery coming (`:454`) | throws before the claim use up deliveries, not attempts |

None of the five breaks the order per employee, the finality of outcomes or the
audit trail: those hold, and are proved, without any assumption on timing.

The console has a sixth disagreement. `README.md:522` of the repository says
that the form's validation mirrors the service's rules. It does not for dates:
`submit/page.tsx:302` sets no `max`, `validate` (line 78) asks for some date
only, and `@IsDateString` (`base-event.dto.ts:13`) refuses a year of five or six
digits. In the model three steps lead there: `SetField("effectiveDate", "far")`,
`HandleSubmit`, and `Create` answers "invalid". The service stays
authoritative, so nothing wrong is stored, and the user is told of the error.
`OnlyDatesRefused` says, and `console` shows, that the two validations agree in
all else.

**Bounds.** Two workers and one sweep or backstop are the smallest number of
actors that can disagree about an event, and an actor's state is forgotten
between calls, so a further one adds what a further call of the same one adds.
A budget of two attempts has a first and a last one; overruns take the count to
four. Two events of one employee show the order; that employees do not hinder
each other's safety is left to the theorems, which hold for any number of both.
`MaxAttempts`, `JobAttempts`, `MaxStalls`, `FaultLimit`, `MaxFaults` bound the
service; in `overlap` the number of claims is not bounded by a guard but by the
protocol itself (`OvershootBounded`). In `tracking`, `MaxStarts` = 2 lets an
event be retried once or both be taken once, `MaxPollAttempts` = 2 lets a poll
go on once and give up, `MaxRequests` = 2 is a cancelled request beside a live
one, and `MaxMoves` = 3 opens, changes and resumes. In `console`, `MaxCalls` =
2 is an older request beside a newer one (a tick of the interval passes unused
while two are under way), `PageSize` = 1 with `MaxRows` = 3 makes three pages of
the list, `DashboardLimit` = 2 and `MetricsLimit` = 3 lie below and at the
number of rows, and `MaxMoves` = 3 counts what users, other clients, the
service's progress and faults do together. One POST is followed at a time; the
button is disabled while it waits, and the page is left with it at most once.
Worker and sweep symmetry is used where no property is a liveness property.
Deadlock is checked in the `EventProcessing` runs; in the others the system
stops once everything has ended or the moves are used up.

**Fairness.** `Submission!Fairness`: an API process that has not failed goes on
with its requests (weak), and PostgreSQL serves the waiters of an advisory lock
in turn, so none is passed over for ever (strong, on `AcquireLock`).
`PayrollSystem!SystemFairness`: calls proceed and job slots take and finish
jobs, delays expire, the stalled check and both sweeps run at their intervals
(weak); a job that is waiting again and again is taken in the end, since BullMQ
hands out jobs in order (strong, on `TakeJob`). Nothing is assumed of clients,
faults or slow calls: `SubmitEvent`, `ThrowInProcess`, `CrashWorker`,
`LockLapses`, the lost enqueues and a failing sweep have no fairness.
`EvictJob` is fair where `Eviction` is TRUE, that is, under continuing traffic;
the run `crash` shows what happens without.
`EventPage!TrackingFairness`: React runs an effect that is due, and requests are
answered and timers fire, for the live poll and for cancelled ones each (weak).
`Console!ConsoleFairness`: every request is worked on and answered as far as
the dependencies let it (weak, per slot), and intervals tick again and again
(strong, since a tick that finds both slots taken passes). Nothing is assumed
of the user, the POST, outages, their repair, or the service's progress.

## 4. The proofs

The theorems hold for every value of the constants under the modules' named
assumptions, and under the conditions listed with them.

| Module | Theorem | States |
|---|---|---|
| `EventLifecycleProofs` | `EmployeesHaveOneLine`, `EndsAreOrdered`, `OneAtATime` | `OneLine`, `EndInOrder`, `OneRunningPerEmployee` |
| `EventProcessingProofs` | `TypeCorrect`, `Ordering`, `OutcomesAreFinal`, `OutcomesAreUnique`, `AuditIsComplete` | `TypeOK`, `OrderedClaim` and `DistinctSequences`, `TerminalFrozen`, `OneOutcome`, `AuditTrail` |
| | `ProcessingImplementsLifecycle`, `RowsRunOneAtATime` | `ImplementsLifecycle`, and by it one running row per employee |
| | `LinesMoveOn` | of an employee's unfinished events exactly one, the first, runs or may be claimed (`OneHeadOfLine`) |
| `AttemptProofs` | `AttemptsAreDistinct` | `DistinctAttempts` |
| | `OvershootIsBounded` | `OvershootBounded`, for finitely many calls and passes |
| | `BudgetIsKept`, `OwnAttemptsOnly`, `OnlyStaleRecovered` | `BudgetRespected`, `FinalizesOwnAttempt`, `RecoversOnlyStale`, if `Overlap = FALSE` and `OnePass` |
| | `CallsAreSerial` | `SerialCallsPerEmployee`, if besides `MayExhaust = {}` |
| `PayrollSystemProofs` | `SystemImplementsProcessing` | `SystemSpec => Spec` |
| | `SystemKeepsOrderAndOutcomes`, `TimelySystem` | the theorems above, of the whole system |
| | `SystemTypeCorrect`, `HandlersAreAlone` | `SystemTypeOK`; `OneHandlerPerEvent`, if `Overlap = FALSE` |
| | `BackstopWaits`, `SystemCallsAreSerial` | `BackstopSparesRunning`, `SerialCallsPerEmployee`, if `Overlap = FALSE`, failed jobs stay, and, for the second, `OnePass` |
| | `JobsEndWithEvents` | a finished job's event is over, deliveries and attempts are counted alike, `GivenUpIsNotPending`, if `FaultFree` |
| | `RepairsAreForFaults` | the stale sweep and the backstop find nothing to do, if `FaultFree` |
| | `FaultFreeBudget`, `FaultFreeCallsAreSerial`, `FaultFreeOwnAttempts` | `BudgetRespected`, `SerialCallsPerEmployee`, `FinalizesOwnAttempt`, if `FaultFree`, with passes that overlap and jobs that are evicted |
| `SubmissionProofs` | `SubmissionTypeCorrect`, `NumbersAreGapless`, `KeysAreUnique`, `ConcurrencyIsHarmless`, `RepliesAreHonest`, `EnqueuesAreCommitted`, `CommitsAreInOrder` | each invariant of `submission`, and `CommitsInOrder` |
| | `SubmissionImplementsAccept` | `ImplementsAccept` |
| | `SubmissionImplementsSubmit` | `Spec => EventProcessing!Spec`, by no steps but `Submit` |
| `EventPageProofs` | `TrackingImplementsLifecycle`, `TrackedEventsAreOrdered` | `TrackingSpec => LifecycleSpec`, and what follows from it |
| | `TrackingTypeCorrect`, `AnswersTellTheWay`, `AddressIsShown`, `OnePollAsShown`, `NeverBack` | `TrackingTypeOK`, `AnswersAreConsistent`, `ShowsRequestedEvent`, `PollingAsShown`, `ShownNeverGoesBack` |
| `ConsoleProofs` | `FormsDifferInDates` | of a form in order the service finds fault with the date alone, if its year is too long, else with nothing |
| | `RefusalsAreForDates`, `IntentsMakeOneEvent` | `OnlyDatesRefused`, `OneEventPerIntent` |
| `ConsoleViewProofs` | `PageIsTheOneAskedFor` | `FindMany` returns the matching rows from the offset on, newest first, and no more than the limit |
| | `ConsoleTyped`, `CardsAddUp` | `ConsoleTypeOK`, `CardsWithinTotal` |

**Rows.** The argument rests on one lemma, `StepOfTables`: whatever an actor
does, the rows either stay as they are or one event's row takes one of five
steps (insert, claim, retry, succeed, fail), each under its guard. Calls,
sweeps and the backstop drop out of the proofs about rows. `OrderedClaim` is
not inductive. What makes it so (`OrderInv`) is that rows are numbered from 1
upwards and events without a row have number 0 and no attempt, and that numbers
of one employee differ: an insert gets a number above all others, so it is
never earlier than a claimed event; a claim requires the earlier ones to be
terminal; terminal rows stay. `AuditTrail` is inductive with the typing of the
rows (`TrailInv`). The refinement maps `phase` to `status` and `ahead` to
`Earlier`; its step lemma uses `OrderInv`. `LinesMoveOn` follows from
`OrderInv` too: the unfinished event with the least number (`LeastNumber`) has
only finished ones before it, and is in the way of every other. It is the
safety half of what `EventuallyEnds` checks, and is only proved. The lifecycle's own theorems come
from `LineInv` (accepted events of an employee are comparable, and only
accepted ones are ahead of another) and `StartedInTurn`.

**Attempts.** A claim numbers its attempt one above the row's count, which
never falls: calls in flight never share a number. The overrun is a matter of
counting (`OverrunInv`): once the budget is used up, the claims beyond it, the
event's waiting for another, and the calls and passes that hold an attempt with
retries left add up to fewer than there are actors, since each of those can
return the event once and then has to start anew. With timely calls and one
pass, `TimelyInv` says more: the one call in flight of a running event holds
the attempt the row counts (`FlightsAlone`), what a pass has listed is still
the stale attempt it listed (`ListsRight`), and an event that waits has budget
left (`WithinBudget`). `OnePass` is needed, as `fresh_recovery` shows. The code
does not enforce it: an interval starts a pass whether or not the last has
ended, and each worker process has one of its own.

**System.** Every system step is a step of event processing or leaves rows and
calls alone; the queue decides only which steps may come. `HandlersHold` (a
call that goes on has its job active in its slot) gives one handler per event;
`GivenUpStays` (a job that was given up stays failed until the listener has
done its work) and `FlightsRun` (a call in flight has a running row) give what
`CallsAreSerial` has to assume of the queue.

**Without faults.** `FaultFree` says that calls are timely, nothing crashes or
throws and a job has as many attempts as its event; lost enqueues, eviction and
overlapping sweeps may occur. Then row, job and slot agree about every event
(`FitInv`). A slot at work holds the job (`AtWork`), and the job's row is where
the call takes it to be. `made`, BullMQ's count of deliveries, goes up with each
`retry-scheduled` as `attempts` does, and `ordering-blocked` raises neither, so
the queue gives a job up only when the row is out of attempts too, which
`Finalize` has made FAILED before. No attempt goes stale, since its job is
active, and the sweep and the backstop have nothing to do (`NothingToRepair`),
which is why `OnePass` is not needed here. The condition is not idle: in
`crash` a single crash leaves a finished job whose event is not over, and in
`given_up` a single throw uses up a delivery without an attempt.

**Submission.** `SubmissionInv` consists of the unique keys (`KeyInv`), the
lock's single holder with a number above all committed ones (`OneHolder`,
`NumberFree`), and what a request in each state knows (`AnswerInv`). The
refinement maps a committed request's event to the lifecycle's line; the commit
is `Accept`, everything else a stutter. `SubmissionImplementsSubmit` relates the
two models of the insert: with a row's columns as the processing sees them at
the commit (`Processing`), the commit is `EventProcessing!Submit` and nothing
else shows. The step needed is `HighestIsLast`: the number a request holds
under the lock is one above the highest of its employee, which follows from
`NumberFree` and `GaplessSequences`.

**Event page.** `PageInv` says that every poll has read the row before the
history (`ReadInOrder`), and of the one that is alive that its id is the
address's, unless an effect is due, and that what it has read is no older than
what is shown (`NoOlderThanShown`).
Since a single poll is alive and its requests follow one another, answers
cannot overtake. `TrailInv` ties the trail to the lifecycle's phase, so that an
outcome is a trail's last entry.

**Console.** `IntentInv`: keys of rows and of the request were generated, no
two rows share one, a request under way is valid to the service but for its
date (`FitButForDate`), and a committed or accepted request has its row.
`FormsDifferInDates` compares the two validations field by field. The count of events per key is an injection into
`1..keys`. What the pages hold is typed by `PagesInv`, which says besides that a
list's items are never more than the total beside them where no filter is set
(`CountsUp`): `findMany` reads the items first, then counts, and in between
events are added but never deleted. It needs to know what `FindMany` returns;
`Places` shows that the place of a matching row, counted from the newest, maps
the matching rows one to one onto 1, 2, ..., so that a page has no gap and
repeats no row.

**Assumptions** beyond the typing of constants: Redis answers an enqueue or refuses it (`EnqueueSafely` of `Submission`
has no third outcome: an enqueue that waits for a connection waits until Redis
is back, which `EveryRequestEnds` counts on); a preset's employee is one of the
texts considered and filled in, as in `submit/page.tsx` (`SubmitAssumption`,
`PresetsAreFilledIn`). Of the conditions of theorems, `OnePass` is not enforced
by the code, as said above; `Overlap = FALSE` is what the comment on
`STALE_PROCESSING_TIMEOUT_MS` hopes for; and `MaxAttempts <= JobAttempts`, in
`FaultFree`, holds of the constants, which are both 5.

**Only model-checked**: liveness (`EventuallyEnds`, `EveryRequestEnds`,
`EventuallyShown`, `ListsSettle`, `HealthSettles`), which is beyond the prover,
as are ENABLED and induction over data. `FindMany` is therefore stated by
positions instead of by a recursion over the list. Every other property of a
passing run is stated by a theorem.

## 5. Not modelled, and why

* Times. Only the staleness of an attempt matters to the guards; delays and
  intervals are "some time later". Hence also the order of history rows by
  `occurred_at`, and of list rows by `submitted_at` where they are equal, is
  not modelled; `trail` and `rows` are in commit order.
* Contents of payloads, results and failure reasons, beyond what validation
  tells apart. Bodies of other clients are taken as valid.
* The malformed-job branch of the processor and the missing-job branch of the
  listener: `enqueue` always sends an id.
* The counting of the rate limit (`@nestjs/throttler`): its refusal may come at
  any time instead. HTTP bootstrap, CORS, body limits: configuration.
* The worker's startup, Prisma's connections, shutdown: a failure there ends
  the process before any modelled step, or between any two, which `Crash`,
  `SweepCrash` and `Abort` cover.
* The sidebar's health pill, the theme, icons, percentages and formatting: no
  property of the project is about them.
* Containers and CI.

## 6. Plan

Done: every component with state of its own, the composition of workers, queue
and sweeps, the refinements of the lifecycle and of the submission's one step,
and the safety theorems above.

Left, in this order:

1. `WorkerLifecycle`: startup sweep, interval timers and shutdown, in front of
   `PayrollSystem`; its question is whether a failing first pass takes the
   worker down for good.
2. The comment on `findMany` that `total` reflects the same snapshot as
   `items` (`events.service.ts`), as a run of its own: each of the two
   statements has its own snapshot. `CardsWithinTotal` holds because the items
   are read first and events are never deleted; with a filter on the status the
   total can be smaller than the page beside it.
3. Prisma's interactive transactions and their timeout, to separate in
   `Submission` what a rollback leaves from what a lost connection leaves.
4. `Console` with `Submission` in place of `Create` and `Enqueue`, related by
   a refinement instead of by argument.
