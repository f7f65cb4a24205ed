--------------------------- MODULE EventProcessing ---------------------------
(***************************************************************************)
(* The processing of payroll events over their PostgreSQL rows: the worker *)
(* calls (EventProcessingService.processEvent), the stale-processing       *)
(* sweep, the exhausted-job backstop and the submission that creates a     *)
(* row.  Every transaction is one action; what the code does in two        *)
(* statements outside one transaction is two actions, with any step of any *)
(* other actor in between.                                                 *)
(*                                                                         *)
(* A call of a worker may be made for any event at any moment, as often as *)
(* one likes: nothing here depends on what the queue delivers.  The queue  *)
(* is put in front of these actions by a module of its own.                *)
(***************************************************************************)
EXTENDS Naturals, Sequences, FiniteSets

CONSTANTS
  Event,        \* ids of the events that can be submitted
  Employee,     \* employees
  EmployeeOf,   \* payload.employeeId of each event
  Worker,       \* concurrent calls of processEvent, over all worker processes
  Sweeper,      \* overlapping passes of the stale sweep, over all processes
  MaxAttempts,  \* payroll_events.max_attempts
  Answers,      \* Answers[e]: what the provider may answer for e
  Overlap,      \* may a call still be running when its event is taken for dead?
  MayExhaust,   \* events whose job the queue may report as exhausted
  None          \* no event

ProviderAnswer == {"SUCCESS", "TRANSIENT", "PERMANENT"}

ASSUME ProcessingAssumption ==
  /\ IsFiniteSet(Event)
  /\ EmployeeOf \in [Event -> Employee]
  /\ MaxAttempts \in Nat \ {0}
  /\ Answers \in [Event -> SUBSET ProviderAnswer]
  /\ Overlap \in BOOLEAN
  /\ MayExhaust \subseteq Event
  /\ None \notin Event

VARIABLES
  status,       \* payroll_events.status, "NONE" while there is no row
  sequence,     \* payroll_events.sequence, 0 while there is no row
  attempts,     \* payroll_events.attempts
  failureType,  \* payroll_events.failure_type, "NULL" for null
  result,       \* is payroll_events.result set?
  stale,        \* is processing_started_at older than the staleness threshold?
  history,      \* event_status_history of each event, in insertion order
  worker,       \* the state of each worker call
  sweep,        \* the state of each sweep pass
  backstop      \* events a backstop call has read as PROCESSING and will fail

db == <<status, sequence, attempts, failureType, result, stale, history>>
vars == <<status, sequence, attempts, failureType, result, stale, history,
          worker, sweep, backstop>>

Terminal == {"SUCCEEDED", "FAILED"}
Status == {"NONE", "PENDING", "PROCESSING"} \cup Terminal
FailureType == {"NULL", "RETRYABLE", "PERMANENT"}

(* processEvent's result; "error" is the promise being rejected. *)
Outcome == {"missing", "terminal", "already-processing", "lost-race",
            "ordering-blocked", "succeeded", "failed", "retry-scheduled", "error"}

HistoryRow ==
  [from : Status \cup {"NULL"}, to : Status, attempt : Nat]

IdleWorker == [pc |-> "idle", event |-> None, attempt |-> 0, answer |-> "none"]

WorkerState ==
  {IdleWorker} \cup
  [pc : {"claim", "diagnose", "provider", "finalize", "done"}, event : Event,
   attempt : Nat, answer : ProviderAnswer \cup Outcome \cup {"none"}]

IdleSweep == [pc |-> "idle", event |-> None, attempt |-> 0, todo |-> {}]

SweepState ==
  [pc : {"idle", "next"}, event : {None}, attempt : {0}, todo : SUBSET Event] \cup
  [pc : {"recover", "enqueue"}, event : Event, attempt : Nat, todo : SUBSET Event]

Init ==
  /\ status = [e \in Event |-> "NONE"]
  /\ sequence = [e \in Event |-> 0]
  /\ attempts = [e \in Event |-> 0]
  /\ failureType = [e \in Event |-> "NULL"]
  /\ result = [e \in Event |-> FALSE]
  /\ stale = [e \in Event |-> FALSE]
  /\ history = [e \in Event |-> <<>>]
  /\ worker = [w \in Worker |-> IdleWorker]
  /\ sweep = [s \in Sweeper |-> IdleSweep]
  /\ backstop = {}

-----------------------------------------------------------------------------
(* The table and the guarded statements on it. *)

Siblings(e) == {f \in Event : EmployeeOf[f] = EmployeeOf[e]}

(* sequence[f] is COALESCE(MAX(sequence), 0) over the employee's rows, read    *)
(* under the employee's advisory lock; without a row an event counts as 0.     *)
HasMaxSequence(f, e) ==
  f \in Siblings(e) /\ \A g \in Siblings(e) : sequence[g] <= sequence[f]

Earlier(e) == {f \in Siblings(e) : status[f] # "NONE" /\ sequence[f] < sequence[e]}

(* Mutants: only a running, only a waiting, or any unsuccessful sibling blocks. *)
BlockedByRunning(e) == \E f \in Earlier(e) : status[f] = "PROCESSING"
BlockedByWaiting(e) == \E f \in Earlier(e) : status[f] = "PENDING"
BlockedByUnsuccessful(e) == \E f \in Earlier(e) : status[f] # "SUCCEEDED"

BlockedByOrdering(e) == \E f \in Earlier(e) : status[f] \notin Terminal

AppendHistory(e, from, to, n) ==
  history' = [history EXCEPT ![e] = Append(@, [from |-> from, to |-> to, attempt |-> n])]

(* Mutant: the UPDATE lacks the NOT EXISTS. *)
ClaimableUnordered(e) == status[e] = "PENDING"

(* The claim's guarded UPDATE matches the row. *)
Claimable(e) == status[e] = "PENDING" /\ ~BlockedByOrdering(e)

(* Mutants: the history row carries the count before the increment; the claim *)
(* is not counted.                                                            *)
ClaimRowMisnumbered(e) ==
  /\ Claimable(e)
  /\ status' = [status EXCEPT ![e] = "PROCESSING"]
  /\ attempts' = [attempts EXCEPT ![e] = @ + 1]
  /\ stale' = [stale EXCEPT ![e] = FALSE]
  /\ AppendHistory(e, "PENDING", "PROCESSING", attempts[e])
  /\ UNCHANGED <<sequence, failureType, result>>

ClaimRowUncounted(e) ==
  /\ Claimable(e)
  /\ status' = [status EXCEPT ![e] = "PROCESSING"]
  /\ stale' = [stale EXCEPT ![e] = FALSE]
  /\ AppendHistory(e, "PENDING", "PROCESSING", attempts[e])
  /\ UNCHANGED <<sequence, attempts, failureType, result>>

ClaimRow(e) ==
  /\ Claimable(e)
  /\ status' = [status EXCEPT ![e] = "PROCESSING"]
  /\ attempts' = [attempts EXCEPT ![e] = @ + 1]
  /\ stale' = [stale EXCEPT ![e] = FALSE]
  /\ AppendHistory(e, "PENDING", "PROCESSING", attempts[e] + 1)
  /\ UNCHANGED <<sequence, failureType, result>>

(* Mutant: the update's WHERE names the row but not its status. *)
RetryTransitionUnguarded(e) ==
  /\ status' = [status EXCEPT ![e] = "PENDING"]
  /\ AppendHistory(e, "PROCESSING", "PENDING", attempts[e])
  /\ UNCHANGED <<sequence, attempts, failureType, result, stale>>

RetryTransition(e) ==
  /\ status[e] = "PROCESSING"
  /\ status' = [status EXCEPT ![e] = "PENDING"]
  /\ AppendHistory(e, "PROCESSING", "PENDING", attempts[e])
  /\ UNCHANGED <<sequence, attempts, failureType, result, stale>>

(* Mutant: likewise for the success. *)
FinalizeSuccessUnguarded(e) ==
  /\ status' = [status EXCEPT ![e] = "SUCCEEDED"]
  /\ result' = [result EXCEPT ![e] = TRUE]
  /\ AppendHistory(e, "PROCESSING", "SUCCEEDED", attempts[e])
  /\ UNCHANGED <<sequence, attempts, failureType, stale>>

FinalizeSuccess(e) ==
  /\ status[e] = "PROCESSING"
  /\ status' = [status EXCEPT ![e] = "SUCCEEDED"]
  /\ result' = [result EXCEPT ![e] = TRUE]
  /\ AppendHistory(e, "PROCESSING", "SUCCEEDED", attempts[e])
  /\ UNCHANGED <<sequence, attempts, failureType, stale>>

(* Mutant: the provider's classification is stored as the failure type. *)
FinalizeFailureUnmapped(e, type) ==
  /\ status[e] = "PROCESSING"
  /\ status' = [status EXCEPT ![e] = "FAILED"]
  /\ failureType' = [failureType EXCEPT ![e] =
                       IF type = "RETRYABLE" THEN "TRANSIENT" ELSE type]
  /\ AppendHistory(e, "PROCESSING", "FAILED", attempts[e])
  /\ UNCHANGED <<sequence, attempts, result, stale>>

FinalizeFailure(e, type) ==
  /\ status[e] = "PROCESSING"
  /\ status' = [status EXCEPT ![e] = "FAILED"]
  /\ failureType' = [failureType EXCEPT ![e] = type]
  /\ AppendHistory(e, "PROCESSING", "FAILED", attempts[e])
  /\ UNCHANGED <<sequence, attempts, result, stale>>

(* Any of the three updates above when its WHERE matches no row. *)
CasMiss(e) == status[e] # "PROCESSING" /\ UNCHANGED db

-----------------------------------------------------------------------------
(* EventsService.submit's transaction: the row and its first history row.    *)

InsertRow(e) ==
  /\ status[e] = "NONE"
  /\ \E f \in Event :
       /\ HasMaxSequence(f, e)
       /\ sequence' = [sequence EXCEPT ![e] = sequence[f] + 1]
  /\ status' = [status EXCEPT ![e] = "PENDING"]
  /\ AppendHistory(e, "NULL", "PENDING", 0)
  /\ UNCHANGED <<attempts, failureType, result, stale>>

Submit(e) == InsertRow(e) /\ UNCHANGED <<worker, sweep, backstop>>

-----------------------------------------------------------------------------
(* Worker calls.                                                             *)

Become(w, state) == worker' = [worker EXCEPT ![w] = state]

CallAt(pc, e, attempt, answer) ==
  [pc |-> pc, event |-> e, attempt |-> attempt, answer |-> answer]

(* processEvent ends with an outcome, which the job processor acts on. *)
Return(w, e, outcome) ==
  Become(w, CallAt("done", e, 0, outcome))

(* The row is read; anything but PENDING is a no-op. *)
ReceiveJob(w, e) ==
  /\ worker[w].pc = "idle"
  /\ \/ status[e] = "NONE" /\ Return(w, e, "missing")
     \/ status[e] \in Terminal /\ Return(w, e, "terminal")
     \/ status[e] = "PROCESSING" /\ Return(w, e, "already-processing")
     \/ /\ status[e] = "PENDING"
        /\ Become(w, CallAt("claim", e, 0, "none"))
  /\ UNCHANGED <<db, sweep, backstop>>

(* Mutant: the call goes by the attempts it read with the row, before the claim. *)
ClaimUnread(w) ==
  LET e == worker[w].event IN
  /\ worker[w].pc = "claim"
  /\ ClaimRow(e)
  /\ Become(w, CallAt("provider", e, attempts[e], "none"))
  /\ UNCHANGED <<sweep, backstop>>

(* The claim transaction: the guarded UPDATE, the read-back of attempts that *)
(* the rest of the call goes by, and the history row.                        *)
Claim(w) ==
  LET e == worker[w].event IN
  /\ worker[w].pc = "claim"
  /\ ClaimRow(e)
  /\ Become(w, CallAt("provider", e, attempts'[e], "none"))
  /\ UNCHANGED <<sweep, backstop>>

(* The UPDATE matched no row. *)
ClaimMiss(w) ==
  /\ worker[w].pc = "claim"
  /\ ~Claimable(worker[w].event)
  /\ Become(w, CallAt("diagnose", worker[w].event, 0, "none"))
  /\ UNCHANGED <<db, sweep, backstop>>

(* The diagnostic read after a miss is a statement of its own: it may see a  *)
(* later state than the UPDATE did.                                          *)
Diagnose(w) ==
  LET e == worker[w].event IN
  /\ worker[w].pc = "diagnose"
  /\ \/ status[e] = "PENDING" /\ Return(w, e, "ordering-blocked")
     \/ status[e] # "PENDING" /\ Return(w, e, "lost-race")
  /\ UNCHANGED <<db, sweep, backstop>>

(* The provider, called outside any transaction, answers. *)
ProviderAnswers(w) ==
  /\ worker[w].pc = "provider"
  /\ \E a \in Answers[worker[w].event] :
       Become(w, CallAt("finalize", worker[w].event, worker[w].attempt, a))
  /\ UNCHANGED <<db, sweep, backstop>>

(* Mutant: off by one. *)
RetriesLeftInclusive(attempt) == attempt <= MaxAttempts

(* The attempt number a caller has read is within the retry budget. *)
RetriesLeft(attempt) == attempt < MaxAttempts

(* One finishing transaction, chosen by the answer and by the attempt number *)
(* read when the event was claimed.                                          *)
FinalizeAs(w, e) ==
  \/ /\ worker[w].answer = "SUCCESS"
     /\ FinalizeSuccess(e)
     /\ Return(w, e, "succeeded")
  \/ /\ worker[w].answer = "PERMANENT"
     /\ FinalizeFailure(e, "PERMANENT")
     /\ Return(w, e, "failed")
  \/ /\ worker[w].answer = "TRANSIENT"
     /\ RetriesLeft(worker[w].attempt)
     /\ RetryTransition(e)
     /\ Return(w, e, "retry-scheduled")
  \/ /\ worker[w].answer = "TRANSIENT"
     /\ ~RetriesLeft(worker[w].attempt)
     /\ FinalizeFailure(e, "RETRYABLE")
     /\ Return(w, e, "failed")

Finalize(w) ==
  LET e == worker[w].event IN
  /\ worker[w].pc = "finalize"
  /\ FinalizeAs(w, e) \/ (CasMiss(e) /\ Return(w, e, "lost-race"))
  /\ UNCHANGED <<sweep, backstop>>

(* The provider or the database throws: before the step under way took       *)
(* effect, or after a commit whose acknowledgement was lost.                 *)
Throw(w) ==
  /\ worker[w].pc # "idle"
  /\ worker[w].answer # "error"
  /\ Return(w, worker[w].event, "error")
  /\ UNCHANGED <<db, sweep, backstop>>

(* The job processor has passed the outcome on to the queue. *)
Acknowledge(w) ==
  /\ worker[w].pc = "done"
  /\ Become(w, IdleWorker)
  /\ UNCHANGED <<db, sweep, backstop>>

(* The worker process dies; what it had committed stays. *)
Crash(w) ==
  /\ worker[w].pc # "idle"
  /\ Become(w, IdleWorker)
  /\ UNCHANGED <<db, sweep, backstop>>

(* A call that won the claim and has not yet ended its finishing transaction. *)
InFlight(w, e) ==
  worker[w].event = e /\ worker[w].pc \in {"provider", "finalize"}

(* now() passes processing_started_at by more than the threshold. *)
PassThreshold(e) ==
  /\ status[e] = "PROCESSING"
  /\ ~stale[e]
  /\ stale' = [stale EXCEPT ![e] = TRUE]
  /\ UNCHANGED <<status, sequence, attempts, failureType, result, history>>

(* The staleness threshold passes.  The code does not bound how long a call   *)
(* takes: only with ~Overlap does every call end before its threshold.        *)
BecomeStale(e) ==
  /\ Overlap \/ \A w \in Worker : ~InFlight(w, e)
  /\ PassThreshold(e)
  /\ UNCHANGED <<worker, sweep, backstop>>

-----------------------------------------------------------------------------
(* StaleProcessingSweepService.runSweep and recoverStaleProcessing.          *)

PassAt(pc, e, attempt, todo) ==
  [pc |-> pc, event |-> e, attempt |-> attempt, todo |-> todo]

(* A candidate is dealt with: the pass goes on to the next one or ends. *)
NextCandidate(s, todo) ==
  sweep' = [sweep EXCEPT ![s] =
              PassAt(IF todo = {} THEN "idle" ELSE "next", None, 0, todo)]

(* Mutant: the query lacks the condition on processing_started_at. *)
SweepSelectAny(s) ==
  LET candidates == {e \in Event : status[e] = "PROCESSING"} IN
  /\ sweep[s].pc = "idle"
  /\ candidates # {}
  /\ NextCandidate(s, candidates)
  /\ UNCHANGED <<db, worker, backstop>>

(* A pass begins with the list of candidates. *)
SweepSelect(s) ==
  LET candidates == {e \in Event : status[e] = "PROCESSING" /\ stale[e]} IN
  /\ sweep[s].pc = "idle"
  /\ candidates # {}
  /\ NextCandidate(s, candidates)
  /\ UNCHANGED <<db, worker, backstop>>

(* recoverStaleProcessing's own read of the row. *)
SweepRead(s, e) ==
  /\ sweep[s].pc = "next"
  /\ e \in sweep[s].todo
  /\ \/ /\ status[e] = "PROCESSING"
        /\ sweep' = [sweep EXCEPT ![s] =
                       PassAt("recover", e, attempts[e], sweep[s].todo \ {e})]
     \/ /\ status[e] # "PROCESSING"
        /\ NextCandidate(s, sweep[s].todo \ {e})
  /\ UNCHANGED <<db, worker, backstop>>

(* The write, decided by the attempts read before, guarded on status alone. *)
SweepRecover(s) ==
  LET e == sweep[s].event IN
  /\ sweep[s].pc = "recover"
  /\ \/ /\ RetriesLeft(sweep[s].attempt)
        /\ RetryTransition(e)
        /\ sweep' = [sweep EXCEPT ![s] =
                       PassAt("enqueue", e, sweep[s].attempt, sweep[s].todo)]
     \/ /\ ~RetriesLeft(sweep[s].attempt)
        /\ FinalizeFailure(e, "RETRYABLE")
        /\ NextCandidate(s, sweep[s].todo)
     \/ /\ CasMiss(e)
        /\ NextCandidate(s, sweep[s].todo)
  /\ UNCHANGED <<worker, backstop>>

(* Only an event returned to PENDING is handed to the queue again. *)
SweepEnqueue(s) ==
  /\ sweep[s].pc = "enqueue"
  /\ NextCandidate(s, sweep[s].todo)
  /\ UNCHANGED <<db, worker, backstop>>

(* The read, the write or the enqueue of one candidate throws: it is logged  *)
(* and the pass goes on.                                                     *)
SweepThrow(s) ==
  /\ \/ sweep[s].pc \in {"recover", "enqueue"} /\ NextCandidate(s, sweep[s].todo)
     \/ /\ sweep[s].pc = "next"
        /\ \E e \in sweep[s].todo : NextCandidate(s, sweep[s].todo \ {e})
  /\ UNCHANGED <<db, worker, backstop>>

SweepCrash(s) ==
  /\ sweep[s].pc # "idle"
  /\ sweep' = [sweep EXCEPT ![s] = IdleSweep]
  /\ UNCHANGED <<db, worker, backstop>>

-----------------------------------------------------------------------------
(* reconcileExhaustedJob, called when the queue gives a job up.              *)

BackstopRead(e) ==
  /\ e \in MayExhaust \ backstop
  /\ status[e] = "PROCESSING"
  /\ backstop' = backstop \cup {e}
  /\ UNCHANGED <<db, worker, sweep>>

BackstopFinalize(e) ==
  /\ e \in backstop
  /\ FinalizeFailure(e, "RETRYABLE") \/ CasMiss(e)
  /\ backstop' = backstop \ {e}
  /\ UNCHANGED <<worker, sweep>>

(* The write throws, which is only logged, or the process dies. *)
BackstopLost(e) ==
  /\ e \in backstop
  /\ backstop' = backstop \ {e}
  /\ UNCHANGED <<db, worker, sweep>>

-----------------------------------------------------------------------------

WorkerStep(w) ==
  \/ \E e \in Event : ReceiveJob(w, e)
  \/ Claim(w) \/ ClaimMiss(w) \/ Diagnose(w)
  \/ ProviderAnswers(w) \/ Finalize(w)
  \/ Throw(w) \/ Acknowledge(w) \/ Crash(w)

SweepStep(s) ==
  \/ SweepSelect(s)
  \/ \E e \in Event : SweepRead(s, e)
  \/ SweepRecover(s) \/ SweepEnqueue(s)
  \/ SweepThrow(s) \/ SweepCrash(s)

EventStep(e) ==
  \/ Submit(e) \/ BecomeStale(e)
  \/ BackstopRead(e) \/ BackstopFinalize(e) \/ BackstopLost(e)

Next ==
  \/ \E e \in Event : EventStep(e)
  \/ \E w \in Worker : WorkerStep(w)
  \/ \E s \in Sweeper : SweepStep(s)

Spec == Init /\ [][Next]_vars

-----------------------------------------------------------------------------
(* Properties.                                                               *)

(* The variables hold values of the columns' and the calls' types. *)
TypeOK ==
  /\ status \in [Event -> Status]
  /\ sequence \in [Event -> Nat]
  /\ attempts \in [Event -> Nat]
  /\ failureType \in [Event -> FailureType]
  /\ result \in [Event -> BOOLEAN]
  /\ stale \in [Event -> BOOLEAN]
  /\ history \in [Event -> Seq(HistoryRow)]
  /\ worker \in [Worker -> WorkerState]
  /\ sweep \in [Sweeper -> SweepState]
  /\ backstop \subseteq MayExhaust

(* Per-employee ordering: once an event has been claimed, every earlier event *)
(* of its employee is over, and stays over, whatever calls, sweeps, crashes   *)
(* and late answers happened in between.                                      *)
OrderedClaim ==
  \A e \in Event :
    attempts[e] > 0 => \A f \in Earlier(e) : status[f] \in Terminal

(* Two rows of an employee never have the same place in its order.            *)
DistinctSequences ==
  \A e, f \in Event :
    (EmployeeOf[e] = EmployeeOf[f] /\ e # f /\ status[e] # "NONE" /\ status[f] # "NONE")
      => sequence[e] # sequence[f]

(* rows is the history of an event that has status st after n attempts.       *)
IsTrail(rows, st, n) ==
  /\ Len(rows) = CASE st = "NONE" -> 0
                    [] st = "PROCESSING" -> 2 * n
                    [] OTHER -> 2 * n + 1
  /\ st # "NONE" => rows[1] = [from |-> "NULL", to |-> "PENDING", attempt |-> 0]
  /\ \A k \in 1..n :
       rows[2 * k] = [from |-> "PENDING", to |-> "PROCESSING", attempt |-> k]
  /\ \A k \in 1..n :
       2 * k + 1 <= Len(rows) =>
         rows[2 * k + 1] = [from |-> "PROCESSING", attempt |-> k,
                            to |-> IF k = n THEN st ELSE "PENDING"]

(* The audit trail tells the whole story of the row: the submission, then for *)
(* each attempt its claim and its end, numbered without a gap or a repeat, the *)
(* last row agreeing with the status the event has now.                        *)
AuditTrail == \A e \in Event : IsTrail(history[e], status[e], attempts[e])

(* An event has a result only if it succeeded and a failure type only if it   *)
(* failed, and never both: an outcome is not overwritten by a later one.      *)
OneOutcome ==
  \A e \in Event :
    /\ result[e] <=> status[e] = "SUCCEEDED"
    /\ failureType[e] # "NULL" <=> status[e] = "FAILED"

(* Every claim is an attempt of its own: two calls that hold the same event   *)
(* hold different attempts, each counted in the row.                          *)
DistinctAttempts ==
  \A w \in Worker, e \in Event :
    InFlight(w, e) =>
      /\ worker[w].attempt \in 1..attempts[e]
      /\ \A v \in Worker \ {w} :
           InFlight(v, e) => worker[v].attempt # worker[w].attempt

(* However late calls and sweeps come, the retry budget is overrun by no more *)
(* than one claim for each other actor that can hold a decision to retry made *)
(* before the budget was used up.                                             *)
OvershootBounded ==
  \A e \in Event :
    attempts[e] <= MaxAttempts + Cardinality(Worker) + Cardinality(Sweeper) - 1

(* A row that has reached a terminal state never changes again, nor does its  *)
(* history.                                                                   *)
TerminalFrozen ==
  [][\A e \in Event : status[e] \in Terminal =>
       /\ status'[e] = status[e]
       /\ attempts'[e] = attempts[e]
       /\ result'[e] = result[e]
       /\ failureType'[e] = failureType[e]
       /\ history'[e] = history[e]]_vars

(* No event is claimed more often than its retry budget allows. *)
BudgetRespected == \A e \in Event : attempts[e] <= MaxAttempts

Calling(w) == worker[w].pc = "provider"

(* The provider is never called twice at the same time for one event. *)
OneCallPerEvent ==
  \A w, v \in Worker :
    (w # v /\ Calling(w) /\ Calling(v)) => worker[w].event # worker[v].event

(* The provider is never called for an event while a call for another event   *)
(* of the same employee, or for the event itself, is still running.           *)
SerialCallsPerEmployee ==
  \A w, v \in Worker :
    (w # v /\ Calling(w) /\ Calling(v)) =>
      EmployeeOf[worker[w].event] # EmployeeOf[worker[v].event]

(* A worker's finishing transaction ends the attempt the worker itself        *)
(* claimed, never one a later claim began.                                    *)
FinalizesOwnAttempt ==
  [][\A w \in Worker, e \in Event :
       (Finalize(w) /\ worker[w].event = e /\ status'[e] # status[e])
         => worker[w].attempt = attempts[e]]_vars

(* The sweep takes back only an attempt that is itself past the threshold,    *)
(* never one claimed after the sweep listed its candidates.                   *)
RecoversOnlyStale ==
  [][\A s \in Sweeper, e \in Event :
       (SweepRecover(s) /\ status'[e] # status[e]) => stale[e]]_vars

(* The processing of the rows keeps the lifecycle's promise: seen through     *)
(* status and the order of the sequence numbers, every step is one the        *)
(* lifecycle allows.                                                          *)
Lifecycle == INSTANCE EventLifecycle
               WITH phase <- status, ahead <- [e \in Event |-> Earlier(e)]
ImplementsLifecycle == Lifecycle!LifecycleSpec
=============================================================================
