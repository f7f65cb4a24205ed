------------------------- MODULE PayrollSystemProofs ------------------------
(***************************************************************************)
(* Proofs about PayrollSystem.  The service behind its queue is an         *)
(* instance of event processing, so what holds of every call, sweep and    *)
(* backstop holds behind the queue too; and the queue's locks keep two     *)
(* slots from one event as long as calls are timely.                       *)
(***************************************************************************)
EXTENDS PayrollSystem, AttemptProofs

-----------------------------------------------------------------------------
(* The system implements event processing. *)

LEMMA SystemStepProcesses ==
  ASSUME SystemNext
  PROVE  Next \/ UNCHANGED vars
<1>1. ASSUME NEW e \in Event, SubmitEvent(e) \/ Age(e) \/ BackstopCall(e)
                              \/ BackstopWrite(e) \/ BackstopFails(e)
      PROVE  EventStep(e) \/ UNCHANGED vars
  BY <1>1 DEF SubmitEvent, Age, BackstopCall, BackstopWrite, BackstopFails, EventStep
<1>2. ASSUME NEW e \in Event, EnqueueSafely(e) \/ EnqueueLost(e) \/ LockLapses(e)
                              \/ QueueStep(e) \/ EvictJob(e) \/ ReconcileList(e)
                              \/ ReconcileEnqueue(e) \/ ReconcileLost(e)
      PROVE  UNCHANGED vars
  BY <1>2 DEF EnqueueSafely, EnqueueLost, LockLapses, QueueStep, EvictJob, ReconcileList,
              ReconcileEnqueue, ReconcileLost
<1>3. ASSUME NEW e \in Event, NEW w \in Worker, TakeJob(w, e)
      PROVE  WorkerStep(w)
  BY <1>3 DEF TakeJob, WorkerStep
<1>4. ASSUME NEW w \in Worker, Process(w) \/ ThrowInProcess(w) \/ FinishJob(w) \/ CrashWorker(w)
      PROVE  WorkerStep(w)
  BY <1>4 DEF Process, ThrowInProcess, FinishJob, CrashWorker, WorkerStep
<1>5. ASSUME NEW s \in Sweeper, SweepProgress(s) \/ SweepFails(s)
      PROVE  SweepStep(s)
  BY <1>5 DEF SweepProgress, SweepFails, SweepStep
<1> QED BY <1>1, <1>2, <1>3, <1>4, <1>5 DEF SystemNext, Next

(* Whatever the queue delivers, delays, repeats, gives up or evicts, the rows *)
(* and the calls take only the steps of event processing.                     *)
THEOREM SystemImplementsProcessing == SystemSpec => Spec
<1>1. SystemInit => Init
  BY DEF SystemInit
<1>2. [SystemNext]_systemVars => [Next]_vars
  <2>1. UNCHANGED systemVars => UNCHANGED vars
    BY DEF systemVars
  <2> QED BY <2>1, SystemStepProcesses
<1> QED BY <1>1, <1>2, PTL DEF SystemSpec, Spec

(* Behind the queue, too, events are claimed in order, with one at the head of *)
(* each line, have one outcome that never changes, and a complete audit trail. *)
THEOREM SystemKeepsOrderAndOutcomes ==
  SystemSpec => /\ [](OrderedClaim /\ OneHeadOfLine /\ OneOutcome /\ AuditTrail)
                /\ TerminalFrozen
                /\ ImplementsLifecycle
BY SystemImplementsProcessing, Ordering, LinesMoveOn, OutcomesAreUnique, AuditIsComplete,
   OutcomesAreFinal, ProcessingImplementsLifecycle, PTL

-----------------------------------------------------------------------------
(* Type correctness. *)

(* What a step does to the queue: one of these for one job, or nothing. *)
QueueMove(e) ==
  \/ Queue!Add(e) \/ Queue!Promote(e) \/ Queue!LoseLock(e) \/ Queue!Stall(e) \/ Queue!Evict(e)
  \/ \E w \in Worker :
       \/ Queue!Take(w, e) \/ Queue!Complete(w, e) \/ Queue!Retry(w, e)
       \/ Queue!Exhaust(w, e) \/ Queue!Defer(w, e)

LEMMA StepOfQueue ==
  ASSUME TypeOK, SystemNext
  PROVE  (\E e \in Event : QueueMove(e)) \/ UNCHANGED queue
<1>1. ASSUME NEW e \in Event, SubmitEvent(e) \/ Age(e) \/ BackstopCall(e) \/ EnqueueLost(e)
                              \/ BackstopWrite(e) \/ BackstopFails(e) \/ ReconcileList(e)
                              \/ ReconcileLost(e)
      PROVE  UNCHANGED queue
  BY <1>1 DEF SubmitEvent, Age, BackstopCall, BackstopWrite, BackstopFails, EnqueueLost,
              ReconcileList, ReconcileLost
<1>2. ASSUME NEW e \in Event, EnqueueSafely(e) \/ LockLapses(e) \/ QueueStep(e)
                              \/ EvictJob(e) \/ ReconcileEnqueue(e)
      PROVE  QueueMove(e)
  BY <1>2 DEF EnqueueSafely, LockLapses, QueueStep, EvictJob, ReconcileEnqueue, QueueMove
<1>3. ASSUME NEW e \in Event, NEW w \in Worker, TakeJob(w, e)
      PROVE  QueueMove(e)
  BY <1>3 DEF TakeJob, QueueMove
<1>4. ASSUME NEW w \in Worker, FinishJob(w) \/ CrashWorker(w)
      PROVE  QueueMove(worker[w].event) \/ UNCHANGED queue
  BY <1>4 DEF FinishJob, CrashWorker, QueueMove, Queue!LockLost, Queue!queue, queue
<1>5. ASSUME NEW w \in Worker, FinishJob(w) \/ CrashWorker(w)
      PROVE  worker[w].event \in Event
  BY <1>5, TypeSplit, BusyWorkerHasEvent DEF FinishJob, CrashWorker, Acknowledge, Crash
<1>6. ASSUME NEW w \in Worker, Process(w) \/ ThrowInProcess(w)
      PROVE  UNCHANGED queue
  BY <1>6 DEF Process, ThrowInProcess
<1>7. ASSUME NEW s \in Sweeper, SweepProgress(s) \/ SweepFails(s)
      PROVE  (sweep[s].event \in Event /\ QueueMove(sweep[s].event)) \/ UNCHANGED queue
  BY <1>7, TypeSplit, BusySweepHasEvent DEF SweepProgress, SweepFails, SweepEnqueue, QueueMove
<1> QED BY <1>1, <1>2, <1>3, <1>4, <1>5, <1>6, <1>7 DEF SystemNext

(* A job that is not finished has deliveries left. *)
DeliveriesLeft ==
  \A e \in Event : job[e] \in {"waiting", "delayed", "active"} => made[e] < JobAttempts

QueueInv == Queue!QueueTypeOK /\ DeliveriesLeft

LEMMA QueueMoveKeeps ==
  ASSUME SystemAssumption, QueueInv, NEW e \in Event, QueueMove(e)
  PROVE  QueueInv'
<1> USE DEF QueueInv, Queue!QueueTypeOK, Queue!JobState, DeliveriesLeft, Queue!Move,
            Queue!Holds, SystemAssumption
<1>1. CASE Queue!Add(e)
  BY <1>1 DEF Queue!Add, Queue!queue
<1>2. CASE Queue!Promote(e) \/ Queue!LoseLock(e)
  BY <1>2 DEF Queue!Promote, Queue!LoseLock
<1>3. CASE Queue!Stall(e)
  BY <1>3 DEF Queue!Stall
<1>4. CASE Queue!Evict(e)
  BY <1>4 DEF Queue!Evict, Queue!Finished
<1>5. ASSUME NEW w \in Worker,
             \/ Queue!Take(w, e) \/ Queue!Complete(w, e) \/ Queue!Retry(w, e)
             \/ Queue!Exhaust(w, e) \/ Queue!Defer(w, e)
      PROVE  QueueInv'
  BY <1>5 DEF Queue!Take, Queue!Complete, Queue!Retry, Queue!Exhaust, Queue!Defer
<1> QED BY <1>1, <1>2, <1>3, <1>4, <1>5 DEF QueueMove

CallsTypeOK ==
  /\ toEnqueue \cup recon \cup exhausted \subseteq Event
  /\ faults \in [FaultKind -> Nat]
  /\ \A k \in FaultKind : faults[k] \in 0..FaultLimit[k]

LEMMA CallsKept ==
  ASSUME SystemAssumption, TypeOK, CallsTypeOK, SystemNext
  PROVE  CallsTypeOK'
<1>1. ASSUME NEW k \in FaultKind, Fault(k)
      PROVE  /\ faults' \in [FaultKind -> Nat]
             /\ \A j \in FaultKind : faults'[j] \in 0..FaultLimit[j]
  BY <1>1, SystemAssumption DEF Fault, CallsTypeOK
<1>2. \A k \in {"crash", "throw", "lost"} : k \in FaultKind
  BY DEF FaultKind
<1>3. ASSUME NEW e \in Event,
             \/ SubmitEvent(e) \/ EnqueueSafely(e) \/ LockLapses(e) \/ QueueStep(e)
             \/ EvictJob(e) \/ BackstopCall(e) \/ BackstopWrite(e) \/ Age(e)
             \/ ReconcileList(e) \/ ReconcileEnqueue(e) \/ \E w \in Worker : TakeJob(w, e)
      PROVE  CallsTypeOK'
  BY <1>3 DEF CallsTypeOK, SubmitEvent, EnqueueSafely, LockLapses, QueueStep, EvictJob,
     BackstopCall, BackstopWrite, Age, ReconcileList, ReconcileEnqueue, TakeJob, calls
<1>4. ASSUME NEW e \in Event, EnqueueLost(e) \/ BackstopFails(e) \/ ReconcileLost(e)
      PROVE  CallsTypeOK'
  BY <1>1, <1>2, <1>4 DEF CallsTypeOK, EnqueueLost, BackstopFails, ReconcileLost
<1>5. ASSUME NEW w \in Worker, Process(w) \/ FinishJob(w)
      PROVE  CallsTypeOK'
  <2>1. FinishJob(w) => worker[w].event \in Event
    BY TypeSplit, BusyWorkerHasEvent DEF FinishJob, Acknowledge
  <2> QED BY <1>5, <2>1 DEF CallsTypeOK, Process, FinishJob, calls
<1>6. ASSUME NEW w \in Worker, ThrowInProcess(w) \/ CrashWorker(w)
      PROVE  CallsTypeOK'
  BY <1>1, <1>2, <1>6 DEF CallsTypeOK, ThrowInProcess, CrashWorker, calls
<1>7. ASSUME NEW s \in Sweeper, SweepProgress(s) \/ SweepFails(s)
      PROVE  CallsTypeOK'
  BY <1>1, <1>2, <1>7 DEF CallsTypeOK, SweepProgress, SweepFails, calls
<1> QED BY <1>3, <1>4, <1>5, <1>6, <1>7 DEF SystemNext

(* No job is delivered more often than its attempts allow or stalls more often *)
(* than the queue lets it, and faults stay within their bound.                 *)
THEOREM SystemTypeCorrect == SystemSpec => []SystemTypeOK
<1>1. SystemInit => QueueInv /\ CallsTypeOK
  BY SystemAssumption DEF SystemInit, QueueInv, CallsTypeOK, DeliveriesLeft, Queue!QueueInit,
     Queue!QueueTypeOK, Queue!JobState
<1>2. TypeOK /\ QueueInv /\ CallsTypeOK /\ [SystemNext]_systemVars => (QueueInv /\ CallsTypeOK)'
  <2> SUFFICES ASSUME TypeOK, QueueInv, CallsTypeOK, [SystemNext]_systemVars
               PROVE  QueueInv' /\ CallsTypeOK'
    OBVIOUS
  <2>1. UNCHANGED queue => QueueInv'
    BY DEF QueueInv, Queue!QueueTypeOK, DeliveriesLeft, queue
  <2>2. UNCHANGED <<calls, faults>> => CallsTypeOK'
    BY DEF CallsTypeOK, calls
  <2>3. SystemNext => QueueInv'
    BY <2>1, StepOfQueue, QueueMoveKeeps, SystemAssumption
  <2> QED BY <2>1, <2>2, <2>3, CallsKept, SystemAssumption DEF systemVars
<1>3. TypeOK /\ QueueInv /\ CallsTypeOK => SystemTypeOK
  BY DEF QueueInv, CallsTypeOK, SystemTypeOK
<1> QED BY <1>1, <1>2, <1>3, SystemImplementsProcessing, TypeCorrect, PTL DEF SystemSpec

-----------------------------------------------------------------------------
(* One handler for each event. *)

(* Each slot at work on an event holds the lock of its job. *)
HandlersHold ==
  \A w \in Worker : worker[w].pc # "idle" => Queue!Holds(w, worker[w].event)

(* The slot of a call that goes on stays the same one's, for the same event. *)
LEMMA CallGoesOn ==
  ASSUME TypeOK, NEW w \in Worker, Process(w) \/ ThrowInProcess(w)
  PROVE  /\ worker[w].pc # "idle" /\ worker'[w].event = worker[w].event
         /\ \A v \in Worker \ {w} : worker'[v] = worker[v]
BY DEF TypeOK, Process, ThrowInProcess, Claim, ClaimMiss, Diagnose, ProviderAnswers, Finalize,
   FinalizeAs, Throw, Become, Return, CallAt

LEMMA HandlersStep ==
  ASSUME SystemAssumption, ~Overlap, TypeOK, QueueInv, HandlersHold, SystemNext
  PROVE  HandlersHold'
<1> USE DEF Queue!Holds
<1>1. ASSUME UNCHANGED <<worker, queue>>
      PROVE  HandlersHold'
  BY <1>1 DEF HandlersHold, queue
<1>2. ASSUME NEW e \in Event,
             Queue!Add(e) \/ Queue!Promote(e) \/ Queue!Stall(e) \/ Queue!Evict(e),
             UNCHANGED worker
      PROVE  HandlersHold'
  <2>1. \A v \in Worker : worker[v].pc # "idle" => worker[v].event \in Event
    BY TypeSplit, BusyWorkerHasEvent
  <2> QED BY <1>2, <2>1, SystemAssumption DEF HandlersHold, Queue!Add, Queue!Promote, Queue!Stall,
          Queue!Evict, Queue!Finished, Queue!Move, Queue!queue, QueueInv, Queue!QueueTypeOK
<1>3. ASSUME NEW e \in Event, NEW w \in Worker, TakeJob(w, e)
      PROVE  HandlersHold'
  <2>1. worker'[w].event = e /\ \A v \in Worker \ {w} : worker'[v] = worker[v]
    BY <1>3 DEF TakeJob, ReceiveJob, Return, Become, CallAt, TypeOK
  <2>2. job[e] = "waiting" /\ job'[e] = "active" /\ holder'[e] = w
    BY <1>3 DEF TakeJob, Queue!Take, Queue!Move, QueueInv, Queue!QueueTypeOK
  <2>3. \A f \in Event \ {e} : job'[f] = job[f] /\ holder'[f] = holder[f]
    BY <1>3 DEF TakeJob, Queue!Take, Queue!Move, QueueInv, Queue!QueueTypeOK
  <2>4. \A v \in Worker : worker[v].pc # "idle" => worker[v].event \in Event
    BY TypeSplit, BusyWorkerHasEvent
  <2> QED BY <2>1, <2>2, <2>3, <2>4 DEF HandlersHold
<1>4. ASSUME NEW w \in Worker, Process(w) \/ ThrowInProcess(w)
      PROVE  HandlersHold'
  <2>1. UNCHANGED queue
    BY <1>4 DEF Process, ThrowInProcess
  <2> QED BY <1>4, <2>1, CallGoesOn DEF HandlersHold, queue
<1>5. ASSUME NEW w \in Worker, FinishJob(w) \/ CrashWorker(w)
      PROVE  HandlersHold'
  <2> DEFINE e == worker[w].event
  <2>1. worker[w].pc # "idle" /\ e \in Event
    BY <1>5, TypeSplit, BusyWorkerHasEvent DEF FinishJob, CrashWorker, Acknowledge, Crash
  <2>2. worker'[w].pc = "idle" /\ \A v \in Worker \ {w} : worker'[v] = worker[v]
    BY <1>5 DEF FinishJob, CrashWorker, Acknowledge, Crash, Become, IdleWorker, TypeOK
  <2>3. \A f \in Event \ {e} : job'[f] = job[f] /\ holder'[f] = holder[f]
    BY <1>5 DEF FinishJob, CrashWorker, Queue!Retry, Queue!Exhaust, Queue!Defer,
       Queue!Complete, Queue!LockLost, Queue!LoseLock, Queue!Move, Queue!queue, QueueInv,
       Queue!QueueTypeOK
  <2>4. holder[e] = w
    BY <2>1 DEF HandlersHold
  <2>5. \A v \in Worker : worker[v].pc # "idle" => worker[v].event \in Event
    BY TypeSplit, BusyWorkerHasEvent
  <2> QED BY <2>2, <2>3, <2>4, <2>5 DEF HandlersHold
<1>6. ASSUME NEW e \in Event, SubmitEvent(e) \/ Age(e) \/ BackstopCall(e) \/ EnqueueLost(e)
                              \/ BackstopWrite(e) \/ BackstopFails(e) \/ ReconcileList(e)
                              \/ ReconcileLost(e)
      PROVE  UNCHANGED <<worker, queue>>
  BY <1>6 DEF SubmitEvent, Age, BackstopCall, BackstopWrite, BackstopFails, EnqueueLost,
              ReconcileList, ReconcileLost, Submit, BecomeStale, BackstopRead,
              BackstopFinalize, BackstopLost, vars
<1>7. ASSUME NEW e \in Event, EnqueueSafely(e) \/ LockLapses(e) \/ QueueStep(e)
                              \/ EvictJob(e) \/ ReconcileEnqueue(e)
      PROVE  /\ Queue!Add(e) \/ Queue!Promote(e) \/ Queue!Stall(e) \/ Queue!Evict(e)
             /\ UNCHANGED worker
  BY <1>7 DEF EnqueueSafely, LockLapses, QueueStep, EvictJob, ReconcileEnqueue, vars
<1>8. ASSUME NEW s \in Sweeper, SweepProgress(s) \/ SweepFails(s)
      PROVE  /\ UNCHANGED worker
             /\ UNCHANGED queue \/ (sweep[s].event \in Event /\ Queue!Add(sweep[s].event))
  BY <1>8, TypeSplit, BusySweepHasEvent DEF SweepProgress, SweepFails, SweepSelect, SweepRead,
     SweepRecover, SweepEnqueue, SweepThrow, SweepCrash
<1> QED BY <1>1, <1>2, <1>3, <1>4, <1>5, <1>6, <1>7, <1>8 DEF SystemNext

(* As long as no live call loses its lock, two slots never work on one event, *)
(* whatever stalls, crashes, redeliveries and repeated enqueues happen.        *)
THEOREM HandlersAreAlone ==
  ASSUME Overlap = FALSE
  PROVE  SystemSpec => []OneHandlerPerEvent
<1>1. SystemInit => HandlersHold /\ QueueInv
  BY SystemAssumption DEF SystemInit, Init, IdleWorker, HandlersHold, QueueInv, DeliveriesLeft,
     Queue!QueueInit, Queue!QueueTypeOK, Queue!JobState
<1>2. TypeOK /\ QueueInv /\ HandlersHold /\ [SystemNext]_systemVars => HandlersHold'
  <2>1. HandlersHold /\ UNCHANGED systemVars => HandlersHold'
    BY DEF HandlersHold, systemVars, vars, queue, Queue!Holds
  <2> QED BY <2>1, HandlersStep, SystemAssumption
<1>3. TypeOK /\ QueueInv /\ [SystemNext]_systemVars => QueueInv'
  <2>1. QueueInv /\ UNCHANGED queue => QueueInv'
    BY DEF QueueInv, Queue!QueueTypeOK, DeliveriesLeft, queue
  <2> QED BY <2>1, StepOfQueue, QueueMoveKeeps, SystemAssumption DEF systemVars
<1>4. HandlersHold => OneHandlerPerEvent
  BY DEF HandlersHold, OneHandlerPerEvent, Queue!Holds
<1> QED BY <1>1, <1>2, <1>3, <1>4, SystemImplementsProcessing, TypeCorrect, PTL DEF SystemSpec

-----------------------------------------------------------------------------
(* Timely calls behind the queue. *)

(* What holds of timely calls holds of the calls the queue causes: the budget  *)
(* is kept, and neither a late call nor the sweep ends another's attempt.      *)
THEOREM TimelySystem ==
  ASSUME OnePass, Overlap = FALSE
  PROVE  SystemSpec => []BudgetRespected /\ FinalizesOwnAttempt /\ RecoversOnlyStale
BY SystemImplementsProcessing, BudgetIsKept, OwnAttemptsOnly, OnlyStaleRecovered, PTL

(* A job the queue gave up stays failed while the listener deals with it,      *)
(* unless later jobs push it out.                                              *)
GivenUpStays == \A e \in exhausted \cup backstop : job[e] = "failed"

LEMMA GivenUpStep ==
  ASSUME ~Eviction, TypeOK, QueueInv, GivenUpStays, CallsTypeOK, SystemNext
  PROVE  GivenUpStays'
<1> USE DEF Queue!Holds
<1>1. ASSUME NEW e \in Event, job[e] = "failed"
      PROVE  job'[e] = "failed"
  <2>1. ASSUME NEW f \in Event, QueueMove(f)
        PROVE  job'[e] = "failed"
    BY <1>1, <2>1 DEF QueueMove, QueueInv, Queue!QueueTypeOK, Queue!Add, Queue!Promote,
       Queue!LoseLock, Queue!Stall, Queue!Evict, Queue!Take, Queue!Complete, Queue!Retry,
       Queue!Exhaust, Queue!Defer, Queue!Move, Queue!queue
  <2> QED BY <1>1, <2>1, StepOfQueue DEF queue
<1>2. ASSUME NEW e \in exhausted' \cup backstop', e \notin exhausted \cup backstop
      PROVE  job'[e] = "failed" /\ e \in Event
  <2>1. PICK w \in Worker : FinishJob(w) /\ exhausted' # exhausted
    BY <1>2 DEF SystemNext, SubmitEvent, EnqueueSafely, EnqueueLost, LockLapses, QueueStep,
       EvictJob, BackstopCall, BackstopWrite, BackstopFails, Age, ReconcileList,
       ReconcileEnqueue, ReconcileLost, TakeJob, Process, ThrowInProcess, FinishJob,
       CrashWorker, SweepProgress, SweepFails, BackstopRead, BackstopFinalize, BackstopLost,
       Submit, BecomeStale, ReceiveJob, Claim, ClaimMiss, Diagnose, ProviderAnswers, Finalize,
       Throw, Acknowledge, Crash, SweepSelect, SweepRead, SweepRecover, SweepEnqueue,
       SweepThrow, SweepCrash, calls, vars
  <2>2. worker[w].event = e /\ Queue!Exhaust(w, e)
    BY <1>2, <2>1 DEF FinishJob, Acknowledge
  <2>3. e \in Event
    BY <2>1, <2>2, TypeSplit, BusyWorkerHasEvent DEF FinishJob, Acknowledge
  <2> QED BY <2>2, <2>3 DEF Queue!Exhaust, Queue!Move, QueueInv, Queue!QueueTypeOK
<1>3. exhausted \cup backstop \subseteq Event
  BY ProcessingAssumption DEF CallsTypeOK, TypeOK
<1> QED BY <1>1, <1>2, <1>3 DEF GivenUpStays

(* Everything the queue side's invariants say of timely calls. *)
QuietInv == QueueInv /\ CallsTypeOK /\ HandlersHold /\ GivenUpStays

LEMMA QuietSystem ==
  ASSUME Overlap = FALSE, Eviction = FALSE
  PROVE  SystemSpec => []QuietInv
<1>1. SystemInit => QuietInv
  BY SystemAssumption DEF SystemInit, Init, IdleWorker, QuietInv, HandlersHold, QueueInv,
     CallsTypeOK, GivenUpStays, DeliveriesLeft, Queue!QueueInit, Queue!QueueTypeOK, Queue!JobState
<1>2. TypeOK /\ QuietInv /\ [SystemNext]_systemVars => QuietInv'
  <2>1. CASE UNCHANGED systemVars
    BY <2>1 DEF QuietInv, QueueInv, CallsTypeOK, HandlersHold, GivenUpStays, DeliveriesLeft,
       Queue!QueueTypeOK, Queue!Holds, systemVars, vars, queue, calls
  <2>2. ASSUME TypeOK, QuietInv, SystemNext
        PROVE  QuietInv'
    <3>1. QueueInv'
      <4>1. UNCHANGED queue => QueueInv'
        BY <2>2 DEF QuietInv, QueueInv, Queue!QueueTypeOK, DeliveriesLeft, queue
      <4> QED BY <2>2, <4>1, StepOfQueue, QueueMoveKeeps, SystemAssumption DEF QuietInv
    <3>2. CallsTypeOK'
      BY <2>2, CallsKept, SystemAssumption DEF QuietInv
    <3>3. HandlersHold'
      BY <2>2, HandlersStep, SystemAssumption DEF QuietInv
    <3>4. GivenUpStays'
      BY <2>2, GivenUpStep DEF QuietInv
    <3> QED BY <3>1, <3>2, <3>3, <3>4 DEF QuietInv
  <2> QED BY <2>1, <2>2
<1> QED BY <1>1, <1>2, SystemImplementsProcessing, TypeCorrect, PTL DEF SystemSpec

(* The listener that ends an exhausted job's event never ends it under a call  *)
(* in flight: it would take a second job for the event, which the failed one   *)
(* keeps out as long as it is not pushed out.                                  *)
THEOREM BackstopWaits ==
  ASSUME Overlap = FALSE, Eviction = FALSE
  PROVE  SystemSpec => BackstopSparesRunning
<1>1. TypeOK /\ QuietInv =>
        [\A e \in Event, w \in Worker :
           (BackstopWrite(e) /\ status'[e] # status[e]) => ~InFlight(w, e)]_systemVars
  BY DEF BackstopWrite, BackstopFinalize, InFlight, QuietInv, GivenUpStays, HandlersHold,
     Queue!Holds
<1> QED BY <1>1, QuietSystem, SystemImplementsProcessing, TypeCorrect, PTL
        DEF BackstopSparesRunning

(* The row of a call in flight is PROCESSING. *)
FlightsRun == \A w \in Worker, e \in Event : InFlight(w, e) => status[e] = "PROCESSING"

LEMMA FlightsRunStep ==
  ASSUME OnePass, ~Overlap, TypeOK, TimelyInv, QuietInv, FlightsRun, SystemNext
  PROVE  FlightsRun'
<1> SUFFICES ASSUME NEW w \in Worker, NEW e \in Event, InFlight(w, e)'
             PROVE  status'[e] = "PROCESSING"
  BY DEF FlightsRun
<1>1. CASE UNCHANGED vars
  BY <1>1 DEF FlightsRun, InFlight, vars, db
<1>2. CASE Next
  <2>1. CASE Claim(w) /\ worker[w].event = e
    BY <2>1 DEF TypeOK, Claim, ClaimRow
  <2>2. CASE InFlight(w, e)
    <3>1. /\ status[e] = "PROCESSING" /\ ~stale[e]
          /\ \A v \in Worker : InFlight(v, e) => v = w
      BY <2>2 DEF FlightsRun, TimelyInv, FlightsAlone
    <3>2. ASSUME NEW v \in Worker, WorkerStep(v)
          PROVE  status'[e] = "PROCESSING"
      <4>1. CASE Finalize(v)
        <5>1. worker[v].event # e
          <6>1. Finalize(v) /\ worker[v].event = e => InFlight(v, e)
            BY DEF Finalize, InFlight
          <6>2. ~InFlight(v, e)'
            BY <4>1 DEF TypeOK, Finalize, FinalizeAs, Return, Become, CallAt, InFlight
          <6> QED BY <3>1, <4>1, <6>1, <6>2
        <5>2. worker[v].event \in Event
          BY <4>1, TypeSplit, BusyWorkerHasEvent DEF Finalize
        <5> QED BY <3>1, <4>1, <5>1, <5>2 DEF TypeOK, Finalize, FinalizeAs, FinalizeSuccess,
                FinalizeFailure, RetryTransition, CasMiss, db
      <4>2. CASE Claim(v)
        BY <3>1, <4>2, TypeSplit, BusyWorkerHasEvent DEF TypeOK, Claim, ClaimRow
      <4>3. CASE ~Finalize(v) /\ ~Claim(v)
        BY <3>1, <3>2, <4>3 DEF WorkerStep, ReceiveJob, ClaimMiss, Diagnose, ProviderAnswers,
           Throw, Acknowledge, Crash, db
      <4> QED BY <4>1, <4>2, <4>3
    <3>3. ASSUME NEW s \in Sweeper, SweepStep(s)
          PROVE  status'[e] = "PROCESSING"
      <4>1. CASE SweepRecover(s)
        <5>1. sweep[s].event \in Event /\ sweep[s].event # e
          BY <3>1, <4>1, TypeSplit, BusySweepHasEvent
             DEF SweepRecover, TimelyInv, ListsRight, Listed
        <5> QED BY <3>1, <4>1, <5>1 DEF TypeOK, SweepRecover, RetryTransition, FinalizeFailure,
                CasMiss, db
      <4>2. CASE ~SweepRecover(s)
        BY <3>1, <3>3, <4>2 DEF SweepStep, SweepSelect, SweepRead, SweepEnqueue, SweepThrow,
           SweepCrash, db
      <4> QED BY <4>1, <4>2
    <3>4. ASSUME NEW f \in Event, EventStep(f)
          PROVE  status'[e] = "PROCESSING"
      <4>1. CASE BackstopFinalize(f)
        <5>1. f # e
          BY <2>2, <4>1 DEF BackstopFinalize, InFlight, QuietInv, GivenUpStays, HandlersHold,
             Queue!Holds
        <5> QED BY <3>1, <4>1, <5>1 DEF TypeOK, BackstopFinalize, FinalizeFailure, CasMiss, db
      <4>2. CASE Submit(f)
        BY <3>1, <4>2 DEF TypeOK, Submit, InsertRow
      <4>3. CASE BecomeStale(f) \/ BackstopRead(f) \/ BackstopLost(f)
        BY <3>1, <4>3 DEF BecomeStale, PassThreshold, BackstopRead, BackstopLost, db
      <4> QED BY <3>4, <4>1, <4>2, <4>3 DEF EventStep
    <3> QED BY <1>2, <3>2, <3>3, <3>4 DEF Next
  <2> QED BY <1>2, <2>1, <2>2, FlightStep
<1> QED BY <1>1, <1>2, SystemStepProcesses

(* Behind the queue the provider works for one event of an employee at a time,  *)
(* and on one call for it: with timely calls, one pass at a time, and failed    *)
(* jobs that stay.                                                              *)
THEOREM SystemCallsAreSerial ==
  ASSUME OnePass, Overlap = FALSE, Eviction = FALSE
  PROVE  SystemSpec => []SerialCallsPerEmployee
<1>1. SystemInit => FlightsRun
  BY DEF SystemInit, Init, IdleWorker, FlightsRun, InFlight
<1>2. TypeOK /\ TimelyInv /\ QuietInv /\ FlightsRun /\ [SystemNext]_systemVars => FlightsRun'
  <2>1. UNCHANGED systemVars /\ FlightsRun => FlightsRun'
    BY DEF FlightsRun, InFlight, systemVars, vars, db
  <2> QED BY <2>1, FlightsRunStep
<1>3. TypeOK /\ TimelyInv /\ FlightsRun /\ Lifecycle!OneRunningPerEmployee
        => SerialCallsPerEmployee
  <2> SUFFICES ASSUME TypeOK, TimelyInv, FlightsRun, Lifecycle!OneRunningPerEmployee,
                      NEW w \in Worker, NEW v \in Worker, w # v, Calling(w), Calling(v)
               PROVE  EmployeeOf[worker[w].event] # EmployeeOf[worker[v].event]
    BY DEF SerialCallsPerEmployee
  <2>1. worker[w].event \in Event /\ worker[v].event \in Event
    BY TypeSplit, BusyWorkerHasEvent DEF Calling
  <2>2. InFlight(w, worker[w].event) /\ InFlight(v, worker[v].event)
    BY DEF InFlight, Calling
  <2>3. status[worker[w].event] = "PROCESSING" /\ status[worker[v].event] = "PROCESSING"
    BY <2>1, <2>2 DEF FlightsRun
  <2>4. worker[w].event # worker[v].event
    BY <2>1, <2>2 DEF TimelyInv, FlightsAlone
  <2> QED BY <2>1, <2>3, <2>4 DEF Lifecycle!OneRunningPerEmployee
<1> QED BY <1>1, <1>2, <1>3, QuietSystem, SystemImplementsProcessing, TypeCorrect,
           TimelyProcessing, RowsRunOneAtATime, PTL DEF SystemSpec

-----------------------------------------------------------------------------
(* Without crashes and throws. *)

(* No process dies and nothing throws, calls are timely, and a job has as many *)
(* attempts as its event; enqueues may be lost, and jobs may be evicted.       *)
FaultFree ==
  /\ Overlap = FALSE
  /\ FaultLimit["crash"] = 0 /\ FaultLimit["throw"] = 0
  /\ MaxAttempts <= JobAttempts

(* A slot at work holds the job, the row is where the call takes it to be, and *)
(* BullMQ has counted the attempts before this one.                           *)
AtWork(w) ==
  LET e == worker[w].event
      pc == worker[w].pc
      answer == worker[w].answer
  IN /\ Queue!Holds(w, e)
     /\ pc \in {"claim", "diagnose"} => status[e] = "PENDING" /\ made[e] = attempts[e]
     /\ pc \in {"provider", "finalize"} =>
          /\ status[e] = "PROCESSING"
          /\ attempts[e] = made[e] + 1 /\ worker[w].attempt = attempts[e]
     /\ pc = "done" =>
          \/ answer \in {"terminal", "succeeded", "failed"} /\ status[e] \in Terminal
          \/ answer = "ordering-blocked" /\ status[e] = "PENDING" /\ made[e] = attempts[e]
          \/ answer = "retry-scheduled" /\ status[e] = "PENDING" /\ attempts[e] = made[e] + 1

Busy(w, e) == worker[w].pc # "idle" /\ worker[w].event = e

(* No job fails, one that is completed is of an event that is over, one that   *)
(* is active is in a slot, and one that waits has as many deliveries behind it *)
(* as its event has attempts.                                                 *)
JobFits(e) ==
  /\ job[e] # "failed"
  /\ job[e] = "active" => \E w \in Worker : Busy(w, e)
  /\ job[e] = "completed" => status[e] \in Terminal
  /\ status[e] = "NONE" => job[e] = "absent" /\ attempts[e] = 0 /\ e \notin toEnqueue \cup recon
  /\ status[e] = "PENDING" =>
       /\ attempts[e] < MaxAttempts
       /\ job[e] = "absent" => attempts[e] = 0
       /\ job[e] \in {"waiting", "delayed"} => made[e] = attempts[e]
  /\ status[e] = "PROCESSING" => job[e] = "active"
  /\ attempts[e] <= MaxAttempts
  /\ ~stale[e]

(* Hence the sweep and the backstop find nothing to do. *)
NothingToRepair ==
  /\ \A s \in Sweeper : sweep[s].pc = "idle"
  /\ exhausted = {} /\ backstop = {}

FitInv ==
  /\ \A e \in Event : JobFits(e)
  /\ \A w \in Worker : worker[w].pc # "idle" => AtWork(w)
  /\ NothingToRepair

(* What a step that is about e leaves alone. *)
Elsewhere(e) ==
  /\ \A f \in Event \ {e} :
       /\ job'[f] = job[f] /\ made'[f] = made[f] /\ holder'[f] = holder[f]
       /\ status'[f] = status[f] /\ attempts'[f] = attempts[f] /\ stale'[f] = stale[f]
       /\ f \in toEnqueue' \cup recon' => f \in toEnqueue \cup recon
  /\ \A w \in Worker :
       \/ worker'[w] = worker[w]
       \/ /\ worker[w].pc # "idle" => worker[w].event = e
          /\ worker'[w].pc # "idle" => worker'[w].event = e

LEMMA FitsElsewhere ==
  ASSUME TypeOK, FitInv, NEW e \in Event, Elsewhere(e), JobFits(e)',
         \A w \in Worker : Busy(w, e)' => AtWork(w)', NothingToRepair'
  PROVE  FitInv'
<1>1. ASSUME NEW f \in Event, f # e
      PROVE  JobFits(f)'
  <2>1. JobFits(f) /\ f \in Event \ {e}
    BY <1>1 DEF FitInv
  <2>2. ASSUME NEW w \in Worker, Busy(w, f)
        PROVE  Busy(w, f)'
    BY <1>1, <2>2 DEF Elsewhere, Busy
  <2> QED BY <2>1, <2>2 DEF Elsewhere, JobFits
<1>2. ASSUME NEW w \in Worker, worker'[w].pc # "idle", ~Busy(w, e)'
      PROVE  AtWork(w)'
  <2>1. worker'[w] = worker[w] /\ worker[w].pc # "idle" /\ worker[w].event # e
    BY <1>2 DEF Elsewhere, Busy
  <2>2. worker[w].event \in Event \ {e} /\ AtWork(w)
    BY <2>1, TypeSplit, BusyWorkerHasEvent DEF FitInv
  <2> QED BY <2>1, <2>2 DEF Elsewhere, AtWork, Queue!Holds
<1> QED BY <1>1, <1>2 DEF FitInv, Busy

(* One slot holds a job. *)
LEMMA OneAtWork ==
  ASSUME FitInv, NEW e \in Event, NEW w \in Worker, NEW v \in Worker, Busy(v, e)
  PROVE  /\ AtWork(v) /\ job[e] = "active" /\ holder[e] = v
         /\ Busy(w, e) => w = v
BY DEF FitInv, AtWork, Busy, Queue!Holds

-----------------------------------------------------------------------------
(* Steps before and after the worker's. *)

LEMMA FitSubmit ==
  ASSUME ProcessingAssumption, TypeOK, FitInv, NEW e \in Event, SubmitEvent(e)
  PROVE  FitInv'
<1>1. /\ status[e] = "NONE" /\ UNCHANGED worker /\ UNCHANGED sweep /\ UNCHANGED backstop
      /\ UNCHANGED job /\ UNCHANGED made /\ UNCHANGED holder /\ UNCHANGED attempts
      /\ UNCHANGED stale /\ UNCHANGED recon /\ UNCHANGED exhausted
      /\ toEnqueue' = toEnqueue \cup {e} /\ status' = [status EXCEPT ![e] = "PENDING"]
  BY DEF SubmitEvent, Submit, InsertRow, queue
<1>2. JobFits(e) /\ attempts[e] \in Nat /\ MaxAttempts \in Nat /\ MaxAttempts > 0
  BY ProcessingAssumption DEF FitInv, TypeOK
<1>3. status'[e] = "PENDING" /\ \A f \in Event \ {e} : status'[f] = status[f]
  BY <1>1 DEF TypeOK
<1>4. JobFits(e)'
  BY <1>1, <1>2, <1>3 DEF JobFits
<1>5. Elsewhere(e) /\ NothingToRepair'
  BY <1>1, <1>3 DEF Elsewhere, FitInv, NothingToRepair
<1>6. \A w \in Worker : ~Busy(w, e)'
  BY <1>1, <1>2, OneAtWork DEF JobFits, Busy
<1> QED BY <1>4, <1>5, <1>6, FitsElsewhere

LEMMA FitQueue ==
  ASSUME SystemAssumption, TypeOK, QueueInv, FitInv, NEW e \in Event, UNCHANGED vars,
         UNCHANGED exhausted,
         \/ Queue!Add(e) /\ e \in toEnqueue \cup recon
         \/ Queue!Promote(e) \/ Queue!Stall(e) \/ Queue!Evict(e) \/ UNCHANGED queue,
         \A f \in Event : f \in toEnqueue' \cup recon' =>
           f \in toEnqueue \cup recon \/ (f = e /\ status[e] # "NONE")
  PROVE  FitInv'
<1> USE DEF Queue!Move
<1>1. /\ UNCHANGED worker /\ UNCHANGED sweep /\ UNCHANGED backstop /\ UNCHANGED attempts
      /\ UNCHANGED stale /\ UNCHANGED status
  BY DEF vars
<1>2. JobFits(e)
  BY DEF FitInv
<1>3. job \in [Event -> Queue!JobState] /\ DOMAIN made = Event /\ DOMAIN holder = Event
  BY DEF QueueInv, Queue!QueueTypeOK
<1>4. ~Queue!Stall(e)
  <2> SUFFICES ASSUME job[e] = "active"
               PROVE  holder[e] # None
    BY DEF Queue!Stall
  <2>1. PICK w \in Worker : Busy(w, e)
    BY <1>2 DEF JobFits
  <2> QED BY <2>1, OneAtWork, SystemAssumption
<1>5. \/ job' = job /\ made' = made
      \/ job[e] = "absent" /\ job' = [job EXCEPT ![e] = "waiting"]
           /\ made' = [made EXCEPT ![e] = 0] /\ e \in toEnqueue \cup recon
      \/ job[e] = "delayed" /\ job' = [job EXCEPT ![e] = "waiting"] /\ made' = made
      \/ job[e] = "completed" /\ job' = [job EXCEPT ![e] = "absent"] /\ made' = made
  BY <1>2, <1>4 DEF Queue!Add, Queue!Promote, Queue!Evict, Queue!Finished, Queue!queue, queue, JobFits
<1>6. UNCHANGED holder
  BY <1>4 DEF Queue!Add, Queue!Promote, Queue!Evict, Queue!queue, queue
<1>7. \A f \in Event \ {e} : job'[f] = job[f] /\ made'[f] = made[f]
  BY <1>3, <1>5
<1>8. \A w \in Worker : Busy(w, e)' => job'[e] = job[e] /\ made'[e] = made[e] /\ AtWork(w)
  <2> SUFFICES ASSUME NEW w \in Worker, Busy(w, e)
               PROVE  job'[e] = job[e] /\ made'[e] = made[e] /\ AtWork(w)
    BY <1>1 DEF Busy
  <2>1. job[e] = "active" /\ AtWork(w)
    BY OneAtWork
  <2> QED BY <1>5, <2>1
<1>9. JobFits(e)'
  <2>1. /\ job'[e] = "active" => \E w \in Worker : Busy(w, e)'
        /\ job'[e] # "failed"
    BY <1>1, <1>2, <1>3, <1>5 DEF JobFits, Busy
  <2>2. job'[e] = "completed" => status'[e] \in Terminal
    BY <1>1, <1>2, <1>3, <1>5 DEF JobFits
  <2>3. status'[e] = "NONE" => /\ job'[e] = "absent" /\ attempts'[e] = 0
                               /\ e \notin toEnqueue' \cup recon'
    BY <1>1, <1>2, <1>3, <1>5 DEF JobFits, Terminal
  <2>4. status'[e] = "PENDING" =>
          /\ attempts'[e] < MaxAttempts
          /\ job'[e] = "absent" => attempts'[e] = 0
          /\ job'[e] \in {"waiting", "delayed"} => made'[e] = attempts'[e]
    BY <1>1, <1>2, <1>3, <1>5 DEF JobFits, Terminal
  <2>5. /\ status'[e] = "PROCESSING" => job'[e] = "active"
        /\ attempts'[e] <= MaxAttempts /\ ~stale'[e]
    BY <1>1, <1>2, <1>3, <1>5 DEF JobFits, Terminal
  <2> QED BY <2>1, <2>2, <2>3, <2>4, <2>5 DEF JobFits
<1>10. Elsewhere(e) /\ NothingToRepair'
  BY <1>1, <1>6, <1>7 DEF Elsewhere, FitInv, NothingToRepair
<1>11. \A w \in Worker : Busy(w, e)' => AtWork(w)'
  BY <1>1, <1>6, <1>8 DEF Busy, AtWork, Queue!Holds
<1> QED BY <1>9, <1>10, <1>11, FitsElsewhere

-----------------------------------------------------------------------------
(* The worker's steps. *)

LEMMA FitTake ==
  ASSUME ProcessingAssumption, SystemAssumption, TypeOK, QueueInv, FitInv, NEW e \in Event,
         NEW w \in Worker, TakeJob(w, e)
  PROVE  FitInv'
<1>1. /\ job[e] = "waiting" /\ job' = [job EXCEPT ![e] = "active"]
      /\ holder' = [holder EXCEPT ![e] = w] /\ UNCHANGED made /\ UNCHANGED status
      /\ UNCHANGED attempts /\ UNCHANGED stale /\ UNCHANGED sweep /\ UNCHANGED backstop
      /\ UNCHANGED toEnqueue /\ UNCHANGED recon /\ UNCHANGED exhausted
      /\ worker[w].pc = "idle"
  BY DEF TakeJob, ReceiveJob, Queue!Take, Queue!Move, calls, db
<1>2. /\ job \in [Event -> Queue!JobState] /\ DOMAIN holder = Event
      /\ DOMAIN worker = Worker
  BY DEF QueueInv, Queue!QueueTypeOK, TypeOK
<1>3. /\ job'[e] = "active" /\ holder'[e] = w
      /\ \A f \in Event \ {e} : job'[f] = job[f] /\ holder'[f] = holder[f]
  BY <1>1, <1>2
<1>4. JobFits(e) /\ status[e] \in Status
  BY DEF FitInv, TypeOK
<1>5. /\ \A v \in Worker \ {w} : worker'[v] = worker[v]
      /\ worker'[w].event = e
      /\ \/ status[e] = "PENDING" /\ worker'[w].pc = "claim"
         \/ status[e] \in Terminal /\ worker'[w].pc = "done" /\ worker'[w].answer = "terminal"
  BY <1>1, <1>2, <1>4 DEF TakeJob, ReceiveJob, Return, Become, CallAt, JobFits
<1>6. \A v \in Worker : ~Busy(v, e)
  BY <1>1, OneAtWork
<1>7. \A v \in Worker : Busy(v, e)' => v = w
  BY <1>5, <1>6 DEF Busy
<1>8. AtWork(w)'
  BY <1>1, <1>3, <1>4, <1>5 DEF AtWork, Queue!Holds, JobFits
<1>9. JobFits(e)'
  BY <1>1, <1>3, <1>4, <1>5 DEF JobFits, Busy, Terminal
<1>10. Elsewhere(e) /\ NothingToRepair'
  BY <1>1, <1>3, <1>5 DEF Elsewhere, FitInv, NothingToRepair
<1> QED BY <1>7, <1>8, <1>9, <1>10, FitsElsewhere

(* A step of a call: its row is changed, or it alone. *)
LEMMA FitCall ==
  ASSUME ProcessingAssumption, SystemAssumption, TypeOK, FitInv, NEW w \in Worker,
         NEW e \in Event, Busy(w, e), NEW state, worker' = [worker EXCEPT ![w] = state],
         state.pc # "idle", state.event = e, AtWork(w)',
         UNCHANGED queue, UNCHANGED calls, UNCHANGED sweep, UNCHANGED backstop,
         \A f \in Event \ {e} : /\ status'[f] = status[f] /\ attempts'[f] = attempts[f]
                                /\ stale'[f] = stale[f],
         ~stale'[e], attempts'[e] <= MaxAttempts, status'[e] # "NONE",
         status'[e] = "PENDING" => attempts'[e] < MaxAttempts
  PROVE  FitInv'
<1>1. worker'[w] = state /\ \A v \in Worker \ {w} : worker'[v] = worker[v]
  BY DEF TypeOK
<1>2. job[e] = "active" /\ \A v \in Worker : Busy(v, e) => v = w
  BY OneAtWork
<1>3. /\ UNCHANGED job /\ UNCHANGED made /\ UNCHANGED holder /\ UNCHANGED toEnqueue
      /\ UNCHANGED recon /\ UNCHANGED exhausted
  BY DEF queue, calls
<1>4. \A v \in Worker : Busy(v, e)' => AtWork(v)'
  BY <1>1, <1>2 DEF Busy
<1>5. JobFits(e)'
  BY <1>1, <1>2, <1>3 DEF JobFits, Busy
<1>6. Elsewhere(e) /\ NothingToRepair'
  BY <1>1, <1>3 DEF Elsewhere, FitInv, NothingToRepair, Busy
<1> QED BY <1>4, <1>5, <1>6, FitsElsewhere

LEMMA FitProcess ==
  ASSUME ProcessingAssumption, SystemAssumption, TypeOK, QueueInv, FitInv, NEW w \in Worker,
         Process(w)
  PROVE  FitInv'
<1>1. /\ UNCHANGED queue /\ UNCHANGED calls /\ UNCHANGED sweep /\ UNCHANGED backstop
      /\ UNCHANGED job /\ UNCHANGED made /\ UNCHANGED holder
      /\ worker[w].pc \in {"claim", "diagnose", "provider", "finalize"}
  BY DEF Process, Claim, ClaimMiss, Diagnose, ProviderAnswers, Finalize, queue
<1>2. PICK e \in Event : Busy(w, e)
  BY <1>1, TypeSplit, BusyWorkerHasEvent DEF Busy
<1>3. worker[w].event = e /\ AtWork(w) /\ JobFits(e) /\ Queue!Holds(w, e)
  BY <1>2 DEF FitInv, Busy, AtWork
<1>4. /\ attempts[e] \in Nat /\ MaxAttempts \in Nat /\ made[e] \in Nat /\ ~stale[e]
      /\ attempts[e] <= MaxAttempts
  BY <1>3, ProcessingAssumption, SystemAssumption
     DEF TypeOK, QueueInv, Queue!QueueTypeOK, JobFits
<1>5. ASSUME NEW state, worker' = [worker EXCEPT ![w] = state]
      PROVE  worker'[w] = state
  BY <1>5 DEF TypeOK
<1>6. CASE Claim(w)
  <2>1. /\ status[e] = "PENDING" /\ status' = [status EXCEPT ![e] = "PROCESSING"]
        /\ attempts' = [attempts EXCEPT ![e] = attempts[e] + 1]
        /\ stale' = [stale EXCEPT ![e] = FALSE] /\ made[e] = attempts[e]
    BY <1>3, <1>6 DEF Claim, ClaimRow, Claimable, AtWork
  <2>2. /\ status'[e] = "PROCESSING" /\ attempts'[e] = attempts[e] + 1 /\ ~stale'[e]
        /\ \A f \in Event \ {e} : /\ status'[f] = status[f] /\ attempts'[f] = attempts[f]
                                  /\ stale'[f] = stale[f]
    BY <2>1 DEF TypeOK
  <2>3. PICK n \in Nat : n = attempts'[e]
    BY <1>4, <2>2
  <2> DEFINE state == CallAt("provider", e, n, "none")
  <2>4. worker' = [worker EXCEPT ![w] = state]
    BY <1>3, <1>6, <2>3 DEF Claim, Become
  <2>5. state.pc = "provider" /\ state.event = e /\ state.attempt = n
    BY DEF CallAt
  <2> HIDE DEF state
  <2>6. AtWork(w)'
    <3>1. worker'[w].pc = "provider" /\ worker'[w].event = e /\ worker'[w].attempt = n
      BY <1>5, <2>4, <2>5
    <3> QED BY <1>1, <1>3, <2>1, <2>2, <2>3, <3>1 DEF AtWork, Queue!Holds
  <2>7. attempts'[e] <= MaxAttempts
    BY <1>3, <1>4, <2>1, <2>2 DEF JobFits
  <2> QED BY <1>1, <1>2, <2>2, <2>4, <2>5, <2>6, <2>7, FitCall
<1>7. ASSUME UNCHANGED db, NEW pc \in {"diagnose", "finalize", "done"}, NEW n, NEW answer,
             Become(w, CallAt(pc, e, n, answer)),
             pc = "diagnose" => worker[w].pc = "claim",
             pc = "finalize" => worker[w].pc = "provider" /\ n = worker[w].attempt,
             pc = "done" => worker[w].pc = "diagnose" /\ answer = "ordering-blocked"
      PROVE  FitInv'
  <2> DEFINE state == CallAt(pc, e, n, answer)
  <2>1. worker' = [worker EXCEPT ![w] = state]
    BY <1>7 DEF Become
  <2>2. /\ state.pc = pc /\ state.event = e /\ state.attempt = n /\ state.answer = answer
    BY DEF CallAt
  <2>3. UNCHANGED status /\ UNCHANGED attempts /\ UNCHANGED stale
    BY <1>7 DEF db
  <2> HIDE DEF state
  <2>4. AtWork(w)'
    BY <1>1, <1>3, <1>5, <1>7, <2>1, <2>2, <2>3 DEF AtWork, Queue!Holds
  <2>5. status[e] # "NONE" /\ (status[e] = "PENDING" => attempts[e] < MaxAttempts)
    BY <1>3 DEF JobFits, Queue!Holds
  <2> QED BY <1>1, <1>2, <1>4, <1>7, <2>1, <2>2, <2>3, <2>4, <2>5, FitCall
<1>8. CASE ClaimMiss(w)
  BY <1>3, <1>7, <1>8 DEF ClaimMiss
<1>9. CASE Diagnose(w)
  BY <1>3, <1>7, <1>9 DEF Diagnose, Return, AtWork
<1>10. CASE ProviderAnswers(w)
  BY <1>3, <1>7, <1>10 DEF ProviderAnswers
<1>11. CASE Finalize(w)
  <2>1. /\ status[e] = "PROCESSING" /\ worker[w].attempt = attempts[e]
        /\ attempts[e] = made[e] + 1
    BY <1>3, <1>11 DEF Finalize, AtWork
  <2>2. PICK to \in {"SUCCEEDED", "FAILED", "PENDING"},
             answer \in {"succeeded", "failed", "retry-scheduled"} :
          /\ status' = [status EXCEPT ![e] = to]
          /\ UNCHANGED attempts /\ UNCHANGED stale
          /\ Become(w, CallAt("done", e, 0, answer))
          /\ to = "PENDING" => attempts[e] < MaxAttempts /\ answer = "retry-scheduled"
          /\ to # "PENDING" => answer # "retry-scheduled"
    BY <1>3, <1>11, <2>1 DEF Finalize, FinalizeAs, FinalizeSuccess, FinalizeFailure,
       RetryTransition, RetriesLeft, CasMiss, Return
  <2> DEFINE state == CallAt("done", e, 0, answer)
  <2>3. worker' = [worker EXCEPT ![w] = state]
    BY <2>2 DEF Become
  <2>4. state.pc = "done" /\ state.event = e /\ state.answer = answer
    BY DEF CallAt
  <2>5. status'[e] = to /\ \A f \in Event \ {e} : status'[f] = status[f]
    BY <2>2 DEF TypeOK
  <2> HIDE DEF state
  <2>6. AtWork(w)'
    <3>1. worker'[w].pc = "done" /\ worker'[w].event = e /\ worker'[w].answer = answer
      BY <1>5, <2>3, <2>4
    <3> QED BY <1>1, <1>3, <2>1, <2>2, <2>5, <3>1 DEF AtWork, Queue!Holds, Terminal
  <2> QED BY <1>1, <1>2, <1>4, <2>2, <2>3, <2>4, <2>5, <2>6, FitCall
<1> QED BY <1>6, <1>8, <1>9, <1>10, <1>11 DEF Process

LEMMA FitFinish ==
  ASSUME FaultFree, ProcessingAssumption, SystemAssumption, TypeOK, QueueInv, FitInv,
         NEW w \in Worker, FinishJob(w)
  PROVE  FitInv'
<1>1. /\ worker[w].pc = "done" /\ worker' = [worker EXCEPT ![w] = IdleWorker]
      /\ UNCHANGED status /\ UNCHANGED attempts /\ UNCHANGED stale /\ UNCHANGED sweep
      /\ UNCHANGED backstop /\ UNCHANGED toEnqueue /\ UNCHANGED recon
  BY DEF FinishJob, Acknowledge, Become, db
<1>2. PICK e \in Event : Busy(w, e)
  BY <1>1, TypeSplit, BusyWorkerHasEvent DEF Busy
<1>3. /\ worker[w].event = e /\ AtWork(w) /\ JobFits(e) /\ Queue!Holds(w, e)
      /\ \A v \in Worker : Busy(v, e) => v = w
  BY <1>2, OneAtWork DEF FitInv, Busy, AtWork
<1>4. /\ worker'[w].pc = "idle" /\ \A v \in Worker \ {w} : worker'[v] = worker[v]
  BY <1>1 DEF TypeOK, IdleWorker
<1>5. /\ job \in [Event -> Queue!JobState] /\ made \in [Event -> 0..JobAttempts]
      /\ DOMAIN holder = Event /\ attempts[e] \in Nat /\ JobAttempts \in Nat
      /\ MaxAttempts \in Nat
  BY SystemAssumption, ProcessingAssumption DEF QueueInv, Queue!QueueTypeOK, TypeOK
<1>6. /\ holder' = [holder EXCEPT ![e] = None] /\ UNCHANGED exhausted
      /\ \/ /\ status[e] \in Terminal /\ job' = [job EXCEPT ![e] = "completed"]
            /\ made' = [made EXCEPT ![e] = made[e] + 1]
         \/ /\ status[e] = "PENDING" /\ made[e] = attempts[e]
            /\ job' = [job EXCEPT ![e] = "delayed"] /\ UNCHANGED made
         \/ /\ status[e] = "PENDING" /\ attempts[e] = made[e] + 1
            /\ job' = [job EXCEPT ![e] = "delayed"]
            /\ made' = [made EXCEPT ![e] = made[e] + 1]
  <2>1. CASE worker[w].answer \in {"terminal", "succeeded", "failed"} /\ status[e] \in Terminal
    BY <1>3, <2>1 DEF FinishJob, Throws, Defers, Queue!Complete, Queue!Move, Queue!LockLost
  <2>2. CASE worker[w].answer = "ordering-blocked" /\ status[e] = "PENDING" /\ made[e] = attempts[e]
    BY <1>3, <2>2 DEF FinishJob, Throws, Defers, Queue!Defer, Queue!Move, Queue!LockLost
  <2>3. CASE /\ worker[w].answer = "retry-scheduled" /\ status[e] = "PENDING"
             /\ attempts[e] = made[e] + 1
    <3>1. made[e] + 1 < JobAttempts
      BY <1>3, <1>5, <2>3 DEF JobFits, FaultFree
    <3>2. Queue!Retry(w, e) /\ UNCHANGED exhausted
      BY <1>3, <1>5, <2>3, <3>1 DEF FinishJob, Throws, Defers, Queue!Exhaust, Queue!LockLost
    <3> QED BY <2>3, <3>2 DEF Queue!Retry, Queue!Move
  <2> QED BY <1>1, <1>3, <2>1, <2>2, <2>3 DEF AtWork
<1>7. \A f \in Event \ {e} : /\ job'[f] = job[f] /\ made'[f] = made[f]
                             /\ holder'[f] = holder[f]
  BY <1>5, <1>6
<1>8. \/ status'[e] \in Terminal /\ job'[e] = "completed"
      \/ status'[e] = "PENDING" /\ job'[e] = "delayed" /\ made'[e] = attempts'[e]
  BY <1>1, <1>5, <1>6
<1>9. JobFits(e)'
  BY <1>1, <1>3, <1>8 DEF JobFits, Terminal
<1>10. \A v \in Worker : ~Busy(v, e)'
  BY <1>3, <1>4 DEF Busy
<1>11. Elsewhere(e) /\ NothingToRepair'
  BY <1>1, <1>3, <1>4, <1>6, <1>7 DEF Elsewhere, FitInv, NothingToRepair
<1> QED BY <1>9, <1>10, <1>11, FitsElsewhere

-----------------------------------------------------------------------------
(* What cannot happen. *)

LEMMA NoFaultHappens ==
  ASSUME FaultFree, SystemAssumption, CallsTypeOK, NEW k \in {"crash", "throw"}
  PROVE  ~Fault(k)
<1>1. k \in FaultKind /\ FaultLimit[k] = 0
  BY DEF FaultKind, FaultFree
<1>2. faults[k] \in 0..0
  BY <1>1 DEF CallsTypeOK
<1> QED BY <1>1, <1>2 DEF Fault

LEMMA NothingStale ==
  ASSUME FaultFree, TypeOK, FitInv, NEW e \in Event
  PROVE  ~Age(e)
<1> SUFFICES ASSUME status[e] = "PROCESSING"
             PROVE  \E w \in Worker : InFlight(w, e)
  BY DEF Age, BecomeStale, PassThreshold, FaultFree
<1>1. PICK w \in Worker : Busy(w, e)
  BY DEF FitInv, JobFits
<1>2. AtWork(w) /\ worker[w] \in WorkerState
  BY <1>1, OneAtWork DEF TypeOK
<1>3. worker[w].pc \in {"idle", "claim", "diagnose", "provider", "finalize", "done"}
  BY <1>2 DEF WorkerState, IdleWorker
<1> QED BY <1>1, <1>2, <1>3 DEF AtWork, Busy, InFlight, Terminal

LEMMA NothingDone ==
  ASSUME FaultFree, SystemAssumption, CallsTypeOK, TypeOK, FitInv
  PROVE  /\ \A e \in Event : /\ ~LockLapses(e) /\ ~Age(e) /\ ~BackstopCall(e)
                             /\ ~BackstopWrite(e) /\ ~BackstopFails(e)
         /\ \A w \in Worker : ~ThrowInProcess(w) /\ ~CrashWorker(w)
         /\ \A s \in Sweeper : ~SweepProgress(s) /\ ~SweepFails(s)
<1>1. ~Fault("crash") /\ ~Fault("throw") /\ ~Overlap
  BY NoFaultHappens DEF FaultFree
<1>2. \A e \in Event : ~stale[e]
  BY DEF FitInv, JobFits
<1>3. exhausted = {} /\ backstop = {} /\ \A s \in Sweeper : sweep[s].pc = "idle"
  BY DEF FitInv, NothingToRepair
<1>4. \A s \in Sweeper : ~SweepProgress(s)
  BY <1>2, <1>3 DEF SweepProgress, SweepSelect, SweepRead, SweepRecover, SweepEnqueue
<1> QED BY <1>1, <1>3, <1>4, NothingStale DEF LockLapses, BackstopCall, BackstopWrite,
        BackstopFinalize, BackstopFails, ThrowInProcess, CrashWorker, SweepFails

-----------------------------------------------------------------------------

LEMMA FitStep ==
  ASSUME FaultFree, ProcessingAssumption, SystemAssumption, TypeOK, QueueInv, CallsTypeOK,
         FitInv, SystemNext
  PROVE  FitInv'
<1>1. ASSUME NEW e \in Event, EnqueueSafely(e) \/ ReconcileEnqueue(e) \/ QueueStep(e)
                              \/ EvictJob(e)
      PROVE  FitInv'
  BY <1>1, FitQueue DEF EnqueueSafely, ReconcileEnqueue, QueueStep, EvictJob, calls
<1>2. ASSUME NEW e \in Event, EnqueueLost(e) \/ ReconcileLost(e) \/ ReconcileList(e)
      PROVE  FitInv'
  BY <1>2, FitQueue DEF EnqueueLost, ReconcileLost, ReconcileList
<1> QED BY <1>1, <1>2, FitSubmit, FitTake, FitProcess, FitFinish, NothingDone DEF SystemNext

LEMMA FitKept ==
  ASSUME FaultFree
  PROVE  SystemSpec => [](FitInv /\ QueueInv)
<1>1. SystemInit => FitInv /\ QueueInv /\ CallsTypeOK
  <2> SUFFICES ASSUME SystemInit
               PROVE  FitInv /\ QueueInv /\ CallsTypeOK
    OBVIOUS
  <2>1. QueueInv /\ CallsTypeOK
    BY SystemAssumption DEF SystemInit, QueueInv, CallsTypeOK, DeliveriesLeft, Queue!QueueInit,
       Queue!QueueTypeOK, Queue!JobState
  <2>2. MaxAttempts \in Nat /\ MaxAttempts > 0
    BY ProcessingAssumption
  <2>3. FitInv
    BY <2>2 DEF SystemInit, Init, IdleWorker, IdleSweep, Queue!QueueInit, FitInv, JobFits,
       NothingToRepair
  <2> QED BY <2>1, <2>3
<1>2. /\ TypeOK /\ QueueInv /\ CallsTypeOK /\ FitInv /\ [SystemNext]_systemVars
      => (FitInv /\ QueueInv /\ CallsTypeOK)'
  <2>1. CASE UNCHANGED systemVars
    BY <2>1 DEF FitInv, JobFits, AtWork, Busy, NothingToRepair, QueueInv, CallsTypeOK,
       DeliveriesLeft, Queue!QueueTypeOK, Queue!Holds, systemVars, vars, queue, calls
  <2>2. UNCHANGED queue /\ QueueInv => QueueInv'
    BY DEF QueueInv, Queue!QueueTypeOK, DeliveriesLeft, queue
  <2>3. TypeOK /\ QueueInv /\ SystemNext => QueueInv'
    BY <2>2, StepOfQueue, QueueMoveKeeps, SystemAssumption
  <2>4. TypeOK /\ CallsTypeOK /\ SystemNext => CallsTypeOK'
    BY CallsKept, SystemAssumption
  <2> QED BY <2>1, <2>3, <2>4, FitStep, ProcessingAssumption, SystemAssumption
<1> QED BY <1>1, <1>2, SystemImplementsProcessing, TypeCorrect, PTL DEF SystemSpec

(* A finished job never stands in the way of an event that is not over: what    *)
(* enqueues an event again, the reconciliation sweep above all, does not find   *)
(* its id taken by a job that will not run.                                     *)
FinishedIsOver == \A e \in Event : job[e] \in Queue!Finished => status[e] \in Terminal

(* BullMQ's count of a waiting event's deliveries is the row's of its attempts, *)
(* so that neither gives up before the other.                                   *)
CountsAgree ==
  \A e \in Event :
    (status[e] = "PENDING" /\ job[e] \in {"waiting", "delayed"}) => made[e] = attempts[e]

(* No job is given up and none ends but with its event; the queue's counter     *)
(* and the row's go together.  It takes a crash or a throw to break this: then  *)
(* EventuallyEnds and GivenUpIsNotPending have counterexamples.                 *)
THEOREM JobsEndWithEvents ==
  ASSUME FaultFree
  PROVE  SystemSpec => [](FinishedIsOver /\ CountsAgree /\ GivenUpIsNotPending)
<1>1. FitInv => FinishedIsOver /\ CountsAgree /\ GivenUpIsNotPending
  BY DEF FitInv, JobFits, NothingToRepair, FinishedIsOver, CountsAgree, GivenUpIsNotPending,
     Queue!Finished
<1> QED BY <1>1, FitKept, PTL

(* Ordering, duplicates, lost enqueues and evicted jobs alone never give the    *)
(* stale sweep or the backstop anything to do, however many passes run.         *)
THEOREM RepairsAreForFaults ==
  ASSUME FaultFree
  PROVE  SystemSpec => [](NothingToRepair /\ \A e \in Event : ~stale[e] /\ job[e] # "failed")
<1>1. FitInv => NothingToRepair /\ \A e \in Event : ~stale[e] /\ job[e] # "failed"
  BY DEF FitInv, JobFits
<1> QED BY <1>1, FitKept, PTL

(* The budget needs no assumption on the sweep's passes then.                   *)
THEOREM FaultFreeBudget ==
  ASSUME FaultFree
  PROVE  SystemSpec => []BudgetRespected
<1>1. FitInv => BudgetRespected
  BY DEF FitInv, JobFits, BudgetRespected
<1> QED BY <1>1, FitKept, PTL

(* Nor does one call of the provider for an employee at a time, which holds     *)
(* whether or not finished jobs are evicted.                                    *)
THEOREM FaultFreeCallsAreSerial ==
  ASSUME FaultFree
  PROVE  SystemSpec => []SerialCallsPerEmployee
<1>1. TypeOK /\ FitInv /\ Lifecycle!OneRunningPerEmployee => SerialCallsPerEmployee
  <2> SUFFICES ASSUME TypeOK, FitInv, Lifecycle!OneRunningPerEmployee,
                      NEW w \in Worker, NEW v \in Worker, w # v, Calling(w), Calling(v)
               PROVE  EmployeeOf[worker[w].event] # EmployeeOf[worker[v].event]
    BY DEF SerialCallsPerEmployee
  <2>1. /\ worker[w].event \in Event /\ worker[v].event \in Event
        /\ AtWork(w) /\ AtWork(v)
    BY TypeSplit, BusyWorkerHasEvent DEF Calling, FitInv
  <2>2. status[worker[w].event] = "PROCESSING" /\ status[worker[v].event] = "PROCESSING"
    BY <2>1 DEF AtWork, Calling
  <2>3. worker[w].event # worker[v].event
    BY <2>1 DEF AtWork, Queue!Holds
  <2> QED BY <2>1, <2>2, <2>3 DEF Lifecycle!OneRunningPerEmployee
<1> QED BY <1>1, FitKept, SystemImplementsProcessing, TypeCorrect, RowsRunOneAtATime, PTL

(* And every finishing transaction ends the attempt its own call has claimed.   *)
THEOREM FaultFreeOwnAttempts ==
  ASSUME FaultFree
  PROVE  SystemSpec => FinalizesOwnAttempt
<1>1. FitInv => [\A w \in Worker, e \in Event :
                   (Finalize(w) /\ worker[w].event = e /\ status'[e] # status[e])
                     => worker[w].attempt = attempts[e]]_vars
  BY DEF FitInv, AtWork, Finalize
<1> QED BY <1>1, FitKept, PTL DEF FinalizesOwnAttempt
=============================================================================
