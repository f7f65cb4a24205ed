---------------------------- MODULE PayrollSystem ----------------------------
(***************************************************************************)
(* The service as a whole: event processing behind the BullMQ queue, the   *)
(* enqueue that follows a submission's commit, the job processor that      *)
(* turns outcomes into queue moves, the backstop on exhausted jobs, the    *)
(* stale sweep's enqueue and the reconciliation sweep, with crashes,       *)
(* throws and lost enqueues.                                               *)
(***************************************************************************)
EXTENDS EventProcessing

CONSTANTS
  JobAttempts, MaxStalls, Eviction,   \* see PayrollQueue
  FaultLimit                          \* bound on the faults of each kind

FaultKind == {"crash", "throw", "lost"}

ASSUME SystemAssumption ==
  /\ JobAttempts \in Nat \ {0}
  /\ MaxStalls \in Nat
  /\ Eviction \in BOOLEAN
  /\ FaultLimit \in [FaultKind -> Nat]
  /\ None \notin Worker

VARIABLES
  job, made, stalls, holder,   \* see PayrollQueue
  toEnqueue,   \* events committed by a submission that has yet to enqueue them
  recon,       \* events a reconciliation pass has listed and not yet enqueued
  exhausted,   \* events whose 'failed' listener is about to reconcile them
  faults       \* faults so far, by kind

queue == <<job, made, stalls, holder>>
calls == <<toEnqueue, recon, exhausted>>
systemVars == <<vars, queue, calls, faults>>

Queue == INSTANCE PayrollQueue

SystemInit ==
  /\ Init
  /\ Queue!QueueInit
  /\ toEnqueue = {}
  /\ recon = {}
  /\ exhausted = {}
  /\ faults = [k \in FaultKind |-> 0]

Fault(k) ==
  /\ faults[k] < FaultLimit[k]
  /\ faults' = [faults EXCEPT ![k] = @ + 1]

-----------------------------------------------------------------------------
(* Submission: commit, then enqueueSafely. *)

SubmitEvent(e) ==
  /\ Submit(e)
  /\ toEnqueue' = toEnqueue \cup {e}
  /\ UNCHANGED <<queue, recon, exhausted, faults>>

EnqueueSafely(e) ==
  /\ e \in toEnqueue
  /\ Queue!Add(e)
  /\ toEnqueue' = toEnqueue \ {e}
  /\ UNCHANGED <<vars, recon, exhausted, faults>>

(* Redis is unreachable or the API process dies after the commit. *)
EnqueueLost(e) ==
  /\ e \in toEnqueue
  /\ Fault("lost")
  /\ toEnqueue' = toEnqueue \ {e}
  /\ UNCHANGED <<vars, queue, recon, exhausted>>

-----------------------------------------------------------------------------
(* The BullMQ worker around processEvent. *)

TakeJob(w, e) ==
  /\ ReceiveJob(w, e)
  /\ Queue!Take(w, e)
  /\ UNCHANGED <<calls, faults>>

(* What processEvent does between being called and returning. *)
Process(w) ==
  /\ \/ Claim(w) \/ ClaimMiss(w) \/ Diagnose(w) \/ ProviderAnswers(w) \/ Finalize(w)
  /\ UNCHANGED <<queue, calls, faults>>

ThrowInProcess(w) ==
  /\ Throw(w)
  /\ Fault("throw")
  /\ UNCHANGED <<queue, calls>>

Throws(w) == worker[w].answer \in {"retry-scheduled", "error"}
Defers(w) == worker[w].answer = "ordering-blocked"

(* Mutants: the listener does not ask whether the job is exhausted; a blocked *)
(* event's job is completed instead of deferred.                              *)
FinishJobHasty(w) ==
  LET e == worker[w].event
  IN /\ Acknowledge(w)
     /\ \/ Throws(w) /\ Queue!Retry(w, e) /\ exhausted' = exhausted \cup {e}
        \/ Throws(w) /\ Queue!Exhaust(w, e) /\ exhausted' = exhausted \cup {e}
        \/ Defers(w) /\ Queue!Defer(w, e) /\ UNCHANGED exhausted
        \/ ~Throws(w) /\ ~Defers(w) /\ Queue!Complete(w, e) /\ UNCHANGED exhausted
        \/ Queue!LockLost(w, e) /\ UNCHANGED exhausted
     /\ UNCHANGED <<toEnqueue, recon, faults>>

FinishJobUndeferred(w) ==
  LET e == worker[w].event
  IN /\ Acknowledge(w)
     /\ \/ Throws(w) /\ Queue!Retry(w, e) /\ UNCHANGED exhausted
        \/ Throws(w) /\ Queue!Exhaust(w, e) /\ exhausted' = exhausted \cup {e}
        \/ ~Throws(w) /\ Queue!Complete(w, e) /\ UNCHANGED exhausted
        \/ Queue!LockLost(w, e) /\ UNCHANGED exhausted
     /\ UNCHANGED <<toEnqueue, recon, faults>>

(* processPayrollEventJob and BullMQ's bookkeeping after it; an exhausted job *)
(* starts the failed listener.                                                *)
FinishJob(w) ==
  LET e == worker[w].event
  IN /\ Acknowledge(w)
     /\ \/ Throws(w) /\ Queue!Retry(w, e) /\ UNCHANGED exhausted
        \/ Throws(w) /\ Queue!Exhaust(w, e) /\ exhausted' = exhausted \cup {e}
        \/ Defers(w) /\ Queue!Defer(w, e) /\ UNCHANGED exhausted
        \/ ~Throws(w) /\ ~Defers(w) /\ Queue!Complete(w, e) /\ UNCHANGED exhausted
        \/ Queue!LockLost(w, e) /\ UNCHANGED exhausted
     /\ UNCHANGED <<toEnqueue, recon, faults>>

(* The worker process dies, and with it the renewal of its lock. *)
CrashWorker(w) ==
  LET e == worker[w].event IN
  /\ Crash(w)
  /\ Fault("crash")
  /\ \/ Queue!Holds(w, e) /\ Queue!LoseLock(e)
     \/ Queue!LockLost(w, e)
  /\ UNCHANGED calls

(* A live call's lock lapses: only when calls may overlap their recovery. *)
LockLapses(e) ==
  /\ Overlap
  /\ Queue!LoseLock(e)
  /\ UNCHANGED <<vars, calls, faults>>

QueueStep(e) ==
  /\ Queue!Promote(e) \/ Queue!Stall(e)
  /\ UNCHANGED <<vars, calls, faults>>

EvictJob(e) ==
  /\ Queue!Evict(e)
  /\ UNCHANGED <<vars, calls, faults>>

-----------------------------------------------------------------------------
(* The failed listener on an exhausted job. *)

BackstopCall(e) ==
  /\ e \in exhausted
  /\ exhausted' = exhausted \ {e}
  /\ BackstopRead(e) \/ (status[e] # "PROCESSING" /\ UNCHANGED vars)
  /\ UNCHANGED <<queue, toEnqueue, recon, faults>>

BackstopWrite(e) ==
  /\ BackstopFinalize(e)
  /\ UNCHANGED <<queue, calls, faults>>

(* The process dies before the read or before the write. *)
BackstopFails(e) ==
  /\ \/ BackstopLost(e) /\ UNCHANGED exhausted
     \/ e \in exhausted /\ exhausted' = exhausted \ {e} /\ UNCHANGED vars
  /\ Fault("crash")
  /\ UNCHANGED <<queue, toEnqueue, recon>>

-----------------------------------------------------------------------------
(* The sweeps. *)

Age(e) == BecomeStale(e) /\ UNCHANGED <<queue, calls, faults>>

SweepProgress(s) ==
  \/ /\ SweepSelect(s) \/ (\E e \in Event : SweepRead(s, e)) \/ SweepRecover(s)
     /\ UNCHANGED <<queue, calls, faults>>
  \/ /\ SweepEnqueue(s)
     /\ Queue!Add(sweep[s].event)
     /\ UNCHANGED <<calls, faults>>

SweepFails(s) ==
  /\ \/ SweepThrow(s) /\ Fault("throw")
     \/ SweepCrash(s) /\ Fault("crash")
  /\ UNCHANGED <<queue, calls>>

(* Mutant: only events never claimed are looked for. *)
ReconcileListUnclaimed(e) ==
  /\ status[e] = "PENDING"
  /\ attempts[e] = 0
  /\ e \notin recon
  /\ recon' = recon \cup {e}
  /\ UNCHANGED <<vars, queue, toEnqueue, exhausted, faults>>

(* ReconciliationSweepService: an event long PENDING is listed ... *)
ReconcileList(e) ==
  /\ status[e] = "PENDING"
  /\ e \notin recon
  /\ recon' = recon \cup {e}
  /\ UNCHANGED <<vars, queue, toEnqueue, exhausted, faults>>

(* ... and later enqueued, whatever its status is by then. *)
ReconcileEnqueue(e) ==
  /\ e \in recon
  /\ Queue!Add(e)
  /\ recon' = recon \ {e}
  /\ UNCHANGED <<vars, toEnqueue, exhausted, faults>>

ReconcileLost(e) ==
  /\ e \in recon
  /\ Fault("lost")
  /\ recon' = recon \ {e}
  /\ UNCHANGED <<vars, queue, toEnqueue, exhausted>>

-----------------------------------------------------------------------------

SystemNext ==
  \/ \E e \in Event :
       \/ SubmitEvent(e) \/ EnqueueSafely(e) \/ EnqueueLost(e)
       \/ LockLapses(e) \/ QueueStep(e) \/ EvictJob(e)
       \/ BackstopCall(e) \/ BackstopWrite(e) \/ BackstopFails(e)
       \/ Age(e) \/ ReconcileList(e) \/ ReconcileEnqueue(e) \/ ReconcileLost(e)
       \/ \E w \in Worker : TakeJob(w, e)
  \/ \E w \in Worker :
       Process(w) \/ ThrowInProcess(w) \/ FinishJob(w) \/ CrashWorker(w)
  \/ \E s \in Sweeper : SweepProgress(s) \/ SweepFails(s)

SystemSpec == SystemInit /\ [][SystemNext]_systemVars

(* Slots keep taking jobs and finishing them, timers fire, and the sweeps run *)
(* at their intervals; nothing says that a client submits or a fault happens. *)
(* A waiting job is not passed over for ever: BullMQ takes jobs in order.     *)
(* Eviction, when it is there at all, is kept up by later jobs.               *)
SystemFairness ==
  /\ \A w \in Worker : WF_systemVars(Process(w)) /\ WF_systemVars(FinishJob(w))
  /\ \A s \in Sweeper : WF_systemVars(SweepProgress(s))
  /\ \A e \in Event :
       /\ SF_systemVars(\E w \in Worker : TakeJob(w, e))
       /\ WF_systemVars(EnqueueSafely(e))
       /\ WF_systemVars(QueueStep(e))
       /\ WF_systemVars(EvictJob(e))
       /\ WF_systemVars(BackstopCall(e))
       /\ WF_systemVars(BackstopWrite(e))
       /\ WF_systemVars(Age(e))
       /\ WF_systemVars(ReconcileList(e))
       /\ WF_systemVars(ReconcileEnqueue(e))

FairSystem == SystemSpec /\ SystemFairness

-----------------------------------------------------------------------------
(* Properties.                                                               *)

(* The processing side, the jobs, the slots and the sweep's list are well      *)
(* typed.                                                                      *)
SystemTypeOK ==
  /\ TypeOK
  /\ Queue!QueueTypeOK
  /\ toEnqueue \cup recon \cup exhausted \subseteq Event
  /\ \A k \in FaultKind : faults[k] \in 0..FaultLimit[k]

(* While calls are timely, the queue has at most one slot work on an event,   *)
(* through redeliveries, stalls, re-enqueues by both sweeps and crashes.      *)
OneHandlerPerEvent ==
  \A w, v \in Worker :
    (w # v /\ worker[w].pc # "idle" /\ worker[v].pc # "idle")
      => worker[w].event # worker[v].event

(* The backstop ends an attempt only if no slot is at work on the event.      *)
BackstopSparesRunning ==
  [][\A e \in Event, w \in Worker :
       (BackstopWrite(e) /\ status'[e] # status[e]) => ~InFlight(w, e)]_systemVars

(* What the backstop takes a PENDING event to be: one that is waiting for a    *)
(* delivery still to come.                                                    *)
GivenUpIsNotPending ==
  \A e \in exhausted :
    status[e] = "PENDING" => job[e] \in {"waiting", "delayed", "active"}

(* Every submitted event reaches a terminal state in the end. *)
EventuallyEnds ==
  \A e \in Event : status[e] = "PENDING" ~> status[e] \in Terminal
=============================================================================
