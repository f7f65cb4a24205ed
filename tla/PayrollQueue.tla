---------------------------- MODULE PayrollQueue ----------------------------
(***************************************************************************)
(* The payroll-events queue: BullMQ as this service configures and uses it. *)
(* A job's id is its event's id, so there is at most one job per event; a   *)
(* job that is finished is kept for a time and still occupies the id.       *)
(***************************************************************************)
EXTENDS Naturals

CONSTANTS
  Event,        \* job ids
  Worker,       \* slots of the BullMQ workers
  JobAttempts,  \* defaultJobOptions.attempts
  MaxStalls,    \* how often a stalled job is given to another slot
  Eviction,     \* do later jobs push finished ones out of removeOnComplete/Fail?
  None

VARIABLES
  job,      \* the state of each event's job
  made,     \* attemptsMade
  stalls,   \* how often the job has stalled
  holder    \* the slot whose lock on the active job is valid

queue == <<job, made, stalls, holder>>

JobState == {"absent", "waiting", "delayed", "active", "completed", "failed"}
Finished == {"completed", "failed"}

QueueTypeOK ==
  /\ job \in [Event -> JobState]
  /\ made \in [Event -> 0..JobAttempts]
  /\ stalls \in [Event -> 0..MaxStalls]
  /\ holder \in [Event -> Worker \cup {None}]

QueueInit ==
  /\ job = [e \in Event |-> "absent"]
  /\ made = [e \in Event |-> 0]
  /\ stalls = [e \in Event |-> 0]
  /\ holder = [e \in Event |-> None]

Move(e, state) == job' = [job EXCEPT ![e] = state]

(* Mutant: a job being worked on does not count as a duplicate. *)
AddBesideActive(e) ==
  \/ job[e] \notin {"absent", "active"} /\ UNCHANGED queue
  \/ /\ job[e] \in {"absent", "active"}
     /\ Move(e, "waiting")
     /\ made' = [made EXCEPT ![e] = 0]
     /\ stalls' = [stalls EXCEPT ![e] = 0]
     /\ holder' = [holder EXCEPT ![e] = None]

(* queue.add with jobId = e: a no-op while a job of that id exists, whatever  *)
(* its state.                                                                 *)
Add(e) ==
  \/ job[e] # "absent" /\ UNCHANGED queue
  \/ /\ job[e] = "absent"
     /\ Move(e, "waiting")
     /\ made' = [made EXCEPT ![e] = 0]
     /\ stalls' = [stalls EXCEPT ![e] = 0]
     /\ UNCHANGED holder

Take(w, e) ==
  /\ job[e] = "waiting"
  /\ Move(e, "active")
  /\ holder' = [holder EXCEPT ![e] = w]
  /\ UNCHANGED <<made, stalls>>

Holds(w, e) == job[e] = "active" /\ holder[e] = w

(* A slot that lost its lock can no longer move the job. *)
LockLost(w, e) == ~Holds(w, e) /\ UNCHANGED queue

(* The processor resolves. *)
Complete(w, e) ==
  /\ Holds(w, e)
  /\ Move(e, "completed")
  /\ made' = [made EXCEPT ![e] = @ + 1]
  /\ holder' = [holder EXCEPT ![e] = None]
  /\ UNCHANGED stalls

(* Mutant: one delivery too many. *)
RetryOnceMore(w, e) ==
  /\ Holds(w, e)
  /\ made[e] <= JobAttempts
  /\ Move(e, "delayed")
  /\ made' = [made EXCEPT ![e] = @ + 1]
  /\ holder' = [holder EXCEPT ![e] = None]
  /\ UNCHANGED stalls

(* The processor throws, with deliveries left or not. *)
Retry(w, e) ==
  /\ Holds(w, e)
  /\ made[e] + 1 < JobAttempts
  /\ Move(e, "delayed")
  /\ made' = [made EXCEPT ![e] = @ + 1]
  /\ holder' = [holder EXCEPT ![e] = None]
  /\ UNCHANGED stalls

Exhaust(w, e) ==
  /\ Holds(w, e)
  /\ made[e] + 1 >= JobAttempts
  /\ Move(e, "failed")
  /\ made' = [made EXCEPT ![e] = @ + 1]
  /\ holder' = [holder EXCEPT ![e] = None]
  /\ UNCHANGED stalls

(* moveToDelayed and DelayedError: no attempt is consumed. *)
Defer(w, e) ==
  /\ Holds(w, e)
  /\ Move(e, "delayed")
  /\ holder' = [holder EXCEPT ![e] = None]
  /\ UNCHANGED <<made, stalls>>

(* The backoff or the defer delay is over. *)
Promote(e) == job[e] = "delayed" /\ Move(e, "waiting") /\ UNCHANGED <<made, stalls, holder>>

(* The lock is no longer renewed. *)
LoseLock(e) ==
  /\ job[e] = "active"
  /\ holder[e] # None
  /\ holder' = [holder EXCEPT ![e] = None]
  /\ UNCHANGED <<job, made, stalls>>

(* The stalled check finds an active job without a lock. *)
Stall(e) ==
  /\ job[e] = "active"
  /\ holder[e] = None
  /\ \/ /\ stalls[e] < MaxStalls
        /\ Move(e, "waiting")
        /\ stalls' = [stalls EXCEPT ![e] = @ + 1]
     \/ /\ stalls[e] >= MaxStalls
        /\ Move(e, "failed")
        /\ UNCHANGED stalls
  /\ UNCHANGED <<made, holder>>

(* A finished job is removed because enough later ones finished. *)
Evict(e) ==
  /\ Eviction
  /\ job[e] \in Finished
  /\ Move(e, "absent")
  /\ UNCHANGED <<made, stalls, holder>>
=============================================================================
