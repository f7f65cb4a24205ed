----------------------------- MODULE Submission -----------------------------
(***************************************************************************)
(* EventsService.submit: concurrent POST /events requests, each running    *)
(* its own READ COMMITTED transaction (advisory lock, MAX(sequence) + 1,   *)
(* insert, history row, commit), the recovery from a duplicate             *)
(* idempotency key and the enqueue after the commit.                       *)
(*                                                                         *)
(* A request is also the id of the event it would create.  The statements  *)
(* of a transaction are separate actions; a row becomes visible to other   *)
(* transactions at the commit, which is also when the advisory lock is     *)
(* released (pg_advisory_xact_lock).                                       *)
(***************************************************************************)
EXTENDS Naturals, FiniteSets

CONSTANTS
  Request,      \* requests, and ids of the events they may create
  Key,          \* idempotency keys
  Employee,     \* employees
  LockId,       \* values of hashtext
  Body,         \* event types with their payloads
  KeyOf,        \* Idempotency-Key header of each request
  BodyOf,       \* event type and payload of each request
  EmployeeOf,   \* payload.employeeId of each request: part of its body
  LockOf,       \* hashtext of each employee; two employees may collide
  MaxFaults     \* bound on failed transactions and API process crashes

ASSUME SubmissionAssumption ==
  /\ IsFiniteSet(Request)
  /\ KeyOf \in [Request -> Key]
  /\ BodyOf \in [Request -> Body]
  /\ EmployeeOf \in [Request -> Employee]
  /\ LockOf \in [Employee -> LockId]
  /\ MaxFaults \in Nat
  /\ \A r, q \in Request :
       BodyOf[r] = BodyOf[q] => EmployeeOf[r] = EmployeeOf[q]

VARIABLES
  pc,         \* where each request stands
  next,       \* next_sequence as each request's transaction read it
  inserted,   \* requests with an inserted row that is not committed
  table,      \* committed rows: requests whose event exists
  sequence,   \* sequence of each inserted or committed row, 0 without one
  answer,     \* the event a request resolved to, for the response
  enqueued,   \* events handed to the queue
  faults      \* faults so far

vars == <<pc, next, inserted, table, sequence, answer, enqueued, faults>>

InTransaction == {"max", "insert", "commit"}
Replied == {"created", "deduplicated", "conflict", "failed"}
Ended == Replied \cup {"aborted"}
Step == {"lock", "resolve", "enqueue"} \cup InTransaction \cup Ended

Init ==
  /\ pc = [r \in Request |-> "lock"]
  /\ next = [r \in Request |-> 0]
  /\ inserted = {}
  /\ table = {}
  /\ sequence = [r \in Request |-> 0]
  /\ answer = [r \in Request |-> r]
  /\ enqueued = {}
  /\ faults = 0

-----------------------------------------------------------------------------
(* The transaction. *)

Lock(r) == LockOf[EmployeeOf[r]]

(* Mutant: a session-level lock, which outlives the transaction. *)
SessionHolders(l) == {r \in Request : pc[r] # "lock" /\ Lock(r) = l}

(* The transactions holding the advisory lock: between the lock and the end. *)
Holders(l) ==
  {r \in Request : pc[r] \in InTransaction /\ Lock(r) = l}

(* Mutants: no lock is taken; numbers come from a counter instead of the lock. *)
SkipLock(r) ==
  /\ pc[r] = "lock"
  /\ pc' = [pc EXCEPT ![r] = "max"]
  /\ UNCHANGED <<next, inserted, table, sequence, answer, enqueued, faults>>

TakeNumber(r) ==
  /\ pc[r] = "lock"
  /\ next' = [next EXCEPT ![r] =
                1 + Cardinality({q \in Request : pc[q] # "lock" /\ EmployeeOf[q] = EmployeeOf[r]})]
  /\ pc' = [pc EXCEPT ![r] = "insert"]
  /\ UNCHANGED <<inserted, table, sequence, answer, enqueued, faults>>

AcquireLock(r) ==
  /\ pc[r] = "lock"
  /\ Holders(Lock(r)) = {}
  /\ pc' = [pc EXCEPT ![r] = "max"]
  /\ UNCHANGED <<next, inserted, table, sequence, answer, enqueued, faults>>

Rows(emp) == {r \in table : EmployeeOf[r] = emp}

(* Mutant: the query lacks its WHERE employee_id. *)
ReadMaxOfAll(r) ==
  /\ pc[r] = "max"
  /\ \E n \in {0} \cup {sequence[q] : q \in table} :
       /\ \A q \in table : sequence[q] <= n
       /\ next' = [next EXCEPT ![r] = n + 1]
  /\ pc' = [pc EXCEPT ![r] = "insert"]
  /\ UNCHANGED <<inserted, table, sequence, answer, enqueued, faults>>

(* COALESCE(MAX(sequence), 0) + 1 over the rows committed by now. *)
ReadMax(r) ==
  /\ pc[r] = "max"
  /\ \E n \in {0} \cup {sequence[q] : q \in Rows(EmployeeOf[r])} :
       /\ \A q \in Rows(EmployeeOf[r]) : sequence[q] <= n
       /\ next' = [next EXCEPT ![r] = n + 1]
  /\ pc' = [pc EXCEPT ![r] = "insert"]
  /\ UNCHANGED <<inserted, table, sequence, answer, enqueued, faults>>

SameKey(r, q) == KeyOf[r] = KeyOf[q]
SamePlace(r, q) == EmployeeOf[r] = EmployeeOf[q] /\ next[r] = sequence[q]

(* The insert waits for a transaction that has inserted a row with one of its *)
(* unique values, until that transaction ends.                               *)
MustWait(r) == \E q \in inserted : SameKey(r, q) \/ SamePlace(r, q)

(* Mutants: idempotency_key has no unique index; the queue is told inside the *)
(* transaction.                                                               *)
InsertAnyKey(r) ==
  /\ pc[r] = "insert"
  /\ ~MustWait(r)
  /\ \A q \in table : ~SamePlace(r, q)
  /\ inserted' = inserted \cup {r}
  /\ sequence' = [sequence EXCEPT ![r] = next[r]]
  /\ pc' = [pc EXCEPT ![r] = "commit"]
  /\ UNCHANGED <<next, table, answer, enqueued, faults>>

InsertAndEnqueue(r) ==
  /\ pc[r] = "insert"
  /\ ~MustWait(r)
  /\ \A q \in table : ~SameKey(r, q) /\ ~SamePlace(r, q)
  /\ inserted' = inserted \cup {r}
  /\ sequence' = [sequence EXCEPT ![r] = next[r]]
  /\ enqueued' = enqueued \cup {r}
  /\ pc' = [pc EXCEPT ![r] = "commit"]
  /\ UNCHANGED <<next, table, answer, faults>>

Insert(r) ==
  /\ pc[r] = "insert"
  /\ ~MustWait(r)
  /\ \A q \in table : ~SameKey(r, q) /\ ~SamePlace(r, q)
  /\ inserted' = inserted \cup {r}
  /\ sequence' = [sequence EXCEPT ![r] = next[r]]
  /\ pc' = [pc EXCEPT ![r] = "commit"]
  /\ UNCHANGED <<next, table, answer, enqueued, faults>>

(* A violated key: the transaction is rolled back and the winner is looked up. *)
(* A violated sequence is not the key's: submit rethrows it.                   *)
InsertViolates(r) ==
  /\ pc[r] = "insert"
  /\ ~MustWait(r)
  /\ \E q \in table : SameKey(r, q) \/ SamePlace(r, q)
  /\ pc' = [pc EXCEPT ![r] =
              IF \E q \in table : SameKey(r, q) THEN "resolve" ELSE "failed"]
  /\ UNCHANGED <<next, inserted, table, sequence, answer, enqueued, faults>>

Commit(r) ==
  /\ pc[r] = "commit"
  /\ inserted' = inserted \ {r}
  /\ table' = table \cup {r}
  /\ pc' = [pc EXCEPT ![r] = "enqueue"]
  /\ UNCHANGED <<next, sequence, answer, enqueued, faults>>

-----------------------------------------------------------------------------
(* After the transaction. *)

(* Mutant: the content of the two requests is not compared. *)
ResolveByKey(r) ==
  LET winners == {q \in table : SameKey(r, q)} IN
  /\ pc[r] = "resolve"
  /\ answer' = [answer EXCEPT ![r] = IF winners = {} THEN @ ELSE CHOOSE q \in winners : TRUE]
  /\ pc' = [pc EXCEPT ![r] = IF winners # {} THEN "enqueue" ELSE "failed"]
  /\ UNCHANGED <<next, inserted, table, sequence, enqueued, faults>>

(* resolveDuplicateSubmission: the key's event answers a repeated request; a   *)
(* request of other content is answered 409, before any enqueue.              *)
Resolve(r) ==
  LET winners == {q \in table : SameKey(r, q)}
      repeated == {q \in winners : BodyOf[q] = BodyOf[r]}
  IN /\ pc[r] = "resolve"
     /\ answer' = [answer EXCEPT ![r] = IF repeated = {} THEN @ ELSE CHOOSE q \in repeated : TRUE]
     /\ pc' = [pc EXCEPT ![r] = IF repeated # {} THEN "enqueue"
                                ELSE IF winners # {} THEN "conflict" ELSE "failed"]
     /\ UNCHANGED <<next, inserted, table, sequence, enqueued, faults>>

(* Mutant: the job is named after the idempotency key. *)
EnqueueByKey(r) ==
  /\ pc[r] = "enqueue"
  /\ enqueued' \in {enqueued, enqueued \cup {KeyOf[answer[r]]}}
  /\ pc' = [pc EXCEPT ![r] = IF answer[r] = r THEN "created" ELSE "deduplicated"]
  /\ UNCHANGED <<next, inserted, table, sequence, answer, faults>>

(* enqueueSafely: the queue is told or, with Redis down, only the log is; the *)
(* request is answered either way.                                            *)
EnqueueSafely(r) ==
  /\ pc[r] = "enqueue"
  /\ enqueued' \in {enqueued, enqueued \cup {answer[r]}}
  /\ pc' = [pc EXCEPT ![r] = IF answer[r] = r THEN "created" ELSE "deduplicated"]
  /\ UNCHANGED <<next, inserted, table, sequence, answer, faults>>

(* A statement fails or the transaction times out, which is answered 500, or   *)
(* the API process dies: an open transaction is rolled back.                  *)
Abort(r) ==
  /\ pc[r] \notin Ended
  /\ faults < MaxFaults
  /\ faults' = faults + 1
  /\ inserted' = inserted \ {r}
  /\ sequence' = [sequence EXCEPT ![r] = IF r \in table THEN @ ELSE 0]
  /\ pc' = [pc EXCEPT ![r] = "aborted"]
  /\ UNCHANGED <<next, table, answer, enqueued>>

RequestStep(r) ==
  \/ AcquireLock(r) \/ ReadMax(r) \/ Insert(r) \/ InsertViolates(r) \/ Commit(r)
  \/ Resolve(r) \/ EnqueueSafely(r)

Next == \E r \in Request : RequestStep(r) \/ Abort(r)

Spec == Init /\ [][Next]_vars

(* PostgreSQL answers each statement in the end, an API process that has not  *)
(* failed goes on with its requests, and the waiters for a lock are served in *)
(* turn, so none of them is passed over for ever.                             *)
Fairness == \A r \in Request : WF_vars(RequestStep(r)) /\ SF_vars(AcquireLock(r))

FairSpec == Spec /\ Fairness

-----------------------------------------------------------------------------
(* Properties.                                                               *)

(* The table, the locks, the queue and the requests have values of their      *)
(* types.                                                                     *)
TypeOK ==
  /\ pc \in [Request -> Step]
  /\ next \in [Request -> Nat]
  /\ inserted \subseteq Request
  /\ table \subseteq Request
  /\ sequence \in [Request -> Nat]
  /\ answer \in [Request -> Request]
  /\ enqueued \subseteq Request
  /\ faults \in 0..MaxFaults

(* The numbers of an employee's events are 1, 2, 3, ... without a gap, though *)
(* transactions that read a number may be rolled back before they use it.     *)
GaplessSequences ==
  \A emp \in Employee :
    {sequence[r] : r \in Rows(emp)} = 1..Cardinality(Rows(emp))

(* An employee's events become visible in the order of their numbers: no event *)
(* ever appears before one that a worker may already have claimed.             *)
CommitsInOrder ==
  [][\A r \in table' \ table, q \in table :
       EmployeeOf[q] = EmployeeOf[r] => sequence[q] < sequence'[r]]_vars

(* However many requests carry a key, at most one event has it. *)
OneEventPerKey == \A r, q \in table : SameKey(r, q) => r = q

(* Concurrency alone never makes a request fail: neither a taken sequence     *)
(* number nor a key whose row cannot be found.                                *)
NoInternalError == \A r \in Request : pc[r] # "failed"

(* A request is answered with a committed event of its own key and content,   *)
(* or told of a conflict when its key belongs to an event of other content.   *)
HonestReplies ==
  \A r \in Request :
    /\ pc[r] \in {"created", "deduplicated"} =>
         /\ answer[r] \in table
         /\ SameKey(r, answer[r])
         /\ BodyOf[r] = BodyOf[answer[r]]
    /\ pc[r] = "conflict" =>
         \E q \in table : SameKey(r, q) /\ BodyOf[q] # BodyOf[r]

(* Only an event whose row is committed is handed to the queue. *)
OnlyCommittedEnqueued == enqueued \subseteq table

(* No request waits for ever for a lock or for another's insert. *)
EveryRequestEnds == \A r \in Request : <>(pc[r] \in Ended)

(* A submission is the lifecycle's atomic Accept, at its commit. *)
Lifecycle ==
  INSTANCE EventLifecycle
    WITH Event <- Request,
         phase <- [r \in Request |-> IF r \in table THEN "PENDING" ELSE "NONE"],
         ahead <- [r \in Request |->
                     IF r \in table
                     THEN {q \in Rows(EmployeeOf[r]) : sequence[q] < sequence[r]}
                     ELSE {}]
ImplementsAccept == Lifecycle!LifecycleSpec
=============================================================================
