-------------------------- MODULE SubmissionProofs --------------------------
(***************************************************************************)
(* Proofs about Submission, for any number of requests, keys, employees    *)
(* and bodies, any hash of employees to locks, and any number of faults.   *)
(***************************************************************************)
EXTENDS Submission, Sequences, FiniteSetTheorems, TLAPS

(* The rest of EventProcessing, whose Submit this module is shown to implement: *)
(* its constants have no part in a submission and may be anything.             *)
CONSTANTS Worker, Sweeper, MaxAttempts, Answers, Overlap, MayExhaust, None

Steps(r) == RequestStep(r) \/ Abort(r)

-----------------------------------------------------------------------------
(* Type correctness. *)

LEMMA TypeStep ==
  ASSUME TypeOK, NEW r \in Request, Steps(r)
  PROVE  TypeOK'
<1> USE DEF TypeOK, Step, InTransaction, Ended, Replied
<1>1. CASE AcquireLock(r)
  BY <1>1 DEF AcquireLock
<1>2. CASE ReadMax(r)
  <2>1. PICK n \in {0} \cup {sequence[q] : q \in Rows(EmployeeOf[r])} :
          next' = [next EXCEPT ![r] = n + 1]
    BY <1>2 DEF ReadMax
  <2>2. n \in Nat
    BY <2>1 DEF Rows
  <2> QED BY <1>2, <2>1, <2>2 DEF ReadMax
<1>3. CASE Insert(r)
  BY <1>3 DEF Insert
<1>4. CASE InsertViolates(r)
  BY <1>4 DEF InsertViolates
<1>5. CASE Commit(r)
  BY <1>5 DEF Commit
<1>6. CASE Resolve(r)
  BY <1>6 DEF Resolve
<1>7. CASE EnqueueSafely(r)
  BY <1>7 DEF EnqueueSafely
<1>8. CASE Abort(r)
  BY <1>8, SubmissionAssumption DEF Abort
<1> QED BY <1>1, <1>2, <1>3, <1>4, <1>5, <1>6, <1>7, <1>8 DEF Steps, RequestStep

(* The table, the numbers, the queue and the requests are well typed. *)
THEOREM SubmissionTypeCorrect == Spec => []TypeOK
<1>1. Init => TypeOK
  BY SubmissionAssumption DEF Init, TypeOK, Step
<1>2. TypeOK /\ [Next]_vars => TypeOK'
  <2>1. ASSUME TypeOK, UNCHANGED vars PROVE TypeOK'
    BY <2>1 DEF TypeOK, vars
  <2> QED BY <2>1, TypeStep DEF Next, Steps
<1> QED BY <1>1, <1>2, PTL DEF Spec

-----------------------------------------------------------------------------
(* Rows and requests. *)

(* Only a transaction about to commit has an uncommitted row, and only a      *)
(* request that has committed has a row in the table.                         *)
RowsInv ==
  /\ \A r \in Request : r \in inserted <=> pc[r] = "commit"
  /\ \A r \in table : pc[r] \in {"enqueue", "created", "deduplicated", "aborted"}

LEMMA RowsStep ==
  ASSUME TypeOK, RowsInv, NEW r \in Request, Steps(r)
  PROVE  RowsInv'
<1> USE DEF TypeOK, RowsInv, Ended, Replied
<1>1. CASE AcquireLock(r)
  BY <1>1 DEF AcquireLock
<1>2. CASE ReadMax(r)
  BY <1>2 DEF ReadMax
<1>3. CASE Insert(r)
  BY <1>3 DEF Insert
<1>4. CASE InsertViolates(r)
  BY <1>4 DEF InsertViolates
<1>5. CASE Commit(r)
  BY <1>5 DEF Commit
<1>6. CASE Resolve(r)
  BY <1>6 DEF Resolve
<1>7. CASE EnqueueSafely(r)
  BY <1>7 DEF EnqueueSafely
<1>8. CASE Abort(r)
  BY <1>8 DEF Abort
<1> QED BY <1>1, <1>2, <1>3, <1>4, <1>5, <1>6, <1>7, <1>8 DEF Steps, RequestStep

(* The tables do not change, unless a row is inserted, committed or rolled back. *)
LEMMA TableSteps ==
  ASSUME NEW r \in Request, Steps(r)
  PROVE  \/ Insert(r) \/ Commit(r) \/ Abort(r)
         \/ UNCHANGED <<inserted, table, sequence>>
BY DEF Steps, RequestStep, AcquireLock, ReadMax, InsertViolates, Resolve, EnqueueSafely

-----------------------------------------------------------------------------
(* Keys. *)

(* A key has one row, committed or not. *)
KeyInv == \A r, q \in table \cup inserted : SameKey(r, q) => r = q

LEMMA KeyStep ==
  ASSUME RowsInv, KeyInv, NEW r \in Request, Steps(r)
  PROVE  KeyInv'
<1>1. CASE Insert(r)
  BY <1>1 DEF Insert, KeyInv, SameKey, MustWait
<1>2. CASE Commit(r)
  <2>1. r \in inserted
    BY <1>2 DEF Commit, RowsInv
  <2>2. table' \cup inserted' = table \cup inserted
    BY <1>2, <2>1 DEF Commit
  <2> QED BY <2>2 DEF KeyInv, SameKey
<1>3. CASE Abort(r)
  BY <1>3 DEF Abort, KeyInv, SameKey
<1>4. CASE UNCHANGED <<inserted, table, sequence>>
  BY <1>4 DEF KeyInv, SameKey
<1> QED BY <1>1, <1>2, <1>3, <1>4, TableSteps

-----------------------------------------------------------------------------
(* Numbers. *)

Last(emp) == Cardinality(Rows(emp))

(* One transaction at a time holds an advisory lock. *)
OneHolder ==
  \A r, q \in Request :
    (pc[r] \in InTransaction /\ pc[q] \in InTransaction /\ Lock(r) = Lock(q)) => r = q

(* What a transaction has read is still right when it inserts and commits. *)
NumberFree ==
  \A r \in Request :
    /\ pc[r] = "insert" => next[r] = Last(EmployeeOf[r]) + 1
    /\ pc[r] = "commit" => sequence[r] = Last(EmployeeOf[r]) + 1

NumbersInv == OneHolder /\ NumberFree /\ GaplessSequences

LEMMA HolderStep ==
  ASSUME TypeOK, OneHolder, NEW r \in Request, Steps(r)
  PROVE  OneHolder'
<1>1. CASE AcquireLock(r)
  BY <1>1 DEF AcquireLock, Holders, OneHolder, Lock, TypeOK
<1>2. CASE ~AcquireLock(r)
  <2>1. pc[r] \in InTransaction \/ pc'[r] \notin InTransaction
    BY <1>2 DEF Steps, RequestStep, ReadMax, Insert, InsertViolates, Commit, Resolve,
       EnqueueSafely, Abort, InTransaction, TypeOK, Ended, Replied
  <2>2. \A q \in Request : q # r => pc'[q] = pc[q]
    BY <1>2 DEF Steps, RequestStep, ReadMax, Insert, InsertViolates, Commit, Resolve,
       EnqueueSafely, Abort, TypeOK
  <2> QED BY <2>1, <2>2 DEF OneHolder, Lock
<1> QED BY <1>1, <1>2

LEMMA RowsFinite ==
  ASSUME TypeOK, NEW emp
  PROVE  IsFiniteSet(Rows(emp)) /\ Last(emp) \in Nat
<1>1. Rows(emp) \in SUBSET Request
  BY DEF Rows, TypeOK
<1> QED BY <1>1, SubmissionAssumption, FS_Subset, FS_CardinalityType DEF Last

(* The numbers of the employee's rows are those up to the last. *)
LEMMA NumbersUpToLast ==
  ASSUME TypeOK, GaplessSequences, NEW emp \in Employee
  PROVE  /\ \A q \in Rows(emp) : sequence[q] \in 1..Last(emp)
         /\ Last(emp) # 0 => \E q \in Rows(emp) : sequence[q] = Last(emp)
<1>1. {sequence[q] : q \in Rows(emp)} = 1..Last(emp)
  BY DEF GaplessSequences, Last
<1>2. Last(emp) # 0 => Last(emp) \in 1..Last(emp)
  BY RowsFinite
<1> QED BY <1>1, <1>2

(* The number read under the lock is the one after the last. *)
LEMMA ReadsLast ==
  ASSUME TypeOK, GaplessSequences, NEW r \in Request, ReadMax(r)
  PROVE  next' = [next EXCEPT ![r] = Last(EmployeeOf[r]) + 1]
<1> DEFINE emp == EmployeeOf[r]
<1>1. emp \in Employee
  BY SubmissionAssumption
<1>2. PICK n \in {0} \cup {sequence[q] : q \in Rows(emp)} :
        /\ \A q \in Rows(emp) : sequence[q] <= n
        /\ next' = [next EXCEPT ![r] = n + 1]
  BY DEF ReadMax
<1>3. n \in 0..Last(emp)
  BY <1>1, <1>2, NumbersUpToLast, RowsFinite
<1>4. Last(emp) # 0 => Last(emp) <= n
  BY <1>1, <1>2, NumbersUpToLast
<1>5. n = Last(emp)
  BY <1>3, <1>4, RowsFinite
<1> QED BY <1>2, <1>5

(* A commit adds the next number to those of its employee. *)
LEMMA CommitNumbers ==
  ASSUME TypeOK, RowsInv, NumbersInv, NEW r \in Request, Commit(r)
  PROVE  /\ GaplessSequences'
         /\ \A emp \in Employee : emp # EmployeeOf[r] => Rows(emp)' = Rows(emp)
<1> DEFINE own == EmployeeOf[r]
<1>1. own \in Employee /\ r \notin table /\ sequence' = sequence
  BY SubmissionAssumption DEF Commit, RowsInv
<1>2. Rows(own)' = Rows(own) \cup {r} /\ r \notin Rows(own)
  BY <1>1 DEF Commit, Rows
<1>3. \A emp \in Employee : emp # own => Rows(emp)' = Rows(emp)
  BY DEF Commit, Rows
<1>4. sequence[r] = Last(own) + 1
  BY DEF Commit, NumbersInv, NumberFree
<1>5. Cardinality(Rows(own)') = Last(own) + 1
  BY <1>2, RowsFinite, FS_AddElement DEF Last
<1>6. {sequence[q] : q \in Rows(own)} = 1..Last(own)
  BY <1>1 DEF NumbersInv, GaplessSequences, Last
<1>7. {sequence'[q] : q \in Rows(own)'} = {sequence[q] : q \in Rows(own)} \cup {Last(own) + 1}
  BY <1>1, <1>2, <1>4
<1>8. 1..(Last(own) + 1) = 1..Last(own) \cup {Last(own) + 1}
  BY RowsFinite
<1>9. {sequence'[q] : q \in Rows(own)'} = 1..Cardinality(Rows(own)')
  BY <1>5, <1>6, <1>7, <1>8
<1>10. ASSUME NEW emp \in Employee
       PROVE  {sequence'[q] : q \in Rows(emp)'} = 1..Cardinality(Rows(emp)')
  <2>1. CASE emp = own
    BY <1>9, <2>1
  <2>2. CASE emp # own
    BY <1>1, <1>3, <2>2 DEF NumbersInv, GaplessSequences
  <2> QED BY <2>1, <2>2
<1> QED BY <1>3, <1>10 DEF GaplessSequences

(* What is not committed changes no employee's numbers. *)
LEMMA SameNumbers ==
  ASSUME GaplessSequences, table' = table, \A q \in table : sequence'[q] = sequence[q]
  PROVE  GaplessSequences' /\ \A emp : Last(emp)' = Last(emp)
<1>1. \A emp : Rows(emp)' = Rows(emp)
  BY DEF Rows
<1>2. \A emp : \A q \in Rows(emp) : sequence'[q] = sequence[q]
  BY DEF Rows
<1>3. \A emp : {sequence'[q] : q \in Rows(emp)'} = {sequence[q] : q \in Rows(emp)}
  BY <1>1, <1>2
<1> QED BY <1>1, <1>3 DEF GaplessSequences, Last

LEMMA NumbersStep ==
  ASSUME TypeOK, RowsInv, NumbersInv, NEW r \in Request, Steps(r)
  PROVE  NumbersInv'
<1>1. OneHolder'
  BY HolderStep DEF NumbersInv
<1>2. r \notin table => \A q \in table : q # r
  OBVIOUS
<1>3. CASE ReadMax(r)
  <2>1. next' = [next EXCEPT ![r] = Last(EmployeeOf[r]) + 1]
    BY <1>3, ReadsLast DEF NumbersInv
  <2>2. GaplessSequences' /\ \A emp : Last(emp)' = Last(emp)
    BY <1>3, SameNumbers DEF ReadMax, NumbersInv
  <2>3. NumberFree'
    BY <1>3, <2>1, <2>2 DEF ReadMax, NumbersInv, NumberFree, TypeOK
  <2> QED BY <1>1, <2>2, <2>3 DEF NumbersInv
<1>4. CASE Insert(r)
  <2>1. r \notin table
    BY <1>4 DEF Insert, RowsInv
  <2>2. GaplessSequences' /\ \A emp : Last(emp)' = Last(emp)
    BY <1>4, <2>1, SameNumbers DEF Insert, NumbersInv, TypeOK
  <2>3. NumberFree'
    BY <1>4, <2>2 DEF Insert, NumbersInv, NumberFree, TypeOK
  <2> QED BY <1>1, <2>2, <2>3 DEF NumbersInv
<1>5. CASE Commit(r)
  <2>1. GaplessSequences'
    BY <1>5, CommitNumbers
  <2>2. ASSUME NEW q \in Request, pc'[q] \in {"insert", "commit"}
        PROVE  /\ q # r /\ pc[q] = pc'[q]
               /\ Last(EmployeeOf[q])' = Last(EmployeeOf[q])
    <3>1. q # r /\ pc[q] = pc'[q]
      BY <1>5, <2>2 DEF Commit, TypeOK
    <3>2. EmployeeOf[q] # EmployeeOf[r]
      BY <1>5, <2>2, <3>1 DEF Commit, NumbersInv, OneHolder, InTransaction, Lock
    <3>3. Rows(EmployeeOf[q])' = Rows(EmployeeOf[q])
      BY <1>5, <3>2, CommitNumbers, SubmissionAssumption
    <3> QED BY <3>1, <3>3 DEF Last
  <2>3. NumberFree'
    BY <1>5, <2>2 DEF Commit, NumbersInv, NumberFree
  <2> QED BY <1>1, <2>1, <2>3 DEF NumbersInv
<1>6. CASE Abort(r)
  <2>1. GaplessSequences' /\ \A emp : Last(emp)' = Last(emp)
    BY <1>6, SameNumbers DEF Abort, NumbersInv, TypeOK
  <2>2. NumberFree'
    BY <1>6, <2>1 DEF Abort, NumbersInv, NumberFree, TypeOK
  <2> QED BY <1>1, <2>1, <2>2 DEF NumbersInv
<1>7. CASE AcquireLock(r) \/ InsertViolates(r) \/ Resolve(r) \/ EnqueueSafely(r)
  <2>1. GaplessSequences' /\ \A emp : Last(emp)' = Last(emp)
    BY <1>7, SameNumbers
       DEF AcquireLock, InsertViolates, Resolve, EnqueueSafely, NumbersInv
  <2>2. NumberFree'
    BY <1>7, <2>1 DEF AcquireLock, InsertViolates, Resolve, EnqueueSafely, NumbersInv,
       NumberFree, TypeOK
  <2> QED BY <1>1, <2>1, <2>2 DEF NumbersInv
<1> QED BY <1>3, <1>4, <1>5, <1>6, <1>7 DEF Steps, RequestStep

-----------------------------------------------------------------------------
(* Answers. *)

(* What a request has been resolved to, and that a duplicate has a winner. *)
AnswerInv ==
  \A r \in Request :
    /\ pc[r] \in {"enqueue", "created", "deduplicated"} =>
         answer[r] \in table /\ SameKey(r, answer[r]) /\ BodyOf[r] = BodyOf[answer[r]]
    /\ pc[r] \in {"lock"} \cup InTransaction => answer[r] = r
    /\ pc[r] = "resolve" => \E q \in table : SameKey(r, q)
    /\ pc[r] = "conflict" => \E q \in table : SameKey(r, q) /\ BodyOf[q] # BodyOf[r]
    /\ pc[r] # "failed"

LEMMA AnswerStep ==
  ASSUME TypeOK, NumbersInv, AnswerInv, NEW r \in Request, Steps(r)
  PROVE  AnswerInv'
<1> USE DEF TypeOK, InTransaction, SameKey
<1>1. CASE AcquireLock(r) \/ ReadMax(r) \/ Insert(r) \/ EnqueueSafely(r) \/ Abort(r)
  BY <1>1 DEF AnswerInv, AcquireLock, ReadMax, Insert, EnqueueSafely, Abort
<1>2. CASE InsertViolates(r)
  <2>1. \A q \in table : ~SamePlace(r, q)
    <3>1. ASSUME NEW q \in table, EmployeeOf[r] = EmployeeOf[q]
          PROVE  sequence[q] # next[r]
      <4>1. q \in Rows(EmployeeOf[r]) /\ EmployeeOf[r] \in Employee
        BY <3>1, SubmissionAssumption DEF Rows
      <4>2. sequence[q] \in 1..Last(EmployeeOf[r])
        BY <4>1, NumbersUpToLast DEF NumbersInv
      <4>3. next[r] = Last(EmployeeOf[r]) + 1
        BY <1>2 DEF InsertViolates, NumbersInv, NumberFree
      <4> QED BY <4>2, <4>3, RowsFinite
    <3> QED BY <3>1 DEF SamePlace
  <2>2. \E q \in table : SameKey(r, q)
    BY <1>2, <2>1 DEF InsertViolates
  <2> QED BY <1>2, <2>2 DEF AnswerInv, InsertViolates
<1>3. CASE Commit(r)
  BY <1>3 DEF AnswerInv, Commit
<1>4. CASE Resolve(r)
  <2> DEFINE winners == {q \in table : SameKey(r, q)}
             repeated == {q \in winners : BodyOf[q] = BodyOf[r]}
  <2>1. winners # {}
    BY <1>4 DEF Resolve, AnswerInv
  <2>2. CASE repeated # {}
    <3>1. answer'[r] \in repeated /\ pc' = [pc EXCEPT ![r] = "enqueue"]
      BY <1>4, <2>2 DEF Resolve
    <3> QED BY <1>4, <3>1 DEF Resolve, AnswerInv
  <2>3. CASE repeated = {}
    <3>1. answer' = answer /\ pc' = [pc EXCEPT ![r] = "conflict"]
      BY <1>4, <2>1, <2>3 DEF Resolve
    <3>2. \E q \in table : SameKey(r, q) /\ BodyOf[q] # BodyOf[r]
      BY <2>1, <2>3
    <3> QED BY <1>4, <3>1, <3>2 DEF Resolve, AnswerInv
  <2> QED BY <2>2, <2>3
<1> QED BY <1>1, <1>2, <1>3, <1>4 DEF Steps, RequestStep

LEMMA EnqueuedStep ==
  ASSUME AnswerInv, OnlyCommittedEnqueued, NEW r \in Request, Steps(r)
  PROVE  OnlyCommittedEnqueued'
BY DEF AnswerInv, OnlyCommittedEnqueued, Steps, RequestStep, AcquireLock, ReadMax, Insert,
   InsertViolates, Commit, Resolve, EnqueueSafely, Abort

-----------------------------------------------------------------------------
(* The results. *)

SubmissionInv ==
  TypeOK /\ RowsInv /\ KeyInv /\ NumbersInv /\ AnswerInv /\ OnlyCommittedEnqueued

LEMMA InvariantStep ==
  ASSUME SubmissionInv, [Next]_vars
  PROVE  SubmissionInv'
<1>1. CASE UNCHANGED vars
  <2>1. TypeOK' /\ RowsInv' /\ KeyInv' /\ AnswerInv' /\ OnlyCommittedEnqueued'
    BY <1>1 DEF SubmissionInv, TypeOK, RowsInv, KeyInv, AnswerInv, OnlyCommittedEnqueued,
       vars, SameKey
  <2>2. OneHolder'
    BY <1>1 DEF SubmissionInv, NumbersInv, OneHolder, vars, Lock
  <2>3. GaplessSequences' /\ \A emp : Last(emp)' = Last(emp)
    BY <1>1, SameNumbers DEF SubmissionInv, NumbersInv, vars
  <2>4. NumberFree'
    BY <1>1, <2>3 DEF SubmissionInv, NumbersInv, NumberFree, vars
  <2> QED BY <2>1, <2>2, <2>3, <2>4 DEF SubmissionInv, NumbersInv
<1>2. CASE Next
  <2>1. PICK r \in Request : Steps(r)
    BY <1>2 DEF Next, Steps
  <2> QED BY <2>1, TypeStep, RowsStep, KeyStep, NumbersStep, AnswerStep, EnqueuedStep
          DEF SubmissionInv
<1> QED BY <1>1, <1>2

(* The inductive invariant: what holds of every reachable state. *)
THEOREM SubmissionIsSound == Spec => []SubmissionInv
<1>1. Init => SubmissionInv
  <2> SUFFICES ASSUME Init PROVE SubmissionInv
    OBVIOUS
  <2>1. TypeOK
    BY SubmissionAssumption DEF Init, TypeOK, Step
  <2>2. RowsInv /\ KeyInv /\ AnswerInv /\ OnlyCommittedEnqueued
    BY DEF Init, RowsInv, KeyInv, AnswerInv, OnlyCommittedEnqueued
  <2>3. OneHolder /\ NumberFree
    BY DEF Init, OneHolder, NumberFree, InTransaction
  <2>4. ASSUME NEW emp \in Employee
        PROVE  {sequence[q] : q \in Rows(emp)} = 1..Cardinality(Rows(emp))
    <3>1. Rows(emp) = {}
      BY DEF Init, Rows
    <3>2. Cardinality(Rows(emp)) = 0
      BY <3>1, FS_EmptySet
    <3> QED BY <3>1, <3>2
  <2> QED BY <2>1, <2>2, <2>3, <2>4 DEF SubmissionInv, NumbersInv, GaplessSequences
<1>2. SubmissionInv /\ [Next]_vars => SubmissionInv'
  BY InvariantStep
<1> QED BY <1>1, <1>2, PTL DEF Spec

(* An employee's events are numbered 1, 2, 3, ... whatever transactions of the *)
(* employee, or of another one on the same advisory lock, are rolled back.     *)
THEOREM NumbersAreGapless == Spec => []GaplessSequences
<1>1. SubmissionInv => GaplessSequences
  BY DEF SubmissionInv, NumbersInv
<1> QED BY <1>1, SubmissionIsSound, PTL

(* Of all requests with one idempotency key, one at most creates an event. *)
THEOREM KeysAreUnique == Spec => []OneEventPerKey
<1>1. SubmissionInv => OneEventPerKey
  BY DEF SubmissionInv, KeyInv, OneEventPerKey
<1> QED BY <1>1, SubmissionIsSound, PTL

(* No request fails for another's sake: the number it has read is free at its *)
(* insert, and the row that took its key is found.                            *)
THEOREM ConcurrencyIsHarmless == Spec => []NoInternalError
<1>1. SubmissionInv => NoInternalError
  BY DEF SubmissionInv, AnswerInv, NoInternalError
<1> QED BY <1>1, SubmissionIsSound, PTL

(* The event a request is answered with is committed and has its key and      *)
(* content; a conflict is reported only if there is one.                      *)
THEOREM RepliesAreHonest == Spec => []HonestReplies
<1>1. SubmissionInv => HonestReplies
  BY DEF SubmissionInv, AnswerInv, HonestReplies
<1> QED BY <1>1, SubmissionIsSound, PTL

(* enqueueSafely comes after the commit: the queue never names an event that  *)
(* was rolled back.                                                           *)
THEOREM EnqueuesAreCommitted == Spec => []OnlyCommittedEnqueued
<1>1. SubmissionInv => OnlyCommittedEnqueued
  BY DEF SubmissionInv
<1> QED BY <1>1, SubmissionIsSound, PTL

-----------------------------------------------------------------------------
(* The order of commits. *)

(* Committed rows keep their numbers, and a row that appears has the highest. *)
LEMMA CommitIsLast ==
  ASSUME SubmissionInv, NEW r \in Request, Steps(r)
  PROVE  \/ UNCHANGED table /\ \A q \in table : sequence'[q] = sequence[q]
         \/ /\ Commit(r) /\ r \notin table /\ sequence' = sequence
            /\ \A q \in Rows(EmployeeOf[r]) : sequence[q] < sequence[r]
<1>1. CASE Insert(r)
  BY <1>1 DEF Insert, SubmissionInv, RowsInv, TypeOK
<1>2. CASE Commit(r)
  <2>1. r \notin table /\ sequence' = sequence
    BY <1>2 DEF Commit, SubmissionInv, RowsInv
  <2>2. sequence[r] = Last(EmployeeOf[r]) + 1
    BY <1>2 DEF Commit, SubmissionInv, NumbersInv, NumberFree
  <2>3. \A q \in Rows(EmployeeOf[r]) : sequence[q] \in 1..Last(EmployeeOf[r])
    BY NumbersUpToLast, SubmissionAssumption DEF SubmissionInv, NumbersInv
  <2>4. Last(EmployeeOf[r]) \in Nat
    BY RowsFinite DEF SubmissionInv
  <2>5. \A q \in Rows(EmployeeOf[r]) : sequence[q] < sequence[r]
    BY <2>2, <2>3, <2>4
  <2> QED BY <1>2, <2>1, <2>5
<1>3. CASE Abort(r)
  BY <1>3 DEF Abort, SubmissionInv, TypeOK
<1>4. CASE UNCHANGED <<inserted, table, sequence>>
  BY <1>4
<1> QED BY <1>1, <1>2, <1>3, <1>4, TableSteps

(* No event ever appears before one of its employee that is there already: a  *)
(* worker that has seen all earlier events end never misses one.              *)
THEOREM CommitsAreInOrder == Spec => CommitsInOrder
<1>1. ASSUME SubmissionInv, [Next]_vars
      PROVE  [\A r \in table' \ table, q \in table :
                EmployeeOf[q] = EmployeeOf[r] => sequence[q] < sequence'[r]]_vars
  <2>1. CASE UNCHANGED vars
    BY <2>1
  <2>2. ASSUME NEW s \in Request, Steps(s)
        PROVE  \A r \in table' \ table, q \in table :
                 EmployeeOf[q] = EmployeeOf[r] => sequence[q] < sequence'[r]
    BY <1>1, <2>2, CommitIsLast DEF Commit, Rows
  <2> QED BY <1>1, <2>1, <2>2 DEF Next, Steps
<1> QED BY <1>1, SubmissionIsSound, PTL DEF Spec, CommitsInOrder

-----------------------------------------------------------------------------
(* Refinement. *)

Ahead(r) ==
  IF r \in table THEN {q \in Rows(EmployeeOf[r]) : sequence[q] < sequence[r]} ELSE {}

Phase(r) == IF r \in table THEN "PENDING" ELSE "NONE"

LEMMA StepRefines ==
  ASSUME SubmissionInv, NEW r \in Request, Steps(r)
  PROVE  Lifecycle!LifecycleNext \/ UNCHANGED Lifecycle!lifecycleVars
<1>1. CASE UNCHANGED table /\ \A q \in table : sequence'[q] = sequence[q]
  <2>1. \A e \in Request : Ahead(e)' = Ahead(e) /\ Phase(e)' = Phase(e)
    BY <1>1 DEF Ahead, Phase, Rows
  <2>2. UNCHANGED Lifecycle!lifecycleVars
    BY <2>1 DEF Ahead, Phase, Lifecycle!lifecycleVars
  <2> QED BY <2>2
<1>2. CASE /\ Commit(r) /\ r \notin table /\ sequence' = sequence
           /\ \A q \in Rows(EmployeeOf[r]) : sequence[q] < sequence[r]
  <2>1. table' = table \cup {r} /\ table \subseteq Request
    BY <1>2 DEF Commit, SubmissionInv, TypeOK
  <2>2. \A q \in table : sequence[q] \in Nat
    BY DEF SubmissionInv, TypeOK
  <2>3. sequence[r] \in Nat
    BY DEF SubmissionInv, TypeOK
  <2>4. Ahead(r)' = {f \in Request : Phase(f) # "NONE" /\ EmployeeOf[f] = EmployeeOf[r]}
    BY <1>2, <2>1, <2>3 DEF Ahead, Phase, Rows
  <2>5. ASSUME NEW e \in Request, e # r
        PROVE  Ahead(e)' = Ahead(e)
    BY <1>2, <2>1, <2>2, <2>3, <2>5 DEF Ahead, Rows
  <2>6. Phase(r) = "NONE" /\ Phase(r)' = "PENDING"
    BY <1>2, <2>1 DEF Phase
  <2>7. \A e \in Request : e # r => Phase(e)' = Phase(e)
    BY <2>1 DEF Phase
  <2>8. Lifecycle!Accept(r)
    BY <2>4, <2>5, <2>6, <2>7 DEF Lifecycle!Accept, Ahead, Phase
  <2> QED BY <2>8 DEF Lifecycle!LifecycleNext
<1> QED BY <1>1, <1>2, CommitIsLast

(* A submission is the lifecycle's Accept, at its commit: the many steps of   *)
(* the transaction, its retries and rollbacks are not to be seen from outside. *)
THEOREM SubmissionImplementsAccept == Spec => ImplementsAccept
<1>1. Init => Lifecycle!LifecycleInit
  BY DEF Init, Lifecycle!LifecycleInit
<1>2. SubmissionInv /\ [Next]_vars
        => [Lifecycle!LifecycleNext]_(Lifecycle!lifecycleVars)
  <2> SUFFICES ASSUME SubmissionInv, [Next]_vars
               PROVE  Lifecycle!LifecycleNext \/ UNCHANGED Lifecycle!lifecycleVars
    OBVIOUS
  <2>1. CASE UNCHANGED vars
    BY <2>1 DEF vars, Lifecycle!lifecycleVars, Rows
  <2>2. CASE Next
    BY <2>2, StepRefines DEF Next, Steps
  <2> QED BY <2>1, <2>2
<1> QED BY <1>1, <1>2, SubmissionIsSound, PTL
        DEF Spec, ImplementsAccept, Lifecycle!LifecycleSpec

-----------------------------------------------------------------------------
(* The same rows as the processing sees them: each transaction is the one step *)
(* Submit of EventProcessing, at its commit.                                  *)

Created == [from |-> "NULL", to |-> "PENDING", attempt |-> 0]

Trail(r) == IF r \in table THEN <<Created>> ELSE <<>>

Number(r) == IF r \in table THEN sequence[r] ELSE 0

(* Seen from the processing: a row is there once it is committed, PENDING and  *)
(* with the history its transaction wrote; no worker or sweep has begun.       *)
Processing ==
  INSTANCE EventProcessing
    WITH Event <- Request,
         status <- [r \in Request |-> Phase(r)],
         sequence <- [r \in Request |-> Number(r)],
         attempts <- [r \in Request |-> 0],
         failureType <- [r \in Request |-> "NULL"],
         result <- [r \in Request |-> FALSE],
         stale <- [r \in Request |-> FALSE],
         history <- [r \in Request |-> Trail(r)],
         worker <- [w \in Worker |->
                      [pc |-> "idle", event |-> None, attempt |-> 0, answer |-> "none"]],
         sweep <- [s \in Sweeper |->
                     [pc |-> "idle", event |-> None, attempt |-> 0, todo |-> {}]],
         backstop <- {}

(* The number under the lock is that of the employee's highest row, or 0.       *)
LEMMA HighestIsLast ==
  ASSUME SubmissionInv, NEW r \in Request, pc[r] = "commit"
  PROVE  \E f \in Request : Processing!HasMaxSequence(f, r) /\ Number(f) = Last(EmployeeOf[r])
<1> DEFINE own == EmployeeOf[r]
<1>1. own \in Employee /\ r \notin table /\ table \subseteq Request
  BY SubmissionAssumption DEF SubmissionInv, RowsInv, TypeOK
<1>2. TypeOK /\ GaplessSequences
  BY DEF SubmissionInv, NumbersInv
<1>3. Last(own) \in Nat
  BY <1>1, <1>2, RowsFinite
<1>4. \A q \in Rows(own) : sequence[q] \in 1..Last(own)
  BY <1>1, <1>2, NumbersUpToLast
<1>5. \A g \in Request : EmployeeOf[g] = own => Number(g) <= Last(own)
  BY <1>3, <1>4 DEF Number, Rows
<1>6. PICK f \in Request : EmployeeOf[f] = own /\ Number(f) = Last(own)
  <2>1. CASE Last(own) = 0
    BY <1>1, <2>1 DEF Number
  <2>2. CASE Last(own) # 0
    <3>1. PICK q \in Rows(own) : sequence[q] = Last(own)
      BY <1>1, <1>2, <2>2, NumbersUpToLast
    <3> QED BY <1>1, <3>1 DEF Number, Rows
  <2> QED BY <2>1, <2>2
<1>7. Processing!HasMaxSequence(f, r)
  BY <1>5, <1>6 DEF Processing!HasMaxSequence, Processing!Siblings
<1> QED BY <1>6, <1>7

(* A commit is the atomic submission of the processing's table.                *)
LEMMA CommitSubmits ==
  ASSUME SubmissionInv, NEW r \in Request, Commit(r)
  PROVE  Processing!Submit(r)
<1>1. r \notin table /\ sequence' = sequence /\ table' = table \cup {r} /\ pc[r] = "commit"
  BY DEF Commit, SubmissionInv, RowsInv
<1>2. sequence[r] = Last(EmployeeOf[r]) + 1
  BY <1>1 DEF SubmissionInv, NumbersInv, NumberFree
<1>3. PICK f \in Request :
        Processing!HasMaxSequence(f, r) /\ Number(f) = Last(EmployeeOf[r])
  BY <1>1, HighestIsLast
<1>4. \A e \in Request : e # r =>
        Phase(e)' = Phase(e) /\ Number(e)' = Number(e) /\ Trail(e)' = Trail(e)
  BY <1>1 DEF Phase, Number, Trail
<1>5. /\ Phase(r) = "NONE" /\ Phase(r)' = "PENDING"
      /\ Number(r)' = Number(f) + 1
      /\ Trail(r) = <<>> /\ Trail(r)' = Append(<<>>, Created)
  BY <1>1, <1>2, <1>3 DEF Phase, Number, Trail
<1>6. [e \in Request |-> Number(e)]' =
        [[e \in Request |-> Number(e)] EXCEPT ![r] = [e \in Request |-> Number(e)][f] + 1]
  BY <1>4, <1>5
<1>7. [e \in Request |-> Phase(e)]' = [[e \in Request |-> Phase(e)] EXCEPT ![r] = "PENDING"]
  BY <1>4, <1>5
<1>8. [e \in Request |-> Trail(e)]' =
        [[e \in Request |-> Trail(e)] EXCEPT ![r] = Append(@, Created)]
  BY <1>4, <1>5
<1>9. Processing!AppendHistory(r, "NULL", "PENDING", 0)
  BY <1>8 DEF Processing!AppendHistory, Created
<1>10. Processing!InsertRow(r)
  BY <1>3, <1>5, <1>6, <1>7, <1>9 DEF Processing!InsertRow
<1> QED BY <1>10 DEF Processing!Submit

(* The processing sees nothing of a transaction before its commit.             *)
LEMMA OthersUnseen ==
  ASSUME SubmissionInv, UNCHANGED table, \A q \in table : sequence'[q] = sequence[q]
  PROVE  UNCHANGED Processing!vars
<1>1. \A e \in Request : Phase(e)' = Phase(e) /\ Number(e)' = Number(e) /\ Trail(e)' = Trail(e)
  BY DEF Phase, Number, Trail
<1> QED BY <1>1 DEF Processing!vars, Processing!db

(* EventProcessing and the modules above it may take submit for one step that  *)
(* numbers the row, inserts it and starts its history: locks, waits, duplicate *)
(* keys, rollbacks and dying processes never show in the committed rows.       *)
THEOREM SubmissionImplementsSubmit ==
  Spec => /\ Processing!Spec
          /\ [][\E r \in Request : Processing!Submit(r)]_(Processing!vars)
<1>1. Init => Processing!Init
  BY DEF Init, Processing!Init, Processing!IdleWorker, Processing!IdleSweep, Phase, Number, Trail
<1>2. SubmissionInv /\ [Next]_vars
        => [\E r \in Request : Processing!Submit(r)]_(Processing!vars)
  <2> SUFFICES ASSUME SubmissionInv, [Next]_vars
               PROVE  (\E r \in Request : Processing!Submit(r)) \/ UNCHANGED Processing!vars
    OBVIOUS
  <2>1. CASE UNCHANGED vars
    BY <2>1, OthersUnseen DEF vars
  <2>2. ASSUME NEW r \in Request, Steps(r)
        PROVE  Processing!Submit(r) \/ UNCHANGED Processing!vars
    BY <2>2, CommitIsLast, CommitSubmits, OthersUnseen
  <2> QED BY <2>1, <2>2 DEF Next, Steps
<1>3. [\E r \in Request : Processing!Submit(r)]_(Processing!vars)
        => [Processing!Next]_(Processing!vars)
  BY DEF Processing!Next, Processing!EventStep
<1> QED BY <1>1, <1>2, <1>3, SubmissionIsSound, PTL DEF Spec, Processing!Spec
=============================================================================
