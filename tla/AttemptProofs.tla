---------------------------- MODULE AttemptProofs ----------------------------
(***************************************************************************)
(* Proofs about attempts and the retry budget.  Whatever the timing, calls *)
(* hold attempts of their own.  With one sweep pass at a time and calls    *)
(* that end before the staleness threshold, no attempt is taken for        *)
(* another's, and the budget is kept.                                      *)
(***************************************************************************)
EXTENDS EventProcessingProofs, FiniteSetTheorems

-----------------------------------------------------------------------------
(* What the steps do to calls and passes. *)

(* A call that is in flight after a step was so before, for the same event and *)
(* attempt, or has just claimed.                                              *)
LEMMA FlightStep ==
  ASSUME TypeOK, Next, NEW w \in Worker, NEW e \in Event, InFlight(w, e)'
  PROVE  \/ InFlight(w, e) /\ worker'[w].attempt = worker[w].attempt
         \/ Claim(w) /\ worker[w].event = e /\ worker'[w].attempt = attempts[e] + 1
<1> USE DEF TypeOK, InFlight, CallAt, Become, IdleWorker
<1>1. CASE worker'[w] = worker[w]
  BY <1>1
<1>2. ASSUME NEW v \in Worker, WorkerStep(v), worker'[w] # worker[w]
      PROVE  \/ InFlight(w, e) /\ worker'[w].attempt = worker[w].attempt
             \/ Claim(w) /\ worker[w].event = e /\ worker'[w].attempt = attempts[e] + 1
  <2>1. v = w
    BY <1>2 DEF WorkerStep, ReceiveJob, Claim, ClaimMiss, Diagnose, ProviderAnswers,
       Finalize, FinalizeAs, Throw, Acknowledge, Crash, Return
  <2>2. CASE Claim(w)
    <3>1. worker'[w] = CallAt("provider", worker[w].event, attempts'[worker[w].event], "none")
      BY <2>2 DEF Claim
    <3>2. worker[w].event = e
      BY <3>1
    <3>3. attempts'[e] = attempts[e] + 1
      BY <2>2, <3>2 DEF Claim, ClaimRow
    <3> QED BY <2>2, <3>1, <3>2, <3>3
  <2>3. CASE ProviderAnswers(w)
    BY <2>3 DEF ProviderAnswers
  <2>4. CASE \/ \E f \in Event : ReceiveJob(w, f)
             \/ ClaimMiss(w) \/ Diagnose(w) \/ Finalize(w)
             \/ Throw(w) \/ Acknowledge(w) \/ Crash(w)
    BY <2>4 DEF ReceiveJob, ClaimMiss, Diagnose, Finalize, FinalizeAs, Throw, Acknowledge,
       Crash, Return
  <2> QED BY <1>2, <2>1, <2>2, <2>3, <2>4 DEF WorkerStep
<1>3. ASSUME NEW s \in Sweeper, SweepStep(s)
      PROVE  UNCHANGED worker
  BY <1>3 DEF SweepStep, SweepSelect, SweepRead, SweepRecover, SweepEnqueue, SweepThrow,
     SweepCrash
<1>4. ASSUME NEW f \in Event, EventStep(f)
      PROVE  UNCHANGED worker
  BY <1>4 DEF EventStep, Submit, BecomeStale, BackstopRead, BackstopFinalize, BackstopLost
<1> QED BY <1>1, <1>2, <1>3, <1>4 DEF Next

-----------------------------------------------------------------------------
(* Attempts of their own. *)

LEMMA AttemptsGrow ==
  ASSUME TypeOK, Next, NEW e \in Event
  PROVE  attempts'[e] \in Nat /\ attempts[e] <= attempts'[e]
<1>1. CASE UNCHANGED db
  BY <1>1 DEF db, TypeOK
<1>2. ASSUME NEW f \in Event, RowStep(f)
      PROVE  attempts'[e] \in Nat /\ attempts[e] <= attempts'[e]
  <2>1. CASE attempts' = attempts
    BY <2>1 DEF TypeOK
  <2>2. CASE ClaimRow(f)
    BY <2>2 DEF ClaimRow, TypeOK
  <2>3. CASE InsertRow(f)
    BY <2>1, <2>3 DEF InsertRow
  <2> QED BY <1>2, <2>1, <2>2, <2>3, TypeSplit, UpdateKeepsOrder
<1> QED BY <1>1, <1>2, StepOfTables, TypeSplit, ProcessingAssumption

LEMMA DistinctStep ==
  ASSUME TypeOK, DistinctAttempts, Next
  PROVE  DistinctAttempts'
<1> SUFFICES ASSUME NEW w \in Worker, NEW e \in Event, InFlight(w, e)'
             PROVE  /\ worker'[w].attempt \in 1..attempts'[e]
                    /\ \A v \in Worker \ {w} :
                         InFlight(v, e)' => worker'[v].attempt # worker'[w].attempt
  BY DEF DistinctAttempts
<1> DEFINE Old(v) == InFlight(v, e) /\ worker'[v].attempt = worker[v].attempt
           New(v) == Claim(v) /\ worker[v].event = e /\ worker'[v].attempt = attempts[e] + 1
<1>1. \A v \in Worker : InFlight(v, e)' => Old(v) \/ New(v)
  BY FlightStep
<1>2. \A v \in Worker : InFlight(v, e) => worker[v].attempt \in 1..attempts[e]
  BY DEF DistinctAttempts
<1>3. attempts[e] \in Nat /\ attempts'[e] \in Nat /\ attempts[e] <= attempts'[e]
  BY AttemptsGrow DEF TypeOK
<1>4. \A v \in Worker : New(v) => attempts'[e] = attempts[e] + 1
  BY DEF Claim, ClaimRow, TypeOK
<1>5. \A u, v \in Worker : New(u) /\ New(v) => u = v
  BY DEF Claim, Become, CallAt, TypeOK
<1>6. worker'[w].attempt \in 1..attempts'[e]
  BY <1>1, <1>2, <1>3, <1>4
<1>7. ASSUME NEW v \in Worker \ {w}, InFlight(v, e)'
      PROVE  worker'[v].attempt # worker'[w].attempt
  <2>1. CASE Old(v) /\ Old(w)
    BY <2>1 DEF DistinctAttempts
  <2>2. CASE Old(v) /\ New(w)
    BY <1>2, <1>3, <2>2
  <2>3. CASE New(v) /\ Old(w)
    BY <1>2, <1>3, <2>3
  <2>4. CASE New(v) /\ New(w)
    BY <1>5, <2>4
  <2> QED BY <1>1, <1>7, <2>1, <2>2, <2>3, <2>4
<1> QED BY <1>6, <1>7

(* Every claim is an attempt of its own, whatever late calls, sweeps and      *)
(* crashes lie between: no two calls ever finish the same attempt.            *)
THEOREM AttemptsAreDistinct == Spec => []DistinctAttempts
<1>1. Init => DistinctAttempts
  BY DEF Init, DistinctAttempts, InFlight, IdleWorker
<1>2. TypeOK /\ DistinctAttempts /\ [Next]_vars => DistinctAttempts'
  <2>1. DistinctAttempts /\ UNCHANGED vars => DistinctAttempts'
    BY DEF DistinctAttempts, InFlight, vars
  <2> QED BY <2>1, DistinctStep
<1> QED BY <1>1, <1>2, TypeCorrect, PTL DEF Spec

-----------------------------------------------------------------------------
(* The bound on overruns of the budget. *)

(* The calls and passes that would return e to PENDING, by an attempts value   *)
(* they have read before.                                                     *)
RetryingCalls(e) == {w \in Worker : InFlight(w, e) /\ RetriesLeft(worker[w].attempt)}
Recovers(s, e) == sweep[s].pc = "recover" /\ sweep[s].event = e
RetryingPasses(e) == {s \in Sweeper : Recovers(s, e) /\ RetriesLeft(sweep[s].attempt)}

Waiting(e) == IF status[e] = "PENDING" THEN 1 ELSE 0

(* Once the budget is used up, every further claim uses up one of these, and   *)
(* no new one comes to be.                                                     *)
OverrunInv ==
  \A e \in Event :
    attempts[e] >= MaxAttempts =>
      attempts[e] + Waiting(e) + Cardinality(RetryingCalls(e)) + Cardinality(RetryingPasses(e))
        <= MaxAttempts + Cardinality(Worker) + Cardinality(Sweeper) - 1

LEMMA PassStep ==
  ASSUME TypeOK, Next, NEW s \in Sweeper, NEW e \in Event, Recovers(s, e)'
  PROVE  \/ Recovers(s, e) /\ sweep'[s].attempt = sweep[s].attempt
         \/ sweep'[s].attempt = attempts[e]
<1> USE DEF TypeOK, Recovers, PassAt, NextCandidate, IdleSweep
<1>1. CASE sweep'[s] = sweep[s]
  BY <1>1
<1>2. ASSUME NEW t \in Sweeper, SweepStep(t), sweep'[s] # sweep[s]
      PROVE  sweep'[s].attempt = attempts[e]
  <2>1. t = s
    BY <1>2 DEF SweepStep, SweepSelect, SweepRead, SweepRecover, SweepEnqueue, SweepThrow,
       SweepCrash
  <2>2. PICK f \in Event : SweepRead(s, f)
    BY <1>2, <2>1 DEF SweepStep, SweepSelect, SweepRecover, SweepEnqueue, SweepThrow, SweepCrash
  <2> QED BY <2>2 DEF SweepRead
<1>3. ASSUME NEW w \in Worker, WorkerStep(w)
      PROVE  UNCHANGED sweep
  BY <1>3 DEF WorkerStep, ReceiveJob, Claim, ClaimMiss, Diagnose, ProviderAnswers, Finalize,
     Throw, Acknowledge, Crash
<1>4. ASSUME NEW f \in Event, EventStep(f)
      PROVE  UNCHANGED sweep
  BY <1>4 DEF EventStep, Submit, BecomeStale, BackstopRead, BackstopFinalize, BackstopLost
<1> QED BY <1>1, <1>2, <1>3, <1>4 DEF Next

(* An event returns to PENDING only by a call or a pass that gives up its      *)
(* decision with it.                                                           *)
LEMMA ReturnStep ==
  ASSUME TypeOK, Next, NEW e \in Event, status[e] \notin {"NONE", "PENDING"},
         status'[e] = "PENDING"
  PROVE  \/ \E w \in RetryingCalls(e) : w \notin RetryingCalls(e)'
         \/ \E s \in RetryingPasses(e) : s \notin RetryingPasses(e)'
<1> USE DEF TypeOK
<1>1. ASSUME NEW w \in Worker, WorkerStep(w)
      PROVE  \E v \in RetryingCalls(e) : v \notin RetryingCalls(e)'
  <2>1. CASE Finalize(w)
    <3>1. worker[w].pc = "finalize" /\ worker[w].event \in Event
      BY <2>1, TypeSplit, BusyWorkerHasEvent DEF Finalize
    <3>2. /\ worker[w].event = e
          /\ RetriesLeft(worker[w].attempt)
          /\ worker'[w].pc = "done"
      BY <2>1, <3>1 DEF Finalize, FinalizeAs, CasMiss, db, FinalizeSuccess, FinalizeFailure,
         RetryTransition, Return, Become, CallAt
    <3> QED BY <3>1, <3>2 DEF RetryingCalls, InFlight
  <2>2. CASE Claim(w)
    <3>1. worker[w].event \in Event
      BY <2>2, TypeSplit, BusyWorkerHasEvent DEF Claim
    <3> QED BY <2>2, <3>1 DEF Claim, ClaimRow
  <2>3. CASE ~Finalize(w) /\ ~Claim(w)
    BY <1>1, <2>3 DEF WorkerStep, ReceiveJob, ClaimMiss, Diagnose, ProviderAnswers, Throw,
       Acknowledge, Crash, db
  <2> QED BY <2>1, <2>2, <2>3
<1>2. ASSUME NEW s \in Sweeper, SweepStep(s)
      PROVE  \E t \in RetryingPasses(e) : t \notin RetryingPasses(e)'
  <2>1. SweepRecover(s)
    BY <1>2 DEF SweepStep, SweepSelect, SweepRead, SweepEnqueue, SweepThrow, SweepCrash, db
  <2>2. sweep[s].event \in Event
    BY <2>1, TypeSplit, BusySweepHasEvent DEF SweepRecover
  <2>3. /\ sweep[s].event = e
        /\ RetriesLeft(sweep[s].attempt)
        /\ sweep'[s].pc = "enqueue"
    BY <2>1, <2>2 DEF SweepRecover, CasMiss, db, FinalizeFailure, RetryTransition, PassAt
  <2> QED BY <2>1, <2>3 DEF RetryingPasses, Recovers, SweepRecover
<1>3. ASSUME NEW f \in Event, EventStep(f)
      PROVE  FALSE
  BY <1>3 DEF EventStep, Submit, InsertRow, BecomeStale, PassThreshold, BackstopRead,
     BackstopFinalize, FinalizeFailure, CasMiss, BackstopLost, db
<1> QED BY <1>1, <1>2, <1>3 DEF Next

(* What a step does to an event's attempts and status. *)
LEMMA CountStep ==
  ASSUME TypeOK, OrderInv, Next, NEW e \in Event
  PROVE  \/ /\ attempts'[e] = attempts[e]
            /\ status'[e] = "PENDING" => status[e] \in {"NONE", "PENDING"}
         \/ /\ attempts'[e] = attempts[e]
            /\ status'[e] = "PENDING" /\ status[e] = "PROCESSING"
         \/ /\ attempts'[e] = attempts[e] + 1
            /\ status[e] = "PENDING" /\ status'[e] = "PROCESSING"
            /\ \E w \in Worker : worker[w].pc = "claim" /\ worker'[w].attempt = attempts'[e]
                                 /\ InFlight(w, e)'
<1> USE DEF TypeOK
<1>1. CASE UNCHANGED db
  BY <1>1 DEF db
<1>2. ASSUME NEW f \in Event, RowStep(f), f # e
      PROVE  attempts'[e] = attempts[e] /\ status'[e] = status[e]
  BY <1>2, OtherRowsUntouched, TypeSplit
<1>3. ASSUME NEW w \in Worker, Claim(w), worker[w].event = e
      PROVE  /\ attempts'[e] = attempts[e] + 1
             /\ status[e] = "PENDING" /\ status'[e] = "PROCESSING"
             /\ worker[w].pc = "claim" /\ worker'[w].attempt = attempts'[e]
             /\ InFlight(w, e)'
  BY <1>3 DEF Claim, ClaimRow, Claimable, Become, CallAt, InFlight
<1>4. ASSUME RowStep(e), ~ClaimRow(e)
      PROVE  /\ attempts'[e] = attempts[e]
             /\ status'[e] = "PENDING" => status[e] \in {"NONE", "PENDING", "PROCESSING"}
  BY <1>4 DEF RowStep, InsertRow, RetryTransition, FinalizeSuccess, FinalizeFailure,
     PassThreshold
<1>5. ASSUME ClaimRow(e)
      PROVE  \E w \in Worker : Claim(w) /\ worker[w].event = e
  <2>1. status[e] = "PENDING" /\ status'[e] = "PROCESSING"
    BY <1>5 DEF ClaimRow, Claimable
  <2>2. ASSUME NEW f \in Event, EventStep(f)
        PROVE  FALSE
    BY <2>1, <2>2 DEF EventStep, Submit, InsertRow, BecomeStale, PassThreshold, BackstopRead,
       BackstopFinalize, FinalizeFailure, CasMiss, BackstopLost, db
  <2>3. ASSUME NEW s \in Sweeper, SweepStep(s)
        PROVE  FALSE
    BY <2>1, <2>3 DEF SweepStep, SweepSelect, SweepRead, SweepEnqueue, SweepThrow, SweepCrash,
       SweepRecover, RetryTransition, FinalizeFailure, CasMiss, db
  <2>4. ASSUME NEW w \in Worker, WorkerStep(w)
        PROVE  Claim(w) /\ worker[w].event = e
    <3>1. Claim(w)
      BY <2>1, <2>4 DEF WorkerStep, ReceiveJob, ClaimMiss, Diagnose, ProviderAnswers, Finalize,
         FinalizeAs, FinalizeSuccess, FinalizeFailure, RetryTransition, CasMiss, Throw,
         Acknowledge, Crash, db
    <3>2. worker[w].event \in Event
      BY <3>1, TypeSplit, BusyWorkerHasEvent DEF Claim
    <3> QED BY <2>1, <3>1, <3>2 DEF Claim, ClaimRow
  <2> QED BY <2>2, <2>3, <2>4 DEF Next
<1> QED BY <1>1, <1>2, <1>3, <1>4, <1>5, StepOfTables, TypeSplit, ProcessingAssumption

(* With the budget used up, no call or pass newly decides to retry. *)
LEMMA DecisionsUsedUp ==
  ASSUME ProcessingAssumption, TypeOK, Next, NEW e \in Event, attempts[e] >= MaxAttempts
  PROVE  /\ RetryingCalls(e)' \subseteq RetryingCalls(e)
         /\ RetryingPasses(e)' \subseteq RetryingPasses(e)
<1>1. attempts[e] \in Nat /\ MaxAttempts \in Nat
  BY ProcessingAssumption DEF TypeOK
<1>2. ~RetriesLeft(attempts[e]) /\ ~RetriesLeft(attempts[e] + 1)
  BY <1>1 DEF RetriesLeft
<1>3. ASSUME NEW w \in RetryingCalls(e)'
      PROVE  w \in RetryingCalls(e)
  BY <1>2, <1>3, FlightStep DEF RetryingCalls, RetriesLeft
<1>4. ASSUME NEW s \in RetryingPasses(e)'
      PROVE  s \in RetryingPasses(e)
  BY <1>2, <1>4, PassStep DEF RetryingPasses, RetriesLeft
<1> QED BY <1>3, <1>4

LEMMA SetsOfActors ==
  ASSUME IsFiniteSet(Worker), IsFiniteSet(Sweeper), NEW e
  PROVE  /\ IsFiniteSet(RetryingCalls(e)) /\ IsFiniteSet(RetryingPasses(e))
         /\ Cardinality(RetryingCalls(e)) \in Nat /\ Cardinality(RetryingPasses(e)) \in Nat
         /\ Cardinality(Worker) \in Nat /\ Cardinality(Sweeper) \in Nat
         /\ Cardinality(RetryingCalls(e)) <= Cardinality(Worker)
         /\ Cardinality(RetryingPasses(e)) <= Cardinality(Sweeper)
<1>1. RetryingCalls(e) \in SUBSET Worker /\ RetryingPasses(e) \in SUBSET Sweeper
  BY DEF RetryingCalls, RetryingPasses
<1> QED BY <1>1, FS_Subset, FS_CardinalityType

LEMMA SmallerSet ==
  ASSUME NEW S, IsFiniteSet(S), NEW T, T \subseteq S
  PROVE  /\ Cardinality(T) <= Cardinality(S)
         /\ \A x \in S : x \notin T => Cardinality(T) <= Cardinality(S) - 1
<1>1. Cardinality(T) <= Cardinality(S)
  BY FS_Subset
<1>2. ASSUME NEW x \in S, x \notin T
      PROVE  Cardinality(T) <= Cardinality(S) - 1
  <2>1. T \in SUBSET (S \ {x})
    BY <1>2
  <2>2. IsFiniteSet(S \ {x}) /\ Cardinality(S \ {x}) = Cardinality(S) - 1
    BY FS_RemoveElement
  <2>3. Cardinality(T) <= Cardinality(S \ {x})
    BY <2>1, <2>2, FS_Subset
  <2> QED BY <2>2, <2>3
<1> QED BY <1>1, <1>2

LEMMA OverrunStep ==
  ASSUME ProcessingAssumption, IsFiniteSet(Worker), IsFiniteSet(Sweeper),
         TypeOK, OrderInv, OverrunInv, Next, NEW e \in Event, attempts'[e] >= MaxAttempts
  PROVE  attempts'[e] + Waiting(e)' + Cardinality(RetryingCalls(e)')
           + Cardinality(RetryingPasses(e)')
         <= MaxAttempts + Cardinality(Worker) + Cardinality(Sweeper) - 1
<1> DEFINE calls == RetryingCalls(e)
           passes == RetryingPasses(e)
<1>1. attempts[e] \in Nat /\ MaxAttempts \in Nat \ {0}
  BY ProcessingAssumption DEF TypeOK
<1>2. /\ IsFiniteSet(calls) /\ IsFiniteSet(passes)
      /\ Cardinality(calls) \in Nat /\ Cardinality(passes) \in Nat
      /\ Cardinality(Worker) \in Nat /\ Cardinality(Sweeper) \in Nat
  BY SetsOfActors
<1>3. calls' \subseteq Worker /\ passes' \subseteq Sweeper
  BY DEF RetryingCalls, RetryingPasses
<1>4. /\ Cardinality(calls') \in Nat /\ Cardinality(passes') \in Nat
      /\ Cardinality(calls') <= Cardinality(Worker)
      /\ Cardinality(passes') <= Cardinality(Sweeper)
  BY <1>3, FS_Subset, FS_CardinalityType
<1>5. CASE attempts[e] >= MaxAttempts
  <2>1. calls' \subseteq calls /\ passes' \subseteq passes
    BY <1>5, DecisionsUsedUp
  <2>2. Cardinality(calls') <= Cardinality(calls) /\ Cardinality(passes') <= Cardinality(passes)
    BY <1>2, <2>1, SmallerSet
  <2>3. attempts[e] + Waiting(e) + Cardinality(calls) + Cardinality(passes)
          <= MaxAttempts + Cardinality(Worker) + Cardinality(Sweeper) - 1
    BY <1>5 DEF OverrunInv
  <2>4. status[e] # "NONE"
    BY <1>1, <1>5 DEF OrderInv, RowsNumbered
  <2>5. CASE attempts'[e] = attempts[e] /\ (status'[e] = "PENDING" => status[e] = "PENDING")
    <3>1. Waiting(e)' \in {0, 1} /\ Waiting(e) \in {0, 1} /\ Waiting(e)' <= Waiting(e)
      BY <2>5 DEF Waiting
    <3> QED BY <1>1, <1>2, <1>4, <2>2, <2>3, <2>5, <3>1
  <2>6. CASE attempts'[e] = attempts[e] /\ status'[e] = "PENDING" /\ status[e] = "PROCESSING"
    <3>1. Waiting(e)' = 1 /\ Waiting(e) = 0
      BY <2>6 DEF Waiting
    <3>2. (\E w \in calls : w \notin calls') \/ (\E s \in passes : s \notin passes')
      BY <2>6, ReturnStep
    <3>3. \/ Cardinality(calls') <= Cardinality(calls) - 1
          \/ Cardinality(passes') <= Cardinality(passes) - 1
      BY <1>2, <2>1, <3>2, SmallerSet
    <3> QED BY <1>1, <1>2, <1>4, <2>2, <2>3, <2>6, <3>1, <3>3
  <2>7. CASE attempts'[e] = attempts[e] + 1 /\ status[e] = "PENDING" /\ status'[e] = "PROCESSING"
    <3>1. Waiting(e)' = 0 /\ Waiting(e) = 1
      BY <2>7 DEF Waiting
    <3> QED BY <1>1, <1>2, <1>4, <2>2, <2>3, <2>7, <3>1
  <2> QED BY <2>4, <2>5, <2>6, <2>7, CountStep
<1>6. CASE attempts[e] < MaxAttempts
  <2>1. /\ attempts'[e] = attempts[e] + 1 /\ status'[e] = "PROCESSING"
        /\ \E w \in Worker : worker'[w].attempt = attempts'[e] /\ InFlight(w, e)'
    BY <1>1, <1>6, CountStep
  <2>2. PICK w \in Worker : worker'[w].attempt = attempts'[e] /\ InFlight(w, e)'
    BY <2>1
  <2>3. attempts'[e] = MaxAttempts /\ Waiting(e)' = 0
    BY <1>1, <1>6, <2>1 DEF Waiting
  <2>4. w \notin calls'
    BY <1>1, <2>2, <2>3 DEF RetryingCalls, RetriesLeft
  <2>5. Cardinality(calls') <= Cardinality(Worker) - 1
    BY <1>3, <2>4, SmallerSet
  <2> QED BY <1>1, <1>2, <1>4, <2>3, <2>5
<1> QED BY <1>1, <1>5, <1>6

(* The budget is overrun by at most one claim for each other call and pass,   *)
(* however late they come: nothing but the number of actors limits it.        *)
THEOREM OvershootIsBounded ==
  ASSUME IsFiniteSet(Worker), IsFiniteSet(Sweeper)
  PROVE  Spec => []OvershootBounded
<1>1. Init => OrderInv /\ OverrunInv
  BY OrderInit, ProcessingAssumption DEF Init, OverrunInv
<1>2. TypeOK /\ OrderInv /\ [Next]_vars => OrderInv'
  BY ProcessingAssumption, OrderStep, TypeSplit
<1>3. TypeOK /\ OrderInv /\ OverrunInv /\ [Next]_vars => OverrunInv'
  <2>1. ASSUME UNCHANGED vars, OverrunInv
        PROVE  OverrunInv'
    <3>1. \A e \in Event : /\ RetryingCalls(e)' = RetryingCalls(e)
                           /\ RetryingPasses(e)' = RetryingPasses(e)
                           /\ Waiting(e)' = Waiting(e)
      BY <2>1 DEF vars, RetryingCalls, RetryingPasses, Waiting, InFlight, Recovers
    <3> QED BY <2>1, <3>1 DEF OverrunInv, vars
  <2>2. ASSUME TypeOK, OrderInv, OverrunInv, Next
        PROVE  OverrunInv'
    BY <2>2, OverrunStep, ProcessingAssumption DEF OverrunInv
  <2> QED BY <2>1, <2>2
<1>4. TypeOK /\ OverrunInv => OvershootBounded
  <2> SUFFICES ASSUME TypeOK, OverrunInv, NEW e \in Event
               PROVE  attempts[e] <= MaxAttempts + Cardinality(Worker) + Cardinality(Sweeper) - 1
    BY DEF OvershootBounded
  <2>1. attempts[e] \in Nat /\ MaxAttempts \in Nat /\ Waiting(e) \in {0, 1}
    BY ProcessingAssumption DEF TypeOK, Waiting
  <2> QED BY <2>1, SetsOfActors DEF OverrunInv
<1> QED BY <1>1, <1>2, <1>3, <1>4, TypeCorrect, PTL DEF Spec

-----------------------------------------------------------------------------
(* Timely calls and one pass at a time. *)

OnePass == \A s, t \in Sweeper : s = t

(* The events a pass has on its list or has just read. *)
Listed(s) == sweep[s].todo \cup (IF sweep[s].pc = "recover" THEN {sweep[s].event} ELSE {})

(* A call's attempt is the one the row counts, and nobody else's; only the    *)
(* backstop may have ended it before the call does.                           *)
FlightsAlone ==
  \A w \in Worker, e \in Event :
    InFlight(w, e) =>
      /\ status[e] = "PROCESSING" \/ (status[e] = "FAILED" /\ e \in MayExhaust)
      /\ worker[w].attempt = attempts[e]
      /\ ~stale[e]
      /\ \A v \in Worker : InFlight(v, e) => v = w

(* What a pass has listed stays as it was, unless the backstop has ended it.  *)
ListsRight ==
  \A s \in Sweeper :
    /\ \A e \in Listed(s) : stale[e] /\ status[e] \in {"PROCESSING", "FAILED"}
    /\ sweep[s].pc = "recover" =>
         sweep[s].event \notin sweep[s].todo /\ sweep[s].attempt = attempts[sweep[s].event]

WithinBudget ==
  \A e \in Event :
    /\ attempts[e] <= MaxAttempts
    /\ status[e] \in {"NONE", "PENDING"} => attempts[e] < MaxAttempts

TimelyInv == FlightsAlone /\ ListsRight /\ WithinBudget

(* A worker's step. *)

LEMMA TimelyClaim ==
  ASSUME TypeOK, TimelyInv, NEW w \in Worker, Claim(w)
  PROVE  TimelyInv'
<1> DEFINE e == worker[w].event
<1> USE DEF TypeOK
<1>1. e \in Event /\ ClaimRow(e) /\ status[e] = "PENDING"
  BY TypeSplit, BusyWorkerHasEvent DEF Claim, ClaimRow, Claimable
<1>2. /\ status' = [status EXCEPT ![e] = "PROCESSING"]
      /\ attempts' = [attempts EXCEPT ![e] = @ + 1]
      /\ stale' = [stale EXCEPT ![e] = FALSE]
      /\ UNCHANGED sweep
      /\ worker' = [worker EXCEPT ![w] = CallAt("provider", e, attempts'[e], "none")]
  BY DEF Claim, ClaimRow, Become
<1>3. \A v \in Worker : ~InFlight(v, e)
  BY <1>1 DEF TimelyInv, FlightsAlone
<1>4. FlightsAlone'
  BY <1>1, <1>2, <1>3 DEF TimelyInv, FlightsAlone, InFlight, CallAt
<1>5. \A s \in Sweeper : e \notin Listed(s)
  BY <1>1 DEF TimelyInv, ListsRight
<1>6. ListsRight'
  <2> SUFFICES ASSUME NEW s \in Sweeper
               PROVE  /\ \A f \in Listed(s)' : stale'[f] /\ status'[f] \in {"PROCESSING", "FAILED"}
                      /\ sweep'[s].pc = "recover" =>
                           /\ sweep'[s].event \notin sweep'[s].todo
                           /\ sweep'[s].attempt = attempts'[sweep'[s].event]
    BY DEF ListsRight
  <2>1. Listed(s)' = Listed(s) /\ Listed(s) \subseteq Event
    BY <1>2, TypeSplit, BusySweepHasEvent DEF Listed, SweepState
  <2> QED BY <1>1, <1>2, <1>5, <2>1 DEF TimelyInv, ListsRight, Listed
<1>7. WithinBudget'
  BY <1>1, <1>2, ProcessingAssumption DEF TimelyInv, WithinBudget
<1> QED BY <1>4, <1>6, <1>7 DEF TimelyInv

(* Nothing but calls' states changes, and no call enters flight. *)
LEMMA TimelyIdle ==
  ASSUME TypeOK, TimelyInv, UNCHANGED db, UNCHANGED sweep,
         \A w \in Worker, e \in Event : InFlight(w, e)' =>
           InFlight(w, e) /\ worker'[w].attempt = worker[w].attempt
  PROVE  TimelyInv'
BY DEF TimelyInv, FlightsAlone, ListsRight, Listed, WithinBudget, db

(* A row leaves PROCESSING, with its call or without one. *)
LEMMA TimelyEnd ==
  ASSUME TypeOK, TimelyInv, NEW e \in Event, status[e] = "PROCESSING",
         UNCHANGED attempts, UNCHANGED stale,
         NEW to \in {"PENDING", "SUCCEEDED", "FAILED"},
         status' = [status EXCEPT ![e] = to],
         to = "PENDING" => attempts[e] < MaxAttempts,
         \A v \in Worker, f \in Event : InFlight(v, f)' =>
            InFlight(v, f) /\ worker'[v].attempt = worker[v].attempt,
         (\A v \in Worker : ~InFlight(v, e)') \/ (to = "FAILED" /\ e \in MayExhaust)
  PROVE  FlightsAlone' /\ WithinBudget'
<1> USE DEF TypeOK
<1>1. FlightsAlone'
  <2> SUFFICES ASSUME NEW w \in Worker, NEW f \in Event, InFlight(w, f)'
               PROVE  /\ status'[f] = "PROCESSING" \/ (status'[f] = "FAILED" /\ f \in MayExhaust)
                      /\ worker'[w].attempt = attempts'[f]
                      /\ ~stale'[f]
                      /\ \A v \in Worker : InFlight(v, f)' => v = w
    BY DEF FlightsAlone
  <2>1. InFlight(w, f) /\ worker'[w].attempt = worker[w].attempt
    OBVIOUS
  <2>2. /\ status[f] = "PROCESSING" \/ (status[f] = "FAILED" /\ f \in MayExhaust)
        /\ worker[w].attempt = attempts[f]
        /\ ~stale[f]
        /\ \A v \in Worker : InFlight(v, f) => v = w
    BY <2>1 DEF TimelyInv, FlightsAlone
  <2>3. f = e => to = "FAILED" /\ e \in MayExhaust
    OBVIOUS
  <2>4. \A v \in Worker : InFlight(v, f)' => v = w
    BY <2>2
  <2> QED BY <2>1, <2>2, <2>3, <2>4
<1>2. WithinBudget'
  BY DEF TimelyInv, WithinBudget
<1> QED BY <1>1, <1>2

(* What a step may do to the rows as far as the passes are concerned. *)
ListsChange ==
  \A s \in Sweeper : \A f \in Listed(s) :
    /\ stale[f] => stale'[f]
    /\ status'[f] = status[f] \/ status'[f] = "FAILED"
    /\ attempts'[f] = attempts[f]

LEMMA ListedEvents ==
  ASSUME TypeOK, NEW s \in Sweeper
  PROVE  Listed(s) \subseteq Event /\ sweep[s].todo \subseteq Event
BY TypeSplit, BusySweepHasEvent DEF TypeOK, Listed, SweepState

LEMMA ListsKept ==
  ASSUME TypeOK, TimelyInv, UNCHANGED sweep, ListsChange
  PROVE  ListsRight'
<1> SUFFICES ASSUME NEW s \in Sweeper
             PROVE  /\ \A f \in Listed(s)' : stale'[f] /\ status'[f] \in {"PROCESSING", "FAILED"}
                    /\ sweep'[s].pc = "recover" =>
                         /\ sweep'[s].event \notin sweep'[s].todo
                         /\ sweep'[s].attempt = attempts'[sweep'[s].event]
  BY DEF ListsRight
<1>1. Listed(s)' = Listed(s)
  BY DEF Listed
<1>2. sweep[s].pc = "recover" => sweep[s].event \in Listed(s)
  BY DEF Listed
<1> QED BY <1>1, <1>2 DEF TimelyInv, ListsRight, ListsChange

LEMMA TimelyFinalize ==
  ASSUME TypeOK, TimelyInv, NEW w \in Worker, Finalize(w)
  PROVE  TimelyInv'
<1>1. PICK e \in Event : e = worker[w].event /\ InFlight(w, e)
  BY TypeSplit, BusyWorkerHasEvent DEF Finalize, InFlight
<1>2. /\ worker'[w].pc = "done" /\ UNCHANGED sweep
      /\ \A v \in Worker \ {w} : worker'[v] = worker[v]
  BY DEF TypeOK, Finalize, FinalizeAs, Return, Become, CallAt
<1>3. \A v \in Worker, f \in Event : InFlight(v, f)' =>
        InFlight(v, f) /\ worker'[v].attempt = worker[v].attempt
  BY <1>2 DEF InFlight
<1>4. \A v \in Worker : ~InFlight(v, e)'
  <2>1. ~InFlight(w, e)'
    BY <1>2 DEF InFlight
  <2>2. \A v \in Worker : InFlight(v, e) => v = w
    BY <1>1 DEF TimelyInv, FlightsAlone
  <2> QED BY <1>3, <2>1, <2>2
<1>5. CASE CasMiss(e)
  <2>1. UNCHANGED db
    BY <1>5 DEF CasMiss
  <2> QED BY <1>2, <1>3, <2>1, TimelyIdle
<1>6. CASE ~CasMiss(e)
  <2>1. FinalizeAs(w, e)
    BY <1>1, <1>6 DEF Finalize
  <2>2. /\ status[e] = "PROCESSING" /\ UNCHANGED attempts /\ UNCHANGED stale
        /\ \E to \in {"PENDING", "SUCCEEDED", "FAILED"} :
             /\ status' = [status EXCEPT ![e] = to]
             /\ to = "PENDING" => RetriesLeft(worker[w].attempt)
    BY <2>1 DEF FinalizeAs, FinalizeSuccess, FinalizeFailure, RetryTransition
  <2>3. worker[w].attempt = attempts[e] /\ ~stale[e]
    BY <1>1 DEF TimelyInv, FlightsAlone
  <2>4. FlightsAlone' /\ WithinBudget'
    <3>1. PICK to \in {"PENDING", "SUCCEEDED", "FAILED"} :
            /\ status' = [status EXCEPT ![e] = to]
            /\ to = "PENDING" => RetriesLeft(worker[w].attempt)
      BY <2>2
    <3>2. to = "PENDING" => attempts[e] < MaxAttempts
      BY <2>3, <3>1 DEF RetriesLeft
    <3> QED BY <1>1, <1>3, <1>4, <2>2, <3>1, <3>2, TimelyEnd
  <2>5. \A s \in Sweeper : e \notin Listed(s)
    BY <2>3 DEF TimelyInv, ListsRight
  <2>6. ListsRight'
    <3>1. ListsChange
      BY <2>2, <2>5, ListedEvents DEF TypeOK, ListsChange
    <3> QED BY <1>2, <3>1, ListsKept
  <2> QED BY <2>4, <2>6 DEF TimelyInv
<1> QED BY <1>5, <1>6

LEMMA TimelyWorker ==
  ASSUME TypeOK, TimelyInv, NEW w \in Worker, WorkerStep(w)
  PROVE  TimelyInv'
<1>1. CASE ~Claim(w) /\ ~Finalize(w)
  <2>1. UNCHANGED db /\ UNCHANGED sweep
    BY <1>1 DEF WorkerStep, ReceiveJob, ClaimMiss, Diagnose, ProviderAnswers, Throw,
       Acknowledge, Crash
  <2>2. ASSUME NEW v \in Worker, NEW e \in Event, InFlight(v, e)'
        PROVE  InFlight(v, e) /\ worker'[v].attempt = worker[v].attempt
    <3>1. Next
      BY DEF Next
    <3>2. ~Claim(v)
      <4>1. worker[v].pc = "claim" => worker[v].event \in Event
        BY TypeSplit, BusyWorkerHasEvent
      <4> QED BY <2>1, <4>1 DEF TypeOK, Claim, ClaimRow, Claimable, db
    <3> QED BY <2>2, <3>1, <3>2, FlightStep
  <2> QED BY <2>1, <2>2, TimelyIdle
<1> QED BY <1>1, TimelyClaim, TimelyFinalize

(* A sweep's step. *)

LEMMA TimelySweep ==
  ASSUME OnePass, TypeOK, TimelyInv, NEW s \in Sweeper, SweepStep(s)
  PROVE  TimelyInv'
<1>1. UNCHANGED worker
  BY DEF SweepStep, SweepSelect, SweepRead, SweepRecover, SweepEnqueue, SweepThrow, SweepCrash
<1>2. \A v \in Worker, f \in Event : InFlight(v, f)' =>
        InFlight(v, f) /\ worker'[v].attempt = worker[v].attempt
  BY <1>1 DEF InFlight
<1>3. /\ \A e \in Listed(s) : stale[e] /\ status[e] \in {"PROCESSING", "FAILED"}
      /\ sweep[s].todo \subseteq Listed(s)
      /\ sweep[s].pc = "recover" =>
           sweep[s].event \notin sweep[s].todo /\ sweep[s].attempt = attempts[sweep[s].event]
  BY DEF TimelyInv, ListsRight, Listed
<1>4. \A t \in Sweeper : t = s
  BY DEF OnePass
<1>5. CASE UNCHANGED db
  <2>1. FlightsAlone' /\ WithinBudget'
    BY <1>1, <1>5 DEF TimelyInv, FlightsAlone, WithinBudget, InFlight, db
  <2>2. CASE SweepSelect(s)
    <3>1. /\ Listed(s)' \subseteq {e \in Event : status[e] = "PROCESSING" /\ stale[e]}
          /\ sweep'[s].pc # "recover"
      BY <2>2 DEF TypeOK, SweepSelect, NextCandidate, PassAt, Listed
    <3> QED BY <1>4, <1>5, <2>1, <3>1 DEF TimelyInv, ListsRight, db
  <2>3. ASSUME NEW e \in Event, SweepRead(s, e), status[e] = "PROCESSING"
        PROVE  ListsRight'
    <3>1. /\ e \in sweep[s].todo
          /\ sweep'[s] = PassAt("recover", e, attempts[e], sweep[s].todo \ {e})
      BY <2>3 DEF TypeOK, SweepRead
    <3>2. Listed(s)' \subseteq Listed(s)
      BY <3>1 DEF Listed, PassAt
    <3> QED BY <1>3, <1>4, <1>5, <3>1, <3>2 DEF ListsRight, PassAt, db
  <2>4. ASSUME \/ \E e \in Event : SweepRead(s, e) /\ status[e] # "PROCESSING"
               \/ SweepRecover(s) \/ SweepEnqueue(s) \/ SweepThrow(s) \/ SweepCrash(s)
        PROVE  ListsRight'
    <3>1. Listed(s)' \subseteq Listed(s) /\ sweep'[s].pc # "recover"
      <4>1. CASE SweepRecover(s)
        BY <1>5, <4>1 DEF TypeOK, SweepRecover, RetryTransition, FinalizeFailure, NextCandidate,
           PassAt, Listed
      <4>2. CASE \/ \E e \in Event : SweepRead(s, e) /\ status[e] # "PROCESSING"
                 \/ SweepEnqueue(s) \/ SweepThrow(s) \/ SweepCrash(s)
        BY <4>2 DEF TypeOK, SweepRead, SweepEnqueue, SweepThrow, SweepCrash, NextCandidate,
           PassAt, IdleSweep, Listed
      <4> QED BY <2>4, <4>1, <4>2
    <3> QED BY <1>3, <1>4, <1>5, <3>1 DEF ListsRight, db
  <2> QED BY <2>1, <2>2, <2>3, <2>4 DEF SweepStep, TimelyInv
<1>6. CASE ~UNCHANGED db
  <2>1. SweepRecover(s)
    BY <1>6 DEF SweepStep, SweepSelect, SweepRead, SweepEnqueue, SweepThrow, SweepCrash
  <2>2. PICK e \in Event : e = sweep[s].event
    BY <2>1, TypeSplit, BusySweepHasEvent DEF SweepRecover
  <2>3. e \in Listed(s) /\ sweep[s].attempt = attempts[e] /\ stale[e] /\ e \notin sweep[s].todo
    BY <1>3, <2>1, <2>2 DEF SweepRecover, Listed
  <2>4. PICK to \in {"PENDING", "SUCCEEDED", "FAILED"} :
          /\ status' = [status EXCEPT ![e] = to]
          /\ to = "PENDING" => attempts[e] < MaxAttempts
    BY <1>6, <2>1, <2>2, <2>3
       DEF SweepRecover, RetryTransition, FinalizeFailure, CasMiss, RetriesLeft
  <2>5. status[e] = "PROCESSING" /\ UNCHANGED attempts /\ UNCHANGED stale
    BY <1>6, <2>1, <2>2 DEF SweepRecover, RetryTransition, FinalizeFailure, CasMiss
  <2>6. \A v \in Worker : ~InFlight(v, e)'
    BY <1>2, <2>3 DEF TimelyInv, FlightsAlone
  <2>7. FlightsAlone' /\ WithinBudget'
    BY <1>2, <2>4, <2>5, <2>6, TimelyEnd
  <2>8. Listed(s)' \subseteq sweep[s].todo /\ sweep'[s].pc # "recover"
    BY <1>6, <2>1 DEF TypeOK, SweepRecover, RetryTransition, FinalizeFailure, CasMiss,
       NextCandidate, PassAt, Listed
  <2>9. ListsRight'
    <3>1. \A f \in sweep[s].todo : stale'[f] /\ status'[f] \in {"PROCESSING", "FAILED"}
      BY <1>3, <2>3, <2>4, <2>5, ListedEvents DEF TypeOK
    <3> QED BY <1>4, <2>8, <3>1 DEF ListsRight
  <2> QED BY <2>7, <2>9 DEF TimelyInv
<1> QED BY <1>5, <1>6

(* What the others do to an event. *)

LEMMA TimelyEvent ==
  ASSUME ~Overlap, TypeOK, TimelyInv, NEW e \in Event, EventStep(e)
  PROVE  TimelyInv'
<1>1. UNCHANGED worker /\ UNCHANGED sweep
  BY DEF EventStep, Submit, BecomeStale, BackstopRead, BackstopFinalize, BackstopLost
<1>2. \A v \in Worker, f \in Event : InFlight(v, f)' =>
        InFlight(v, f) /\ worker'[v].attempt = worker[v].attempt
  BY <1>1 DEF InFlight
<1>3. CASE UNCHANGED db
  BY <1>1, <1>2, <1>3, TimelyIdle
<1>4. CASE Submit(e)
  <2>1. /\ status[e] = "NONE" /\ status' = [status EXCEPT ![e] = "PENDING"]
        /\ UNCHANGED attempts /\ UNCHANGED stale
    BY <1>4 DEF Submit, InsertRow
  <2>2. FlightsAlone'
    BY <1>2, <2>1 DEF TypeOK, TimelyInv, FlightsAlone
  <2>3. ListsChange
    BY <2>1, ListedEvents DEF TypeOK, TimelyInv, ListsRight, ListsChange
  <2>4. WithinBudget'
    BY <2>1 DEF TypeOK, TimelyInv, WithinBudget
  <2> QED BY <1>1, <2>2, <2>3, <2>4, ListsKept DEF TimelyInv
<1>5. CASE BecomeStale(e)
  <2>1. /\ \A w \in Worker : ~InFlight(w, e)
        /\ stale' = [stale EXCEPT ![e] = TRUE] /\ UNCHANGED status /\ UNCHANGED attempts
    BY <1>5 DEF BecomeStale, PassThreshold
  <2>2. FlightsAlone'
    <3> SUFFICES ASSUME NEW w \in Worker, NEW f \in Event, InFlight(w, f)'
                 PROVE  /\ status[f] = "PROCESSING" \/ (status[f] = "FAILED" /\ f \in MayExhaust)
                        /\ worker'[w].attempt = attempts[f]
                        /\ ~stale'[f]
                        /\ \A v \in Worker : InFlight(v, f)' => v = w
      BY <2>1 DEF FlightsAlone
    <3>1. InFlight(w, f) /\ worker'[w].attempt = worker[w].attempt /\ f # e
      BY <1>2, <2>1
    <3>2. stale'[f] = stale[f]
      BY <2>1, <3>1 DEF TypeOK
    <3> QED BY <1>2, <3>1, <3>2 DEF TimelyInv, FlightsAlone
  <2>3. ListsChange
    BY <2>1, ListedEvents DEF TypeOK, ListsChange
  <2>4. WithinBudget'
    BY <2>1 DEF TimelyInv, WithinBudget
  <2> QED BY <1>1, <2>2, <2>3, <2>4, ListsKept DEF TimelyInv
<1>6. CASE BackstopFinalize(e) /\ FinalizeFailure(e, "RETRYABLE")
  <2>1. /\ status[e] = "PROCESSING" /\ status' = [status EXCEPT ![e] = "FAILED"]
        /\ UNCHANGED attempts /\ UNCHANGED stale /\ e \in MayExhaust
    BY <1>6 DEF TypeOK, BackstopFinalize, FinalizeFailure
  <2>2. FlightsAlone' /\ WithinBudget'
    BY <1>2, <2>1, TimelyEnd
  <2>3. ListsChange
    BY <2>1, ListedEvents DEF TypeOK, ListsChange
  <2> QED BY <1>1, <2>2, <2>3, ListsKept DEF TimelyInv
<1> QED BY <1>3, <1>4, <1>5, <1>6
        DEF EventStep, BackstopRead, BackstopFinalize, CasMiss, BackstopLost

(* With timely calls and one pass at a time, the invariant holds. *)
LEMMA TimelyStep ==
  ASSUME OnePass, ~Overlap, TypeOK, TimelyInv, [Next]_vars
  PROVE  TimelyInv'
<1>1. CASE UNCHANGED vars
  BY <1>1, TimelyIdle DEF vars, db, InFlight
<1> QED BY <1>1, TimelyWorker, TimelySweep, TimelyEvent DEF Next

(* While passes do not overlap and every call ends before the threshold, every  *)
(* call in flight holds the attempt its row counts, every event a pass listed   *)
(* is still the stale attempt it listed, and an event waiting has budget left.  *)
THEOREM TimelyProcessing ==
  ASSUME OnePass, Overlap = FALSE
  PROVE  Spec => []TimelyInv
<1>1. Init => TimelyInv
  BY ProcessingAssumption DEF Init, TimelyInv, FlightsAlone, ListsRight, WithinBudget, Listed,
     InFlight, IdleWorker, IdleSweep
<1>2. TypeOK /\ TimelyInv /\ [Next]_vars => TimelyInv'
  BY TimelyStep
<1> QED BY <1>1, <1>2, TypeCorrect, PTL DEF Spec

(* Under the same two conditions no event is claimed more often than its        *)
(* max_attempts: claimPending needs no condition on the budget of its own.      *)
THEOREM BudgetIsKept ==
  ASSUME OnePass, Overlap = FALSE
  PROVE  Spec => []BudgetRespected
<1>1. TimelyInv => BudgetRespected
  BY DEF TimelyInv, WithinBudget, BudgetRespected
<1> QED BY <1>1, TimelyProcessing, PTL

(* And no finishing transaction of a worker ends an attempt another claim       *)
(* began, although its WHERE names the row and its status but not the attempt.  *)
THEOREM OwnAttemptsOnly ==
  ASSUME OnePass, Overlap = FALSE
  PROVE  Spec => FinalizesOwnAttempt
<1>1. TypeOK /\ TimelyInv =>
        [\A w \in Worker, e \in Event :
           (Finalize(w) /\ worker[w].event = e /\ status'[e] # status[e])
             => worker[w].attempt = attempts[e]]_vars
  BY DEF Finalize, InFlight, TimelyInv, FlightsAlone
<1> QED BY <1>1, TypeCorrect, TimelyProcessing, PTL DEF FinalizesOwnAttempt

(* Nor does the sweep take back an attempt that is not past the threshold, for  *)
(* all that its list and its read are older than its write.                     *)
THEOREM OnlyStaleRecovered ==
  ASSUME OnePass, Overlap = FALSE
  PROVE  Spec => RecoversOnlyStale
<1>1. TypeOK /\ TimelyInv =>
        [\A s \in Sweeper, e \in Event :
           (SweepRecover(s) /\ status'[e] # status[e]) => stale[e]]_vars
  <2> SUFFICES ASSUME TypeOK, TimelyInv, NEW s \in Sweeper, NEW e \in Event,
                      SweepRecover(s), status'[e] # status[e]
               PROVE  stale[e]
    OBVIOUS
  <2>1. sweep[s].event \in Event /\ stale[sweep[s].event]
    BY TypeSplit, BusySweepHasEvent DEF SweepRecover, TimelyInv, ListsRight, Listed
  <2>2. e = sweep[s].event
    BY <2>1 DEF TypeOK, SweepRecover, RetryTransition, FinalizeFailure, CasMiss, db
  <2> QED BY <2>1, <2>2
<1> QED BY <1>1, TypeCorrect, TimelyProcessing, PTL DEF RecoversOnlyStale

(* And where the queue never gives a job up whose row is running, the provider  *)
(* is never called for two events of an employee at once, nor twice for one.    *)
THEOREM CallsAreSerial ==
  ASSUME OnePass, Overlap = FALSE, MayExhaust = {}
  PROVE  Spec => []SerialCallsPerEmployee
<1>1. TypeOK /\ TimelyInv /\ Lifecycle!OneRunningPerEmployee => SerialCallsPerEmployee
  <2> SUFFICES ASSUME TypeOK, TimelyInv, Lifecycle!OneRunningPerEmployee,
                      NEW w \in Worker, NEW v \in Worker, w # v, Calling(w), Calling(v)
               PROVE  EmployeeOf[worker[w].event] # EmployeeOf[worker[v].event]
    BY DEF SerialCallsPerEmployee
  <2>1. worker[w].event \in Event /\ worker[v].event \in Event
    BY TypeSplit, BusyWorkerHasEvent DEF Calling
  <2>2. InFlight(w, worker[w].event) /\ InFlight(v, worker[v].event)
    BY DEF InFlight, Calling
  <2>3. status[worker[w].event] = "PROCESSING" /\ status[worker[v].event] = "PROCESSING"
    BY <2>1, <2>2 DEF TimelyInv, FlightsAlone
  <2>4. worker[w].event # worker[v].event
    BY <2>1, <2>2 DEF TimelyInv, FlightsAlone
  <2> QED BY <2>1, <2>3, <2>4 DEF Lifecycle!OneRunningPerEmployee
<1> QED BY <1>1, TypeCorrect, TimelyProcessing, RowsRunOneAtATime, PTL
=============================================================================
