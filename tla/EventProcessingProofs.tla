------------------------ MODULE EventProcessingProofs ------------------------
(***************************************************************************)
(* Proofs about EventProcessing, for any number of events, employees,      *)
(* worker calls and sweep passes, any retry budget and any provider.       *)
(***************************************************************************)
EXTENDS EventProcessing, WellFoundedInduction, TLAPS

(* What one committed statement does to the tables: every step of every actor *)
(* is one of these for one event, or leaves the tables alone.                 *)
RowStep(e) ==
  \/ InsertRow(e)
  \/ ClaimRow(e)
  \/ RetryTransition(e)
  \/ FinalizeSuccess(e)
  \/ \E type \in {"RETRYABLE", "PERMANENT"} : FinalizeFailure(e, type)
  \/ PassThreshold(e)

RowTypeOK ==
  /\ status \in [Event -> Status]
  /\ sequence \in [Event -> Nat]
  /\ attempts \in [Event -> Nat]
  /\ failureType \in [Event -> FailureType]
  /\ result \in [Event -> BOOLEAN]
  /\ stale \in [Event -> BOOLEAN]
  /\ history \in [Event -> Seq(HistoryRow)]

ActorTypeOK ==
  /\ worker \in [Worker -> WorkerState]
  /\ sweep \in [Sweeper -> SweepState]
  /\ backstop \subseteq MayExhaust

-----------------------------------------------------------------------------
(* Type correctness. *)

(* A worker that is not idle has an event. *)
LEMMA BusyWorkerHasEvent ==
  ASSUME ActorTypeOK, NEW w \in Worker, worker[w].pc # "idle"
  PROVE  worker[w].event \in Event
BY DEF ActorTypeOK, WorkerState, IdleWorker

LEMMA BusySweepHasEvent ==
  ASSUME ActorTypeOK, NEW s \in Sweeper, sweep[s].pc \in {"recover", "enqueue"}
  PROVE  sweep[s].event \in Event
BY DEF ActorTypeOK, SweepState

(* Every step of the system changes the tables by one row step, or not at all. *)
LEMMA StepOfTables ==
  ASSUME ProcessingAssumption, ActorTypeOK, Next
  PROVE  (\E e \in Event : RowStep(e)) \/ UNCHANGED db
<1>1. ASSUME NEW e \in Event, EventStep(e)
      PROVE  RowStep(e) \/ UNCHANGED db
  BY <1>1 DEF EventStep, RowStep, Submit, BecomeStale, BackstopRead,
              BackstopFinalize, BackstopLost, CasMiss
<1>2. ASSUME NEW w \in Worker, WorkerStep(w)
      PROVE  (\E e \in Event : RowStep(e)) \/ UNCHANGED db
  <2>1. CASE Claim(w)
    <3>1. worker[w].event \in Event
      BY <2>1, BusyWorkerHasEvent DEF Claim
    <3>2. ClaimRow(worker[w].event)
      BY <2>1 DEF Claim
    <3> QED BY <3>1, <3>2 DEF RowStep
  <2>2. CASE Finalize(w)
    <3>1. worker[w].event \in Event
      BY <2>2, BusyWorkerHasEvent DEF Finalize
    <3>2. RowStep(worker[w].event) \/ UNCHANGED db
      BY <2>2 DEF Finalize, FinalizeAs, RowStep, CasMiss
    <3> QED BY <3>1, <3>2
  <2>3. CASE (\E e \in Event : ReceiveJob(w, e)) \/ ClaimMiss(w) \/ Diagnose(w)
               \/ ProviderAnswers(w) \/ Throw(w) \/ Acknowledge(w) \/ Crash(w)
    BY <2>3 DEF ReceiveJob, ClaimMiss, Diagnose, ProviderAnswers, Throw,
                Acknowledge, Crash
  <2> QED BY <1>2, <2>1, <2>2, <2>3 DEF WorkerStep
<1>3. ASSUME NEW s \in Sweeper, SweepStep(s)
      PROVE  (\E e \in Event : RowStep(e)) \/ UNCHANGED db
  <2>1. CASE SweepRecover(s)
    <3>1. sweep[s].event \in Event
      BY <2>1, BusySweepHasEvent DEF SweepRecover
    <3>2. RowStep(sweep[s].event) \/ UNCHANGED db
      BY <2>1 DEF SweepRecover, RowStep, CasMiss
    <3> QED BY <3>1, <3>2
  <2>2. CASE SweepSelect(s) \/ (\E e \in Event : SweepRead(s, e))
               \/ SweepEnqueue(s) \/ SweepThrow(s) \/ SweepCrash(s)
    BY <2>2 DEF SweepSelect, SweepRead, SweepEnqueue, SweepThrow, SweepCrash
  <2> QED BY <1>3, <2>1, <2>2 DEF SweepStep
<1> QED BY <1>1, <1>2, <1>3 DEF Next

(* A row step keeps the columns' types. *)
LEMMA RowTypeStep ==
  ASSUME ProcessingAssumption, RowTypeOK, NEW e \in Event, RowStep(e)
  PROVE  RowTypeOK'
<1> USE DEF RowTypeOK, Status, Terminal, FailureType
<1>1. ASSUME NEW from \in Status \cup {"NULL"}, NEW to \in Status, NEW n \in Nat,
             AppendHistory(e, from, to, n)
      PROVE  history' \in [Event -> Seq(HistoryRow)]
  <2> DEFINE row == [from |-> from, to |-> to, attempt |-> n]
  <2>1. row \in HistoryRow
    BY DEF HistoryRow
  <2>2. history[e] \in Seq(HistoryRow)
    OBVIOUS
  <2> HIDE DEF row
  <2>3. Append(history[e], row) \in Seq(HistoryRow)
    BY <2>1, <2>2
  <2>4. history' = [history EXCEPT ![e] = Append(history[e], row)]
    BY <1>1 DEF AppendHistory, row
  <2> QED BY <2>3, <2>4
<1>2. CASE InsertRow(e)
  <2>1. PICK f \in Event : sequence' = [sequence EXCEPT ![e] = sequence[f] + 1]
    BY <1>2 DEF InsertRow
  <2>2. sequence' \in [Event -> Nat]
    BY <2>1
  <2>3. history' \in [Event -> Seq(HistoryRow)]
    BY <1>1, <1>2 DEF InsertRow
  <2> QED BY <1>2, <2>2, <2>3 DEF InsertRow
<1>3. CASE ClaimRow(e)
  <2>1. history' \in [Event -> Seq(HistoryRow)]
    BY <1>1, <1>3 DEF ClaimRow
  <2>2. attempts' \in [Event -> Nat]
    BY <1>3 DEF ClaimRow
  <2>3. status' \in [Event -> Status] /\ stale' \in [Event -> BOOLEAN]
    BY <1>3 DEF ClaimRow
  <2> QED BY <1>3, <2>1, <2>2, <2>3 DEF ClaimRow
<1>4. CASE RetryTransition(e)
  <2>1. history' \in [Event -> Seq(HistoryRow)]
    BY <1>1, <1>4 DEF RetryTransition
  <2> QED BY <1>4, <2>1 DEF RetryTransition
<1>5. CASE FinalizeSuccess(e)
  <2>1. history' \in [Event -> Seq(HistoryRow)]
    BY <1>1, <1>5 DEF FinalizeSuccess
  <2> QED BY <1>5, <2>1 DEF FinalizeSuccess
<1>6. ASSUME NEW type \in {"RETRYABLE", "PERMANENT"}, FinalizeFailure(e, type)
      PROVE  RowTypeOK'
  <2>1. history' \in [Event -> Seq(HistoryRow)]
    BY <1>1, <1>6 DEF FinalizeFailure
  <2> QED BY <1>6, <2>1 DEF FinalizeFailure
<1>7. CASE PassThreshold(e)
  BY <1>7 DEF PassThreshold
<1> QED BY <1>2, <1>3, <1>4, <1>5, <1>6, <1>7 DEF RowStep

(* The records the actors keep, built by CallAt and PassAt. *)
LEMMA CallAtType ==
  ASSUME NEW pc \in {"claim", "diagnose", "provider", "finalize", "done"},
         NEW e \in Event, NEW n \in Nat,
         NEW a \in ProviderAnswer \cup Outcome \cup {"none"}
  PROVE  CallAt(pc, e, n, a) \in WorkerState
BY DEF CallAt, WorkerState

LEMMA NextCandidateType ==
  ASSUME ActorTypeOK, NEW s \in Sweeper, NEW todo \in SUBSET Event,
         NextCandidate(s, todo)
  PROVE  sweep' \in [Sweeper -> SweepState]
<1>1. PassAt(IF todo = {} THEN "idle" ELSE "next", None, 0, todo) \in SweepState
  BY DEF PassAt, SweepState
<1> QED BY <1>1 DEF ActorTypeOK, NextCandidate

LEMMA PassAtType ==
  ASSUME NEW todo \in SUBSET Event, NEW pc \in {"recover", "enqueue"},
         NEW e \in Event, NEW n \in Nat
  PROVE  PassAt(pc, e, n, todo) \in SweepState
BY DEF PassAt, SweepState

(* A worker's step keeps the types of the calls' states. *)
LEMMA WorkerTypeStep ==
  ASSUME ProcessingAssumption, RowTypeOK, ActorTypeOK,
         NEW w \in Worker, WorkerStep(w)
  PROVE  ActorTypeOK'
<1> DEFINE Typed == worker' \in [Worker -> WorkerState]
<1>1. UNCHANGED <<sweep, backstop>>
  BY DEF WorkerStep, ReceiveJob, Claim, ClaimMiss, Diagnose, ProviderAnswers,
         Finalize, Throw, Acknowledge, Crash
<1> SUFFICES Typed
  BY <1>1 DEF ActorTypeOK
<1>2. ASSUME NEW state \in WorkerState, Become(w, state)
      PROVE  Typed
  BY <1>2 DEF Become, ActorTypeOK
<1>3. ASSUME NEW e \in Event, NEW outcome \in Outcome, Return(w, e, outcome)
      PROVE  Typed
  BY <1>2, <1>3, CallAtType DEF Return
<1>4. IdleWorker \in WorkerState
  BY DEF WorkerState
<1>5. ASSUME NEW e \in Event, ReceiveJob(w, e)
      PROVE  Typed
  <2>1. CASE Become(w, CallAt("claim", e, 0, "none"))
    BY <1>2, <2>1, CallAtType
  <2>2. CASE \E outcome \in Outcome : Return(w, e, outcome)
    BY <1>3, <2>2
  <2> QED BY <1>5, <2>1, <2>2 DEF ReceiveJob, Outcome
<1>6. CASE Claim(w)
  <2>1. worker[w].event \in Event
    BY <1>6, BusyWorkerHasEvent DEF Claim
  <2>2. RowTypeOK'
    BY <1>6, <2>1, RowTypeStep DEF Claim, RowStep
  <2>3. attempts'[worker[w].event] \in Nat
    BY <2>1, <2>2 DEF RowTypeOK
  <2> QED BY <1>2, <1>6, <2>1, <2>3, CallAtType DEF Claim
<1>7. CASE ClaimMiss(w)
  <2>1. worker[w].event \in Event
    BY <1>7, BusyWorkerHasEvent DEF ClaimMiss
  <2> QED BY <1>2, <1>7, <2>1, CallAtType DEF ClaimMiss
<1>8. CASE Diagnose(w)
  <2>1. worker[w].event \in Event
    BY <1>8, BusyWorkerHasEvent DEF Diagnose
  <2> QED BY <1>3, <1>8, <2>1 DEF Diagnose, Outcome
<1>9. CASE ProviderAnswers(w)
  <2>1. worker[w].event \in Event
    BY <1>9, BusyWorkerHasEvent DEF ProviderAnswers
  <2>2. worker[w].attempt \in Nat
    BY DEF ActorTypeOK, WorkerState, IdleWorker
  <2>3. PICK a \in Answers[worker[w].event] :
          Become(w, CallAt("finalize", worker[w].event, worker[w].attempt, a))
    BY <1>9 DEF ProviderAnswers
  <2>4. a \in ProviderAnswer
    BY <2>1, <2>3 DEF ProcessingAssumption
  <2> QED BY <1>2, <2>1, <2>2, <2>3, <2>4, CallAtType
<1>10. CASE Finalize(w)
  <2>1. worker[w].event \in Event
    BY <1>10, BusyWorkerHasEvent DEF Finalize
  <2>2. \E outcome \in Outcome : Return(w, worker[w].event, outcome)
    BY <1>10 DEF Finalize, FinalizeAs, Outcome
  <2> QED BY <1>3, <2>1, <2>2
<1>11. CASE Throw(w)
  <2>1. worker[w].event \in Event
    BY <1>11, BusyWorkerHasEvent DEF Throw
  <2> QED BY <1>3, <1>11, <2>1 DEF Throw, Outcome
<1>12. CASE Acknowledge(w) \/ Crash(w)
  <2>1. Become(w, IdleWorker)
    BY <1>12 DEF Acknowledge, Crash
  <2> QED BY <1>2, <1>4, <2>1
<1> HIDE DEF Typed
<1> QED
  BY <1>5, <1>6, <1>7, <1>8, <1>9, <1>10, <1>11, <1>12 DEF WorkerStep

(* A sweep's step keeps the types of the passes' states. *)
LEMMA SweepTypeStep ==
  ASSUME RowTypeOK, ActorTypeOK, NEW s \in Sweeper, SweepStep(s)
  PROVE  ActorTypeOK'
<1> DEFINE Typed == sweep' \in [Sweeper -> SweepState]
<1>1. UNCHANGED <<worker, backstop>>
  BY DEF SweepStep, SweepSelect, SweepRead, SweepRecover, SweepEnqueue,
         SweepThrow, SweepCrash
<1> SUFFICES Typed
  BY <1>1 DEF ActorTypeOK
<1>2. sweep[s].todo \in SUBSET Event /\ sweep[s].attempt \in Nat
  BY DEF ActorTypeOK, SweepState
<1>3. ASSUME NEW todo \in SUBSET Event, NextCandidate(s, todo)
      PROVE  Typed
  BY <1>3, NextCandidateType
<1>4. CASE SweepSelect(s)
  BY <1>3, <1>4 DEF SweepSelect
<1>5. ASSUME NEW e \in Event, SweepRead(s, e)
      PROVE  Typed
  <2>1. attempts[e] \in Nat /\ sweep[s].todo \ {e} \in SUBSET Event
    BY <1>2 DEF RowTypeOK
  <2>2. PassAt("recover", e, attempts[e], sweep[s].todo \ {e}) \in SweepState
    BY <2>1, PassAtType
  <2>3. CASE NextCandidate(s, sweep[s].todo \ {e})
    BY <1>3, <2>1, <2>3
  <2>4. CASE sweep' = [sweep EXCEPT ![s] =
                         PassAt("recover", e, attempts[e], sweep[s].todo \ {e})]
    BY <2>2, <2>4 DEF ActorTypeOK
  <2> QED BY <1>5, <2>3, <2>4 DEF SweepRead
<1>6. CASE SweepRecover(s)
  <2> DEFINE e == sweep[s].event
  <2>1. e \in Event
    BY <1>6, BusySweepHasEvent DEF SweepRecover
  <2>2. PassAt("enqueue", e, sweep[s].attempt, sweep[s].todo) \in SweepState
    BY <1>2, <2>1, PassAtType
  <2>3. CASE NextCandidate(s, sweep[s].todo)
    BY <1>2, <1>3, <2>3
  <2>4. CASE sweep' = [sweep EXCEPT ![s] =
                         PassAt("enqueue", e, sweep[s].attempt, sweep[s].todo)]
    BY <2>2, <2>4 DEF ActorTypeOK
  <2> QED BY <1>6, <2>3, <2>4 DEF SweepRecover
<1>7. CASE SweepEnqueue(s)
  BY <1>2, <1>3, <1>7 DEF SweepEnqueue
<1>8. CASE SweepThrow(s)
  <2>1. PICK todo \in SUBSET Event : NextCandidate(s, todo)
    BY <1>2, <1>8 DEF SweepThrow
  <2> QED BY <1>3, <2>1
<1>9. CASE SweepCrash(s)
  <2>1. IdleSweep \in SweepState
    BY DEF IdleSweep, SweepState
  <2> QED BY <1>9, <2>1 DEF SweepCrash, ActorTypeOK
<1> HIDE DEF Typed
<1> QED BY <1>4, <1>5, <1>6, <1>7, <1>8, <1>9 DEF SweepStep

LEMMA TypeSplit == TypeOK <=> RowTypeOK /\ ActorTypeOK
BY DEF TypeOK, RowTypeOK, ActorTypeOK

LEMMA TypeStep ==
  ASSUME ProcessingAssumption, TypeOK, [Next]_vars
  PROVE  TypeOK'
<1> SUFFICES RowTypeOK' /\ ActorTypeOK'
  BY DEF TypeOK, RowTypeOK, ActorTypeOK
<1>1. RowTypeOK /\ ActorTypeOK
  BY TypeSplit
<1>2. RowTypeOK'
  <2>1. CASE UNCHANGED db
    BY <1>1, <2>1 DEF RowTypeOK, db
  <2>2. CASE \E e \in Event : RowStep(e)
    BY <1>1, <2>2, RowTypeStep
  <2>3. CASE UNCHANGED vars
    BY <2>1, <2>3 DEF vars, db
  <2> QED BY <1>1, <2>1, <2>2, <2>3, StepOfTables
<1>3. ActorTypeOK'
  <2>1. ASSUME NEW w \in Worker, WorkerStep(w)
        PROVE  ActorTypeOK'
    BY <1>1, <2>1, WorkerTypeStep
  <2>2. ASSUME NEW s \in Sweeper, SweepStep(s)
        PROVE  ActorTypeOK'
    BY <1>1, <2>2, SweepTypeStep
  <2>3. ASSUME NEW e \in Event, EventStep(e)
        PROVE  ActorTypeOK'
    BY <1>1, <2>3 DEF EventStep, Submit, BecomeStale, BackstopRead,
                      BackstopFinalize, BackstopLost, ActorTypeOK
  <2>4. CASE UNCHANGED vars
    BY <1>1, <2>4 DEF vars, ActorTypeOK
  <2> QED BY <2>1, <2>2, <2>3, <2>4 DEF Next
<1> QED BY <1>2, <1>3

LEMMA TypeInit == ASSUME ProcessingAssumption, Init PROVE TypeOK
<1>1. RowTypeOK
  BY DEF Init, RowTypeOK, Status, FailureType
<1>2. ActorTypeOK
  BY DEF Init, ActorTypeOK, WorkerState, SweepState, IdleSweep
<1> QED BY <1>1, <1>2, TypeSplit

(* The tables and the calls hold values of their types in every behaviour. *)
THEOREM TypeCorrect == Spec => []TypeOK
<1>1. Init => TypeOK
  BY ProcessingAssumption, TypeInit
<1>2. TypeOK /\ [Next]_vars => TypeOK'
  BY ProcessingAssumption, TypeStep
<1> QED BY <1>1, <1>2, PTL DEF Spec

-----------------------------------------------------------------------------
(* Per-employee ordering. *)

(* An event without a row has no number and no attempt; a row has a number. *)
RowsNumbered ==
  \A e \in Event :
    /\ status[e] = "NONE" => sequence[e] = 0 /\ attempts[e] = 0
    /\ status[e] # "NONE" => sequence[e] > 0

(* OrderedClaim is not inductive alone: that a new row does not come before a *)
(* claimed one needs the numbering.                                           *)
OrderInv == RowTypeOK /\ RowsNumbered /\ DistinctSequences /\ OrderedClaim

(* Every statement but the insert leaves the numbering alone, creates no row, *)
(* and takes no row out of a terminal state.                                  *)
LEMMA UpdateKeepsOrder ==
  ASSUME RowTypeOK, NEW e \in Event, RowStep(e), ~InsertRow(e)
  PROVE  /\ sequence' = sequence
         /\ status[e] # "NONE" /\ status'[e] # "NONE"
         /\ \A f \in Event : f # e => status'[f] = status[f]
         /\ status[e] \notin Terminal \/ status'[e] = status[e]
         /\ attempts' = attempts \/ ClaimRow(e)
BY DEF RowTypeOK, RowStep, ClaimRow, Claimable, RetryTransition, FinalizeSuccess,
       FinalizeFailure, PassThreshold, Terminal

LEMMA InsertOrdered ==
  ASSUME ProcessingAssumption, OrderInv, NEW e \in Event, InsertRow(e)
  PROVE  RowsNumbered' /\ DistinctSequences' /\ OrderedClaim'
<1> USE DEF OrderInv, RowTypeOK
<1>1. PICK m \in Event :
        /\ HasMaxSequence(m, e)
        /\ sequence' = [sequence EXCEPT ![e] = sequence[m] + 1]
  BY DEF InsertRow
<1>2. /\ status[e] = "NONE"
      /\ status' = [status EXCEPT ![e] = "PENDING"]
      /\ attempts' = attempts
  BY DEF InsertRow
<1>3. \A f \in Event : f # e => sequence'[f] = sequence[f] /\ status'[f] = status[f]
  BY <1>1, <1>2
<1>4. sequence'[e] = sequence[m] + 1 /\ sequence'[e] \in Nat /\ sequence'[e] > 0
  BY <1>1
<1>5. \A f \in Event : EmployeeOf[f] = EmployeeOf[e] => sequence[f] < sequence'[e]
  BY <1>1, <1>4 DEF HasMaxSequence, Siblings
<1>6. RowsNumbered'
  BY <1>2, <1>3, <1>4 DEF RowsNumbered
<1>7. DistinctSequences'
  <2> SUFFICES ASSUME NEW g \in Event, NEW f \in Event,
                      EmployeeOf[g] = EmployeeOf[f], g # f,
                      status'[g] # "NONE", status'[f] # "NONE"
               PROVE  sequence'[g] # sequence'[f]
    BY DEF DistinctSequences
  <2>1. CASE g = e
    BY <1>3, <1>4, <1>5, <2>1
  <2>2. CASE f = e
    BY <1>3, <1>4, <1>5, <2>2
  <2>3. CASE g # e /\ f # e
    BY <1>3, <2>3 DEF DistinctSequences
  <2> QED BY <2>1, <2>2, <2>3
<1>8. OrderedClaim'
  <2> SUFFICES ASSUME NEW g \in Event, attempts'[g] > 0, NEW f \in Earlier(g)'
               PROVE  status'[f] \in Terminal
    BY DEF OrderedClaim
  <2>1. g # e
    BY <1>2 DEF RowsNumbered
  <2>2. f \in Event /\ EmployeeOf[f] = EmployeeOf[g] /\ status'[f] # "NONE"
        /\ sequence'[f] < sequence'[g]
    BY DEF Earlier, Siblings
  <2>3. f # e
    <3>1. sequence'[g] = sequence[g] /\ sequence[g] \in Nat
      BY <1>3, <2>1
    <3>2. EmployeeOf[g] = EmployeeOf[e] => sequence[g] < sequence'[e]
      BY <1>5
    <3> QED BY <1>4, <2>2, <3>1, <3>2
  <2>4. f \in Earlier(g)
    BY <1>3, <2>1, <2>2, <2>3 DEF Earlier, Siblings
  <2> QED BY <1>2, <1>3, <2>3, <2>4 DEF OrderedClaim
<1> QED BY <1>6, <1>7, <1>8

LEMMA UpdateOrdered ==
  ASSUME OrderInv, NEW e \in Event, RowStep(e), ~InsertRow(e)
  PROVE  RowsNumbered' /\ DistinctSequences' /\ OrderedClaim'
<1> USE DEF OrderInv
<1>1. /\ sequence' = sequence
      /\ status[e] # "NONE" /\ status'[e] # "NONE"
      /\ \A f \in Event : f # e => status'[f] = status[f]
      /\ status[e] \notin Terminal \/ status'[e] = status[e]
      /\ attempts' = attempts \/ ClaimRow(e)
  BY UpdateKeepsOrder
<1>2. \A f \in Event : f # e => attempts'[f] = attempts[f]
  BY <1>1 DEF ClaimRow, RowTypeOK
<1>3. \A g \in Event : Earlier(g)' = Earlier(g)
  BY <1>1 DEF Earlier, Siblings
<1>4. RowsNumbered'
  BY <1>1, <1>2 DEF RowsNumbered
<1>5. DistinctSequences'
  BY <1>1 DEF DistinctSequences
<1>6. OrderedClaim'
  <2> SUFFICES ASSUME NEW g \in Event, attempts'[g] > 0, NEW f \in Earlier(g)
               PROVE  status'[f] \in Terminal
    BY <1>3 DEF OrderedClaim
  <2>1. f \in Event
    BY DEF Earlier, Siblings
  <2>2. status[f] \in Terminal
    <3>1. CASE attempts'[g] = attempts[g]
      BY <3>1 DEF OrderedClaim
    <3>2. CASE g = e /\ ClaimRow(e)
      BY <3>2 DEF ClaimRow, Claimable, BlockedByOrdering
    <3> QED BY <1>1, <1>2, <3>1, <3>2
  <2> QED BY <1>1, <2>1, <2>2
<1> QED BY <1>4, <1>5, <1>6

LEMMA OrderStep ==
  ASSUME ProcessingAssumption, ActorTypeOK, OrderInv, [Next]_vars
  PROVE  OrderInv'
<1>1. CASE UNCHANGED db
  BY <1>1 DEF OrderInv, RowTypeOK, RowsNumbered, DistinctSequences, OrderedClaim,
              Earlier, Siblings, db
<1>2. ASSUME NEW e \in Event, RowStep(e)
      PROVE  OrderInv'
  <2>1. RowTypeOK'
    BY <1>2, RowTypeStep DEF OrderInv
  <2> QED BY <1>2, <2>1, InsertOrdered, UpdateOrdered DEF OrderInv
<1>3. CASE UNCHANGED vars
  BY <1>1, <1>3 DEF vars, db
<1> QED BY <1>1, <1>2, <1>3, StepOfTables

LEMMA OrderInit == ASSUME ProcessingAssumption, Init PROVE OrderInv
BY TypeInit, TypeSplit
   DEF Init, OrderInv, RowsNumbered, DistinctSequences, OrderedClaim

(* Whatever the workers, the sweeps, the backstop and crashes do, an event    *)
(* that was ever claimed has only finished events before it, and two rows of  *)
(* an employee never share a place in its order.                              *)
THEOREM Ordering == Spec => [](OrderedClaim /\ DistinctSequences)
<1>1. Init => OrderInv
  BY ProcessingAssumption, OrderInit
<1>2. TypeOK /\ OrderInv /\ [Next]_vars => OrderInv'
  BY ProcessingAssumption, OrderStep, TypeSplit
<1>3. OrderInv => OrderedClaim /\ DistinctSequences
  BY DEF OrderInv
<1> QED BY <1>1, <1>2, <1>3, TypeCorrect, PTL DEF Spec

-----------------------------------------------------------------------------
(* Outcomes are final. *)

LEMMA OtherRowsUntouched ==
  ASSUME RowTypeOK, NEW e \in Event, RowStep(e), NEW f \in Event, f # e
  PROVE  /\ status'[f] = status[f]
         /\ attempts'[f] = attempts[f]
         /\ result'[f] = result[f]
         /\ failureType'[f] = failureType[f]
         /\ history'[f] = history[f]
<1> USE DEF RowTypeOK, AppendHistory
<1>1. CASE InsertRow(e)
  BY <1>1 DEF InsertRow
<1>2. CASE ClaimRow(e)
  BY <1>2 DEF ClaimRow
<1>3. CASE RetryTransition(e)
  BY <1>3 DEF RetryTransition
<1>4. CASE FinalizeSuccess(e)
  BY <1>4 DEF FinalizeSuccess
<1>5. ASSUME NEW type \in {"RETRYABLE", "PERMANENT"}, FinalizeFailure(e, type)
      PROVE  /\ status'[f] = status[f]
             /\ attempts'[f] = attempts[f]
             /\ result'[f] = result[f]
             /\ failureType'[f] = failureType[f]
             /\ history'[f] = history[f]
  BY <1>5 DEF FinalizeFailure
<1>6. CASE PassThreshold(e)
  BY <1>6 DEF PassThreshold
<1> QED BY <1>1, <1>2, <1>3, <1>4, <1>5, <1>6 DEF RowStep

LEMMA TerminalRowsUntouched ==
  ASSUME NEW e \in Event, RowStep(e)
  PROVE  status[e] \notin Terminal
BY DEF RowStep, InsertRow, ClaimRow, Claimable, RetryTransition, FinalizeSuccess,
       FinalizeFailure, PassThreshold, Terminal

(* A row in a terminal state and its history are never written again.        *)
THEOREM OutcomesAreFinal == Spec => TerminalFrozen
<1> DEFINE Frozen == \A e \in Event : status[e] \in Terminal =>
                       /\ status'[e] = status[e]
                       /\ attempts'[e] = attempts[e]
                       /\ result'[e] = result[e]
                       /\ failureType'[e] = failureType[e]
                       /\ history'[e] = history[e]
<1>1. TypeOK /\ [Next]_vars => [Frozen]_vars
  <2> SUFFICES ASSUME TypeOK, Next PROVE Frozen
    OBVIOUS
  <2>1. CASE UNCHANGED db
    BY <2>1 DEF db
  <2>2. ASSUME NEW e \in Event, RowStep(e)
        PROVE  Frozen
    BY <2>2, TypeSplit, OtherRowsUntouched, TerminalRowsUntouched
  <2> QED BY <2>1, <2>2, StepOfTables, TypeSplit, ProcessingAssumption
<1> QED BY <1>1, TypeCorrect, PTL DEF Spec, TerminalFrozen

(* An event has a result exactly when it succeeded and a failure type exactly *)
(* when it failed.                                                            *)
THEOREM OutcomesAreUnique == Spec => []OneOutcome
<1>1. Init => OneOutcome
  BY DEF Init, OneOutcome
<1>2. TypeOK /\ OneOutcome /\ [Next]_vars => OneOutcome'
  <2> SUFFICES ASSUME TypeOK, OneOutcome, [Next]_vars PROVE OneOutcome'
    OBVIOUS
  <2>1. CASE UNCHANGED db
    BY <2>1 DEF OneOutcome, db
  <2>2. ASSUME NEW e \in Event, RowStep(e)
        PROVE  OneOutcome'
    <3>1. RowTypeOK
      BY TypeSplit
    <3>2. ASSUME NEW f \in Event, f # e
          PROVE  /\ result'[f] <=> status'[f] = "SUCCEEDED"
                 /\ failureType'[f] # "NULL" <=> status'[f] = "FAILED"
      BY <2>2, <3>1, <3>2, OtherRowsUntouched DEF OneOutcome
    <3>3. /\ result'[e] <=> status'[e] = "SUCCEEDED"
          /\ failureType'[e] # "NULL" <=> status'[e] = "FAILED"
      BY <2>2, <3>1 DEF OneOutcome, RowTypeOK, RowStep, InsertRow, ClaimRow,
         Claimable, RetryTransition, FinalizeSuccess, FinalizeFailure, PassThreshold
    <3> QED BY <3>2, <3>3 DEF OneOutcome
  <2>3. CASE UNCHANGED vars
    BY <2>1, <2>3 DEF vars, db
  <2> QED BY <2>1, <2>2, <2>3, StepOfTables, TypeSplit, ProcessingAssumption
<1> QED BY <1>1, <1>2, TypeCorrect, PTL DEF Spec

-----------------------------------------------------------------------------
(* The audit trail. *)

HistoryEntry(from, to, n) == [from |-> from, to |-> to, attempt |-> n]

LEMMA TrailOfSubmission ==
  IsTrail(Append(<<>>, HistoryEntry("NULL", "PENDING", 0)), "PENDING", 0)
BY DEF IsTrail, HistoryEntry

LEMMA TrailOfClaim ==
  ASSUME NEW rows \in Seq(HistoryRow), NEW n \in Nat, IsTrail(rows, "PENDING", n)
  PROVE  IsTrail(Append(rows, HistoryEntry("PENDING", "PROCESSING", n + 1)),
                 "PROCESSING", n + 1)
<1> DEFINE entry == HistoryEntry("PENDING", "PROCESSING", n + 1)
           longer == Append(rows, entry)
<1>1. Len(rows) = 2 * n + 1
  BY DEF IsTrail
<1>2. /\ Len(longer) = 2 * n + 2
      /\ \A i \in 1..(2 * n + 1) : longer[i] = rows[i]
      /\ longer[2 * n + 2] = entry
  BY <1>1
<1> HIDE DEF longer
<1>3. longer[1] = [from |-> "NULL", to |-> "PENDING", attempt |-> 0]
  BY <1>2 DEF IsTrail
<1>4. ASSUME NEW k \in 1..(n + 1)
      PROVE  longer[2 * k] = [from |-> "PENDING", to |-> "PROCESSING", attempt |-> k]
  <2>1. CASE k = n + 1
    BY <1>2, <2>1 DEF HistoryEntry
  <2>2. CASE k \in 1..n
    <3>1. 2 * k \in 1..(2 * n + 1)
      BY <2>2
    <3> QED BY <1>2, <2>2, <3>1 DEF IsTrail
  <2> QED BY <2>1, <2>2
<1>5. ASSUME NEW k \in 1..(n + 1), 2 * k + 1 <= Len(longer)
      PROVE  longer[2 * k + 1] = [from |-> "PROCESSING", attempt |-> k,
                                  to |-> IF k = n + 1 THEN "PROCESSING" ELSE "PENDING"]
  <2>1. k \in 1..n /\ 2 * k + 1 \in 1..(2 * n + 1)
    BY <1>2, <1>5
  <2>2. rows[2 * k + 1] = [from |-> "PROCESSING", attempt |-> k, to |-> "PENDING"]
    BY <1>1, <2>1 DEF IsTrail
  <2> QED BY <1>2, <2>1, <2>2
<1> QED BY <1>2, <1>3, <1>4, <1>5 DEF IsTrail, longer

LEMMA TrailOfEnd ==
  ASSUME NEW rows \in Seq(HistoryRow), NEW n \in Nat, n > 0,
         IsTrail(rows, "PROCESSING", n), NEW to \in {"PENDING", "SUCCEEDED", "FAILED"}
  PROVE  IsTrail(Append(rows, HistoryEntry("PROCESSING", to, n)), to, n)
<1> DEFINE entry == HistoryEntry("PROCESSING", to, n)
           longer == Append(rows, entry)
<1>1. Len(rows) = 2 * n
  BY DEF IsTrail
<1>2. /\ Len(longer) = 2 * n + 1
      /\ \A i \in 1..(2 * n) : longer[i] = rows[i]
      /\ longer[2 * n + 1] = entry
  BY <1>1
<1> HIDE DEF longer
<1>3. longer[1] = [from |-> "NULL", to |-> "PENDING", attempt |-> 0]
  BY <1>2 DEF IsTrail
<1>4. ASSUME NEW k \in 1..n
      PROVE  longer[2 * k] = [from |-> "PENDING", to |-> "PROCESSING", attempt |-> k]
  <2>1. 2 * k \in 1..(2 * n)
    OBVIOUS
  <2> QED BY <1>2, <2>1 DEF IsTrail
<1>5. ASSUME NEW k \in 1..n
      PROVE  longer[2 * k + 1] = [from |-> "PROCESSING", attempt |-> k,
                                  to |-> IF k = n THEN to ELSE "PENDING"]
  <2>1. CASE k = n
    BY <1>2, <2>1 DEF HistoryEntry
  <2>2. CASE k # n
    <3>1. 2 * k + 1 \in 1..(2 * n) /\ 2 * k + 1 <= Len(rows)
      BY <1>1, <2>2
    <3>2. rows[2 * k + 1] = [from |-> "PROCESSING", attempt |-> k, to |-> "PENDING"]
      BY <2>2, <3>1 DEF IsTrail
    <3> QED BY <1>2, <2>2, <3>1, <3>2
  <2> QED BY <2>1, <2>2
<1>6. Len(longer) = CASE to = "NONE" -> 0 [] to = "PROCESSING" -> 2 * n
                      [] OTHER -> 2 * n + 1
  BY <1>2
<1> QED BY <1>3, <1>4, <1>5, <1>6 DEF IsTrail, longer

(* AuditTrail with what it needs to be inductive: a row that does not exist   *)
(* has no history, and a row being processed has been claimed.                *)
TrailInv ==
  /\ AuditTrail
  /\ \A e \in Event :
       /\ status[e] = "NONE" => attempts[e] = 0 /\ history[e] = <<>>
       /\ status[e] = "PROCESSING" => attempts[e] > 0

LEMMA TrailStep ==
  ASSUME RowTypeOK, TrailInv, NEW e \in Event, RowStep(e)
  PROVE  TrailInv'
<1> USE DEF RowTypeOK
<1> DEFINE RowTrail == /\ IsTrail(history'[e], status'[e], attempts'[e])
                       /\ status'[e] # "NONE"
                       /\ status'[e] = "PROCESSING" => attempts'[e] > 0
<1>1. RowTrail
  <2>1. ASSUME NEW from, NEW to, NEW n, AppendHistory(e, from, to, n)
        PROVE  history'[e] = Append(history[e], HistoryEntry(from, to, n))
    BY <2>1 DEF AppendHistory, HistoryEntry
  <2>2. history[e] \in Seq(HistoryRow) /\ attempts[e] \in Nat
        /\ IsTrail(history[e], status[e], attempts[e])
    BY DEF TrailInv, AuditTrail
  <2>3. CASE InsertRow(e)
    <3>1. history[e] = <<>> /\ attempts'[e] = 0 /\ status'[e] = "PENDING"
      BY <2>3 DEF InsertRow, TrailInv
    <3>2. history'[e] = Append(<<>>, HistoryEntry("NULL", "PENDING", 0))
      BY <2>1, <2>3, <3>1 DEF InsertRow
    <3> QED BY <3>1, <3>2, TrailOfSubmission
  <2>4. CASE ClaimRow(e)
    <3>1. /\ status[e] = "PENDING" /\ status'[e] = "PROCESSING"
          /\ attempts'[e] = attempts[e] + 1
      BY <2>4 DEF ClaimRow, Claimable
    <3>2. history'[e] = Append(history[e],
                          HistoryEntry("PENDING", "PROCESSING", attempts[e] + 1))
      BY <2>1, <2>4 DEF ClaimRow
    <3>3. IsTrail(history'[e], "PROCESSING", attempts[e] + 1)
      BY <2>2, <3>1, <3>2, TrailOfClaim
    <3> QED BY <2>2, <3>1, <3>3
  <2>5. ASSUME NEW to \in {"PENDING", "SUCCEEDED", "FAILED"},
               status[e] = "PROCESSING", status'[e] = to, attempts' = attempts,
               AppendHistory(e, "PROCESSING", to, attempts[e])
        PROVE  RowTrail
    <3>1. history'[e] = Append(history[e], HistoryEntry("PROCESSING", to, attempts[e]))
      BY <2>1, <2>5
    <3>2. attempts[e] > 0
      BY <2>5 DEF TrailInv
    <3>3. IsTrail(history'[e], to, attempts[e])
      BY <2>2, <2>5, <3>1, <3>2, TrailOfEnd
    <3> QED BY <2>5, <3>3
  <2>6. CASE RetryTransition(e)
    BY <2>5, <2>6 DEF RetryTransition
  <2>7. CASE FinalizeSuccess(e)
    BY <2>5, <2>7 DEF FinalizeSuccess
  <2>8. ASSUME NEW type \in {"RETRYABLE", "PERMANENT"}, FinalizeFailure(e, type)
        PROVE  RowTrail
    BY <2>5, <2>8 DEF FinalizeFailure
  <2>9. CASE PassThreshold(e)
    BY <2>2, <2>9 DEF PassThreshold, TrailInv
  <2> QED BY <2>3, <2>4, <2>6, <2>7, <2>8, <2>9 DEF RowStep
<1>2. ASSUME NEW f \in Event, f # e
      PROVE  /\ status'[f] = status[f]
             /\ attempts'[f] = attempts[f]
             /\ history'[f] = history[f]
  BY <1>2, OtherRowsUntouched
<1>3. AuditTrail'
  BY <1>1, <1>2 DEF TrailInv, AuditTrail
<1> QED BY <1>1, <1>2, <1>3 DEF TrailInv

(* In every behaviour the history of an event is the exact record of its      *)
(* attempts, up to the status the event has now.                              *)
THEOREM AuditIsComplete == Spec => []AuditTrail
<1>1. Init => TrailInv
  BY DEF Init, TrailInv, AuditTrail, IsTrail
<1>2. TypeOK /\ TrailInv /\ [Next]_vars => TrailInv'
  <2> SUFFICES ASSUME TypeOK, TrailInv, [Next]_vars PROVE TrailInv'
    OBVIOUS
  <2>1. CASE UNCHANGED db
    BY <2>1 DEF TrailInv, AuditTrail, db
  <2>2. CASE \E e \in Event : RowStep(e)
    BY <2>2, TypeSplit, TrailStep
  <2>3. CASE UNCHANGED vars
    BY <2>1, <2>3 DEF vars, db
  <2> QED BY <2>1, <2>2, <2>3, StepOfTables, TypeSplit, ProcessingAssumption
<1>3. TrailInv => AuditTrail
  BY DEF TrailInv
<1> QED BY <1>1, <1>2, <1>3, TypeCorrect, PTL DEF Spec

-----------------------------------------------------------------------------
(* Refinement of the lifecycle. *)

LEMMA RowStepRefines ==
  ASSUME ProcessingAssumption, OrderInv, NEW e \in Event, RowStep(e)
  PROVE  Lifecycle!LifecycleNext \/ UNCHANGED Lifecycle!lifecycleVars
<1> DEFINE ahead == [g \in Event |-> Earlier(g)]
<1> USE DEF OrderInv, RowTypeOK
<1>1. CASE InsertRow(e)
  <2>1. PICK m \in Event :
          /\ HasMaxSequence(m, e)
          /\ sequence' = [sequence EXCEPT ![e] = sequence[m] + 1]
    BY <1>1 DEF InsertRow
  <2>2. status[e] = "NONE" /\ status' = [status EXCEPT ![e] = "PENDING"]
    BY <1>1 DEF InsertRow
  <2>3. \A f \in Siblings(e) : sequence[f] < sequence'[e]
    BY <2>1 DEF HasMaxSequence, Siblings
  <2>4. Earlier(e)' = {f \in Event : status[f] # "NONE" /\ EmployeeOf[f] = EmployeeOf[e]}
    <3>1. ASSUME NEW f \in Event
          PROVE  f \in Earlier(e)' <=> status[f] # "NONE" /\ EmployeeOf[f] = EmployeeOf[e]
      <4>1. CASE f = e
        BY <2>1, <2>2, <4>1 DEF Earlier, Siblings
      <4>2. CASE f # e
        BY <2>1, <2>2, <2>3, <4>2 DEF Earlier, Siblings
      <4> QED BY <4>1, <4>2
    <3> QED BY <3>1 DEF Earlier, Siblings
  <2>5. ASSUME NEW g \in Event, g # e
        PROVE  Earlier(g)' = Earlier(g)
    <3>1. sequence'[g] = sequence[g]
      BY <2>1, <2>5
    <3>2. EmployeeOf[e] = EmployeeOf[g] => sequence[g] < sequence'[e]
      BY <2>3 DEF Siblings
    <3>3. sequence'[e] \in Nat
      BY <2>1
    <3>4. ASSUME NEW f \in Event
          PROVE  f \in Earlier(g)' <=> f \in Earlier(g)
      <4>1. CASE f = e
        BY <2>2, <3>1, <3>2, <3>3, <4>1 DEF Earlier, Siblings
      <4>2. CASE f # e
        BY <2>1, <2>2, <3>1, <4>2 DEF Earlier, Siblings
      <4> QED BY <4>1, <4>2
    <3> QED BY <3>4 DEF Earlier, Siblings
  <2>6. ahead' = [ahead EXCEPT ![e] =
                    {f \in Event : status[f] # "NONE" /\ EmployeeOf[f] = EmployeeOf[e]}]
    BY <2>4, <2>5
  <2>7. Lifecycle!Accept(e)
    BY <2>2, <2>6 DEF Lifecycle!Accept
  <2> QED BY <2>7 DEF Lifecycle!LifecycleNext
<1>2. CASE ~InsertRow(e)
  <2>1. /\ sequence' = sequence
        /\ status[e] # "NONE" /\ status'[e] # "NONE"
        /\ \A f \in Event : f # e => status'[f] = status[f]
    BY <1>2, UpdateKeepsOrder
  <2>2. ASSUME NEW g \in Event
        PROVE  Earlier(g)' = Earlier(g)
    BY <2>1 DEF Earlier, Siblings
  <2>3. ahead' = ahead
    BY <2>2
  <2>4. CASE ClaimRow(e)
    <3>1. Lifecycle!Start(e)
      BY <2>3, <2>4 DEF Lifecycle!Start, Lifecycle!Ended, ClaimRow, Claimable,
                        BlockedByOrdering, Terminal
    <3> QED BY <3>1 DEF Lifecycle!LifecycleNext
  <2>5. ASSUME NEW to \in {"PENDING", "SUCCEEDED", "FAILED"},
               status[e] = "PROCESSING", status' = [status EXCEPT ![e] = to]
        PROVE  Lifecycle!LifecycleNext
    <3>1. Lifecycle!Leave(e, to)
      BY <2>3, <2>5 DEF Lifecycle!Leave
    <3> QED BY <3>1 DEF Lifecycle!LifecycleNext, Lifecycle!Ended
  <2>6. CASE RetryTransition(e)
    BY <2>5, <2>6 DEF RetryTransition
  <2>7. CASE FinalizeSuccess(e)
    BY <2>5, <2>7 DEF FinalizeSuccess
  <2>8. ASSUME NEW type \in {"RETRYABLE", "PERMANENT"}, FinalizeFailure(e, type)
        PROVE  Lifecycle!LifecycleNext
    BY <2>5, <2>8 DEF FinalizeFailure
  <2>9. CASE PassThreshold(e)
    BY <2>3, <2>9 DEF PassThreshold, Lifecycle!lifecycleVars
  <2> QED BY <1>2, <2>4, <2>6, <2>7, <2>8, <2>9 DEF RowStep
<1> QED BY <1>1, <1>2

(* The concurrent processing of the rows implements the lifecycle: an event   *)
(* starts only when all events accepted before it have ended, whatever the    *)
(* number of workers and sweeps.                                              *)
THEOREM ProcessingImplementsLifecycle == Spec => ImplementsLifecycle
<1>1. Init => OrderInv /\ Lifecycle!LifecycleInit
  <2> SUFFICES ASSUME Init PROVE OrderInv /\ Lifecycle!LifecycleInit
    OBVIOUS
  <2>1. \A e \in Event : Earlier(e) = {}
    BY DEF Init, Earlier, Siblings
  <2>2. Lifecycle!LifecycleInit
    BY <2>1 DEF Init, Lifecycle!LifecycleInit
  <2> QED BY <2>2, OrderInit, ProcessingAssumption
<1>2. TypeOK /\ OrderInv /\ [Next]_vars => OrderInv'
  BY ProcessingAssumption, OrderStep, TypeSplit
<1>3. TypeOK /\ OrderInv /\ [Next]_vars
        => [Lifecycle!LifecycleNext]_(Lifecycle!lifecycleVars)
  <2> SUFFICES ASSUME TypeOK, OrderInv, [Next]_vars
               PROVE  Lifecycle!LifecycleNext \/ UNCHANGED Lifecycle!lifecycleVars
    OBVIOUS
  <2>1. CASE UNCHANGED db
    BY <2>1 DEF db, Lifecycle!lifecycleVars, Earlier, Siblings
  <2>2. CASE \E e \in Event : RowStep(e)
    BY <2>2, RowStepRefines, ProcessingAssumption
  <2>3. CASE UNCHANGED vars
    BY <2>1, <2>3 DEF vars, db
  <2> QED BY <2>1, <2>2, <2>3, StepOfTables, TypeSplit, ProcessingAssumption
<1> QED BY <1>1, <1>2, <1>3, TypeCorrect, PTL
        DEF Spec, ImplementsLifecycle, Lifecycle!LifecycleSpec
-----------------------------------------------------------------------------
(* One after the other. *)

(* An event in processing was claimed, so that OrderedClaim speaks of it. *)
RunningCounted == \A e \in Event : status[e] = "PROCESSING" => attempts[e] > 0

LEMMA RunningCountedStep ==
  ASSUME ProcessingAssumption, TypeOK, RunningCounted, [Next]_vars
  PROVE  RunningCounted'
<1>1. RowTypeOK /\ ActorTypeOK
  BY TypeSplit
<1>2. CASE UNCHANGED db
  BY <1>2 DEF RunningCounted, db
<1>3. ASSUME NEW e \in Event, RowStep(e)
      PROVE  RunningCounted'
  <2>1. ASSUME NEW f \in Event, f # e, status'[f] = "PROCESSING"
        PROVE  attempts'[f] > 0
    BY <1>1, <1>3, <2>1, OtherRowsUntouched DEF RunningCounted
  <2>2. ASSUME status'[e] = "PROCESSING"
        PROVE  attempts'[e] > 0
    BY <1>1, <1>3, <2>2 DEF RunningCounted, RowTypeOK, RowStep, InsertRow, ClaimRow,
       Claimable, RetryTransition, FinalizeSuccess, FinalizeFailure, PassThreshold
  <2> QED BY <2>1, <2>2 DEF RunningCounted
<1>4. CASE UNCHANGED vars
  BY <1>2, <1>4 DEF vars, db
<1> QED BY <1>1, <1>2, <1>3, <1>4, StepOfTables

LEMMA OrderKept == Spec => [](OrderInv /\ RunningCounted)
<1>1. Init => OrderInv /\ RunningCounted
  BY OrderInit, ProcessingAssumption DEF Init, RunningCounted
<1>2. TypeOK /\ OrderInv /\ [Next]_vars => OrderInv'
  BY ProcessingAssumption, OrderStep, TypeSplit
<1>3. TypeOK /\ RunningCounted /\ [Next]_vars => RunningCounted'
  BY ProcessingAssumption, RunningCountedStep
<1> QED BY <1>1, <1>2, <1>3, TypeCorrect, PTL DEF Spec

(* Two rows of an employee are never PROCESSING at the same time, although the *)
(* claims of different workers, late calls, sweeps and crashes interleave.     *)
THEOREM RowsRunOneAtATime == Spec => []Lifecycle!OneRunningPerEmployee
<1>1. OrderInv /\ RunningCounted => Lifecycle!OneRunningPerEmployee
  <2> SUFFICES ASSUME OrderInv, RunningCounted,
                      NEW e \in Event, NEW f \in Event,
                      e # f, EmployeeOf[e] = EmployeeOf[f],
                      status[e] = "PROCESSING", status[f] = "PROCESSING"
               PROVE  FALSE
    BY DEF Lifecycle!OneRunningPerEmployee
  <2>1. e \in Earlier(f) \/ f \in Earlier(e)
    <3>1. sequence[e] \in Nat /\ sequence[f] \in Nat
      BY DEF OrderInv, RowTypeOK
    <3>2. sequence[e] # sequence[f]
      BY DEF OrderInv, DistinctSequences
    <3>3. sequence[e] < sequence[f] \/ sequence[f] < sequence[e]
      BY <3>1, <3>2
    <3> QED BY <3>3 DEF Earlier, Siblings
  <2>2. status[e] \in Terminal \/ status[f] \in Terminal
    BY <2>1 DEF OrderInv, OrderedClaim, RunningCounted
  <2> QED BY <2>2 DEF Terminal
<1> QED BY <1>1, OrderKept, PTL

-----------------------------------------------------------------------------
(* A line never stops of itself and never forks. *)

Unfinished(e) == status[e] \in {"PENDING", "PROCESSING"}

(* The queue and the ordering rule let e go on: it runs, or it may be claimed. *)
MayGoOn(e) == status[e] = "PROCESSING" \/ Claimable(e)

(* Of an employee's unfinished events exactly one can go on, the first.       *)
OneHeadOfLine ==
  \A e \in Event :
    Unfinished(e) =>
      \E f \in Siblings(e) :
        /\ MayGoOn(f)
        /\ \A g \in Siblings(e) \ {f} : Unfinished(g) => f \in Earlier(g) /\ ~MayGoOn(g)

(* The least-number principle, from the library's well-foundedness of <.       *)
LEMMA LeastNumber ==
  ASSUME NEW S, S \subseteq Nat, S # {}
  PROVE  \E n \in S : \A m \in S : n <= m
<1> DEFINE R == OpToRel(<, Nat)
<1>1. IsWellFoundedOn(R, Nat)
  BY NatLessThanWellFounded, Zenon
<1>2. \A m, n \in Nat : m < n => <<m, n>> \in R
  BY DEF OpToRel
<1> HIDE DEF R
<1>3. PICK n \in S : \A m \in S : <<m, n>> \notin R
  BY <1>1, WFMin
<1>4. \A m \in S : ~(m < n)
  BY <1>2, <1>3, Zenon
<1> QED BY <1>4

(* The unfinished event with the least number has only finished ones before it. *)
LEMMA HeadExists ==
  ASSUME OrderInv, RunningCounted
  PROVE  OneHeadOfLine
<1> SUFFICES ASSUME NEW e \in Event, Unfinished(e)
             PROVE  \E f \in Siblings(e) :
                      /\ MayGoOn(f)
                      /\ \A g \in Siblings(e) \ {f} :
                           Unfinished(g) => f \in Earlier(g) /\ ~MayGoOn(g)
  BY DEF OneHeadOfLine
<1>1. \A g \in Event : sequence[g] \in Nat
  BY DEF OrderInv, RowTypeOK
<1>2. \A g \in Event : status[g] \in Status
  BY DEF OrderInv, RowTypeOK
<1> DEFINE waiting == {g \in Siblings(e) : Unfinished(g)}
<1>3. e \in waiting /\ waiting \subseteq Event
  BY DEF Siblings
<1>4. PICK n \in {sequence[g] : g \in waiting} : \A m \in {sequence[g] : g \in waiting} : n <= m
  <2> DEFINE S == {sequence[g] : g \in waiting}
  <2>1. S \subseteq Nat /\ S # {}
    BY <1>1, <1>3
  <2> HIDE DEF S
  <2>2. \E n \in S : \A m \in S : n <= m
    BY <2>1, LeastNumber
  <2> QED BY <2>2 DEF S
<1>5. PICK f \in waiting : \A g \in waiting : sequence[f] <= sequence[g]
  BY <1>4
<1>6. f \in Event /\ f \in Siblings(e) /\ Unfinished(f)
  BY <1>3, <1>5
<1>7. \A g \in Earlier(f) : status[g] \in Terminal
  <2> SUFFICES ASSUME NEW g \in Earlier(f), status[g] \notin Terminal
               PROVE  FALSE
    OBVIOUS
  <2>1. g \in Event /\ g \in Siblings(e) /\ status[g] # "NONE" /\ sequence[g] < sequence[f]
    BY <1>6 DEF Earlier, Siblings
  <2>2. g \in waiting
    BY <1>2, <2>1 DEF Status, Unfinished
  <2> QED BY <1>1, <1>5, <1>6, <2>1, <2>2
<1>8. MayGoOn(f)
  BY <1>6, <1>7 DEF MayGoOn, Unfinished, Claimable, BlockedByOrdering
<1>9. ASSUME NEW g \in Siblings(e) \ {f}, Unfinished(g)
      PROVE  f \in Earlier(g) /\ ~MayGoOn(g)
  <2>1. g \in Event /\ g \in waiting /\ EmployeeOf[g] = EmployeeOf[f]
    BY <1>6, <1>9 DEF Siblings
  <2>2. sequence[f] # sequence[g]
    BY <1>6, <1>9, <2>1 DEF OrderInv, DistinctSequences, Unfinished
  <2>3. sequence[f] < sequence[g]
    BY <1>1, <1>5, <1>6, <2>1, <2>2
  <2>4. f \in Earlier(g)
    BY <1>6, <2>1, <2>3 DEF Earlier, Siblings, Unfinished
  <2>5. status[f] \notin Terminal
    BY <1>6 DEF Unfinished, Terminal
  <2>6. ~Claimable(g)
    BY <2>4, <2>5 DEF Claimable, BlockedByOrdering
  <2>7. status[g] # "PROCESSING"
    BY <2>1, <2>4, <2>5 DEF OrderInv, OrderedClaim, RunningCounted
  <2> QED BY <2>4, <2>6, <2>7 DEF MayGoOn
<1> QED BY <1>6, <1>8, <1>9

(* Waiting for earlier events never ends in everyone waiting: as long as an     *)
(* employee has an unfinished event, exactly one of them runs or may be         *)
(* claimed, and it is the first, whatever calls, sweeps and crashes did.        *)
THEOREM LinesMoveOn == Spec => []OneHeadOfLine
<1>1. OrderInv /\ RunningCounted => OneHeadOfLine
  BY HeadExists
<1> QED BY <1>1, OrderKept, PTL
=============================================================================
