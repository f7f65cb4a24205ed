------------------------ MODULE EventLifecycleProofs ------------------------
(***************************************************************************)
(* What follows from the lifecycle's promise, for any events and employees. *)
(* Whatever implements the lifecycle has these properties too.             *)
(***************************************************************************)
EXTENDS EventLifecycle, TLAPS

(* An event is always in one of the statuses the CHECK on the column allows,  *)
(* and the events ahead of it are events.                                     *)
THEOREM LifecycleTypeCorrect == LifecycleSpec => []LifecycleTypeOK
<1>1. LifecycleInit => LifecycleTypeOK
  BY DEF LifecycleInit, LifecycleTypeOK, Phase
<1>2. LifecycleTypeOK /\ [LifecycleNext]_lifecycleVars => LifecycleTypeOK'
  BY DEF LifecycleTypeOK, LifecycleNext, lifecycleVars, Accept, Start, Leave, Phase, Ended
<1> QED BY <1>1, <1>2, PTL DEF LifecycleSpec

-----------------------------------------------------------------------------
(* The line an employee's events stand in. *)

(* Only accepted events of the same employee are ahead of an event, and an    *)
(* event that was not accepted has none ahead.                                *)
AheadAccepted ==
  \A e, f \in Event :
    f \in ahead[e] =>
      /\ phase[e] # "NONE" /\ phase[f] # "NONE"
      /\ EmployeeOf[e] = EmployeeOf[f]

LineInv == LifecycleTypeOK /\ AheadAccepted /\ OneLine

LEMMA AcceptKeepsLine ==
  ASSUME LineInv, NEW e \in Event, Accept(e), LifecycleTypeOK'
  PROVE  AheadAccepted' /\ OneLine'
<1>1. /\ phase[e] = "NONE" /\ phase'[e] = "PENDING"
      /\ \A g \in Event : g # e => phase'[g] = phase[g] /\ ahead'[g] = ahead[g]
      /\ ahead'[e] = {f \in Event : phase[f] # "NONE" /\ EmployeeOf[f] = EmployeeOf[e]}
  BY DEF Accept, LineInv, LifecycleTypeOK
<1>2. \A g \in Event : ahead[g] \subseteq Event /\ e \notin ahead[g]
  BY <1>1 DEF LineInv, LifecycleTypeOK, AheadAccepted
<1>3. AheadAccepted'
  BY <1>1 DEF AheadAccepted, LineInv
<1>4. ASSUME NEW g \in Event, NEW f \in Event, f \in ahead'[g]
      PROVE  ahead'[f] \subseteq ahead'[g] \ {f}
  <2>1. f # e
    BY <1>1, <1>2, <1>4
  <2>2. f \notin ahead[f]
    BY DEF LineInv, OneLine
  <2>3. CASE g = e
    BY <1>1, <1>2, <1>4, <2>1, <2>2, <2>3 DEF LineInv, AheadAccepted
  <2>4. CASE g # e
    BY <1>1, <1>4, <2>1, <2>4 DEF LineInv, OneLine
  <2> QED BY <2>3, <2>4
<1>5. ASSUME NEW g \in Event, NEW f \in Event, g # f, EmployeeOf[g] = EmployeeOf[f],
             phase'[g] # "NONE", phase'[f] # "NONE"
      PROVE  f \in ahead'[g] <=> g \notin ahead'[f]
  BY <1>1, <1>2, <1>5 DEF LineInv, OneLine
<1> QED BY <1>3, <1>4, <1>5 DEF OneLine

LEMMA LineStep ==
  ASSUME LineInv, [LifecycleNext]_lifecycleVars, LifecycleTypeOK'
  PROVE  LineInv'
<1>1. ASSUME NEW e \in Event, Accept(e)
      PROVE  LineInv'
  BY <1>1, AcceptKeepsLine DEF LineInv
<1>2. ASSUME NEW e \in Event, NEW to \in Ended \cup {"PENDING"}, Start(e) \/ Leave(e, to)
      PROVE  LineInv'
  <2>1. /\ ahead' = ahead
        /\ \A f \in Event : phase'[f] = "NONE" <=> phase[f] = "NONE"
    BY <1>2 DEF Start, Leave, LineInv, LifecycleTypeOK, Ended
  <2> QED BY <2>1 DEF LineInv, AheadAccepted, OneLine
<1>3. CASE UNCHANGED lifecycleVars
  BY <1>3 DEF LineInv, AheadAccepted, OneLine, lifecycleVars
<1> QED BY <1>1, <1>2, <1>3 DEF LifecycleNext, Ended

(* Acceptance puts the events of an employee into one line that never changes *)
(* again: what sequence numbers are for.                                      *)
THEOREM EmployeesHaveOneLine == LifecycleSpec => []LineInv
<1>1. LifecycleInit => LineInv
  BY DEF LifecycleInit, LineInv, LifecycleTypeOK, AheadAccepted, OneLine, Phase
<1>2. LineInv /\ [LifecycleNext]_lifecycleVars /\ LifecycleTypeOK' => LineInv'
  BY LineStep
<1> QED BY <1>1, <1>2, LifecycleTypeCorrect, PTL DEF LifecycleSpec

-----------------------------------------------------------------------------
(* One after the other. *)

(* What was ahead of an event when it started has ended, and stays ended. *)
StartedInTurn ==
  \A e, f \in Event :
    (phase[e] \in Ended \cup {"PROCESSING"} /\ f \in ahead[e]) => phase[f] \in Ended

LEMMA TurnStep ==
  ASSUME LineInv, StartedInTurn, [LifecycleNext]_lifecycleVars
  PROVE  StartedInTurn'
<1>1. ASSUME NEW e \in Event, Accept(e)
      PROVE  StartedInTurn'
  BY <1>1 DEF Accept, StartedInTurn, LineInv, AheadAccepted, LifecycleTypeOK, Ended
<1>2. ASSUME NEW e \in Event, Start(e)
      PROVE  StartedInTurn'
  BY <1>2 DEF Start, StartedInTurn, LineInv, LifecycleTypeOK, Ended
<1>3. ASSUME NEW e \in Event, NEW to \in Ended \cup {"PENDING"}, Leave(e, to)
      PROVE  StartedInTurn'
  BY <1>3 DEF Leave, StartedInTurn, LineInv, LifecycleTypeOK, Ended
<1>4. CASE UNCHANGED lifecycleVars
  BY <1>4 DEF StartedInTurn, lifecycleVars
<1> QED BY <1>1, <1>2, <1>3, <1>4 DEF LifecycleNext

(* An event that is in processing or over never has an unfinished one ahead   *)
(* of it: the guard of the claim, seen at every later moment.                 *)
THEOREM InTurn == LifecycleSpec => []StartedInTurn
<1>1. LifecycleInit => StartedInTurn
  BY DEF LifecycleInit, StartedInTurn
<1>2. LineInv /\ StartedInTurn /\ [LifecycleNext]_lifecycleVars => StartedInTurn'
  BY TurnStep
<1> QED BY <1>1, <1>2, EmployeesHaveOneLine, PTL DEF LifecycleSpec

(* An employee's events end in the order in which they were accepted. *)
THEOREM EndsAreOrdered == LifecycleSpec => []EndInOrder
<1>1. LineInv /\ StartedInTurn => EndInOrder
  BY DEF LineInv, LifecycleTypeOK, StartedInTurn, EndInOrder
<1> QED BY <1>1, InTurn, EmployeesHaveOneLine, PTL

(* Two events of an employee are never in processing at the same time: of the *)
(* two, one is ahead of the other and has to end before the other starts.     *)
THEOREM OneAtATime == LifecycleSpec => []OneRunningPerEmployee
<1>1. ASSUME LineInv, StartedInTurn
      PROVE  OneRunningPerEmployee
  <2> SUFFICES ASSUME NEW e \in Event, NEW f \in Event,
                      e # f, EmployeeOf[e] = EmployeeOf[f],
                      phase[e] = "PROCESSING", phase[f] = "PROCESSING"
               PROVE  FALSE
    BY DEF OneRunningPerEmployee
  <2>1. f \in ahead[e] \/ e \in ahead[f]
    BY <1>1 DEF LineInv, OneLine
  <2>2. phase[e] \in Ended \/ phase[f] \in Ended
    BY <1>1, <2>1 DEF StartedInTurn
  <2> QED BY <2>2 DEF Ended
<1> QED BY <1>1, InTurn, EmployeesHaveOneLine, PTL
=============================================================================
