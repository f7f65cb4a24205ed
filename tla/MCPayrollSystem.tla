--------------------------- MODULE MCPayrollSystem ---------------------------
(* Instances of PayrollSystem for TLC: two events of one employee. *)
EXTENDS PayrollSystem, TLC

CONSTANTS e1, e2, ann, w1, w2, s1

OneEvent == {e1}
TwoEvents == {e1, e2}
MCEmployeeOf == [e \in Event |-> ann]
AnyAnswer == [e \in Event |-> ProviderAnswer]
SucceedOrRetry == [e \in Event |-> {"SUCCESS", "TRANSIENT"}]

Faults(crash, throw, lost) ==
  [k \in FaultKind |-> CASE k = "crash" -> crash [] k = "throw" -> throw [] OTHER -> lost]
NoFault == Faults(0, 0, 0)
OneCrash == Faults(1, 0, 0)
OneThrow == Faults(0, 1, 0)
LostEnqueues == Faults(0, 0, 2)
OneOfEach == Faults(1, 1, 1)

Workers == Permutations(Worker)
=============================================================================
