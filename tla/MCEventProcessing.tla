-------------------------- MODULE MCEventProcessing --------------------------
(* Instances of EventProcessing for TLC: the events belong to one employee. *)
EXTENDS EventProcessing, TLC

CONSTANTS e1, e2, ann, w1, w2, s1, s2

MCEvents2 == {e1, e2}
MCEvents1 == {e1}
MCEmployeeOf == [e \in Event |-> ann]

AnyAnswer == [e \in Event |-> ProviderAnswer]

(* The first event meets every answer, the second is refused. *)
AnyThenRefused ==
  [e \in Event |-> IF e = e1 THEN ProviderAnswer ELSE {"PERMANENT"}]

Workers == Permutations({w1, w2})
WorkersAndSweepers == Permutations({w1, w2}) \cup Permutations({s1, s2})
=============================================================================
