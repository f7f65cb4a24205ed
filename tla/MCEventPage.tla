----------------------------- MODULE MCEventPage -----------------------------
(* Events of one employee, so that one waits for the other. *)
EXTENDS EventPage

CONSTANTS e1, e2, ann

MCEmployeeOf == [e \in Event |-> ann]
=============================================================================
