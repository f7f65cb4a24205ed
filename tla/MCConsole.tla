----------------------------- MODULE MCConsole -----------------------------
(* Few employees and filters. *)
EXTENDS Console

MCFilter == [employeeId : {"", "X"}, status : {"", "PENDING"}]
=============================================================================
