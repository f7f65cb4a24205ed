----------------------------- MODULE EventReads -----------------------------
(***************************************************************************)
(* GET /events/:id over the abstract lifecycle: an event's row and its     *)
(* audit trail, and the two statements that read them.  That rows go       *)
(* through the lifecycle's steps, each with one history row, is what       *)
(* EventProcessing shows (ImplementsLifecycle, AuditTrail); a position in  *)
(* the trail therefore stands for a state of the row.                      *)
(***************************************************************************)
EXTENDS EventLifecycle, Naturals, Sequences

CONSTANTS
  MaxStarts,   \* bound: how often events are taken into processing
  Missing      \* an id no event has

ASSUME ReadsAssumption == MaxStarts \in Nat \ {0} /\ Missing \notin Event

VARIABLE trail   \* trail[e]: to_status of e's history rows, in commit order

serviceVars == <<phase, ahead, trail>>

Id == Event \cup {Missing}

ServiceInit == LifecycleInit /\ trail = [e \in Event |-> <<>>]

Attempts(e) == {n \in DOMAIN trail[e] : trail[e][n] = "PROCESSING"}
Starts == Cardinality(UNION {{e} \X Attempts(e) : e \in Event})

(* A transaction of the API or of a worker: the row and its history row. *)
ServiceStep(e) ==
  /\ \/ Accept(e)
     \/ Starts < MaxStarts /\ Start(e)
     \/ Starts < MaxStarts /\ Leave(e, "PENDING")
     \/ \E to \in Ended : Leave(e, to)
  /\ trail' = [trail EXCEPT ![e] = Append(@, phase'[e])]

-----------------------------------------------------------------------------
(* The reads.  A reader r knows an id, how far it has come (at), the state of *)
(* the row it has read (row) and the length of the history it has read (seen).*)

Written(id) == IF id \in Event THEN Len(trail[id]) ELSE 0

FindById(r) ==
  IF Written(r.id) = 0 THEN [r EXCEPT !.at = "missing"]
  ELSE [r EXCEPT !.at = "rowRead", !.row = Written(r.id)]

FindHistory(r) == [r EXCEPT !.at = "answered", !.seen = Written(r.id)]

(* Mutant: the history is read before the row. *)
FindOneReversed(r) ==
  IF r.at = "asking"
  THEN IF Written(r.id) = 0 THEN [r EXCEPT !.at = "missing"]
       ELSE [r EXCEPT !.at = "rowRead", !.seen = Written(r.id)]
  ELSE [r EXCEPT !.at = "answered", !.row = Written(r.id)]

(* findOne: the row, a 404 if there is none, then the history. *)
FindOne(r) == IF r.at = "asking" THEN FindById(r) ELSE FindHistory(r)

(* What an answer says. *)
Status(a) == trail[a.id][a.row]
StatusHistory(a) == SubSeq(trail[a.id], 1, a.seen)
=============================================================================
