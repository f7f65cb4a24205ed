--------------------------- MODULE ConsoleBackend ---------------------------
(***************************************************************************)
(* The service as the console's pages see it: the events in the order of   *)
(* their submission, the two dependencies that may be down, and the GET    *)
(* requests under way, each with what it has been answered so far.         *)
(***************************************************************************)
EXTENDS PayloadValidation, Integers, Sequences, FiniteSets

CONSTANTS
  MaxCalls,   \* bound: requests a page has under way
  MaxRows,    \* bound: events
  MaxMoves    \* bound: what the user does, and what happens around it

ASSUME BackendAssumption ==
  /\ MaxCalls \in Nat \ {0} /\ MaxRows \in Nat \ {0}
  /\ MaxMoves \in Nat

VARIABLES
  rows,    \* the events: key, eventType, payload, status
  up,      \* the dependencies that answer
  calls,   \* calls[s]: the request in slot s
  moves    \* moves of the user, of others, and losses so far

backendVars == <<rows, up, calls, moves>>

Status == {"PENDING", "PROCESSING", "SUCCEEDED", "FAILED"}
Dependency == {"db", "redis"}
Slot == 1..MaxCalls

(* A new event; key 0 stands for the keys of other clients. *)
Row(key, eventType, payload) ==
  [key |-> key, eventType |-> eventType, payload |-> payload, status |-> "PENDING"]

BankAccount(employee) == [employeeId |-> employee, effectiveDate |-> "day", iban |-> "X"]

NoFilter == [employeeId |-> "", status |-> ""]
Query(filter, limit, offset) == [filter |-> filter, limit |-> limit, offset |-> offset]

Idle ==
  [list |-> "no", query |-> Query(NoFilter, 0, 0), items |-> <<>>, total |-> 0, health |-> "no"]

ListEvents(query) == [Idle EXCEPT !.list = "asked", !.query = query]
GetHealth == [Idle EXCEPT !.health = "asked"]
ListAndHealth(query) == [ListEvents(query) EXCEPT !.health = "asked"]

(* Two events are there: one of an earlier form, and another client's. *)
BackendInit ==
  /\ rows = <<Row(1, "BANK_ACCOUNT_CHANGE", BankAccount("X")),
              Row(0, "BANK_ACCOUNT_CHANGE", BankAccount("x"))>>
  /\ up = Dependency
  /\ moves = 0

Move == moves < MaxMoves /\ moves' = moves + 1

-----------------------------------------------------------------------------
(* GET /events. *)

(* The rows that a filter lets through. *)
Matching(filter) ==
  {n \in DOMAIN rows :
     /\ filter.employeeId \in {"", rows[n].payload.employeeId}
     /\ filter.status \in {"", rows[n].status}}

(* The place of a row among those found, counted from the newest. *)
Place(found, n) == Cardinality({m \in found : n <= m})

(* The rows from query.offset on, query.limit of them at most. *)
OnPage(query) ==
  LET found == Matching(query.filter)
  IN {n \in found : Place(found, n) \in (query.offset + 1)..(query.offset + query.limit)}

FindMany(query) ==
  [k \in 1..Cardinality(OnPage(query)) |->
     rows[CHOOSE n \in OnPage(query) : Place(Matching(query.filter), n) = query.offset + k]]

Count(query) == Cardinality(Matching(query.filter))

Answer(s, call) == calls' = [calls EXCEPT ![s] = call]

(* Mutant: the count comes first. *)
ReadListCountFirst(s) ==
  LET call == calls[s] IN
  IF "db" \notin up THEN Answer(s, [call EXCEPT !.list = "failed"])
  ELSE IF call.list = "asked"
  THEN Answer(s, [call EXCEPT !.list = "read", !.total = Count(call.query)])
  ELSE Answer(s, [call EXCEPT !.list = "done", !.items = FindMany(call.query)])

(* The two statements of findMany's transaction; under READ COMMITTED each    *)
(* has a snapshot of its own.                                                 *)
ReadList(s) ==
  LET call == calls[s] IN
  IF "db" \notin up THEN Answer(s, [call EXCEPT !.list = "failed"])
  ELSE IF call.list = "asked"
  THEN Answer(s, [call EXCEPT !.list = "read", !.items = FindMany(call.query)])
  ELSE Answer(s, [call EXCEPT !.list = "done", !.total = Count(call.query)])

ServerLists(s) ==
  /\ calls[s].list \in {"asked", "read"}
  /\ ReadList(s)
  /\ UNCHANGED <<rows, up, moves>>

-----------------------------------------------------------------------------
(* GET /health: both probes start at once, and both are awaited. *)

CheckPostgres(s) ==
  /\ calls[s].health = "asked"
  /\ Answer(s, [calls[s] EXCEPT !.health = IF "db" \in up THEN "db up" ELSE "db down"])
  /\ UNCHANGED <<rows, up, moves>>

(* Mutant: a 503 is an answer like any other. *)
CheckResponseUnread(s) == IF calls[s].health = "db up" THEN "ok" ELSE "degraded"

(* request throws on a 503 whatever its body says. *)
CheckResponse(s) == IF calls[s].health = "db up" THEN "ok" ELSE "failed"

(* A ping of a Redis that is down is not refused: ioredis keeps it until there *)
(* is a connection again, as maxRetriesPerRequest is null.                    *)
CheckRedis(s) ==
  /\ calls[s].health \in {"db up", "db down"}
  /\ "redis" \in up
  /\ Answer(s, [calls[s] EXCEPT !.health = CheckResponse(s)])
  /\ UNCHANGED <<rows, up, moves>>

ServerAnswers(s) == ServerLists(s) \/ CheckPostgres(s) \/ CheckRedis(s)

-----------------------------------------------------------------------------
(* What else happens. *)

(* A request, or its answer, gets lost. *)
RequestLost(s) ==
  /\ \E part \in {"list", "health"} :
       /\ calls[s][part] \notin {"no", "failed"}
       /\ Answer(s, [calls[s] EXCEPT ![part] = "failed"])
  /\ Move
  /\ UNCHANGED <<rows, up>>

Outage(d) ==
  /\ d \in up
  /\ Move
  /\ up' = up \ {d}
  /\ UNCHANGED <<rows, calls>>

Restore(d) ==
  /\ d \notin up
  /\ up' = up \cup {d}
  /\ UNCHANGED <<rows, calls, moves>>

OtherClient(employee) ==
  /\ "db" \in up
  /\ Len(rows) < MaxRows
  /\ Move
  /\ rows' = Append(rows, Row(0, "BANK_ACCOUNT_CHANGE", BankAccount(employee)))
  /\ UNCHANGED <<up, calls>>

(* An event goes on, after those its employee submitted before. *)
ServiceMoves(n) ==
  /\ "db" \in up
  /\ \A m \in 1..(n - 1) :
       rows[m].payload.employeeId = rows[n].payload.employeeId
         => rows[m].status \in {"SUCCEEDED", "FAILED"}
  /\ Move
  /\ \/ rows[n].status = "PENDING" /\ rows' = [rows EXCEPT ![n].status = "PROCESSING"]
     \/ /\ rows[n].status = "PROCESSING"
        /\ \E to \in Status \ {"PROCESSING"} : rows' = [rows EXCEPT ![n].status = to]
  /\ UNCHANGED <<up, calls>>
=============================================================================
