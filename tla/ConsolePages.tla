---------------------------- MODULE ConsolePages ----------------------------
(***************************************************************************)
(* The pages of the console that show what the service answers: the        *)
(* dashboard, the list of events, the metrics and the health page.  One    *)
(* page is mounted at a time; its state, the view, and its requests are    *)
(* gone when it is left.                                                   *)
(***************************************************************************)
EXTENDS ConsoleBackend

CONSTANTS
  PageSize,         \* PAGE_SIZE of the list
  DashboardLimit,   \* events the dashboard asks for
  MetricsLimit,     \* events the metrics are taken from
  Filter            \* filters a user may apply

ASSUME PagesAssumption ==
  /\ PageSize \in Nat \ {0} /\ DashboardLimit \in Nat \ {0} /\ MetricsLimit \in Nat \ {0}
  /\ NoFilter \in Filter

VARIABLES
  at,     \* the page that is mounted
  view    \* its state

Page == {"dashboard", "events", "submit", "health", "metrics", "event"}

Blank ==
  [items |-> <<>>, total |-> 0, offset |-> 0, filter |-> NoFilter,
   loading |-> TRUE, error |-> FALSE, health |-> "unknown"]

FirstCall(page) ==
  CASE page = "dashboard" -> ListAndHealth(Query(NoFilter, DashboardLimit, 0))
    [] page = "events" -> ListEvents(Query(NoFilter, PageSize, 0))
    [] page = "metrics" -> ListEvents(Query(NoFilter, MetricsLimit, 0))
    [] page = "health" -> GetHealth
    [] OTHER -> Idle

Mount(page) ==
  /\ at' = page
  /\ view' = Blank
  /\ calls' = [s \in Slot |-> IF s = 1 THEN FirstCall(page) ELSE Idle]

(* A request takes the first slot that is free. *)
Send(call) ==
  \E s \in Slot :
    /\ calls[s] = Idle
    /\ \A t \in 1..(s - 1) : calls[t] # Idle
    /\ calls' = [calls EXCEPT ![s] = call]

HangUp(s) == calls' = [calls EXCEPT ![s] = Idle]

-----------------------------------------------------------------------------
(* The list of events. *)

CurrentQuery(v) == Query(v.filter, PageSize, v.offset)

(* load(); a silent one leaves the spinner alone. *)
Load(v, silent) ==
  /\ Send(ListEvents(CurrentQuery(v)))
  /\ view' = [v EXCEPT !.loading = @ \/ ~silent, !.error = FALSE]

OnList(v) ==
  /\ at = "events"
  /\ Move
  /\ Load(v, FALSE)
  /\ UNCHANGED <<rows, up, at>>

ApplyFilters(filter) == OnList([view EXCEPT !.filter = filter, !.offset = 0])

HasActiveFilters == view.filter # NoFilter
ClearFilters == HasActiveFilters /\ ApplyFilters(NoFilter)

(* The rows and the footer are there only if there are items. *)
HasFooter == ~view.error /\ view.items # <<>>
CanGoNext == view.offset + PageSize < view.total
CanGoPrev == view.offset > 0

NextPage ==
  /\ HasFooter /\ CanGoNext /\ ~view.loading
  /\ OnList([view EXCEPT !.offset = @ + PageSize])

PreviousPage ==
  /\ HasFooter /\ CanGoPrev /\ ~view.loading
  /\ OnList([view EXCEPT !.offset = IF @ > PageSize THEN @ - PageSize ELSE 0])

(* "Refresh" and "Try Again". *)
LoadAgain == (~view.loading \/ view.error) /\ OnList(view)

(* Mutant: the interval keeps the first render's load. *)
AutoRefreshStale ==
  /\ at = "events"
  /\ Send(ListEvents(Query(NoFilter, PageSize, 0)))
  /\ view' = [view EXCEPT !.error = FALSE]
  /\ UNCHANGED <<rows, up, moves, at>>

(* The interval calls the load of the last render. *)
AutoRefresh ==
  /\ at = "events"
  /\ Load(view, TRUE)
  /\ UNCHANGED <<rows, up, moves, at>>

(* Answers are taken in the order in which they come. *)
TakeList(call) ==
  IF call.list = "failed" THEN [view EXCEPT !.error = TRUE, !.loading = FALSE]
  ELSE [view EXCEPT !.items = call.items, !.total = call.total, !.loading = FALSE]

ListArrives(s) ==
  /\ at = "events"
  /\ calls[s].list \in {"done", "failed"}
  /\ view' = TakeList(calls[s])

ActiveInFlight == {n \in DOMAIN view.items : view.items[n].status \in {"PENDING", "PROCESSING"}}

-----------------------------------------------------------------------------
(* The dashboard: both answers are awaited, but a failed list at once ends the *)
(* wait, and a failed health check counts as none.                            *)

TakeBoth(call) ==
  IF call.list = "failed" THEN [view EXCEPT !.error = TRUE, !.loading = FALSE]
  ELSE [view EXCEPT !.items = call.items, !.total = call.total,
                    !.health = IF call.health = "failed" THEN "unknown" ELSE call.health,
                    !.error = FALSE, !.loading = FALSE]

BothArrive(s) ==
  /\ at = "dashboard"
  /\ \/ calls[s].list = "failed"
     \/ calls[s].list = "done" /\ calls[s].health \in {"ok", "degraded", "failed"}
  /\ view' = TakeBoth(calls[s])

With(status) == Cardinality({n \in DOMAIN view.items : view.items[n].status = status})

(* The cards of the dashboard and of the metrics page. *)
Cards ==
  [total |-> view.total, active |-> Cardinality(ActiveInFlight),
   succeeded |-> With("SUCCEEDED"), failed |-> With("FAILED")]

-----------------------------------------------------------------------------
(* The metrics page. *)

TakeSample(call) ==
  IF call.list = "failed" THEN [view EXCEPT !.error = TRUE, !.loading = FALSE]
  ELSE [view EXCEPT !.items = call.items, !.total = call.total, !.error = FALSE,
                    !.loading = FALSE]

SampleArrives(s) ==
  /\ at = "metrics"
  /\ calls[s].list \in {"done", "failed"}
  /\ view' = TakeSample(calls[s])

-----------------------------------------------------------------------------
(* The health page. *)

(* Mutant: a success does not clear the error. *)
TakeHealthKeepingError(call) ==
  IF call.health = "failed" THEN [view EXCEPT !.error = TRUE, !.loading = FALSE]
  ELSE [view EXCEPT !.health = call.health, !.loading = FALSE]

TakeHealth(call) ==
  IF call.health = "failed" THEN [view EXCEPT !.error = TRUE, !.loading = FALSE]
  ELSE [view EXCEPT !.health = call.health, !.error = FALSE, !.loading = FALSE]

HealthArrives(s) ==
  /\ at = "health"
  /\ calls[s].health \in {"ok", "degraded", "failed"}
  /\ view' = TakeHealth(calls[s])

(* What the banner says. *)
IsDegraded == view.error \/ view.health # "ok"

-----------------------------------------------------------------------------

Arrives(s) ==
  /\ ListArrives(s) \/ BothArrive(s) \/ SampleArrives(s) \/ HealthArrives(s)
  /\ HangUp(s)
  /\ UNCHANGED <<rows, up, moves, at>>

(* The intervals of the dashboard and of the health page. *)
Poll ==
  /\ at \in {"dashboard", "health"}
  /\ Send(FirstCall(at))
  /\ UNCHANGED <<rows, up, moves, at, view>>

(* "Retry", "Recalculate" and "Refresh Status". *)
AskAgain ==
  /\ \/ at = "dashboard" /\ view.error
     \/ at \in {"metrics", "health"} /\ ~view.loading
  /\ Move
  /\ Send(FirstCall(at))
  /\ UNCHANGED <<rows, up, at, view>>
=============================================================================
