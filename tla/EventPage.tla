------------------------------ MODULE EventPage ------------------------------
(***************************************************************************)
(* The console's event page: the polling effect of event/page.tsx, against *)
(* a service that goes on working.  Each run of the effect is a poll of    *)
(* its own, with its own id, cancelled flag, count of attempts and timer;  *)
(* what it has asked the server stays under way when it is cancelled.      *)
(***************************************************************************)
EXTENDS EventReads

CONSTANTS
  MaxPollAttempts,   \* MAX_POLL_ATTEMPTS
  MaxRequests,       \* bound: requests under way when the user moves on
  MaxMoves,          \* bound: what the user does and requests that fail
  None

ASSUME PageAssumption ==
  /\ MaxPollAttempts \in Nat \ {0}
  /\ MaxRequests \in Nat \ {0}
  /\ MaxMoves \in Nat
  /\ None \notin Id

VARIABLES
  url,     \* the id in the address, None when the page is not open
  due,     \* has the page been rendered without the effect having run since?
  event,   \* the answer it holds, or None
  ui,      \* loading, error, notFound, pollExhausted
  polls,   \* runs of the effect that wait for an answer or their timer
  moves    \* the user's actions and failed requests so far

pageVars == <<url, due, event, ui, polls, moves>>
trackingVars == <<serviceVars, pageVars>>

Ui == [loading : BOOLEAN, error : BOOLEAN, notFound : BOOLEAN, pollExhausted : BOOLEAN]
Blank == [loading |-> TRUE, error |-> FALSE, notFound |-> FALSE, pollExhausted |-> FALSE]

Poll ==
  [id : Id, cancelled : BOOLEAN, attempts : 0..MaxPollAttempts,
   at : {"asking", "rowRead", "answered", "missing", "failed", "waiting"},
   row : Nat, seen : Nat]

TerminalStatuses == {"SUCCEEDED", "FAILED"}

TrackingInit ==
  /\ ServiceInit
  /\ url = None /\ due = FALSE /\ event = None /\ ui = Blank /\ polls = {}
  /\ moves = 0

-----------------------------------------------------------------------------
(* What the user sees. *)

(* The branches of the component's return, in their order. *)
View ==
  IF url = None THEN "closed"
  ELSE IF ui.notFound THEN "not found"
  ELSE IF ui.error THEN "connection error"
  ELSE IF ui.loading \/ event = None THEN "retrieving"
  ELSE "event"

IsTerminal == Status(event) \in TerminalStatuses

(* The three steps of the progression bar; "" is a step not yet reached. *)
Pipeline(status) ==
  <<IF status = "PENDING" THEN "active" ELSE "succeeded",
    IF status = "PROCESSING" THEN "active"
    ELSE IF status \in TerminalStatuses THEN "succeeded" ELSE "",
    IF status = "SUCCEEDED" THEN "succeeded" ELSE IF status = "FAILED" THEN "failed" ELSE "">>

(* The node of each entry of the audit trail. *)
Timeline ==
  [n \in 1..event.seen |->
     CASE StatusHistory(event)[n] = "SUCCEEDED" -> "succeeded"
       [] StatusHistory(event)[n] = "FAILED" -> "failed"
       [] StatusHistory(event)[n] = "PROCESSING" -> "processing"
       [] OTHER -> "pending"]

LivePollingBanner == View = "event" /\ ~IsTerminal /\ ~ui.pollExhausted
PausedBanner == View = "event" /\ ui.pollExhausted

-----------------------------------------------------------------------------
(* The effect. *)

InFlight == {p \in polls : p.at # "waiting"}
Live == {p \in polls : ~p.cancelled}

(* Mutant: nothing is cancelled. *)
CleanedUpNot == polls

(* The cleanup of the last run: cancelled is set and the timer cleared. *)
CleanedUp == {[p EXCEPT !.cancelled = TRUE] : p \in InFlight}

FetchOnce(id) ==
  [id |-> id, cancelled |-> FALSE, attempts |-> 0, at |-> "asking", row |-> 0, seen |-> 0]

(* Mutant: loading is left as it is. *)
EffectSilent ==
  /\ polls' = CleanedUp \cup {FetchOnce(url)}
  /\ ui' = [Blank EXCEPT !.loading = ui.loading]
  /\ due' = FALSE

(* A run of the effect, after the cleanup of the one before. *)
Effect ==
  /\ polls' = CleanedUp \cup {FetchOnce(url)}
  /\ ui' = Blank
  /\ due' = FALSE

RunEffect ==
  /\ due
  /\ Effect
  /\ UNCHANGED <<serviceVars, url, event, moves>>

-----------------------------------------------------------------------------
(* The user. *)

Moves ==
  /\ moves < MaxMoves
  /\ Cardinality(InFlight) < MaxRequests
  /\ moves' = moves + 1

(* The page is opened: from a list, or by a submission that has just succeeded *)
(* (these know only ids of events), or by an address that is wrong.            *)
Open(id) ==
  /\ url = None
  /\ id \in Event => phase[id] # "NONE"
  /\ Moves
  /\ url' = id /\ due' = TRUE /\ event' = None /\ ui' = Blank
  /\ UNCHANGED <<serviceVars, polls>>

(* The browser's history leads to the same page with another id; the page is   *)
(* rendered once with it before the effect runs.                               *)
Navigate(id) ==
  /\ url \notin {None, id}
  /\ id \in Event => phase[id] # "NONE"
  /\ Moves
  /\ url' = id /\ due' = TRUE
  /\ UNCHANGED <<serviceVars, event, ui, polls>>

(* "Resume Polling" and "Retry Request": a click's effects run with it. *)
ResumePolling ==
  /\ View = "connection error" \/ PausedBanner
  /\ ~due
  /\ Moves
  /\ Effect
  /\ UNCHANGED <<serviceVars, url, event>>

(* The page is left: the cleanup runs and the component's state is gone. *)
LeavePage ==
  /\ url # None
  /\ Moves
  /\ url' = None /\ due' = FALSE /\ event' = None /\ ui' = Blank
  /\ polls' = CleanedUp
  /\ UNCHANGED serviceVars

-----------------------------------------------------------------------------
(* A poll's way: the server's two reads, the answer, the timer. *)

Replace(p, q) == polls' = (polls \ {p}) \cup {q}
Drop(p) == polls' = polls \ {p}

ServerReads(p) ==
  /\ p.at \in {"asking", "rowRead"}
  /\ Replace(p, FindOne(p))
  /\ UNCHANGED <<serviceVars, url, due, event, ui, moves>>

(* The network or the server fails the request. *)
RequestFails(p) ==
  /\ p.at \in {"asking", "rowRead", "answered"}
  /\ moves < MaxMoves
  /\ moves' = moves + 1
  /\ Replace(p, [p EXCEPT !.at = "failed"])
  /\ UNCHANGED <<serviceVars, url, due, event, ui>>

(* Mutant: the flag is not looked at. *)
IgnoredNever(p) == FALSE

Ignored(p) == p.cancelled

(* Mutant: a status other than PENDING ends the polling. *)
SettledEarly(p) == Status(p) # "PENDING"

Settled(p) == Status(p) \in TerminalStatuses

TakeAnswer(p) ==
  /\ p.at = "answered"
  /\ event' = [id |-> p.id, row |-> p.row, seen |-> p.seen]
  /\ LET exhausted == ~Settled(p) /\ p.attempts + 1 >= MaxPollAttempts
     IN /\ ui' = [ui EXCEPT !.loading = FALSE, !.pollExhausted = @ \/ exhausted]
        /\ IF Settled(p) \/ exhausted THEN Drop(p)
           ELSE Replace(p, [FetchOnce(p.id) EXCEPT !.cancelled = p.cancelled,
                                                   !.attempts = p.attempts + 1,
                                                   !.at = "waiting"])

TakeFailure(p) ==
  /\ p.at \in {"missing", "failed"}
  /\ Drop(p)
  /\ ui' = [ui EXCEPT !.loading = FALSE,
                      !.notFound = @ \/ p.at = "missing", !.error = @ \/ p.at = "failed"]
  /\ UNCHANGED event

AnswerArrives(p) ==
  /\ p.at \in {"answered", "missing", "failed"}
  /\ IF Ignored(p) THEN Drop(p) /\ UNCHANGED <<event, ui>>
     ELSE TakeAnswer(p) \/ TakeFailure(p)
  /\ UNCHANGED <<serviceVars, url, due, moves>>

TimerFires(p) ==
  /\ p.at = "waiting"
  /\ Replace(p, [p EXCEPT !.at = "asking"])
  /\ UNCHANGED <<serviceVars, url, due, event, ui, moves>>

Progress(p) == ServerReads(p) \/ AnswerArrives(p) \/ TimerFires(p)

-----------------------------------------------------------------------------

TrackingNext ==
  \/ \E e \in Event : ServiceStep(e) /\ UNCHANGED pageVars
  \/ \E id \in Id : Open(id) \/ Navigate(id)
  \/ ResumePolling \/ LeavePage \/ RunEffect
  \/ \E p \in polls : Progress(p) \/ RequestFails(p)

(* React runs an effect that is due, timers fire and requests are answered; a *)
(* cancelled request keeps no other from its answer.  Nothing is assumed of   *)
(* the user, of faults, or of the service's progress.                         *)
TrackingFairness ==
  /\ WF_trackingVars(RunEffect)
  /\ WF_trackingVars(\E p \in Live : Progress(p))
  /\ WF_trackingVars(\E p \in polls \ Live : Progress(p))

TrackingSpec == TrackingInit /\ [][TrackingNext]_trackingVars /\ TrackingFairness

-----------------------------------------------------------------------------
(* Properties.                                                               *)

(* The page holds an id, an answer and flags of their types; a trail holds    *)
(* statuses that a row can have, and a poll counts no further than it may.    *)
TrackingTypeOK ==
  /\ LifecycleTypeOK
  /\ trail \in [Event -> Seq(Phase \ {"NONE"})]
  /\ url \in Id \cup {None} /\ due \in BOOLEAN /\ ui \in Ui
  /\ event \in [id : Event, row : Nat \ {0}, seen : Nat] \cup {None}
  /\ polls \subseteq Poll

(* An answer's history tells how its event came to the status it shows,       *)
(* although findOne reads the two in separate statements: the row first.  An  *)
(* outcome the bar shows is the last entry of the trail below it.             *)
AnswersAreConsistent ==
  event # None =>
    /\ event.row <= event.seen
    /\ Pipeline(Status(event))[3] # "" => Pipeline(Status(event))[3] = Timeline[event.seen]

(* While it shows an event the page never goes back to an older state of it,  *)
(* whatever order answers arrive in.                                          *)
ShownNeverGoesBack ==
  [][(event # None /\ event' # None /\ event.id = event'.id)
       => event.row <= event'.row /\ event.seen <= event'.seen]_trackingVars

(* The page shows the event of its address, except between a change of        *)
(* address and the effect that follows it.                                    *)
ShowsRequestedEvent == View = "event" => event.id = url \/ due

(* One poll at most is alive, and while "Live Polling Active" is on display   *)
(* one is, or is about to be.                                                 *)
PollingAsShown ==
  /\ Cardinality(Live) <= 1
  /\ LivePollingBanner => Live # {} \/ due

(* If an event has ended while the page is open on it, the page shows the     *)
(* outcome, or that it has stopped asking, unless the user moves on.          *)
EventuallyShown ==
  \A e \in Event :
    (url = e /\ phase[e] \in Ended)
      ~> \/ url # e
         \/ View = "event" /\ event.id = e /\ (IsTerminal \/ PausedBanner)
         \/ View = "connection error"
=============================================================================
