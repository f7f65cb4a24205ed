--------------------------- MODULE EventPageProofs ---------------------------
(***************************************************************************)
(* Proofs about the event page and the reads behind it, for any number of  *)
(* events, polls under way and moves of the user: what an answer says is   *)
(* consistent, and what the page shows is of its address and never older   *)
(* than what it showed before.                                             *)
(***************************************************************************)
EXTENDS EventPage, EventLifecycleProofs, FiniteSetTheorems

-----------------------------------------------------------------------------
(* The service, as the page finds it, is the lifecycle. *)

(* Reading an event changes nothing of it: with a page that polls, cancels and *)
(* asks again, the rows take the lifecycle's steps only.                       *)
THEOREM TrackingImplementsLifecycle == TrackingSpec => LifecycleSpec
<1>1. TrackingInit => LifecycleInit
  BY DEF TrackingInit, ServiceInit
<1>2. [TrackingNext]_trackingVars => [LifecycleNext]_lifecycleVars
  <2>1. ASSUME NEW e \in Event, ServiceStep(e)
        PROVE  LifecycleNext
    BY <2>1 DEF ServiceStep, LifecycleNext
  <2>2. ASSUME NEW p \in polls, Progress(p) \/ RequestFails(p)
        PROVE  UNCHANGED lifecycleVars
    BY <2>2 DEF Progress, ServerReads, AnswerArrives, TimerFires, RequestFails, serviceVars,
       lifecycleVars
  <2>3. ASSUME (\E id \in Id : Open(id) \/ Navigate(id)) \/ ResumePolling \/ LeavePage \/ RunEffect
        PROVE  UNCHANGED lifecycleVars
    BY <2>3 DEF Open, Navigate, ResumePolling, LeavePage, RunEffect, serviceVars, lifecycleVars
  <2>4. UNCHANGED trackingVars => UNCHANGED lifecycleVars
    BY DEF trackingVars, serviceVars, lifecycleVars
  <2> QED BY <2>1, <2>2, <2>3, <2>4 DEF TrackingNext
<1> QED BY <1>1, <1>2, PTL DEF TrackingSpec, LifecycleSpec

-----------------------------------------------------------------------------
(* The trail. *)

(* A row that is there has a trail that leads to its status, with an outcome   *)
(* nowhere but at its end.                                                     *)
TrailInv ==
  /\ trail \in [Event -> Seq(Phase \ {"NONE"})]
  /\ \A e \in Event :
       /\ phase[e] = "NONE" <=> Len(trail[e]) = 0
       /\ phase[e] # "NONE" => trail[e][Len(trail[e])] = phase[e]
       /\ \A n \in 1..Len(trail[e]) : trail[e][n] \in Ended => n = Len(trail[e])

(* A trail only grows. *)
TrailGrows ==
  \A e \in Event :
    /\ Len(trail[e]) <= Len(trail'[e])
    /\ \A n \in 1..Len(trail[e]) : trail'[e][n] = trail[e][n]

LEMMA TrailStep ==
  ASSUME LifecycleTypeOK, TrailInv, NEW e \in Event, ServiceStep(e)
  PROVE  TrailInv' /\ TrailGrows
<1>1. PICK to \in Phase \ {"NONE"} :
        /\ phase' = [phase EXCEPT ![e] = to]
        /\ phase[e] \notin Ended
  BY DEF ServiceStep, Accept, Start, Leave, Phase, Ended
<1>2. phase'[e] = to /\ \A f \in Event : f # e => phase'[f] = phase[f]
  BY <1>1 DEF LifecycleTypeOK
<1>3. trail' = [trail EXCEPT ![e] = Append(trail[e], to)]
  BY <1>2 DEF ServiceStep
<1>4. trail[e] \in Seq(Phase \ {"NONE"}) /\ Len(trail[e]) \in Nat
  BY DEF TrailInv
<1>5. /\ trail'[e] = Append(trail[e], to)
      /\ \A f \in Event : f # e => trail'[f] = trail[f]
  BY <1>3 DEF TrailInv
<1>6. /\ Len(trail'[e]) = Len(trail[e]) + 1 /\ trail'[e][Len(trail[e]) + 1] = to
      /\ \A n \in 1..Len(trail[e]) : trail'[e][n] = trail[e][n]
      /\ trail'[e] \in Seq(Phase \ {"NONE"})
  BY <1>4, <1>5
<1>7. TrailGrows
  <2>1. \A f \in Event : Len(trail[f]) \in Nat
    BY DEF TrailInv
  <2> QED BY <1>5, <1>6, <2>1 DEF TrailGrows
<1>8. \A n \in 1..Len(trail[e]) : trail[e][n] \notin Ended
  BY <1>1, <1>4 DEF TrailInv
<1>9. TrailInv'
  <2>1. trail' \in [Event -> Seq(Phase \ {"NONE"})]
    BY <1>3, <1>5, <1>6 DEF TrailInv
  <2>2. ASSUME NEW f \in Event, f # e
        PROVE  /\ phase'[f] = "NONE" <=> Len(trail'[f]) = 0
               /\ phase'[f] # "NONE" => trail'[f][Len(trail'[f])] = phase'[f]
               /\ \A n \in 1..Len(trail'[f]) : trail'[f][n] \in Ended => n = Len(trail'[f])
    BY <1>2, <1>5, <2>2 DEF TrailInv
  <2>3. /\ phase'[e] = "NONE" <=> Len(trail'[e]) = 0
        /\ phase'[e] # "NONE" => trail'[e][Len(trail'[e])] = phase'[e]
        /\ \A n \in 1..Len(trail'[e]) : trail'[e][n] \in Ended => n = Len(trail'[e])
    BY <1>2, <1>4, <1>6, <1>8
  <2> QED BY <2>1, <2>2, <2>3 DEF TrailInv
<1> QED BY <1>7, <1>9

-----------------------------------------------------------------------------
(* The page and its polls. *)

(* What a request has read is in the trail, the history after the row. *)
ReadInOrder(p) ==
  /\ p.at \in {"rowRead", "answered"} => p.id \in Event /\ p.row \in 1..Len(trail[p.id])
  /\ p.at = "answered" => p.row <= p.seen /\ p.seen <= Len(trail[p.id])

(* What a live request has read is no older than what the page shows. *)
NoOlderThanShown(p) ==
  (event # None /\ event.id = p.id) =>
    /\ p.at \in {"rowRead", "answered"} => event.row <= p.row
    /\ p.at = "answered" => event.seen <= p.seen

PageTypeOK ==
  /\ url \in Id \cup {None} /\ due \in BOOLEAN /\ ui \in Ui
  /\ event \in [id : Event, row : Nat \ {0}, seen : Nat] \cup {None}
  /\ polls \subseteq Poll

ShownRead ==
  event # None => event.row <= event.seen /\ event.seen <= Len(trail[event.id])

PageInv ==
  /\ PageTypeOK
  /\ ShownRead
  /\ \A p \in polls : ReadInOrder(p)
  /\ \A p, q \in Live : p = q
  /\ \A p \in Live : url # None /\ (due \/ p.id = url) /\ NoOlderThanShown(p)
  /\ url = None => event = None /\ ~due
  /\ ShowsRequestedEvent
  /\ LivePollingBanner => Live # {} \/ due

(* The service's steps leave the page what it is. *)
LEMMA PageUnderService ==
  ASSUME TrailInv, PageInv, TrailGrows, TrailInv', UNCHANGED pageVars
  PROVE  PageInv'
<1> USE DEF pageVars
<1>1. \A e \in Event : Len(trail[e]) \in Nat /\ Len(trail'[e]) \in Nat
  BY DEF TrailInv
<1>2. ShownRead'
  BY <1>1 DEF PageInv, PageTypeOK, ShownRead, TrailGrows
<1>3. \A p \in polls' : ReadInOrder(p)'
  BY <1>1 DEF PageInv, PageTypeOK, ReadInOrder, TrailGrows, Poll
<1>4. event # None => Status(event)' = Status(event)
  BY <1>1 DEF PageInv, PageTypeOK, ShownRead, TrailGrows, Status
<1>5. View' = View /\ Live' = Live /\ (event # None => IsTerminal' = IsTerminal)
  BY <1>4 DEF View, Live, IsTerminal
<1>6. LivePollingBanner' => Live' # {} \/ due'
  BY <1>5 DEF PageInv, LivePollingBanner, View
<1>7. ShowsRequestedEvent'
  BY <1>5 DEF PageInv, ShowsRequestedEvent
<1> QED BY <1>2, <1>3, <1>5, <1>6, <1>7 DEF PageInv, PageTypeOK, NoOlderThanShown

LEMMA PollsOfEffect ==
  ASSUME PageAssumption, PageTypeOK
  PROVE  /\ CleanedUp \subseteq Poll
         /\ url # None => FetchOnce(url) \in Poll
<1>1. ASSUME NEW p \in Poll
      PROVE  [p EXCEPT !.cancelled = TRUE] \in Poll
  BY DEF Poll
<1>2. CleanedUp \subseteq Poll
  BY <1>1 DEF CleanedUp, InFlight, PageTypeOK
<1>3. url # None => FetchOnce(url) \in Poll
  BY DEF FetchOnce, Poll, PageTypeOK, PageAssumption
<1> QED BY <1>2, <1>3

(* The effect runs: of all polls only the new one is alive. *)
LEMMA PageUnderEffect ==
  ASSUME PageAssumption, PageInv, Effect, url # None, UNCHANGED <<serviceVars, url, event>>
  PROVE  PageInv'
<1>1. Live' = {FetchOnce(url)}
  BY DEF Effect, Live, CleanedUp, InFlight, FetchOnce, PageInv, PageTypeOK, Poll
<1>2. PageTypeOK'
  BY PollsOfEffect DEF Effect, PageInv, PageTypeOK, Blank, Ui
<1>3. \A p \in polls' : ReadInOrder(p)'
  BY DEF Effect, CleanedUp, InFlight, FetchOnce, PageInv, PageTypeOK, Poll, ReadInOrder,
     serviceVars
<1>4. View' # "event"
  BY DEF View, Effect, Blank
<1>5. \A p \in Live' : NoOlderThanShown(p)'
  BY <1>1 DEF FetchOnce, NoOlderThanShown
<1> QED BY <1>1, <1>2, <1>3, <1>4, <1>5
        DEF PageInv, ShownRead, ShowsRequestedEvent, LivePollingBanner, FetchOnce, Effect, serviceVars

LEMMA PageUnderUser ==
  ASSUME PageAssumption, PageInv,
         (\E id \in Id : Open(id) \/ Navigate(id)) \/ ResumePolling \/ LeavePage \/ RunEffect
  PROVE  PageInv'
<1>1. ASSUME NEW id \in Id, Open(id)
      PROVE  PageInv'
  <2>1. polls' = polls /\ Live' = Live /\ Live = {} /\ url' # None /\ event' = None /\ due'
    BY <1>1 DEF Open, PageInv, Live, PageAssumption
  <2>2. PageTypeOK'
    BY <1>1 DEF Open, PageInv, PageTypeOK, Blank, Ui
  <2>3. View' # "event"
    BY <2>1 DEF View
  <2>4. \A p \in polls' : ReadInOrder(p)'
    BY <1>1 DEF Open, PageInv, ReadInOrder, serviceVars
  <2> QED BY <2>1, <2>2, <2>3, <2>4 DEF PageInv, ShownRead, ShowsRequestedEvent, LivePollingBanner
<1>2. ASSUME NEW id \in Id, Navigate(id)
      PROVE  PageInv'
  <2>1. /\ polls' = polls /\ Live' = Live /\ url' # None /\ url # None /\ event' = event /\ due'
        /\ UNCHANGED <<phase, ahead, trail>>
    BY <1>2 DEF Navigate, PageInv, Live, PageAssumption, serviceVars
  <2>2. PageTypeOK'
    BY <1>2 DEF Navigate, PageInv, PageTypeOK
  <2>3. \A p \in polls' : ReadInOrder(p)'
    BY <2>1 DEF PageInv, ReadInOrder
  <2>4. \A p \in Live' : NoOlderThanShown(p)'
    BY <2>1 DEF PageInv, NoOlderThanShown
  <2>5. ShownRead' /\ ShowsRequestedEvent'
    BY <2>1 DEF PageInv, ShownRead, ShowsRequestedEvent
  <2> QED BY <2>1, <2>2, <2>3, <2>4, <2>5 DEF PageInv
<1>3. CASE ResumePolling
  BY <1>3, PageUnderEffect DEF ResumePolling, View, PausedBanner
<1>4. CASE LeavePage
  <2>1. url' = None /\ event' = None /\ ~due' /\ Live' = {}
    BY <1>4 DEF LeavePage, Live, CleanedUp, InFlight, PageInv, PageTypeOK, Poll
  <2>2. PageTypeOK'
    BY <1>4, PollsOfEffect DEF LeavePage, PageInv, PageTypeOK, Blank, Ui
  <2>3. \A p \in polls' : ReadInOrder(p)'
    BY <1>4 DEF LeavePage, CleanedUp, InFlight, PageInv, PageTypeOK, Poll, ReadInOrder, serviceVars
  <2>4. View' # "event"
    BY <2>1 DEF View
  <2> QED BY <2>1, <2>2, <2>3, <2>4 DEF PageInv, ShownRead, ShowsRequestedEvent, LivePollingBanner
<1>5. CASE RunEffect
  BY <1>5, PageUnderEffect DEF RunEffect, PageInv
<1> QED BY <1>1, <1>2, <1>3, <1>4, <1>5

(* One poll goes on, with the page as it is. *)
LEMMA PageUnderReads ==
  ASSUME TrailInv, PageInv, NEW p \in polls, NEW q \in Poll, Replace(p, q),
         q.cancelled = p.cancelled, q.id = p.id,
         ReadInOrder(q), p \in Live => NoOlderThanShown(q),
         UNCHANGED <<serviceVars, url, due, event, ui>>
  PROVE  PageInv'
<1>1. UNCHANGED <<phase, ahead, trail>>
  BY DEF serviceVars
<1>2. PageTypeOK'
  BY DEF PageInv, PageTypeOK, Replace
<1>3. \A r \in polls' : ReadInOrder(r)'
  BY <1>1 DEF PageInv, Replace, ReadInOrder
<1>4. \A r \in Live' : (r = q /\ p \in Live) \/ (r \in Live /\ r # p)
  BY DEF Live, Replace
<1>5. Live # {} => Live' # {}
  <2>1. ASSUME NEW r \in Live
        PROVE  Live' # {}
    <3>1. r = p => q \in Live'
      BY DEF Live, Replace
    <3>2. r # p => r \in Live'
      BY DEF Live, Replace
    <3> QED BY <3>1, <3>2
  <2> QED BY <2>1
<1>6. \A r, t \in Live' : r = t
  BY <1>4 DEF PageInv
<1>7. \A r \in Live' : url' # None /\ (due' \/ r.id = url') /\ NoOlderThanShown(r)'
  BY <1>4 DEF PageInv, NoOlderThanShown
<1>8. View' = View /\ ShownRead' /\ LivePollingBanner' = LivePollingBanner
  BY <1>1 DEF PageInv, View, ShownRead, LivePollingBanner, IsTerminal, Status
<1> QED BY <1>2, <1>3, <1>5, <1>6, <1>7, <1>8 DEF PageInv, ShowsRequestedEvent

LEMMA PageUnderRequests ==
  ASSUME TrailInv, PageInv, NEW p \in polls,
         ServerReads(p) \/ TimerFires(p) \/ RequestFails(p)
  PROVE  PageInv'
<1>1. p \in Poll /\ ReadInOrder(p)
  BY DEF PageInv, PageTypeOK
<1>2. \A e \in Event : Len(trail[e]) \in Nat
  BY DEF TrailInv
<1>3. CASE ServerReads(p)
  <2>1. CASE p.at = "asking" /\ Written(p.id) = 0
    <3> DEFINE q == [p EXCEPT !.at = "missing"]
    <3>1. Replace(p, q)
      BY <1>3, <2>1 DEF ServerReads, FindOne, FindById
    <3>2. q \in Poll /\ q.cancelled = p.cancelled /\ q.id = p.id /\ q.at = "missing"
      BY <1>1 DEF Poll
    <3> HIDE DEF q
    <3> QED BY <1>3, <3>1, <3>2, PageUnderReads DEF ServerReads, ReadInOrder, NoOlderThanShown
  <2>2. CASE p.at = "asking" /\ Written(p.id) # 0
    <3> DEFINE q == [p EXCEPT !.at = "rowRead", !.row = Written(p.id)]
    <3>1. Replace(p, q)
      BY <1>3, <2>2 DEF ServerReads, FindOne, FindById
    <3>2. p.id \in Event /\ Written(p.id) = Len(trail[p.id]) /\ Written(p.id) \in Nat \ {0}
      BY <1>2, <2>2 DEF Written
    <3>3. /\ q \in Poll /\ q.cancelled = p.cancelled /\ q.id = p.id
          /\ q.at = "rowRead" /\ q.row = Len(trail[p.id])
      BY <1>1, <3>2 DEF Poll
    <3>4. ReadInOrder(q)
      BY <3>2, <3>3 DEF ReadInOrder
    <3>5. NoOlderThanShown(q)
      BY <1>2, <3>3 DEF NoOlderThanShown, PageInv, PageTypeOK, ShownRead
    <3> HIDE DEF q
    <3> QED BY <1>3, <3>1, <3>3, <3>4, <3>5, PageUnderReads DEF ServerReads
  <2>3. CASE p.at = "rowRead"
    <3> DEFINE q == [p EXCEPT !.at = "answered", !.seen = Written(p.id)]
    <3>1. Replace(p, q)
      BY <1>3, <2>3 DEF ServerReads, FindOne, FindHistory
    <3>2. p.id \in Event /\ Written(p.id) = Len(trail[p.id]) /\ p.row \in 1..Len(trail[p.id])
      BY <1>1, <2>3 DEF Written, ReadInOrder
    <3>3. /\ q \in Poll /\ q.cancelled = p.cancelled /\ q.id = p.id
          /\ q.at = "answered" /\ q.row = p.row /\ q.seen = Len(trail[p.id])
      BY <1>1, <1>2, <3>2 DEF Poll
    <3>4. ReadInOrder(q)
      BY <1>2, <3>2, <3>3 DEF ReadInOrder
    <3>5. p \in Live => NoOlderThanShown(q)
      BY <1>2, <2>3, <3>3 DEF NoOlderThanShown, PageInv, PageTypeOK, ShownRead
    <3> HIDE DEF q
    <3> QED BY <1>3, <3>1, <3>3, <3>4, <3>5, PageUnderReads DEF ServerReads
  <2> QED BY <1>3, <2>1, <2>2, <2>3 DEF ServerReads
<1>4. CASE TimerFires(p)
  <2> DEFINE q == [p EXCEPT !.at = "asking"]
  <2>1. q \in Poll /\ q.cancelled = p.cancelled /\ q.id = p.id /\ q.at = "asking"
    BY <1>1 DEF Poll
  <2>2. Replace(p, q)
    BY <1>4 DEF TimerFires
  <2> HIDE DEF q
  <2> QED BY <1>4, <2>1, <2>2, PageUnderReads DEF TimerFires, ReadInOrder, NoOlderThanShown
<1>5. CASE RequestFails(p)
  <2> DEFINE q == [p EXCEPT !.at = "failed"]
  <2>1. q \in Poll /\ q.cancelled = p.cancelled /\ q.id = p.id /\ q.at = "failed"
    BY <1>1 DEF Poll
  <2>2. Replace(p, q)
    BY <1>5 DEF RequestFails
  <2> HIDE DEF q
  <2> QED BY <1>5, <2>1, <2>2, PageUnderReads DEF RequestFails, ReadInOrder, NoOlderThanShown
<1> QED BY <1>3, <1>4, <1>5

(* An answer that is ignored. *)
LEMMA PageUnderDrop ==
  ASSUME PageInv, NEW p \in polls, p.cancelled, Drop(p),
         UNCHANGED <<serviceVars, url, due, event, ui>>
  PROVE  PageInv'
<1>1. UNCHANGED <<phase, ahead, trail>>
  BY DEF serviceVars
<1>2. Live' = Live
  BY DEF Live, Drop
<1>3. PageTypeOK' /\ \A r \in polls' : ReadInOrder(r)'
  BY <1>1 DEF PageInv, PageTypeOK, ReadInOrder, Drop
<1>4. View' = View /\ ShownRead' /\ LivePollingBanner' = LivePollingBanner
  BY <1>1 DEF PageInv, View, ShownRead, LivePollingBanner, IsTerminal, Status
<1> QED BY <1>2, <1>3, <1>4 DEF PageInv, ShowsRequestedEvent, NoOlderThanShown

(* An answer that is shown. *)
LEMMA PageUnderAnswer ==
  ASSUME PageAssumption, TrailInv, PageInv, NEW p \in Live, TakeAnswer(p),
         UNCHANGED <<serviceVars, url, due>>
  PROVE  PageInv'
<1> DEFINE exhausted == ~Settled(p) /\ p.attempts + 1 >= MaxPollAttempts
           q == [FetchOnce(p.id) EXCEPT !.cancelled = p.cancelled,
                                        !.attempts = p.attempts + 1, !.at = "waiting"]
<1>1. UNCHANGED <<phase, ahead, trail>>
  BY DEF serviceVars
<1>2. p \in polls /\ p \in Poll /\ ReadInOrder(p) /\ p.at = "answered" /\ ~p.cancelled
  BY DEF PageInv, PageTypeOK, Live, TakeAnswer
<1>3. \A e \in Event : Len(trail[e]) \in Nat
  BY DEF TrailInv
<1>4. /\ p.id \in Event /\ p.row \in Nat \ {0} /\ p.seen \in Nat
      /\ p.row <= p.seen /\ p.seen <= Len(trail[p.id])
  BY <1>2, <1>3 DEF ReadInOrder, Poll
<1>5. event' = [id |-> p.id, row |-> p.row, seen |-> p.seen]
  BY DEF TakeAnswer
<1>6. event'.id = p.id /\ event'.row = p.row /\ event'.seen = p.seen
  BY <1>5
<1>7. ShownRead' /\ event' \in [id : Event, row : Nat \ {0}, seen : Nat]
  BY <1>1, <1>4, <1>5, <1>6 DEF ShownRead
<1>8. /\ ui' \in Ui /\ ~ui'.loading /\ (exhausted => ui'.pollExhausted)
      /\ ui'.error = ui.error /\ ui'.notFound = ui.notFound
  BY DEF TakeAnswer, PageInv, PageTypeOK, Ui
<1>9. url # None /\ (due \/ p.id = url)
  BY DEF PageInv
<1>10. Status(event)' = Status(p)
  BY <1>1, <1>6 DEF Status
<1>11. CASE Settled(p) \/ exhausted
  <2>1. polls' = polls \ {p}
    BY <1>11 DEF TakeAnswer, Drop
  <2>2. Live' = {}
    BY <2>1 DEF Live, PageInv
  <2>3. PageTypeOK' /\ \A r \in polls' : ReadInOrder(r)'
    BY <1>1, <1>7, <1>8, <2>1 DEF PageInv, PageTypeOK, ReadInOrder
  <2>4. ~LivePollingBanner'
    BY <1>8, <1>10, <1>11 DEF LivePollingBanner, IsTerminal, Settled
  <2> QED BY <1>6, <1>7, <1>9, <2>2, <2>3, <2>4 DEF PageInv, ShowsRequestedEvent
<1>12. CASE ~Settled(p) /\ ~exhausted
  <2>1. polls' = (polls \ {p}) \cup {q}
    BY <1>12 DEF TakeAnswer, Replace
  <2>2. /\ q \in Poll /\ q.id = p.id /\ ~q.cancelled /\ q.at = "waiting"
    <3>1. FetchOnce(p.id) \in Poll /\ FetchOnce(p.id).id = p.id
      BY <1>2, PageAssumption DEF FetchOnce, Poll
    <3>2. p.attempts + 1 \in 0..MaxPollAttempts
      BY <1>2, <1>12, PageAssumption DEF Poll
    <3>3. \A f \in Poll, n \in 0..MaxPollAttempts :
            LET g == [f EXCEPT !.cancelled = p.cancelled, !.attempts = n, !.at = "waiting"]
            IN g \in Poll /\ g.id = f.id /\ g.cancelled = p.cancelled /\ g.at = "waiting"
      BY <1>2 DEF Poll
    <3> QED BY <1>2, <3>1, <3>2, <3>3
  <2> HIDE DEF q, exhausted
  <2>3. Live' = {q}
    BY <2>1, <2>2 DEF Live, PageInv
  <2>4. PageTypeOK'
    BY <1>7, <1>8, <2>1, <2>2 DEF PageInv, PageTypeOK
  <2>5. \A r \in polls' : ReadInOrder(r)'
    BY <1>1, <2>1, <2>2 DEF PageInv, ReadInOrder
  <2>6. NoOlderThanShown(q)'
    BY <2>2 DEF NoOlderThanShown
  <2> QED BY <1>6, <1>7, <1>9, <2>2, <2>3, <2>4, <2>5, <2>6 DEF PageInv, ShowsRequestedEvent
<1> QED BY <1>11, <1>12

(* A failure that is shown. *)
LEMMA PageUnderFailure ==
  ASSUME PageInv, NEW p \in Live, TakeFailure(p), UNCHANGED <<serviceVars, url, due>>
  PROVE  PageInv'
<1>1. UNCHANGED <<phase, ahead, trail, event>>
  BY DEF serviceVars, TakeFailure
<1>2. polls' = polls \ {p} /\ p \in polls
  BY DEF TakeFailure, Drop, Live
<1>3. Live' = {}
  BY <1>2 DEF Live, PageInv
<1>4. ui' \in Ui /\ (ui'.notFound \/ ui'.error)
  BY DEF TakeFailure, PageInv, PageTypeOK, Ui
<1>5. PageTypeOK' /\ \A r \in polls' : ReadInOrder(r)'
  BY <1>1, <1>2, <1>4 DEF PageInv, PageTypeOK, ReadInOrder
<1>6. View' # "event"
  BY <1>4 DEF View
<1> QED BY <1>1, <1>3, <1>5, <1>6
        DEF PageInv, ShowsRequestedEvent, LivePollingBanner, ShownRead

LEMMA PageStep ==
  ASSUME PageAssumption, LifecycleTypeOK, TrailInv, PageInv, [TrackingNext]_trackingVars
  PROVE  TrailInv' /\ PageInv'
<1>1. ASSUME NEW e \in Event, ServiceStep(e), UNCHANGED pageVars
      PROVE  TrailInv' /\ PageInv'
  BY <1>1, TrailStep, PageUnderService
<1>2. UNCHANGED serviceVars => TrailInv'
  BY DEF serviceVars, TrailInv
<1>3. CASE (\E id \in Id : Open(id) \/ Navigate(id)) \/ ResumePolling \/ LeavePage \/ RunEffect
  <2>1. UNCHANGED serviceVars
    BY <1>3 DEF Open, Navigate, ResumePolling, LeavePage, RunEffect
  <2> QED BY <1>2, <1>3, <2>1, PageUnderUser
<1>4. ASSUME NEW p \in polls, ServerReads(p) \/ TimerFires(p) \/ RequestFails(p)
      PROVE  TrailInv' /\ PageInv'
  <2>1. UNCHANGED serviceVars
    BY <1>4 DEF ServerReads, TimerFires, RequestFails
  <2> QED BY <1>2, <1>4, <2>1, PageUnderRequests
<1>5. ASSUME NEW p \in polls, AnswerArrives(p)
      PROVE  TrailInv' /\ PageInv'
  <2>1. p.cancelled \in BOOLEAN /\ (~p.cancelled => p \in Live)
    BY DEF PageInv, PageTypeOK, Poll, Live
  <2>2. UNCHANGED serviceVars /\ UNCHANGED url /\ UNCHANGED due
    BY <1>5 DEF AnswerArrives
  <2>3. CASE p.cancelled
    BY <1>2, <1>5, <2>2, <2>3, PageUnderDrop DEF AnswerArrives, Ignored
  <2>4. CASE ~p.cancelled
    BY <1>2, <1>5, <2>1, <2>2, <2>4, PageUnderAnswer, PageUnderFailure DEF AnswerArrives, Ignored
  <2> QED BY <2>1, <2>3, <2>4
<1>6. CASE UNCHANGED trackingVars
  <2>1. /\ UNCHANGED <<phase, ahead, trail, url, due, event, ui, polls>>
        /\ UNCHANGED serviceVars
    BY <1>6 DEF trackingVars, serviceVars, pageVars
  <2>2. Live' = Live /\ View' = View /\ LivePollingBanner' = LivePollingBanner /\ ShownRead' = ShownRead
    BY <2>1 DEF Live, View, LivePollingBanner, IsTerminal, Status, ShownRead
  <2> QED BY <1>2, <2>1, <2>2
          DEF PageInv, PageTypeOK, ReadInOrder, NoOlderThanShown, ShowsRequestedEvent
<1> QED BY <1>1, <1>3, <1>4, <1>5, <1>6 DEF TrackingNext, Progress

LEMMA PageInvariant == TrackingSpec => [](LifecycleTypeOK /\ TrailInv /\ PageInv)
<1>1. TrackingInit => TrailInv /\ PageInv
  <2> SUFFICES ASSUME TrackingInit
               PROVE  TrailInv /\ PageInv
    OBVIOUS
  <2>1. TrailInv
    BY DEF TrackingInit, ServiceInit, LifecycleInit, TrailInv
  <2>2. url = None /\ due = FALSE /\ event = None /\ ui = Blank /\ polls = {} /\ Live = {}
    BY DEF TrackingInit, Live
  <2>3. PageTypeOK
    BY <2>2 DEF PageTypeOK, Blank, Ui
  <2>4. View = "closed"
    BY <2>2 DEF View
  <2> QED BY <2>1, <2>2, <2>3, <2>4
          DEF PageInv, ShownRead, ShowsRequestedEvent, LivePollingBanner
<1>2. LifecycleTypeOK /\ TrailInv /\ PageInv /\ [TrackingNext]_trackingVars
        => TrailInv' /\ PageInv'
  BY PageAssumption, PageStep
<1> QED BY <1>1, <1>2, TrackingImplementsLifecycle, LifecycleTypeCorrect, PTL DEF TrackingSpec

-----------------------------------------------------------------------------
(* What the page shows. *)

(* The page's state is well typed, however many polls are under way. *)
THEOREM TrackingTypeCorrect == TrackingSpec => []TrackingTypeOK
<1>1. LifecycleTypeOK /\ TrailInv /\ PageInv => TrackingTypeOK
  BY DEF TrailInv, PageInv, PageTypeOK, TrackingTypeOK
<1> QED BY <1>1, PageInvariant, PTL

(* An outcome is the last entry of the trail, and read after it is all of it. *)
LEMMA OutcomeEndsTrail ==
  ASSUME TrailInv, PageInv, event # None, Status(event) \in Ended
  PROVE  /\ event.seen \in Nat \ {0}
         /\ StatusHistory(event)[event.seen] = Status(event)
<1>1. /\ event.id \in Event /\ event.row \in Nat \ {0} /\ event.seen \in Nat
      /\ event.row <= event.seen /\ event.seen <= Len(trail[event.id])
  BY DEF PageInv, PageTypeOK, ShownRead
<1>2. PICK e \in Event : e = event.id
  BY <1>1
<1>3. trail[e] \in Seq(Phase \ {"NONE"}) /\ Len(trail[e]) \in Nat
  BY DEF TrailInv
<1>4. Status(event) = trail[e][event.row]
  BY <1>2 DEF Status
<1>5. \A n \in 1..Len(trail[e]) : trail[e][n] \in Ended => n = Len(trail[e])
  BY DEF TrailInv
<1>6. event.row = Len(trail[e]) /\ event.seen = event.row
  BY <1>1, <1>2, <1>3, <1>4, <1>5
<1>7. StatusHistory(event) = SubSeq(trail[e], 1, event.seen)
  BY <1>2 DEF StatusHistory
<1> QED BY <1>1, <1>3, <1>4, <1>6, <1>7

(* Every answer the page holds tells how its event came to the status it shows: *)
(* findOne reads the history after the row, and an outcome ends a trail.        *)
THEOREM AnswersTellTheWay == TrackingSpec => []AnswersAreConsistent
<1>1. TrailInv /\ PageInv => AnswersAreConsistent
  <2> SUFFICES ASSUME TrailInv, PageInv, event # None
               PROVE  Pipeline(Status(event))[3] # "" =>
                        Pipeline(Status(event))[3] = Timeline[event.seen]
    BY DEF PageInv, ShownRead, AnswersAreConsistent
  <2>1. CASE Status(event) \in Ended
    <3>1. event.seen \in Nat \ {0} /\ StatusHistory(event)[event.seen] = Status(event)
      BY <2>1, OutcomeEndsTrail
    <3>2. Timeline[event.seen] = IF Status(event) = "SUCCEEDED" THEN "succeeded" ELSE "failed"
      BY <2>1, <3>1 DEF Timeline, Ended
    <3>3. Pipeline(Status(event))[3] = IF Status(event) = "SUCCEEDED" THEN "succeeded" ELSE "failed"
      BY <2>1 DEF Pipeline, Ended
    <3> QED BY <3>2, <3>3
  <2>2. CASE Status(event) \notin Ended
    <3>1. Pipeline(Status(event))[3] = ""
      BY <2>2 DEF Pipeline, Ended
    <3> QED BY <3>1
  <2> QED BY <2>1, <2>2
<1> QED BY <1>1, PageInvariant, PTL

(* However the user goes from event to event, an event is shown under its own   *)
(* address, but for the render before the effect.                               *)
THEOREM AddressIsShown == TrackingSpec => []ShowsRequestedEvent
<1>1. PageInv => ShowsRequestedEvent
  BY DEF PageInv
<1> QED BY <1>1, PageInvariant, PTL

(* Cancelling is enough to keep one poll alive, and what the banner says of it  *)
(* is true.                                                                     *)
THEOREM OnePollAsShown == TrackingSpec => []PollingAsShown
<1>1. PageInv => PollingAsShown
  <2> SUFFICES ASSUME PageInv
               PROVE  Cardinality(Live) <= 1
    BY DEF PageInv, PollingAsShown
  <2>1. CASE Live = {}
    BY <2>1, FS_EmptySet
  <2>2. CASE Live # {}
    <3>1. PICK p \in Live : TRUE
      BY <2>2
    <3>2. Live = {p}
      BY <3>1 DEF PageInv
    <3>3. Cardinality({p}) = 1
      BY FS_Singleton, Zenon
    <3> QED BY <3>2, <3>3
  <2> QED BY <2>1, <2>2
<1> QED BY <1>1, PageInvariant, PTL

(* No answer takes the page back to an older state of the event it shows:      *)
(* requests that were overtaken are cancelled, not compared.                   *)
THEOREM NeverBack == TrackingSpec => ShownNeverGoesBack
<1>1. LifecycleTypeOK /\ TrailInv /\ PageInv /\ [TrackingNext]_trackingVars =>
        [(event # None /\ event' # None /\ event.id = event'.id)
           => event.row <= event'.row /\ event.seen <= event'.seen]_trackingVars
  <2> SUFFICES ASSUME LifecycleTypeOK, TrailInv, PageInv, TrackingNext, event # None,
                      event' # None, event.id = event'.id
               PROVE  event.row <= event'.row /\ event.seen <= event'.seen
    OBVIOUS
  <2>1. event.row \in Nat /\ event.seen \in Nat
    BY DEF PageInv, PageTypeOK
  <2>2. CASE event' = event
    BY <2>1, <2>2
  <2>3. CASE event' # event
    <3>1. PICK p \in polls : AnswerArrives(p)
      BY <2>3 DEF TrackingNext, ServiceStep, pageVars, Open, Navigate, ResumePolling, LeavePage,
         RunEffect, Progress, ServerReads, TimerFires, RequestFails
    <3>2. ~p.cancelled /\ TakeAnswer(p)
      BY <2>3, <3>1 DEF AnswerArrives, Ignored, TakeFailure
    <3>3. event'.id = p.id /\ event'.row = p.row /\ event'.seen = p.seen /\ p.at = "answered"
      BY <3>2 DEF TakeAnswer
    <3>4. NoOlderThanShown(p)
      BY <3>2 DEF PageInv, Live
    <3> QED BY <3>3, <3>4 DEF NoOlderThanShown
  <2> QED BY <2>2, <2>3
<1> QED BY <1>1, PageInvariant, PTL DEF TrackingSpec, ShownNeverGoesBack

(* What the lifecycle promises of an employee's events, a page that follows     *)
(* them can rely on.                                                            *)
THEOREM TrackedEventsAreOrdered == TrackingSpec => [](OneRunningPerEmployee /\ EndInOrder)
BY TrackingImplementsLifecycle, OneAtATime, EndsAreOrdered, PTL
=============================================================================
