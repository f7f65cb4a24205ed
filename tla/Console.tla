------------------------------ MODULE Console ------------------------------
(***************************************************************************)
(* The console: its pages, the links between them, and the service they    *)
(* ask, which other clients use as well and which may be down in part.     *)
(***************************************************************************)
EXTENDS SubmitPage

consoleVars == <<backendVars, at, view, submitVars>>

(* The console is opened at its form. *)
ConsoleInit ==
  /\ BackendInit
  /\ at = "submit"
  /\ view = Blank
  /\ calls = [s \in Slot |-> Idle]
  /\ form = NewForm(2) /\ keys = 2
  /\ post = NoPost

(* Links of the shell and of the pages; an event's page is opened from a row. *)
Link(page) ==
  /\ page # at
  /\ page = "event" =>
       \/ at = "dashboard" /\ view.items # <<>>
       \/ at = "events" /\ HasFooter

(* The page that is left is unmounted; a form is mounted with a new key. *)
GoTo(page) ==
  /\ Link(page)
  /\ Move
  /\ Mount(page)
  /\ keys' = IF page = "submit" THEN keys + 1 ELSE keys
  /\ form' = IF page = "submit" THEN NewForm(keys + 1) ELSE NoForm
  /\ post' = [post EXCEPT !.live = FALSE]
  /\ UNCHANGED <<rows, up>>

User ==
  \/ \E page \in Page : GoTo(page)
  \/ /\ \/ \E filter \in Filter : ApplyFilters(filter)
        \/ ClearFilters \/ NextPage \/ PreviousPage \/ LoadAgain \/ AskAgain
     /\ UNCHANGED submitVars
  \/ \E field \in Field : \E text \in Input(field) : SetField(field, text)
  \/ \E key \in 0..keys : SetKey(key)
  \/ \E eventType \in EventType : SelectType(eventType)
  \/ \E employee \in PresetEmployee : ApplyPreset(employee)
  \/ RegenerateKey \/ HandleSubmit

Progress(s) ==
  /\ \/ ServerAnswers(s) /\ UNCHANGED <<at, view>>
     \/ Arrives(s)
  /\ UNCHANGED submitVars

Timer == (AutoRefresh \/ Poll) /\ UNCHANGED submitVars

Environment ==
  \/ /\ \/ \E s \in Slot : RequestLost(s)
        \/ \E d \in Dependency : Outage(d) \/ Restore(d)
        \/ \E employee \in PresetEmployee : OtherClient(employee)
        \/ \E n \in DOMAIN rows : ServiceMoves(n)
     /\ UNCHANGED <<at, view, submitVars>>
  \/ Throttled \/ PostLost

ConsoleNext ==
  \/ User \/ Environment \/ Timer \/ PostAnswers
  \/ \E s \in Slot : Progress(s)

(* Requests are worked on and answered as far as the dependencies allow, and  *)
(* the intervals go on; a tick passes unused while MaxCalls are under way.    *)
ConsoleFairness ==
  /\ \A s \in Slot : WF_consoleVars(Progress(s))
  /\ SF_consoleVars(Timer)

ConsoleSpec == ConsoleInit /\ [][ConsoleNext]_consoleVars /\ ConsoleFairness

-----------------------------------------------------------------------------
(* Properties.                                                               *)

(* A page never holds a health answer that names a failed dependency: a 503   *)
(* reaches it as an error only.                                               *)
ConsoleTypeOK ==
  /\ at \in Page /\ up \subseteq Dependency
  /\ \A n \in DOMAIN rows :
       ValidEventPayload(rows[n].eventType, rows[n].payload) /\ rows[n].status \in Status
  /\ view.offset \in Nat /\ view.total \in Nat /\ view.health \in {"unknown", "ok"}
  /\ form.fieldErrors \subseteq Field \cup {"idempotencyKey"} /\ form.key \in 0..keys
  /\ at # "submit" => form = NoForm

(* The fields of a request that the service finds fault with. *)
Faults(payload) == {field \in DOMAIN payload : ~Satisfies(field, payload[field])}

(* The form's validation is said to mirror the service's rules.  It does but  *)
(* for the date: when the service refuses what the form has let pass, every   *)
(* other field is in order, however the form was edited and whatever          *)
(* buildPayload made of the texts.                                            *)
OnlyDatesRefused == post.reply = "invalid" => Faults(post.payload) = {"effectiveDate"}

(* However often a form is sent again, after errors, lost answers and outages,*)
(* there is one event at most for each key that was generated, and it is what *)
(* the user was told was accepted.                                            *)
OneEventPerIntent ==
  /\ \A m, n \in DOMAIN rows : (rows[m].key # 0 /\ rows[m].key = rows[n].key) => m = n
  /\ Cardinality({n \in DOMAIN rows : rows[n].key # 0}) <= keys
  /\ post.reply = "accepted" => \E n \in DOMAIN rows : rows[n].key = post.key /\ SameEvent(rows[n])

(* The figures of the dashboard and the metrics page add up: what they show   *)
(* of the newest events never exceeds the total they show beside it, although *)
(* the two are read one after the other.                                      *)
CardsWithinTotal ==
  (at \in {"dashboard", "metrics"} /\ ~view.loading)
    => Cards.active + Cards.succeeded + Cards.failed <= Cards.total

Shows(query) == ~view.error /\ view.items = FindMany(query) /\ view.total = Count(query)

(* Once nothing changes any more, the list shows the events of its filter and *)
(* its page, and the dashboard the newest ones, whatever answers to older     *)
(* queries came in between.                                                   *)
ListsSettle ==
  <>[](/\ (at = "events" /\ "db" \in up) => Shows(CurrentQuery(view))
       /\ (at = "dashboard" /\ up = Dependency)
            => Shows(Query(NoFilter, DashboardLimit, 0)))

(* Once nothing changes any more, the health page tells whether the database  *)
(* is up, provided Redis is.                                                  *)
HealthSettles ==
  <>[]((at = "health" /\ "redis" \in up) => (IsDegraded <=> "db" \notin up))
=============================================================================
