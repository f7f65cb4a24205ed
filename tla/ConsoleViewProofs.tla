-------------------------- MODULE ConsoleViewProofs --------------------------
(***************************************************************************)
(* Proofs about what the console's pages show, for any number of events,   *)
(* requests and moves: a page of the list is the one asked for, the pages' *)
(* state keeps its types, and the figures shown side by side add up.       *)
(***************************************************************************)
EXTENDS ConsoleProofs

-----------------------------------------------------------------------------
(* What the service's list query returns. *)

(* Counted from the newest, the rows found have the places 1, 2, 3, ... *)
LEMMA Places ==
  ASSUME NEW found, IsFiniteSet(found), found \subseteq Nat
  PROVE  /\ \A n \in found : Place(found, n) \in 1..Cardinality(found)
         /\ \A n, p \in found : n < p => Place(found, p) < Place(found, n)
         /\ \A k \in 1..Cardinality(found) : \E n \in found : Place(found, n) = k
<1> DEFINE above(n) == {m \in found : n <= m}
           place == [n \in found |-> Place(found, n)]
<1>1. Cardinality(found) \in Nat
  BY FS_CardinalityType
<1>2. ASSUME NEW n \in found
      PROVE  Place(found, n) \in 1..Cardinality(found)
  <2>1. above(n) \in SUBSET found /\ n \in above(n)
    OBVIOUS
  <2>2. /\ IsFiniteSet(above(n)) /\ Cardinality(above(n)) <= Cardinality(found)
        /\ Cardinality(above(n)) \in Nat /\ Cardinality(above(n)) # 0
    BY <2>1, FS_Subset, FS_CardinalityType, FS_EmptySet
  <2> QED BY <1>1, <2>2 DEF Place
<1>3. ASSUME NEW n \in found, NEW p \in found, n < p
      PROVE  Place(found, p) < Place(found, n)
  <2>1. above(p) \in SUBSET above(n) /\ n \in above(n) /\ n \notin above(p)
    <3>1. \A m \in found : m \in Nat
      OBVIOUS
    <3>2. \A m \in found : p <= m => n <= m
      BY <1>3, <3>1
    <3>3. n <= n /\ ~(p <= n)
      BY <1>3, <3>1
    <3> QED BY <3>2, <3>3
  <2>2. above(n) \in SUBSET found
    OBVIOUS
  <2>3. IsFiniteSet(above(n))
    BY <2>2, FS_Subset
  <2> HIDE DEF above
  <2>4. /\ Cardinality(above(p)) <= Cardinality(above(n))
        /\ Cardinality(above(p)) # Cardinality(above(n))
    BY <2>1, <2>3, FS_Subset
  <2> USE DEF above
  <2>5. Place(found, p) = Cardinality(above(p)) /\ Place(found, n) = Cardinality(above(n))
    BY DEF Place
  <2> QED BY <1>2, <2>4, <2>5
<1>4. place \in [found -> 1..Cardinality(found)]
  BY <1>2
<1>5. \A n, p \in found : place[n] = place[p] => n = p
  BY <1>1, <1>2, <1>3
<1>6. place \in Injection(found, 1..Cardinality(found))
  <2> HIDE DEF place
  <2> QED BY <1>4, <1>5, Fun_IsInj
<1>7. IsFiniteSet(1..Cardinality(found)) /\ Cardinality(1..Cardinality(found)) = Cardinality(found)
  BY <1>1, FS_Interval
<1>8. place \in Surjection(found, 1..Cardinality(found))
  <2> HIDE DEF place
  <2> QED BY <1>6, <1>7, FS_Injection
<1>9. \A k \in 1..Cardinality(found) : \E n \in found : place[n] = k
  <2> HIDE DEF place
  <2> QED BY <1>8 DEF Surjection
<1> QED BY <1>2, <1>3, <1>9

LEMMA MatchingRows ==
  ASSUME NEW S, rows \in Seq(S), NEW filter
  PROVE  /\ IsFiniteSet(Matching(filter)) /\ Matching(filter) \subseteq Nat
         /\ Matching(filter) \subseteq DOMAIN rows
         /\ Cardinality(Matching(filter)) \in Nat
         /\ Cardinality(Matching(filter)) <= Len(rows)
         /\ filter = NoFilter => Cardinality(Matching(filter)) = Len(rows)
<1>1. Len(rows) \in Nat /\ DOMAIN rows = 1..Len(rows)
  OBVIOUS
<1>2. IsFiniteSet(1..Len(rows)) /\ Cardinality(1..Len(rows)) = Len(rows)
  BY <1>1, FS_Interval
<1>3. Matching(filter) \in SUBSET (1..Len(rows))
  BY <1>1 DEF Matching
<1>4. filter = NoFilter => Matching(filter) = 1..Len(rows)
  <2>1. NoFilter.employeeId = "" /\ NoFilter.status = ""
    BY DEF NoFilter
  <2>2. Matching(NoFilter) = DOMAIN rows
    BY <2>1 DEF Matching
  <2> QED BY <1>1, <2>2
<1> QED BY <1>1, <1>2, <1>3, <1>4, FS_Subset, FS_CardinalityType

(* The answer to a query holds the rows found at the places after its offset,  *)
(* from the newest on: as many as its limit allows, or as there are left.      *)
THEOREM PageIsTheOneAskedFor ==
  ASSUME NEW S, rows \in Seq(S), NEW query, query.limit \in Nat, query.offset \in Nat
  PROVE  LET found == Matching(query.filter)
             left == Cardinality(found) - query.offset
             items == FindMany(query)
         IN  /\ items \in Seq(S)
             /\ Len(items) = IF left <= 0 THEN 0 ELSE IF left < query.limit THEN left ELSE query.limit
             /\ \A k \in 1..Len(items) :
                  \E n \in found : items[k] = rows[n] /\ Place(found, n) = query.offset + k
<1> DEFINE found == Matching(query.filter)
           left == Cardinality(found) - query.offset
           total == Cardinality(found)
           last == IF query.offset + query.limit < total THEN query.offset + query.limit ELSE total
           page == OnPage(query)
           shown == (query.offset + 1)..last
           place == [n \in page |-> Place(found, n)]
           count == IF left <= 0 THEN 0 ELSE IF left < query.limit THEN left ELSE query.limit
<1>1. /\ IsFiniteSet(found) /\ found \subseteq Nat /\ total \in Nat /\ found \subseteq DOMAIN rows
  BY MatchingRows
<1>2. /\ \A n \in found : Place(found, n) \in 1..total
      /\ \A n, p \in found : n < p => Place(found, p) < Place(found, n)
      /\ \A k \in 1..total : \E n \in found : Place(found, n) = k
  <2> HIDE DEF found
  <2> QED BY <1>1, Places
<1>3. page = {n \in found : Place(found, n) \in (query.offset + 1)..(query.offset + query.limit)}
  BY DEF OnPage
<1> HIDE DEF found, page
<1>4. page \subseteq found /\ \A n \in found : n \in page <=> Place(found, n) \in shown
  BY <1>1, <1>2, <1>3
<1>5. place \in [page -> shown] /\ \A n, p \in page : place[n] = place[p] => n = p
  BY <1>1, <1>2, <1>4
<1>6. \A k \in shown : \E n \in page : place[n] = k
  BY <1>1, <1>2, <1>4
<1>7. Cardinality(page) = Cardinality(shown)
  <2> HIDE DEF place, shown
  <2>1. place \in Bijection(page, shown)
    BY <1>5, <1>6, Fun_IsBij
  <2>2. ExistsBijection(page, shown)
    BY <2>1 DEF ExistsBijection
  <2>3. IsFiniteSet(page)
    BY <1>1, <1>4, FS_Subset
  <2> QED BY <2>2, <2>3, FS_Bijection
<1>8. Cardinality(shown) = count
  <2>1. last \in Nat /\ query.offset + 1 \in Int
    BY <1>1
  <2>2. \A a, b \in Int : Cardinality(a..b) = IF a > b THEN 0 ELSE b - a + 1
    BY FS_Interval
  <2>3. Cardinality(shown) = IF query.offset + 1 > last THEN 0 ELSE last - (query.offset + 1) + 1
    <3> DEFINE first == query.offset + 1
    <3>1. first \in Int /\ last \in Int
      BY <2>1
    <3> HIDE DEF first, last
    <3>2. Cardinality(first..last) = IF first > last THEN 0 ELSE last - first + 1
      BY <2>2, <3>1
    <3> QED BY <3>2 DEF first
  <2> QED BY <1>1, <2>3
<1>9. count \in Nat /\ \A k \in 1..count : query.offset + k \in shown
  BY <1>1
<1>10. FindMany(query) =
         [k \in 1..count |-> rows[CHOOSE n \in page : Place(found, n) = query.offset + k]]
  BY <1>7, <1>8 DEF FindMany, found, page
<1>11. ASSUME NEW k \in 1..count
       PROVE  \E n \in found : /\ FindMany(query)[k] = rows[n]
                               /\ Place(found, n) = query.offset + k
  <2>1. PICK p \in page : Place(found, p) = query.offset + k
    BY <1>6, <1>9
  <2> DEFINE n == CHOOSE m \in page : Place(found, m) = query.offset + k
  <2>2. n \in page /\ Place(found, n) = query.offset + k
    BY <2>1
  <2> QED BY <1>4, <1>10, <2>2
<1>12. \A k \in 1..count : FindMany(query)[k] \in S
  BY <1>1, <1>11
<1>13. FindMany(query) \in Seq(S) /\ Len(FindMany(query)) = count
  <2>1. count \in Nat
    BY <1>9
  <2> HIDE DEF count
  <2>2. DOMAIN FindMany(query) = 1..count
    BY <1>10
  <2>3. FindMany(query) = [k \in 1..count |-> FindMany(query)[k]]
    BY <1>10
  <2>4. FindMany(query) \in [1..count -> S]
    BY <1>12, <2>3
  <2> QED BY <2>1, <2>2, <2>4
<1> QED BY <1>11, <1>13 DEF found

-----------------------------------------------------------------------------
(* Rows and forms. *)

(* Every row is of an event the service takes for valid. *)
RowsValid == \A n \in DOMAIN rows : ValidEventPayload(rows[n].eventType, rows[n].payload)

(* A form is there only while its page is, and only its own page's request is *)
(* alive.                                                                     *)
FormAtHome == at # "submit" => form = NoForm /\ ~post.live

(* Events are not deleted, and what they ask for stays. *)
RowsGoOn ==
  /\ Len(rows) <= Len(rows')
  /\ \A n \in 1..Len(rows) : /\ rows'[n].eventType = rows[n].eventType
                               /\ rows'[n].payload = rows[n].payload

LEMMA BankAccountIsValid ==
  ASSUME NEW t \in Text, t # ""
  PROVE  ValidEventPayload("BANK_ACCOUNT_CHANGE", BankAccount(t))
<1> DEFINE payload == BankAccount(t)
<1>1. DOMAIN payload = FieldOf["BANK_ACCOUNT_CHANGE"]
  BY FieldsOfTypes DEF BankAccount
<1>2. payload.employeeId = t /\ payload.effectiveDate = "day" /\ payload.iban = "X"
  BY DEF BankAccount
<1>3. ASSUME NEW field \in DOMAIN payload
      PROVE  Satisfies(field, payload[field])
  <2>1. field \in {"employeeId", "effectiveDate", "iban"}
    BY <1>1, FieldsOfTypes
  <2> QED BY <1>2, <2>1 DEF Satisfies, MatchesPattern
<1> QED BY <1>1, <1>3 DEF ValidEventPayload, EventType

LEMMA RowAdded ==
  ASSUME IntentInv, RowsValid, NEW row \in RowSet, rows' = Append(rows, row),
         ValidEventPayload(row.eventType, row.payload)
  PROVE  RowsValid' /\ RowsGoOn
<1>1. rows \in Seq(RowSet) /\ Len(rows) \in Nat /\ DOMAIN rows = 1..Len(rows)
  BY DEF IntentInv, IntentTypeOK
<1>2. /\ DOMAIN rows' = 1..(Len(rows) + 1) /\ Len(rows') = Len(rows) + 1
      /\ \A n \in 1..Len(rows) : rows'[n] = rows[n]
      /\ rows'[Len(rows) + 1] = row
  BY <1>1
<1>3. ASSUME NEW n \in DOMAIN rows'
      PROVE  ValidEventPayload(rows'[n].eventType, rows'[n].payload)
  <2>1. n \in DOMAIN rows \/ n = Len(rows) + 1
    BY <1>1, <1>2
  <2> QED BY <1>1, <1>2, <2>1 DEF RowsValid
<1> QED BY <1>1, <1>2, <1>3 DEF RowsValid, RowsGoOn

LEMMA RowsStay ==
  ASSUME IntentInv, RowsValid, UNCHANGED rows
  PROVE  RowsValid' /\ RowsGoOn
<1>1. Len(rows) \in Nat
  BY DEF IntentInv, IntentTypeOK
<1> QED BY <1>1 DEF RowsValid, RowsGoOn

LEMMA RowsStep ==
  ASSUME IntentInv, RowsValid, [ConsoleNext]_consoleVars
  PROVE  RowsValid' /\ RowsGoOn
<1>1. /\ rows \in Seq(RowSet) /\ Len(rows) \in Nat /\ DOMAIN rows = 1..Len(rows)
      /\ \A n \in 1..Len(rows) : rows[n] \in RowSet
  BY DEF IntentInv, IntentTypeOK
<1>2. ASSUME NEW employee \in PresetEmployee, OtherClient(employee)
      PROVE  RowsValid' /\ RowsGoOn
  <2> DEFINE row == Row(0, "BANK_ACCOUNT_CHANGE", BankAccount(employee))
  <2>1. employee \in Text /\ employee # ""
    BY SubmitAssumption, PresetsAreFilledIn
  <2>2. BankAccount(employee) \in Payload
    BY <2>1, BankAccounts
  <2>3. /\ row \in RowSet /\ row.eventType = "BANK_ACCOUNT_CHANGE"
        /\ row.payload = BankAccount(employee)
    BY <2>2 DEF Row, RowSet, EventType, Status
  <2>4. rows' = Append(rows, row)
    BY <1>2 DEF OtherClient
  <2> HIDE DEF row
  <2> QED BY <2>1, <2>3, <2>4, BankAccountIsValid, RowAdded
<1>3. ASSUME NEW n \in DOMAIN rows, ServiceMoves(n)
      PROVE  RowsValid' /\ RowsGoOn
  <2>1. PICK to \in Status : rows' = [rows EXCEPT ![n].status = to]
    BY <1>3 DEF ServiceMoves, Status
  <2>2. \A r \in RowSet : /\ [r EXCEPT !.status = to].eventType = r.eventType
                          /\ [r EXCEPT !.status = to].payload = r.payload
    BY DEF RowSet
  <2>3. /\ DOMAIN rows' = 1..Len(rows) /\ Len(rows') = Len(rows)
        /\ \A m \in 1..Len(rows) : rows'[m] = rows[m] \/ rows'[m] = [rows[m] EXCEPT !.status = to]
    BY <1>1, <2>1
  <2>4. \A m \in 1..Len(rows) : /\ rows'[m].eventType = rows[m].eventType
                                 /\ rows'[m].payload = rows[m].payload
    BY <1>1, <2>2, <2>3
  <2> QED BY <1>1, <2>3, <2>4 DEF RowsValid, RowsGoOn
<1>4. CASE Create
  <2> DEFINE row == Row(post.key, post.eventType, post.payload)
  <2>1. \/ UNCHANGED rows
        \/ rows' = Append(rows, row) /\ ValidEventPayload(post.eventType, post.payload)
    BY <1>4 DEF Create
  <2>2. post.key \in Nat /\ post.eventType \in EventType /\ post.payload \in Payload
    BY <1>4 DEF Create, IntentInv, IntentTypeOK, PostInv, PostSet
  <2>3. /\ row \in RowSet /\ row.eventType = post.eventType /\ row.payload = post.payload
    BY <2>2 DEF Row, RowSet, Status
  <2> HIDE DEF row
  <2> QED BY <2>1, <2>2, <2>3, RowAdded, RowsStay
<1>5. CASE User \/ Timer \/ (\E s \in Slot : Progress(s)) \/ Enqueue \/ ReplyAccepted
             \/ ReplyRejected \/ Throttled \/ PostLost \/ UNCHANGED consoleVars
             \/ (\E s \in Slot : RequestLost(s)) \/ (\E d \in Dependency : Outage(d) \/ Restore(d))
  <2>1. UNCHANGED rows
    BY <1>5 DEF User, Timer, Progress, Enqueue, ReplyAccepted, ReplyRejected, Throttled, PostLost,
       consoleVars, backendVars, RequestLost, Outage, Restore, GoTo, ApplyFilters, ClearFilters,
       NextPage, PreviousPage, LoadAgain, AskAgain, OnList, SetField, SetKey, SelectType, ApplyPreset,
       RegenerateKey, HandleSubmit, Edit, AutoRefresh, Poll, ServerAnswers, ServerLists,
       CheckPostgres, CheckRedis, Arrives
  <2> QED BY <2>1, RowsStay
<1> QED BY <1>2, <1>3, <1>4, <1>5 DEF ConsoleNext, Environment, PostAnswers

LEMMA FormStep ==
  ASSUME IntentInv, FormAtHome, [ConsoleNext]_consoleVars
  PROVE  FormAtHome'
<1> DEFINE still == UNCHANGED at /\ UNCHANGED form /\ UNCHANGED post
<1>1. still => FormAtHome'
  BY DEF FormAtHome
<1>2. post \in PostSet
  BY DEF IntentInv, IntentTypeOK
<1>3. CASE User
  <2>1. CASE \E page \in Page : GoTo(page)
    BY <1>2, <2>1 DEF GoTo, Mount, FormAtHome, PostSet
  <2>2. CASE /\ \/ \E filter \in Filter : ApplyFilters(filter)
                \/ ClearFilters \/ NextPage \/ PreviousPage \/ LoadAgain \/ AskAgain
             /\ UNCHANGED submitVars
    <3>1. UNCHANGED at
      BY <2>2 DEF ApplyFilters, ClearFilters, NextPage, PreviousPage, LoadAgain, AskAgain, OnList
    <3> QED BY <1>1, <2>2, <3>1 DEF submitVars
  <2>3. CASE ~(\E page \in Page : GoTo(page)) /\ at' = "submit"
    BY <2>3 DEF FormAtHome
  <2> QED BY <1>3, <2>1, <2>2, <2>3 DEF User, SetField, SetKey, SelectType, ApplyPreset,
          RegenerateKey, HandleSubmit, Edit
<1>4. CASE PostAnswers \/ Throttled \/ PostLost
  <2>1. CASE ReplyAccepted
    BY <2>1 DEF ReplyAccepted, FormAtHome, NoPost
  <2>2. CASE ReplyRejected
    BY <2>2 DEF ReplyRejected, FormAtHome, NoPost
  <2>3. CASE Create \/ Enqueue \/ Throttled \/ PostLost
    <3>1. UNCHANGED at /\ UNCHANGED form /\ post'.live = post.live
      BY <1>2, <2>3 DEF Create, Enqueue, Throttled, PostLost, Reply, PostSet
    <3> QED BY <3>1 DEF FormAtHome
  <2> QED BY <1>4, <2>1, <2>2, <2>3 DEF PostAnswers
<1>5. CASE Environment /\ ~Throttled /\ ~PostLost
  BY <1>1, <1>5 DEF Environment, submitVars
<1>6. CASE Timer \/ \E s \in Slot : Progress(s)
  BY <1>1, <1>6 DEF Timer, AutoRefresh, Poll, Progress, Arrives, submitVars
<1>7. CASE UNCHANGED consoleVars
  BY <1>1, <1>7 DEF consoleVars, submitVars
<1> QED BY <1>3, <1>4, <1>5, <1>6, <1>7 DEF ConsoleNext

-----------------------------------------------------------------------------
(* Requests and views. *)

CallSet ==
  [list : {"no", "asked", "read", "done", "failed"},
   query : [filter : Filter, limit : Nat, offset : Nat],
   items : Seq(RowSet), total : Nat,
   health : {"no", "asked", "db up", "db down", "ok", "failed"}]

ViewSet ==
  [items : Seq(RowSet), total : Nat, offset : Nat, filter : Filter, loading : BOOLEAN,
   error : BOOLEAN, health : {"unknown", "ok"}]

PagesTypeOK ==
  /\ at \in Page /\ up \subseteq Dependency
  /\ calls \in [Slot -> CallSet]
  /\ view \in ViewSet

(* What a request holds of the list: no more rows than there are while it     *)
(* waits for their number, and no more than that number afterwards.           *)
CountsUp(call) ==
  /\ call.list = "read" => Len(call.items) <= Len(rows)
  /\ call.list = "done" /\ call.query.filter = NoFilter => Len(call.items) <= call.total

OnCards == at \in {"dashboard", "metrics"}

(* The cards' pages ask for all events, and hold no more of them than they     *)
(* were told there are.                                                       *)
TotalsInv ==
  /\ \A s \in Slot : CountsUp(calls[s]) /\ (OnCards => calls[s].query.filter = NoFilter)
  /\ OnCards => Len(view.items) <= view.total

PagesInv == PagesTypeOK /\ TotalsInv

LEMMA CallsOfPages ==
  ASSUME NEW page \in Page
  PROVE  /\ Idle \in CallSet /\ FirstCall(page) \in CallSet
         /\ CountsUp(Idle) /\ CountsUp(FirstCall(page))
         /\ CountsUp(Idle)' /\ CountsUp(FirstCall(page))'
         /\ Idle.query.filter = NoFilter
         /\ FirstCall(page).query.filter = NoFilter
         /\ FirstCall(page).list \in {"no", "asked"}
<1> DEFINE queries == [filter : Filter, limit : Nat, offset : Nat]
<1>1. \A limit \in Nat : Query(NoFilter, limit, 0) \in queries
                         /\ Query(NoFilter, limit, 0).filter = NoFilter
  BY PagesAssumption DEF Query
<1>2. PageSize \in Nat /\ DashboardLimit \in Nat /\ MetricsLimit \in Nat /\ 0 \in Nat
  BY PagesAssumption
<1>3. Idle \in CallSet /\ Idle.query.filter = NoFilter /\ Idle.list = "no"
  BY <1>1, <1>2 DEF Idle, CallSet
<1>4. ASSUME NEW query \in queries, query.filter = NoFilter
      PROVE  /\ ListEvents(query) \in CallSet /\ ListEvents(query).query.filter = NoFilter
             /\ ListEvents(query).list = "asked"
             /\ ListAndHealth(query) \in CallSet /\ ListAndHealth(query).query.filter = NoFilter
             /\ ListAndHealth(query).list = "asked"
  <2>1. /\ ListEvents(query) \in CallSet /\ ListEvents(query).query = query
        /\ ListEvents(query).list = "asked"
    BY <1>3, <1>4 DEF ListEvents, CallSet
  <2>2. \A call \in CallSet : /\ [call EXCEPT !.health = "asked"] \in CallSet
                              /\ [call EXCEPT !.health = "asked"].query = call.query
                              /\ [call EXCEPT !.health = "asked"].list = call.list
    BY DEF CallSet
  <2> QED BY <1>4, <2>1, <2>2 DEF ListAndHealth
<1>5. GetHealth \in CallSet /\ GetHealth.query.filter = NoFilter /\ GetHealth.list = "no"
  BY <1>3 DEF GetHealth, CallSet
<1>6. /\ FirstCall(page) \in CallSet /\ FirstCall(page).query.filter = NoFilter
      /\ FirstCall(page).list \in {"no", "asked"}
  BY <1>1, <1>2, <1>3, <1>4, <1>5 DEF FirstCall
<1> QED BY <1>3, <1>6 DEF CountsUp

(* A page is mounted. *)
LEMMA PagesMount ==
  ASSUME NEW page \in Page, Mount(page), up' \subseteq Dependency
  PROVE  PagesInv'
<1>1. view' = Blank /\ at' = page
  BY DEF Mount
<1>2. view' \in ViewSet /\ Len(view'.items) = 0 /\ view'.total = 0
  BY <1>1, PagesAssumption DEF Blank, ViewSet
<1>3. calls' = [s \in Slot |-> IF s = 1 THEN FirstCall(page) ELSE Idle]
  BY DEF Mount
<1>4. PagesTypeOK'
  BY <1>1, <1>2, <1>3, CallsOfPages DEF PagesTypeOK
<1>5. ASSUME NEW s \in Slot
      PROVE  CountsUp(calls[s])' /\ calls'[s].query.filter = NoFilter
  BY <1>3, CallsOfPages DEF CountsUp
<1> QED BY <1>2, <1>4, <1>5 DEF PagesInv, TotalsInv

(* What a request holds stays good while it is left alone. *)
LEMMA CountsKept ==
  ASSUME IntentInv, PagesInv, RowsGoOn, rows' \in Seq(RowSet), UNCHANGED at,
         NEW s \in Slot, calls'[s] = calls[s]
  PROVE  CountsUp(calls[s])' /\ (OnCards' => calls'[s].query.filter = NoFilter)
<1>1. Len(rows) \in Nat /\ Len(rows') \in Nat /\ Len(rows) <= Len(rows')
  BY DEF IntentInv, IntentTypeOK, RowsGoOn
<1>2. calls[s] \in CallSet
  BY DEF PagesInv, PagesTypeOK
<1>3. CountsUp(calls[s]) /\ (OnCards => calls[s].query.filter = NoFilter)
  BY DEF PagesInv, TotalsInv
<1>4. \A call \in CallSet : Len(call.items) \in Nat
  <2>1. \A call \in CallSet : call.items \in Seq(RowSet)
    BY DEF CallSet
  <2>2. \A items \in Seq(RowSet) : Len(items) \in Nat
    OBVIOUS
  <2> QED BY <2>1, <2>2
<1> QED BY <1>1, <1>2, <1>3, <1>4 DEF CountsUp, OnCards

(* The page stays and one of its requests changes. *)
LEMMA PagesCall ==
  ASSUME IntentInv, PagesInv, RowsGoOn, rows' \in Seq(RowSet), UNCHANGED at,
         up' \subseteq Dependency, view' \in ViewSet,
         OnCards => Len(view'.items) <= view'.total,
         NEW s \in Slot, NEW call \in CallSet, calls' = [calls EXCEPT ![s] = call],
         CountsUp(call)', OnCards => call.query.filter = NoFilter
  PROVE  PagesInv'
<1>1. /\ calls \in [Slot -> CallSet]
      /\ \A t \in Slot : calls'[t] = IF t = s THEN call ELSE calls[t]
  BY DEF PagesInv, PagesTypeOK
<1>2. PagesTypeOK'
  BY <1>1 DEF PagesInv, PagesTypeOK
<1>3. ASSUME NEW t \in Slot
      PROVE  CountsUp(calls[t])' /\ (OnCards' => calls'[t].query.filter = NoFilter)
  <2>1. CASE t = s
    BY <1>1, <2>1 DEF CountsUp, OnCards
  <2>2. CASE t # s
    BY <1>1, <2>2, CountsKept
  <2> QED BY <2>1, <2>2
<1> QED BY <1>2, <1>3 DEF PagesInv, TotalsInv, OnCards

LEMMA PagesIdle ==
  ASSUME IntentInv, PagesInv, RowsGoOn, rows' \in Seq(RowSet), up' \subseteq Dependency,
         UNCHANGED at, UNCHANGED calls, UNCHANGED view
  PROVE  PagesInv'
<1>1. PagesTypeOK' /\ (OnCards' => Len(view'.items) <= view'.total)
  BY DEF PagesInv, PagesTypeOK, TotalsInv, OnCards
<1>2. \A s \in Slot : CountsUp(calls[s])' /\ (OnCards' => calls'[s].query.filter = NoFilter)
  BY CountsKept
<1> QED BY <1>1, <1>2 DEF PagesInv, TotalsInv

(* A new request has asked for a list, if any, and holds nothing of it. *)
LEMMA PagesSend ==
  ASSUME IntentInv, PagesInv, RowsGoOn, rows' \in Seq(RowSet), UNCHANGED at, UNCHANGED up,
         view' \in ViewSet, OnCards => Len(view'.items) <= view'.total,
         NEW call \in CallSet, Send(call), call.list \in {"no", "asked"},
         OnCards => call.query.filter = NoFilter
  PROVE  PagesInv'
<1>1. PICK s \in Slot : calls' = [calls EXCEPT ![s] = call]
  BY DEF Send
<1>2. CountsUp(call)' /\ up' \subseteq Dependency
  BY DEF CountsUp, PagesInv, PagesTypeOK
<1> QED BY <1>1, <1>2, PagesCall

(* load() is called on the list's page only, with the state it has next. *)
LEMMA PagesLoad ==
  ASSUME IntentInv, PagesInv, RowsGoOn, rows' \in Seq(RowSet), UNCHANGED at, UNCHANGED up,
         at = "events", NEW v \in ViewSet, NEW silent \in BOOLEAN, Load(v, silent)
  PROVE  PagesInv'
<1> DEFINE query == CurrentQuery(v)
           call == ListEvents(query)
<1>1. query \in [filter : Filter, limit : Nat, offset : Nat]
  BY PagesAssumption DEF CurrentQuery, Query, ViewSet
<1>2. Idle \in CallSet
  BY CallsOfPages DEF Page
<1>3. call \in CallSet /\ call.list = "asked"
  <2> HIDE DEF query
  <2> QED BY <1>1, <1>2 DEF ListEvents, CallSet
<1>4. view' \in ViewSet
  BY DEF Load, ViewSet
<1>5. Send(call)
  BY DEF Load
<1> HIDE DEF call
<1> QED BY <1>3, <1>4, <1>5, PagesSend DEF OnCards

LEMMA PagesList ==
  ASSUME IntentInv, PagesInv, RowsGoOn, rows' \in Seq(RowSet),
         \/ \E filter \in Filter : ApplyFilters(filter)
         \/ ClearFilters \/ NextPage \/ PreviousPage \/ LoadAgain \/ AutoRefresh
  PROVE  PagesInv'
<1>1. view \in ViewSet /\ view.offset \in Nat /\ PageSize \in Nat /\ NoFilter \in Filter
  BY PagesAssumption DEF PagesInv, PagesTypeOK, ViewSet
<1>2. ASSUME NEW v \in ViewSet, OnList(v)
      PROVE  PagesInv'
  BY <1>2, PagesLoad DEF OnList
<1>3. ASSUME NEW filter \in Filter, ApplyFilters(filter)
      PROVE  PagesInv'
  <2>1. [view EXCEPT !.filter = filter, !.offset = 0] \in ViewSet
    BY <1>1 DEF ViewSet
  <2> QED BY <1>2, <1>3, <2>1 DEF ApplyFilters
<1>4. CASE ClearFilters
  BY <1>1, <1>3, <1>4 DEF ClearFilters
<1>5. ASSUME NEW offset \in Nat
      PROVE  [view EXCEPT !.offset = offset] \in ViewSet
  BY <1>1 DEF ViewSet
<1>6. CASE NextPage
  <2>1. view.offset + PageSize \in Nat
    BY <1>1
  <2>2. OnList([view EXCEPT !.offset = view.offset + PageSize])
    BY <1>6 DEF NextPage
  <2> QED BY <1>2, <1>5, <2>1, <2>2
<1>7. CASE PreviousPage
  <2> DEFINE back == IF view.offset > PageSize THEN view.offset - PageSize ELSE 0
  <2>1. back \in Nat
    BY <1>1
  <2>2. OnList([view EXCEPT !.offset = back])
    BY <1>7 DEF PreviousPage
  <2> HIDE DEF back
  <2> QED BY <1>2, <1>5, <2>1, <2>2
<1>8. CASE LoadAgain
  BY <1>1, <1>2, <1>8 DEF LoadAgain
<1>9. CASE AutoRefresh
  BY <1>1, <1>9, PagesLoad DEF AutoRefresh
<1> QED BY <1>3, <1>4, <1>6, <1>7, <1>8, <1>9

LEMMA PagesAsk ==
  ASSUME IntentInv, PagesInv, RowsGoOn, rows' \in Seq(RowSet), Poll \/ AskAgain
  PROVE  PagesInv'
<1>1. /\ UNCHANGED at /\ UNCHANGED up /\ UNCHANGED view /\ at \in Page
      /\ Send(FirstCall(at)) /\ view' \in ViewSet
  BY DEF Poll, AskAgain, PagesInv, PagesTypeOK
<1>2. OnCards => Len(view'.items) <= view'.total
  BY <1>1 DEF PagesInv, TotalsInv
<1>3. PICK page \in Page : page = at
  BY <1>1
<1>4. /\ FirstCall(page) \in CallSet /\ FirstCall(page).query.filter = NoFilter
      /\ FirstCall(page).list \in {"no", "asked"}
  BY CallsOfPages
<1> QED BY <1>1, <1>2, <1>3, <1>4, PagesSend

-----------------------------------------------------------------------------
(* A request is worked on. *)

LEMMA PagesRead ==
  ASSUME IntentInv, PagesInv, RowsGoOn, rows' \in Seq(RowSet), UNCHANGED at, UNCHANGED view,
         NEW s \in Slot, ServerLists(s)
  PROVE  PagesInv'
<1> DEFINE call == calls[s]
           found == Matching(call.query.filter)
           items == FindMany(call.query)
<1>1. /\ call \in CallSet /\ call.query \in [filter : Filter, limit : Nat, offset : Nat]
      /\ call.items \in Seq(RowSet) /\ call.total \in Nat
      /\ UNCHANGED rows /\ UNCHANGED up /\ rows \in Seq(RowSet)
      /\ CountsUp(call) /\ (OnCards => call.query.filter = NoFilter)
  BY DEF PagesInv, PagesTypeOK, TotalsInv, CallSet, ServerLists, IntentInv, IntentTypeOK
<1>2. /\ view' \in ViewSet /\ up' \subseteq Dependency
      /\ OnCards => Len(view'.items) <= view'.total
  BY <1>1 DEF PagesInv, PagesTypeOK, TotalsInv
<1>3. /\ Cardinality(found) \in Nat /\ Cardinality(found) <= Len(rows)
      /\ call.query.filter = NoFilter => Cardinality(found) = Len(rows)
  BY <1>1, MatchingRows
<1>4. items \in Seq(RowSet) /\ Len(items) <= Len(rows) /\ Len(rows) \in Nat
  <2> DEFINE query == call.query
             left == Cardinality(found) - query.offset
  <2>1. query.limit \in Nat /\ query.offset \in Nat /\ Len(rows) \in Nat
    BY <1>1
  <2>2. /\ items \in Seq(RowSet)
        /\ Len(items) = IF left <= 0 THEN 0 ELSE IF left < query.limit THEN left ELSE query.limit
    <3> HIDE DEF query
    <3> QED BY <1>1, <2>1, PageIsTheOneAskedFor DEF query
  <2> HIDE DEF found, items, query
  <2> QED BY <1>3, <2>1, <2>2
<1>5. \A c \in CallSet : /\ [c EXCEPT !.list = "failed"] \in CallSet
                         /\ [c EXCEPT !.list = "failed"].list = "failed"
                         /\ [c EXCEPT !.list = "failed"].query = c.query
  BY DEF CallSet
<1>6. \A c \in CallSet, i \in Seq(RowSet) :
        /\ [c EXCEPT !.list = "read", !.items = i] \in CallSet
        /\ [c EXCEPT !.list = "read", !.items = i].list = "read"
        /\ [c EXCEPT !.list = "read", !.items = i].items = i
        /\ [c EXCEPT !.list = "read", !.items = i].query = c.query
  BY DEF CallSet
<1>7. \A c \in CallSet, n \in Nat :
        /\ [c EXCEPT !.list = "done", !.total = n] \in CallSet
        /\ [c EXCEPT !.list = "done", !.total = n].list = "done"
        /\ [c EXCEPT !.list = "done", !.total = n].items = c.items
        /\ [c EXCEPT !.list = "done", !.total = n].total = n
        /\ [c EXCEPT !.list = "done", !.total = n].query = c.query
  BY DEF CallSet
<1>8. CASE "db" \notin up
  <2>1. calls' = [calls EXCEPT ![s] = [call EXCEPT !.list = "failed"]]
    BY <1>8 DEF ServerLists, ReadList, Answer
  <2> HIDE DEF call
  <2>2. PICK next \in CallSet : /\ calls' = [calls EXCEPT ![s] = next]
                                /\ next.list = "failed" /\ next.query = call.query
    BY <1>1, <1>5, <2>1
  <2>3. CountsUp(next)'
    BY <2>2 DEF CountsUp
  <2> QED BY <1>1, <1>2, <2>2, <2>3, PagesCall
<1>9. CASE "db" \in up /\ call.list = "asked"
  <2> DEFINE new == [call EXCEPT !.list = "read", !.items = items]
  <2>1. calls' = [calls EXCEPT ![s] = new]
    BY <1>9 DEF ServerLists, ReadList, Answer
  <2>2. PICK next \in CallSet : /\ calls' = [calls EXCEPT ![s] = next]
                                /\ next.list = "read" /\ next.items = items
                                /\ next.query = call.query
    <3> HIDE DEF call, items
    <3>1. new \in CallSet /\ new.list = "read" /\ new.items = items /\ new.query = call.query
      BY <1>1, <1>4, <1>6
    <3> HIDE DEF new
    <3> QED BY <2>1, <3>1
  <2> HIDE DEF call, items
  <2>3. CountsUp(next)'
    BY <1>1, <1>4, <2>2 DEF CountsUp
  <2> QED BY <1>1, <1>2, <2>2, <2>3, PagesCall
<1>10. CASE "db" \in up /\ call.list = "read"
  <2> DEFINE count == Cardinality(found)
  <2> DEFINE new == [call EXCEPT !.list = "done", !.total = count]
  <2>1. calls' = [calls EXCEPT ![s] = new]
    BY <1>10 DEF ServerLists, ReadList, Answer, Count
  <2>2. Len(call.items) <= Len(rows)
    BY <1>1, <1>10 DEF CountsUp
  <2>3. count \in Nat /\ (call.query.filter = NoFilter => count = Len(rows))
    BY <1>3
  <2>4. PICK next \in CallSet : /\ calls' = [calls EXCEPT ![s] = next]
                                /\ next.list = "done" /\ next.items = call.items
                                /\ next.total = count /\ next.query = call.query
    <3> HIDE DEF call, count
    <3>1. /\ new \in CallSet /\ new.list = "done" /\ new.items = call.items
          /\ new.total = count /\ new.query = call.query
      BY <1>1, <1>7, <2>3
    <3> HIDE DEF new
    <3> QED BY <2>1, <3>1
  <2> HIDE DEF call, count
  <2>5. CountsUp(next)'
    BY <2>2, <2>3, <2>4 DEF CountsUp
  <2> QED BY <1>1, <1>2, <2>4, <2>5, PagesCall
<1> QED BY <1>8, <1>9, <1>10 DEF ServerLists

LEMMA PagesHealth ==
  ASSUME IntentInv, PagesInv, RowsGoOn, rows' \in Seq(RowSet), UNCHANGED at, UNCHANGED view,
         NEW s \in Slot, CheckPostgres(s) \/ CheckRedis(s)
  PROVE  PagesInv'
<1>1. PICK health \in {"db up", "db down", "ok", "failed"} :
        calls' = [calls EXCEPT ![s] = [calls[s] EXCEPT !.health = health]]
  BY DEF CheckPostgres, CheckRedis, CheckResponse, Answer
<1>2. /\ calls[s] \in CallSet /\ UNCHANGED rows /\ UNCHANGED up
      /\ CountsUp(calls[s]) /\ (OnCards => calls[s].query.filter = NoFilter)
  BY DEF PagesInv, PagesTypeOK, TotalsInv, CheckPostgres, CheckRedis
<1>3. /\ view' \in ViewSet /\ up' \subseteq Dependency
      /\ OnCards => Len(view'.items) <= view'.total
  BY <1>2 DEF PagesInv, PagesTypeOK, TotalsInv
<1>4. PICK next \in CallSet :
        /\ calls' = [calls EXCEPT ![s] = next]
        /\ next.list = calls[s].list /\ next.items = calls[s].items
        /\ next.total = calls[s].total /\ next.query = calls[s].query
  <2> DEFINE new == [calls[s] EXCEPT !.health = health]
  <2>1. /\ new \in CallSet /\ new.list = calls[s].list /\ new.items = calls[s].items
        /\ new.total = calls[s].total /\ new.query = calls[s].query
    BY <1>2 DEF CallSet
  <2>2. calls' = [calls EXCEPT ![s] = new]
    BY <1>1
  <2> HIDE DEF new
  <2> QED BY <2>1, <2>2
<1>5. CountsUp(next)'
  BY <1>2, <1>4 DEF CountsUp
<1> QED BY <1>2, <1>3, <1>4, <1>5, PagesCall

LEMMA PagesLost ==
  ASSUME IntentInv, PagesInv, RowsGoOn, rows' \in Seq(RowSet), UNCHANGED at, UNCHANGED view,
         NEW s \in Slot, RequestLost(s)
  PROVE  PagesInv'
<1>1. /\ calls[s] \in CallSet /\ UNCHANGED rows /\ UNCHANGED up
      /\ CountsUp(calls[s]) /\ (OnCards => calls[s].query.filter = NoFilter)
  BY DEF PagesInv, PagesTypeOK, TotalsInv, RequestLost
<1>2. /\ view' \in ViewSet /\ up' \subseteq Dependency
      /\ OnCards => Len(view'.items) <= view'.total
  BY <1>1 DEF PagesInv, PagesTypeOK, TotalsInv
<1>3. PICK next \in {[calls[s] EXCEPT !.list = "failed"], [calls[s] EXCEPT !.health = "failed"]} :
        calls' = [calls EXCEPT ![s] = next]
  <2>1. PICK part \in {"list", "health"} :
          calls' = [calls EXCEPT ![s] = [calls[s] EXCEPT ![part] = "failed"]]
    BY DEF RequestLost, Answer
  <2> QED BY <2>1
<1>4. /\ next \in CallSet /\ next.list \in {calls[s].list, "failed"}
      /\ next.items = calls[s].items /\ next.total = calls[s].total
      /\ next.query = calls[s].query
  BY <1>1 DEF CallSet
<1>5. CountsUp(next)'
  BY <1>1, <1>4 DEF CountsUp
<1> QED BY <1>1, <1>2, <1>3, <1>4, <1>5, PagesCall

(* What a page takes from an answer. *)
LEMMA PagesArrive ==
  ASSUME IntentInv, PagesInv, RowsGoOn, rows' \in Seq(RowSet), NEW s \in Slot, Arrives(s)
  PROVE  PagesInv'
<1> DEFINE call == calls[s]
<1>1. /\ call \in CallSet /\ view \in ViewSet /\ UNCHANGED at /\ UNCHANGED rows /\ UNCHANGED up
      /\ up' \subseteq Dependency /\ calls' = [calls EXCEPT ![s] = Idle]
      /\ CountsUp(call) /\ (OnCards => call.query.filter = NoFilter)
      /\ (OnCards => Len(view.items) <= view.total)
  BY DEF PagesInv, PagesTypeOK, TotalsInv, Arrives, HangUp
<1>2. /\ Idle \in CallSet /\ CountsUp(Idle)' /\ Idle.query.filter = NoFilter
  BY CallsOfPages DEF Page
<1>3. /\ call.items \in Seq(RowSet) /\ call.total \in Nat
      /\ call.health \in {"no", "asked", "db up", "db down", "ok", "failed"}
  BY <1>1 DEF CallSet
<1>4. CASE \/ view' = [view EXCEPT !.error = TRUE, !.loading = FALSE]
           \/ /\ call.health \in {"ok", "degraded", "failed"} /\ call.health # "failed"
              /\ view' = [view EXCEPT !.health = call.health, !.error = FALSE, !.loading = FALSE]
  <2>1. /\ view' \in ViewSet /\ view'.items = view.items /\ view'.total = view.total
    <3> HIDE DEF call
    <3> QED BY <1>1, <1>3, <1>4 DEF ViewSet
  <2> QED BY <1>1, <1>2, <2>1, PagesCall
<1>5. CASE /\ call.list = "done"
           /\ \/ view' = [view EXCEPT !.items = call.items, !.total = call.total, !.loading = FALSE]
              \/ view' = [view EXCEPT !.items = call.items, !.total = call.total, !.error = FALSE,
                                      !.loading = FALSE]
              \/ \E health \in {"unknown", "ok"} :
                   view' = [view EXCEPT !.items = call.items, !.total = call.total,
                                        !.health = health, !.error = FALSE, !.loading = FALSE]
  <2>1. /\ view' \in ViewSet /\ view'.items = call.items /\ view'.total = call.total
    <3> HIDE DEF call
    <3> QED BY <1>1, <1>3, <1>5 DEF ViewSet
  <2>2. OnCards => Len(view'.items) <= view'.total
    <3> HIDE DEF call
    <3> QED BY <1>1, <1>5, <2>1 DEF CountsUp
  <2> QED BY <1>1, <1>2, <2>1, <2>2, PagesCall
<1>6. CASE ListArrives(s)
  BY <1>4, <1>5, <1>6 DEF ListArrives, TakeList
<1>7. CASE BothArrive(s)
  <2>1. call.list = "failed" => view' = [view EXCEPT !.error = TRUE, !.loading = FALSE]
    BY <1>7 DEF BothArrive, TakeBoth
  <2>2. ASSUME call.list # "failed"
        PROVE  /\ call.list = "done"
               /\ \E health \in {"unknown", "ok"} :
                    view' = [view EXCEPT !.items = call.items, !.total = call.total,
                                         !.health = health, !.error = FALSE, !.loading = FALSE]
    BY <1>3, <1>7, <2>2 DEF BothArrive, TakeBoth
  <2> HIDE DEF call
  <2> QED BY <1>4, <1>5, <2>1, <2>2
<1>8. CASE SampleArrives(s)
  BY <1>4, <1>5, <1>8 DEF SampleArrives, TakeSample
<1>9. CASE HealthArrives(s)
  BY <1>4, <1>9 DEF HealthArrives, TakeHealth
<1> QED BY <1>6, <1>7, <1>8, <1>9 DEF Arrives

-----------------------------------------------------------------------------
(* Every step. *)

LEMMA PagesStep ==
  ASSUME IntentInv, IntentInv', PagesInv, RowsGoOn, [ConsoleNext]_consoleVars
  PROVE  PagesInv'
<1>1. rows' \in Seq(RowSet) /\ at \in Page /\ up \subseteq Dependency
  BY DEF IntentInv, IntentTypeOK, PagesInv, PagesTypeOK
<1>2. CASE User
  <2>1. CASE \E page \in Page : GoTo(page)
    <3>1. PICK page \in Page : GoTo(page)
      BY <2>1
    <3> QED BY <1>1, <3>1, PagesMount DEF GoTo
  <2>2. CASE \/ \E field \in Field : \E text \in Input(field) : SetField(field, text)
             \/ \E key \in 0..keys : SetKey(key)
             \/ \E eventType \in EventType : SelectType(eventType)
             \/ \E employee \in PresetEmployee : ApplyPreset(employee)
             \/ RegenerateKey \/ HandleSubmit
    <3>1. UNCHANGED at /\ UNCHANGED calls /\ UNCHANGED view /\ UNCHANGED up
      BY <2>2 DEF SetField, SetKey, SelectType, ApplyPreset, RegenerateKey, HandleSubmit, Edit
    <3> QED BY <1>1, <3>1, PagesIdle
  <2> QED BY <1>1, <1>2, <2>1, <2>2, PagesList, PagesAsk DEF User
<1>3. CASE Timer
  BY <1>1, <1>3, PagesList, PagesAsk DEF Timer
<1>4. CASE \E s \in Slot : Progress(s)
  BY <1>1, <1>4, PagesRead, PagesHealth, PagesArrive DEF Progress, ServerAnswers
<1>5. CASE Environment
  <2>1. CASE \E s \in Slot : RequestLost(s)
    BY <1>1, <1>5, <2>1, PagesLost DEF Environment, Throttled, PostLost, RequestLost
  <2>2. CASE \/ \E d \in Dependency : Outage(d) \/ Restore(d)
             \/ \E employee \in PresetEmployee : OtherClient(employee)
             \/ \E n \in DOMAIN rows : ServiceMoves(n)
             \/ Throttled \/ PostLost
    <3>1. /\ UNCHANGED at /\ UNCHANGED calls /\ UNCHANGED view
          /\ up' \subseteq Dependency
      BY <1>1, <1>5, <2>2 DEF Environment, Outage, Restore, OtherClient, ServiceMoves, Throttled,
         PostLost, RequestLost
    <3> QED BY <1>1, <3>1, PagesIdle
  <2> QED BY <1>5, <2>1, <2>2 DEF Environment
<1>6. CASE PostAnswers
  <2>1. CASE ReplyAccepted
    BY <1>1, <2>1, PagesMount DEF ReplyAccepted, Page
  <2>2. CASE Create \/ Enqueue \/ ReplyRejected
    <3>1. UNCHANGED at /\ UNCHANGED calls /\ UNCHANGED view /\ UNCHANGED up
      BY <2>2 DEF Create, Enqueue, ReplyRejected
    <3> QED BY <1>1, <3>1, PagesIdle
  <2> QED BY <1>6, <2>1, <2>2 DEF PostAnswers
<1>7. CASE UNCHANGED consoleVars
  <2>1. UNCHANGED at /\ UNCHANGED calls /\ UNCHANGED view /\ UNCHANGED up
    BY <1>7 DEF consoleVars, backendVars
  <2> QED BY <1>1, <2>1, PagesIdle
<1> QED BY <1>2, <1>3, <1>4, <1>5, <1>6, <1>7 DEF ConsoleNext

ConsoleInv == IntentInv /\ RowsValid /\ FormAtHome /\ PagesInv

LEMMA ConsoleKept == ConsoleSpec => []ConsoleInv
<1>1. ConsoleInit => RowsValid /\ FormAtHome /\ PagesInv
  <2> SUFFICES ASSUME ConsoleInit
               PROVE  RowsValid /\ FormAtHome /\ PagesInv
    OBVIOUS
  <2>1. \A t \in {"X", "x"} : ValidEventPayload("BANK_ACCOUNT_CHANGE", BankAccount(t))
    <3>1. "X" \in Text /\ "x" \in Text /\ "X" # "" /\ "x" # ""
      BY DEF Text
    <3> QED BY <3>1, BankAccountIsValid
  <2>2. /\ DOMAIN rows = 1..2
        /\ \A n \in 1..2 : \E t \in {"X", "x"} : /\ rows[n].eventType = "BANK_ACCOUNT_CHANGE"
                                                 /\ rows[n].payload = BankAccount(t)
    BY DEF ConsoleInit, BackendInit, Row
  <2>3. RowsValid
    <3> SUFFICES ASSUME NEW n \in 1..2
                 PROVE  ValidEventPayload(rows[n].eventType, rows[n].payload)
      BY <2>2 DEF RowsValid
    <3>1. PICK t \in {"X", "x"} : /\ rows[n].eventType = "BANK_ACCOUNT_CHANGE"
                                  /\ rows[n].payload = BankAccount(t)
      BY <2>2
    <3> QED BY <2>1, <3>1
  <2>4. /\ at = "submit" /\ view = Blank /\ up = Dependency /\ calls = [s \in Slot |-> Idle]
    BY DEF ConsoleInit, BackendInit
  <2>5. view \in ViewSet
    BY <2>4, PagesAssumption DEF Blank, ViewSet
  <2>6. Idle \in CallSet /\ CountsUp(Idle)
    BY CallsOfPages DEF Page
  <2>7. PagesTypeOK
    BY <2>4, <2>5, <2>6 DEF PagesTypeOK, Page
  <2>8. TotalsInv
    BY <2>4, <2>6 DEF TotalsInv, OnCards
  <2> QED BY <2>3, <2>4, <2>7, <2>8 DEF FormAtHome, PagesInv
<1>2. /\ IntentInv /\ IntentInv' /\ RowsValid /\ FormAtHome /\ PagesInv
      /\ [ConsoleNext]_consoleVars
      => RowsValid' /\ FormAtHome' /\ PagesInv'
  BY RowsStep, FormStep, PagesStep
<1> QED BY <1>1, <1>2, IntentKept, PTL DEF ConsoleSpec, ConsoleInv

-----------------------------------------------------------------------------
(* What the user sees. *)

(* Whatever other clients and the user do in between, every event there is is   *)
(* one the service takes for valid, a page never holds an answer of the health  *)
(* check that names a failed dependency, and a form that was left is gone.      *)
THEOREM ConsoleTyped == ConsoleSpec => []ConsoleTypeOK
<1>1. ConsoleInv => ConsoleTypeOK
  <2> SUFFICES ASSUME ConsoleInv
               PROVE  ConsoleTypeOK
    OBVIOUS
  <2>1. at \in Page /\ up \subseteq Dependency /\ view \in ViewSet
    BY DEF ConsoleInv, PagesInv, PagesTypeOK
  <2>2. view.offset \in Nat /\ view.total \in Nat /\ view.health \in {"unknown", "ok"}
    BY <2>1 DEF ViewSet
  <2>3. /\ form.fieldErrors \subseteq Field \cup {"idempotencyKey"}
        /\ form.key \in 0..keys
    BY DEF ConsoleInv, IntentInv, IntentTypeOK, FormSet
  <2>4. \A n \in DOMAIN rows : rows[n].status \in Status
    BY RowsTyped DEF ConsoleInv, IntentInv, RowSet
  <2> QED BY <2>1, <2>2, <2>3, <2>4 DEF ConsoleTypeOK, ConsoleInv, RowsValid, FormAtHome
<1> QED BY <1>1, ConsoleKept, PTL

(* The cards of the dashboard and the metrics page never show more events than  *)
(* the total beside them, although the rows and their number are read one after *)
(* the other while events are added.                                            *)
THEOREM CardsAddUp == ConsoleSpec => []CardsWithinTotal
<1>1. ConsoleInv => CardsWithinTotal
  <2> SUFFICES ASSUME ConsoleInv, OnCards
               PROVE  Cards.active + Cards.succeeded + Cards.failed <= Cards.total
    BY DEF CardsWithinTotal, OnCards
  <2> DEFINE items == view.items
             all == 1..Len(items)
             with(status) == {n \in all : items[n].status = status}
             active == {n \in all : items[n].status \in {"PENDING", "PROCESSING"}}
             succeeded == with("SUCCEEDED")
             failed == with("FAILED")
  <2>1. items \in Seq(RowSet) /\ view.total \in Nat /\ Len(items) <= view.total
    BY DEF ConsoleInv, PagesInv, PagesTypeOK, TotalsInv, ViewSet
  <2>2. DOMAIN items = all /\ Len(items) \in Nat
    BY <2>1
  <2>3. Cards = [total |-> view.total, active |-> Cardinality(active),
                 succeeded |-> Cardinality(succeeded), failed |-> Cardinality(failed)]
    BY <2>2 DEF Cards, ActiveInFlight, With
  <2>4. IsFiniteSet(all) /\ Cardinality(all) = Len(items)
    BY <2>2, FS_Interval
  <2>5. /\ active \in SUBSET all /\ succeeded \in SUBSET all /\ failed \in SUBSET all
        /\ active \cap succeeded = {} /\ (active \cup succeeded) \cap failed = {}
    OBVIOUS
  <2> HIDE DEF all, active, succeeded, failed, items
  <2>6. /\ IsFiniteSet(active) /\ IsFiniteSet(succeeded) /\ IsFiniteSet(failed)
        /\ Cardinality(active) \in Nat /\ Cardinality(succeeded) \in Nat
        /\ Cardinality(failed) \in Nat
    BY <2>4, <2>5, FS_Subset, FS_CardinalityType
  <2> DEFINE both == active \cup succeeded
  <2>7. IsFiniteSet(both) /\ Cardinality(both) = Cardinality(active) + Cardinality(succeeded)
    BY <2>5, <2>6, FS_Union, FS_EmptySet
  <2>8. both \cup failed \in SUBSET all /\ both \cap failed = {}
    BY <2>5
  <2> HIDE DEF both
  <2>9. Cardinality(both \cup failed) = Cardinality(both) + Cardinality(failed)
    <3>1. Cardinality(both \cap failed) = 0
      BY <2>8, FS_EmptySet
    <3>2. Cardinality(both \cup failed)
            = Cardinality(both) + Cardinality(failed) - Cardinality(both \cap failed)
      BY <2>6, <2>7, FS_Union
    <3>3. Cardinality(both) \in Nat
      BY <2>7, FS_CardinalityType
    <3> QED BY <2>6, <3>1, <3>2, <3>3
  <2>10. Cardinality(both \cup failed) <= Len(items)
    BY <2>4, <2>8, FS_Subset
  <2> QED BY <2>1, <2>2, <2>3, <2>6, <2>7, <2>9, <2>10
<1> QED BY <1>1, ConsoleKept, PTL
=============================================================================
