---------------------------- MODULE ConsoleProofs ----------------------------
(***************************************************************************)
(* Proofs about the console, for any number of events, requests and moves: *)
(* what the service finds fault with in what its form sends is the date or *)
(* nothing, and one intent of the user makes one event at most.            *)
(***************************************************************************)
EXTENDS Console, FiniteSetTheorems, FunctionTheorems, TLAPS

-----------------------------------------------------------------------------
(* Two validations that agree but for the date. *)

Value == Text \cup Day \cup Number
Payload ==
  (UNION {[FieldOf[type] -> Value] : type \in EventType}) \cup {BankAccount(t) : t \in Text}

LEMMA BankAccounts ==
  ASSUME NEW t \in Text
  PROVE  BankAccount(t) \in Payload
<1>1. \E u \in Text : BankAccount(t) = BankAccount(u)
  OBVIOUS
<1> QED BY <1>1 DEF Payload

LEMMA FieldsOfTypes ==
  /\ FieldOf["BANK_ACCOUNT_CHANGE"] = {"employeeId", "effectiveDate", "iban"}
  /\ FieldOf["ADDRESS_CHANGE"]
       = {"employeeId", "effectiveDate", "street", "city", "postalCode", "country"}
  /\ FieldOf["SALARY_CHANGE"] = {"employeeId", "effectiveDate", "newSalary", "currency"}
  /\ \A type \in EventType : FieldOf[type] \subseteq Field
BY DEF FieldOf, BankAccountField, AddressField, SalaryField, BaseField, EventType, Field

(* Of a form whose fields have no message the service refuses the date at      *)
(* most, and that one if its year has more than four digits.  The two checks   *)
(* are written apart: the form's on texts as they are typed, the service's on  *)
(* what buildPayload makes of them.                                            *)
THEOREM FormsDifferInDates ==
  ASSUME NEW type \in EventType, NEW text \in [Field -> Value], text["effectiveDate"] \in Day,
         \A field \in FieldOf[type] : ~Wrong(field, text[field])
  PROVE  LET payload == BuildPayload(type, text)
         IN /\ DOMAIN payload = FieldOf[type]
            /\ Faults(payload) = IF text["effectiveDate"] = "far" THEN {"effectiveDate"} ELSE {}
<1> DEFINE payload == BuildPayload(type, text)
<1>1. DOMAIN payload = FieldOf[type] /\ "effectiveDate" \in FieldOf[type]
  BY FieldsOfTypes DEF BuildPayload, EventType
<1>2. ASSUME NEW field \in FieldOf[type]
      PROVE  payload[field] =
               CASE field = "effectiveDate" -> text[field]
                 [] field = "newSalary" -> ToNumber(text[field])
                 [] field \in {"iban", "currency"} -> ToUpper(Trim(text[field]))
                 [] OTHER -> Trim(text[field])
  BY DEF BuildPayload
<1>3. ASSUME NEW field \in FieldOf[type], field # "effectiveDate"
      PROVE  Satisfies(field, payload[field])
  <2>1. CASE field = "newSalary"
    BY <1>2, <2>1 DEF Wrong, Satisfies
  <2>2. CASE field \in {"iban", "currency"}
    BY <1>2, <2>2 DEF Wrong, Satisfies
  <2>3. CASE field \notin {"effectiveDate", "newSalary", "iban", "currency"}
    BY <1>2, <2>3 DEF Wrong, Satisfies
  <2> QED BY <1>3, <2>1, <2>2, <2>3
<1>4. Satisfies("effectiveDate", payload["effectiveDate"]) <=> text["effectiveDate"] # "far"
  <2>1. payload["effectiveDate"] = text["effectiveDate"]
    BY <1>1, <1>2
  <2>2. text["effectiveDate"] \in {"day", "far"}
    BY <1>1 DEF Wrong, Day
  <2> QED BY <2>1, <2>2 DEF Satisfies
<1> HIDE DEF payload
<1>5. Faults(payload) = IF text["effectiveDate"] = "far" THEN {"effectiveDate"} ELSE {}
  BY <1>1, <1>3, <1>4 DEF Faults
<1> QED BY <1>1, <1>5 DEF payload

LEMMA PayloadType ==
  ASSUME NEW type \in EventType, NEW text \in [Field -> Value]
  PROVE  BuildPayload(type, text) \in [FieldOf[type] -> Value]
<1>1. \A t \in Value : Trim(t) \in Value /\ ToUpper(Trim(t)) \in Value /\ ToNumber(t) \in Value
  BY DEF Value, Text, Day, Number, Trim, ToUpper, ToNumber
<1>2. \A field \in FieldOf[type] : text[field] \in Value
  BY FieldsOfTypes
<1> QED BY <1>1, <1>2 DEF BuildPayload

-----------------------------------------------------------------------------
(* Keys, rows and the request. *)

FormSet ==
  [eventType : EventType, text : [Field -> Value], key : Nat,
   fieldErrors : SUBSET (Field \cup {"idempotencyKey"}), submitError : BOOLEAN,
   submitting : BOOLEAN]

PostSet ==
  [at : {"none", "sent", "committed", "replied"}, key : Nat, eventType : EventType,
   payload : Payload \cup {<<>>},
   reply : {"none", "accepted", "invalid", "conflict", "error", "throttled", "unreachable"},
   live : BOOLEAN]

RowSet == [key : Nat, eventType : EventType, payload : Payload, status : Status]

IntentTypeOK ==
  /\ keys \in Nat
  /\ form \in FormSet /\ form.text["effectiveDate"] \in Day /\ form.key <= keys
  /\ post \in PostSet
  /\ rows \in Seq(RowSet)

(* What the service takes for valid, if its date is. *)
FitButForDate(request) ==
  /\ DOMAIN request.payload = FieldOf[request.eventType]
  /\ Faults(request.payload) \subseteq {"effectiveDate"}

(* The key of a request was generated, and its payload is valid but for the date. *)
PostInv ==
  /\ post.at # "none" => /\ post.key \in 1..keys
                         /\ post.payload \in Payload
                         /\ FitButForDate(post)
  /\ post.at = "none" => post = NoPost
  /\ post.reply \in {"none", "accepted"} \/ post.at = "replied"
  /\ post.at = "sent" => post.reply = "none"

(* Keys of rows were generated and are unique, and an acceptance is kept. *)
RowsInv ==
  /\ \A n \in DOMAIN rows : rows[n].key <= keys
  /\ \A m, n \in DOMAIN rows : (rows[m].key # 0 /\ rows[m].key = rows[n].key) => m = n

AcceptedInv ==
  (post.at = "committed" \/ post.reply = "accepted")
    => \E n \in DOMAIN rows : rows[n].key = post.key /\ SameEvent(rows[n])

IntentInv ==
  IntentTypeOK /\ PostInv /\ RowsInv /\ AcceptedInv /\ OnlyDatesRefused

LEMMA RowsTyped ==
  ASSUME IntentInv
  PROVE  \A n \in DOMAIN rows : rows[n] \in RowSet /\ rows[n].key \in Nat
<1>1. \A n \in DOMAIN rows : rows[n] \in RowSet
  BY DEF IntentInv, IntentTypeOK
<1>2. \A r \in RowSet : r.key \in Nat
  BY DEF RowSet
<1> QED BY <1>1, <1>2

(* The user edits, or a page is mounted, with keys that only get more. *)
LEMMA IntentEdit ==
  ASSUME IntentInv, UNCHANGED rows, UNCHANGED post, keys' \in Nat, keys <= keys',
         form' \in FormSet, form'.text["effectiveDate"] \in Day, form'.key <= keys'
  PROVE  IntentInv'
<1>1. IntentTypeOK'
  BY DEF IntentInv, IntentTypeOK
<1>2. PostInv'
  BY DEF IntentInv, IntentTypeOK, PostInv, PostSet, FitButForDate
<1>3. RowsInv'
  BY RowsTyped DEF IntentInv, IntentTypeOK, RowsInv
<1>4. AcceptedInv' /\ OnlyDatesRefused'
  BY DEF IntentInv, AcceptedInv, SameEvent, OnlyDatesRefused
<1> QED BY <1>1, <1>2, <1>3, <1>4 DEF IntentInv

(* Only the request, or what the form says of it, changes. *)
LEMMA IntentPost ==
  ASSUME IntentInv, UNCHANGED rows, UNCHANGED keys,
         form' \in FormSet, form'.text["effectiveDate"] \in Day, form'.key <= keys,
         post' \in PostSet, PostInv', OnlyDatesRefused',
         post'.at = "committed" \/ post'.reply = "accepted" =>
            /\ post.at = "committed" \/ post.reply = "accepted"
            /\ post'.key = post.key /\ post'.eventType = post.eventType
            /\ post'.payload = post.payload
  PROVE  IntentInv'
BY DEF IntentInv, IntentTypeOK, RowsInv, AcceptedInv, SameEvent, OnlyDatesRefused

(* The forms the console mounts. *)
LEMMA MountedForms ==
  ASSUME NEW k \in Nat
  PROVE  /\ NewForm(k) \in FormSet /\ NewForm(k).key = k
         /\ NewForm(k).text["effectiveDate"] \in Day
         /\ NoForm \in FormSet /\ NoForm.key = 0 /\ NoForm.text["effectiveDate"] \in Day
<1>1. \A field \in Field : InitialText(field) \in Value
  BY DEF InitialText, Value, Text, Day, Number
<1>2. "effectiveDate" \in Field /\ InitialText("effectiveDate") \in Day
  BY FieldsOfTypes DEF InitialText, Day, EventType
<1>3. \A j \in Nat : NewForm(j) \in FormSet /\ NewForm(j).key = j
                     /\ NewForm(j).text["effectiveDate"] \in Day
  BY <1>1, <1>2 DEF NewForm, FormSet, EventType
<1> QED BY <1>3 DEF NoForm

(* The user at the form. *)

LEMMA IntentAtForm ==
  ASSUME SubmitAssumption, IntentInv,
         \/ \E field \in Field : \E text \in Input(field) : SetField(field, text)
         \/ \E key \in 0..keys : SetKey(key)
         \/ \E eventType \in EventType : SelectType(eventType)
         \/ \E employee \in PresetEmployee : ApplyPreset(employee)
         \/ RegenerateKey
  PROVE  IntentInv'
<1>1. /\ UNCHANGED rows /\ UNCHANGED post
      /\ keys \in Nat /\ form \in FormSet /\ form.text["effectiveDate"] \in Day /\ form.key <= keys
  BY DEF SetField, SetKey, SelectType, ApplyPreset, RegenerateKey, Edit, IntentInv, IntentTypeOK
<1>2. "effectiveDate" \in Field /\ "employeeId" \in Field
  BY FieldsOfTypes DEF EventType
<1>3. CASE \E field \in Field : \E text \in Input(field) : SetField(field, text)
  <2>1. PICK field \in Field : \E text \in Input(field) : SetField(field, text)
    BY <1>3
  <2>2. PICK text \in Input(field) : SetField(field, text)
    BY <2>1
  <2>3. text \in Value /\ (field = "effectiveDate" => text \in Day)
    BY DEF Input, Value
  <2>4. /\ UNCHANGED keys
        /\ form' = [form EXCEPT !.text[field] = text, !.fieldErrors = @ \ {field}]
    BY <2>2 DEF SetField, Edit
  <2>5. form' \in FormSet /\ form'.key = form.key /\ form'.text["effectiveDate"] \in Day
    BY <1>1, <1>2, <2>3, <2>4 DEF FormSet
  <2> QED BY <1>1, <2>4, <2>5, IntentEdit
<1>4. CASE \E key \in 0..keys : SetKey(key)
  <2>1. PICK key \in 0..keys : SetKey(key)
    BY <1>4
  <2> DEFINE errors == form.fieldErrors \ {"idempotencyKey"}
  <2>2. form' = [form EXCEPT !.key = key, !.fieldErrors = errors]
    BY <2>1 DEF SetKey, Edit
  <2>3. errors \in SUBSET (Field \cup {"idempotencyKey"})
    BY <1>1 DEF FormSet
  <2>4. UNCHANGED keys
    BY <2>1 DEF SetKey
  <2>5. key \in Nat /\ key <= keys
    BY <1>1
  <2> HIDE DEF errors
  <2>6. form' \in FormSet /\ form'.key = key /\ form'.text = form.text
    BY <1>1, <2>2, <2>3, <2>5 DEF FormSet
  <2> QED BY <1>1, <2>4, <2>5, <2>6, IntentEdit
<1>5. CASE \E eventType \in EventType : SelectType(eventType)
  <2>1. UNCHANGED keys /\ form' \in FormSet /\ form'.key = form.key /\ form'.text = form.text
    BY <1>1, <1>5 DEF SelectType, Edit, FormSet
  <2> QED BY <1>1, <2>1, IntentEdit
<1>6. CASE \E employee \in PresetEmployee : ApplyPreset(employee)
  <2>1. PICK employee \in PresetEmployee : ApplyPreset(employee)
    BY <1>6
  <2>2. employee \in Value
    BY SubmitAssumption DEF Value
  <2> DEFINE text == [form.text EXCEPT !["employeeId"] = employee]
  <2>3. form' = [form EXCEPT !.key = keys + 1, !.text["employeeId"] = employee]
    BY <2>1 DEF ApplyPreset, Edit
  <2>4. keys' = keys + 1
    BY <2>1 DEF ApplyPreset
  <2>5. form' = [form EXCEPT !.key = keys + 1, !.text = text]
    BY <1>1, <2>3 DEF FormSet
  <2>6. text \in [Field -> Value] /\ text["effectiveDate"] \in Day
    BY <1>1, <1>2, <2>2 DEF FormSet
  <2> HIDE DEF text
  <2>7. keys + 1 \in Nat
    BY <1>1
  <2>8. form' \in FormSet
    BY <1>1, <2>5, <2>6, <2>7 DEF FormSet
  <2>9. form'.key = keys + 1 /\ form'.text = text
    BY <1>1, <2>5, <2>7 DEF FormSet
  <2> QED BY <1>1, <2>4, <2>6, <2>7, <2>8, <2>9, IntentEdit
<1>7. CASE RegenerateKey
  <2>1. /\ keys' = keys + 1
        /\ form' \in FormSet /\ form'.key = keys' /\ form'.text = form.text
    BY <1>1, <1>7 DEF RegenerateKey, Edit, FormSet
  <2> QED BY <1>1, <2>1, IntentEdit
<1> QED BY <1>3, <1>4, <1>5, <1>6, <1>7

LEMMA IntentSubmit ==
  ASSUME IntentInv, HandleSubmit
  PROVE  IntentInv'
<1> DEFINE errors == Validate(form)
           checked == [form EXCEPT !.submitError = FALSE, !.fieldErrors = errors]
<1>1. /\ UNCHANGED rows /\ UNCHANGED keys /\ post = NoPost
      /\ \/ errors # {} /\ form' = checked /\ UNCHANGED post
         \/ /\ errors = {}
            /\ form' = [checked EXCEPT !.submitting = TRUE]
            /\ post' = Submission(form)
  BY DEF HandleSubmit
<1>2. /\ keys \in Nat /\ form \in FormSet /\ form.text["effectiveDate"] \in Day
      /\ form.key \in Nat /\ form.key <= keys
      /\ form.eventType \in EventType /\ form.text \in [Field -> Value]
  BY DEF IntentInv, IntentTypeOK, FormSet
<1>3. errors \subseteq Field \cup {"idempotencyKey"}
  BY <1>2, FieldsOfTypes DEF Validate
<1>4. /\ form' \in FormSet /\ form'.text = form.text /\ form'.key = form.key
  <2> HIDE DEF errors
  <2> QED BY <1>1, <1>2, <1>3 DEF FormSet
<1>5. CASE UNCHANGED post
  BY <1>1, <1>2, <1>4, <1>5, IntentEdit
<1>6. CASE errors = {} /\ post' = Submission(form)
  <2>1. form.key # 0 /\ \A field \in FieldOf[form.eventType] : ~Wrong(field, form.text[field])
    BY <1>6 DEF Validate
  <2>2. /\ DOMAIN BuildPayload(form.eventType, form.text) = FieldOf[form.eventType]
        /\ Faults(BuildPayload(form.eventType, form.text)) \subseteq {"effectiveDate"}
    BY <1>2, <2>1, FormsDifferInDates
  <2>3. BuildPayload(form.eventType, form.text) \in Payload
    BY <1>2, PayloadType DEF Payload
  <2>4. /\ post'.at = "sent" /\ post'.reply = "none" /\ post'.key = form.key
        /\ post'.eventType = form.eventType
        /\ post'.payload = BuildPayload(form.eventType, form.text)
    BY <1>6 DEF Submission
  <2>5. post' \in PostSet
    BY <1>2, <1>6, <2>3 DEF Submission, PostSet
  <2>6. PostInv'
    BY <1>1, <1>2, <2>1, <2>2, <2>3, <2>4 DEF PostInv, FitButForDate
  <2>7. OnlyDatesRefused'
    BY <2>4 DEF OnlyDatesRefused
  <2> QED BY <1>1, <1>2, <1>4, <2>4, <2>5, <2>6, <2>7, IntentPost
<1> QED BY <1>1, <1>5, <1>6

(* The page is left, another one is mounted. *)
LEMMA IntentGoTo ==
  ASSUME IntentInv, NEW page \in Page, GoTo(page)
  PROVE  IntentInv'
<1>1. /\ UNCHANGED rows /\ post' = [post EXCEPT !.live = FALSE]
      /\ keys' = IF page = "submit" THEN keys + 1 ELSE keys
      /\ form' = IF page = "submit" THEN NewForm(keys + 1) ELSE NoForm
  BY DEF GoTo
<1>2. keys \in Nat /\ post \in PostSet
  BY DEF IntentInv, IntentTypeOK
<1>3. /\ keys' \in Nat /\ keys <= keys' /\ form' \in FormSet /\ form'.key <= keys'
      /\ form'.text["effectiveDate"] \in Day
  BY <1>1, <1>2, MountedForms
<1>4. /\ post' \in PostSet /\ post'.at = post.at /\ post'.key = post.key
      /\ post'.eventType = post.eventType /\ post'.payload = post.payload
      /\ post'.reply = post.reply
  BY <1>1, <1>2 DEF PostSet
<1>5. post.at = "none" => post' = NoPost
  <2>1. \A p \in PostSet : p.live = FALSE => [p EXCEPT !.live = FALSE] = p
    BY DEF PostSet
  <2>2. NoPost.live = FALSE
    BY DEF NoPost
  <2> QED BY <1>1, <1>2, <2>1, <2>2 DEF IntentInv, PostInv
<1>6. IntentTypeOK'
  BY <1>1, <1>3, <1>4 DEF IntentInv, IntentTypeOK
<1>7. PostInv'
  BY <1>2, <1>3, <1>4, <1>5 DEF IntentInv, PostInv, PostSet, FitButForDate
<1>8. RowsInv'
  BY <1>1, <1>2, <1>3, RowsTyped DEF IntentInv, RowsInv
<1>9. AcceptedInv' /\ OnlyDatesRefused'
  BY <1>1, <1>4 DEF IntentInv, AcceptedInv, SameEvent, OnlyDatesRefused
<1> QED BY <1>6, <1>7, <1>8, <1>9 DEF IntentInv

(* Answers, and their loss. *)
LEMMA IntentReply ==
  ASSUME IntentInv, Enqueue \/ Throttled \/ PostLost \/ ReplyAccepted \/ ReplyRejected
  PROVE  IntentInv'
<1>1. /\ UNCHANGED rows /\ UNCHANGED keys /\ keys \in Nat
      /\ form \in FormSet /\ form.text["effectiveDate"] \in Day /\ form.key <= keys
      /\ post \in PostSet
  BY DEF Enqueue, Throttled, PostLost, ReplyAccepted, ReplyRejected, IntentInv, IntentTypeOK
<1>2. ASSUME NEW reply \in {"accepted", "throttled", "unreachable"}, Reply(reply), UNCHANGED form,
             post.at # "none", reply = "accepted" => post.at = "committed"
      PROVE  IntentInv'
  <2>1. /\ post' \in PostSet /\ post'.at = "replied" /\ post'.reply = reply
        /\ post'.key = post.key /\ post'.eventType = post.eventType
        /\ post'.payload = post.payload
    BY <1>1, <1>2 DEF Reply, PostSet
  <2>2. PostInv' /\ OnlyDatesRefused'
    BY <1>1, <1>2, <2>1 DEF IntentInv, PostInv, FitButForDate, OnlyDatesRefused
  <2> QED BY <1>1, <1>2, <2>1, <2>2, IntentPost
<1>3. CASE Enqueue
  BY <1>2, <1>3 DEF Enqueue
<1>4. CASE Throttled
  BY <1>2, <1>4 DEF Throttled
<1>5. CASE PostLost
  BY <1>2, <1>5 DEF PostLost, IntentInv, PostInv
<1>6. CASE ReplyAccepted \/ ReplyRejected
  <2>1. post' = NoPost
    BY <1>6 DEF ReplyAccepted, ReplyRejected
  <2>2. /\ post' \in PostSet /\ post'.at = "none" /\ post'.reply = "none"
    BY <2>1 DEF NoPost, PostSet, EventType
  <2>3. PostInv' /\ OnlyDatesRefused'
    BY <2>1, <2>2 DEF PostInv, NoPost, OnlyDatesRefused
  <2>4. form' \in FormSet /\ form'.key <= keys /\ form'.text["effectiveDate"] \in Day
    <3>1. CASE form' = NoForm
      BY <1>1, <3>1, MountedForms
    <3>2. CASE form' # NoForm
      BY <1>1, <1>6, <3>2 DEF ReplyAccepted, ReplyRejected, FormSet
    <3> QED BY <3>1, <3>2
  <2> QED BY <1>1, <2>2, <2>3, <2>4, IntentPost
<1> QED BY <1>3, <1>4, <1>5, <1>6

(* The service takes the request. *)
LEMMA IntentCreate ==
  ASSUME IntentInv, Create
  PROVE  IntentInv'
<1> DEFINE used == {n \in DOMAIN rows : rows[n].key = post.key}
           row == Row(post.key, post.eventType, post.payload)
<1>1. /\ UNCHANGED keys /\ UNCHANGED form /\ keys \in Nat
      /\ form \in FormSet /\ form.text["effectiveDate"] \in Day /\ form.key <= keys
      /\ post \in PostSet /\ post.at = "sent" /\ rows \in Seq(RowSet)
  BY DEF Create, IntentInv, IntentTypeOK
<1>2. post.key \in 1..keys /\ post.payload \in Payload /\ FitButForDate(post)
  BY <1>1 DEF IntentInv, PostInv
<1>3. CASE Reply(Refusal) /\ UNCHANGED rows
  <2> DEFINE reply == Refusal
  <2>1. /\ reply \in {"invalid", "error", "conflict"}
        /\ reply = "invalid" => ~ValidEventPayload(post.eventType, post.payload)
    BY DEF Refusal
  <2>4. reply = "invalid" => Faults(post.payload) = {"effectiveDate"}
    BY <1>1, <1>2, <2>1 DEF FitButForDate, Faults, ValidEventPayload, PostSet
  <2>2. /\ post' \in PostSet /\ post'.at = "replied" /\ post'.reply = reply
        /\ post'.key = post.key /\ post'.eventType = post.eventType
        /\ post'.payload = post.payload
    BY <1>1, <1>3, <2>1 DEF Reply, PostSet
  <2>3. PostInv' /\ OnlyDatesRefused'
    BY <1>1, <1>2, <2>2, <2>4 DEF PostInv, FitButForDate, OnlyDatesRefused
  <2> QED BY <1>1, <1>3, <2>1, <2>2, <2>3, IntentPost
<1>4. CASE /\ post' = [post EXCEPT !.at = "committed"]
           /\ rows' = IF used = {} THEN Append(rows, row) ELSE rows
           /\ \A n \in used : SameEvent(rows[n])
  <2>1. /\ post' \in PostSet /\ post'.at = "committed" /\ post'.reply = post.reply
        /\ post'.key = post.key /\ post'.eventType = post.eventType
        /\ post'.payload = post.payload
    BY <1>1, <1>4 DEF PostSet
  <2>2. post.reply = "none"
    BY <1>1 DEF IntentInv, PostInv
  <2>3. PostInv' /\ OnlyDatesRefused'
    BY <1>1, <1>2, <2>1, <2>2 DEF PostInv, FitButForDate, OnlyDatesRefused
  <2>4. CASE used = {}
    <3>1. /\ row.key = post.key /\ row.eventType = post.eventType
          /\ row.payload = post.payload
      BY DEF Row
    <3>3. row \in RowSet
      BY <1>1, <1>2 DEF Row, RowSet, PostSet, Status
    <3> HIDE DEF row
    <3>4. rows' = Append(rows, row)
      BY <1>4, <2>4
    <3>5. /\ rows' \in Seq(RowSet) /\ DOMAIN rows' = 1..(Len(rows) + 1) /\ Len(rows) \in Nat
          /\ DOMAIN rows = 1..Len(rows)
          /\ \A n \in DOMAIN rows : rows'[n] = rows[n]
          /\ rows'[Len(rows) + 1] = row
      BY <1>1, <3>3, <3>4
    <3>6. \A n \in DOMAIN rows : rows[n].key # post.key
      BY <2>4
    <3>7. RowsInv'
      <4>1. ASSUME NEW n \in DOMAIN rows'
            PROVE  rows'[n].key <= keys
        <5>1. CASE n \in DOMAIN rows
          BY <3>5, <5>1 DEF IntentInv, RowsInv
        <5>2. CASE n = Len(rows) + 1
          BY <1>1, <1>2, <3>1, <3>5, <5>2
        <5> QED BY <3>5, <5>1, <5>2
      <4>2. ASSUME NEW m \in DOMAIN rows', NEW n \in DOMAIN rows',
                   rows'[m].key # 0, rows'[m].key = rows'[n].key
            PROVE  m = n
        <5>1. CASE m \in DOMAIN rows /\ n \in DOMAIN rows
          BY <3>5, <4>2, <5>1 DEF IntentInv, RowsInv
        <5>2. CASE m \notin DOMAIN rows \/ n \notin DOMAIN rows
          <6>1. ASSUME NEW j \in DOMAIN rows', j \notin DOMAIN rows
                PROVE  j = Len(rows) + 1
            BY <3>5, <6>1
          <6> QED BY <3>1, <3>5, <3>6, <4>2, <5>2, <6>1
        <5> QED BY <5>1, <5>2
      <4> QED BY <1>1, <4>1, <4>2 DEF RowsInv
    <3>8. AcceptedInv'
      <4>1. Len(rows) + 1 \in DOMAIN rows'
        BY <3>5
      <4> QED BY <2>1, <3>1, <3>5, <4>1 DEF AcceptedInv, SameEvent
    <3> QED BY <1>1, <2>1, <2>3, <3>5, <3>7, <3>8 DEF IntentInv, IntentTypeOK
  <2>5. CASE used # {}
    <3>1. UNCHANGED rows
      BY <1>4, <2>5
    <3>2. PICK n \in used : SameEvent(rows[n])
      BY <1>4, <2>5
    <3>3. AcceptedInv'
      BY <2>1, <3>1, <3>2 DEF AcceptedInv, SameEvent
    <3>4. RowsInv'
      BY <1>1, <3>1 DEF IntentInv, RowsInv
    <3> QED BY <1>1, <2>1, <2>3, <3>1, <3>3, <3>4 DEF IntentInv, IntentTypeOK
  <2> QED BY <2>4, <2>5
<1> QED BY <1>3, <1>4 DEF Create

(* What happens around the page. *)

(* The rows go on, or others add to them; key and event of a row stay. *)
LEMMA IntentRows ==
  ASSUME IntentInv, UNCHANGED submitVars, rows' \in Seq(RowSet), Len(rows) <= Len(rows'),
         \A n \in 1..Len(rows) : /\ rows'[n].key = rows[n].key
                                 /\ rows'[n].eventType = rows[n].eventType
                                 /\ rows'[n].payload = rows[n].payload,
         \A n \in 1..Len(rows') : n > Len(rows) => rows'[n].key = 0
  PROVE  IntentInv'
<1>1. UNCHANGED form /\ UNCHANGED post /\ UNCHANGED keys
  BY DEF submitVars
<1>2. /\ rows \in Seq(RowSet) /\ keys \in Nat /\ Len(rows) \in Nat /\ Len(rows') \in Nat
      /\ DOMAIN rows = 1..Len(rows) /\ DOMAIN rows' = 1..Len(rows')
  BY DEF IntentInv, IntentTypeOK
<1>3. RowsInv'
  BY <1>1, <1>2 DEF IntentInv, RowsInv
<1>4. AcceptedInv'
  BY <1>1, <1>2 DEF IntentInv, AcceptedInv, SameEvent
<1> QED BY <1>1, <1>2, <1>3, <1>4 DEF IntentInv, IntentTypeOK, PostInv, FitButForDate,
    OnlyDatesRefused

LEMMA IntentService ==
  ASSUME SubmitAssumption, IntentInv, UNCHANGED submitVars,
         \/ \E employee \in PresetEmployee : OtherClient(employee)
         \/ \E n \in DOMAIN rows : ServiceMoves(n)
  PROVE  IntentInv'
<1>1. rows \in Seq(RowSet) /\ Len(rows) \in Nat /\ DOMAIN rows = 1..Len(rows)
  BY DEF IntentInv, IntentTypeOK
<1>2. ASSUME NEW employee \in PresetEmployee, OtherClient(employee)
      PROVE  IntentInv'
  <2> DEFINE row == Row(0, "BANK_ACCOUNT_CHANGE", BankAccount(employee))
  <2>1. BankAccount(employee) \in Payload
    BY SubmitAssumption, BankAccounts
  <2>2. row \in RowSet /\ row.key = 0
    BY <2>1 DEF Row, RowSet, EventType, Status
  <2> HIDE DEF row
  <2>3. rows' = Append(rows, row)
    BY <1>2 DEF OtherClient, row
  <2>4. /\ rows' \in Seq(RowSet) /\ Len(rows') = Len(rows) + 1
        /\ \A n \in 1..Len(rows) : rows'[n] = rows[n]
        /\ rows'[Len(rows) + 1] = row
    BY <1>1, <2>2, <2>3
  <2> QED BY <1>1, <2>2, <2>4, IntentRows
<1>3. ASSUME NEW n \in DOMAIN rows, ServiceMoves(n)
      PROVE  IntentInv'
  <2>1. PICK to \in Status : rows' = [rows EXCEPT ![n].status = to]
    BY <1>3 DEF ServiceMoves, Status
  <2>2. rows[n] \in RowSet
    BY <1>1
  <2>3. \A r \in RowSet : /\ [r EXCEPT !.status = to] \in RowSet
                          /\ [r EXCEPT !.status = to].key = r.key
                          /\ [r EXCEPT !.status = to].eventType = r.eventType
                          /\ [r EXCEPT !.status = to].payload = r.payload
    BY DEF RowSet
  <2>4. rows' \in Seq(RowSet) /\ Len(rows') = Len(rows)
    BY <1>1, <2>1, <2>2, <2>3
  <2>5. \A m \in 1..Len(rows) : rows'[m] = rows[m] \/ rows'[m] = [rows[m] EXCEPT !.status = to]
    BY <1>1, <2>1
  <2>6. \A m \in 1..Len(rows) : rows[m] \in RowSet
    BY <1>1
  <2>7. \A m \in 1..Len(rows) : /\ rows'[m].key = rows[m].key
                                 /\ rows'[m].eventType = rows[m].eventType
                                 /\ rows'[m].payload = rows[m].payload
    BY <2>3, <2>5, <2>6
  <2>8. \A m \in 1..Len(rows') : m > Len(rows) => rows'[m].key = 0
    BY <1>1, <2>4
  <2> QED BY <2>4, <2>7, <2>8, IntentRows
<1> QED BY <1>2, <1>3

LEMMA IntentIdle ==
  ASSUME IntentInv, UNCHANGED rows, UNCHANGED submitVars
  PROVE  IntentInv'
BY DEF submitVars, IntentInv, IntentTypeOK, PostInv, RowsInv, AcceptedInv, SameEvent,
       FitButForDate, OnlyDatesRefused

LEMMA IntentStep ==
  ASSUME SubmitAssumption, IntentInv, [ConsoleNext]_consoleVars
  PROVE  IntentInv'
<1>1. ASSUME NEW s \in Slot, Progress(s)
      PROVE  UNCHANGED rows /\ UNCHANGED submitVars
  BY <1>1 DEF Progress, ServerAnswers, ServerLists, CheckPostgres, CheckRedis, Arrives
<1>2. CASE Timer
  BY <1>2, IntentIdle DEF Timer, AutoRefresh, Poll
<1>3. CASE User
  <2>1. CASE /\ \/ \E filter \in Filter : ApplyFilters(filter)
                \/ ClearFilters \/ NextPage \/ PreviousPage \/ LoadAgain \/ AskAgain
             /\ UNCHANGED submitVars
    <3>1. UNCHANGED rows
      BY <2>1 DEF ApplyFilters, ClearFilters, NextPage, PreviousPage, LoadAgain, AskAgain, OnList
    <3> QED BY <2>1, <3>1, IntentIdle
  <2> QED BY <1>3, <2>1, IntentGoTo, IntentAtForm, IntentSubmit DEF User
<1>4. CASE Environment
  <2>1. CASE /\ \/ \E s \in Slot : RequestLost(s)
                \/ \E d \in Dependency : Outage(d) \/ Restore(d)
             /\ UNCHANGED submitVars
    <3>1. UNCHANGED rows
      BY <2>1 DEF RequestLost, Outage, Restore
    <3> QED BY <2>1, <3>1, IntentIdle
  <2> QED BY <1>4, <2>1, IntentService, IntentReply DEF Environment, submitVars
<1>5. CASE PostAnswers
  BY <1>5, IntentCreate, IntentReply DEF PostAnswers
<1>6. CASE UNCHANGED consoleVars
  BY <1>6, IntentIdle DEF consoleVars, backendVars
<1> QED BY <1>1, <1>2, <1>3, <1>4, <1>5, <1>6, IntentIdle DEF ConsoleNext

LEMMA IntentKept == ConsoleSpec => []IntentInv
<1>1. ConsoleInit => IntentInv
  <2> SUFFICES ASSUME ConsoleInit
               PROVE  IntentInv
    OBVIOUS
  <2>1. form = NewForm(2) /\ keys = 2 /\ post = NoPost
    BY DEF ConsoleInit
  <2>2. form \in FormSet /\ form.text["effectiveDate"] \in Day /\ form.key = 2
    BY <2>1, MountedForms
  <2>3. /\ post \in PostSet /\ post.at = "none" /\ post.reply = "none"
    BY <2>1 DEF NoPost, PostSet, EventType
  <2>4. \A t \in {"X", "x"} : BankAccount(t) \in Payload
    BY BankAccounts DEF Text
  <2>5. \A t \in {"X", "x"}, k \in {0, 1} :
          LET row == Row(k, "BANK_ACCOUNT_CHANGE", BankAccount(t))
          IN row \in RowSet /\ row.key = k
    BY <2>4 DEF Row, RowSet, EventType, Status
  <2>6. /\ rows \in Seq(RowSet) /\ DOMAIN rows = 1..2 /\ rows[1].key = 1 /\ rows[2].key = 0
    BY <2>5 DEF ConsoleInit, BackendInit
  <2>7. RowsInv
    BY <2>1, <2>6 DEF RowsInv
  <2> QED BY <2>1, <2>2, <2>3, <2>6, <2>7
          DEF IntentInv, IntentTypeOK, PostInv, AcceptedInv, OnlyDatesRefused
<1> QED BY <1>1, IntentStep, SubmitAssumption, PTL DEF ConsoleSpec

-----------------------------------------------------------------------------
(* What the user can count on. *)

(* When the service refuses as invalid what the form has let pass, the date is  *)
(* the one fault of it, whatever was typed and in whatever order types, presets *)
(* and fields were chosen.                                                      *)
THEOREM RefusalsAreForDates == ConsoleSpec => []OnlyDatesRefused
<1>1. IntentInv => OnlyDatesRefused
  BY DEF IntentInv
<1> QED BY <1>1, IntentKept, PTL

(* However often a form is sent again there is one event at most for each key   *)
(* that was generated, and an answer that says accepted has its event.          *)
THEOREM IntentsMakeOneEvent == ConsoleSpec => []OneEventPerIntent
<1>1. IntentInv => OneEventPerIntent
  <2> SUFFICES ASSUME IntentInv
               PROVE  Cardinality({n \in DOMAIN rows : rows[n].key # 0}) <= keys
    BY DEF IntentInv, RowsInv, AcceptedInv, OneEventPerIntent
  <2> DEFINE ours == {n \in DOMAIN rows : rows[n].key # 0}
             keyOf == [n \in ours |-> rows[n].key]
  <2>1. keys \in Nat /\ \A n \in ours : rows[n].key \in 1..keys
    BY RowsTyped DEF IntentInv, IntentTypeOK, RowsInv
  <2>2. keyOf \in [ours -> 1..keys] /\ \A a, b \in ours : keyOf[a] = keyOf[b] => a = b
    BY <2>1 DEF IntentInv, RowsInv
  <2>3. IsFiniteSet(1..keys) /\ Cardinality(1..keys) = keys
    BY <2>1, FS_Interval
  <2> HIDE DEF ours, keyOf
  <2>4. keyOf \in Injection(ours, 1..keys)
    BY <2>2, Fun_IsInj
  <2>5. Cardinality(ours) <= keys
    BY <2>3, <2>4, FS_Injection
  <2> QED BY <2>5 DEF ours
<1> QED BY <1>1, IntentKept, PTL
=============================================================================
