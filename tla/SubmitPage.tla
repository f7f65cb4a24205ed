----------------------------- MODULE SubmitPage -----------------------------
(***************************************************************************)
(* The form that submits an event, and what becomes of its request.  The   *)
(* request outlives the page: if the user has left when the service's      *)
(* answer comes, a success still leads to the event's page.                *)
(***************************************************************************)
EXTENDS ConsolePages

CONSTANT PresetEmployee   \* employee ids of the presets

ASSUME SubmitAssumption == PresetEmployee \subseteq Text
ASSUME PresetsAreFilledIn == "" \notin PresetEmployee

VARIABLES
  form,    \* the mounted form, or NoForm
  post,    \* the POST under way, or NoPost; one at a time is followed
  keys     \* keys generated so far: 1..keys; 0 is an empty key

submitVars == <<form, post, keys>>

(* Texts of the form as it is first shown; all of them are in order. *)
InitialText(field) ==
  CASE field = "effectiveDate" -> "day" [] field = "newSalary" -> "1" [] OTHER -> "X"

Input(field) ==
  CASE field = "effectiveDate" -> Day [] field = "newSalary" -> Number [] OTHER -> Text

NewForm(key) ==
  [eventType |-> "BANK_ACCOUNT_CHANGE", text |-> [field \in Field |-> InitialText(field)],
   key |-> key, fieldErrors |-> {}, submitError |-> FALSE, submitting |-> FALSE]

NoForm == NewForm(0)

NoPost == [at |-> "none", key |-> 0, eventType |-> "BANK_ACCOUNT_CHANGE", payload |-> <<>>,
           reply |-> "none", live |-> FALSE]

-----------------------------------------------------------------------------
(* Mutant: the payload has the texts as they were typed. *)
BuildPayloadTyped(eventType, text) ==
  [field \in FieldOf[eventType] |->
     IF field = "newSalary" THEN ToNumber(text[field]) ELSE text[field]]

BuildPayload(eventType, text) ==
  [field \in FieldOf[eventType] |->
     CASE field = "effectiveDate" -> text[field]
       [] field = "newSalary" -> ToNumber(text[field])
       [] field \in {"iban", "currency"} -> ToUpper(Trim(text[field]))
       [] OTHER -> Trim(text[field])]

(* The fields validate has a message for. *)
Wrong(field, text) ==
  CASE field = "newSalary" -> ~Positive(ToNumber(text))
    [] field \in {"iban", "currency"} -> ~MatchesPattern(ToUpper(Trim(text)))
    [] field = "effectiveDate" -> text = ""
    [] OTHER -> Trim(text) = ""

Validate(f) ==
  {field \in FieldOf[f.eventType] : Wrong(field, f.text[field])}
    \cup IF f.key = 0 THEN {"idempotencyKey"} ELSE {}

-----------------------------------------------------------------------------
(* The user at the form. *)

Edit(f) ==
  /\ at = "submit"
  /\ Move
  /\ form' = f
  /\ UNCHANGED <<rows, up, calls, at, view, post>>

(* Only the fields of the selected type are on the form. *)
SetField(field, text) ==
  /\ field \in FieldOf[form.eventType]
  /\ Edit([form EXCEPT !.text[field] = text, !.fieldErrors = @ \ {field}])
  /\ UNCHANGED keys

(* The user may put in any key used before, or none. *)
SetKey(key) ==
  /\ Edit([form EXCEPT !.key = key, !.fieldErrors = @ \ {"idempotencyKey"}])
  /\ UNCHANGED keys

SelectType(eventType) ==
  /\ Edit([form EXCEPT !.eventType = eventType, !.fieldErrors = {}])
  /\ UNCHANGED keys

RegenerateKey ==
  /\ keys' = keys + 1
  /\ Edit([form EXCEPT !.key = keys + 1])

ApplyPreset(employee) ==
  /\ keys' = keys + 1
  /\ Edit([form EXCEPT !.key = keys + 1, !.text["employeeId"] = employee])

(* Mutant: a form that was rejected is sent under a key of its own. *)
SubmissionRekeyed(f) ==
  [at |-> "sent", key |-> IF f.submitError THEN keys + 100 ELSE f.key,
   eventType |-> f.eventType, payload |-> BuildPayload(f.eventType, f.text),
   reply |-> "none", live |-> TRUE]

(* The request of a form that is in order. *)
Submission(f) ==
  [at |-> "sent", key |-> f.key, eventType |-> f.eventType,
   payload |-> BuildPayload(f.eventType, f.text), reply |-> "none", live |-> TRUE]

(* handleSubmit; its button is disabled while it waits. *)
HandleSubmit ==
  LET errors == Validate(form)
      checked == [form EXCEPT !.submitError = FALSE, !.fieldErrors = errors]
  IN /\ at = "submit"
     /\ ~form.submitting
     /\ post = NoPost
     /\ Move
     /\ \/ errors # {} /\ form' = checked /\ UNCHANGED post
        \/ /\ errors = {}
           /\ form' = [checked EXCEPT !.submitting = TRUE]
           /\ post' = Submission(form)
     /\ UNCHANGED <<rows, up, calls, at, view, keys>>

-----------------------------------------------------------------------------
(* POST /events: what Submission shows of it, as one step and the enqueue. *)

Reply(reply) == post' = [post EXCEPT !.at = "replied", !.reply = reply]

SameEvent(row) == row.eventType = post.eventType /\ row.payload = post.payload

(* The answer to a request that is not accepted. *)
Refusal ==
  IF ~ValidEventPayload(post.eventType, post.payload) THEN "invalid"
  ELSE IF "db" \notin up THEN "error" ELSE "conflict"

(* A key that was used is accepted again for the same event. *)
Create ==
  /\ post.at = "sent"
  /\ LET used == {n \in DOMAIN rows : rows[n].key = post.key}
         accepted == /\ ValidEventPayload(post.eventType, post.payload)
                     /\ "db" \in up
                     /\ \A n \in used : SameEvent(rows[n])
         row == Row(post.key, post.eventType, post.payload)
     IN \/ /\ accepted
           /\ rows' = IF used = {} THEN Append(rows, row) ELSE rows
           /\ post' = [post EXCEPT !.at = "committed"]
        \/ ~accepted /\ Reply(Refusal) /\ UNCHANGED rows
  /\ UNCHANGED <<up, calls, moves, at, view, form, keys>>

(* The client is answered after the enqueue, which waits for Redis. *)
Enqueue ==
  /\ post.at = "committed"
  /\ "redis" \in up
  /\ Reply("accepted")
  /\ UNCHANGED <<rows, up, calls, moves, at, view, form, keys>>

(* The rate limit is exceeded. *)
Throttled ==
  /\ post.at = "sent"
  /\ Move
  /\ Reply("throttled")
  /\ UNCHANGED <<rows, up, calls, at, view, form, keys>>

(* The request gets lost, or its answer, whatever the service has done. *)
PostLost ==
  /\ post # NoPost
  /\ post.reply # "unreachable"
  /\ Move
  /\ Reply("unreachable")
  /\ UNCHANGED <<rows, up, calls, at, view, form, keys>>

(* A success opens the event's page, from wherever the user is. *)
ReplyAccepted ==
  /\ post.reply = "accepted"
  /\ Mount("event")
  /\ form' = NoForm
  /\ post' = NoPost
  /\ UNCHANGED <<rows, up, moves, keys>>

ReplyRejected ==
  /\ post.reply \notin {"none", "accepted"}
  /\ form' = IF post.live THEN [form EXCEPT !.submitError = TRUE, !.submitting = FALSE] ELSE form
  /\ post' = NoPost
  /\ UNCHANGED <<rows, up, calls, moves, at, view, keys>>

PostAnswers == Create \/ Enqueue \/ ReplyAccepted \/ ReplyRejected
=============================================================================
