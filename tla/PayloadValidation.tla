------------------------- MODULE PayloadValidation -------------------------
(***************************************************************************)
(* Request bodies of POST /events and what the server takes for a valid    *)
(* one.  A text is one of a few that the checks and conversions tell apart: *)
(*   ""     empty            " "    blank                                  *)
(*   "X"    of the form the field's pattern asks for                       *)
(*   "x"    the same in lower case        " x "  and with blanks around it *)
(*   "?"    of no such form                                                *)
(* and a date one of those that a date field and the server tell apart:     *)
(*   ""     none       "day"  with a year of four digits                   *)
(*   "far"  with a year of five or six, which a date field without a       *)
(*          maximum takes and an ISO 8601 date does not have               *)
(***************************************************************************)

Text == {"", " ", "X", "x", " x ", "?"}
Day == {"", "day", "far"}                 \* of a date field
Number == {"", "-1", "0", "1"}            \* of a number field; "" if it holds no number

Trim(t) == CASE t = " " -> "" [] t = " x " -> "x" [] OTHER -> t
ToUpper(t) == CASE t = "x" -> "X" [] t = " x " -> " X " [] OTHER -> t
ToNumber(t) == IF t = "" THEN "0" ELSE t

Positive(n) == n = "1"
MatchesPattern(t) == t = "X"

EventType == {"BANK_ACCOUNT_CHANGE", "ADDRESS_CHANGE", "SALARY_CHANGE"}

BaseField == {"employeeId", "effectiveDate"}
BankAccountField == BaseField \cup {"iban"}
AddressField == BaseField \cup {"street", "city", "postalCode", "country"}
SalaryField == BaseField \cup {"newSalary", "currency"}

FieldOf ==
  [BANK_ACCOUNT_CHANGE |-> BankAccountField, ADDRESS_CHANGE |-> AddressField,
   SALARY_CHANGE |-> SalaryField]

Field == UNION {FieldOf[type] : type \in EventType}

(* The constraints of the DTO classes; IsDateString takes four-digit years only. *)
Satisfies(field, value) ==
  CASE field = "effectiveDate" -> value = "day"
    [] field = "newSalary" -> Positive(value)
    [] field \in {"iban", "currency"} -> MatchesPattern(value)
    [] OTHER -> value # ""

(* Does validateEventPayload return?  Else it throws a 400. *)
ValidEventPayload(eventType, payload) ==
  /\ eventType \in EventType
  /\ DOMAIN payload = FieldOf[eventType]
  /\ \A field \in DOMAIN payload : Satisfies(field, payload[field])
=============================================================================
