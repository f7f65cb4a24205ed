--------------------------- MODULE EventLifecycle ---------------------------
(***************************************************************************)
(* What the payroll service promises about an event, with no database, no  *)
(* worker and no queue in sight.  An employee's events are accepted one    *)
(* after the other.  An accepted event waits, is taken into processing any *)
(* number of times, and ends in one of two terminal states.  It enters     *)
(* processing only once every event accepted before it for the same        *)
(* employee has ended, and an ended event never changes again.             *)
(*                                                                         *)
(* Sources: the state machine of docs/architecture.md section 8 and the    *)
(* ordering rule of section 12, as the guards of                           *)
(* event-processing.service.ts enforce them.                               *)
(***************************************************************************)
EXTENDS FiniteSets

CONSTANTS
  Event,        \* events that can be submitted
  Employee,     \* employees the events belong to
  EmployeeOf    \* the employee of each event

ASSUME LifecycleAssumption ==
  /\ IsFiniteSet(Event)
  /\ EmployeeOf \in [Event -> Employee]

VARIABLES
  phase,   \* phase[e]: where event e stands
  ahead    \* ahead[e]: the same employee's events accepted before e

lifecycleVars == <<phase, ahead>>

Ended == {"SUCCEEDED", "FAILED"}
Phase == {"NONE", "PENDING", "PROCESSING"} \cup Ended

LifecycleInit ==
  /\ phase = [e \in Event |-> "NONE"]
  /\ ahead = [e \in Event |-> {}]

(* An event is accepted behind all the events its employee already has. *)
Accept(e) ==
  /\ phase[e] = "NONE"
  /\ phase' = [phase EXCEPT ![e] = "PENDING"]
  /\ ahead' = [ahead EXCEPT ![e] =
                 {f \in Event : phase[f] # "NONE" /\ EmployeeOf[f] = EmployeeOf[e]}]

(* Mutant: an event starts whatever is ahead of it. *)
StartOutOfOrder(e) ==
  /\ phase[e] = "PENDING"
  /\ phase' = [phase EXCEPT ![e] = "PROCESSING"]
  /\ UNCHANGED ahead

(* An event is taken into processing when nothing ahead of it is unfinished. *)
Start(e) ==
  /\ phase[e] = "PENDING"
  /\ \A f \in ahead[e] : phase[f] \in Ended
  /\ phase' = [phase EXCEPT ![e] = "PROCESSING"]
  /\ UNCHANGED ahead

(* Mutant: an event to be tried again gets a status of its own. *)
LeaveRetrying(e, to) ==
  /\ phase[e] = "PROCESSING"
  /\ phase' = [phase EXCEPT ![e] = IF to = "PENDING" THEN "RETRYING" ELSE to]
  /\ UNCHANGED ahead

(* An attempt ends: another one may follow, or the event is over. *)
Leave(e, to) ==
  /\ phase[e] = "PROCESSING"
  /\ phase' = [phase EXCEPT ![e] = to]
  /\ UNCHANGED ahead

LifecycleNext ==
  \E e \in Event :
    \/ Accept(e)
    \/ Start(e)
    \/ \E to \in Ended \cup {"PENDING"} : Leave(e, to)

LifecycleSpec == LifecycleInit /\ [][LifecycleNext]_lifecycleVars

-----------------------------------------------------------------------------
(* Properties.                                                               *)

(* The variables hold statuses and sets of events. *)
LifecycleTypeOK ==
  /\ phase \in [Event -> Phase]
  /\ ahead \in [Event -> SUBSET Event]

(* At most one event of an employee is in processing at a time. *)
OneRunningPerEmployee ==
  \A e, f \in Event :
    (e # f /\ EmployeeOf[e] = EmployeeOf[f])
      => ~(phase[e] = "PROCESSING" /\ phase[f] = "PROCESSING")

(* The events of an employee end in the order in which they were accepted. *)
EndInOrder ==
  \A e \in Event : phase[e] \in Ended => \A f \in ahead[e] : phase[f] \in Ended

(* Acceptance puts an employee's events into one line: of any two, one is     *)
(* ahead of the other, and whatever is ahead of the first is ahead of the     *)
(* second.                                                                    *)
OneLine ==
  \A e, f \in Event :
    /\ f \in ahead[e] => ahead[f] \subseteq ahead[e] \ {f}
    /\ (e # f /\ EmployeeOf[e] = EmployeeOf[f] /\ phase[e] # "NONE" /\ phase[f] # "NONE")
         => (f \in ahead[e] <=> e \notin ahead[f])
=============================================================================
