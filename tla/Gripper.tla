------------------------------ MODULE Gripper -------------------------------
(***************************************************************************)
(* The gripper: a servo that the servo thread moves one step at a time to  *)
(* its destination, and the view of the panel that shows an opening and    *)
(* moves the gripper from what it shows.  The network and the scripts move *)
(* the gripper too, and the view does not hear of it.                      *)
(***************************************************************************)
EXTENDS Integers

CONSTANTS
  ServoMin, ServoMax,  \* pulse widths, closed and open: 76 and 101
  Step,                \* per cent in one press of the view's buttons: 4
  Openings,            \* bound: what commands and scripts ask for
  Entries              \* bound: what is typed into the view

(* One step of the view is one step of the servo.                          *)
ASSUME GripperAssumption ==
  /\ ServoMin \in Int /\ ServoMax \in Int /\ Step \in Nat \ {0}
  /\ Step * (ServoMax - ServoMin) = 100
  /\ Openings \subseteq 0..100 /\ Entries \subseteq Int

VARIABLES
  current,  \* m_gripperCurrentValue
  dest,     \* m_gripperDestValue
  label,    \* the number the view shows
  ordered   \* history: the opening last asked for, None once stopped

gripper == <<current, dest, label, ordered>>

None == -1

Servo == ServoMin..ServoMax

GripperTypeOK ==
  /\ current \in Servo /\ dest \in Servo
  /\ label \in Int /\ ordered \in 0..100 \cup {None}

(* The servo starts fully open, and the view shows it.                     *)
GripperInit ==
  /\ current = ServoMax /\ dest = ServoMax
  /\ label = 100 /\ ordered = 100

GripperRestarts ==
  /\ current' = ServoMax /\ dest' = ServoMax
  /\ label' = 100 /\ ordered' = 100

-----------------------------------------------------------------------------
(* Pulse widths and percentages, in integer arithmetic.                    *)

(* Variant: the width is rounded up.                                       *)
ServoValueUp(v) == ServoMin + ((ServoMax - ServoMin) * v + 99) \div 100
ServoValue(v) == ServoMin + ((ServoMax - ServoMin) * v) \div 100

GripperValue(p) == (100 * (p - ServoMin)) \div (ServoMax - ServoMin)

Clamp(v) == IF v < 0 THEN 0 ELSE IF v > 100 THEN 100 ELSE v

(* Division in C rounds towards zero.                                      *)
Quotient(v, d) == IF v >= 0 THEN v \div d ELSE -((-v) \div d)
Rounded(v) == Step * Quotient(v + Step \div 2, Step)

-----------------------------------------------------------------------------
(* Robot's methods and the servo thread.                                   *)

MoveGripper(v) ==
  /\ dest' = ServoValue(IF v > 100 THEN 100 ELSE v) /\ ordered' = v
  /\ UNCHANGED current

StopGripper ==
  /\ dest' = current /\ ordered' = None
  /\ UNCHANGED <<current, label>>

(* Variant: the servo moves also when it is there.                         *)
ServoStepAlways ==
  /\ current' = IF current < dest THEN current + 1 ELSE current - 1
  /\ UNCHANGED <<dest, label, ordered>>

ServoStep ==
  /\ current # dest
  /\ current' = IF current < dest THEN current + 1 ELSE current - 1
  /\ UNCHANGED <<dest, label, ordered>>

-----------------------------------------------------------------------------
(* The view shows what it is set to, and reads it back clamped.            *)

ViewShows(v) == label' = v /\ MoveGripper(Clamp(v))

ViewDec == ViewShows(Clamp(label) - Step)
ViewInc == ViewShows(Clamp(label) + Step)
ViewEdit == \E v \in Entries : ViewShows(Rounded(v))

(* GripperCommand and Script::grip refuse what is above 100.               *)
OthersMoveGripper == \E v \in Openings : MoveGripper(v) /\ UNCHANGED label

-----------------------------------------------------------------------------
(* A gripper that has come to rest where it was sent reports, in per cent, *)
(* the opening it was asked for, rounded down to a step: exactly what was  *)
(* asked by the view, which asks in steps (moveGripper, getGripperValue).  *)
ReadBack ==
  (current = dest /\ ordered # None) =>
    /\ GripperValue(current) <= ordered
    /\ ordered < GripperValue(current) + Step
=============================================================================
