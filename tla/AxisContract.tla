---------------------------- MODULE AxisContract ----------------------------
(***************************************************************************)
(* What the Robot class may rely on of one axis: the operators of Axis as  *)
(* a specification.  The Robot module is built from the same operators;    *)
(* module L6470 is shown to implement this specification.                  *)
(***************************************************************************)
EXTENDS Axis

VARIABLE x

Init == x = PoweredUp

Called == \/ x' \in {HardStop(x), SoftStop(x), HardHIZ(x), ClearAlarm(x),
                     StartHoming(x)}
          \/ MayAccept(x) /\ x' = MoveTo(x)

Polled == x' \in ExecControl(x)

Chip == \/ x.mode = "move" /\ x' = MotionEnds(x)
        \/ x.mode # "hiz" /\ x' = Faulted(x)

Next == Called \/ Polled \/ Chip

Spec == Init /\ [][Next]_x
=============================================================================
