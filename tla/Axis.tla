-------------------------------- MODULE Axis --------------------------------
(***************************************************************************)
(* One axis of the arm as the Robot class sees it: what an L6470 object    *)
(* promises to its caller, one operator per public method.                 *)
(*                                                                         *)
(* An axis is a record.  Two fields are the chip's own state, which is     *)
(* not in the repository (the L6470 driver IC):                            *)
(*   mode     "hiz" (bridges off), "stop" (held) or "move"                 *)
(*   fault    an overcurrent or thermal shutdown latched in STATUS         *)
(* and the others are members of the L6470 class:                          *)
(*   halted, inMotion   m_halted, m_inMotion: STATUS as of the last        *)
(*                      execControl, so stale until the next one           *)
(*   alarm              m_alarmFlag # 0                                    *)
(*   homed              m_homeCompleted                                    *)
(*   homing             m_homingState: "none" is 0, "failed" is -1,        *)
(*                      "armed" is 1, "abort" is HOMING_ABORT and "run"    *)
(*                      any other value, a leg or a wait between two       *)
(* Module L6470 has the sequence itself, and is shown to keep this promise. *)
(***************************************************************************)

Mode == {"hiz", "stop", "move"}
HomingPhase == {"none", "armed", "run", "abort", "failed"}

AxisState == [mode: Mode, fault: BOOLEAN,
              halted: BOOLEAN, inMotion: BOOLEAN, alarm: BOOLEAN,
              homed: BOOLEAN, homing: HomingPhase]

(* The constructor ends in hardHIZ, after one execControl and a clearAlarm. *)
PoweredUp == [mode |-> "hiz", fault |-> FALSE,
              halted |-> TRUE, inMotion |-> FALSE, alarm |-> FALSE,
              homed |-> FALSE, homing |-> "none"]

(* getHomingState() > 0 *)
HomingActive(x) == x.homing \in {"armed", "run", "abort"}

-----------------------------------------------------------------------------
(* What the chip does.                                                     *)

(* A command that energises the motor; the bridges stay off while a fault  *)
(* is latched.                                                             *)
Energise(x, m) == IF x.fault THEN "hiz" ELSE m

(* The motion comes to its end: target, switch edge, limit or stop.        *)
MotionEnds(x) == [x EXCEPT !.mode = "stop"]

(* Overcurrent or thermal shutdown: the bridges go off, the flag latches.  *)
Faulted(x) == [x EXCEPT !.mode = "hiz", !.fault = TRUE]

(* The BUSY pin.  A positioning command holds it low until it ends; a leg  *)
(* of the homing sequence may or may not (run and goUntil do not).         *)
MayAccept(x) == x.mode # "move" \/ x.homing = "run"

-----------------------------------------------------------------------------
(* The methods.                                                            *)

HomingInterrupted(x) == IF HomingActive(x) THEN "abort" ELSE x.homing

HardStop(x) == [x EXCEPT !.mode = Energise(x, "stop"),
                         !.homing = HomingInterrupted(x)]

(* A moving motor decelerates first: it stops in a step of its own.        *)
SoftStop(x) == [x EXCEPT !.mode = Energise(x, IF x.mode = "move"
                                              THEN "move" ELSE "stop"),
                         !.homing = HomingInterrupted(x)]

(* Variant: hardHIZ forgets m_homeCompleted.                               *)
HardHIZForgets(x) == [x EXCEPT !.mode = "hiz"]

HardHIZ(x) == [x EXCEPT !.mode = "hiz", !.homed = FALSE]

MoveTo(x) == [x EXCEPT !.mode = Energise(x, "move")]

ClearAlarm(x) == [x EXCEPT !.alarm = FALSE]

(* Nothing if a sequence is in progress; else energise an axis that was    *)
(* off when last looked at, and arm the sequence.                          *)
StartHoming(x) ==
  IF HomingActive(x) THEN x
  ELSE [(IF x.halted THEN SoftStop(x) ELSE x)
         EXCEPT !.homed = FALSE, !.homing = "armed"]

(* STATUS is read into the cached members and GetStatus clears the latch.  *)
Refresh(x) == [x EXCEPT !.fault = FALSE,
                        !.halted = x.mode = "hiz",
                        !.inMotion = x.mode = "move",
                        !.alarm = x.alarm \/ x.fault,
                        !.homed = x.homed /\ ~(x.alarm \/ x.fault)]

(* What one call of the homing sequence can make of an axis whose cached   *)
(* state is fresh: fail on an alarm or a lost excitation, wait for the leg *)
(* in progress, give up when aborted, start the first leg, else sit out a  *)
(* wait, start the next leg, miss the origin or complete.                  *)
HomingCall(x) ==
  IF x.alarm \/ x.halted THEN {[x EXCEPT !.homing = "failed"]}
  ELSE IF x.inMotion THEN {x}
  ELSE IF x.homing = "abort" THEN {[x EXCEPT !.homing = "failed"]}
  ELSE IF x.homing = "armed" THEN {[x EXCEPT !.mode = "move", !.homing = "run"]}
  ELSE {x, [x EXCEPT !.mode = "move"], [x EXCEPT !.homing = "failed"],
        [x EXCEPT !.homing = "none", !.homed = TRUE]}

(* One periodic call: the possible results.                                *)
ExecControl(x) == IF HomingActive(x) THEN HomingCall(Refresh(x))
                                     ELSE {Refresh(x)}

-----------------------------------------------------------------------------
(* What stays true of an axis, whoever calls.                              *)

(* An axis that counts as homed is held: no alarm stands, no sequence is   *)
(* under way, and the bridges are on unless a fault switched them off that *)
(* execControl has yet to see.                                             *)
Held(x) == x.homed => /\ ~x.alarm /\ ~HomingActive(x)
                      /\ x.mode = "hiz" => x.fault

(* A latched fault keeps the bridges off.                                  *)
FaultIsOff(x) == x.fault => x.mode = "hiz"
=============================================================================
