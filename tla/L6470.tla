------------------------------- MODULE L6470 --------------------------------
(***************************************************************************)
(* One L6470 object, its driver chip and the axis it turns: the homing     *)
(* sequence of execHoming, leg by leg, against a track with an origin      *)
(* switch and end limits.                                                  *)
(*                                                                         *)
(* The track is a row of cells.  The switch is closed on the cells up to   *)
(* Origin and open above, as drawn above execHoming; a cell stands for the *)
(* 1000 pulses by which the sequence overruns the origin.  ABS_POS counts  *)
(* cells in two's complement, as the 22-bit register counts pulses.  Polls *)
(* come when they come: a caller that waits for another axis keeps         *)
(* m_mutex, and with it every poll, for as long as that axis turns.        *)
(***************************************************************************)
EXTENDS Integers

CONSTANTS
  Low, High,       \* the cells at the mechanical ends
  Origin,          \* the last cell on which the switch is closed
  ForwardLimit,    \* the first cell on which the forward limit is hit
  Rigs,            \* the axes there are:
                   \*   home     the direction Robot passes to startHoming
                   \*   reverse  the last cell on which the reverse limit is
                   \*            hit (below Low if there is none)
                   \*   works    FALSE: the origin switch is stuck open
  Targets,         \* positions the callers ask for
  FaultInGap       \* TRUE: a fault may strike between the two STATUS reads

Forward == 1
Reverse == -1

ASSUME TrackAssumption ==
  /\ {Low, High, Origin, ForwardLimit} \subseteq Int
  /\ Low < Origin /\ Origin < ForwardLimit /\ ForwardLimit < High
  /\ Rigs \subseteq [home: {Forward, Reverse}, works: BOOLEAN,
                     reverse: {p \in Int : p < Origin}]
  /\ FaultInGap \in BOOLEAN
  /\ Targets \subseteq Int

VARIABLES
  rig,         \* the axis this object drives, the same for ever
  (* the chip and the mechanics *)
  pos,         \* the cell the axis is on
  absPos,      \* ABS_POS
  mode,        \* what the chip is doing
  dir,         \* the direction of the last motion
  target,      \* of a positioning command
  slow,        \* MAX_SPEED holds m_savedMaxSpeed/10
  fault,       \* a latched overcurrent or thermal shutdown
  (* the object *)
  halted, inMotion, alarm, homed,   \* m_halted, m_inMotion, m_alarmFlag # 0,
                                    \* m_homeCompleted
  homingState,                      \* m_homingState
  (* history *)
  crossed      \* since a sequence was last asked for a moveTo came into it,
               \* or one was given the direction away from its target

chip == <<pos, absPos, mode, dir, target, slow, fault>>
object == <<halted, inMotion, alarm, homed, homingState>>
vars == <<rig, chip, object, crossed>>

Abort == 99      \* HOMING_ABORT
State == (-1..11) \cup {Abort} \cup (101..107)

Turning == {"run", "goto", "until", "release", "stopping"}
Moving(m) == m \in Turning

(* ABS_POS wraps: Span is the number of its values.                        *)
Span == 2 * (High - Low + 1)
Wrap(n) == ((n + (Span \div 2)) % Span) - (Span \div 2)
Abs(n) == IF n < 0 THEN -n ELSE n

HomingDir == rig.home
Closed(p) == rig.works /\ p <= Origin
Limit(d, p) == IF d = Forward THEN p >= ForwardLimit ELSE p <= rig.reverse

TypeOK ==
  /\ pos \in Low..High /\ absPos \in -(Span \div 2)..(Span \div 2 - 1)
  /\ mode \in {"hiz", "stop"} \cup Turning
  /\ dir \in {Forward, Reverse} /\ target \in Int
  /\ rig \in Rigs
  /\ {slow, fault, halted, inMotion, alarm, homed, crossed} \subseteq BOOLEAN
  /\ homingState \in State

Init ==
  /\ rig \in Rigs
  /\ pos \in Low..High /\ absPos = 0
  /\ mode = "hiz" /\ dir = Forward /\ target = 0
  /\ slow = FALSE /\ fault = FALSE
  /\ halted = TRUE /\ inMotion = FALSE /\ alarm = FALSE
  /\ homed = FALSE /\ homingState = 0
  /\ crossed = FALSE

-----------------------------------------------------------------------------
(* The chip.  A turning axis goes one cell at a time; at a mechanical end  *)
(* it slips, and only the counter goes on.                                 *)

Clip(p) == IF p > High THEN High ELSE IF p < Low THEN Low ELSE p
NextCell == Clip(pos + dir)

Advance(count) == pos' = NextCell /\ absPos' = Wrap(count)
ChipOnly == UNCHANGED <<rig, dir, target, slow, fault, object, crossed>>

Turn ==
  /\ \/ mode = "run" /\ Advance(absPos + dir) /\ UNCHANGED mode
     \/ /\ mode = "goto" /\ absPos = target
        /\ mode' = "stop" /\ UNCHANGED <<pos, absPos>>
     \/ /\ mode = "goto" /\ absPos # target
        /\ Advance(absPos + dir)
        /\ mode' = IF Wrap(absPos + dir) = target THEN "stop" ELSE mode
     \/ /\ mode = "until"            \* a falling edge resets ABS_POS
        /\ LET edge == ~Closed(pos) /\ Closed(NextCell)
           IN /\ Advance(IF edge THEN 0 ELSE absPos + dir)
              /\ mode' = IF edge THEN "stopping" ELSE mode
     \/ /\ mode = "release"
        /\ IF Closed(pos) /\ Closed(NextCell)
           THEN Advance(absPos + dir) /\ UNCHANGED mode
           ELSE Advance(0) /\ mode' = "stop"
     \/ /\ mode = "stopping"         \* deceleration takes a cell, or not
        /\ mode' = "stop"
        /\ Advance(absPos + dir) \/ UNCHANGED <<pos, absPos>>
  /\ ChipOnly

Fault ==
  /\ mode # "hiz"
  /\ mode' = "hiz" /\ fault' = TRUE
  /\ UNCHANGED <<rig, pos, absPos, dir, target, slow, object, crossed>>

(* Nothing holds an axis that is off: it is pushed, or falls.              *)
Push ==
  /\ mode = "hiz" /\ pos' \in {Clip(pos + 1), Clip(pos - 1)}
  /\ UNCHANGED <<absPos, mode>> /\ ChipOnly

(* A command that energises is not performed while a fault is latched.     *)
SoftStopped(m) == IF Moving(m) THEN "stopping" ELSE "stop"
Command(m) == mode' = IF fault THEN "hiz" ELSE m

-----------------------------------------------------------------------------
(* execControl.  STATUS is read, then GetStatus clears the latch; now is   *)
(* the chip's mode once both are done.                                     *)

SeenAlarm == alarm \/ fault
SeenHalted == mode = "hiz"
SeenMotion == Moving(mode)
Polling == /\ halted' = SeenHalted /\ inMotion' = SeenMotion
           /\ alarm' = SeenAlarm /\ fault' = FALSE
           /\ UNCHANGED <<rig, pos, absPos, crossed>>

AfterLimitCheck(now) ==
  IF SeenMotion /\ Limit(dir, pos) THEN SoftStopped(now) ELSE now

NoCommand(now) == mode' = AfterLimitCheck(now) /\ UNCHANGED <<dir, target>>
KeepHomed == homed' = IF SeenAlarm THEN FALSE ELSE homed

(* Starting a leg: the chip's mode, direction and target.                  *)
Leg(m, d, t) == mode' = m /\ dir' = d /\ target' = t
Run(d) == Leg("run", d, target)
GoUntil(d) == Leg("until", d, target)
ReleaseSW(d) == Leg("release", d, target)
RelativeMove(d, n) == Leg("goto", d, Wrap(absPos + d * n))
GoHome == Leg("goto", IF absPos > 0 THEN Reverse ELSE Forward, 0)

NotHoming(now) ==
  /\ homingState <= 0
  /\ NoCommand(now) /\ KeepHomed /\ UNCHANGED <<homingState, slow>>

(* Variants: MAX_SPEED is put back from the leg after the one that lowers  *)
(* it; the sequence is left as it is.                                      *)
HomingBrokenLater(now) ==
  /\ homingState > 0 /\ (SeenAlarm \/ SeenHalted)
  /\ homingState' = -1
  /\ slow' = IF homingState > 8 THEN FALSE ELSE slow
  /\ NoCommand(now) /\ KeepHomed

HomingBrokenIgnored(now) ==
  /\ homingState > 0 /\ (SeenAlarm \/ SeenHalted)
  /\ UNCHANGED <<homingState, slow>>
  /\ NoCommand(now) /\ KeepHomed

HomingBroken(now) ==
  /\ homingState > 0 /\ (SeenAlarm \/ SeenHalted)
  /\ homingState' = -1
  /\ slow' = IF homingState > 7 THEN FALSE ELSE slow
  /\ NoCommand(now) /\ KeepHomed

HomingAwaitsLeg(now) ==
  /\ homingState > 0 /\ ~SeenAlarm /\ ~SeenHalted /\ SeenMotion
  /\ NoCommand(now) /\ KeepHomed /\ UNCHANGED <<homingState, slow>>

(* Variant: the leg in progress is not waited for.                         *)
ReadyAtOnce == homingState > 0 /\ ~SeenAlarm /\ ~SeenHalted

Ready == homingState > 0 /\ ~SeenAlarm /\ ~SeenHalted /\ ~SeenMotion

(* Cases that start a leg and count on.                                    *)
HomingLeg ==
  /\ Ready
  /\ \/ /\ homingState = 1 /\ HomingDir = Forward
        /\ Run(Forward) /\ homingState' = 2 /\ UNCHANGED slow
     \/ /\ homingState = 1 /\ HomingDir = Reverse /\ Closed(pos)
        /\ ReleaseSW(Forward) /\ homingState' = 102 /\ UNCHANGED slow
     \/ /\ homingState = 1 /\ HomingDir = Reverse /\ ~Closed(pos)
        /\ GoUntil(Reverse) /\ homingState' = 2 /\ UNCHANGED slow
     \/ /\ homingState = 104
        /\ GoUntil(Reverse) /\ homingState' = 105 /\ UNCHANGED slow
     \/ /\ homingState = 4 /\ HomingDir = Reverse
        /\ ReleaseSW(Forward) /\ homingState' = 5 /\ UNCHANGED slow
     \/ /\ homingState = 4 /\ HomingDir = Forward
        /\ GoUntil(Reverse) /\ homingState' = 5 /\ UNCHANGED slow
     \/ /\ homingState \in {7, 107}
        /\ RelativeMove(HomingDir, Abs(absPos) + 1)
        /\ homingState' = 8 /\ slow' = TRUE
     \/ /\ homingState = 10
        /\ GoHome /\ homingState' = 11 /\ UNCHANGED slow
  /\ KeepHomed

(* Variant: a search that ends at the limit is taken for a success.        *)
HomingPauseTrusting(now) ==
  /\ Ready /\ homingState \in {2, 102, 5, 105, 8, 3, 103, 6, 106, 9}
  /\ homingState' \in {homingState, homingState + 1}
  /\ NoCommand(now) /\ KeepHomed /\ UNCHANGED slow

(* A leg has ended: a one-second wait, unless the search for the origin    *)
(* ran into the limit; and the waits themselves.                           *)
HomingPause(now) ==
  /\ Ready /\ homingState \in {2, 102, 5, 105, 8, 3, 103, 6, 106, 9}
  /\ IF homingState = 5 /\ Limit(-HomingDir, pos)
     THEN homingState' = -1
     ELSE \/ homingState' = homingState + 1
          \/ homingState \in {3, 103, 6, 106, 9} /\ UNCHANGED homingState
  /\ NoCommand(now) /\ KeepHomed /\ UNCHANGED slow

(* Variant: the last state is counted on.                                  *)
HomingDoneCounted(now) ==
  /\ Ready /\ homingState = 11
  /\ homed' = TRUE /\ homingState' = 12 /\ slow' = FALSE
  /\ NoCommand(now)

HomingDone(now) ==
  /\ Ready /\ homingState = 11
  /\ homed' = TRUE /\ homingState' = 0 /\ slow' = FALSE
  /\ NoCommand(now)

HomingAborted(now) ==
  /\ Ready /\ homingState = Abort
  /\ homingState' = -1 /\ slow' = FALSE
  /\ NoCommand(now) /\ KeepHomed

ExecControl ==
  \E now \in {mode} \cup (IF FaultInGap THEN {"hiz"} ELSE {}) :
    /\ Polling
    /\ \/ NotHoming(now) \/ HomingBroken(now) \/ HomingAwaitsLeg(now)
       \/ HomingLeg \/ HomingPause(now) \/ HomingDone(now) \/ HomingAborted(now)

-----------------------------------------------------------------------------
(* What Robot calls.                                                       *)

(* Variant: a stop does not interrupt the sequence.                        *)
InterruptNot == UNCHANGED homingState

Interrupt == homingState' = IF homingState > 0 THEN Abort ELSE homingState
Unread == UNCHANGED <<rig, pos, absPos, fault, halted, inMotion>>
NoPositioning == UNCHANGED <<slow, crossed>>

HardStop ==
  /\ Command("stop") /\ Interrupt
  /\ Unread /\ NoPositioning /\ UNCHANGED <<dir, target, alarm, homed>>

SoftStop ==
  /\ Command(SoftStopped(mode)) /\ Interrupt
  /\ Unread /\ NoPositioning /\ UNCHANGED <<dir, target, alarm, homed>>

(* Variant: hardHIZ forgets m_homeCompleted.                               *)
HardHIZForgets ==
  /\ mode' = "hiz"
  /\ Unread /\ NoPositioning
  /\ UNCHANGED <<dir, target, alarm, homed, homingState>>

HardHIZ ==
  /\ mode' = "hiz" /\ homed' = FALSE
  /\ Unread /\ NoPositioning /\ UNCHANGED <<dir, target, alarm, homingState>>

ClearAlarm ==
  /\ alarm' = FALSE
  /\ Unread /\ NoPositioning
  /\ UNCHANGED <<mode, dir, target, homed, homingState>>

(* A halted axis is energised by softStop, which finds no sequence to stop. *)
StartHoming ==
  /\ homingState <= 0
  /\ IF halted THEN Command(SoftStopped(mode)) ELSE UNCHANGED mode
  /\ homed' = FALSE /\ homingState' = 1 /\ crossed' = FALSE
  /\ Unread /\ UNCHANGED <<dir, target, alarm, slow>>

(* send waits for BUSY and for nothing else.  The chip holds BUSY low while *)
(* it positions, releases the switch or decelerates to a stop; in a search, *)
(* a run to the limit or a wait of the sequence it takes the command.       *)
Busy == mode \in {"goto", "release", "stopping"}

(* Robot gives the direction, from a position it read before it asked for  *)
(* the mutex or before the wait; startMotion3D has set MAX_SPEED as well.  *)
DirectionTo(t) == IF absPos > t THEN Reverse ELSE Forward

MoveTo ==
  /\ ~Busy
  /\ Command("goto") /\ target' \in Targets /\ dir' \in {Forward, Reverse}
  /\ crossed' = IF homingState > 0 \/ dir' # DirectionTo(target')
                THEN TRUE ELSE crossed
  /\ slow' \in {slow, FALSE}
  /\ Unread /\ UNCHANGED <<alarm, homed, homingState>>

Caller == HardStop \/ SoftStop \/ HardHIZ \/ ClearAlarm \/ StartHoming \/ MoveTo

Next == Turn \/ Fault \/ Push \/ ExecControl \/ Caller

Spec == Init /\ [][Next]_vars

(* The motion thread polls for ever, a turning axis turns, and a wait of   *)
(* the sequence does not outlast its second.                               *)
WaitEnds == ExecControl /\ homingState' # homingState

FairSpec == Spec /\ WF_vars(ExecControl) /\ WF_vars(Turn) /\ SF_vars(WaitEnds)

-----------------------------------------------------------------------------
(* Properties.                                                             *)

(* While m_homeCompleted is set ABS_POS tells where the axis really is:    *)
(* zero was set at the switch's edge (on its closed side when the search   *)
(* ended in goUntil, on its open side after releaseSW) and every cell      *)
(* since was counted; unless a fault has just switched the motor off, or a *)
(* moveTo crossed the sequence or was sent away from its target.           *)
HomedAligned ==
  homed /\ ~crossed => \/ absPos \in {pos - Origin, pos - Origin - 1}
                       \/ mode = "hiz" /\ fault

(* The sequence completes with the axis at rest on the edge of the origin  *)
(* switch and ABS_POS zero ("(4) move to the origin"), unless a moveTo     *)
(* came into it.                                                           *)
CompletesAtOrigin ==
  [][~homed /\ homed' /\ ~crossed =>
       mode = "stop" /\ absPos = 0 /\ pos \in {Origin, Origin + 1}]_vars

(* However a sequence ends (done, aborted, alarm, excitation lost, origin  *)
(* not found) the MAX_SPEED it lowered has been put back.                  *)
SpeedRestored == homingState <= 0 => ~slow

(* A sequence that has begun ends, unless its search for the origin has    *)
(* nothing to stop it: a switch stuck open and no reverse limit either     *)
(* (SHOULDER and ELBOW, Robot::getLimitState), or a moveTo that left the   *)
(* axis below the edge it then searches for.                               *)
Unstoppable == (~rig.works \/ crossed) /\ rig.reverse < Low
HomingTerminates == homingState > 0 ~> homingState <= 0 \/ Unstoppable

(* With a switch that never closes the axis is never taken for homed,      *)
(* unless a moveTo has ended the search for it in its place.               *)
NoOriginNoHome == ~rig.works => ~homed \/ crossed

-----------------------------------------------------------------------------
(* The sequence keeps the promise Robot relies on.                         *)

Phase == CASE homingState = -1 -> "failed" [] homingState = 0 -> "none"
           [] homingState = 1 -> "armed" [] homingState = Abort -> "abort"
           [] OTHER -> "run"

AxisMode == IF Moving(mode) THEN "move" ELSE mode

AsAxis == [mode |-> AxisMode, fault |-> fault,
           halted |-> halted, inMotion |-> inMotion, alarm |-> alarm,
           homed |-> homed, homing |-> Phase]

Contract == INSTANCE AxisContract WITH x <- AsAxis

(* Every step of the object or its chip is a step the contract allows.     *)
KeepsContract == Contract!Spec
=============================================================================
