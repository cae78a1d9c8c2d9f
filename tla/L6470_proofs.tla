---------------------------- MODULE L6470_proofs ----------------------------
(***************************************************************************)
(* Proofs about module L6470, for every track, origin, limit and homing    *)
(* direction: the sequence puts back the speed it lowered, an axis that    *)
(* finds no origin is never taken for homed, one that does is homed on the *)
(* edge of its switch and stays aligned with its counter, and one object   *)
(* with its chip keeps the contract the Robot class is modelled from.      *)
(***************************************************************************)
EXTENDS L6470, TLAPS

(* The part of the type invariant that the proofs rest on.                 *)
ObjectType ==
  /\ mode \in {"hiz", "stop"} \cup Turning
  /\ fault \in BOOLEAN /\ slow \in BOOLEAN
  /\ halted \in BOOLEAN /\ inMotion \in BOOLEAN
  /\ alarm \in BOOLEAN /\ homed \in BOOLEAN /\ crossed \in BOOLEAN
  /\ homingState \in State

(* What a positioning command does, its history variable left out, and     *)
(* what it was if that stays clear.                                        *)
LEMMA MoveToDoes ==
  ASSUME MoveTo
  PROVE  /\ ~Busy /\ Command("goto")
         /\ target' \in Targets /\ dir' \in {Forward, Reverse}
         /\ slow' \in {slow, FALSE}
         /\ rig' = rig /\ pos' = pos /\ absPos' = absPos
         /\ fault' = fault /\ halted' = halted /\ inMotion' = inMotion
         /\ alarm' = alarm /\ homed' = homed /\ homingState' = homingState
<1>1. /\ ~Busy /\ Command("goto")
      /\ target' \in Targets /\ dir' \in {Forward, Reverse}
      /\ slow' \in {slow, FALSE}
      /\ Unread /\ UNCHANGED <<alarm, homed, homingState>>
  BY DEF MoveTo
<1> QED
  BY <1>1 DEF Unread

LEMMA UncrossedMove ==
  ASSUME MoveTo, ~crossed'
  PROVE  ~(homingState > 0) /\ dir' = DirectionTo(target') /\ ~crossed
<1>1. crossed' = IF homingState > 0 \/ dir' # DirectionTo(target')
                 THEN TRUE ELSE crossed
  BY DEF MoveTo
<1> QED
  BY <1>1

LEMMA InitType == Init => ObjectType
<1>1. 0 \in State
  BY DEF State
<1> QED
  BY <1>1 DEF Init, ObjectType

LEMMA TurnType == ObjectType /\ Turn => ObjectType'
<1> SUFFICES ASSUME ObjectType, Turn PROVE ObjectType'
  OBVIOUS
<1>1. UNCHANGED <<slow, fault, halted, inMotion, alarm, homed, homingState, crossed>>
  BY DEF Turn, ChipOnly, object
<1>2. mode' \in {mode, "stop", "stopping"}
  BY DEF Turn, Turning
<1> QED
  BY <1>1, <1>2 DEF ObjectType, Turning

LEMMA CallerType == ObjectType /\ Caller => ObjectType'
<1> SUFFICES ASSUME ObjectType, Caller PROVE ObjectType'
  OBVIOUS
<1>0. ASSUME MoveTo PROVE ObjectType'
  <2>1. mode' \in {"hiz", "goto"}
    BY <1>0, MoveToDoes DEF Command
  <2>2. slow' \in BOOLEAN
    BY <1>0, MoveToDoes DEF ObjectType
  <2>3. crossed' \in BOOLEAN
    BY <1>0 DEF MoveTo, ObjectType
  <2> QED
    BY <1>0, <2>1, <2>2, <2>3, MoveToDoes DEF ObjectType, Turning
<1> SUFFICES ASSUME HardStop \/ SoftStop \/ HardHIZ \/ ClearAlarm \/ StartHoming
             PROVE  ObjectType'
  BY <1>0 DEF Caller
<1> USE DEF HardStop, SoftStop, HardHIZ, ClearAlarm, StartHoming, Unread, NoPositioning
<1>1. UNCHANGED <<fault, halted, inMotion>>
  OBVIOUS
<1>2. mode' \in {mode, "hiz", "stop", "stopping"}
  BY DEF Command, SoftStopped
<1>3. alarm' \in {alarm, FALSE}
  OBVIOUS
<1>4. homed' \in {homed, FALSE}
  OBVIOUS
<1>5. homingState' \in State
  BY DEF ObjectType, Interrupt, State, Abort
<1>6. slow' \in {slow, FALSE}
  OBVIOUS
<1>7. crossed' \in {crossed, FALSE}
  OBVIOUS
<1> HIDE DEF HardStop, SoftStop, HardHIZ, ClearAlarm, StartHoming
<1>8. mode' \in {"hiz", "stop"} \cup Turning
  BY <1>2 DEF ObjectType, Turning
<1>9. /\ alarm' \in BOOLEAN /\ homed' \in BOOLEAN
      /\ slow' \in BOOLEAN /\ crossed' \in BOOLEAN
  BY <1>3, <1>4, <1>6, <1>7 DEF ObjectType
<1> QED
  BY <1>1, <1>5, <1>8, <1>9 DEF ObjectType

LEMMA ExecControlType == ObjectType /\ ExecControl => ObjectType'
<1> SUFFICES ASSUME ObjectType,
                    NEW now \in {mode} \cup {"hiz"}, Polling,
                    \/ NotHoming(now) \/ HomingBroken(now)
                    \/ HomingAwaitsLeg(now) \/ HomingLeg \/ HomingPause(now)
                    \/ HomingDone(now) \/ HomingAborted(now)
             PROVE  ObjectType'
  BY DEF ExecControl
<1> USE DEF ObjectType, State, Abort
<1>1. /\ halted' \in BOOLEAN /\ inMotion' \in BOOLEAN
      /\ alarm' \in BOOLEAN /\ fault' \in BOOLEAN
  <2>1. halted' \in BOOLEAN /\ inMotion' \in BOOLEAN
    BY DEF Polling, SeenHalted, SeenMotion, Moving
  <2>2. alarm' \in BOOLEAN
    BY DEF Polling, SeenAlarm
  <2>3. fault' \in BOOLEAN
    BY DEF Polling
  <2> QED
    BY <2>1, <2>2, <2>3
<1>2. mode' \in {"hiz", "stop"} \cup Turning
  BY DEF NotHoming, HomingBroken, HomingAwaitsLeg, HomingLeg, HomingPause,
         HomingDone, HomingAborted, NoCommand, AfterLimitCheck, SoftStopped,
         Turning, Leg, Run, GoUntil, ReleaseSW, RelativeMove, GoHome
<1>3. homed' \in BOOLEAN
  BY DEF NotHoming, HomingBroken, HomingAwaitsLeg, HomingLeg, HomingPause,
         HomingDone, HomingAborted, KeepHomed, SeenAlarm
<1>4. slow' \in BOOLEAN
  <2>1. slow' \in {slow, TRUE, FALSE}
    BY DEF NotHoming, HomingBroken, HomingAwaitsLeg, HomingLeg, HomingPause,
           HomingDone, HomingAborted
  <2> QED
    BY <2>1
<1>5. homingState' \in State
  <2>1. CASE NotHoming(now) \/ HomingAwaitsLeg(now)
    BY <2>1 DEF NotHoming, HomingAwaitsLeg
  <2>2. CASE HomingPause(now)
    BY <2>2 DEF HomingPause
  <2>3. CASE ~NotHoming(now) /\ ~HomingAwaitsLeg(now) /\ ~HomingPause(now)
    <3>1. homingState' \in {-1, 0, 2, 102, 105, 5, 8, 11}
      BY <2>3 DEF HomingBroken, HomingLeg, HomingDone, HomingAborted
    <3> QED
      BY <3>1
  <2> QED
    BY <2>1, <2>2, <2>3
<1>6. crossed' = crossed
  BY DEF Polling
<1> QED
  BY <1>1, <1>2, <1>3, <1>4, <1>5, <1>6

LEMMA TypeInductive == Spec => []ObjectType
<1>1. ObjectType /\ [Next]_vars => ObjectType'
  <2>1. ObjectType /\ UNCHANGED vars => ObjectType'
    BY DEF ObjectType, vars, chip, object
  <2>2. ObjectType /\ (Fault \/ Push) => ObjectType'
    BY DEF ObjectType, Fault, Push, ChipOnly, object
  <2> QED
    BY <2>1, <2>2, TurnType, CallerType, ExecControlType DEF Next
<1> QED
  BY InitType, <1>1, PTL DEF Spec

-----------------------------------------------------------------------------
(* MAX_SPEED is lowered only in the last two legs, the waits around them   *)
(* and an abort; each way out of these puts it back.                       *)
SlowInLastLegs == slow => homingState \in (8..11) \cup {Abort}

(* However a homing sequence ends, it leaves MAX_SPEED as it found it.     *)
THEOREM SpeedIsRestored == Spec => []SpeedRestored
<1>1. Init => SlowInLastLegs
  BY DEF Init, SlowInLastLegs
<1>2. ObjectType /\ SlowInLastLegs /\ [Next]_vars => SlowInLastLegs'
  <2> SUFFICES ASSUME ObjectType, SlowInLastLegs, [Next]_vars
               PROVE  SlowInLastLegs'
    OBVIOUS
  <2> USE DEF SlowInLastLegs, ObjectType, State, Abort
  <2>1. CASE ExecControl
    <3> SUFFICES ASSUME NEW now \in {mode} \cup {"hiz"},
                    \/ NotHoming(now) \/ HomingBroken(now)
                    \/ HomingAwaitsLeg(now) \/ HomingLeg \/ HomingPause(now)
                    \/ HomingDone(now) \/ HomingAborted(now)
                 PROVE  SlowInLastLegs'
      BY <2>1 DEF ExecControl
    <3>1. CASE NotHoming(now) \/ HomingAwaitsLeg(now)
      BY <3>1 DEF NotHoming, HomingAwaitsLeg
    <3>2. CASE HomingBroken(now)
      <4>1. slow => homingState > 7
        OBVIOUS
      <4>2. CASE homingState > 7
        BY <3>2, <4>2 DEF HomingBroken
      <4>3. CASE ~(homingState > 7)
        BY <3>2, <4>1, <4>3 DEF HomingBroken
      <4> QED
        BY <4>2, <4>3
    <3>3. CASE HomingLeg
      <4>1. \/ homingState' = 8
            \/ slow' = slow /\ homingState = 10 /\ homingState' = 11
            \/ slow' = slow /\ homingState \in {1, 4, 104}
        BY <3>3 DEF HomingLeg
      <4>2. CASE homingState' = 8
        BY <4>2
      <4>3. CASE slow' = slow /\ homingState' = 11
        BY <4>3
      <4>4. CASE slow' = slow /\ homingState \in {1, 4, 104}
        <5>1. ~slow
          BY <4>4
        <5> QED
          BY <4>4, <5>1
      <4> QED
        BY <4>1, <4>2, <4>3, <4>4
    <3>4. CASE HomingPause(now)
      BY <3>4 DEF HomingPause
    <3>5. CASE HomingDone(now) \/ HomingAborted(now)
      BY <3>5 DEF HomingDone, HomingAborted
    <3> QED
      BY <3>1, <3>2, <3>3, <3>4, <3>5
  <2>2. CASE Caller
    <3>1. slow' => slow
      BY <2>2 DEF Caller, HardStop, SoftStop, HardHIZ, ClearAlarm, StartHoming,
                  MoveTo, NoPositioning
    <3>2. \/ homingState' \in {homingState, Abort}
          \/ homingState <= 0
      BY <2>2 DEF Caller, HardStop, SoftStop, HardHIZ, ClearAlarm, StartHoming,
                  MoveTo, Interrupt
    <3> QED
      BY <3>1, <3>2
  <2>3. CASE Turn \/ Fault \/ Push \/ UNCHANGED vars
    BY <2>3 DEF Turn, Fault, Push, ChipOnly, vars, chip, object
  <2> QED
    BY <2>1, <2>2, <2>3 DEF Next
<1>3. ObjectType /\ SlowInLastLegs => SpeedRestored
  BY DEF ObjectType, State, SlowInLastLegs, SpeedRestored, Abort
<1> QED
  BY TypeInductive, <1>1, <1>2, <1>3, PTL DEF Spec

-----------------------------------------------------------------------------
(* Only a new sequence is again free of what crossed the last one.         *)
LEMMA CrossedStays == [Next]_vars /\ ~StartHoming /\ crossed => crossed'
BY DEF Next, Turn, ChipOnly, Fault, Push, ExecControl, Polling, Caller, HardStop,
       SoftStop, HardHIZ, ClearAlarm, MoveTo, NoPositioning, vars

(* A switch that never closes.  A search for it goes on until a limit is   *)
(* hit.  Homing forward there is a limit, and the search gives up on it;   *)
(* an axis that homes in reverse has none, and the search never ends.      *)

(* The arm's axes that home in reverse have no reverse limit (ELBOW).      *)
ReverseIsOpen == \A r \in Rigs : r.home = Reverse => r.reverse < Low

TrackType ==
  /\ pos \in Low..High /\ dir \in {Forward, Reverse} /\ rig \in Rigs

AtLimit == rig.reverse >= pos

(* How far the sequence of a blind axis may come, and in which state of    *)
(* the chip: still searching, off, or ended at the limit.                  *)
Lost ==
  /\ ~homed
  /\ homingState > 2 => homingState = Abort \/ HomingDir = Forward
  /\ homingState \in (-1..5) \cup {Abort}
  /\ homingState = 2 /\ HomingDir = Reverse =>
       mode \in {"until", "hiz"} /\ dir = Reverse
  /\ homingState = 5 =>
       /\ mode \in {"until", "hiz", "stopping", "stop"} /\ dir = Reverse
       /\ mode \in {"stopping", "stop"} => AtLimit

BlindIsLost == TrackType /\ (~rig.works /\ ~crossed => Lost)

LEMMA TrackKept == TrackType /\ [Next]_vars => TrackType'
<1> SUFFICES ASSUME TrackType, [Next]_vars PROVE TrackType'
  OBVIOUS
<1> USE TrackAssumption DEF TrackType
<1>1. rig' = rig
  BY DEF Next, Turn, ChipOnly, Fault, Push, ExecControl, Polling, Caller, HardStop,
         SoftStop, HardHIZ, ClearAlarm, StartHoming, MoveTo, Unread, vars
<1>2. \A p \in Int : Clip(p) \in Low..High
  BY DEF Clip
<1>3. pos' \in Low..High
  <2>1. pos' \in {pos, Clip(pos + dir), Clip(pos + 1), Clip(pos - 1)}
    <3>1. CASE Turn
      BY <3>1 DEF Turn, Turning, Advance, NextCell
    <3>2. CASE Push
      BY <3>2 DEF Push
    <3>3. CASE Fault \/ ExecControl \/ Caller \/ UNCHANGED vars
      BY <3>3 DEF Fault, ExecControl, Polling, Caller, HardStop, SoftStop, HardHIZ,
                  ClearAlarm, StartHoming, MoveTo, Unread, vars, chip
    <3> QED
      BY <3>1, <3>2, <3>3 DEF Next
  <2>2. {pos + dir, pos + 1, pos - 1} \subseteq Int
    BY DEF Forward, Reverse
  <2> QED
    BY <1>2, <2>1, <2>2
<1>4. dir' \in {Forward, Reverse}
  <2>1. CASE Turn \/ Fault \/ Push \/ Caller \/ UNCHANGED vars
    BY <2>1 DEF Turn, ChipOnly, Fault, Push, Caller, HardStop, SoftStop, HardHIZ,
                ClearAlarm, StartHoming, MoveTo, vars, chip
  <2>2. ASSUME NEW now, NotHoming(now) \/ HomingBroken(now) \/ HomingAwaitsLeg(now)
                        \/ HomingPause(now) \/ HomingDone(now) \/ HomingAborted(now)
        PROVE  dir' = dir
    BY <2>2 DEF NotHoming, HomingBroken, HomingAwaitsLeg, HomingPause, HomingDone,
                HomingAborted, NoCommand
  <2>3. CASE HomingLeg
    <3>1. HomingDir \in {Forward, Reverse}
      BY DEF HomingDir
    <3> QED
      BY <2>3, <3>1 DEF HomingLeg, Leg, Run, GoUntil, ReleaseSW, RelativeMove, GoHome
  <2> QED
    BY <2>1, <2>2, <2>3 DEF Next, ExecControl
<1> QED
  BY <1>1, <1>3, <1>4

(* The chip: no edge stops a search, and at the limit an axis stays.       *)
LEMMA LostTurn ==
  ASSUME ObjectType, TrackType, Lost, ~rig.works, Turn PROVE Lost'
<1> USE TrackAssumption DEF TrackType
<1>1. UNCHANGED <<rig, dir, homed, homingState>>
  BY DEF Turn, ChipOnly, object
<1>2. mode = "until" => mode' = "until"
  BY DEF Turn, Closed
<1>3. mode = "stopping" => mode' = "stop" /\ pos' \in {pos, NextCell}
  BY DEF Turn, Advance
<1>4. mode \notin {"hiz", "stop"}
  BY DEF Turn, Turning
<1>5. dir = Reverse /\ AtLimit /\ pos' \in {pos, NextCell} => AtLimit'
  <2> SUFFICES ASSUME dir = Reverse, AtLimit, pos' = NextCell PROVE AtLimit'
    BY <1>1 DEF AtLimit
  <2>1. pos \in Int /\ rig.reverse \in Int /\ Low \in Int /\ Low <= pos
    OBVIOUS
  <2>2. pos' <= pos
    BY <2>1 DEF NextCell, Clip, Reverse
  <2>3. pos' \in Int
    BY <2>1 DEF NextCell, Clip, Reverse
  <2> QED
    BY <1>1, <2>1, <2>2, <2>3 DEF AtLimit
<1> QED
  BY <1>1, <1>2, <1>3, <1>4, <1>5 DEF Lost, HomingDir

(* A poll.                                                                 *)
LEMMA LostPoll ==
  ASSUME ObjectType, TrackType, Lost, ~rig.works, ReverseIsOpen, ExecControl
  PROVE  Lost'
<1> SUFFICES ASSUME NEW now \in {mode} \cup {"hiz"}, Polling,
                    \/ NotHoming(now) \/ HomingBroken(now)
                    \/ HomingAwaitsLeg(now) \/ HomingLeg \/ HomingPause(now)
                    \/ HomingDone(now) \/ HomingAborted(now)
             PROVE  Lost'
  BY DEF ExecControl
<1> USE TrackAssumption DEF ObjectType, TrackType
<1>1. UNCHANGED <<rig, pos>> /\ HomingDir' = HomingDir /\ AtLimit' = AtLimit
  BY DEF Polling, HomingDir, AtLimit
<1>2. HomingDir \in {Forward, Reverse} /\ (HomingDir = Reverse => rig.reverse < Low)
  BY DEF HomingDir, ReverseIsOpen
<1>3. HomingDir = Reverse => ~Limit(Reverse, pos)
  BY <1>2 DEF Limit, Forward, Reverse
<1>4. Limit(Reverse, pos) <=> AtLimit
  BY DEF Limit, Forward, Reverse, AtLimit
<1>5. KeepHomed => ~homed'
  BY DEF KeepHomed, Lost
<1>6. CASE NotHoming(now) \/ HomingBroken(now) \/ HomingAborted(now)
  <2>1. KeepHomed
    BY <1>6 DEF NotHoming, HomingBroken, HomingAborted
  <2>2. homingState' = -1 \/ (homingState <= 0 /\ homingState' = homingState)
    BY <1>6 DEF NotHoming, HomingBroken, HomingAborted
  <2>3. homingState' \in {-1, 0}
    BY <2>2 DEF State, Abort
  <2> QED
    BY <1>5, <2>1, <2>3 DEF Lost, Abort
<1>7. CASE HomingAwaitsLeg(now)
  <2>1. homingState' = homingState /\ dir' = dir /\ mode' = AfterLimitCheck(now)
        /\ KeepHomed /\ Moving(mode)
    BY <1>7 DEF HomingAwaitsLeg, NoCommand, SeenMotion
  <2>2. homingState = 2 /\ HomingDir = Reverse => mode' \in {"until", "hiz"}
    BY <1>3, <2>1 DEF Lost, AfterLimitCheck
  <2>3. homingState = 5 =>
          /\ mode' \in {"until", "hiz", "stopping", "stop"}
          /\ mode' \in {"stopping", "stop"} => AtLimit
    BY <1>4, <2>1 DEF Lost, AfterLimitCheck, SoftStopped, Moving, Turning
  <2> QED
    BY <1>1, <1>5, <2>1, <2>2, <2>3 DEF Lost
<1>8. CASE HomingLeg
  <2>1. homingState \in {1, 4} /\ KeepHomed
    BY <1>8 DEF HomingLeg, Lost, Abort
  <2>2. CASE homingState = 1 /\ HomingDir = Forward
    BY <1>1, <1>5, <1>8, <2>1, <2>2 DEF HomingLeg, Lost, Forward, Reverse, Abort
  <2>3. CASE homingState = 1 /\ HomingDir = Reverse
    BY <1>1, <1>5, <1>8, <2>1, <2>3
    DEF HomingLeg, Closed, GoUntil, Leg, Lost, Forward, Reverse, Abort
  <2>4. CASE homingState = 4
    <3>1. HomingDir = Forward
      BY <2>4 DEF Lost, Abort
    <3> QED
      BY <1>1, <1>5, <1>8, <2>1, <2>4, <3>1
      DEF HomingLeg, GoUntil, Leg, Lost, Forward, Reverse, Abort
  <2> QED
    BY <1>2, <2>1, <2>2, <2>3, <2>4
<1>9. CASE HomingPause(now) \/ HomingDone(now)
  <2>1. Ready /\ homingState \in {2, 3, 5} /\ HomingPause(now)
    BY <1>9 DEF HomingPause, HomingDone, Lost, Abort
  <2>2. mode = "stop" /\ KeepHomed
    BY <2>1 DEF Ready, SeenMotion, SeenHalted, Moving, HomingPause
  <2>3. HomingDir = Forward
    BY <1>2, <2>1, <2>2 DEF Lost, Abort
  <2>4. homingState = 5 => homingState' = -1
    BY <1>4, <2>1, <2>2, <2>3 DEF HomingPause, Lost, Forward, Reverse
  <2>5. homingState \in {2, 3} => homingState' \in {3, 4}
    BY <2>1 DEF HomingPause
  <2> QED
    BY <1>1, <1>5, <2>1, <2>2, <2>3, <2>4, <2>5 DEF Lost
<1> QED
  BY <1>6, <1>7, <1>8, <1>9

(* What Robot calls: it stops a sequence, or begins one; a positioning     *)
(* command that comes into one is excepted.                                *)
LEMMA LostCaller ==
  ASSUME ObjectType, TrackType, Lost, ~rig.works, Caller, ~crossed' PROVE Lost'
<1>1. ~homed' /\ UNCHANGED <<rig, pos>>
  <2>1. CASE MoveTo
    BY <2>1, MoveToDoes DEF Lost
  <2>2. CASE ~MoveTo
    BY <2>2 DEF Caller, HardStop, SoftStop, HardHIZ, ClearAlarm, StartHoming, Unread,
                Lost
  <2> QED
    BY <2>1, <2>2
<1>2. CASE HardStop \/ SoftStop \/ StartHoming \/ MoveTo
  <2>1. homingState' \in {-1, 0, 1, Abort}
    <3>1. CASE MoveTo
      BY <3>1, MoveToDoes, UncrossedMove DEF ObjectType, State, Abort
    <3>2. CASE HardStop \/ SoftStop \/ StartHoming
      BY <3>2 DEF HardStop, SoftStop, StartHoming, Interrupt, ObjectType, State, Abort
    <3> QED
      BY <1>2, <3>1, <3>2
  <2> QED
    BY <1>1, <2>1 DEF Lost, Abort, HomingDir
<1>3. CASE HardHIZ \/ ClearAlarm
  BY <1>1, <1>3 DEF HardHIZ, ClearAlarm, Lost, HomingDir, AtLimit
<1> QED
  BY <1>2, <1>3 DEF Caller

(* An axis whose origin switch never closes is never taken for homed:      *)
(* neither the limit, nor a stop, an alarm or a lost excitation on the way *)
(* is mistaken for the origin (execHoming), on every track where an axis   *)
(* that homes in reverse has no limit there.  The one thing that can be is *)
(* a moveTo which came into the sequence and stopped in the search's place *)
(* (NoOriginNoHome says so).                                               *)
THEOREM BlindNeverHomes ==
  ASSUME ReverseIsOpen PROVE Spec => []NoOriginNoHome
<1>1. Init => BlindIsLost
  BY TrackAssumption DEF Init, BlindIsLost, TrackType, Lost, Abort
<1>2. ObjectType /\ BlindIsLost /\ [Next]_vars => BlindIsLost'
  <2> SUFFICES ASSUME ObjectType, BlindIsLost, [Next]_vars PROVE BlindIsLost'
    OBVIOUS
  <2>1. TrackType /\ TrackType'
    BY TrackKept DEF BlindIsLost
  <2>2. rig' = rig
    BY DEF Next, Turn, ChipOnly, Fault, Push, ExecControl, Polling, Caller, HardStop,
           SoftStop, HardHIZ, ClearAlarm, StartHoming, MoveTo, Unread, vars
  <2>3. ASSUME ~rig.works, ~crossed' PROVE Lost'
    <3>1. CASE StartHoming
      BY <3>1 DEF StartHoming, Lost, Abort
    <3>2. CASE ~StartHoming
      <4>1. Lost
        BY <2>3, <3>2, CrossedStays DEF BlindIsLost
      <4>2. CASE Fault \/ Push \/ UNCHANGED vars
        BY <4>1, <4>2 DEF Fault, Push, ChipOnly, Lost, HomingDir, AtLimit, vars, chip,
                          object
      <4> QED
        BY <2>1, <2>3, <4>1, <4>2, LostTurn, LostPoll, LostCaller DEF Next
    <3> QED
      BY <3>1, <3>2
  <2> QED
    BY <2>1, <2>2, <2>3 DEF BlindIsLost
<1>3. BlindIsLost => NoOriginNoHome
  BY DEF BlindIsLost, Lost, NoOriginNoHome
<1> QED
  BY <1>1, <1>2, <1>3, TypeInductive, PTL DEF Spec

-----------------------------------------------------------------------------
(* The type invariant.                                                     *)

(* The counter wraps into its range, and leaves what is in it alone.       *)
LEMMA WrapRange ==
  ASSUME NEW n \in Int
  PROVE  Wrap(n) \in -(Span \div 2)..(Span \div 2 - 1)
<1> DEFINE H == High - Low + 1
<1>1. H \in Nat \ {0} /\ Span \div 2 = H /\ Span = 2 * H
  BY TrackAssumption DEF Span
<1> HIDE DEF H
<1>2. \A k \in Int : k % (2 * H) \in 0..(2 * H - 1)
  BY <1>1
<1>3. n + H \in Int
  BY <1>1
<1>4. (n + H) % (2 * H) \in 0..(2 * H - 1)
  BY <1>2, <1>3
<1> QED
  BY <1>1, <1>4 DEF Wrap

LEMMA WrapNear ==
  ASSUME NEW n \in -(Span \div 2)..(Span \div 2 - 1)
  PROVE  Wrap(n) = n
<1> DEFINE H == High - Low + 1
<1>1. H \in Nat \ {0} /\ Span \div 2 = H /\ Span = 2 * H
  BY TrackAssumption DEF Span
<1> HIDE DEF H
<1>2. \A k \in 0..(2 * H - 1) : k % (2 * H) = k
  BY <1>1
<1>3. n + H \in 0..(2 * H - 1)
  BY <1>1
<1> QED
  BY <1>1, <1>2, <1>3 DEF Wrap

(* The chip's counter and command.                                         *)
ChipType ==
  /\ absPos \in -(Span \div 2)..(Span \div 2 - 1)
  /\ target \in Int

LEMMA ChipKept ==
  ASSUME TrackType, ChipType, [Next]_vars PROVE ChipType'
<1> USE TrackAssumption DEF TrackType
<1>1. Span \div 2 \in Int /\ \A n \in Int : Wrap(n) \in Int
  <2>1. Span \div 2 \in Int
    BY DEF Span
  <2> QED
    BY <2>1, WrapRange
<1>2. absPos \in Int /\ dir \in Int /\ HomingDir \in Int /\ Abs(absPos) \in Int
  BY <1>1 DEF ChipType, Forward, Reverse, HomingDir, Abs
<1>3. absPos' = absPos \/ \E n \in Int : absPos' = Wrap(n)
  <2>1. CASE Turn
    <3>1. absPos' = absPos \/ \E n \in {0, absPos + dir} : absPos' = Wrap(n)
      BY <2>1 DEF Turn, Turning, Advance
    <3> QED
      BY <1>2, <3>1
  <2>2. CASE Fault \/ Push \/ ExecControl \/ Caller \/ UNCHANGED vars
    BY <2>2 DEF Fault, Push, ExecControl, Polling, Caller, HardStop, SoftStop,
                HardHIZ, ClearAlarm, StartHoming, MoveTo, Unread, vars, chip
  <2> QED
    BY <2>1, <2>2 DEF Next
<1>4. target' \in Int
  <2>1. CASE Turn \/ Fault \/ Push \/ Caller \/ UNCHANGED vars
    BY <2>1 DEF ChipType, Turn, ChipOnly, Fault, Push, Caller, HardStop, SoftStop,
                HardHIZ, ClearAlarm, StartHoming, MoveTo, vars, chip
  <2>2. ASSUME NEW now, NotHoming(now) \/ HomingBroken(now) \/ HomingAwaitsLeg(now)
                        \/ HomingPause(now) \/ HomingDone(now) \/ HomingAborted(now)
        PROVE  target' = target
    BY <2>2 DEF NotHoming, HomingBroken, HomingAwaitsLeg, HomingPause, HomingDone,
                HomingAborted, NoCommand
  <2>3. CASE HomingLeg
    <3>1. \/ target' \in {target, 0}
          \/ target' = Wrap(absPos + HomingDir * (Abs(absPos) + 1))
      BY <2>3 DEF HomingLeg, Leg, Run, GoUntil, ReleaseSW, RelativeMove, GoHome
    <3>2. absPos + HomingDir * (Abs(absPos) + 1) \in Int
      BY <1>2
    <3> QED
      BY <1>1, <3>1, <3>2 DEF ChipType
  <2> QED
    BY <2>1, <2>2, <2>3 DEF Next, ExecControl, ChipType
<1>5. absPos' \in -(Span \div 2)..(Span \div 2 - 1)
  BY <1>3, WrapRange DEF ChipType
<1> QED
  BY <1>4, <1>5 DEF ChipType, Span

(* The variables of an L6470 object and of its chip keep their types, and  *)
(* ABS_POS its 22 bits (Span values), on every track.                      *)
THEOREM TypeCorrect == Spec => []TypeOK
<1>1. Init => TrackType /\ ChipType
  <2>1. 0 \in -(Span \div 2)..(Span \div 2 - 1)
    BY TrackAssumption DEF Span
  <2> QED
    BY <2>1 DEF Init, TrackType, ChipType
<1>2. TrackType /\ ChipType /\ [Next]_vars => (TrackType /\ ChipType)'
  BY TrackKept, ChipKept
<1>3. ObjectType /\ TrackType /\ ChipType => TypeOK
  BY DEF ObjectType, TrackType, ChipType, TypeOK
<1> QED
  BY TypeInductive, <1>1, <1>2, <1>3, PTL DEF Spec

-----------------------------------------------------------------------------
(* Room on the track: three cells below the origin (an axis that homes in  *)
(* reverse overruns its edge by three), two to the forward limit, and the  *)
(* positions asked for with a cell to decelerate in.                       *)
Fits(t) == Low <= Origin + t /\ Origin + t + 2 <= High
Room ==
  /\ Low <= Origin - 3 /\ Origin + 2 <= ForwardLimit
  /\ \A t \in Targets : Fits(t)

Aligned == absPos \in {pos - Origin, pos - Origin - 1}

(* A positioning command that has its target in front of it.               *)
Towards(d, t) ==
  /\ mode = "goto" /\ dir = d /\ target = t
  /\ IF d = Forward THEN absPos <= t ELSE absPos > t
At(ps) == mode = "stop" /\ Aligned /\ absPos \in ps

(* Where the sequence is, leg by leg, unless the motor is off.  A search   *)
(* in reverse from the open side ends on a closed cell; ...                *)
FoundClosed ==
  \/ mode = "until" /\ dir = Reverse
  \/ mode \in {"stopping", "stop"} /\ dir = Reverse /\ Closed(pos)

(* ... the search for the edge ends at it, or at the limit; ...            *)
FoundEdge ==
  \/ mode = "until" /\ dir = Reverse
  \/ mode = "stopping" /\ dir = Reverse /\ pos = Origin /\ absPos = 0
  \/ At({-1, 0})
  \/ homingState = 5 /\
       IF HomingDir = Reverse
       THEN mode = "release" /\ dir = Forward /\ Closed(pos)
       ELSE mode \in {"stopping", "stop"} /\ dir = Reverse /\ AtLimit

(* ... the overrun is a positioning command over one to three cells; and   *)
(* so is the way back.                                                     *)
Overrun ==
  /\ Aligned
  /\ \/ absPos <= 0 /\ Towards(Forward, 1)
     \/ HomingDir = Reverse /\ absPos <= 0 /\ \E t \in {-1, -3} : Towards(Reverse, t)
     \/ mode = "stop" /\ absPos \in {1, -1, -3}

Return ==
  /\ Aligned
  /\ \/ Towards(Forward, 0) \/ Towards(Reverse, 0)
     \/ mode = "stop" /\ absPos = 0

Sequence ==
  /\ homingState \in 102..107 => HomingDir = Reverse
  /\ mode # "hiz" =>
     /\ homingState \in {2, 3, 4} /\ HomingDir = Reverse => FoundClosed
     /\ homingState \in {3, 4, 9, 10} => mode = "stop"
     /\ homingState \in {5, 105} => FoundEdge
     /\ homingState \in {6, 7, 106, 107} => At({-1, 0})
     /\ homingState \in {8, 9, 10} => Overrun
     /\ homingState = 11 => Return

(* A homed axis stands, or turns within the room it has.                   *)
OnTrack ==
  /\ Aligned
  /\ \/ mode = "stop"
     \/ \E t \in Targets, d \in {Forward, Reverse} : Towards(d, t)
     \/ mode = "stopping" /\ Low <= pos + dir /\ pos + dir <= High

Tracked ==
  homed => homingState <= 0 /\ (OnTrack \/ (mode = "hiz" /\ fault))
UncrossedTracked == ~crossed => Sequence /\ Tracked

Types == ObjectType /\ TrackType /\ ChipType

(* One cell further on an aligned axis, with room for it, the counter has  *)
(* followed the axis and not wrapped.                                      *)
LEMMA StepAligned ==
  ASSUME Types, Aligned, Low <= pos + dir, pos + dir <= High
  PROVE  /\ NextCell = pos + dir
         /\ Wrap(absPos + dir) = absPos + dir
<1> USE TrackAssumption DEF Types, TrackType, ChipType, Forward, Reverse
<1>1. NextCell = pos + dir
  BY DEF NextCell, Clip
<1>2. Span \div 2 = High - Low + 1
  BY DEF Span
<1>3. absPos + dir \in -(Span \div 2)..(Span \div 2 - 1)
  BY <1>2 DEF Aligned
<1> QED
  BY <1>1, <1>3, WrapNear

(* What a turning axis does of a positioning command on its way: it comes  *)
(* nearer to the target, aligned, or stops on it.                          *)
LEMMA TowardsTurn ==
  ASSUME Types, Aligned, Turn, NEW d \in {Forward, Reverse}, NEW t \in Int,
         Towards(d, t), Fits(t)
  PROVE  /\ Aligned' /\ absPos' \in {absPos, absPos + d}
         /\ \/ mode' = "goto" /\ dir' = d /\ target' = t
               /\ IF d = Forward THEN absPos' < t ELSE absPos' > t
            \/ mode' = "stop" /\ absPos' = t
<1> USE TrackAssumption DEF Types, TrackType, ChipType
<1>1. mode = "goto" /\ dir = d /\ target = t /\ UNCHANGED <<dir, target>>
  BY DEF Towards, Turn, ChipOnly
<1>2. absPos \in Int /\ pos \in Int /\ d \in Int /\ Origin \in Int
  BY DEF Forward, Reverse, Span
<1>3. CASE absPos = t
  BY <1>1, <1>3 DEF Turn, Aligned
<1>4. CASE absPos # t
  <2>1. IF d = Forward THEN absPos < t ELSE absPos > t
    BY <1>2, <1>4 DEF Towards
  <2>2. Low <= pos + dir /\ pos + dir <= High
    BY <1>1, <1>2, <2>1 DEF Aligned, Fits, Forward, Reverse
  <2>3. pos' = pos + d /\ absPos' = absPos + d
        /\ mode' = IF absPos + d = t THEN "stop" ELSE "goto"
    BY <1>1, <1>4, <2>2, StepAligned DEF Turn, Advance
  <2>4. Aligned'
    BY <1>2, <2>3 DEF Aligned
  <2>5. absPos' # t => IF d = Forward THEN absPos' < t ELSE absPos' > t
    BY <1>2, <2>1, <2>3 DEF Forward, Reverse
  <2> QED
    BY <1>1, <2>3, <2>4, <2>5
<1> QED
  BY <1>3, <1>4

(* The chip's part of the sequence.                                        *)
LEMMA SequenceTurn ==
  ASSUME Types, Room, Sequence, Turn PROVE Sequence'
<1> USE TrackAssumption DEF Types, TrackType, ChipType
<1>1. UNCHANGED <<rig, dir, target, homingState>> /\ HomingDir' = HomingDir
  BY DEF Turn, ChipOnly, object, HomingDir
<1>2. mode \notin {"hiz", "stop"}
  BY DEF Turn
<1>3. Wrap(0) = 0
  <2>1. 0 \in -(Span \div 2)..(Span \div 2 - 1)
    BY DEF Span
  <2> QED
    BY <2>1, WrapNear
<1>4. ASSUME dir = Reverse PROVE NextCell = IF pos > Low THEN pos - 1 ELSE pos
  BY <1>4 DEF NextCell, Clip, Reverse
<1>5. dir = Reverse /\ mode = "until" =>
        \/ mode' = "until"
        \/ mode' = "stopping" /\ pos' = Origin /\ absPos' = 0 /\ Closed(pos)'
  <2> SUFFICES ASSUME dir = Reverse, mode = "until"
               PROVE  \/ mode' = "until"
                      \/ mode' = "stopping" /\ pos' = Origin /\ absPos' = 0
                         /\ Closed(pos)'
    OBVIOUS
  <2> DEFINE edge == ~Closed(pos) /\ Closed(NextCell)
  <2>1. pos' = NextCell /\ (edge => absPos' = 0)
        /\ mode' = IF edge THEN "stopping" ELSE mode
    BY <1>3 DEF Turn, Advance
  <2>2. edge => NextCell = Origin /\ rig.works
    BY <1>4 DEF Closed
  <2>3. Closed(pos)' <=> rig.works /\ pos' <= Origin
    BY <1>1 DEF Closed
  <2> QED
    BY <2>1, <2>2, <2>3
<1>6. dir = Reverse /\ mode = "stopping" =>
        /\ mode' = "stop" /\ pos' <= pos /\ pos' \in Int
        /\ \/ pos' = pos /\ absPos' = absPos
           \/ pos' = NextCell /\ absPos' = Wrap(absPos + dir)
  <2> SUFFICES ASSUME dir = Reverse, mode = "stopping"
               PROVE  /\ mode' = "stop" /\ pos' <= pos /\ pos' \in Int
                      /\ \/ pos' = pos /\ absPos' = absPos
                         \/ pos' = NextCell /\ absPos' = Wrap(absPos + dir)
    OBVIOUS
  <2>1. /\ mode' = "stop"
        /\ \/ pos' = pos /\ absPos' = absPos
           \/ pos' = NextCell /\ absPos' = Wrap(absPos + dir)
    BY DEF Turn, Advance
  <2>2. pos \in Int /\ NextCell \in Int /\ NextCell <= pos
    BY <1>4
  <2> QED
    BY <2>1, <2>2
<1>7. FoundClosed => FoundClosed'
  <2>1. CASE mode = "until"
    BY <1>1, <1>5, <2>1 DEF FoundClosed
  <2>2. CASE mode # "until"
    <3> SUFFICES ASSUME FoundClosed PROVE FoundClosed'
      OBVIOUS
    <3>1. mode = "stopping" /\ dir = Reverse /\ Closed(pos)
      BY <1>2, <2>2 DEF FoundClosed
    <3>2. mode' = "stop" /\ pos' <= pos /\ pos' \in Int
      BY <1>6, <3>1
    <3>3. Closed(pos)'
      BY <1>1, <3>1, <3>2 DEF Closed
    <3> QED
      BY <1>1, <3>1, <3>2, <3>3 DEF FoundClosed
  <2> QED
    BY <2>1, <2>2
<1>8. FoundEdge => FoundEdge'
  <2> SUFFICES ASSUME FoundEdge PROVE FoundEdge'
    OBVIOUS
  <2>1. CASE mode = "until" /\ dir = Reverse
    BY <1>1, <1>5, <2>1 DEF FoundEdge
  <2>2. CASE mode = "stopping" /\ dir = Reverse /\ pos = Origin /\ absPos = 0
    <3>1. Aligned /\ Low <= pos + dir /\ pos + dir <= High /\ dir = -1
      BY <2>2 DEF Aligned, Reverse
    <3>2. NextCell = Origin - 1 /\ Wrap(absPos + dir) = -1
      BY <2>2, <3>1, StepAligned
    <3>3. /\ mode' = "stop"
          /\ (pos' = Origin /\ absPos' = 0) \/ (pos' = Origin - 1 /\ absPos' = -1)
      BY <1>6, <2>2, <3>2
    <3>4. At({-1, 0})'
      BY <3>3 DEF At, Aligned
    <3> QED
      BY <3>4 DEF FoundEdge
  <2>3. CASE /\ homingState = 5 /\ HomingDir = Reverse
             /\ mode = "release" /\ dir = Forward /\ Closed(pos)
    <3>1. NextCell = pos + 1 /\ rig.works /\ pos <= Origin
      BY <2>3 DEF NextCell, Clip, Closed, Forward
    <3>2. CASE Closed(NextCell)
      <4>1. mode' = "release" /\ pos' = NextCell
        BY <2>3, <3>2 DEF Turn, Advance
      <4>2. Closed(pos)'
        BY <1>1, <3>2, <4>1 DEF Closed
      <4> QED
        BY <1>1, <2>3, <4>1, <4>2 DEF FoundEdge
    <3>3. CASE ~Closed(NextCell)
      <4>1. mode' = "stop" /\ pos' = NextCell /\ absPos' = 0
        BY <1>3, <2>3, <3>3 DEF Turn, Advance
      <4>2. pos' = Origin + 1
        BY <3>1, <3>3, <4>1 DEF Closed
      <4>3. At({-1, 0})'
        BY <4>1, <4>2 DEF At, Aligned
      <4> QED
        BY <4>3 DEF FoundEdge
    <3> QED
      BY <3>2, <3>3
  <2>4. CASE /\ homingState = 5 /\ HomingDir # Reverse
             /\ mode = "stopping" /\ dir = Reverse /\ AtLimit
    <3>1. mode' = "stop" /\ pos' <= pos /\ pos' \in Int
      BY <1>6, <2>4
    <3>2. AtLimit'
      BY <1>1, <2>4, <3>1 DEF AtLimit
    <3> QED
      BY <1>1, <2>4, <3>1, <3>2 DEF FoundEdge
  <2> QED
    BY <1>2, <2>1, <2>2, <2>3, <2>4 DEF FoundEdge, At
<1>9. Overrun => Overrun'
  <2> SUFFICES ASSUME Overrun PROVE Overrun'
    OBVIOUS
  <2>1. PICK d \in {Forward, Reverse}, t \in {1, -1, -3} :
          /\ Towards(d, t) /\ absPos <= 0
          /\ (d = Forward /\ t = 1) \/ (d = Reverse /\ t # 1 /\ HomingDir = Reverse)
    BY <1>2 DEF Overrun
  <2>2. Fits(t) /\ t \in Int
    BY DEF Fits, Room
  <2>3. /\ Aligned' /\ absPos' \in {absPos, absPos + d}
        /\ \/ mode' = "goto" /\ dir' = d /\ target' = t
              /\ IF d = Forward THEN absPos' < t ELSE absPos' > t
           \/ mode' = "stop" /\ absPos' = t
    BY <2>1, <2>2, TowardsTurn DEF Overrun
  <2>4. CASE mode' = "stop"
    BY <2>3, <2>4 DEF Overrun
  <2>5. CASE mode' # "stop"
    <3>1. Towards(d, t)' /\ (d = Forward => absPos' < t)
      BY <2>3, <2>5 DEF Towards
    <3>2. absPos' <= 0
      BY <2>1, <2>3, <2>5 DEF Forward, Reverse, Span
    <3> QED
      BY <1>1, <2>1, <2>3, <3>1, <3>2 DEF Overrun
  <2> QED
    BY <2>4, <2>5
<1>10. Return => Return'
  <2> SUFFICES ASSUME Return PROVE Return'
    OBVIOUS
  <2>1. PICK d \in {Forward, Reverse} : Towards(d, 0)
    BY <1>2 DEF Return
  <2>2. Fits(0)
    BY DEF Fits, Room
  <2>3. /\ Aligned' /\ absPos' \in {absPos, absPos + d}
        /\ \/ mode' = "goto" /\ dir' = d /\ target' = 0
              /\ IF d = Forward THEN absPos' < 0 ELSE absPos' > 0
           \/ mode' = "stop" /\ absPos' = 0
    BY <2>1, <2>2, TowardsTurn DEF Return
  <2> QED
    BY <2>3 DEF Return, Towards, Forward, Reverse
<1> QED
  BY <1>1, <1>2, <1>7, <1>8, <1>9, <1>10 DEF Sequence, At

(* A poll that starts no leg: the limits apart, it leaves the chip alone.  *)
LEMMA PollKeeps ==
  ASSUME Polling, NoCommand(mode)
  PROVE  /\ UNCHANGED <<rig, pos, absPos, dir, target>>
         /\ HomingDir' = HomingDir /\ AtLimit' = AtLimit
         /\ Closed(pos)' = Closed(pos) /\ Aligned' = Aligned
         /\ mode' = mode \/ (Moving(mode) /\ Limit(dir, pos) /\ mode' = "stopping")
BY DEF Polling, NoCommand, AfterLimitCheck, SeenMotion, SoftStopped, HomingDir, AtLimit,
       Closed, Aligned

(* A poll while a leg is on its way.  The legs meet no limit but the       *)
(* search of an axis that homes forward.                                   *)
LEMMA SequenceAwaits ==
  ASSUME Types, ReverseIsOpen, Room, Sequence, Polling, HomingAwaitsLeg(mode)
  PROVE  Sequence'
<1> USE TrackAssumption DEF Types, TrackType, ChipType
<1>1. /\ UNCHANGED <<rig, pos, absPos, dir, target, homingState>>
      /\ HomingDir' = HomingDir /\ AtLimit' = AtLimit
      /\ Closed(pos)' = Closed(pos) /\ Aligned' = Aligned
      /\ mode' = mode \/ (Moving(mode) /\ Limit(dir, pos) /\ mode' = "stopping")
  BY PollKeeps DEF HomingAwaitsLeg
<1>2. Moving(mode) /\ mode \notin {"hiz", "stop"}
  BY DEF HomingAwaitsLeg, SeenMotion, Moving, Turning
<1>3. HomingDir = Reverse => ~Limit(Reverse, pos)
  BY DEF HomingDir, ReverseIsOpen, Limit, Forward, Reverse
<1>4. Limit(Reverse, pos) <=> AtLimit
  BY DEF Limit, Forward, Reverse, AtLimit
<1>5. pos < ForwardLimit => ~Limit(Forward, pos)
  BY DEF Limit, Forward
<1>6. pos >= Origin => ~Limit(Reverse, pos)
  BY DEF Limit, Forward, Reverse
<1>7. HomingDir = Reverse /\ FoundClosed => FoundClosed'
  BY <1>1, <1>2, <1>3 DEF FoundClosed
<1>8. (homingState = 105 => HomingDir = Reverse) /\ homingState \in {5, 105} /\ FoundEdge
      => FoundEdge'
  <2> SUFFICES ASSUME homingState = 105 => HomingDir = Reverse,
                      homingState \in {5, 105}, FoundEdge
               PROVE  FoundEdge'
    OBVIOUS
  <2>1. CASE mode = "until" /\ dir = Reverse
    <3>1. CASE mode' = mode
      BY <1>1, <2>1, <3>1 DEF FoundEdge
    <3>2. CASE mode' # mode
      <4>1. mode' = "stopping" /\ AtLimit /\ HomingDir # Reverse /\ homingState = 5
        BY <1>1, <1>3, <1>4, <2>1, <3>2
      <4> QED
        BY <1>1, <2>1, <4>1 DEF FoundEdge
    <3> QED
      BY <3>1, <3>2
  <2>2. CASE mode = "stopping"
    <3>1. mode' = "stopping"
      BY <1>1, <2>2
    <3> QED
      BY <1>1, <2>2, <3>1 DEF FoundEdge, At
  <2>3. CASE /\ homingState = 5 /\ HomingDir = Reverse
             /\ mode = "release" /\ dir = Forward /\ Closed(pos)
    <3>1. mode' = mode
      BY <1>1, <1>5, <2>3 DEF Closed
    <3> QED
      BY <1>1, <2>3, <3>1 DEF FoundEdge
  <2> QED
    BY <1>2, <2>1, <2>2, <2>3 DEF FoundEdge, At
<1>9. Overrun => Overrun'
  <2>1. Overrun => pos < ForwardLimit
    BY <1>2 DEF Overrun, Aligned, Room
  <2>2. Overrun => mode' = mode
    BY <1>1, <1>2, <1>3, <1>5, <2>1 DEF Overrun, Towards
  <2> QED
    BY <1>1, <1>2, <2>2 DEF Overrun, Towards
<1>10. Return => Return'
  <2>1. ASSUME Towards(Forward, 0), Aligned PROVE mode' = mode
    BY <1>1, <1>5, <2>1 DEF Towards, Aligned, Room
  <2>2. ASSUME Towards(Reverse, 0), Aligned PROVE mode' = mode
    BY <1>1, <1>6, <2>2 DEF Towards, Aligned, Forward, Reverse
  <2>3. Return => mode' = mode
    BY <1>2, <2>1, <2>2 DEF Return
  <2> QED
    BY <1>1, <1>2, <2>3 DEF Return, Towards
<1> QED
  BY <1>1, <1>2, <1>7, <1>8, <1>9, <1>10 DEF Sequence, At

(* A poll that starts the next leg.                                        *)
LEMMA SequenceLeg ==
  ASSUME Types, Sequence, Polling, HomingLeg PROVE Sequence'
<1> USE TrackAssumption DEF Types, TrackType, ChipType
<1>1. UNCHANGED <<rig, pos, absPos>> /\ HomingDir' = HomingDir
      /\ Closed(pos)' = Closed(pos) /\ Aligned' = Aligned
  BY DEF Polling, HomingDir, Closed, Aligned
<1>2. mode = "stop"
  BY DEF HomingLeg, Ready, SeenHalted, SeenMotion, Moving, Turning, ObjectType
<1>3. HomingDir \in {Forward, Reverse} /\ Forward # Reverse
  BY DEF HomingDir, Forward, Reverse
<1>4. CASE homingState = 1
  <2>1. \/ homingState' = 2 /\ HomingDir = Forward
        \/ homingState' = 102 /\ HomingDir = Reverse
        \/ homingState' = 2 /\ mode' = "until" /\ dir' = Reverse
    BY <1>4 DEF HomingLeg, GoUntil, Leg
  <2> QED
    BY <1>1, <1>3, <2>1 DEF Sequence, FoundClosed
<1>5. CASE homingState = 104
  <2>1. homingState' = 105 /\ mode' = "until" /\ dir' = Reverse
    BY <1>5 DEF HomingLeg, GoUntil, Leg
  <2>2. HomingDir = Reverse
    BY <1>5 DEF Sequence
  <2> QED
    BY <1>1, <2>1, <2>2 DEF Sequence, FoundEdge
<1>6. CASE homingState = 4
  <2>1. homingState' = 5
    BY <1>6 DEF HomingLeg
  <2>2. CASE HomingDir = Reverse
    <3>1. Closed(pos)
      BY <1>2, <1>6, <2>2 DEF Sequence, FoundClosed
    <3>2. mode' = "release" /\ dir' = Forward
      BY <1>3, <1>6, <2>2 DEF HomingLeg, ReleaseSW, Leg
    <3> QED
      BY <1>1, <2>1, <2>2, <3>1, <3>2 DEF Sequence, FoundEdge
  <2>3. CASE HomingDir = Forward
    <3>1. mode' = "until" /\ dir' = Reverse
      BY <1>3, <1>6, <2>3 DEF HomingLeg, GoUntil, Leg
    <3> QED
      BY <1>1, <2>1, <3>1 DEF Sequence, FoundEdge
  <2> QED
    BY <1>3, <2>2, <2>3
<1>7. CASE homingState \in {7, 107}
  <2>1. absPos \in {-1, 0} /\ Aligned
    BY <1>2, <1>7 DEF Sequence, At
  <2> DEFINE t == absPos + HomingDir * (Abs(absPos) + 1)
  <2>2. /\ t \in {1, -1, -3}
        /\ HomingDir = Forward => t = 1
        /\ HomingDir = Reverse => t \in {-1, -3} /\ absPos > t
    BY <1>3, <2>1 DEF Abs, Forward, Reverse
  <2>3. Wrap(t) = t
    <3>1. Span \div 2 = High - Low + 1
      BY DEF Span
    <3>2. High - Low + 1 \in Int /\ High - Low + 1 >= 4
      BY Low \in Int, High \in Int, Origin \in Int, ForwardLimit \in Int,
         Low < Origin, Origin < ForwardLimit, ForwardLimit < High
    <3>3. t \in -(Span \div 2)..(Span \div 2 - 1)
      <4> HIDE DEF t
      <4> QED
        BY <2>2, <3>1, <3>2, t \in {1, -1, -3}
    <3> HIDE DEF t
    <3> QED
      BY <3>3, WrapNear
  <2>4. homingState' = 8 /\ mode' = "goto" /\ dir' = HomingDir /\ target' = Wrap(t)
    BY <1>7 DEF HomingLeg, RelativeMove, Leg
  <2> HIDE DEF t
  <2>5. CASE HomingDir = Forward
    <3>1. Towards(Forward, 1)' /\ absPos' <= 0
      BY <1>1, <2>1, <2>2, <2>3, <2>4, <2>5 DEF Towards
    <3>2. Overrun'
      BY <1>1, <2>1, <3>1 DEF Overrun
    <3> QED
      BY <1>1, <2>4, <3>2 DEF Sequence
  <2>6. CASE HomingDir = Reverse
    <3>1. mode' = "goto" /\ dir' = Reverse /\ target' \in {-1, -3}
          /\ absPos' > target' /\ absPos' <= 0 /\ HomingDir' = Reverse
      BY <1>1, <2>1, <2>2, <2>3, <2>4, <2>6
    <3>2. Overrun'
      BY <1>1, <1>3, <2>1, <3>1 DEF Overrun, Towards
    <3> QED
      BY <1>1, <2>4, <3>2 DEF Sequence
  <2> QED
    BY <1>3, <2>5, <2>6
<1>8. CASE homingState = 10
  <2>1. Aligned /\ absPos \in {1, -1, -3}
    BY <1>2, <1>8 DEF Sequence, Overrun, Towards
  <2>2. /\ homingState' = 11 /\ mode' = "goto" /\ target' = 0
        /\ dir' = IF absPos > 0 THEN Reverse ELSE Forward
    BY <1>8 DEF HomingLeg, GoHome, Leg
  <2>3. Return'
    BY <1>1, <1>3, <2>1, <2>2 DEF Return, Towards
  <2> QED
    BY <1>1, <2>2, <2>3 DEF Sequence
<1> QED
  BY <1>4, <1>5, <1>6, <1>7, <1>8 DEF HomingLeg

(* A poll that ends a leg or a wait.                                       *)
LEMMA SequencePause ==
  ASSUME Types, Sequence, Polling, HomingPause(mode) PROVE Sequence'
<1> USE TrackAssumption DEF Types, TrackType, ChipType
<1>1. mode = "stop" /\ ~Moving(mode)
  BY DEF HomingPause, Ready, SeenHalted, SeenMotion, Moving, Turning, ObjectType
<1>2. /\ UNCHANGED <<rig, pos, absPos, dir, target, mode>>
      /\ HomingDir' = HomingDir /\ AtLimit' = AtLimit
      /\ Closed(pos)' = Closed(pos) /\ Aligned' = Aligned
  BY <1>1, PollKeeps DEF HomingPause
<1>3. homingState \in {2, 102, 5, 105, 8, 3, 103, 6, 106, 9}
  BY DEF HomingPause
<1>4. FoundClosed' = FoundClosed /\ At({-1, 0})' = At({-1, 0}) /\ Overrun' = Overrun
  BY <1>2 DEF FoundClosed, At, Overrun, Towards
<1>5. \/ homingState' = -1
      \/ homingState' = homingState + 1 /\ (homingState = 5 => ~Limit(-HomingDir, pos))
      \/ homingState' = homingState /\ homingState # 5
  BY <1>3 DEF HomingPause
<1>6. CASE homingState' = -1
  BY <1>6 DEF Sequence
<1>7. CASE homingState' = homingState + 1 /\ (homingState = 5 => ~Limit(-HomingDir, pos))
  <2>1. CASE homingState \in {5, 105}
    <3>1. FoundEdge
      BY <1>1, <2>1 DEF Sequence
    <3>2. HomingDir # Reverse => -HomingDir = Reverse
      BY DEF HomingDir, Forward, Reverse
    <3>3. homingState = 5 /\ HomingDir # Reverse => ~AtLimit
      BY <1>7, <3>2 DEF Limit, Forward, Reverse, AtLimit
    <3>4. At({-1, 0})
      BY <1>1, <3>1, <3>3 DEF FoundEdge
    <3>5. homingState' \in {6, 106} /\ (homingState' = 106 => homingState = 105)
      BY <1>7, <2>1
    <3> QED
      BY <1>2, <1>4, <3>4, <3>5 DEF Sequence
  <2>2. CASE homingState \in {6, 106}
    <3>1. At({-1, 0}) /\ homingState' \in {7, 107}
          /\ (homingState' = 107 => homingState = 106)
      BY <1>1, <1>7, <2>2 DEF Sequence
    <3> QED
      BY <1>2, <1>4, <3>1 DEF Sequence
  <2>3. CASE homingState \in {8, 9}
    <3>1. Overrun /\ homingState' \in {9, 10}
      BY <1>1, <1>7, <2>3 DEF Sequence
    <3> QED
      BY <1>1, <1>2, <1>4, <3>1 DEF Sequence
  <2>4. CASE homingState \in {2, 3}
    <3>1. (HomingDir = Reverse => FoundClosed) /\ homingState' \in {3, 4}
      BY <1>1, <1>7, <2>4 DEF Sequence
    <3> QED
      BY <1>1, <1>2, <1>4, <3>1 DEF Sequence
  <2>5. CASE homingState \in {102, 103}
    <3>1. HomingDir = Reverse /\ homingState' \in {103, 104}
      BY <1>7, <2>5 DEF Sequence
    <3> QED
      BY <1>2, <3>1 DEF Sequence
  <2> QED
    BY <1>3, <2>1, <2>2, <2>3, <2>4, <2>5
<1>8. CASE homingState' = homingState /\ homingState # 5
  <2>1. FoundEdge' = FoundEdge /\ Return' = Return
    BY <1>2, <1>8 DEF FoundEdge, Return, Towards, At
  <2> QED
    BY <1>2, <1>4, <1>8, <2>1 DEF Sequence
<1> QED
  BY <1>5, <1>6, <1>7, <1>8

(* Every leg of the sequence ends where the next one takes it from.        *)
LEMMA SequenceKept ==
  ASSUME FaultInGap = FALSE, Room, ReverseIsOpen, Types, ~crossed => Sequence,
         [Next]_vars, ~crossed'
  PROVE  Sequence'
<1> USE DEF Abort
<1>a. CASE StartHoming
  BY <1>a DEF StartHoming, Sequence
<1> SUFFICES ASSUME ~StartHoming PROVE Sequence'
  BY <1>a
<1>b. ~crossed /\ Sequence
  BY CrossedStays
<1>1. CASE ExecControl
  <2>1. Polling
    BY <1>1 DEF ExecControl
  <2>2. CASE NotHoming(mode) \/ HomingBroken(mode) \/ HomingDone(mode)
             \/ HomingAborted(mode)
    <3>1. \/ homingState <= 0 /\ homingState' = homingState
          \/ homingState' \in {-1, 0}
      BY <2>2 DEF NotHoming, HomingBroken, HomingDone, HomingAborted
    <3>2. homingState <= 0 => homingState \in {-1, 0}
      BY DEF Types, ObjectType, State
    <3>3. homingState' \in {-1, 0}
      BY <3>1, <3>2
    <3> QED
      BY <3>3 DEF Sequence
  <2> QED
    BY <1>b, <1>1, <2>1, <2>2, SequenceAwaits, SequenceLeg, SequencePause DEF ExecControl
<1>2. CASE HardStop \/ SoftStop \/ MoveTo
  <2>1. homingState' \in {-1, 0, 1, Abort}
    <3>1. CASE MoveTo
      BY <3>1, MoveToDoes, UncrossedMove DEF Types, ObjectType, State
    <3>2. CASE HardStop \/ SoftStop
      BY <3>2 DEF HardStop, SoftStop, Interrupt, Types, ObjectType, State
    <3> QED
      BY <1>2, <3>1, <3>2
  <2> QED
    BY <2>1 DEF Sequence
<1>3. CASE HardHIZ \/ Fault
  <2>1. mode' = "hiz" /\ UNCHANGED <<rig, homingState>>
    BY <1>3 DEF HardHIZ, Fault, Unread, object
  <2> QED
    BY <1>b, <2>1 DEF Sequence, HomingDir
<1>4. CASE Push
  <2>1. mode' = "hiz" /\ UNCHANGED <<rig, homingState>>
    BY <1>4 DEF Push, ChipOnly, object
  <2> QED
    BY <1>b, <2>1 DEF Sequence, HomingDir
<1>5. CASE ClearAlarm \/ UNCHANGED vars
  <2>1. UNCHANGED <<rig, pos, absPos, mode, dir, target, homingState>>
    BY <1>5 DEF ClearAlarm, Unread, vars, chip, object
  <2> QED
    BY <1>b, <2>1 DEF Sequence, HomingDir, FoundClosed, FoundEdge, Overrun, Return, Towards,
                At, Aligned, Closed, AtLimit
<1> QED
  BY <1>b, <1>1, <1>2, <1>3, <1>4, <1>5, SequenceTurn DEF Next, Caller

(* A homed axis that turns stays aligned with its counter.                 *)
LEMMA TrackedTurn ==
  ASSUME Room, Types, OnTrack, Turn PROVE OnTrack'
<1> USE TrackAssumption DEF Types, TrackType, ChipType
<1>1. UNCHANGED <<rig, dir, target>> /\ mode # "stop"
  BY DEF Turn, ChipOnly
<1>2. ASSUME NEW t \in Targets, NEW d \in {Forward, Reverse}, Towards(d, t)
      PROVE  OnTrack'
  <2>1. Fits(t) /\ t \in Int
    BY DEF Room, Fits
  <2>2. /\ Aligned' /\ absPos' \in {absPos, absPos + d}
        /\ \/ mode' = "goto" /\ dir' = d /\ target' = t
              /\ IF d = Forward THEN absPos' < t ELSE absPos' > t
           \/ mode' = "stop"
    BY <1>2, <2>1, TowardsTurn DEF OnTrack
  <2>3. absPos' < t => absPos' <= t
    <3>1. absPos' \in Int
      BY <2>2 DEF Forward, Reverse, Span
    <3> QED
      BY <2>1, <3>1
  <2>4. CASE mode' = "stop"
    BY <2>2, <2>4 DEF OnTrack
  <2>5. CASE mode' # "stop"
    <3>1. Towards(d, t)'
      BY <2>2, <2>3, <2>5 DEF Towards
    <3> QED
      BY <2>2, <3>1 DEF OnTrack
  <2> QED
    BY <2>4, <2>5
<1>3. CASE mode = "stopping"
  <2>1. Low <= pos + dir /\ pos + dir <= High /\ Aligned
    BY <1>3 DEF OnTrack, Towards
  <2>2. NextCell = pos + dir /\ Wrap(absPos + dir) = absPos + dir
    BY <2>1, StepAligned
  <2>3. /\ mode' = "stop"
        /\ \/ pos' = pos /\ absPos' = absPos
           \/ pos' = pos + dir /\ absPos' = absPos + dir
    BY <1>3, <2>2 DEF Turn, Advance
  <2>4. pos \in Int /\ dir \in Int /\ absPos \in Int /\ Origin \in Int
    BY DEF Forward, Reverse, Span
  <2>5. Aligned'
    BY <2>1, <2>3, <2>4 DEF Aligned
  <2> QED
    BY <2>3, <2>5 DEF OnTrack
<1> QED
  BY <1>1, <1>2, <1>3 DEF OnTrack

(* It can be stopped anywhere: there is room for the deceleration.         *)
LEMMA TrackedStops ==
  ASSUME Room, Types, OnTrack, Moving(mode),
         UNCHANGED <<pos, absPos, dir>>, mode' = "stopping"
  PROVE  OnTrack'
<1> USE TrackAssumption DEF Types, TrackType, ChipType
<1>1. mode # "stop"
  BY DEF Moving, Turning
<1>2. ASSUME NEW t \in Targets, NEW d \in {Forward, Reverse}, Towards(d, t)
      PROVE  Low <= pos + dir /\ pos + dir <= High
  <2>1. Low <= Origin + t /\ Origin + t + 2 <= High /\ t \in Int /\ dir = d
    BY <1>2 DEF Room, Fits, Towards
  <2>2. IF d = Forward THEN absPos <= t ELSE absPos > t
    BY <1>2 DEF Towards
  <2>3. absPos \in {pos - Origin, pos - Origin - 1}
    BY DEF OnTrack, Aligned
  <2> QED
    BY <2>1, <2>2, <2>3 DEF Forward, Reverse
<1>3. Low <= pos + dir /\ pos + dir <= High
  BY <1>1, <1>2 DEF OnTrack
<1> QED
  BY <1>3 DEF OnTrack, Aligned

LEMMA TrackedKept ==
  ASSUME FaultInGap = FALSE, Room, Types, Sequence, Tracked, [Next]_vars,
         ~crossed'
  PROVE  Tracked'
<1>0. homed \in BOOLEAN /\ alarm \in BOOLEAN /\ fault \in BOOLEAN
  BY DEF Types, ObjectType
<1> SUFFICES ASSUME homed' PROVE (homingState <= 0 /\ (OnTrack \/ (mode = "hiz" /\ fault)))'
  BY DEF Tracked
<1>1. CASE ExecControl
  <2>1. Polling
    BY <1>1 DEF ExecControl
  <2>2. CASE NotHoming(mode)
    <3>1. homed /\ ~fault /\ homingState <= 0 /\ homingState' = homingState
      BY <2>2 DEF NotHoming, KeepHomed, SeenAlarm
    <3>2. OnTrack
      BY <3>1 DEF Tracked
    <3>3. /\ UNCHANGED <<rig, pos, absPos, dir, target>>
          /\ mode' = mode \/ (Moving(mode) /\ mode' = "stopping")
      BY <2>1, <2>2, PollKeeps DEF NotHoming
    <3>4. OnTrack'
      BY <3>2, <3>3, TrackedStops DEF OnTrack, Towards, Aligned
    <3> QED
      BY <3>1, <3>4
  <2>3. CASE HomingDone(mode)
    <3>1. mode = "stop"
      BY <2>3 DEF HomingDone, Ready, SeenHalted, SeenMotion, Moving, Turning, Types,
                  ObjectType
    <3>2. Aligned
      BY <2>3, <3>1 DEF HomingDone, Sequence, Return
    <3>3. mode' = "stop" /\ UNCHANGED <<pos, absPos>> /\ homingState' = 0
      BY <2>1, <2>3, <3>1, PollKeeps DEF HomingDone, Moving, Turning
    <3> QED
      BY <3>2, <3>3 DEF OnTrack, Aligned
  <2>4. CASE HomingBroken(mode) \/ HomingAwaitsLeg(mode) \/ HomingLeg
             \/ HomingPause(mode) \/ HomingAborted(mode)
    <3>1. homed /\ homingState > 0
      BY <2>4 DEF HomingBroken, HomingAwaitsLeg, HomingLeg, HomingPause,
                  HomingAborted, KeepHomed, Ready, Abort
    <3> QED
      BY <3>1 DEF Tracked, Types, ObjectType, State, Abort
  <2> QED
    BY <1>1, <2>2, <2>3, <2>4 DEF ExecControl
<1>2. CASE HardStop \/ SoftStop
  <2>1. homed /\ homingState <= 0 /\ UNCHANGED <<pos, absPos, dir, target, fault>>
    BY <1>2 DEF HardStop, SoftStop, Unread, Tracked
  <2>2. homingState' = homingState
    BY <1>2, <2>1 DEF HardStop, SoftStop, Interrupt, Types, ObjectType, State, Abort
  <2>3. CASE fault
    BY <1>2, <2>1, <2>2, <2>3 DEF HardStop, SoftStop, Command
  <2>4. CASE ~fault
    <3>1. OnTrack
      BY <2>1, <2>4 DEF Tracked
    <3>2. mode' = "stop" \/ (Moving(mode) /\ mode' = "stopping")
      BY <1>2, <2>4 DEF HardStop, SoftStop, Command, SoftStopped
    <3>3. OnTrack'
      BY <2>1, <3>1, <3>2, TrackedStops DEF OnTrack, Aligned
    <3> QED
      BY <2>1, <2>2, <3>3
  <2> QED
    BY <2>3, <2>4, <1>0
<1>3. CASE MoveTo
  <2>1. homed /\ homingState <= 0 /\ UNCHANGED <<pos, absPos, fault, homingState>>
    <3>1. homed
      BY <1>3, MoveToDoes
    <3> QED
      BY <1>3, <3>1, MoveToDoes DEF Tracked
  <2>2. CASE fault
    BY <1>3, <2>1, <2>2, MoveToDoes DEF Command
  <2>3. CASE ~fault
    <3>1. Aligned
      BY <2>1, <2>3 DEF Tracked, OnTrack
    <3>2. mode' = "goto" /\ target' \in Targets
          /\ dir' = IF absPos > target' THEN Reverse ELSE Forward
      BY <1>3, <2>3, MoveToDoes, UncrossedMove DEF Command, DirectionTo
    <3>3. absPos' \in Int /\ target' \in Int
      BY <2>1, <3>2, TrackAssumption DEF Types, ChipType, Span
    <3>4. Aligned' /\ IF dir' = Forward THEN absPos' <= target' ELSE absPos' > target'
      BY <2>1, <3>1, <3>2, <3>3 DEF Aligned, Forward, Reverse
    <3>5. \E t \in Targets, d \in {Forward, Reverse} :
            /\ mode' = "goto" /\ dir' = d /\ target' = t
            /\ IF d = Forward THEN absPos' <= t ELSE absPos' > t
      BY <3>2, <3>4
    <3> QED
      BY <2>1, <3>4, <3>5 DEF OnTrack, Towards
  <2> QED
    BY <2>2, <2>3, <1>0
<1>4. CASE HardHIZ \/ StartHoming
  BY <1>4 DEF HardHIZ, StartHoming
<1>5. CASE Fault
  BY <1>5 DEF Fault, object, Tracked
<1>6. CASE Push
  <2>1. homed /\ mode = "hiz" /\ UNCHANGED <<mode, fault, homingState>>
    BY <1>6 DEF Push, ChipOnly, object
  <2>2. fault /\ homingState <= 0
    BY <2>1 DEF Tracked, OnTrack, Towards
  <2> QED
    BY <2>1, <2>2
<1>7. CASE ClearAlarm \/ UNCHANGED vars
  <2>1. UNCHANGED <<pos, absPos, mode, dir, target, fault, homed, homingState>>
    BY <1>7 DEF ClearAlarm, Unread, vars, chip, object
  <2> QED
    BY <2>1 DEF Tracked, OnTrack, Towards, Aligned
<1>8. CASE Turn
  <2>1. homed /\ mode # "hiz" /\ homingState' = homingState
    BY <1>8 DEF Turn, ChipOnly, object
  <2>2. OnTrack /\ homingState <= 0
    BY <2>1 DEF Tracked
  <2> QED
    BY <1>8, <2>1, <2>2, TrackedTurn
<1> QED
  BY <1>1, <1>2, <1>3, <1>4, <1>5, <1>6, <1>7, <1>8 DEF Next, Caller

(* The sequence of legs and the track of a homed axis, for every step.     *)
HomingKept == Types /\ UncrossedTracked

LEMMA HomingInductive ==
  ASSUME FaultInGap = FALSE, Room, ReverseIsOpen
  PROVE  Spec => []HomingKept
<1>1. Init => TrackType /\ ChipType /\ UncrossedTracked
  <2> SUFFICES ASSUME Init PROVE TrackType /\ ChipType /\ UncrossedTracked
    OBVIOUS
  <2>1. 0 \in -(Span \div 2)..(Span \div 2 - 1)
    BY TrackAssumption DEF Span
  <2>2. TrackType /\ ChipType
    BY <2>1 DEF Init, TrackType, ChipType
  <2>3. Sequence /\ Tracked
    BY DEF Init, Sequence, Tracked
  <2> QED
    BY <2>2, <2>3 DEF UncrossedTracked
<1>2. ObjectType /\ TrackType /\ ChipType /\ UncrossedTracked /\ [Next]_vars
      => (TrackType /\ ChipType /\ UncrossedTracked)'
  <2> SUFFICES ASSUME Types, UncrossedTracked, [Next]_vars
               PROVE  (TrackType /\ ChipType /\ UncrossedTracked)'
    BY DEF Types
  <2>1. (TrackType /\ ChipType)'
    BY TrackKept, ChipKept DEF Types
  <2>2. ASSUME ~crossed' PROVE Sequence' /\ Tracked'
    <3>1. Sequence'
      BY <2>2, SequenceKept DEF UncrossedTracked
    <3>2. CASE StartHoming
      <4>1. ~homed'
        BY <3>2 DEF StartHoming
      <4> QED
        BY <3>1, <4>1 DEF Tracked
    <3>3. CASE ~StartHoming
      <4>1. Sequence /\ Tracked
        BY <2>2, <3>3, CrossedStays DEF UncrossedTracked
      <4> QED
        BY <2>2, <3>1, <4>1, TrackedKept
    <3> QED
      BY <3>2, <3>3
  <2> QED
    BY <2>1, <2>2 DEF UncrossedTracked
<1>3. ObjectType /\ TrackType /\ ChipType /\ UncrossedTracked => HomingKept
  BY DEF HomingKept, Types
<1> QED
  BY TypeInductive, <1>1, <1>2, <1>3, PTL DEF Spec

(* As long as an axis counts as homed its ABS_POS tells where it is,       *)
(* whatever stops, faults, pushes and moves come (setAbsPos by the chip at *)
(* the switch's edge, execHoming, startHoming, hardHIZ, execControl),      *)
(* unless a moveTo came into its sequence or was sent away from its target *)
(* (Robot::startMotion).                                                   *)
THEOREM HomedIsAligned ==
  ASSUME FaultInGap = FALSE, Room, ReverseIsOpen
  PROVE  Spec => []HomedAligned
<1>1. HomingKept => HomedAligned
  BY DEF HomingKept, UncrossedTracked, Tracked, OnTrack, Aligned, HomedAligned
<1> QED
  BY HomingInductive, <1>1, PTL

(* The sequence of execHoming ends at rest on the switch's edge, with      *)
(* ABS_POS zero, from wherever it was started and in either direction,     *)
(* unless a moveTo came into it.                                           *)
THEOREM EndsAtOrigin ==
  ASSUME FaultInGap = FALSE, Room, ReverseIsOpen
  PROVE  Spec => CompletesAtOrigin
<1>1. HomingKept /\ [Next]_vars =>
        [~homed /\ homed' /\ ~crossed =>
           mode = "stop" /\ absPos = 0 /\ pos \in {Origin, Origin + 1}]_vars
  <2> SUFFICES ASSUME HomingKept, [Next]_vars, ~homed, homed', ~crossed
               PROVE  mode = "stop" /\ absPos = 0 /\ pos \in {Origin, Origin + 1}
    OBVIOUS
  <2>1. HomingDone(mode)
    <3>1. ~KeepHomed
      BY DEF KeepHomed
    <3>2. homed' # homed
      OBVIOUS
    <3>3. CASE ExecControl
      BY <3>1, <3>3 DEF ExecControl, NotHoming, HomingBroken, HomingAwaitsLeg,
                        HomingLeg, HomingPause, HomingAborted
    <3>4. CASE Turn \/ Fault \/ Push \/ Caller \/ UNCHANGED vars
      BY <3>2, <3>4 DEF Turn, ChipOnly, Fault, Push, Caller, HardStop, SoftStop,
                        HardHIZ, ClearAlarm, StartHoming, MoveTo, vars, object
    <3> QED
      BY <3>3, <3>4 DEF Next
  <2>2. mode = "stop"
    BY <2>1 DEF HomingDone, Ready, SeenHalted, SeenMotion, Moving, Turning, HomingKept,
                Types, ObjectType
  <2>3. absPos = 0 /\ Aligned
    BY <2>1, <2>2 DEF HomingDone, HomingKept, UncrossedTracked, Sequence, Return,
                      Towards
  <2>4. pos \in Int /\ Origin \in Int
    BY TrackAssumption DEF HomingKept, Types, TrackType
  <2> QED
    BY <2>2, <2>3, <2>4 DEF Aligned
<1> QED
  BY HomingInductive, <1>1, PTL DEF Spec, CompletesAtOrigin

-----------------------------------------------------------------------------
(* The contract, one lemma per kind of step.                               *)

Mapped == AsAxis' = AsAxis \/ Contract!Next

LEMMA MovingMode ==
  ASSUME ObjectType
  PROVE  /\ AxisMode = "move" <=> Moving(mode)
         /\ ~Moving(mode) => AxisMode = mode
         /\ AxisMode \in {"hiz", "stop", "move"}
BY DEF AxisMode, Moving, Turning, ObjectType

LEMMA PhaseActive ==
  ASSUME ObjectType
  PROVE  /\ Phase \in {"armed", "run", "abort"} <=> homingState > 0
         /\ Phase = "armed" <=> homingState = 1
         /\ Phase = "abort" <=> homingState = Abort
         /\ Phase = "failed" <=> homingState = -1
         /\ Phase = "none" <=> homingState = 0
         /\ Phase \in {"none", "armed", "run", "abort", "failed"}
<1>1. homingState \in State
  BY DEF ObjectType
<1>2. CASE homingState \in {-1, 0, 1, Abort}
  BY <1>2 DEF Phase, Abort
<1>3. CASE homingState \notin {-1, 0, 1, Abort}
  <2>1. homingState > 0
    BY <1>1, <1>3 DEF State, Abort
  <2> QED
    BY <1>3, <2>1 DEF Phase, Abort
<1> QED
  BY <1>2, <1>3

LEMMA Untouched ==
  /\ UNCHANGED mode => UNCHANGED AxisMode
  /\ UNCHANGED homingState => UNCHANGED Phase
BY DEF AxisMode, Phase, Moving

(* The mapped axis by its fields, before a step and after it.              *)
LEMMA AxisBefore ==
  ASSUME ObjectType
  PROVE  /\ AsAxis \in Contract!AxisState
         /\ AsAxis.mode = AxisMode /\ AsAxis.homing = Phase
         /\ AsAxis.fault <=> fault
         /\ AsAxis.halted <=> halted
         /\ AsAxis.inMotion <=> inMotion
         /\ AsAxis.alarm <=> alarm
         /\ AsAxis.homed <=> homed
BY MovingMode, PhaseActive
DEF AsAxis, ObjectType, Contract!AxisState, Contract!Mode, Contract!HomingPhase

LEMMA AxisAfter ==
  ASSUME ObjectType'
  PROVE  /\ AsAxis' \in Contract!AxisState
         /\ AsAxis'.mode = AxisMode' /\ AsAxis'.homing = Phase'
         /\ AsAxis'.fault <=> fault'
         /\ AsAxis'.halted <=> halted'
         /\ AsAxis'.inMotion <=> inMotion'
         /\ AsAxis'.alarm <=> alarm'
         /\ AsAxis'.homed <=> homed'
<1>1. AxisMode' \in Contract!Mode
  BY DEF AxisMode, Moving, Turning, ObjectType, Contract!Mode
<1>2. Phase' \in Contract!HomingPhase
  BY DEF Phase, ObjectType, State, Contract!HomingPhase
<1> QED
  BY <1>1, <1>2 DEF AsAxis, ObjectType, Contract!AxisState

LEMMA ChipMapped == ObjectType /\ ObjectType' /\ (Turn \/ Fault \/ Push) => Mapped
<1> SUFFICES ASSUME ObjectType, ObjectType', Turn \/ Fault \/ Push PROVE Mapped
  OBVIOUS
<1> USE AxisBefore, AxisAfter
<1>1. UNCHANGED <<halted, inMotion, alarm, homed, homingState>>
  BY DEF Turn, Fault, Push, ChipOnly, object
<1>2. Phase' = Phase
  BY <1>1, Untouched
<1>3. CASE Turn
  <2>1. fault' = fault /\ AxisMode = "move" /\ AxisMode' \in {"stop", "move"}
    BY <1>3 DEF Turn, ChipOnly, AxisMode, Moving, Turning
  <2>2. CASE AxisMode' = "stop"
    <3>1. AsAxis' = Contract!MotionEnds(AsAxis)
      BY <1>1, <1>2, <2>1, <2>2 DEF Contract!AxisState, Contract!MotionEnds
    <3> QED
      BY <2>1, <3>1 DEF Mapped, Contract!Next, Contract!Chip
  <2>3. CASE AxisMode' = "move"
    BY <1>1, <1>2, <2>1, <2>3 DEF Mapped, AsAxis
  <2> QED
    BY <2>1, <2>2, <2>3
<1>4. CASE Fault
  <2>1. AxisMode' = "hiz" /\ fault' = TRUE /\ AxisMode # "hiz"
    BY <1>4 DEF Fault, AxisMode, Moving, Turning
  <2>2. AsAxis' = Contract!Faulted(AsAxis)
    BY <1>1, <1>2, <2>1 DEF Contract!AxisState, Contract!Faulted
  <2> QED
    BY <2>1, <2>2 DEF Mapped, Contract!Next, Contract!Chip
<1>5. CASE Push
  BY <1>1, <1>2, <1>5, Untouched DEF Push, ChipOnly, Mapped, AsAxis
<1> QED
  BY <1>3, <1>4, <1>5

LEMMA CommandMode ==
  ASSUME ObjectType, NEW m, Command(m)
  PROVE  AxisMode' = IF fault THEN "hiz" ELSE IF Moving(m) THEN "move" ELSE m
BY DEF Command, AxisMode, Moving, Turning

LEMMA InterruptPhase ==
  ASSUME ObjectType, Interrupt
  PROVE  Phase' = IF homingState > 0 THEN "abort" ELSE Phase
<1>1. CASE homingState > 0
  BY <1>1 DEF Interrupt, Phase, Abort
<1>2. CASE ~(homingState > 0)
  BY <1>2 DEF Interrupt, Phase
<1> QED
  BY <1>1, <1>2

(* What the chip does while BUSY is high it does for a sequence in its     *)
(* legs: the contract lets a positioning command in there.                 *)
Searches == mode \in {"run", "until"} => Phase = "run" /\ ~alarm /\ ~fault

LEMMA SearchesKept ==
  ASSUME FaultInGap = FALSE, ObjectType, Searches, [Next]_vars
  PROVE  Searches'
<1> SUFFICES ASSUME mode' \in {"run", "until"} PROVE (Phase = "run" /\ ~alarm /\ ~fault)'
  BY DEF Searches
<1>1. CASE Turn \/ UNCHANGED vars
  <2>1. mode \in {"run", "until"} /\ UNCHANGED <<alarm, fault, homingState>>
    BY <1>1 DEF Turn, ChipOnly, object, vars, chip
  <2> QED
    BY <2>1, Untouched DEF Searches
<1>2. CASE Fault \/ Push
  BY <1>2 DEF Fault, Push
<1>3. CASE Caller
  <2>1. CASE HardStop \/ SoftStop \/ HardHIZ \/ MoveTo
    BY <2>1 DEF HardStop, SoftStop, HardHIZ, MoveTo, Command, SoftStopped
  <2>2. CASE ClearAlarm
    <3>1. mode \in {"run", "until"} /\ UNCHANGED <<fault, homingState>> /\ ~alarm'
      BY <2>2 DEF ClearAlarm, Unread
    <3> QED
      BY <3>1, Untouched DEF Searches
  <2>3. CASE StartHoming
    <3>1. mode \in {"run", "until"} /\ ~(homingState > 0)
      BY <2>3 DEF StartHoming, Command, SoftStopped, ObjectType, State, Abort
    <3> QED
      BY <3>1, PhaseActive DEF Searches
  <2> QED
    BY <1>3, <2>1, <2>2, <2>3 DEF Caller
<1>4. CASE ExecControl
  <2>1. Polling
    BY <1>4 DEF ExecControl
  <2>2. CASE HomingLeg
    <3>1. homingState' \in {2, 102, 105, 5, 8, 11} /\ ~SeenAlarm
      BY <2>2 DEF HomingLeg, Ready
    <3>2. Phase' = "run"
      BY <3>1 DEF Phase, Abort
    <3> QED
      BY <2>1, <3>1, <3>2 DEF Polling
  <2>3. CASE ~HomingLeg
    <3>1. NoCommand(mode)
      BY <1>4, <2>3 DEF ExecControl, NotHoming, HomingBroken, HomingAwaitsLeg,
                        HomingPause, HomingDone, HomingAborted
    <3>2. mode \in {"run", "until"}
      BY <3>1 DEF NoCommand, AfterLimitCheck, SoftStopped
    <3>3. Phase = "run" /\ ~SeenAlarm /\ ~SeenHalted /\ SeenMotion
      BY <3>2 DEF Searches, SeenAlarm, SeenHalted, SeenMotion, Moving, Turning
    <3>4. homingState > 0
      BY <3>3, PhaseActive
    <3>5. HomingAwaitsLeg(mode)
      <4>1. ~(homingState <= 0)
        BY <3>4 DEF ObjectType, State, Abort
      <4> QED
        BY <1>4, <2>3, <3>3, <4>1 DEF ExecControl, NotHoming, HomingBroken,
           HomingPause, HomingDone, HomingAborted, Ready
    <3>6. homingState' = homingState
      BY <3>5 DEF HomingAwaitsLeg
    <3> QED
      BY <2>1, <3>3, <3>6, Untouched DEF Polling
  <2> QED
    BY <2>2, <2>3
<1> QED
  BY <1>1, <1>2, <1>3, <1>4 DEF Next

LEMMA CallerMapped == ObjectType /\ ObjectType' /\ Searches /\ Caller => Mapped
<1> SUFFICES ASSUME ObjectType, ObjectType', Searches, Caller PROVE Mapped
  OBVIOUS
<1> USE AxisBefore, AxisAfter
<1>1. UNCHANGED <<fault, halted, inMotion>>
  BY DEF Caller, HardStop, SoftStop, HardHIZ, ClearAlarm, StartHoming, MoveTo,
         Unread
<1>2. Contract!HomingActive(AsAxis) <=> homingState > 0
  BY PhaseActive DEF Contract!HomingActive
<1>3. CASE HardStop
  <2>1. AxisMode' = IF fault THEN "hiz" ELSE "stop"
    BY <1>3, CommandMode DEF HardStop, Moving, Turning
  <2>2. Phase' = IF homingState > 0 THEN "abort" ELSE Phase
    BY <1>3, InterruptPhase DEF HardStop
  <2>3. UNCHANGED <<alarm, homed>>
    BY <1>3 DEF HardStop
  <2>4. AsAxis' = Contract!HardStop(AsAxis)
    BY <1>1, <1>2, <2>1, <2>2, <2>3
    DEF Contract!AxisState, Contract!HardStop, Contract!Energise,
        Contract!HomingInterrupted
  <2> QED
    BY <2>4 DEF Mapped, Contract!Next, Contract!Called
<1>4. CASE SoftStop
  <2>1. AxisMode' = IF fault THEN "hiz" ELSE IF AxisMode = "move" THEN "move"
                    ELSE "stop"
    BY <1>4, CommandMode, MovingMode DEF SoftStop, SoftStopped, Moving, Turning
  <2>2. Phase' = IF homingState > 0 THEN "abort" ELSE Phase
    BY <1>4, InterruptPhase DEF SoftStop
  <2>3. UNCHANGED <<alarm, homed>>
    BY <1>4 DEF SoftStop
  <2>4. AsAxis' = Contract!SoftStop(AsAxis)
    BY <1>1, <1>2, <2>1, <2>2, <2>3, ZenonT(40)
    DEF Contract!AxisState, Contract!SoftStop, Contract!Energise,
        Contract!HomingInterrupted
  <2> QED
    BY <2>4 DEF Mapped, Contract!Next, Contract!Called
<1>5. CASE HardHIZ
  <2>1. AxisMode' = "hiz" /\ homed' = FALSE /\ UNCHANGED <<alarm, Phase>>
    BY <1>5, Untouched DEF HardHIZ, AxisMode, Moving, Turning
  <2>2. AsAxis' = Contract!HardHIZ(AsAxis)
    BY <1>1, <2>1 DEF Contract!AxisState, Contract!HardHIZ
  <2> QED
    BY <2>2 DEF Mapped, Contract!Next, Contract!Called
<1>6. CASE ClearAlarm
  <2>1. alarm' = FALSE /\ UNCHANGED <<AxisMode, homed, Phase>>
    BY <1>6, Untouched DEF ClearAlarm
  <2>2. AsAxis' = Contract!ClearAlarm(AsAxis)
    BY <1>1, <2>1 DEF Contract!AxisState, Contract!ClearAlarm
  <2> QED
    BY <2>2 DEF Mapped, Contract!Next, Contract!Called
<1>7. CASE StartHoming
  <2>1. Phase' = "armed"
    BY <1>7 DEF StartHoming, Phase, Abort
  <2>2. ~Contract!HomingActive(AsAxis)
    BY <1>2, <1>7 DEF StartHoming, ObjectType, State
  <2>3. AxisMode' = IF ~halted THEN AxisMode
                    ELSE IF fault THEN "hiz"
                    ELSE IF AxisMode = "move" THEN "move" ELSE "stop"
    BY <1>7, CommandMode, MovingMode, Untouched
    DEF StartHoming, SoftStopped, Moving, Turning
  <2>4. homed' = FALSE /\ UNCHANGED alarm
    BY <1>7 DEF StartHoming
  <2>5. AsAxis' = Contract!StartHoming(AsAxis)
    BY <1>1, <2>1, <2>2, <2>3, <2>4, ZenonT(40)
    DEF Contract!AxisState, Contract!StartHoming, Contract!SoftStop,
        Contract!Energise
  <2> QED
    BY <2>5 DEF Mapped, Contract!Next, Contract!Called
<1>8. CASE MoveTo
  <2>1. AxisMode' = IF fault THEN "hiz" ELSE "move"
    BY <1>8, CommandMode DEF MoveTo, Moving, Turning
  <2>2. UNCHANGED <<alarm, homed, Phase>>
    BY <1>8, Untouched DEF MoveTo
  <2>3. AsAxis' = Contract!MoveTo(AsAxis)
    BY <1>1, <2>1, <2>2 DEF Contract!AxisState, Contract!MoveTo,
       Contract!Energise
  <2>4. Contract!MayAccept(AsAxis)
    <3>1. mode \in {"hiz", "stop", "run", "until"}
      BY <1>8 DEF MoveTo, Busy, ObjectType, Turning
    <3>2. CASE mode \in {"hiz", "stop"}
      BY <3>2, MovingMode DEF Moving, Turning, Contract!MayAccept
    <3>3. CASE mode \in {"run", "until"}
      BY <3>3 DEF Searches, Contract!MayAccept
    <3> QED
      BY <3>1, <3>2, <3>3
  <2> QED
    BY <2>3, <2>4 DEF Mapped, Contract!Next, Contract!Called
<1> QED
  BY <1>3, <1>4, <1>5, <1>6, <1>7, <1>8 DEF Caller

(* What Refresh makes of the mapped axis, by its fields.                   *)
LEMMA Refreshed ==
  ASSUME ObjectType
  PROVE  LET r == Contract!Refresh(AsAxis) IN
         /\ r \in Contract!AxisState
         /\ r.mode = AxisMode /\ r.homing = Phase /\ r.fault = FALSE
         /\ r.halted <=> AxisMode = "hiz"
         /\ r.inMotion <=> AxisMode = "move"
         /\ r.alarm <=> SeenAlarm
         /\ r.homed <=> homed /\ ~SeenAlarm
BY AxisBefore DEF Contract!Refresh, Contract!AxisState, SeenAlarm

(* The members after a poll.                                               *)
LEMMA PolledMembers ==
  ASSUME ObjectType, Polling
  PROVE  /\ fault' <=> FALSE
         /\ halted' <=> AxisMode = "hiz"
         /\ inMotion' <=> AxisMode = "move"
         /\ alarm' <=> SeenAlarm
<1>1. (halted' <=> mode = "hiz") /\ (inMotion' <=> Moving(mode))
  BY DEF Polling, SeenHalted, SeenMotion
<1>2. AxisMode = "hiz" <=> mode = "hiz"
  BY MovingMode DEF Moving, Turning
<1>3. (fault' <=> FALSE) /\ (alarm' <=> SeenAlarm)
  BY DEF Polling
<1> QED
  BY <1>1, <1>2, <1>3, MovingMode

(* A poll that starts no leg leaves a moving axis moving, if decelerating. *)
LEMMA NoCommandMode ==
  ASSUME ObjectType, NoCommand(mode)
  PROVE  AxisMode' = AxisMode
<1>1. mode' = mode \/ (Moving(mode) /\ mode' = "stopping")
  BY DEF NoCommand, AfterLimitCheck, SeenMotion, SoftStopped
<1> QED
  BY <1>1 DEF AxisMode, Moving, Turning

LEMMA ExecControlMapped ==
  ASSUME FaultInGap = FALSE, ObjectType, ObjectType', ExecControl
  PROVE  Mapped
<1> DEFINE r == Contract!Refresh(AsAxis)
<1>a. /\ Polling
      /\ \/ NotHoming(mode) \/ HomingBroken(mode) \/ HomingAwaitsLeg(mode)
         \/ HomingLeg \/ HomingPause(mode) \/ HomingDone(mode)
         \/ HomingAborted(mode)
  BY DEF ExecControl
<1> SUFFICES AsAxis' \in Contract!ExecControl(AsAxis)
  BY DEF Mapped, Contract!Next, Contract!Polled
<1>b. Contract!HomingActive(AsAxis) <=> homingState > 0
  BY AxisBefore, PhaseActive DEF Contract!HomingActive
<1>c. ~(homingState > 0) => Contract!ExecControl(AsAxis) = {r}
  BY <1>b DEF Contract!ExecControl
<1>d. homingState > 0 => Contract!ExecControl(AsAxis) = Contract!HomingCall(r)
  BY <1>b DEF Contract!ExecControl
<1>e. Ready => /\ homingState > 0 /\ ~SeenAlarm /\ AxisMode = "stop"
  BY MovingMode DEF Ready, SeenHalted, SeenMotion, Moving, Turning
<1>f. /\ r \in Contract!AxisState
      /\ r.mode = AxisMode /\ r.homing = Phase /\ r.fault = FALSE
      /\ r.halted <=> AxisMode = "hiz"
      /\ r.inMotion <=> AxisMode = "move"
      /\ r.alarm <=> SeenAlarm
      /\ r.homed <=> homed /\ ~SeenAlarm
  BY Refreshed
<1>g. /\ fault' <=> FALSE
      /\ halted' <=> AxisMode = "hiz"
      /\ inMotion' <=> AxisMode = "move"
      /\ alarm' <=> SeenAlarm
  BY <1>a, PolledMembers
<1>h. KeepHomed => (homed' <=> homed /\ ~SeenAlarm)
  BY DEF KeepHomed, ObjectType
<1> HIDE DEF r
<1>1. CASE NotHoming(mode)
  <2>1. AxisMode' = AxisMode /\ Phase' = Phase /\ KeepHomed
    BY <1>1, NoCommandMode, Untouched DEF NotHoming
  <2>2. AsAxis' = r
    BY <2>1, <1>f, <1>g, <1>h, AxisAfter DEF Contract!AxisState
  <2>3. ~(homingState > 0)
    BY <1>1 DEF NotHoming, ObjectType, State, Abort
  <2> QED
    BY <2>2, <2>3, <1>c
<1>2. CASE HomingBroken(mode)
  <2>1. AxisMode' = AxisMode /\ Phase' = "failed" /\ KeepHomed
    BY <1>2, NoCommandMode DEF HomingBroken, Phase, Abort
  <2>2. AsAxis' = [r EXCEPT !.homing = "failed"]
    BY <2>1, <1>f, <1>g, <1>h, AxisAfter DEF Contract!AxisState
  <2>3. r.alarm \/ r.halted
    BY <1>2, <1>f, MovingMode DEF HomingBroken, SeenHalted, Moving, Turning
  <2> QED
    BY <2>2, <2>3, <1>2, <1>d DEF Contract!HomingCall, HomingBroken
<1>3. CASE HomingAwaitsLeg(mode)
  <2>1. AxisMode' = AxisMode /\ Phase' = Phase /\ KeepHomed
    BY <1>3, NoCommandMode, Untouched DEF HomingAwaitsLeg
  <2>2. AsAxis' = r
    BY <2>1, <1>f, <1>g, <1>h, AxisAfter DEF Contract!AxisState
  <2>3. ~r.alarm /\ ~r.halted /\ r.inMotion
    BY <1>3, <1>f, MovingMode
    DEF HomingAwaitsLeg, SeenHalted, SeenMotion, Moving, Turning
  <2> QED
    BY <2>2, <2>3, <1>3, <1>d DEF Contract!HomingCall, HomingAwaitsLeg
<1>4. CASE HomingLeg
  <2>0. Ready /\ KeepHomed
    BY <1>4 DEF HomingLeg
  <2>1. ~r.alarm /\ ~r.halted /\ ~r.inMotion
    BY <2>0, <1>e, <1>f
  <2>2. mode' \in {"run", "release", "until", "goto"}
    BY <1>4 DEF HomingLeg, Leg, Run, GoUntil, ReleaseSW, RelativeMove, GoHome
  <2>3. AxisMode' = "move"
    BY <2>2 DEF AxisMode, Moving, Turning
  <2>4. homingState \in {1, 104, 4, 7, 107, 10} /\ homingState' \in {2, 102, 105, 5, 8, 11}
    BY <1>4 DEF HomingLeg
  <2>5. Phase' = "run"
    BY <2>4 DEF Phase, Abort
  <2>6. Phase \in {"armed", "run"}
    BY <2>4 DEF Phase, Abort
  <2>7. CASE Phase = "armed"
    <3>1. AsAxis' = [r EXCEPT !.mode = "move", !.homing = "run"]
      BY <2>0, <2>3, <2>5, <1>f, <1>g, <1>h, AxisAfter DEF Contract!AxisState
    <3> QED
      BY <3>1, <2>0, <2>1, <2>7, <1>d, <1>e, <1>f DEF Contract!HomingCall
  <2>8. CASE Phase = "run"
    <3>1. AsAxis' = [r EXCEPT !.mode = "move"]
      BY <2>0, <2>3, <2>5, <2>8, <1>f, <1>g, <1>h, AxisAfter
      DEF Contract!AxisState
    <3> QED
      BY <3>1, <2>0, <2>1, <2>8, <1>d, <1>e, <1>f DEF Contract!HomingCall
  <2> QED
    BY <2>6, <2>7, <2>8
<1>5. CASE HomingPause(mode)
  <2>0. Ready /\ KeepHomed /\ AxisMode' = AxisMode
    BY <1>5, NoCommandMode DEF HomingPause
  <2>1. ~r.alarm /\ ~r.halted /\ ~r.inMotion
    BY <2>0, <1>e, <1>f
  <2>2. homingState \in {2, 102, 5, 105, 8, 3, 103, 6, 106, 9}
    BY <1>5 DEF HomingPause
  <2>3. Phase = "run"
    BY <2>2 DEF Phase, Abort
  <2>4. homingState' \in {-1, homingState, homingState + 1}
    BY <1>5 DEF HomingPause
  <2>5. CASE homingState' = -1
    <3>1. Phase' = "failed"
      BY <2>5 DEF Phase, Abort
    <3>2. AsAxis' = [r EXCEPT !.homing = "failed"]
      BY <2>0, <3>1, <1>f, <1>g, <1>h, AxisAfter DEF Contract!AxisState
    <3> QED
      BY <3>2, <2>0, <2>1, <2>3, <1>d, <1>e, <1>f DEF Contract!HomingCall
  <2>6. CASE homingState' \in {homingState, homingState + 1}
    <3>1. Phase' = "run"
      BY <2>2, <2>6 DEF Phase, Abort
    <3>2. AsAxis' = r
      BY <2>0, <2>3, <3>1, <1>f, <1>g, <1>h, AxisAfter DEF Contract!AxisState
    <3> QED
      BY <3>2, <2>0, <2>1, <2>3, <1>d, <1>e, <1>f DEF Contract!HomingCall
  <2> QED
    BY <2>4, <2>5, <2>6
<1>6. CASE HomingDone(mode)
  <2>0. Ready /\ AxisMode' = AxisMode
    BY <1>6, NoCommandMode DEF HomingDone
  <2>1. ~r.alarm /\ ~r.halted /\ ~r.inMotion
    BY <2>0, <1>e, <1>f
  <2>2. Phase = "run" /\ Phase' = "none" /\ homed' = TRUE
    BY <1>6 DEF HomingDone, Phase, Abort
  <2>3. AsAxis' = [r EXCEPT !.homing = "none", !.homed = TRUE]
    BY <2>0, <2>2, <1>f, <1>g, AxisAfter DEF Contract!AxisState
  <2> QED
    BY <2>3, <2>0, <2>1, <2>2, <1>d, <1>e, <1>f DEF Contract!HomingCall
<1>7. CASE HomingAborted(mode)
  <2>0. Ready /\ KeepHomed /\ AxisMode' = AxisMode
    BY <1>7, NoCommandMode DEF HomingAborted
  <2>1. ~r.alarm /\ ~r.halted /\ ~r.inMotion
    BY <2>0, <1>e, <1>f
  <2>2. Phase = "abort" /\ Phase' = "failed"
    BY <1>7 DEF HomingAborted, Phase, Abort
  <2>3. AsAxis' = [r EXCEPT !.homing = "failed"]
    BY <2>0, <2>2, <1>f, <1>g, <1>h, AxisAfter DEF Contract!AxisState
  <2> QED
    BY <2>3, <2>0, <2>1, <2>2, <1>d, <1>e, <1>f DEF Contract!HomingCall
<1> QED
  BY <1>a, <1>1, <1>2, <1>3, <1>4, <1>5, <1>6, <1>7

(* Unless a fault strikes between the two STATUS reads, every step of an   *)
(* L6470 object and its chip is one that module Axis allows: what the      *)
(* Robot module is built from is what L6470.cpp does.                      *)
THEOREM ImplementsContract ==
  ASSUME FaultInGap = FALSE
  PROVE  Spec => KeepsContract
<1>1. Init => AsAxis = Contract!PoweredUp /\ Searches
  <2> SUFFICES ASSUME Init PROVE AsAxis = Contract!PoweredUp /\ Searches
    OBVIOUS
  <2>1. AxisMode = "hiz"
    BY DEF Init, AxisMode, Moving, Turning
  <2>2. Phase = "none"
    BY DEF Init, Phase, Abort
  <2>3. Searches
    BY DEF Init, Searches
  <2> QED
    BY <2>1, <2>2, <2>3 DEF Init, AsAxis, Contract!PoweredUp
<1>2. ObjectType /\ Searches /\ [Next]_vars => Searches'
  BY SearchesKept
<1>3. ObjectType /\ ObjectType' /\ Searches /\ [Next]_vars => [Contract!Next]_AsAxis
  <2> SUFFICES ASSUME ObjectType, ObjectType', Searches, [Next]_vars PROVE Mapped
    BY DEF Mapped
  <2>1. CASE UNCHANGED vars
    BY <2>1 DEF Mapped, AsAxis, AxisMode, Phase, Moving, vars, chip, object
  <2>2. CASE Next
    BY <2>2, ChipMapped, CallerMapped, ExecControlMapped DEF Next
  <2> QED
    BY <2>1, <2>2
<1> QED
  BY <1>1, <1>2, <1>3, TypeInductive, PTL
  DEF Spec, KeepsContract, Contract!Spec, Contract!Init

-----------------------------------------------------------------------------
(* What the contract promises, the sequence and its chip keep.             *)

Facts == INSTANCE Axis_proofs

(* The operators of Axis are the same through either instance.             *)
LEMMA SameAxis ==
  /\ Contract!AxisState = Facts!AxisState
  /\ Contract!PoweredUp = Facts!PoweredUp
  /\ \A a : /\ Contract!HardStop(a) = Facts!HardStop(a)
            /\ Contract!SoftStop(a) = Facts!SoftStop(a)
            /\ Contract!HardHIZ(a) = Facts!HardHIZ(a)
            /\ Contract!ClearAlarm(a) = Facts!ClearAlarm(a)
            /\ Contract!StartHoming(a) = Facts!StartHoming(a)
            /\ Contract!MoveTo(a) = Facts!MoveTo(a)
            /\ Contract!MotionEnds(a) = Facts!MotionEnds(a)
            /\ Contract!Faulted(a) = Facts!Faulted(a)
            /\ Contract!ExecControl(a) = Facts!ExecControl(a)
BY DEF Contract!AxisState, Contract!PoweredUp, Contract!HardStop, Contract!SoftStop,
       Contract!HardHIZ, Contract!ClearAlarm, Contract!StartHoming, Contract!MoveTo,
       Contract!MotionEnds, Contract!Faulted, Contract!ExecControl, Contract!HomingCall,
       Contract!Refresh, Contract!Energise, Contract!HomingInterrupted,
       Contract!HomingActive, Contract!Mode, Contract!HomingPhase,
       Facts!AxisState, Facts!PoweredUp, Facts!HardStop, Facts!SoftStop,
       Facts!HardHIZ, Facts!ClearAlarm, Facts!StartHoming, Facts!MoveTo,
       Facts!MotionEnds, Facts!Faulted, Facts!ExecControl, Facts!HomingCall,
       Facts!Refresh, Facts!Energise, Facts!HomingInterrupted,
       Facts!HomingActive, Facts!Mode, Facts!HomingPhase

(* Whatever a caller asks of an axis that keeps the contract and whatever  *)
(* its chip does, Sound stays true of it.                                  *)
LEMMA ContractSound == Contract!Spec => []Facts!Sound(AsAxis)
<1>1. Contract!Init => Facts!Sound(AsAxis)
  BY SameAxis
  DEF Contract!Init, Facts!PoweredUp, Facts!Sound, Facts!Held, Facts!FaultIsOff,
      Facts!HomingActive, Facts!AxisState, Facts!Mode, Facts!HomingPhase
<1>2. Facts!Sound(AsAxis) /\ [Contract!Next]_AsAxis => Facts!Sound(AsAxis)'
  <2> SUFFICES ASSUME Facts!Sound(AsAxis), [Contract!Next]_AsAxis
               PROVE  Facts!Sound(AsAxis')
    BY DEF Facts!Sound, Facts!Held, Facts!FaultIsOff, Facts!HomingActive
  <2>0. AsAxis \in Facts!AxisState
    BY DEF Facts!Sound
  <2> DEFINE a == AsAxis
             b == AsAxis'
  <2>a. a \in Facts!AxisState /\ Facts!Sound(a)
    BY <2>0
  <2>1. CASE Contract!Called
    <3>1. b \in {Facts!HardStop(a), Facts!SoftStop(a), Facts!HardHIZ(a),
                 Facts!ClearAlarm(a), Facts!StartHoming(a), Facts!MoveTo(a)}
      BY <2>1, SameAxis DEF Contract!Called
    <3> HIDE DEF a, b
    <3>2. Facts!Sound(b)
      BY <2>a, <3>1, Facts!HardStopSound, Facts!SoftStopSound, Facts!HardHIZSound,
         Facts!ClearAlarmSound, Facts!StartHomingSound, Facts!MoveToSound
    <3> QED
      BY <3>2 DEF b
  <2>2. CASE Contract!Polled
    <3>1. b \in Facts!ExecControl(a)
      BY <2>2, SameAxis DEF Contract!Polled
    <3> HIDE DEF a, b
    <3>2. Facts!Sound(b)
      BY <2>a, <3>1, Facts!ExecControlSound
    <3> QED
      BY <3>2 DEF b
  <2>3. CASE Contract!Chip
    <3>1. (a.mode = "move" /\ b = Facts!MotionEnds(a)) \/ b = Facts!Faulted(a)
      BY <2>3, SameAxis DEF Contract!Chip
    <3> HIDE DEF a, b
    <3>2. Facts!Sound(b)
      BY <2>a, <3>1, Facts!MotionEndsSound, Facts!FaultedSound
    <3> QED
      BY <3>2 DEF b
  <2>4. CASE UNCHANGED AsAxis
    BY <2>4
  <2> QED
    BY <2>1, <2>2, <2>3, <2>4 DEF Contract!Next
<1> QED
  BY <1>1, <1>2, PTL DEF Contract!Spec

(* What Sound says in the variables of the object and its chip.            *)
HomedHeld ==
  /\ homed => ~alarm /\ homingState <= 0 /\ (mode = "hiz" => fault)
  /\ fault => mode = "hiz"

(* A homed axis of L6470.cpp itself is held: what is proved of the         *)
(* contract comes down to the sequence and its chip by the refinement.  No *)
(* alarm stands on it, no sequence is under way, and it is excited unless  *)
(* a fault not yet polled took the excitation off; and a latched fault     *)
(* keeps the bridges off.                                                  *)
THEOREM HomedIsHeld ==
  ASSUME FaultInGap = FALSE
  PROVE  Spec => []HomedHeld
<1>1. ObjectType /\ Facts!Sound(AsAxis) => HomedHeld
  <2> SUFFICES ASSUME ObjectType, Facts!Held(AsAxis), Facts!FaultIsOff(AsAxis)
               PROVE  HomedHeld
    BY DEF Facts!Sound
  <2>1. homed => /\ ~alarm /\ Phase \notin {"armed", "run", "abort"}
                 /\ AxisMode = "hiz" => fault
    BY AxisBefore DEF Facts!Held, Facts!HomingActive
  <2>2. fault => AxisMode = "hiz"
    BY AxisBefore DEF Facts!FaultIsOff
  <2>3. AxisMode = "hiz" <=> mode = "hiz"
    BY DEF AxisMode, Moving, Turning
  <2>4. Phase \notin {"armed", "run", "abort"} => homingState <= 0
    BY PhaseActive DEF ObjectType, State, Abort
  <2> QED
    BY <2>1, <2>2, <2>3, <2>4 DEF HomedHeld
<1> QED
  BY ImplementsContract, ContractSound, TypeInductive, <1>1, PTL DEF KeepsContract
=============================================================================
