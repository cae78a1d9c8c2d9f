------------------------------- MODULE Robot --------------------------------
(***************************************************************************)
(* The Robot class: three axes, the homing thread, the motion thread and   *)
(* the threads that call its methods (the touch-panel console, the network *)
(* command manager, a running script), all sharing m_mutex.                *)
(*                                                                         *)
(* Each action is one critical section of the code.  A method that takes   *)
(* the mutex several times is several actions, and call[c] says where the  *)
(* caller is between them.  The one section that can block inside (moveTo  *)
(* and setParam spin on the BUSY pin) is split where it blocks, and mutex  *)
(* names the caller that keeps the lock meanwhile.                         *)
(***************************************************************************)
EXTENDS Axis, Naturals

CONSTANTS
  Client,     \* the threads that call the Robot's methods
  MaxCalls,   \* bound: calls made in a behaviour
  MaxFaults   \* bound: driver faults in a behaviour

ASSUME BoundAssumption == MaxCalls \in Nat /\ MaxFaults \in Nat

AxisId == {"base", "shoulder", "elbow"}

VARIABLES
  axis,          \* m_stepper[3], each with its chip
  homingState,   \* m_homingState, 0..4
  motionState,   \* m_motionState[3]
  turn,          \* the axis the motion thread's loop is at
  mutex,         \* m_mutex: "free", or the caller spinning on BUSY
  call,          \* where each caller is
  calls, faults, \* spent so far, for the bounds
  asked          \* history: a client asked for homing since it last began

vars == <<axis, homingState, motionState, turn, mutex, call,
          calls, faults, asked>>

(* A caller's place: its method's next section, and the axes it is for.    *)
Idle == [at |-> "idle", on |-> {}]
Place == {"idle", "homing.set", "motion.alarm", "motion.busy", "motion.lock",
          "move3D.busy", "move3D.alarm", "move3D.lock", "move.send",
          "param.send", "enable.alarm", "enable.do", "clear.do",
          "stop.do", "stop.now"}

TypeOK ==
  /\ axis \in [AxisId -> AxisState]
  /\ homingState \in 0..4
  /\ motionState \in [AxisId -> {0, 1}]
  /\ turn \in AxisId
  /\ mutex \in Client \cup {"free"}
  /\ call \in [Client -> [at: Place, on: SUBSET AxisId]]
  /\ calls \in 0..MaxCalls /\ faults \in 0..MaxFaults
  /\ asked \in BOOLEAN

Init ==
  /\ axis = [a \in AxisId |-> PoweredUp]
  /\ homingState = 0
  /\ motionState = [a \in AxisId |-> 0]
  /\ turn = "base"
  /\ mutex = "free"
  /\ call = [c \in Client |-> Idle]
  /\ calls = 0 /\ faults = 0
  /\ asked = FALSE

Unlocked == mutex = "free"

-----------------------------------------------------------------------------
(* What isInMotion, isAlarmHappened and isHomeCompleted answer.            *)

(* Variant: m_homingState is not looked at.                                *)
IsInMotionOfAxes(axes) == \E a \in axes : motionState[a] > 0

IsInMotion(axes) == homingState > 0 \/ \E a \in axes : motionState[a] > 0
IsAlarmHappened(axes) == \E a \in axes : axis[a].alarm
IsHomeCompleted(axes) == \A a \in axes : axis[a].homed /\ ~axis[a].halted

-----------------------------------------------------------------------------
(* The homing thread, one action per state of its switch.                  *)

HomingBegin ==
  /\ Unlocked /\ homingState = 1
  /\ IF IsAlarmHappened(AxisId)
     THEN homingState' = 0 /\ UNCHANGED axis
     ELSE /\ homingState' = 2
          /\ axis' = [axis EXCEPT !["base"] = HardStop(@),
                                  !["shoulder"] = HardStop(@),
                                  !["elbow"] = StartHoming(@)]
  /\ asked' = FALSE
  /\ UNCHANGED <<motionState, turn, mutex, call, calls, faults>>

(* Variants: ELBOW's sequence is not waited for; its failure is not seen.  *)
HomingElbowAssumed ==
  /\ Unlocked /\ homingState = 2
  /\ homingState' = IF axis["elbow"].homed THEN 3 ELSE 1
  /\ UNCHANGED <<axis, motionState, turn, mutex, call, calls, faults, asked>>

HomingElbowUnchecked ==
  /\ Unlocked /\ homingState = 2
  /\ ~HomingActive(axis["elbow"])
  /\ homingState' = 3
  /\ UNCHANGED <<axis, motionState, turn, mutex, call, calls, faults, asked>>

(* After a failure the state is set to 0 and then incremented all the same. *)
HomingElbowEnded ==
  /\ Unlocked /\ homingState = 2
  /\ ~HomingActive(axis["elbow"])
  /\ homingState' = IF axis["elbow"].homed THEN 3 ELSE 1
  /\ UNCHANGED <<axis, motionState, turn, mutex, call, calls, faults, asked>>

(* The one-second timeout may have passed at any poll.                     *)
HomingOthersStart ==
  /\ Unlocked /\ homingState = 3
  /\ axis' = [axis EXCEPT !["base"] = StartHoming(@),
                          !["shoulder"] = StartHoming(@)]
  /\ homingState' = 4
  /\ UNCHANGED <<motionState, turn, mutex, call, calls, faults, asked>>

Failed(a) == ~HomingActive(axis[a]) /\ ~axis[a].homed

(* Variants: the state is incremented once more; a failure is not an end.  *)
HomingOthersCounted ==
  /\ Unlocked /\ homingState = 4
  /\ ~HomingActive(axis["base"]) /\ ~HomingActive(axis["shoulder"])
  /\ homingState' = homingState + 1
  /\ UNCHANGED <<axis, motionState, turn, mutex, call, calls, faults, asked>>

HomingOthersHomed ==
  /\ Unlocked /\ homingState = 4
  /\ axis["base"].homed /\ axis["shoulder"].homed
  /\ homingState' = 0
  /\ UNCHANGED <<axis, motionState, turn, mutex, call, calls, faults, asked>>

(* While either axis is at it the switch breaks out at once, so by the     *)
(* time a failure is looked at the partner has ended too.                  *)
HomingOthersEnded ==
  /\ Unlocked /\ homingState = 4
  /\ ~HomingActive(axis["base"]) /\ ~HomingActive(axis["shoulder"])
  /\ axis' = [axis EXCEPT
       !["shoulder"] = IF Failed("base") /\ @.inMotion THEN HardStop(@) ELSE @,
       !["base"] = IF Failed("shoulder") /\ @.inMotion THEN HardStop(@) ELSE @]
  /\ homingState' = 0
  /\ UNCHANGED <<motionState, turn, mutex, call, calls, faults, asked>>

HomingThread == \/ HomingBegin \/ HomingElbowEnded \/ HomingOthersStart
                \/ HomingOthersEnded

-----------------------------------------------------------------------------
(* The motion thread: refresh one axis and run its homing sequence, then   *)
(* retire its motion if it has stopped; a motion that ended in an alarm    *)
(* takes the excitation off all three axes.                                *)

After(a) == CASE a = "base" -> "shoulder"
              [] a = "shoulder" -> "elbow"
              [] a = "elbow" -> "base"

(* Variants: the switch goes before execControl; only the axis in alarm is *)
(* switched off; the motion state is not reset when there is an alarm.     *)
MotionThreadLooksFirst ==
  /\ Unlocked
  /\ \E x \in ExecControl(axis[turn]) :
       LET ended == motionState[turn] = 1 /\ ~axis[turn].inMotion
           seen  == [axis EXCEPT ![turn] = x]
       IN /\ motionState' = [motionState EXCEPT ![turn] = IF ended THEN 0 ELSE @]
          /\ axis' = IF ended /\ axis[turn].alarm
                     THEN [a \in AxisId |-> HardHIZ(seen[a])]
                     ELSE seen
  /\ turn' = After(turn)
  /\ UNCHANGED <<homingState, mutex, call, calls, faults, asked>>

MotionThreadDropsOne ==
  /\ Unlocked
  /\ \E x \in ExecControl(axis[turn]) :
       LET ended == motionState[turn] = 1 /\ ~x.inMotion
       IN /\ motionState' = [motionState EXCEPT ![turn] = IF ended THEN 0 ELSE @]
          /\ axis' = [axis EXCEPT ![turn] = IF ended /\ x.alarm
                                           THEN HardHIZ(x) ELSE x]
  /\ turn' = After(turn)
  /\ UNCHANGED <<homingState, mutex, call, calls, faults, asked>>

MotionThreadKeepsAlarmed ==
  /\ Unlocked
  /\ \E x \in ExecControl(axis[turn]) :
       LET ended == motionState[turn] = 1 /\ ~x.inMotion
           seen  == [axis EXCEPT ![turn] = x]
       IN IF ended /\ x.alarm
          THEN axis' = [a \in AxisId |-> HardHIZ(seen[a])] /\ UNCHANGED motionState
          ELSE /\ axis' = seen
               /\ motionState' = [motionState EXCEPT ![turn] = IF ended THEN 0 ELSE @]
  /\ turn' = After(turn)
  /\ UNCHANGED <<homingState, mutex, call, calls, faults, asked>>

MotionThread ==
  /\ Unlocked
  /\ \E x \in ExecControl(axis[turn]) :
       LET ended == motionState[turn] = 1 /\ ~x.inMotion
           seen  == [axis EXCEPT ![turn] = x]
       IN /\ motionState' = [motionState EXCEPT ![turn] = IF ended THEN 0 ELSE @]
          /\ axis' = IF ended /\ x.alarm
                     THEN [a \in AxisId |-> HardHIZ(seen[a])]
                     ELSE seen
  /\ turn' = After(turn)
  /\ UNCHANGED <<homingState, mutex, call, calls, faults, asked>>

-----------------------------------------------------------------------------
(* The callers.  Enter is the first section of a call, Step a later one;   *)
(* a call that is refused, or whose last section this is, returns.         *)

Enter(c) == call[c] = Idle /\ calls < MaxCalls /\ calls' = calls + 1
Step(c, place) == call[c].at = place /\ UNCHANGED calls
Goto(c, place, axes) == call' = [call EXCEPT ![c] = [at |-> place, on |-> axes]]
Return(c) == call' = [call EXCEPT ![c] = Idle]
Keeps == UNCHANGED <<homingState, motionState, turn, faults, asked>>
OnlyLooks == Keeps /\ UNCHANGED <<axis, mutex>>

(* startHoming: isInMotion takes and releases the mutex before the write.  *)
StartHomingCheck(c) ==
  /\ Enter(c) /\ Unlocked /\ ~IsInMotion(AxisId)
  /\ Goto(c, "homing.set", AxisId) /\ OnlyLooks

StartHomingSet(c) ==
  /\ Step(c, "homing.set") /\ Unlocked
  /\ homingState' = 1 /\ asked' = TRUE
  /\ Return(c)
  /\ UNCHANGED <<axis, motionState, turn, mutex, faults>>

(* startMotion: m_halted and m_alarmFlag are read without the mutex, then  *)
(* isInMotion with it, then moveTo under a second hold.                    *)
StartMotionHalted(c) ==
  /\ Enter(c)
  /\ \E a \in AxisId : ~axis[a].halted /\ Goto(c, "motion.alarm", {a})
  /\ OnlyLooks

StartMotionAlarm(c) ==
  /\ Step(c, "motion.alarm")
  /\ IF IsAlarmHappened(call[c].on) THEN Return(c)
     ELSE Goto(c, "motion.busy", call[c].on)
  /\ OnlyLooks

StartMotionBusy(c) ==
  /\ Step(c, "motion.busy") /\ Unlocked
  /\ IF IsInMotion(call[c].on) THEN Return(c)
     ELSE Goto(c, "motion.lock", call[c].on)
  /\ OnlyLooks

StartMotionLock(c) ==
  /\ Step(c, "motion.lock") /\ Unlocked
  /\ mutex' = c /\ Goto(c, "move.send", call[c].on)
  /\ Keeps /\ UNCHANGED axis

(* startMotion3D: the three questions of canMove, then the positions, from *)
(* which the axes that have to move, then one hold for all of them.        *)
StartMotion3DHomed(c) ==
  /\ Enter(c) /\ Unlocked /\ IsHomeCompleted(AxisId)
  /\ Goto(c, "move3D.busy", AxisId) /\ OnlyLooks

StartMotion3DBusy(c) ==
  /\ Step(c, "move3D.busy") /\ Unlocked
  /\ IF IsInMotion(AxisId) THEN Return(c) ELSE Goto(c, "move3D.alarm", AxisId)
  /\ OnlyLooks

StartMotion3DAlarm(c) ==
  /\ Step(c, "move3D.alarm") /\ Unlocked
  /\ IF IsAlarmHappened(AxisId) THEN Return(c) ELSE Goto(c, "move3D.lock", AxisId)
  /\ OnlyLooks

StartMotion3DLock(c) ==
  /\ Step(c, "move3D.lock") /\ Unlocked
  /\ \/ Return(c) /\ UNCHANGED mutex          \* every axis is there already
     \/ \E axes \in (SUBSET AxisId) \ {{}} :
          mutex' = c /\ Goto(c, "move.send", axes)
  /\ Keeps /\ UNCHANGED axis

(* Under the mutex, axis by axis: spin on BUSY, then moveTo.               *)
FirstOf(axes) == CHOOSE a \in axes :
  \/ a = "base"
  \/ a = "shoulder" /\ "base" \notin axes
  \/ axes = {"elbow"}

MoveSend(c) ==
  /\ Step(c, "move.send")
  /\ LET a == FirstOf(call[c].on)
         left == call[c].on \ {a}
     IN /\ MayAccept(axis[a])
        /\ axis' = [axis EXCEPT ![a] = MoveTo(@)]
        /\ motionState' = [motionState EXCEPT ![a] = 1]
        /\ IF left = {} THEN Return(c) /\ mutex' = "free"
           ELSE Goto(c, "move.send", left) /\ UNCHANGED mutex
  /\ UNCHANGED <<homingState, turn, faults, asked>>

(* setMotorParam spins on BUSY as well, at any time.                       *)
SetParamLock(c) ==
  /\ Enter(c) /\ Unlocked
  /\ \E a \in AxisId : Goto(c, "param.send", {a})
  /\ mutex' = c
  /\ Keeps /\ UNCHANGED axis

(* Variant: m_inMotion is waited for instead of the pin.                   *)
SetParamAwaitsMotion(c) ==
  /\ Step(c, "param.send")
  /\ \A a \in call[c].on : ~axis[a].inMotion
  /\ Return(c) /\ mutex' = "free"
  /\ Keeps /\ UNCHANGED axis

SetParamSend(c) ==
  /\ Step(c, "param.send")
  /\ \A a \in call[c].on : MayAccept(axis[a])
  /\ Return(c) /\ mutex' = "free"
  /\ Keeps /\ UNCHANGED axis

(* Switching the excitation: both callers ask isInMotion, isAlarmHappened. *)
EnableCheck(c) ==
  /\ Enter(c) /\ Unlocked
  /\ \E a \in AxisId : ~IsInMotion({a}) /\ Goto(c, "enable.alarm", {a})
  /\ OnlyLooks

EnableAlarm(c) ==
  /\ Step(c, "enable.alarm") /\ Unlocked
  /\ IF IsAlarmHappened(call[c].on) THEN Return(c)
     ELSE Goto(c, "enable.do", call[c].on)
  /\ OnlyLooks

Apply(Method(_), axes) ==
  axis' = [a \in AxisId |-> IF a \in axes THEN Method(axis[a]) ELSE axis[a]]

EnableDo(c) ==
  /\ Step(c, "enable.do") /\ Unlocked
  /\ Apply(HardStop, call[c].on) \/ Apply(HardHIZ, call[c].on)
  /\ Return(c) /\ Keeps /\ UNCHANGED mutex

(* Clearing an alarm: both callers ask isInMotion(axis).                   *)
ClearCheck(c) ==
  /\ Enter(c) /\ Unlocked
  /\ \E a \in AxisId : ~IsInMotion({a}) /\ Goto(c, "clear.do", {a})
  /\ OnlyLooks

ClearDo(c) ==
  /\ Step(c, "clear.do") /\ Unlocked
  /\ Apply(ClearAlarm, call[c].on)
  /\ Return(c) /\ Keeps /\ UNCHANGED mutex

(* Stopping: the network asks isAlarmHappened and may decelerate, the      *)
(* panel asks isHalted and stops at once.                                  *)
StopCheck(c) ==
  /\ Enter(c) /\ Unlocked
  /\ \E a \in AxisId : \/ ~axis[a].alarm /\ Goto(c, "stop.do", {a})
                       \/ ~axis[a].halted /\ Goto(c, "stop.now", {a})
  /\ OnlyLooks

StopDo(c) ==
  /\ Step(c, "stop.do") \/ Step(c, "stop.now")
  /\ Unlocked
  /\ \/ Apply(HardStop, call[c].on)
     \/ call[c].at = "stop.do" /\ Apply(SoftStop, call[c].on)
  /\ Return(c) /\ Keeps /\ UNCHANGED mutex

Begin(c) == \/ StartHomingCheck(c) \/ StartMotionHalted(c)
            \/ StartMotion3DHomed(c) \/ SetParamLock(c)
            \/ EnableCheck(c) \/ ClearCheck(c) \/ StopCheck(c)

Continue(c) ==
  \/ StartHomingSet(c)
  \/ StartMotionAlarm(c) \/ StartMotionBusy(c) \/ StartMotionLock(c)
  \/ StartMotion3DBusy(c) \/ StartMotion3DAlarm(c) \/ StartMotion3DLock(c)
  \/ MoveSend(c) \/ SetParamSend(c)
  \/ EnableAlarm(c) \/ EnableDo(c) \/ ClearDo(c) \/ StopDo(c)

-----------------------------------------------------------------------------
(* The chips run whoever has the mutex.                                    *)

ChipMotionEnds(a) ==
  /\ axis[a].mode = "move"
  /\ axis' = [axis EXCEPT ![a] = MotionEnds(@)]
  /\ UNCHANGED <<homingState, motionState, turn, mutex, call, calls, faults,
                 asked>>

ChipFaults(a) ==
  /\ faults < MaxFaults /\ faults' = faults + 1
  /\ axis[a].mode # "hiz"
  /\ axis' = [axis EXCEPT ![a] = Faulted(@)]
  /\ UNCHANGED <<homingState, motionState, turn, mutex, call, calls, asked>>

Next == \/ HomingThread
        \/ MotionThread
        \/ \E c \in Client : Begin(c) \/ Continue(c)
        \/ \E a \in AxisId : ChipMotionEnds(a) \/ ChipFaults(a)

Spec == Init /\ [][Next]_vars

(* Both threads loop for ever and a caller in a call goes on, but need not *)
(* while the axis it has a command for turns, which may hold BUSY low; a   *)
(* motion the chip has begun ends; a homing sequence has finitely many     *)
(* legs, so it cannot be polled for ever without one of the polls being    *)
(* its last.                                                               *)
Spins(c) == /\ call[c].at \in {"move.send", "param.send"}
            /\ axis[FirstOf(call[c].on)].mode = "move"

GoesOn(c) == ~Spins(c) /\ Continue(c)

HomingSequenceEnds(a) ==
  MotionThread /\ HomingActive(axis[a]) /\ ~HomingActive(axis'[a])

Fairness ==
  /\ WF_vars(HomingThread) /\ WF_vars(MotionThread)
  /\ \A c \in Client : WF_vars(GoesOn(c))
  /\ \A a \in AxisId : WF_vars(ChipMotionEnds(a))
                       /\ SF_vars(HomingSequenceEnds(a))

FairSpec == Spec /\ Fairness

-----------------------------------------------------------------------------
(* Properties that hold whoever calls, and however the calls interleave.   *)

(* An axis reported as homed has kept its excitation, and with it the      *)
(* position it was homed at, since its homing completed: no alarm is       *)
(* standing, no new sequence is under way, and the bridges are on unless a *)
(* fault switched them off that execControl has yet to see.                *)
HomedMeansHeld == \A a \in AxisId : Held(axis[a])

(* A turning motor is always watched: its motionState is 1 or its homing   *)
(* sequence is in progress, so that execMotion notices how it ends.        *)
MovingIsWatched ==
  \A a \in AxisId :
    axis[a].mode = "move" => motionState[a] = 1 \/ HomingActive(axis[a])

(* A motion retired with an alarm standing on its axis leaves every axis   *)
(* de-energised and none of them homed (execMotion).                       *)
AlarmedMotionDropsAll ==
  [][\A a \in AxisId :
       motionState[a] = 1 /\ motionState'[a] = 0 /\ axis'[a].alarm
         => \A b \in AxisId : axis'[b].mode = "hiz" /\ ~axis'[b].homed]_vars

-----------------------------------------------------------------------------
(* Properties that hold as long as the calls come from one thread.         *)

(* No axis is homing unless the homing thread is waiting for that axis:    *)
(* what isInMotion answers from m_homingState covers every sequence.       *)
HomingSupervised ==
  /\ HomingActive(axis["elbow"]) => homingState = 2
  /\ \A a \in {"base", "shoulder"} : HomingActive(axis[a]) => homingState = 4

(* Positioning and homing exclude each other ("Unable to start motion -    *)
(* motor busy", startMotion; isInMotion, startHoming).                     *)
MotionOrHoming == homingState > 0 => \A a \in AxisId : motionState[a] = 0

(* BASE and SHOULDER begin to home only after ELBOW's sequence completed,  *)
(* while ELBOW stands still (execHoming, states 2 and 3).                  *)
ElbowHomesFirst ==
  [][\A a \in {"base", "shoulder"} :
       ~HomingActive(axis[a]) /\ HomingActive(axis'[a])
         => axis["elbow"].homing = "none" /\ axis["elbow"].mode # "move"]_vars

(* Every motion started is retired in the end (execMotion).                *)
MotionRetired ==
  \A a \in AxisId : motionState[a] = 1 ~> motionState[a] = 0

(* A homing request ends, or ELBOW has failed to home (execHoming).        *)
HomingEnds == homingState > 0 ~> homingState = 0 \/ axis["elbow"].homing = "failed"

(* No call is stuck: not on the mutex, which another may hold while it     *)
(* waits for an axis, nor on BUSY, while it keeps the two threads out.     *)
CallsReturn == \A c \in Client : call[c] # Idle ~> call[c] = Idle

-----------------------------------------------------------------------------
(* What comments of robot.cpp say and the code does not do.                *)

(* A homing sequence begins because a client asked for one: a failed ELBOW *)
(* ends it ("Failed to home ELBOW axis", m_homingState = 0).               *)
HomingOnlyOnRequest == homingState = 1 => asked
=============================================================================
