---------------------------- MODULE Robot_proofs ----------------------------
(***************************************************************************)
(* Proofs about module Robot: type correctness, the two invariants that    *)
(* hold whoever calls, and the action property of execMotion, for every    *)
(* set of callers and every bound; then what holds with one caller only.   *)
(***************************************************************************)
EXTENDS Robot, Axis_proofs

LEMMA InitType == Init => TypeOK
<1> SUFFICES ASSUME Init PROVE TypeOK
  OBVIOUS
<1>1. PoweredUp \in AxisState
  BY DEF PoweredUp, AxisState, Mode, HomingPhase
<1>2. Idle \in [at: Place, on: SUBSET AxisId]
  BY DEF Idle, Place
<1>3. call \in [Client -> [at: Place, on: SUBSET AxisId]]
  BY <1>2 DEF Init
<1>4. axis \in [AxisId -> AxisState]
  BY <1>1 DEF Init
<1>5. asked \in BOOLEAN
  BY DEF Init
<1> QED
  BY <1>3, <1>4, <1>5, BoundAssumption DEF Init, TypeOK, AxisId

(* The homing thread.                                                      *)
LEMMA HomingThreadType == TypeOK /\ HomingThread => TypeOK'
<1> SUFFICES ASSUME TypeOK, HomingThread PROVE TypeOK'
  OBVIOUS
<1> USE DEF TypeOK, AxisId
<1>1. CASE HomingBegin
  <2>1. /\ HardStop(axis["base"]) \in AxisState
        /\ HardStop(axis["shoulder"]) \in AxisState
        /\ StartHoming(axis["elbow"]) \in AxisState
    BY HardStopType, StartHomingType
  <2>2. axis' \in [AxisId -> AxisState]
    BY <1>1, <2>1 DEF HomingBegin
  <2> QED
    <3>1. asked' \in BOOLEAN
      BY <1>1 DEF HomingBegin
    <3>2. homingState' \in 0..4
      BY <1>1 DEF HomingBegin
    <3> QED
      BY <1>1, <2>2, <3>1, <3>2 DEF HomingBegin
<1>2. CASE HomingElbowEnded
  BY <1>2 DEF HomingElbowEnded
<1>3. CASE HomingOthersStart
  BY <1>3, StartHomingType DEF HomingOthersStart
<1>4. CASE HomingOthersEnded
  BY <1>4, HardStopType DEF HomingOthersEnded
<1> QED
  BY <1>1, <1>2, <1>3, <1>4 DEF HomingThread

(* The motion thread.                                                      *)
LEMMA MotionThreadType == TypeOK /\ MotionThread => TypeOK'
<1> SUFFICES ASSUME TypeOK, MotionThread PROVE TypeOK'
  OBVIOUS
<1>1. PICK x \in ExecControl(axis[turn]) :
        /\ motionState' = [motionState EXCEPT ![turn] =
             IF motionState[turn] = 1 /\ ~x.inMotion THEN 0 ELSE @]
        /\ axis' = IF motionState[turn] = 1 /\ ~x.inMotion /\ x.alarm
                   THEN [a \in AxisId |-> HardHIZ([axis EXCEPT ![turn] = x][a])]
                   ELSE [axis EXCEPT ![turn] = x]
  BY DEF MotionThread
<1>2. x \in AxisState
  BY ExecControlType DEF TypeOK
<1>3. axis' \in [AxisId -> AxisState]
  BY <1>1, <1>2, HardHIZType DEF TypeOK
<1>4. motionState' \in [AxisId -> {0, 1}]
  BY <1>1 DEF TypeOK
<1> QED
  BY <1>3, <1>4 DEF TypeOK, MotionThread, After, AxisId

(* The callers.                                                            *)
LEMMA CallerType ==
  ASSUME NEW c \in Client, TypeOK, Begin(c) \/ Continue(c) PROVE TypeOK'
<1> USE BoundAssumption DEF TypeOK, Goto, Return, Keeps, OnlyLooks, Enter, Step,
          Idle, Place
<1>1. CASE StartHomingCheck(c) BY <1>1 DEF StartHomingCheck
<1>2. CASE StartHomingSet(c) BY <1>2 DEF StartHomingSet
<1>3. CASE StartMotionHalted(c) BY <1>3 DEF StartMotionHalted
<1>4. CASE StartMotionAlarm(c) BY <1>4 DEF StartMotionAlarm
<1>5. CASE StartMotionBusy(c) BY <1>5 DEF StartMotionBusy
<1>6. CASE StartMotionLock(c) BY <1>6 DEF StartMotionLock
<1>7. CASE StartMotion3DHomed(c) BY <1>7 DEF StartMotion3DHomed
<1>8. CASE StartMotion3DBusy(c) BY <1>8 DEF StartMotion3DBusy
<1>9. CASE StartMotion3DAlarm(c) BY <1>9 DEF StartMotion3DAlarm
<1>10. CASE StartMotion3DLock(c)
  <2>1. mutex' \in {mutex, c} /\ call' \in [Client -> [at: Place, on: SUBSET AxisId]]
    BY <1>10 DEF StartMotion3DLock
  <2> QED
    BY <1>10, <2>1 DEF StartMotion3DLock
<1>11. CASE MoveSend(c)
  <2> DEFINE a == FirstOf(call[c].on)
  <2>1. axis' \in [AxisId -> AxisState] /\ motionState' \in [AxisId -> {0, 1}]
    <3>1. CASE a \in AxisId
      BY <1>11, <3>1, MoveToType DEF MoveSend
    <3>2. CASE a \notin AxisId
      BY <1>11, <3>2 DEF MoveSend
    <3> QED
      BY <3>1, <3>2
  <2>2. mutex' \in {mutex, "free"}
    BY <1>11 DEF MoveSend
  <2>3. call' \in [Client -> [at: Place, on: SUBSET AxisId]]
    BY <1>11 DEF MoveSend
  <2> QED
    BY <1>11, <2>1, <2>2, <2>3 DEF MoveSend
<1>12. CASE SetParamLock(c) BY <1>12 DEF SetParamLock
<1>13. CASE SetParamSend(c) BY <1>13 DEF SetParamSend
<1>14. CASE EnableCheck(c) BY <1>14 DEF EnableCheck
<1>15. CASE EnableAlarm(c) BY <1>15 DEF EnableAlarm
<1>16. CASE EnableDo(c) BY <1>16, HardStopType, HardHIZType DEF EnableDo, Apply
<1>17. CASE ClearCheck(c) BY <1>17 DEF ClearCheck
<1>18. CASE ClearDo(c) BY <1>18, ClearAlarmType DEF ClearDo, Apply
<1>19. CASE StopCheck(c) BY <1>19 DEF StopCheck
<1>20. CASE StopDo(c) BY <1>20, HardStopType, SoftStopType DEF StopDo, Apply
<1> QED
  BY <1>1, <1>2, <1>3, <1>4, <1>5, <1>6, <1>7, <1>8, <1>9, <1>10, <1>11, <1>12,
     <1>13, <1>14, <1>15, <1>16, <1>17, <1>18, <1>19, <1>20 DEF Begin, Continue

(* The chips.                                                              *)
LEMMA ChipType ==
  ASSUME NEW a \in AxisId, TypeOK, ChipMotionEnds(a) \/ ChipFaults(a)
  PROVE  TypeOK'
<1>1. axis' \in [AxisId -> AxisState]
  BY MotionEndsType, FaultedType DEF TypeOK, ChipMotionEnds, ChipFaults
<1>2. faults' \in 0..MaxFaults
  BY BoundAssumption DEF TypeOK, ChipMotionEnds, ChipFaults
<1> QED
  BY <1>1, <1>2 DEF TypeOK, ChipMotionEnds, ChipFaults

(* Every variable of the Robot class keeps its type, for any callers.      *)
THEOREM TypeCorrect == Spec => []TypeOK
<1>1. TypeOK /\ [Next]_vars => TypeOK'
  <2>1. TypeOK /\ UNCHANGED vars => TypeOK'
    BY DEF TypeOK, vars
  <2> QED
    BY <2>1, HomingThreadType, MotionThreadType, CallerType, ChipType DEF Next
<1> QED
  BY InitType, <1>1, PTL DEF Spec

-----------------------------------------------------------------------------
(* What is inductive.  Each axis is sound on its own; and an axis turning  *)
(* with no motion to its name is in a homing sequence, without alarm: a    *)
(* sequence that failed on an alarm would otherwise leave it unwatched.    *)

AllSound == \A a \in AxisId : Sound(axis[a])
Unwatched(a) == axis[a].mode = "move" /\ motionState[a] = 0
Supervised ==
  \A a \in AxisId : Unwatched(a) => HomingActive(axis[a]) /\ ~axis[a].alarm

LEMMA InitSound == Init => AllSound /\ Supervised
BY DEF Init, AllSound, Sound, Supervised, Unwatched, PoweredUp, Held, FaultIsOff,
       AxisState, Mode, HomingPhase

LEMMA HomingThreadSound ==
  TypeOK /\ AllSound /\ HomingThread => AllSound'
<1> SUFFICES ASSUME TypeOK, AllSound, HomingThread PROVE AllSound'
  OBVIOUS
<1>1. \A a \in AxisId : axis'[a] \in {axis[a], HardStop(axis[a]), StartHoming(axis[a])}
  BY DEF HomingThread, HomingBegin, HomingElbowEnded, HomingOthersStart,
         HomingOthersEnded, TypeOK, AxisId
<1> QED
  BY <1>1, HardStopSound, StartHomingSound DEF AllSound, TypeOK

LEMMA MotionThreadSound ==
  TypeOK /\ AllSound /\ MotionThread => AllSound'
<1> SUFFICES ASSUME TypeOK, AllSound, MotionThread PROVE AllSound'
  OBVIOUS
<1>1. PICK x \in ExecControl(axis[turn]) :
        axis' \in {[axis EXCEPT ![turn] = x],
                  [a \in AxisId |-> HardHIZ([axis EXCEPT ![turn] = x][a])]}
  BY DEF MotionThread
<1>2. Sound(x) /\ x \in AxisState
  BY ExecControlSound, ExecControlType DEF AllSound, TypeOK
<1>3. \A a \in AxisId : LET y == [axis EXCEPT ![turn] = x][a]
                       IN Sound(y) /\ y \in AxisState
  BY <1>2 DEF AllSound, TypeOK
<1> QED
  BY <1>1, <1>3, HardHIZSound DEF AllSound, TypeOK

(* What a step of a caller can make of an axis and of its motionState.     *)
LEMMA CallerKeeps ==
  ASSUME NEW c \in Client, Begin(c) \/ Continue(c), ~MoveSend(c), TypeOK,
         NEW a \in AxisId
  PROVE  /\ motionState' = motionState
         /\ axis'[a] \in {axis[a], HardStop(axis[a]), SoftStop(axis[a]),
                         HardHIZ(axis[a]), ClearAlarm(axis[a])}
<1> USE DEF OnlyLooks, Keeps
<1>1. CASE EnableDo(c) \/ ClearDo(c) \/ StopDo(c)
  BY <1>1 DEF EnableDo, ClearDo, StopDo, Apply
<1>2. CASE ~(EnableDo(c) \/ ClearDo(c) \/ StopDo(c))
  <2>1. UNCHANGED <<axis, motionState>>
    BY <1>2 DEF Begin, Continue, StartHomingCheck, StartHomingSet,
      StartMotionHalted, StartMotionAlarm, StartMotionBusy, StartMotionLock,
      StartMotion3DHomed, StartMotion3DBusy, StartMotion3DAlarm,
      StartMotion3DLock, SetParamLock, SetParamSend, EnableCheck, EnableAlarm,
      ClearCheck, StopCheck
  <2> QED
    BY <2>1
<1> QED
  BY <1>1, <1>2

LEMMA MoveSendKeeps ==
  ASSUME NEW c \in Client, MoveSend(c), TypeOK, NEW a \in AxisId
  PROVE  \/ axis'[a] = axis[a] /\ motionState'[a] = motionState[a]
         \/ axis'[a] = MoveTo(axis[a]) /\ motionState'[a] = 1
BY DEF MoveSend, TypeOK

LEMMA CallerSound ==
  ASSUME NEW c \in Client, TypeOK, AllSound, Begin(c) \/ Continue(c)
  PROVE  AllSound'
<1>1. CASE MoveSend(c)
  BY <1>1, MoveSendKeeps, MoveToSound DEF AllSound, TypeOK
<1>2. CASE ~MoveSend(c)
  BY <1>2, CallerKeeps, HardStopSound, SoftStopSound, HardHIZSound,
     ClearAlarmSound DEF AllSound, TypeOK
<1> QED
  BY <1>1, <1>2

LEMMA ChipSound ==
  ASSUME NEW a \in AxisId, TypeOK, AllSound, ChipMotionEnds(a) \/ ChipFaults(a)
  PROVE  AllSound'
BY MotionEndsSound, FaultedSound DEF AllSound, TypeOK, ChipMotionEnds, ChipFaults

LEMMA SoundInductive == Spec => []AllSound
<1>1. TypeOK /\ AllSound /\ [Next]_vars => AllSound'
  <2>1. AllSound /\ UNCHANGED vars => AllSound'
    BY DEF AllSound, vars
  <2> QED
    BY <2>1, HomingThreadSound, MotionThreadSound, CallerSound, ChipSound DEF Next
<1> QED
  BY InitSound, TypeCorrect, <1>1, PTL DEF Spec

(* An axis that counts as homed is held, whoever calls and however the     *)
(* calls and the two threads interleave.                                   *)
THEOREM HomedIsHeld == Spec => []HomedMeansHeld
<1>1. AllSound => HomedMeansHeld
  BY DEF AllSound, Sound, HomedMeansHeld
<1> QED
  BY SoundInductive, <1>1, PTL

-----------------------------------------------------------------------------
(* No operator sets an axis turning unwatched: what turns after it did     *)
(* before, in the same sequence or in one being aborted, or was sent.      *)

LEMMA StopKeepsSupervised ==
  ASSUME NEW x \in AxisState, NEW y \in {HardStop(x), SoftStop(x), HardHIZ(x),
                                        ClearAlarm(x), StartHoming(x)},
         y.mode = "move"
  PROVE  /\ x.mode = "move" /\ (HomingActive(x) => HomingActive(y))
         /\ (~x.alarm => ~y.alarm)
<1> USE DEF AxisState, HomingActive, HomingInterrupted, Energise
<1>1. CASE y = HardStop(x)
  BY <1>1 DEF HardStop
<1>2. CASE y = SoftStop(x)
  BY <1>2 DEF SoftStop
<1>3. CASE y = HardHIZ(x)
  BY <1>3 DEF HardHIZ
<1>4. CASE y = ClearAlarm(x)
  BY <1>4 DEF ClearAlarm
<1>5. CASE y = StartHoming(x)
  BY <1>5 DEF StartHoming, SoftStop
<1> QED
  BY <1>1, <1>2, <1>3, <1>4, <1>5

(* After a poll: a turning axis was reported in motion, or its sequence    *)
(* has just started a leg.                                                 *)
LEMMA ExecControlSupervised ==
  ASSUME NEW x \in AxisState, Sound(x), NEW y \in ExecControl(x),
         y.mode = "move"
  PROVE  \/ /\ y.inMotion /\ x.mode = "move"
            /\ (HomingActive(x) /\ ~x.alarm => HomingActive(y) /\ ~y.alarm)
         \/ HomingActive(y) /\ ~y.alarm
<1> DEFINE r == Refresh(x)
<1>1. r \in AxisState
  BY RefreshType
<1>2. /\ r.mode = x.mode /\ r.homing = x.homing
      /\ r.inMotion = (x.mode = "move")
      /\ r.halted = (x.mode = "hiz")
      /\ r.alarm = (x.alarm \/ x.fault)
  BY DEF Refresh, AxisState
<1>3. x.mode = "move" => r.alarm = x.alarm
  BY <1>2 DEF Sound, FaultIsOff, AxisState
<1>4. CASE ~HomingActive(x)
  BY <1>1, <1>2, <1>4 DEF ExecControl
<1>5. CASE HomingActive(x) /\ (r.alarm \/ r.halted)
  <2>1. y = [r EXCEPT !.homing = "failed"]
    BY <1>5 DEF ExecControl, HomingCall
  <2> QED
    BY <1>1, <1>2, <1>3, <1>5, <2>1 DEF AxisState
<1>6. CASE HomingActive(x) /\ ~(r.alarm \/ r.halted) /\ r.inMotion
  <2>1. y = r
    BY <1>6 DEF ExecControl, HomingCall
  <2> QED
    BY <1>1, <1>2, <1>6, <2>1 DEF AxisState, HomingActive
<1>7. CASE HomingActive(x) /\ ~(r.alarm \/ r.halted) /\ ~r.inMotion
  <2>1. y \in {r, [r EXCEPT !.mode = "move"], [r EXCEPT !.homing = "failed"],
               [r EXCEPT !.homing = "none", !.homed = TRUE],
               [r EXCEPT !.mode = "move", !.homing = "run"]}
    BY <1>7 DEF ExecControl, HomingCall
  <2>2. r.mode # "move"
    BY <1>2, <1>7
  <2>3. y \in {[r EXCEPT !.mode = "move"],
               [r EXCEPT !.mode = "move", !.homing = "run"]}
    BY <1>1, <2>1, <2>2 DEF AxisState
  <2> QED
    BY <1>1, <1>2, <1>7, <2>3 DEF AxisState, HomingActive
<1> QED
  BY <1>4, <1>5, <1>6, <1>7

LEMMA HomingThreadSupervised ==
  TypeOK /\ Supervised /\ HomingThread => Supervised'
<1> SUFFICES ASSUME TypeOK, Supervised, HomingThread,
                    NEW a \in AxisId, Unwatched(a)'
             PROVE  (HomingActive(axis[a]) /\ ~axis[a].alarm)'
  BY DEF Supervised
<1>1. motionState'[a] = motionState[a]
  BY DEF HomingThread, HomingBegin, HomingElbowEnded, HomingOthersStart,
         HomingOthersEnded
<1>2. axis'[a] \in {axis[a], HardStop(axis[a]), StartHoming(axis[a])}
  BY DEF HomingThread, HomingBegin, HomingElbowEnded, HomingOthersStart,
         HomingOthersEnded, TypeOK, AxisId
<1> QED
  BY <1>1, <1>2, StopKeepsSupervised DEF Supervised, Unwatched, TypeOK

LEMMA MotionThreadSupervised ==
  TypeOK /\ AllSound /\ Supervised /\ MotionThread => Supervised'
<1> SUFFICES ASSUME TypeOK, AllSound, Supervised, MotionThread,
                    NEW a \in AxisId, Unwatched(a)'
             PROVE  (HomingActive(axis[a]) /\ ~axis[a].alarm)'
  BY DEF Supervised
<1>1. PICK x \in ExecControl(axis[turn]) :
        /\ motionState' = [motionState EXCEPT ![turn] =
             IF motionState[turn] = 1 /\ ~x.inMotion THEN 0 ELSE @]
        /\ axis' = IF motionState[turn] = 1 /\ ~x.inMotion /\ x.alarm
                   THEN [b \in AxisId |-> HardHIZ([axis EXCEPT ![turn] = x][b])]
                   ELSE [axis EXCEPT ![turn] = x]
  BY DEF MotionThread
<1>2. x \in AxisState
  BY ExecControlType DEF TypeOK
<1>3. axis' = [axis EXCEPT ![turn] = x]
  BY <1>1, <1>2 DEF Unwatched, HardHIZ, TypeOK, AxisState
<1>4. CASE a # turn
  BY <1>1, <1>3, <1>4 DEF Unwatched, Supervised, TypeOK
<1>5. CASE a = turn
  <2>1. axis'[a] = x /\ x.mode = "move"
    BY <1>3, <1>5 DEF Unwatched, TypeOK
  <2>2. \/ /\ x.inMotion /\ axis[a].mode = "move"
           /\ (HomingActive(axis[a]) /\ ~axis[a].alarm
                => HomingActive(x) /\ ~x.alarm)
        \/ HomingActive(x) /\ ~x.alarm
    BY <1>5, <2>1, ExecControlSupervised DEF AllSound, TypeOK
  <2>3. x.inMotion => motionState[a] = 0
    BY <1>1, <1>5 DEF Unwatched, TypeOK
  <2> QED
    BY <2>1, <2>2, <2>3 DEF Supervised, Unwatched
<1> QED
  BY <1>4, <1>5

LEMMA CallerSupervised ==
  ASSUME NEW c \in Client, TypeOK, Supervised, Begin(c) \/ Continue(c)
  PROVE  Supervised'
<1> SUFFICES ASSUME NEW a \in AxisId, Unwatched(a)'
             PROVE  (HomingActive(axis[a]) /\ ~axis[a].alarm)'
  BY DEF Supervised
<1>1. CASE MoveSend(c)
  <2>1. axis'[a] = axis[a] /\ motionState'[a] = motionState[a]
    BY <1>1, MoveSendKeeps DEF Unwatched
  <2> QED
    BY <2>1 DEF Supervised, Unwatched
<1>2. CASE ~MoveSend(c)
  <2>1. /\ motionState' = motionState
        /\ axis'[a] \in {axis[a], HardStop(axis[a]), SoftStop(axis[a]),
                         HardHIZ(axis[a]), ClearAlarm(axis[a])}
    BY <1>2, CallerKeeps
  <2> QED
    BY <2>1, StopKeepsSupervised DEF Supervised, Unwatched, TypeOK
<1> QED
  BY <1>1, <1>2

LEMMA ChipSupervised ==
  ASSUME NEW b \in AxisId, TypeOK, Supervised,
         ChipMotionEnds(b) \/ ChipFaults(b)
  PROVE  Supervised'
BY DEF Supervised, Unwatched, TypeOK, AxisState, ChipMotionEnds, ChipFaults,
       MotionEnds, Faulted

(* A turning motor is watched: its motion has its motionState, or its      *)
(* homing sequence is in progress (execMotion, execHoming, startMotion).   *)
THEOREM MovingWatched == Spec => []MovingIsWatched
<1>1. TypeOK /\ AllSound /\ Supervised /\ [Next]_vars => Supervised'
  <2>1. Supervised /\ UNCHANGED vars => Supervised'
    BY DEF Supervised, Unwatched, vars
  <2> QED
    BY <2>1, HomingThreadSupervised, MotionThreadSupervised, CallerSupervised,
       ChipSupervised DEF Next
<1>2. TypeOK /\ Supervised => MovingIsWatched
  BY DEF Supervised, Unwatched, MovingIsWatched, TypeOK
<1> QED
  BY InitSound, TypeCorrect, SoundInductive, <1>1, <1>2, PTL DEF Spec

(* execMotion: a motion retired with an alarm standing on its axis leaves  *)
(* all three de-energised, and none of them homed.                         *)
THEOREM AlarmDropsAll == Spec => AlarmedMotionDropsAll
<1> DEFINE Drops == \A a \in AxisId :
      motionState[a] = 1 /\ motionState'[a] = 0 /\ axis'[a].alarm
        => \A b \in AxisId : axis'[b].mode = "hiz" /\ ~axis'[b].homed
<1>1. TypeOK /\ [Next]_vars => Drops
  <2> SUFFICES ASSUME TypeOK, [Next]_vars, NEW a \in AxisId,
                      motionState[a] = 1, motionState'[a] = 0, axis'[a].alarm,
                      NEW b \in AxisId
               PROVE  axis'[b].mode = "hiz" /\ ~axis'[b].homed
    OBVIOUS
  <2>1. MotionThread
    <3>1. \A c \in Client : ~(Begin(c) \/ Continue(c))
      BY CallerKeeps, MoveSendKeeps
    <3>2. ~HomingThread
      BY DEF HomingThread, HomingBegin, HomingElbowEnded, HomingOthersStart,
             HomingOthersEnded
    <3> QED
      BY <3>1, <3>2 DEF Next, ChipMotionEnds, ChipFaults, vars
  <2>2. PICK x \in ExecControl(axis[turn]) :
          /\ motionState' = [motionState EXCEPT ![turn] =
               IF motionState[turn] = 1 /\ ~x.inMotion THEN 0 ELSE @]
          /\ axis' = IF motionState[turn] = 1 /\ ~x.inMotion /\ x.alarm
                     THEN [d \in AxisId |-> HardHIZ([axis EXCEPT ![turn] = x][d])]
                     ELSE [axis EXCEPT ![turn] = x]
    BY <2>1 DEF MotionThread
  <2>3. a = turn /\ ~x.inMotion /\ x \in AxisState
    BY <2>2, ExecControlType DEF TypeOK
  <2>4. axis' = [d \in AxisId |-> HardHIZ([axis EXCEPT ![turn] = x][d])]
    BY <2>2, <2>3 DEF TypeOK
  <2>5. [axis EXCEPT ![turn] = x][b] \in AxisState
    BY <2>3 DEF TypeOK
  <2> QED
    BY <2>4, <2>5 DEF HardHIZ, AxisState
<1> QED
  BY TypeCorrect, <1>1, PTL DEF Spec, AlarmedMotionDropsAll

-----------------------------------------------------------------------------
(* Robot with one calling thread: what a method has asked under one hold   *)
(* of m_mutex is then still so under the next, since only the homing and   *)
(* the motion thread come in between, and these begin no motion and no     *)
(* request.                                                                *)

(* Nothing but startHoming begins a homing sequence, and an axis that is   *)
(* homed is in none and has not failed one.                                *)

Done(x) == x.homed => x.homing = "none"

Follows(x, y) ==
  /\ HomingActive(y) => HomingActive(x)
  /\ ~HomingActive(x) => y.homing = x.homing
  /\ Done(x) => Done(y)

LEMMA FollowsTwice ==
  ASSUME NEW x, NEW y, NEW z, Follows(x, y), Follows(y, z) PROVE Follows(x, z)
BY DEF Follows

(* The commands, and what the chip does by itself.                         *)
LEMMA CommandFollows ==
  ASSUME NEW x \in AxisState,
         NEW y \in {x, HardStop(x), SoftStop(x), HardHIZ(x), ClearAlarm(x),
                    MoveTo(x), MotionEnds(x), Faulted(x)}
  PROVE  Follows(x, y)
<1> USE DEF Follows, Done, AxisState, HomingActive, HomingInterrupted
<1>1. CASE y = x
  BY <1>1
<1>2. CASE y = HardStop(x)
  BY <1>2 DEF HardStop
<1>3. CASE y = SoftStop(x)
  BY <1>3 DEF SoftStop
<1>4. CASE y = HardHIZ(x)
  BY <1>4 DEF HardHIZ
<1>5. CASE y = ClearAlarm(x)
  BY <1>5 DEF ClearAlarm
<1>6. CASE y = MoveTo(x)
  BY <1>6 DEF MoveTo
<1>7. CASE y = MotionEnds(x)
  BY <1>7 DEF MotionEnds
<1>8. CASE y = Faulted(x)
  BY <1>8 DEF Faulted
<1> QED
  BY <1>1, <1>2, <1>3, <1>4, <1>5, <1>6, <1>7, <1>8

(* A poll.                                                                 *)
LEMMA PollFollows ==
  ASSUME NEW x \in AxisState, NEW y \in ExecControl(x) PROVE Follows(x, y)
<1> DEFINE r == Refresh(x)
<1>1. r \in AxisState /\ r.homing = x.homing /\ (r.homed => x.homed)
  <2>1. r \in AxisState
    BY RefreshType
  <2>2. r.homing = x.homing
    BY DEF Refresh, AxisState
  <2>3. r.homed = (x.homed /\ ~(x.alarm \/ x.fault))
    BY DEF Refresh, AxisState
  <2> QED
    BY <2>1, <2>2, <2>3
<1>2. CASE ~HomingActive(x)
  BY <1>1, <1>2 DEF ExecControl, Follows, Done, HomingActive
<1>3. CASE HomingActive(x)
  <2>1. y \in {r, [r EXCEPT !.homing = "failed"], [r EXCEPT !.mode = "move"],
               [r EXCEPT !.mode = "move", !.homing = "run"],
               [r EXCEPT !.homing = "none", !.homed = TRUE]}
    BY <1>3 DEF ExecControl, HomingCall
  <2>2. x.homing # "none"
    BY <1>3 DEF HomingActive
  <2> QED
    BY <1>1, <1>3, <2>1, <2>2 DEF Follows, Done, AxisState
<1> QED
  BY <1>2, <1>3

LEMMA ArmedIsDone ==
  ASSUME NEW x \in AxisState, Done(x) PROVE Done(StartHoming(x))
BY DEF StartHoming, SoftStop, Done, AxisState

-----------------------------------------------------------------------------
(* The invariant.                                                          *)

InMove == {"motion.lock", "move3D.alarm", "move3D.lock", "move.send"}

(* What the caller has asked, it may rely on.                              *)
Foreseen(c) ==
  /\ call[c].at = "homing.set"
       => homingState = 0 /\ \A a \in AxisId : motionState[a] = 0
  /\ call[c].at \in InMove => homingState = 0

Finished ==
  /\ \A a \in AxisId : Done(axis[a])
  /\ homingState = 3 => axis["elbow"].homing = "none"

Exclusive(c) == MotionOrHoming /\ HomingSupervised /\ Foreseen(c) /\ Finished

(* A step by which every axis follows, and that leaves m_homingState alone. *)
Tame == /\ \A a \in AxisId : Follows(axis[a], axis'[a])
        /\ homingState' = homingState

LEMMA TameKeeps ==
  Tame /\ HomingSupervised /\ Finished => HomingSupervised' /\ Finished'
<1> SUFFICES ASSUME Tame, HomingSupervised, Finished
             PROVE  HomingSupervised' /\ Finished'
  OBVIOUS
<1>1. \A a \in AxisId : HomingActive(axis'[a]) => HomingActive(axis[a])
  BY DEF Tame, Follows
<1>2. HomingSupervised'
  BY <1>1 DEF Tame, HomingSupervised, AxisId
<1>3. homingState' = 3 => axis'["elbow"].homing = "none"
  BY DEF Tame, Follows, Finished, HomingActive, AxisId
<1>4. \A a \in AxisId : Done(axis'[a])
  BY DEF Tame, Follows, Finished
<1> QED
  BY <1>2, <1>3, <1>4 DEF Finished

LEMMA InitExclusive == ASSUME NEW c \in Client, Init PROVE Exclusive(c)
BY DEF Init, Exclusive, MotionOrHoming, HomingSupervised, Foreseen, Finished, Done,
       InMove, Idle, PoweredUp, HomingActive, AxisId

-----------------------------------------------------------------------------
(* The homing thread: no request is at work while the caller is past its   *)
(* questions, so it steps only when the caller is not.                     *)
LEMMA HomingThreadExclusive ==
  ASSUME NEW c \in Client, TypeOK, Exclusive(c), HomingThread
  PROVE  Exclusive(c)'
<1>1. homingState > 0
  BY DEF HomingThread, HomingBegin, HomingElbowEnded, HomingOthersStart,
         HomingOthersEnded
<1>2. UNCHANGED <<motionState, call>>
  BY DEF HomingThread, HomingBegin, HomingElbowEnded, HomingOthersStart,
         HomingOthersEnded
<1>3. MotionOrHoming'
  BY <1>1, <1>2 DEF Exclusive, MotionOrHoming
<1>4. Foreseen(c)'
  BY <1>1, <1>2 DEF Exclusive, Foreseen
<1>5. \A a \in AxisId : axis[a] \in AxisState /\ Done(axis[a])
  BY DEF TypeOK, Exclusive, Finished
<1>6. \A a \in AxisId :
        /\ Follows(axis[a], HardStop(axis[a])) /\ Follows(axis[a], axis[a])
        /\ Done(StartHoming(axis[a]))
  BY <1>5, CommandFollows, ArmedIsDone
<1>7. HomingSupervised' /\ Finished'
  <2> USE DEF HomingSupervised, Finished, Follows
  <2>1. CASE HomingBegin
    <3>1. CASE homingState' = 0
      <4>1. UNCHANGED axis
        BY <2>1, <3>1 DEF HomingBegin
      <4> QED
        BY <2>1, <3>1, <4>1 DEF HomingBegin, Exclusive
    <3>2. CASE homingState' # 0
      <4>1. /\ homingState = 1 /\ homingState' = 2
            /\ axis'["base"] = HardStop(axis["base"])
            /\ axis'["shoulder"] = HardStop(axis["shoulder"])
            /\ axis'["elbow"] = StartHoming(axis["elbow"])
        BY <2>1, <3>2 DEF HomingBegin, TypeOK, AxisId
      <4> QED
        BY <1>6, <4>1 DEF Exclusive, AxisId
    <3> QED
      BY <3>1, <3>2
  <2>2. CASE HomingElbowEnded
    BY <2>2 DEF HomingElbowEnded, Exclusive, Done, AxisId
  <2>3. CASE HomingOthersStart
    <3>1. /\ homingState = 3 /\ homingState' = 4
          /\ axis'["base"] = StartHoming(axis["base"])
          /\ axis'["shoulder"] = StartHoming(axis["shoulder"])
          /\ axis'["elbow"] = axis["elbow"]
      BY <2>3 DEF HomingOthersStart, TypeOK, AxisId
    <3> QED
      BY <1>5, <1>6, <3>1 DEF Exclusive, AxisId
  <2>4. CASE HomingOthersEnded
    <3>1. /\ homingState = 4 /\ homingState' = 0
          /\ ~HomingActive(axis["base"]) /\ ~HomingActive(axis["shoulder"])
          /\ \A a \in AxisId : axis'[a] \in {axis[a], HardStop(axis[a])}
          /\ axis'["elbow"] = axis["elbow"]
      BY <2>4 DEF HomingOthersEnded, TypeOK, AxisId
    <3>2. \A a \in AxisId : Follows(axis[a], axis'[a])
      BY <1>6, <3>1
    <3> QED
      BY <1>5, <3>1, <3>2 DEF Exclusive, AxisId
  <2> QED
    BY <2>1, <2>2, <2>3, <2>4 DEF HomingThread
<1> QED
  BY <1>3, <1>4, <1>7 DEF Exclusive

(* The motion thread only takes motions back.                              *)
LEMMA MotionThreadTame == TypeOK /\ MotionThread => Tame
<1> SUFFICES ASSUME TypeOK, MotionThread PROVE Tame
  OBVIOUS
<1>1. PICK x \in ExecControl(axis[turn]) :
        axis' \in {[axis EXCEPT ![turn] = x],
                  [a \in AxisId |-> HardHIZ([axis EXCEPT ![turn] = x][a])]}
  BY DEF MotionThread
<1> DEFINE seen == [axis EXCEPT ![turn] = x]
<1>2. x \in AxisState /\ Follows(axis[turn], x)
  BY ExecControlType, PollFollows DEF TypeOK
<1>3. \A a \in AxisId : seen[a] \in AxisState /\ Follows(axis[a], seen[a])
  BY <1>2, CommandFollows DEF TypeOK
<1>4. \A a \in AxisId : Follows(axis[a], HardHIZ(seen[a]))
  BY <1>3, CommandFollows, FollowsTwice
<1> QED
  BY <1>1, <1>3, <1>4 DEF Tame, MotionThread

LEMMA MotionThreadExclusive ==
  ASSUME NEW c \in Client, TypeOK, Exclusive(c), MotionThread
  PROVE  Exclusive(c)'
<1>1. HomingSupervised' /\ Finished' /\ homingState' = homingState
  BY MotionThreadTame, TameKeeps DEF Exclusive, Tame
<1>2. call' = call /\ \A a \in AxisId : motionState[a] = 0 => motionState'[a] = 0
  BY DEF MotionThread, TypeOK
<1>3. MotionOrHoming' /\ Foreseen(c)'
  BY <1>1, <1>2 DEF Exclusive, MotionOrHoming, Foreseen
<1> QED
  BY <1>1, <1>3 DEF Exclusive

-----------------------------------------------------------------------------
(* The caller: a step of its own is the only one that begins a motion or   *)
(* a request, and by then it has asked.                                    *)

LEMMA CallerTame ==
  ASSUME NEW c \in Client, TypeOK, Begin(c) \/ Continue(c)
  PROVE  \A a \in AxisId : Follows(axis[a], axis'[a])
<1> SUFFICES ASSUME NEW a \in AxisId PROVE Follows(axis[a], axis'[a])
  OBVIOUS
<1>1. axis'[a] \in {axis[a], HardStop(axis[a]), SoftStop(axis[a]), HardHIZ(axis[a]),
                   ClearAlarm(axis[a]), MoveTo(axis[a])}
  BY CallerKeeps, MoveSendKeeps
<1> QED
  BY <1>1, CommandFollows DEF TypeOK

LEMMA CallerExclusive ==
  ASSUME NEW c \in Client, TypeOK, Exclusive(c), Begin(c) \/ Continue(c)
  PROVE  Exclusive(c)'
<1> USE DEF Enter, Step, Goto, Return, Keeps, OnlyLooks
<1>1. CASE StartHomingSet(c)
  <2>1. /\ homingState = 0 /\ homingState' = 1 /\ UNCHANGED <<axis, motionState>>
        /\ \A a \in AxisId : motionState[a] = 0
        /\ call'[c] = Idle
    BY <1>1 DEF StartHomingSet, Exclusive, Foreseen, TypeOK
  <2> QED
    BY <2>1 DEF Exclusive, MotionOrHoming, HomingSupervised, Foreseen, Finished,
                Idle, InMove
<1>2. CASE MoveSend(c)
  <2>1. homingState = 0 /\ homingState' = 0
    BY <1>2 DEF MoveSend, Exclusive, Foreseen, InMove
  <2>2. call'[c].at \in {"idle", "move.send"}
    BY <1>2 DEF MoveSend, TypeOK, Idle
  <2>3. Tame
    BY <2>1, CallerTame DEF Tame
  <2> QED
    BY <2>1, <2>2, <2>3, TameKeeps DEF Exclusive, MotionOrHoming, Foreseen
<1>3. CASE ~StartHomingSet(c) /\ ~MoveSend(c)
  <2>1. homingState' = homingState /\ motionState' = motionState
    BY <1>3 DEF Begin, Continue, StartHomingCheck, StartMotionHalted,
      StartMotionAlarm, StartMotionBusy, StartMotionLock, StartMotion3DHomed,
      StartMotion3DBusy, StartMotion3DAlarm, StartMotion3DLock, SetParamLock,
      SetParamSend, EnableCheck, EnableAlarm, EnableDo, ClearCheck, ClearDo,
      StopCheck, StopDo
  <2>2. Tame
    BY <2>1, CallerTame DEF Tame
  <2>3. call'[c].at = "homing.set" => ~IsInMotion(AxisId)
    <3>1. CASE StartHomingCheck(c)
      BY <3>1 DEF StartHomingCheck
    <3>2. CASE Begin(c) /\ ~StartHomingCheck(c)
      <4> DEFINE NotThere == call'[c].at # "homing.set"
      <4>0. call \in [Client -> [at: Place, on: SUBSET AxisId]]
        BY DEF TypeOK
      <4>1. StartMotionHalted(c) => NotThere
        BY <4>0 DEF StartMotionHalted
      <4>2. StartMotion3DHomed(c) => NotThere
        BY <4>0 DEF StartMotion3DHomed
      <4>3. SetParamLock(c) => NotThere
        BY <4>0 DEF SetParamLock
      <4>4. EnableCheck(c) => NotThere
        BY <4>0 DEF EnableCheck
      <4>5. ClearCheck(c) => NotThere
        BY <4>0 DEF ClearCheck
      <4>6. StopCheck(c) => NotThere
        BY <4>0 DEF StopCheck
      <4> QED
        BY <3>2, <4>1, <4>2, <4>3, <4>4, <4>5, <4>6 DEF Begin
    <3>3. CASE Continue(c)
      <4> DEFINE NotThere == call'[c].at # "homing.set"
      <4>0. call \in [Client -> [at: Place, on: SUBSET AxisId]]
        BY DEF TypeOK
      <4>1. StartMotionAlarm(c) => NotThere
        BY <4>0 DEF StartMotionAlarm, Idle
      <4>2. StartMotionBusy(c) => NotThere
        BY <4>0 DEF StartMotionBusy, Idle
      <4>3. StartMotionLock(c) => NotThere
        BY <4>0 DEF StartMotionLock, Idle
      <4>4. StartMotion3DBusy(c) => NotThere
        BY <4>0 DEF StartMotion3DBusy, Idle
      <4>5. StartMotion3DAlarm(c) => NotThere
        BY <4>0 DEF StartMotion3DAlarm, Idle
      <4>6. StartMotion3DLock(c) => NotThere
        BY <4>0 DEF StartMotion3DLock, Idle
      <4>7. SetParamSend(c) => NotThere
        BY <4>0 DEF SetParamSend, Idle
      <4>8. EnableAlarm(c) => NotThere
        BY <4>0 DEF EnableAlarm, Idle
      <4>9. EnableDo(c) => NotThere
        BY <4>0 DEF EnableDo, Idle
      <4>10. ClearDo(c) => NotThere
        BY <4>0 DEF ClearDo, Idle
      <4>11. StopDo(c) => NotThere
        BY <4>0 DEF StopDo, Idle
      <4> QED
        BY <1>3, <3>3, <4>1, <4>2, <4>3, <4>4, <4>5, <4>6,
           <4>7, <4>8, <4>9, <4>10, <4>11 DEF Continue
    <3> QED
      BY <3>1, <3>2, <3>3
  <2>4. call'[c].at \in InMove => call[c].at \in InMove \/ ~(homingState > 0)
    BY <1>3 DEF Begin, Continue, StartHomingCheck, StartMotionHalted,
      StartMotionAlarm, StartMotionBusy, StartMotionLock, StartMotion3DHomed,
      StartMotion3DBusy, StartMotion3DAlarm, StartMotion3DLock, SetParamLock,
      SetParamSend, EnableCheck, EnableAlarm, EnableDo, ClearCheck, ClearDo,
      StopCheck, StopDo, TypeOK, Idle, IsInMotion, InMove
  <2>5. Foreseen(c)'
    BY <2>1, <2>3, <2>4 DEF Exclusive, Foreseen, IsInMotion, TypeOK
  <2>6. MotionOrHoming'
    BY <2>1 DEF Exclusive, MotionOrHoming
  <2> QED
    BY <2>2, <2>5, <2>6, TameKeeps DEF Exclusive
<1> QED
  BY <1>1, <1>2, <1>3

LEMMA ChipExclusive ==
  ASSUME NEW c \in Client, NEW b \in AxisId, TypeOK, Exclusive(c),
         ChipMotionEnds(b) \/ ChipFaults(b)
  PROVE  Exclusive(c)'
<1>1. \A a \in AxisId : axis'[a] \in {axis[a], MotionEnds(axis[a]), Faulted(axis[a])}
  BY DEF ChipMotionEnds, ChipFaults, TypeOK
<1>2. UNCHANGED <<homingState, motionState, call>>
  BY DEF ChipMotionEnds, ChipFaults
<1>3. Tame
  BY <1>1, <1>2, CommandFollows DEF Tame, TypeOK
<1> QED
  BY <1>2, <1>3, TameKeeps DEF Exclusive, MotionOrHoming, Foreseen

-----------------------------------------------------------------------------
(* The theorems.                                                           *)

LEMMA ExclusiveNext ==
  ASSUME NEW c, Client = {c}, TypeOK, Exclusive(c), [Next]_vars
  PROVE  Exclusive(c)'
<1>1. CASE UNCHANGED vars
  BY <1>1 DEF vars, Exclusive, MotionOrHoming, HomingSupervised, Foreseen, Finished
<1>2. CASE Next
  BY <1>2, HomingThreadExclusive, MotionThreadExclusive, CallerExclusive,
     ChipExclusive DEF Next
<1> QED
  BY <1>1, <1>2

LEMMA ExclusiveInvariant ==
  ASSUME NEW c, Client = {c} PROVE Spec => []Exclusive(c)
<1>1. Init => Exclusive(c)
  BY InitExclusive
<1>2. TypeOK /\ Exclusive(c) /\ [Next]_vars => Exclusive(c)'
  BY ExclusiveNext
<1> QED
  BY <1>1, <1>2, TypeCorrect, PTL DEF Spec

(* With one calling thread, positioning and homing exclude each other,     *)
(* although startHoming and startMotion ask and act under two holds.       *)
THEOREM MotionExcludesHoming ==
  ASSUME NEW c, Client = {c} PROVE Spec => []MotionOrHoming
<1>1. Exclusive(c) => MotionOrHoming
  BY DEF Exclusive
<1> QED
  BY <1>1, ExclusiveInvariant, PTL

(* With one calling thread no axis is homing but those the homing thread   *)
(* is waiting for (execHoming).                                            *)
THEOREM HomingIsSupervised ==
  ASSUME NEW c, Client = {c} PROVE Spec => []HomingSupervised
<1>1. Exclusive(c) => HomingSupervised
  BY DEF Exclusive
<1> QED
  BY <1>1, ExclusiveInvariant, PTL

(* With one calling thread BASE and SHOULDER begin to home only after      *)
(* ELBOW has completed, and while it stands still (execHoming).            *)
THEOREM ElbowIsFirst ==
  ASSUME NEW c, Client = {c} PROVE Spec => ElbowHomesFirst
<1> DEFINE First == \A a \in {"base", "shoulder"} :
      ~HomingActive(axis[a]) /\ HomingActive(axis'[a])
        => axis["elbow"].homing = "none" /\ axis["elbow"].mode # "move"
<1>1. TypeOK /\ Exclusive(c) /\ MovingIsWatched /\ [Next]_vars => First
  <2> SUFFICES ASSUME TypeOK, Exclusive(c), MovingIsWatched, [Next]_vars,
                      NEW a \in {"base", "shoulder"},
                      ~HomingActive(axis[a]), HomingActive(axis'[a])
               PROVE  axis["elbow"].homing = "none" /\ axis["elbow"].mode # "move"
    OBVIOUS
  <2>1. a \in AxisId /\ "elbow" \in AxisId
    BY DEF AxisId
  <2>2. ~Follows(axis[a], axis'[a])
    BY DEF Follows
  <2>3. HomingThread
    <3>1. ~MotionThread
      BY <2>1, <2>2, MotionThreadTame DEF Tame
    <3>2. \A d \in Client : ~(Begin(d) \/ Continue(d))
      BY <2>1, <2>2, CallerTame
    <3>3. \A b \in AxisId : ~(ChipMotionEnds(b) \/ ChipFaults(b))
      <4>1. \A b \in AxisId : ChipMotionEnds(b) \/ ChipFaults(b) =>
              axis'[a] \in {axis[a], MotionEnds(axis[a]), Faulted(axis[a])}
        BY <2>1 DEF ChipMotionEnds, ChipFaults, TypeOK
      <4> QED
        BY <2>1, <2>2, <4>1, CommandFollows DEF TypeOK
    <3>4. ~UNCHANGED vars
      BY DEF vars
    <3> QED
      BY <3>1, <3>2, <3>3, <3>4 DEF Next
  <2>4. HomingOthersStart
    <3>1. axis'[a] \in {axis[a], HardStop(axis[a])} => Follows(axis[a], axis'[a])
      BY <2>1, CommandFollows DEF TypeOK
    <3>2. ~HomingBegin /\ ~HomingElbowEnded /\ ~HomingOthersEnded
      BY <2>1, <2>2, <3>1 DEF HomingBegin, HomingElbowEnded, HomingOthersEnded,
                              TypeOK, AxisId
    <3> QED
      BY <2>3, <3>2 DEF HomingThread
  <2>5. homingState = 3 /\ axis["elbow"].homing = "none" /\ motionState["elbow"] = 0
    BY <2>1, <2>4 DEF HomingOthersStart, Exclusive, Finished, MotionOrHoming
  <2> QED
    BY <2>1, <2>5 DEF MovingIsWatched, HomingActive
<1> QED
  BY <1>1, ExclusiveInvariant, TypeCorrect, MovingWatched, PTL
     DEF Spec, ElbowHomesFirst
=============================================================================
