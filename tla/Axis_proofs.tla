---------------------------- MODULE Axis_proofs -----------------------------
(***************************************************************************)
(* Facts about the operators of module Axis, cited by the proofs about the *)
(* modules built from them.                                                *)
(***************************************************************************)
EXTENDS Axis, TLAPS

(* Every operator takes an axis to an axis.                                *)
LEMMA MotionEndsType ==
  ASSUME NEW x \in AxisState PROVE MotionEnds(x) \in AxisState
BY DEF MotionEnds, AxisState, Mode

LEMMA FaultedType ==
  ASSUME NEW x \in AxisState PROVE Faulted(x) \in AxisState
BY DEF Faulted, AxisState, Mode

LEMMA HardStopType ==
  ASSUME NEW x \in AxisState PROVE HardStop(x) \in AxisState
BY DEF HardStop, HomingInterrupted, HomingActive, Energise, AxisState, Mode,
       HomingPhase

LEMMA SoftStopType ==
  ASSUME NEW x \in AxisState PROVE SoftStop(x) \in AxisState
BY DEF SoftStop, HomingInterrupted, HomingActive, Energise, AxisState, Mode,
       HomingPhase

LEMMA HardHIZType ==
  ASSUME NEW x \in AxisState PROVE HardHIZ(x) \in AxisState
BY DEF HardHIZ, AxisState, Mode

LEMMA MoveToType ==
  ASSUME NEW x \in AxisState PROVE MoveTo(x) \in AxisState
BY DEF MoveTo, Energise, AxisState, Mode

LEMMA ClearAlarmType ==
  ASSUME NEW x \in AxisState PROVE ClearAlarm(x) \in AxisState
BY DEF ClearAlarm, AxisState

LEMMA StartHomingType ==
  ASSUME NEW x \in AxisState PROVE StartHoming(x) \in AxisState
<1>1. SoftStop(x) \in AxisState
  BY SoftStopType
<1> QED
  BY <1>1 DEF StartHoming, AxisState, HomingPhase

LEMMA RefreshType ==
  ASSUME NEW x \in AxisState PROVE Refresh(x) \in AxisState
BY DEF Refresh, AxisState

LEMMA HomingCallType ==
  ASSUME NEW x \in AxisState, NEW y \in HomingCall(x) PROVE y \in AxisState
BY DEF HomingCall, AxisState, Mode, HomingPhase

LEMMA ExecControlType ==
  ASSUME NEW x \in AxisState, NEW y \in ExecControl(x) PROVE y \in AxisState
BY RefreshType, HomingCallType DEF ExecControl

(* Every operator keeps a homed axis held and a faulty one off.            *)
Sound(x) == x \in AxisState /\ Held(x) /\ FaultIsOff(x)


LEMMA MotionEndsSound ==
  ASSUME NEW x \in AxisState, Sound(x), x.mode = "move"
  PROVE  Sound(MotionEnds(x))
BY MotionEndsType DEF Sound, Held, FaultIsOff, HomingActive, AxisState, MotionEnds

LEMMA FaultedSound ==
  ASSUME NEW x \in AxisState, Sound(x) PROVE Sound(Faulted(x))
BY FaultedType DEF Sound, Held, FaultIsOff, HomingActive, AxisState, Faulted

LEMMA HardStopSound ==
  ASSUME NEW x \in AxisState, Sound(x) PROVE Sound(HardStop(x))
BY HardStopType DEF Sound, Held, FaultIsOff, HomingActive, AxisState, HardStop, HomingInterrupted, Energise

LEMMA SoftStopSound ==
  ASSUME NEW x \in AxisState, Sound(x) PROVE Sound(SoftStop(x))
BY SoftStopType DEF Sound, Held, FaultIsOff, HomingActive, AxisState, SoftStop, HomingInterrupted, Energise

LEMMA HardHIZSound ==
  ASSUME NEW x \in AxisState, Sound(x) PROVE Sound(HardHIZ(x))
BY HardHIZType DEF Sound, Held, FaultIsOff, HomingActive, AxisState, HardHIZ

LEMMA MoveToSound ==
  ASSUME NEW x \in AxisState, Sound(x) PROVE Sound(MoveTo(x))
BY MoveToType DEF Sound, Held, FaultIsOff, HomingActive, AxisState, MoveTo, Energise

LEMMA ClearAlarmSound ==
  ASSUME NEW x \in AxisState, Sound(x) PROVE Sound(ClearAlarm(x))
BY ClearAlarmType DEF Sound, Held, FaultIsOff, HomingActive, AxisState, ClearAlarm

LEMMA StartHomingSound ==
  ASSUME NEW x \in AxisState, Sound(x) PROVE Sound(StartHoming(x))
BY StartHomingType DEF Sound, Held, FaultIsOff, HomingActive, AxisState, StartHoming, SoftStop, HomingInterrupted, Energise

LEMMA RefreshSound ==
  ASSUME NEW x \in AxisState, Sound(x)
  PROVE  Sound(Refresh(x)) /\ ~Refresh(x).fault
         /\ (Refresh(x).halted <=> Refresh(x).mode = "hiz")
         /\ (Refresh(x).inMotion <=> Refresh(x).mode = "move")
         /\ (HomingActive(Refresh(x)) <=> HomingActive(x))
<1> DEFINE y == Refresh(x)
<1>1. y \in AxisState
  BY RefreshType
<1>2. /\ y.mode = x.mode /\ y.homing = x.homing
      /\ y.fault = FALSE
      /\ y.halted = (x.mode = "hiz")
      /\ y.inMotion = (x.mode = "move")
      /\ y.alarm = (x.alarm \/ x.fault)
      /\ y.homed = (x.homed /\ ~(x.alarm \/ x.fault))
  BY DEF Refresh, AxisState
<1>3. y.homed => x.homed /\ ~y.alarm /\ ~x.fault
  BY <1>2
<1>4. Held(y)
  BY <1>2, <1>3 DEF Sound, Held, HomingActive
<1> QED
  BY <1>1, <1>2, <1>4 DEF Sound, FaultIsOff, HomingActive

(* One call of the sequence: a homed axis comes out of it only excited and *)
(* without alarm; one that ends its sequence is not turning.               *)
LEMMA HomingCallSound ==
  ASSUME NEW x \in AxisState, Sound(x), HomingActive(x), ~x.fault,
         x.halted <=> x.mode = "hiz", NEW y \in HomingCall(x)
  PROVE  Sound(y)
<1>1. CASE x.alarm \/ x.halted
  <2>1. y = [x EXCEPT !.homing = "failed"]
    BY <1>1 DEF HomingCall
  <2> QED
    BY <2>1 DEF Sound, Held, FaultIsOff, HomingActive, AxisState, HomingPhase
<1>2. CASE ~(x.alarm \/ x.halted)
  <2>1. y \in {x, [x EXCEPT !.mode = "move"], [x EXCEPT !.homing = "failed"],
               [x EXCEPT !.homing = "none", !.homed = TRUE],
               [x EXCEPT !.mode = "move", !.homing = "run"]}
    BY <1>2 DEF HomingCall
  <2>2. CASE y = [x EXCEPT !.homing = "none", !.homed = TRUE]
    BY <1>2, <2>2 DEF Sound, Held, FaultIsOff, HomingActive, AxisState,
                      HomingPhase
  <2>3. CASE y \in {x, [x EXCEPT !.homing = "failed"]}
    BY <2>3 DEF Sound, Held, FaultIsOff, HomingActive, AxisState, HomingPhase
  <2>4. CASE y \in {[x EXCEPT !.mode = "move"],
                    [x EXCEPT !.mode = "move", !.homing = "run"]}
    BY <2>4 DEF Sound, Held, FaultIsOff, HomingActive, AxisState, Mode,
                HomingPhase
  <2> QED
    BY <2>1, <2>2, <2>3, <2>4
<1> QED
  BY <1>1, <1>2

LEMMA ExecControlSound ==
  ASSUME NEW x \in AxisState, Sound(x), NEW y \in ExecControl(x) PROVE Sound(y)
BY RefreshType, RefreshSound, HomingCallSound DEF ExecControl
=============================================================================
