----------------------------- MODULE Main_proofs -----------------------------
(***************************************************************************)
(* Proofs about modules Main and Gripper, for any number of axes, callers  *)
(* and rows of the teaching table, and any servo whose steps are the       *)
(* view's.  Each part of the state has its invariant, kept by every step.  *)
(***************************************************************************)
EXTENDS Main, Axis_proofs, SequenceTheorems

-----------------------------------------------------------------------------
(* Pulse widths and percentages.                                           *)

(* A hundredth of the servo's range times an opening is the opening in     *)
(* steps, rounded down.                                                    *)
LEMMA InSteps ==
  ASSUME NEW S \in Nat \ {0}, NEW D \in Nat \ {0}, S * D = 100, NEW v \in Nat
  PROVE  (D * v) \div 100 = v \div S
<1> DEFINE q == v \div S
<1>1. q \in Nat /\ S * q <= v /\ v < S * q + S
  BY Z3
<1> HIDE DEF q
<1>2. D * (S * q) <= D * v /\ D * v < D * (S * q + S)
  BY <1>1, Z3
<1>3. D * (S * q) = 100 * q /\ D * (S * q + S) = 100 * q + 100
  BY <1>1, Z3
<1>4. 100 * q <= D * v /\ D * v < 100 * q + 100 /\ D * v \in Int
  BY <1>1, <1>2, <1>3, Z3
<1>5. (D * v) \div 100 = q
  BY <1>1, <1>4, Z3
<1> QED
  BY <1>5 DEF q

LEMMA ServoRange ==
  /\ ServoMin \in Int /\ ServoMax \in Int /\ Step \in Nat \ {0}
  /\ ServoMax - ServoMin \in Nat \ {0} /\ Step * (ServoMax - ServoMin) = 100
<1>1. ASSUME NEW D \in Int, NEW S \in Nat \ {0}, S * D = 100 PROVE D \in Nat \ {0}
  BY <1>1, Z3
<1> QED
  BY <1>1, GripperAssumption

(* moveGripper's width lies in the range of the servo, and getGripperValue *)
(* takes it back to the opening, rounded down to a step.                   *)
LEMMA RoundTrip ==
  ASSUME NEW v \in 0..100
  PROVE  /\ ServoValue(v) \in Servo
         /\ GripperValue(ServoValue(v)) <= v
         /\ v < GripperValue(ServoValue(v)) + Step
<1> DEFINE D == ServoMax - ServoMin
           q == v \div Step
<1>1. D \in Nat \ {0} /\ Step \in Nat \ {0} /\ Step * D = 100
  BY ServoRange
<1>2. q \in Nat /\ Step * q <= v /\ v < Step * q + Step
  BY <1>1, Z3
<1>3. ServoValue(v) = ServoMin + q
  <2>1. v \in Nat
    OBVIOUS
  <2>2. (D * v) \div 100 = q
    BY <1>1, <2>1, InSteps, Zenon
  <2> QED
    BY <2>2, Zenon DEF ServoValue
<1> HIDE DEF D, q
<1>4. q <= D
  BY <1>1, <1>2, Z3
<1>5. (100 * q) \div D = Step * q
  <2>1. 100 * q = D * (Step * q)
    BY <1>1, <1>2, Z3
  <2>2. Step * q \in Nat
    BY <1>1, <1>2, Z3
  <2>3. ASSUME NEW d \in Nat \ {0}, NEW k \in Nat PROVE (d * k) \div d = k
    BY Z3
  <2> QED
    BY <1>1, <2>1, <2>2, <2>3
<1>6. GripperValue(ServoMin + q) = Step * q
  BY <1>2, <1>5, ServoRange DEF GripperValue, D
<1>7. ServoMin + q \in Servo
  BY <1>2, <1>4, ServoRange DEF Servo, D
<1> QED
  BY <1>2, <1>3, <1>6, <1>7

LEMMA FullyOpen == ServoValue(100) = ServoMax /\ ServoMax \in Servo
<1>1. ASSUME NEW D \in Nat PROVE (D * 100) \div 100 = D
  BY Z3
<1> QED
  BY <1>1, ServoRange DEF ServoValue, Servo

-----------------------------------------------------------------------------
(* The gripper: its destination is where it was last sent.                 *)

GripperInv == GripperTypeOK /\ (ordered # None => dest = ServoValue(ordered))

LEMMA MoveKeeps ==
  ASSUME GripperInv, NEW v \in 0..100, MoveGripper(v), label' \in Int
  PROVE  GripperInv'
BY RoundTrip DEF GripperInv, GripperTypeOK, MoveGripper, None, Servo

LEMMA ClampRange == ASSUME NEW v \in Int PROVE Clamp(v) \in 0..100
BY DEF Clamp

LEMMA RoundedType == ASSUME NEW v \in Int PROVE Rounded(v) \in Int
<1>1. ASSUME NEW d \in Nat \ {0}, NEW n \in Int PROVE Quotient(n, d) \in Int
  <2>1. ASSUME NEW k \in Nat PROVE k \div d \in Nat
    BY Z3
  <2> QED
    BY <2>1 DEF Quotient
<1>2. Step \in Nat \ {0} /\ v + Step \div 2 \in Int
  BY GripperAssumption
<1>3. Quotient(v + Step \div 2, Step) \in Int
  BY <1>1, <1>2
<1> QED
  BY <1>2, <1>3 DEF Rounded

LEMMA ViewKeeps ==
  ASSUME GripperInv, ViewDec \/ ViewInc \/ ViewEdit PROVE GripperInv'
<1>1. ASSUME NEW v \in Int, ViewShows(v) PROVE GripperInv'
  BY <1>1, ClampRange, MoveKeeps DEF ViewShows
<1>2. Clamp(label) - Step \in Int /\ Clamp(label) + Step \in Int
  BY ClampRange, GripperAssumption DEF GripperInv, GripperTypeOK
<1>3. \A v \in Entries : Rounded(v) \in Int
  BY RoundedType, GripperAssumption
<1> QED
  BY <1>1, <1>2, <1>3 DEF ViewDec, ViewInc, ViewEdit

LEMMA GripperKeeps ==
  GripperInv /\ (ServoStep \/ StopGripper \/ OthersMoveGripper \/ GripperRestarts
                 \/ UNCHANGED gripper)
    => GripperInv'
<1> SUFFICES ASSUME GripperInv,
                    ServoStep \/ StopGripper \/ OthersMoveGripper
                    \/ GripperRestarts \/ UNCHANGED gripper
             PROVE  GripperInv'
  OBVIOUS
<1>1. CASE ServoStep
  BY <1>1, ServoRange DEF ServoStep, GripperInv, GripperTypeOK, Servo
<1>2. CASE StopGripper
  BY <1>2 DEF StopGripper, GripperInv, GripperTypeOK
<1>3. CASE OthersMoveGripper
  <2>1. PICK v \in Openings : MoveGripper(v) /\ UNCHANGED label
    BY <1>3 DEF OthersMoveGripper
  <2> QED
    BY <2>1, MoveKeeps, GripperAssumption DEF GripperInv, GripperTypeOK
<1>4. CASE GripperRestarts
  BY <1>4, FullyOpen DEF GripperRestarts, GripperInv, GripperTypeOK
<1>5. CASE UNCHANGED gripper
  BY <1>5 DEF gripper, GripperInv, GripperTypeOK
<1> QED
  BY <1>1, <1>2, <1>3, <1>4, <1>5

LEMMA GripperNext == GripperInv /\ [Next]_vars => GripperInv'
<1> SUFFICES ASSUME GripperInv, [Next]_vars PROVE GripperInv'
  OBVIOUS
<1>1. CASE UNCHANGED gripper
  BY <1>1, GripperKeeps
<1>2. CASE Start \/ Crash
  BY <1>2, GripperKeeps DEF Start, Crash, Fresh
<1>3. CASE RobotThreads
  BY <1>1, <1>3, GripperKeeps DEF RobotThreads, Look, HomingBody, MotionBody, ServoBody
<1>4. CASE \E c \in Caller : Grip(c)
  BY <1>4, GripperKeeps, ViewKeeps DEF Grip
<1>5. CASE Callers
  <2>1. Teach => UNCHANGED gripper
    BY DEF Teach
  <2>2. \A c \in Caller : SendMove(c) \/ AskHoming(c) => UNCHANGED gripper
    BY DEF SendMove, AskHoming
  <2>3. \A c \in Caller, m \in Motor : AskMove(c, m) \/ Command(c, m) => UNCHANGED gripper
    BY DEF AskMove, Command
  <2> QED
    BY <1>1, <1>4, <1>5, <2>1, <2>2, <2>3 DEF Callers
<1>6. CASE Drivers
  BY <1>1, <1>6 DEF Drivers
<1>7. CASE Shutdown
  BY <1>1, <1>7 DEF Shutdown, Leave, SaveOpen, SaveClose, SaveFails, JoinScript,
                    JoinNetwork, JoinThreads, DeleteSteppers
<1>8. CASE UNCHANGED vars
  BY <1>1, <1>8 DEF vars
<1> QED
  BY <1>2, <1>3, <1>5, <1>6, <1>7, <1>8 DEF Next

(* A gripper at rest reports the opening that was asked for, to a step,    *)
(* for any servo whose range the view's steps divide (Robot::moveGripper,  *)
(* getGripperValue and the gripper view).                                  *)
THEOREM GripperReadsBack == Spec => []ReadBack
<1>1. Init => GripperInv
  BY FullyOpen DEF Init, GripperInit, GripperInv, GripperTypeOK
<1>2. GripperInv => ReadBack
  BY RoundTrip DEF GripperInv, GripperTypeOK, ReadBack, None
<1> QED
  BY <1>1, <1>2, GripperNext, PTL DEF Spec
-----------------------------------------------------------------------------
(* Types.                                                                  *)

ProcessOK ==
  /\ phase \in Phase /\ terminated \in BOOLEAN
  /\ thread \in [Thread -> {"check", "body", "ended"}] /\ left \subseteq Motor
  /\ crashes \in 0..MaxCrashes

LEMMA FreshProcess == Fresh => /\ terminated' \in BOOLEAN /\ left' \subseteq Motor
                               /\ thread' \in [Thread -> {"check", "body", "ended"}]
<1> SUFFICES ASSUME Fresh PROVE /\ terminated' \in BOOLEAN /\ left' = {}
                                /\ thread' \in [Thread -> {"check", "body", "ended"}]
  OBVIOUS
<1>1. terminated' \in BOOLEAN
  BY Zenon DEF Fresh
<1> QED
  BY <1>1 DEF Fresh

LEMMA ProcessNext == ProcessOK /\ [Next]_vars => ProcessOK'
<1> SUFFICES ASSUME ProcessOK, [Next]_vars PROVE ProcessOK'
  OBVIOUS
<1>1. /\ phase \in Phase /\ terminated \in BOOLEAN /\ left \subseteq Motor
      /\ thread \in [Thread -> {"check", "body", "ended"}]
      /\ crashes \in 0..MaxCrashes
  BY DEF ProcessOK
<1>2. CASE Start
  BY <1>1, <1>2, FreshProcess DEF Start, ProcessOK, Phase
<1>3. CASE Crash
  <2>1. crashes' \in 0..MaxCrashes
    <3>1. crashes < MaxCrashes /\ crashes' = crashes + 1
      BY <1>3, Zenon DEF Crash
    <3> QED
      BY <1>1, <3>1, MainAssumption
  <2> QED
    BY <1>3, <2>1, FreshProcess DEF Crash, ProcessOK, Phase
<1>4. CASE Shutdown
  <2>1. phase' \in Phase
    BY <1>4 DEF Shutdown, Leave, SaveOpen, SaveClose, SaveFails, JoinScript,
                JoinNetwork, JoinThreads, DeleteSteppers, Goes, Phase
  <2>2. terminated' \in BOOLEAN
    BY <1>1, <1>4, Zenon DEF Shutdown, Leave, SaveOpen, SaveClose, SaveFails,
       JoinScript, JoinNetwork, JoinThreads, DeleteSteppers
  <2>3. UNCHANGED <<thread, left, crashes>>
    BY <1>4 DEF Shutdown, Leave, SaveOpen, SaveClose, SaveFails, JoinScript,
                JoinNetwork, JoinThreads, DeleteSteppers
  <2> QED
    BY <1>1, <2>1, <2>2, <2>3 DEF ProcessOK
<1>5. CASE RobotThreads
  <2>1. phase' = phase /\ terminated' = terminated /\ crashes' = crashes
    BY <1>5 DEF RobotThreads, Look, HomingBody, MotionBody, ServoBody
  <2>2. left' \subseteq Motor
    BY <1>1, <1>5 DEF RobotThreads, Look, HomingBody, MotionBody, ServoBody
  <2>3. thread' \in [Thread -> {"check", "body", "ended"}]
    BY <1>1, <1>5 DEF RobotThreads, Look, HomingBody, MotionBody, ServoBody, Again,
                      Thread
  <2> QED
    BY <1>1, <2>1, <2>2, <2>3, Zenon DEF ProcessOK
<1>6. CASE UNCHANGED <<process, crashes>>
  BY <1>1, <1>6, Zenon DEF process, ProcessOK
<1>7. CASE Callers
  <2>1. Teach => UNCHANGED <<process, crashes>>
    BY DEF Teach
  <2>2. \A c \in Caller :
          SendMove(c) \/ AskHoming(c) \/ Grip(c) => UNCHANGED <<process, crashes>>
    BY DEF SendMove, AskHoming, Grip, Untouched
  <2>3. \A c \in Caller, m \in Motor :
          AskMove(c, m) \/ Command(c, m) => UNCHANGED <<process, crashes>>
    BY DEF AskMove, Command, Untouched
  <2> QED
    BY <1>6, <1>7, <2>1, <2>2, <2>3, Zenon DEF Callers
<1>8. CASE Drivers
  BY <1>6, <1>8, Zenon DEF Drivers
<1>9. CASE UNCHANGED vars
  BY <1>6, <1>9, Zenon DEF vars
<1> QED
  BY <1>2, <1>3, <1>4, <1>5, <1>7, <1>8, <1>9, Zenon DEF Next

CallersOK == asking \in [Caller -> Motor \cup {NoAxis}] /\ calls \in 0..MaxCalls

LEMMA CallersNext == CallersOK /\ [Next]_vars => CallersOK'
<1> SUFFICES ASSUME CallersOK, [Next]_vars PROVE CallersOK'
  OBVIOUS
<1>1. CASE UNCHANGED callers
  BY <1>1 DEF callers, CallersOK
<1>2. CASE Start \/ Crash
  <2>1. asking' = [c \in Caller |-> NoAxis] /\ calls' = 0
    BY <1>2, Zenon DEF Start, Crash, Fresh
  <2> QED
    BY <2>1, MainAssumption DEF CallersOK
<1>3. ASSUME NEW c \in Caller, Calls(c) PROVE calls' \in 0..MaxCalls
  <2>1. calls < MaxCalls /\ calls' = calls + 1
    BY <1>3, Zenon DEF Calls
  <2> QED
    BY <2>1, MainAssumption DEF CallersOK
<1>4. CASE Callers
  <2>1. Teach => CallersOK'
    BY <1>3 DEF Teach, CallersOK, Caller
  <2>2. ASSUME NEW c \in Caller, SendMove(c) \/ AskHoming(c) \/ Grip(c) PROVE CallersOK'
    BY <1>3, <2>2 DEF SendMove, AskHoming, Grip, CallersOK
  <2>3. ASSUME NEW c \in Caller, NEW m \in Motor, AskMove(c, m) \/ Command(c, m)
        PROVE  CallersOK'
    BY <1>3, <2>3 DEF AskMove, Command, CallersOK
  <2> QED
    BY <1>4, <2>1, <2>2, <2>3 DEF Callers
<1>5. CASE RobotThreads
  <2>1. UNCHANGED callers
    BY <1>5, Zenon DEF RobotThreads, Look, HomingBody, MotionBody, ServoBody
  <2> QED
    BY <1>1, <2>1
<1>6. CASE Drivers
  <2>1. UNCHANGED callers
    BY <1>6, Zenon DEF Drivers
  <2> QED
    BY <1>1, <2>1
<1>7. CASE Shutdown
  BY <1>1, <1>7 DEF Shutdown, Leave, SaveOpen, SaveClose, SaveFails, JoinScript,
                    JoinNetwork, JoinThreads, DeleteSteppers
<1>8. CASE UNCHANGED vars
  BY <1>1, <1>8 DEF vars
<1> QED
  BY <1>2, <1>4, <1>5, <1>6, <1>7, <1>8 DEF Next

-----------------------------------------------------------------------------
(* The motors: one that turns was excited when it was last looked at, so   *)
(* that ~L6470 stops it, unless it was started after it had been seen off. *)

Guarded(x) == x.mode = "move" => ~x.halted

ArmOK == /\ axis \in [Motor -> AxisState] /\ raced \subseteq Motor
         /\ \A m \in Motor \ raced : Guarded(axis[m])

LEMMA GuardedSteps ==
  ASSUME NEW x \in AxisState
  PROVE  /\ Guarded(PoweredUp) /\ Guarded(HardStop(x)) /\ Guarded(HardHIZ(x))
         /\ Guarded(MotionEnds(x)) /\ Guarded(Faulted(x)) /\ Guarded(Refresh(x))
         /\ Guarded(x) => /\ Guarded(SoftStop(x)) /\ Guarded(ClearAlarm(x))
                          /\ Guarded(StartHoming(x))
         /\ ~x.halted => Guarded(MoveTo(x))
<1> USE DEF Guarded, Energise, AxisState
<1>1. Guarded(PoweredUp)
  BY DEF PoweredUp
<1>2. Guarded(HardStop(x)) /\ Guarded(HardHIZ(x))
  BY DEF HardStop, HardHIZ
<1>3. Guarded(MotionEnds(x)) /\ Guarded(Faulted(x)) /\ Guarded(Refresh(x))
  BY DEF MotionEnds, Faulted, Refresh
<1>4. Guarded(x) => Guarded(SoftStop(x)) /\ Guarded(ClearAlarm(x))
  BY DEF SoftStop, ClearAlarm
<1>5. Guarded(x) => Guarded(StartHoming(x))
  <2>1. SoftStop(x) \in AxisState
    BY SoftStopType
  <2> QED
    BY <1>4, <2>1 DEF StartHoming
<1>6. ~x.halted => Guarded(MoveTo(x))
  BY DEF MoveTo
<1> QED
  BY <1>1, <1>2, <1>3, <1>4, <1>5, <1>6

LEMMA ExecControlGuarded ==
  ASSUME NEW x \in AxisState, NEW y \in ExecControl(x) PROVE Guarded(y)
<1>1. Refresh(x) \in AxisState /\ Guarded(Refresh(x))
  BY RefreshType, GuardedSteps
<1>2. ASSUME NEW r \in AxisState, Guarded(r), y \in HomingCall(r) PROVE Guarded(y)
  BY <1>2 DEF HomingCall, Guarded, AxisState
<1> QED
  BY <1>1, <1>2 DEF ExecControl

(* One axis changes, or all of them do.                                    *)
LEMMA OneMotor ==
  ASSUME ArmOK, NEW m \in Motor, NEW x \in AxisState, axis' = [axis EXCEPT ![m] = x],
         raced' = raced, m \in raced \/ Guarded(x)
  PROVE  ArmOK'
BY DEF ArmOK

LEMMA AllMotors ==
  ASSUME ArmOK, axis' \in [Motor -> AxisState], raced' = raced,
         \A m \in Motor \ raced : Guarded(axis'[m])
  PROVE  ArmOK'
BY DEF ArmOK

LEMMA ArmThreads == ProcessOK /\ ArmOK /\ (HomingBody \/ MotionBody) => ArmOK'
<1> SUFFICES ASSUME ProcessOK, ArmOK, HomingBody \/ MotionBody PROVE ArmOK'
  OBVIOUS
<1>1. CASE HomingBody
  <2>1. CASE UNCHANGED axis
    BY <1>1, <2>1 DEF HomingBody, ArmOK
  <2>2. CASE ~UNCHANGED axis
    <3>1. PICK armed \in SUBSET Motor, stopped \in SUBSET Motor :
            axis' = [m \in Motor |-> IF m \in armed THEN StartHoming(axis[m])
                                     ELSE IF m \in stopped THEN HardStop(axis[m])
                                     ELSE axis[m]]
      BY <1>1, <2>2 DEF HomingBody
    <3>2. axis' \in [Motor -> AxisState]
      BY <3>1, StartHomingType, HardStopType DEF ArmOK
    <3>3. \A m \in Motor \ raced : Guarded(axis'[m])
      BY <3>1, GuardedSteps DEF ArmOK
    <3> QED
      BY <1>1, <3>2, <3>3, AllMotors DEF HomingBody
  <2> QED
    BY <2>1, <2>2
<1>2. CASE MotionBody
  <2>1. PICK m \in Motor : \E x \in ExecControl(axis[m]) :
          \/ axis' = [axis EXCEPT ![m] = x]
          \/ axis' = [n \in Motor |-> HardHIZ([axis EXCEPT ![m] = x][n])]
    BY <1>2 DEF MotionBody, ProcessOK
  <2>2. PICK x \in ExecControl(axis[m]) :
          \/ axis' = [axis EXCEPT ![m] = x]
          \/ axis' = [n \in Motor |-> HardHIZ([axis EXCEPT ![m] = x][n])]
    BY <2>1
  <2>5. x \in AxisState /\ Guarded(x) /\ raced' = raced
    BY <1>2, <2>2, ExecControlType, ExecControlGuarded DEF MotionBody, ArmOK
  <2>3. CASE axis' = [axis EXCEPT ![m] = x]
    BY <2>5, <2>3, OneMotor
  <2>4. CASE axis' = [n \in Motor |-> HardHIZ([axis EXCEPT ![m] = x][n])]
    <3>1. \A n \in Motor : [axis EXCEPT ![m] = x][n] \in AxisState
      BY <2>5 DEF ArmOK
    <3>2. axis' \in [Motor -> AxisState] /\ \A n \in Motor : Guarded(axis'[n])
      BY <2>4, <3>1, HardHIZType, GuardedSteps
    <3> QED
      BY <2>5, <3>2, AllMotors
  <2> QED
    BY <2>2, <2>3, <2>4
<1> QED
  BY <1>1, <1>2

LEMMA ArmCallers ==
  CallersOK /\ ArmOK /\ (\E c \in Caller : SendMove(c) \/ \E m \in Motor : Command(c, m))
    => ArmOK'
<1> SUFFICES ASSUME CallersOK, ArmOK, NEW c \in Caller,
                    SendMove(c) \/ \E m \in Motor : Command(c, m)
             PROVE  ArmOK'
  OBVIOUS
<1>1. CASE SendMove(c)
  <2> DEFINE m == asking[c]
  <2>1. m \in Motor /\ axis[m] \in AxisState
    BY <1>1 DEF SendMove, CallersOK, ArmOK
  <2>2. axis' = [axis EXCEPT ![m] = MoveTo(axis[m])]
    BY <1>1, <2>1 DEF SendMove, ArmOK
  <2>3. CASE axis[m].halted
    <3>1. raced' = raced \cup {m}
      BY <1>1, <2>3 DEF SendMove
    <3> QED
      BY <2>1, <2>2, <3>1, MoveToType DEF ArmOK
  <2>4. CASE ~axis[m].halted
    <3>1. raced' = raced
      BY <1>1, <2>4 DEF SendMove
    <3> QED
      BY <2>1, <2>2, <2>4, <3>1, MoveToType, GuardedSteps, OneMotor
  <2> QED
    BY <2>3, <2>4
<1>2. ASSUME NEW m \in Motor, Command(c, m) PROVE ArmOK'
  <2>1. PICK x \in {HardStop(axis[m]), SoftStop(axis[m]), HardHIZ(axis[m]),
                    ClearAlarm(axis[m])} : axis' = [axis EXCEPT ![m] = x]
    BY <1>2 DEF Command
  <2>2. raced' = raced
    BY <1>2 DEF Command
  <2>3. x \in AxisState
    BY <2>1, HardStopType, SoftStopType, HardHIZType, ClearAlarmType DEF ArmOK
  <2>4. m \in raced \/ Guarded(x)
    BY <2>1, GuardedSteps DEF ArmOK
  <2> QED
    BY <2>1, <2>2, <2>3, <2>4, OneMotor
<1> QED
  BY <1>1, <1>2

LEMMA ArmDrivers == ArmOK /\ (Drivers \/ DeleteSteppers) => ArmOK'
<1> SUFFICES ASSUME ArmOK, Drivers \/ DeleteSteppers PROVE ArmOK'
  OBVIOUS
<1>1. raced' = raced
  BY DEF Drivers, DeleteSteppers
<1>2. CASE Drivers
  <2>1. PICK m \in Motor : \E x \in {MotionEnds(axis[m]), Faulted(axis[m])} :
          axis' = [axis EXCEPT ![m] = x]
    BY <1>2 DEF Drivers, ArmOK
  <2>2. PICK x \in {MotionEnds(axis[m]), Faulted(axis[m])} :
          axis' = [axis EXCEPT ![m] = x]
    BY <2>1
  <2>3. x \in AxisState /\ Guarded(x)
    BY <2>2, MotionEndsType, FaultedType, GuardedSteps DEF ArmOK
  <2> QED
    BY <1>1, <2>2, <2>3, OneMotor
<1>3. CASE DeleteSteppers
  <2>1. \A m \in Motor : /\ Delete(axis[m]) \in AxisState
                         /\ m \in raced \/ Guarded(Delete(axis[m]))
    BY HardStopType, GuardedSteps DEF Delete, ArmOK
  <2>2. axis' = [m \in Motor |-> Delete(axis[m])]
    BY <1>3 DEF DeleteSteppers
  <2> QED
    BY <1>1, <2>1, <2>2, AllMotors
<1> QED
  BY <1>2, <1>3

LEMMA ArmNext == ProcessOK /\ CallersOK /\ ArmOK /\ [Next]_vars => ArmOK'
<1> SUFFICES ASSUME ProcessOK, CallersOK, ArmOK, [Next]_vars PROVE ArmOK'
  OBVIOUS
<1>1. CASE UNCHANGED <<axis, raced>>
  BY <1>1 DEF ArmOK
<1>2. CASE Fresh
  <2>1. PoweredUp \in AxisState
    BY DEF PoweredUp, AxisState, Mode, HomingPhase
  <2>2. Guarded(PoweredUp)
    BY DEF Guarded, PoweredUp
  <2> QED
    BY <1>2, <2>1, <2>2 DEF Fresh, PoweredUpArm, ArmOK
<1>3. CASE Start \/ Crash
  BY <1>2, <1>3 DEF Start, Crash
<1>4. CASE RobotThreads
  <2>1. HomingBody \/ MotionBody \/ UNCHANGED <<axis, raced>>
    BY <1>4 DEF RobotThreads, Look, ServoBody, arm
  <2> QED
    BY <1>1, <2>1, ArmThreads
<1>5. CASE Callers
  <2>1. Teach => UNCHANGED <<axis, raced>>
    BY DEF Teach, arm
  <2>2. ASSUME NEW c \in Caller, SendMove(c) \/ AskHoming(c) \/ Grip(c) PROVE ArmOK'
    <3>1. SendMove(c) \/ UNCHANGED <<axis, raced>>
      BY <2>2 DEF AskHoming, Grip, arm
    <3> QED
      BY <1>1, <3>1, ArmCallers
  <2>3. ASSUME NEW c \in Caller, NEW m \in Motor, AskMove(c, m) \/ Command(c, m)
        PROVE  ArmOK'
    <3>1. Command(c, m) \/ UNCHANGED <<axis, raced>>
      BY <2>3 DEF AskMove, arm
    <3> QED
      BY <1>1, <3>1, ArmCallers
  <2> QED
    BY <1>1, <1>5, <2>1, <2>2, <2>3 DEF Callers
<1>6. CASE Drivers
  BY <1>6, ArmDrivers
<1>7. CASE Shutdown
  <2>1. DeleteSteppers \/ UNCHANGED <<axis, raced>>
    BY <1>7 DEF Shutdown, Leave, SaveOpen, SaveClose, SaveFails, JoinScript,
                JoinNetwork, JoinThreads, arm
  <2> QED
    BY <1>1, <2>1, ArmDrivers
<1>8. CASE UNCHANGED vars
  BY <1>1, <1>8 DEF vars, arm
<1> QED
  BY <1>3, <1>4, <1>5, <1>6, <1>7, <1>8 DEF Next

(* What ended in order stays as it is: nobody is left to command a motor.  *)
LEMMA StoppedNext == ArmOK /\ StoppedAtExit /\ [Next]_vars => StoppedAtExit'
<1> SUFFICES ASSUME ArmOK, StoppedAtExit, [Next]_vars, phase' = "ended",
                    NEW m \in Motor \ raced'
             PROVE  axis'[m].mode # "move"
  BY DEF StoppedAtExit
<1>1. CASE phase = "ended"
  <2>1. ~Running /\ \A c \in Caller : ~Alive(c)
    BY <1>1 DEF Running, Alive, Panel
  <2>2. UNCHANGED <<axis, raced>>
    <3>1. ~Start /\ ~Crash
      BY <1>1 DEF Start, Crash
    <3>2. ~Shutdown
      BY <1>1 DEF Shutdown, Leave, SaveOpen, SaveClose, SaveFails, JoinScript,
                  JoinNetwork, JoinThreads, DeleteSteppers, Goes
    <3>3. ~RobotThreads
      BY <2>1 DEF RobotThreads, Look, HomingBody, MotionBody, ServoBody, Again
    <3>4. ~Callers
      BY <2>1 DEF Callers, SendMove, AskHoming, Grip, AskMove, Command, Teach, Calls,
                  Caller
    <3>5. ~Drivers
      BY <2>1 DEF Drivers
    <3> QED
      BY <3>1, <3>2, <3>3, <3>4, <3>5 DEF Next, vars, arm
  <2> QED
    BY <1>1, <2>2 DEF StoppedAtExit
<1>2. CASE phase # "ended"
  <2>1. DeleteSteppers
    <3>1. ~Start /\ ~Crash /\ phase' # phase
      BY <1>2 DEF Start, Crash
    <3>2. ~RobotThreads /\ ~Drivers
      BY <3>1 DEF RobotThreads, Look, HomingBody, MotionBody, ServoBody, Drivers, process
    <3>3. ~Callers
      BY <3>1 DEF Callers, SendMove, AskHoming, Grip, AskMove, Command, Teach, Untouched,
                  process
    <3>4. Shutdown
      BY <3>1, <3>2, <3>3 DEF Next, vars, process
    <3> QED
      BY <3>4 DEF Shutdown, Leave, SaveOpen, SaveClose, SaveFails, JoinScript,
                  JoinNetwork, JoinThreads, Goes
  <2>2. axis'[m] = Delete(axis[m]) /\ m \in Motor \ raced
    BY <2>1 DEF DeleteSteppers
  <2>3. axis[m] \in AxisState /\ Guarded(axis[m])
    BY <2>2 DEF ArmOK
  <2> QED
    BY <2>2, <2>3 DEF Delete, HardStop, Energise, Guarded, AxisState
<1> QED
  BY <1>1, <1>2

-----------------------------------------------------------------------------
(* The teaching table: the file holds what was last to be saved, whole or, *)
(* as long as that save is not through, a first part of it.                *)

TeachingOK ==
  /\ table \in Table /\ stored \in Table /\ cut \in BOOLEAN
  /\ ~cut => \/ file = NoFile /\ stored = Defaults
             \/ file = stored
  /\ cut => \E n \in 0..Points : file = SubSeq(stored, 1, n)
  /\ phase = "close" => cut /\ stored = table

(* A table is a sequence, and its first part is one too.                   *)
LEMMA FirstPart ==
  ASSUME NEW t \in Table, NEW n \in 0..Points
  PROVE  /\ t \in Seq(Row) /\ Len(t) = Points
         /\ SubSeq(t, 1, n) \in Seq(Row) /\ SubSeq(t, 1, n) \in [1..n -> Row]
         /\ Len(SubSeq(t, 1, n)) = n
         /\ \A p \in 1..n : SubSeq(t, 1, n)[p] = t[p]
<1>1. t \in [1..Points -> Row] /\ Points \in Nat
  BY MainAssumption DEF Table
<1>2. t \in Seq(Row) /\ Len(t) = Points
  BY <1>1
<1>3. \A i \in 1..n : t[i] \in Row
  BY <1>1
<1>4. /\ SubSeq(t, 1, n) \in Seq(Row)
      /\ Len(SubSeq(t, 1, n)) = (IF 1 <= n THEN n - 1 + 1 ELSE 0)
      /\ \A i \in 1 .. n - 1 + 1 : SubSeq(t, 1, n)[i] = t[1 + i - 1]
  BY <1>1, <1>3, SubSeqProperties
<1>5. Len(SubSeq(t, 1, n)) = n /\ \A i \in 1..n : SubSeq(t, 1, n)[i] = t[i]
  BY <1>1, <1>4
<1>6. SubSeq(t, 1, n) \in [1..Len(SubSeq(t, 1, n)) -> Row]
  BY <1>4, LenProperties, Zenon
<1> QED
  BY <1>2, <1>4, <1>5, <1>6

LEMMA NoFileIsNone ==
  /\ \A t \in Table, n \in 0..Points : SubSeq(t, 1, n) # NoFile
  /\ \A t \in Table : t # NoFile
<1>1. ASSUME NEW s \in Seq(Row) PROVE s # NoFile
  <2>1. "absent" \notin Row
    BY MainAssumption DEF Row, Zero, Default
  <2>2. Len(NoFile) = 1 /\ NoFile[1] = "absent"
    BY DEF NoFile
  <2>3. Len(s) = 1 => s[1] \in Row
    BY LenProperties
  <2> QED
    BY <2>1, <2>2, <2>3
<1>2. ASSUME NEW t \in Table, NEW n \in 0..Points PROVE SubSeq(t, 1, n) \in Seq(Row)
  BY FirstPart
<1>3. \A t \in Table : t \in Seq(Row)
  BY FirstPart, MainAssumption
<1> QED
  BY <1>1, <1>2, <1>3

LEMMA LoadedIsStored ==
  ASSUME TeachingOK
  PROVE  /\ Loaded \in Table
         /\ \A p \in 1..Points : \/ Loaded[p] = stored[p]
                                 \/ cut /\ \A q \in p..Points : Loaded[q] = Zero
<1>1. CASE ~cut /\ file = NoFile
  <2>1. stored = Defaults \/ file = stored
    BY <1>1 DEF TeachingOK
  <2>2. stored \in Table /\ file # stored
    BY <1>1, NoFileIsNone DEF TeachingOK
  <2>3. Loaded = Defaults
    BY <1>1 DEF Loaded
  <2> QED
    BY <2>1, <2>2, <2>3
<1>2. CASE ~cut /\ file # NoFile
  <2>1. file = stored /\ stored \in Table /\ Len(stored) = Points
    BY <1>2, FirstPart, MainAssumption DEF TeachingOK
  <2>2. Loaded = [p \in 1..Points |-> IF p <= Len(file) THEN file[p] ELSE Zero]
    BY <1>2 DEF Loaded
  <2> QED
    BY <2>1, <2>2, MainAssumption DEF Table, Row
<1>3. CASE cut
  <2>1. PICK n \in 0..Points : file = SubSeq(stored, 1, n)
    BY <1>3 DEF TeachingOK
  <2>2. /\ file # NoFile /\ Len(file) = n /\ file \in [1..n -> Row]
        /\ \A p \in 1..n : file[p] = stored[p]
    BY <2>1, FirstPart, NoFileIsNone DEF TeachingOK
  <2>3. Loaded = [p \in 1..Points |-> IF p <= n THEN file[p] ELSE Zero]
    BY <2>2 DEF Loaded
  <2>4. Loaded \in Table
    BY <2>2, <2>3, MainAssumption DEF Table, Row
  <2>5. \A p \in 1..n : Loaded[p] = stored[p]
    BY <2>2, <2>3, MainAssumption
  <2>6. \A p \in (n + 1)..Points : Loaded[p] = Zero
    BY <2>3, MainAssumption
  <2> QED
    BY <1>3, <2>4, <2>5, <2>6, MainAssumption
<1> QED
  BY <1>1, <1>2, <1>3

LEMMA TeachingNext == ProcessOK /\ TeachingOK /\ [Next]_vars => TeachingOK'
<1> SUFFICES ASSUME ProcessOK, TeachingOK, [Next]_vars PROVE TeachingOK'
  OBVIOUS
<1>1. CASE UNCHANGED teaching /\ (phase' = phase \/ phase' # "close")
  BY <1>1 DEF teaching, TeachingOK
<1>2. CASE Start
  <2>1. table' \in Table /\ UNCHANGED <<file, stored, cut>> /\ phase' = "up"
    BY <1>2, LoadedIsStored DEF Start
  <2> QED
    BY <2>1 DEF TeachingOK
<1>3. CASE Crash
  <2>1. Constructed \in Table
    BY DEF Constructed, Table, Row
  <2>2. table' = Constructed /\ UNCHANGED <<file, stored, cut>> /\ phase' = "off"
    BY <1>3 DEF Crash
  <2> QED
    BY <2>1, <2>2 DEF TeachingOK
<1>4. CASE SaveOpen
  <2>1. CASE phase' = "script"
    BY <1>1, <1>4, <2>1 DEF SaveOpen, teaching
  <2>2. CASE phase' # "script"
    <3>1. /\ file' = <<>> /\ cut' /\ cut' \in BOOLEAN /\ stored' = table /\ table' = table
      BY <1>4, <2>2, Zenon DEF SaveOpen
    <3>3. 0 \in 0..Points /\ table \in Table
      BY MainAssumption DEF TeachingOK
    <3>2. SubSeq(table, 1, 0) = <<>>
      BY SubSeqEmpty
    <3>4. \E n \in 0..Points : file' = SubSeq(stored', 1, n)
      BY <3>1, <3>2, <3>3
    <3> QED
      <4>1. phase' = "close" => cut' /\ stored' = table'
        BY <3>1
      <4>2. table' \in Table /\ stored' \in Table
        BY <3>1, <3>3
      <4> QED
        BY <3>1, <3>4, <4>1, <4>2, Zenon DEF TeachingOK
  <2> QED
    BY <2>1, <2>2
<1>5. CASE SaveClose
  <2>1. /\ stored = table /\ phase' = "script" /\ file' = table /\ ~cut'
        /\ cut' \in BOOLEAN /\ UNCHANGED <<table, stored>>
    BY <1>5, Zenon DEF SaveClose, TeachingOK
  <2>2. phase' # "close" /\ file' = stored' /\ table' \in Table /\ stored' \in Table
    BY <2>1 DEF TeachingOK
  <2> QED
    BY <2>1, <2>2, Zenon DEF TeachingOK
<1>6. CASE SaveFails
  <2>1. PICK n \in 0..(Points - 1) : file' = SubSeq(table, 1, n)
    BY <1>6 DEF SaveFails
  <2>2. stored = table /\ cut /\ phase' = "script" /\ UNCHANGED <<table, stored, cut>>
    BY <1>6 DEF SaveFails, TeachingOK
  <2> QED
    <3>1. n \in 0..Points /\ file' = SubSeq(stored', 1, n)
      BY <2>1, <2>2, MainAssumption
    <3>2. table' \in Table /\ stored' \in Table /\ cut' \in BOOLEAN /\ phase' # "close"
      BY <2>2, Zenon DEF TeachingOK
    <3> QED
      BY <2>2, <3>1, <3>2, Zenon DEF TeachingOK
<1>7. CASE Leave \/ JoinScript \/ JoinNetwork \/ JoinThreads \/ DeleteSteppers
  BY <1>1, <1>7 DEF Leave, JoinScript, JoinNetwork, JoinThreads, DeleteSteppers, Goes
<1>8. CASE RobotThreads \/ Drivers
  BY <1>1, <1>8 DEF RobotThreads, Look, HomingBody, MotionBody, ServoBody, Drivers, process
<1>9. CASE Teach
  <2>1. phase = "up" /\ phase' = phase /\ UNCHANGED <<file, stored, cut>>
    <3>1. Alive(Panel) => phase = "up"
      BY DEF Alive, Panel
    <3>2. Alive(Panel) /\ phase' = phase /\ UNCHANGED <<file, stored, cut>>
      BY <1>9 DEF Teach, Calls, process
    <3> QED
      BY <3>1, <3>2
  <2>2. table' \in Table
    BY <1>9 DEF Teach, TeachingOK, Table, Row
  <2>3. phase' # "close"
    BY <2>1
  <2> QED
    BY <2>1, <2>2, <2>3, Zenon DEF TeachingOK
<1>10. CASE Callers
  <2>1. \A c \in Caller : SendMove(c) \/ AskHoming(c) \/ Grip(c)
          => UNCHANGED teaching /\ phase' = phase
    BY DEF SendMove, AskHoming, Grip, Untouched, process
  <2>2. \A c \in Caller, m \in Motor : AskMove(c, m) \/ Command(c, m)
          => UNCHANGED teaching /\ phase' = phase
    BY DEF AskMove, Command, Untouched, process
  <2> QED
    BY <1>1, <1>9, <1>10, <2>1, <2>2 DEF Callers
<1>11. CASE UNCHANGED vars
  BY <1>1, <1>11 DEF vars, process
<1> QED
  BY <1>2, <1>3, <1>4, <1>5, <1>6, <1>7, <1>8, <1>10, <1>11 DEF Next, Shutdown

(* The rest of what the robot's threads and the callers keep.              *)
RestOK == homingState \in BOOLEAN /\ motionState \subseteq Motor /\ faults \in 0..MaxFaults

LEMMA RestNext == ProcessOK /\ CallersOK /\ RestOK /\ [Next]_vars => RestOK'
<1> SUFFICES ASSUME ProcessOK, CallersOK, RestOK, [Next]_vars PROVE RestOK'
  OBVIOUS
<1>1. CASE UNCHANGED <<homingState, motionState, faults>>
  BY <1>1, Zenon DEF RestOK
<1>2. CASE Start \/ Crash
  <2>1. homingState' = FALSE /\ motionState' = {} /\ faults' = 0
    BY <1>2, Zenon DEF Start, Crash, Fresh
  <2>2. homingState' \in BOOLEAN
    BY <2>1
  <2> QED
    BY <2>1, <2>2, MainAssumption DEF RestOK
<1>3. CASE RobotThreads
  <2>1. homingState' \in BOOLEAN
    BY <1>3, Zenon DEF RobotThreads, Look, HomingBody, MotionBody, ServoBody, arm, RestOK
  <2>2. motionState' \subseteq Motor
    BY <1>3 DEF RobotThreads, Look, HomingBody, MotionBody, ServoBody, arm, RestOK
  <2>3. faults' = faults
    BY <1>3 DEF RobotThreads, Look, HomingBody, MotionBody, ServoBody, arm
  <2> QED
    BY <2>1, <2>2, <2>3, Zenon DEF RestOK
<1>4. CASE Callers
  <2>1. Teach => UNCHANGED <<homingState, motionState, faults>>
    BY DEF Teach, arm
  <2>2. ASSUME NEW c \in Caller, SendMove(c) PROVE RestOK'
    <3>1. motionState' = motionState \cup {asking[c]} /\ asking[c] \in Motor
      BY <2>2 DEF SendMove, CallersOK
    <3>2. homingState' = homingState /\ faults' = faults
      BY <2>2 DEF SendMove
    <3>3. motionState' \subseteq Motor
      BY <3>1 DEF RestOK
    <3> QED
      BY <3>2, <3>3, Zenon DEF RestOK
  <2>3. ASSUME NEW c \in Caller, AskHoming(c) PROVE RestOK'
    BY <2>3, Zenon DEF AskHoming, RestOK
  <2>4. \A c \in Caller : Grip(c) => UNCHANGED <<homingState, motionState, faults>>
    BY DEF Grip, arm
  <2>5. \A c \in Caller, m \in Motor :
          AskMove(c, m) \/ Command(c, m) => UNCHANGED <<homingState, motionState, faults>>
    BY DEF AskMove, Command, arm
  <2> QED
    BY <1>1, <1>4, <2>1, <2>2, <2>3, <2>4, <2>5, Zenon DEF Callers
<1>5. CASE Drivers
  <2>1. UNCHANGED <<homingState, motionState>>
    BY <1>5, Zenon DEF Drivers
  <2>2. faults' = faults \/ (faults < MaxFaults /\ faults' = faults + 1)
    BY <1>5, Zenon DEF Drivers
  <2>3. faults' \in 0..MaxFaults
    BY <2>2, MainAssumption DEF RestOK
  <2> QED
    BY <2>1, <2>3, Zenon DEF RestOK
<1>6. CASE Shutdown
  <2>1. UNCHANGED <<homingState, motionState, faults>>
    BY <1>6 DEF Shutdown, Leave, SaveOpen, SaveClose, SaveFails, JoinScript,
                JoinNetwork, JoinThreads, DeleteSteppers, arm
  <2> QED
    BY <1>1, <2>1
<1>7. CASE UNCHANGED vars
  BY <1>1, <1>7 DEF vars, arm
<1> QED
  BY <1>2, <1>3, <1>4, <1>5, <1>6, <1>7, Zenon DEF Next

-----------------------------------------------------------------------------
(* The theorems.                                                           *)

Inv == ProcessOK /\ CallersOK /\ ArmOK /\ RestOK /\ TeachingOK

LEMMA InitInv == Init => Inv
<1> SUFFICES ASSUME Init PROVE Inv
  OBVIOUS
<1>1. terminated \in BOOLEAN /\ homingState \in BOOLEAN /\ cut \in BOOLEAN
  BY Zenon DEF Init
<1>2. ProcessOK
  BY <1>1, MainAssumption DEF Init, ProcessOK, Phase
<1>3. CallersOK
  BY MainAssumption DEF Init, CallersOK
<1>4. ArmOK
  <2>1. PoweredUp \in AxisState /\ Guarded(PoweredUp)
    BY DEF PoweredUp, AxisState, Mode, HomingPhase, Guarded
  <2> QED
    BY <2>1 DEF Init, PoweredUpArm, ArmOK
<1>5. RestOK
  <2>1. motionState = {} /\ faults \in 0..MaxFaults
    BY MainAssumption DEF Init
  <2> QED
    BY <1>1, <2>1, Zenon DEF RestOK
<1>6. TeachingOK
  <2>1. Constructed \in Table /\ Defaults \in Table
    BY DEF Constructed, Defaults, Table, Row
  <2>2. /\ table = Constructed /\ stored = Defaults /\ file = NoFile
        /\ ~cut /\ phase = "off"
    BY Zenon DEF Init
  <2>3. phase # "close"
    BY <2>2
  <2> QED
    BY <1>1, <2>1, <2>2, <2>3, Zenon DEF TeachingOK
<1> QED
  BY <1>2, <1>3, <1>4, <1>5, <1>6 DEF Inv

(* Every step keeps the parts of the invariant together.                   *)
LEMMA InvNext == Inv /\ [Next]_vars => Inv'
BY ProcessNext, CallersNext, ArmNext, RestNext, TeachingNext, Zenon DEF Inv

(* The parts of the invariant hold in every state of every session.        *)
THEOREM Invariant == Spec => []Inv
BY InitInv, InvNext, PTL DEF Spec

(* The program's variables keep their types.                               *)
THEOREM TypeCorrect == Spec => []TypeOK
<1>1. Init => GripperInv
  BY FullyOpen DEF Init, GripperInit, GripperInv, GripperTypeOK
<1>2. ASSUME Inv, GripperInv PROVE TypeOK
  <2>1. file \in File
    <3>1. CASE ~cut
      <4>1. file = NoFile \/ (file = stored /\ stored \in [1..Points -> Row])
        BY <1>2, <3>1 DEF Inv, TeachingOK, Table
      <4>2. Points \in 0..Points
        BY MainAssumption
      <4> QED
        BY <4>1, <4>2 DEF File
    <3>2. CASE cut
      <4>1. PICK n \in 0..Points : file = SubSeq(stored, 1, n)
        BY <1>2, <3>2 DEF Inv, TeachingOK
      <4>2. file \in [1..n -> Row]
        BY <1>2, <4>1, FirstPart DEF Inv, TeachingOK
      <4> QED
        BY <4>2 DEF File
    <3> QED
      BY <3>1, <3>2
  <2> QED
    BY <1>2, <2>1, Zenon DEF Inv, ProcessOK, CallersOK, ArmOK, RestOK, TeachingOK,
                             GripperInv, TypeOK
<1> QED
  BY Invariant, <1>1, <1>2, GripperNext, PTL DEF Spec

(* Whatever the callers do until main has waited for their threads, and    *)
(* whatever Robot's threads do until they end, no motor is left turning by *)
(* the destructors (main, ~Robot and ~L6470).                              *)
THEOREM NothingTurnsAtExit == Spec => []StoppedAtExit
<1>1. Init => StoppedAtExit
  BY DEF Init, StoppedAtExit
<1>2. Inv /\ StoppedAtExit /\ [Next]_vars => StoppedAtExit'
  BY StoppedNext DEF Inv
<1> QED
  BY Invariant, <1>1, <1>2, PTL DEF Spec

(* The teaching table survives the process, whatever it is killed or the   *)
(* disk full at (TeachingView's constructor and destructor).               *)
THEOREM TableSurvives == Spec => TableKept
<1> DEFINE Kept == (~Running /\ phase' = "up")
                   => \A p \in 1..Points :
                        \/ table'[p] = stored[p]
                        \/ cut /\ \A q \in p..Points : table'[q] = Zero
<1>1. Inv /\ [Next]_vars => Kept
  <2> SUFFICES ASSUME Inv, [Next]_vars, ~Running, phase' = "up"
               PROVE  \A p \in 1..Points :
                        \/ table'[p] = stored[p]
                        \/ cut /\ \A q \in p..Points : table'[q] = Zero
    OBVIOUS
  <2>1. Start
    <3>1. phase \in {"off", "ended"} /\ phase' # phase
      BY DEF Inv, ProcessOK, Phase, Running
    <3>2. ~Crash /\ ~Shutdown
      BY <3>1 DEF Crash, Shutdown, Leave, SaveOpen, SaveClose, SaveFails, JoinScript,
                  JoinNetwork, JoinThreads, DeleteSteppers, Goes
    <3>3. ~RobotThreads /\ ~Drivers
      BY DEF RobotThreads, Look, HomingBody, MotionBody, ServoBody, Again, Drivers
    <3>4. ~Callers
      BY <3>1 DEF Callers, SendMove, AskHoming, Grip, AskMove, Command, Teach, Untouched,
                  process
    <3> QED
      BY <3>1, <3>2, <3>3, <3>4 DEF Next, vars, process
  <2>2. table' = Loaded
    BY <2>1 DEF Start
  <2> QED
    BY <2>2, LoadedIsStored, Zenon DEF Inv
<1> QED
  BY Invariant, <1>1, PTL DEF Spec, TableKept
=============================================================================
