-------------------------------- MODULE Main --------------------------------
(***************************************************************************)
(* The program from its start to its end, and to its next start: main, the *)
(* destructors in the order it runs them, the threads they wait for, and   *)
(* what outlives the process, which is the teaching table in its file and  *)
(* the motors.                                                             *)
(*                                                                         *)
(* Clients are the threads that call Robot: the panel is main's own        *)
(* thread, the script's ends while the console is deleted, the network's   *)
(* with the command manager.  Robot's own threads end last.                *)
(***************************************************************************)
EXTENDS Axis, Gripper, Sequences

CONSTANTS
  Motor,       \* the axes
  Client,      \* the threads that call Robot, besides the panel
  Points,      \* the rows of the teaching table: 10 in the code
  Taught,      \* bound: positions the arm is taught at
  MaxCrashes,  \* bound: crashes in a behaviour
  MaxFaults,   \* bound: driver faults in a session
  MaxCalls     \* bound: calls that are made in a session

ASSUME MainAssumption ==
  /\ Points \in Nat \ {0} /\ MaxCrashes \in Nat
  /\ MaxFaults \in Nat /\ MaxCalls \in Nat
  /\ "absent" \notin Taught   \* no position is taken for the absence of a file

Panel == "panel"
Caller == Client \cup {Panel}
Thread == {"homing", "motion", "servo"}

(* The phases main goes through; "off" also after a crash.                 *)
Phase == {"off", "up", "save", "close", "script", "network", "join", "delete",
          "ended"}

Zero == "zero"        \* a TeachPoint as constructed
Default == "default"  \* the position set when there is no file
Row == Taught \cup {Zero, Default}
Table == [1..Points -> Row]

VARIABLES
  phase, terminated,  \* where main is; Robot's m_terminated
  thread,      \* of each of Robot's threads: "check", "body" or "ended"
  left,        \* axes the motion thread has yet to visit in this round
  asking,      \* the axis each caller is about to start, or none
  axis,        \* m_stepper, each with its chip
  homingState, \* m_homingState > 0
  motionState, \* the axes whose m_motionState is 1
  table,       \* m_teachingPoints
  file,        \* teaching.dat: what it holds, NoFile if there is none
  crashes, faults, calls, \* spent so far, for the bounds
  stored,      \* history: the table that was last to be saved
  cut,         \* history: that save has not come to its end
  raced        \* history: axes started after they had been switched off

NoFile == <<"absent">>
File == {NoFile} \cup UNION {[1..n -> Row] : n \in 0..Points}
NoAxis == "none"

process == <<phase, terminated, thread, left>>
callers == <<asking, calls>>
arm == <<axis, homingState, motionState, raced, faults>>
teaching == <<table, file, stored, cut>>
vars == <<process, callers, arm, teaching, gripper, crashes>>

TypeOK ==
  /\ phase \in Phase /\ terminated \in BOOLEAN
  /\ thread \in [Thread -> {"check", "body", "ended"}] /\ left \subseteq Motor
  /\ asking \in [Caller -> Motor \cup {NoAxis}]
  /\ axis \in [Motor -> AxisState] /\ homingState \in BOOLEAN
  /\ motionState \subseteq Motor
  /\ table \in Table /\ file \in File
  /\ crashes \in 0..MaxCrashes /\ faults \in 0..MaxFaults /\ calls \in 0..MaxCalls
  /\ stored \in Table /\ cut \in BOOLEAN /\ raced \subseteq Motor
  /\ GripperTypeOK

-----------------------------------------------------------------------------
(* The teaching table and its file.                                        *)

Constructed == [p \in 1..Points |-> Zero]
Defaults == [p \in 1..Points |-> Default]

(* Variant: a file that is short leaves the rest at the default.           *)
LoadedOverDefaults ==
  IF file = NoFile THEN Defaults
  ELSE [p \in 1..Points |-> IF p <= Len(file) THEN file[p] ELSE Default]

(* A file that is short leaves the rest as constructed.                    *)
Loaded == IF file = NoFile THEN Defaults
          ELSE [p \in 1..Points |-> IF p <= Len(file) THEN file[p] ELSE Zero]

(* fopen empties the file, or fails and nothing is saved.                  *)
SaveOpen ==
  /\ phase = "save"
  /\ \/ phase' = "close" /\ file' = <<>> /\ cut' = TRUE /\ stored' = table
     \/ phase' = "script" /\ UNCHANGED <<file, cut, stored>>
  /\ UNCHANGED <<terminated, thread, left, callers, arm, table, gripper, crashes>>

(* What is written reaches the file when it is closed.                     *)
SaveClose ==
  /\ phase = "close" /\ phase' = "script"
  /\ file' = table /\ cut' = FALSE
  /\ UNCHANGED <<terminated, thread, left, callers, arm, table, stored, gripper,
                 crashes>>

(* The disk is full: what has been written before stays.                   *)
SaveFails ==
  /\ phase = "close" /\ phase' = "script"
  /\ \E n \in 0..(Points - 1) : file' = SubSeq(table, 1, n)
  /\ UNCHANGED <<terminated, thread, left, callers, arm, table, stored, cut,
                 gripper, crashes>>

-----------------------------------------------------------------------------
(* The process.                                                            *)

PoweredUpArm == [m \in Motor |-> PoweredUp]

Init ==
  /\ phase = "off" /\ terminated = FALSE
  /\ thread = [t \in Thread |-> "check"] /\ left = {}
  /\ asking = [c \in Caller |-> NoAxis]
  /\ axis = PoweredUpArm /\ homingState = FALSE /\ motionState = {}
  /\ raced = {} /\ faults = 0 /\ calls = 0 /\ GripperInit
  /\ table = Constructed /\ file = NoFile /\ stored = Defaults
  /\ cut = FALSE /\ crashes = 0

(* A process that has just started, or is gone.                            *)
Fresh ==
  /\ terminated' = FALSE
  /\ thread' = [t \in Thread |-> "check"] /\ left' = {}
  /\ asking' = [c \in Caller |-> NoAxis]
  /\ axis' = PoweredUpArm /\ homingState' = FALSE /\ motionState' = {}
  /\ raced' = {} /\ faults' = 0 /\ calls' = 0 /\ GripperRestarts

(* The drivers are reset, the threads started and the table is loaded.     *)
Start ==
  /\ phase \in {"off", "ended"} /\ phase' = "up"
  /\ Fresh /\ table' = Loaded
  /\ UNCHANGED <<file, stored, cut, crashes>>

(* The process is killed, and its memory is gone; the motors may go on     *)
(* until the next start, which resets the drivers.                         *)
Crash ==
  /\ phase \notin {"off", "ended"} /\ phase' = "off"
  /\ crashes < MaxCrashes /\ crashes' = crashes + 1
  /\ Fresh /\ table' = Constructed
  /\ UNCHANGED <<file, stored, cut>>

Goes(from, to) == phase = from /\ phase' = to

(* The panel's End is confirmed, or SIGINT has come: main leaves its loop  *)
(* and deletes the console, which first saves the table.                   *)
Leave ==
  /\ Goes("up", "save") /\ asking[Panel] = NoAxis
  /\ UNCHANGED <<terminated, thread, left, callers, arm, teaching, gripper, crashes>>

Quiet(c) == c \in Client => asking[c] = NoAxis

(* The script's thread is joined, then the console is gone.                *)
JoinScript ==
  /\ Goes("script", "network") /\ Quiet("script")
  /\ UNCHANGED <<terminated, thread, left, callers, arm, teaching, gripper, crashes>>

(* The command thread is joined; ~Robot sets m_terminated.                 *)
JoinNetwork ==
  /\ Goes("network", "join") /\ Quiet("network")
  /\ terminated' = TRUE
  /\ UNCHANGED <<thread, left, callers, arm, teaching, gripper, crashes>>

JoinThreads ==
  /\ Goes("join", "delete") /\ \A t \in Thread : thread[t] = "ended"
  /\ UNCHANGED <<terminated, thread, left, callers, arm, teaching, gripper, crashes>>

(* Variant: a motor that was at rest when last looked at is left alone.    *)
DeleteInMotion(x) == IF x.inMotion THEN HardStop(x) ELSE x

(* ~L6470: a motor that was excited when last looked at is stopped.        *)
Delete(x) == IF x.halted THEN x ELSE HardStop(x)

DeleteSteppers ==
  /\ Goes("delete", "ended")
  /\ axis' = [m \in Motor |-> Delete(axis[m])]
  /\ UNCHANGED <<terminated, thread, left, callers, homingState, motionState, raced,
                 faults, teaching, gripper, crashes>>

-----------------------------------------------------------------------------
(* Robot's threads: each looks at m_terminated, then takes the lock.       *)

Running == phase \notin {"off", "ended"}

Look(t) ==
  /\ Running /\ thread[t] = "check"
  /\ thread' = [thread EXCEPT ![t] = IF terminated THEN "ended" ELSE "body"]
  /\ left' = IF t = "motion" /\ ~terminated THEN Motor ELSE left
  /\ UNCHANGED <<phase, terminated, callers, arm, teaching, gripper, crashes>>

Again(t) == Running /\ thread[t] = "body" /\ thread' = [thread EXCEPT ![t] = "check"]

(* Which axis is armed, stopped or left alone when is module Robot's: here *)
(* each may be at any turn, and any turn may be the sequence's last.       *)
HomingBody ==
  /\ Again("homing")
  /\ IF homingState
     THEN \E armed, stopped \in SUBSET Motor :
            /\ axis' = [m \in Motor |-> IF m \in armed THEN StartHoming(axis[m])
                                        ELSE IF m \in stopped THEN HardStop(axis[m])
                                        ELSE axis[m]]
            /\ homingState' \in BOOLEAN
     ELSE UNCHANGED <<axis, homingState>>
  /\ UNCHANGED <<phase, terminated, left, callers, motionState, raced, faults,
                 teaching, gripper, crashes>>

MotionBody ==
  /\ Running /\ thread["motion"] = "body"
  /\ \E m \in left : \E x \in ExecControl(axis[m]) :
       /\ LET ended == m \in motionState /\ ~x.inMotion
              seen == [axis EXCEPT ![m] = x]
          IN /\ axis' = IF ended /\ x.alarm THEN [n \in Motor |-> HardHIZ(seen[n])]
                                           ELSE seen
             /\ motionState' = IF ended THEN motionState \ {m} ELSE motionState
       /\ left' = left \ {m}
  /\ thread' = [thread EXCEPT !["motion"] = IF left' = {} THEN "check" ELSE "body"]
  /\ UNCHANGED <<phase, terminated, callers, homingState, raced, faults, teaching,
                 gripper, crashes>>

ServoBody ==
  /\ Again("servo")
  /\ (ServoStep \/ (current = dest /\ UNCHANGED gripper))
  /\ UNCHANGED <<phase, terminated, left, callers, arm, teaching, crashes>>

RobotThreads ==
  (\E t \in Thread : Look(t)) \/ HomingBody \/ MotionBody \/ ServoBody

-----------------------------------------------------------------------------
(* The callers, as long as main has not waited for their thread.           *)

Alive(c) ==
  CASE c = Panel -> phase = "up"
    [] c = "script" -> phase \in {"up", "save", "close", "script"}
    [] OTHER -> phase \in {"up", "save", "close", "script", "network"}

Calls(c) ==
  Alive(c) /\ asking[c] = NoAxis /\ calls < MaxCalls /\ calls' = calls + 1
Untouched == UNCHANGED <<process, teaching, crashes>>

(* startMotion: what it asks first, and what it does under the lock.       *)
AskMove(c, m) ==
  /\ Calls(c) /\ asking' = [asking EXCEPT ![c] = m]
  /\ ~axis[m].halted /\ ~axis[m].alarm /\ ~homingState /\ m \notin motionState
  /\ Untouched /\ UNCHANGED <<arm, gripper>>

SendMove(c) ==
  /\ Alive(c) /\ asking[c] # NoAxis /\ asking' = [asking EXCEPT ![c] = NoAxis]
  /\ LET m == asking[c]
     IN /\ MayAccept(axis[m])
        /\ axis' = [axis EXCEPT ![m] = MoveTo(@)]
        /\ motionState' = motionState \cup {m}
        /\ raced' = IF axis[m].halted THEN raced \cup {m} ELSE raced
  /\ Untouched /\ UNCHANGED <<calls, homingState, faults, gripper>>

AskHoming(c) ==
  /\ Calls(c) /\ ~homingState /\ motionState = {}
  /\ homingState' = TRUE
  /\ Untouched /\ UNCHANGED <<asking, axis, motionState, raced, faults, gripper>>

(* Switching on or off, stopping, clearing an alarm.                       *)
Command(c, m) ==
  /\ Calls(c)
  /\ \E x \in {HardStop(axis[m]), SoftStop(axis[m]), HardHIZ(axis[m]), ClearAlarm(axis[m])} :
       axis' = [axis EXCEPT ![m] = x]
  /\ Untouched /\ UNCHANGED <<asking, homingState, motionState, raced, faults, gripper>>

Grip(c) ==
  /\ Calls(c)
  /\ IF c = Panel THEN ViewDec \/ ViewInc \/ ViewEdit \/ StopGripper
                  ELSE OthersMoveGripper
  /\ Untouched /\ UNCHANGED <<asking, arm>>

(* setTeachingPoint takes the arm's position, whatever that is.            *)
Teach ==
  /\ Calls(Panel)
  /\ \E p \in 1..Points, t \in Taught : table' = [table EXCEPT ![p] = t]
  /\ UNCHANGED <<process, asking, arm, file, stored, cut, gripper, crashes>>

Callers ==
  \/ \E c \in Caller : SendMove(c) \/ AskHoming(c) \/ Grip(c)
  \/ \E c \in Caller, m \in Motor : AskMove(c, m) \/ Command(c, m)
  \/ Teach

(* The drivers go on by themselves while the program runs.                 *)
Drivers ==
  /\ Running
  /\ \E m \in Motor :
       \/ axis[m].mode = "move" /\ axis' = [axis EXCEPT ![m] = MotionEnds(@)]
          /\ UNCHANGED faults
       \/ axis[m].mode # "hiz" /\ faults < MaxFaults /\ faults' = faults + 1
          /\ axis' = [axis EXCEPT ![m] = Faulted(@)]
  /\ UNCHANGED <<process, callers, homingState, motionState, raced, teaching, gripper,
                 crashes>>

Shutdown == \/ Leave \/ SaveOpen \/ SaveClose \/ SaveFails \/ JoinScript \/ JoinNetwork
            \/ JoinThreads \/ DeleteSteppers

Next == Start \/ Crash \/ Shutdown \/ RobotThreads \/ Callers \/ Drivers
Spec == Init /\ [][Next]_vars

-----------------------------------------------------------------------------
(* Properties.                                                             *)

(* A start finds the teaching table as the last session that came to save  *)
(* it left it; if that save was cut short, a first part of the table as it *)
(* was and nothing in place of the rest (TeachingView's load and save).    *)
TableKept ==
  [][(~Running /\ phase' = "up")
     => \A p \in 1..Points :
          \/ table'[p] = stored[p]
          \/ cut /\ \A q \in p..Points : table'[q] = Zero]_vars

(* When the program has ended in order no motor goes on, whoever had just  *)
(* started it: the callers and Robot's threads have ended before ~L6470    *)
(* looks at an axis.  Except an axis that startMotion found excited, and   *)
(* that had been seen switched off by the time it was sent off.            *)
StoppedAtExit ==
  phase = "ended" => \A m \in Motor \ raced : axis[m].mode # "move"
=============================================================================
