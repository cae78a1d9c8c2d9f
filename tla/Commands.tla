------------------------------ MODULE Commands ------------------------------
(***************************************************************************)
(* The commands of the network protocol, as the command thread executes    *)
(* them one after the other.  A command asks Robot several times, and each *)
(* of its calls takes the robot's lock anew: a step is one such call.      *)
(* Between two of them the panel, a script, the robot's threads and the    *)
(* motors may do anything (module Robot has the calls themselves).         *)
(*                                                                         *)
(* A request is what its command reads from the packet: how many fields    *)
(* have come; the motor, or All for an ID out of range; a target for       *)
(* each axis; a number (on or off, which stop, a value, an opening).       *)
(***************************************************************************)
EXTENDS Integers

CONSTANTS
  N,           \* the axes are 0 to N - 1: 3 in the code
  Far,         \* bound: positions are 0 to Far
  FullSpeed,   \* MAX_SPEED of the axis with the longest way: 16
  Word         \* the range of uint32_t: 2^32

ASSUME CommandsAssumption ==
  /\ N \in Nat \ {0} /\ Far \in Nat /\ FullSpeed \in Nat \ {0}
  /\ Word \in Nat \ {0}

Axes == 0..(N - 1)
Position == 0..Far
Speed == 0..(Word - 1)
Command == {"enable", "reset", "stop", "homing", "moveto", "move3d",
            "read", "write", "save", "status", "gripper"}

VARIABLES
  (* the robot *)
  axis,        \* excited, alarmed, moving, position, MAX_SPEED
  homing,      \* the arm is homing
  (* the command thread *)
  request,     \* the request in execution
  pc,          \* the call of Robot's it makes next, or "idle"
  at,          \* the axis it has come to
  from,        \* the positions Move3D has read
  answer,      \* the status of the response, "none" while it is executed
  (* history *)
  touched,     \* axes that others or the motors changed since it began
  acted        \* the command has changed something

robot == <<axis, homing>>
command == <<request, pc, at, from, answer, acted>>
vars == <<robot, command, touched>>

All == N   \* any motor ID out of range
Motor == Axes \cup {All}
Request == [cmd: Command, motor: Motor, fields: 0..3, to: [Axes -> Position],
            number: Nat]
AxisRecord == [on: BOOLEAN, alarm: BOOLEAN, moving: BOOLEAN, pos: Position,
               speed: Speed]

TypeOK ==
  /\ axis \in [Axes -> AxisRecord]
  /\ \A a \in Axes : axis[a].moving => axis[a].on
  /\ homing \in BOOLEAN
  /\ request \in Request
  /\ pc \in {"idle", "begin", "motion", "alarm", "position", "speed", "act"}
  /\ at \in Axes /\ from \in [Axes -> Position]
  /\ answer \in {"none", "ok", "unable", "invalid"}
  /\ touched \subseteq Axes /\ acted \in BOOLEAN

Nothing == [cmd |-> "status", motor |-> All, fields |-> 0,
            to |-> [a \in Axes |-> 0], number |-> 0]

(* The motors are off, at their full speed.                                *)
Init ==
  /\ \E start \in [Axes -> Position] :
       axis = [a \in Axes |-> [on |-> FALSE, alarm |-> FALSE, moving |-> FALSE,
                               pos |-> start[a], speed |-> FullSpeed % Word]]
  /\ homing = FALSE
  /\ request = Nothing /\ pc = "idle" /\ at = 0 /\ from = [a \in Axes |-> 0]
  /\ answer = "none" /\ touched = {} /\ acted = FALSE

-----------------------------------------------------------------------------
(* Robot's answers and conversions.                                        *)

IsInMotion(a) == homing \/ axis[a].moving
CanStart(a) == axis[a].on /\ ~axis[a].alarm /\ ~IsInMotion(a)

Distance(a) == IF request.to[a] > from[a] THEN request.to[a] - from[a]
                                          ELSE from[a] - request.to[a]
ToMove == {a \in Axes : request.to[a] # from[a]}
Longest == CHOOSE d \in {Distance(a) : a \in Axes} :
             \A a \in Axes : Distance(a) <= d

(* The speed is in proportion to the way, in unsigned arithmetic.          *)
SpeedFor(d, longest) == ((FullSpeed * d) % Word) \div longest

-----------------------------------------------------------------------------
(* The command thread.                                                     *)

Unread == [a \in Axes |-> 0]
Goto(place, a) ==
  /\ pc' = place /\ at' = a /\ answer' = "none"
  /\ UNCHANGED <<request, from, touched>>
Answer(status) ==
  /\ pc' = "idle" /\ at' = 0 /\ answer' = status
  /\ request' = Nothing /\ from' = Unread /\ touched' = {}
Looks == UNCHANGED <<robot, acted>>
Acts == acted' = TRUE

(* A request is taken out of the packet buffer.                            *)
Begin(r) ==
  /\ pc = "idle" /\ pc' = "begin" /\ request' = r /\ answer' = "none"
  /\ acted' = FALSE /\ UNCHANGED <<robot, at, from, touched>>

(* Reset and Stop go through the motors that are asked for.                *)
FirstAsked == IF request.motor = All THEN 0 ELSE request.motor
NextAsked(place) ==
  IF request.motor = All /\ at < N - 1 THEN Goto(place, at + 1) ELSE Answer("ok")

(* What is read and checked before Robot is asked.                         *)
Unreadable ==
  CASE request.cmd \in {"enable", "moveto"} -> request.fields < 1 \/ request.motor = All
    [] request.cmd = "write" -> request.fields < 3 \/ request.motor = All
    [] request.cmd = "gripper" -> request.fields < 1 \/ request.number > 100
    [] request.cmd = "stop" -> request.fields < 2
    [] request.cmd \in {"reset", "move3d"} -> request.fields < 1
    \* The test has lost its negation: a request with a motor ID is refused.
    [] request.cmd = "read" -> request.fields > 0
    [] OTHER -> FALSE

Refuse == pc = "begin" /\ Unreadable /\ Answer("invalid") /\ Looks

AnswerAtOnce ==
  /\ pc = "begin" /\ ~Unreadable /\ request.cmd \in {"read", "save", "status"}
  /\ Answer("ok") /\ Looks

Proceed ==
  /\ pc = "begin" /\ ~Unreadable
  /\ CASE request.cmd \in {"enable", "moveto", "reset"} -> Goto("motion", FirstAsked)
       [] request.cmd = "move3d" -> Goto("motion", 0)
       [] request.cmd = "stop" -> Goto("alarm", FirstAsked)
       [] request.cmd \in {"homing", "write", "gripper"} -> Goto("act", FirstAsked)
       [] OTHER -> FALSE
  /\ Looks

(* isInMotion(axis): Reset passes over the axis, the others are refused.   *)
AskMotion ==
  /\ pc = "motion"
  /\ IF ~IsInMotion(at) THEN Goto(IF request.cmd = "reset" THEN "act" ELSE "alarm", at)
     ELSE IF request.cmd = "reset" THEN NextAsked("motion")
     ELSE Answer("unable")
  /\ Looks

(* isAlarmHappened(axis): Stop passes over the axis.  Enable and Moveto    *)
(* read their second field only now.                                       *)
AskAlarm ==
  /\ pc = "alarm"
  /\ IF axis[at].alarm
     THEN IF request.cmd = "stop" THEN NextAsked("alarm") ELSE Answer("unable")
     ELSE IF request.cmd = "move3d" THEN Goto("position", at)
     ELSE IF request.fields < 2 THEN Answer("invalid")
     ELSE Goto("act", at)
  /\ Looks

(* Move3D reads the position; the next target may be missing.              *)
AskPosition ==
  /\ pc = "position"
  /\ IF at + 1 < N /\ at + 1 >= request.fields THEN Answer("invalid")
     ELSE /\ from' = [from EXCEPT ![at] = axis[at].pos]
          /\ IF at + 1 < N THEN pc' = "motion" /\ at' = at + 1
             ELSE pc' = "speed" /\ at' = 0
          /\ UNCHANGED <<request, answer, touched>>
  /\ Looks

(* Variant: the distance is the target.                                    *)
SetSpeedByTarget(a) ==
  axis' = [axis EXCEPT ![a].speed = SpeedFor(request.to[a], Longest)]
SetSpeed(a) == axis' = [axis EXCEPT ![a].speed = SpeedFor(Distance(a), Longest)]

(* setMotorParam: an axis that is where it shall be is passed over.        *)
GiveSpeed ==
  /\ pc = "speed"
  /\ IF at \in ToMove THEN SetSpeed(at) /\ Goto("act", at) /\ Acts
     ELSE /\ IF at < N - 1 THEN Goto("speed", at + 1) ELSE Answer("ok")
          /\ UNCHANGED <<axis, acted>>
  /\ UNCHANGED homing

(* startMotion, whose result Move3D does not look at.                      *)
ActMove3D ==
  /\ pc = "act" /\ request.cmd = "move3d"
  /\ axis' = [axis EXCEPT ![at].moving = @ \/ CanStart(at)]
  /\ IF at < N - 1 THEN Goto("speed", at + 1) ELSE Answer("ok")
  /\ UNCHANGED homing /\ Acts

(* Variant: the motion is sent first, and the alarm looked at after.       *)
SendsFirst(a) == axis' = [axis EXCEPT ![a].moving = axis[a].on]
Sends(a) == axis' = [axis EXCEPT ![a].moving = @ \/ CanStart(a)]

ActMoveto ==
  /\ pc = "act" /\ request.cmd = "moveto"
  /\ Sends(at) /\ Answer(IF CanStart(at) THEN "ok" ELSE "unable")
  /\ UNCHANGED homing /\ Acts

ActEnable ==
  /\ pc = "act" /\ request.cmd = "enable"
  /\ axis' = [axis EXCEPT ![at].on = request.number # 0, ![at].moving = FALSE]
  /\ Answer("ok") /\ UNCHANGED homing /\ Acts

ActReset ==
  /\ pc = "act" /\ request.cmd = "reset"
  /\ axis' = [axis EXCEPT ![at].alarm = FALSE]
  /\ NextAsked("motion") /\ UNCHANGED homing /\ Acts

(* After a soft stop the motion ends by itself.                            *)
ActStop ==
  /\ pc = "act" /\ request.cmd = "stop"
  /\ axis' = [axis EXCEPT ![at].moving = @ /\ request.number # 0]
  /\ NextAsked("alarm") /\ UNCHANGED homing /\ Acts

ActHoming ==
  /\ pc = "act" /\ request.cmd = "homing"
  /\ LET busy == \E a \in Axes : IsInMotion(a)
     IN homing' = (homing \/ ~busy) /\ Answer(IF busy THEN "unable" ELSE "ok")
  /\ UNCHANGED axis /\ Acts

ActWrite ==
  /\ pc = "act" /\ request.cmd = "write"
  /\ axis' = [axis EXCEPT ![at].speed = request.number % Word]
  /\ Answer("ok") /\ UNCHANGED homing /\ Acts

(* moveGripper touches no axis: module Gripper has it.                     *)
ActGripper ==
  /\ pc = "act" /\ request.cmd = "gripper"
  /\ Answer("ok") /\ UNCHANGED robot /\ Acts

CommandThread ==
  \/ Refuse \/ AnswerAtOnce \/ Proceed
  \/ AskMotion \/ AskAlarm \/ AskPosition \/ GiveSpeed
  \/ ActMove3D \/ ActMoveto \/ ActEnable \/ ActReset \/ ActStop
  \/ ActHoming \/ ActWrite \/ ActGripper

-----------------------------------------------------------------------------
(* Everybody else.                                                         *)

Touch(axes) == /\ touched' = IF request.cmd = "move3d" THEN touched \cup axes ELSE {}
               /\ UNCHANGED command

(* The panel or a script starts a motion, at any speed it takes.           *)
OthersStart(a) ==
  /\ CanStart(a)
  /\ \E v \in 0..FullSpeed :
       axis' = [axis EXCEPT ![a].moving = TRUE, ![a].speed = v % Word]
  /\ Touch({a}) /\ UNCHANGED homing

OthersSwitch(a) ==
  /\ ~IsInMotion(a) /\ ~axis[a].alarm
  /\ axis' = [axis EXCEPT ![a].on = ~@]
  /\ Touch({a}) /\ UNCHANGED homing

(* A motion ends, at its target or before.                                 *)
MotionEnds(a) ==
  /\ axis[a].moving
  /\ \E p \in Position : axis' = [axis EXCEPT ![a].moving = FALSE, ![a].pos = p]
  /\ Touch({a}) /\ UNCHANGED homing

(* An alarm in motion takes the excitation from all axes.                  *)
Alarm(a) ==
  /\ ~axis[a].alarm
  /\ axis' = IF axis[a].moving
             THEN [b \in Axes |-> [axis[b] EXCEPT !.on = FALSE, !.moving = FALSE,
                                                 !.alarm = @ \/ b = a]]
             ELSE [axis EXCEPT ![a].alarm = TRUE]
  /\ Touch(IF axis[a].moving THEN Axes ELSE {a})
  /\ UNCHANGED homing

(* The panel or a script asks for homing.                                  *)
OthersHome ==
  /\ \A a \in Axes : ~IsInMotion(a)
  /\ homing' = TRUE /\ Touch(Axes) /\ UNCHANGED axis

(* Homing ends at the origin, with the motors held, or fails on its way.   *)
HomingEnds ==
  /\ homing /\ homing' = FALSE
  /\ \/ axis' = [a \in Axes |-> [axis[a] EXCEPT !.on = TRUE, !.pos = 0]]
     \/ UNCHANGED axis
  /\ Touch(Axes)

Environment ==
  \/ \E a \in Axes : OthersStart(a) \/ OthersSwitch(a) \/ MotionEnds(a) \/ Alarm(a)
  \/ OthersHome \/ HomingEnds

(* The requests: the fields a command does not read are left at nothing.   *)
Numbers(cmd) == CASE cmd \in {"enable", "stop"} -> {0, 1}
                  [] cmd = "write" -> 0..FullSpeed
                  [] cmd = "gripper" -> {100, 101}
                  [] OTHER -> {0}
Targets(cmd) == IF cmd = "move3d" THEN [Axes -> Position] ELSE {Nothing.to}

Requests ==
  UNION {{[cmd |-> c, motor |-> m, fields |-> f, to |-> t, number |-> n] :
            m \in Motor, f \in 0..3, t \in Targets(c), n \in Numbers(c)} :
         c \in Command}

Next == CommandThread \/ Environment \/ \E r \in Requests : Begin(r)
Spec == Init /\ [][Next]_vars

-----------------------------------------------------------------------------
(* Properties.                                                             *)

(* When Move3D answers OK, every axis that it was to move, that is excited *)
(* and that nobody else has touched since it began is in motion, at the    *)
(* speed that makes it arrive no sooner than the one with the longest way, *)
(* which goes at full speed; without wrapping around (Move3DCommand:       *)
(* the three axes are moved at the same time).                             *)
Move3DWhole ==
  [][(request.cmd = "move3d" /\ answer' = "ok")
     => \A a \in ToMove \ touched : axis[a].on =>
          /\ axis'[a].moving
          /\ FullSpeed * Longest < Word =>
               /\ axis'[a].speed * Longest <= FullSpeed * Distance(a)
               /\ Distance(a) = Longest => axis'[a].speed = FullSpeed]_vars

(* A command that is refused has changed nothing, at whichever of its      *)
(* calls it was refused (the execute functions of the commands).           *)
RefusedLeavesAlone ==
  [][answer' \in {"unable", "invalid"} /\ answer = "none"
     => ~acted /\ UNCHANGED robot]_vars
=============================================================================
