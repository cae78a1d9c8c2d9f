--------------------------- MODULE Commands_proofs ---------------------------
(***************************************************************************)
(* Proofs about module Commands, for every number of axes and every size   *)
(* of a word: type correctness, that a refused command has changed         *)
(* nothing, and what the arithmetic of Move3D gives.                       *)
(***************************************************************************)
EXTENDS Commands, WellFoundedInduction, TLAPS

-----------------------------------------------------------------------------
(* The longest way.                                                        *)

LEMMA GreatestBelow ==
  ASSUME NEW bound \in Nat, NEW S, S \subseteq 0..bound, S # {}
  PROVE  \E d \in S : \A e \in S : e <= d
<1> DEFINE R == {ss \in Nat \X Nat : ss[1] < ss[2]}
<1> DEFINE T == {bound - d : d \in S}
<1>1. T \subseteq Nat /\ T # {}
  <2>1. T \subseteq Nat
    OBVIOUS
  <2>2. PICK d \in S : TRUE
    OBVIOUS
  <2>3. bound - d \in T
    OBVIOUS
  <2> QED
    BY <2>1, <2>3
<1>2. IsWellFoundedOn(R, Nat)
  BY NatLessThanWellFounded DEF OpToRel
<1>3. \A y, x \in Nat : y < x => <<y, x>> \in R
  OBVIOUS
<1> HIDE DEF R, T
<1>4. PICK x \in T : \A y \in T : ~(<<y, x>> \in R)
  BY <1>1, <1>2, WFMin, Zenon
<1> USE DEF T
<1>5. PICK d \in S : x = bound - d
  OBVIOUS
<1>6. ASSUME NEW e \in S PROVE e <= d
  <2>1. bound - e \in T /\ bound - e \in Nat /\ x \in Nat
    OBVIOUS
  <2>2. ~(<<bound - e, x>> \in R)
    BY <1>4, <2>1
  <2>3. ~(bound - e < x)
    BY <1>3, <2>1, <2>2
  <2> QED
    BY <1>5, <2>1, <2>3
<1> QED
  BY <1>6

LEMMA DistanceType ==
  ASSUME TypeOK, NEW a \in Axes
  PROVE  Distance(a) \in 0..Far /\ (a \in ToMove <=> Distance(a) # 0)
<1>1. request.to[a] \in Position /\ from[a] \in Position
  BY DEF TypeOK, Request
<1> QED
  BY <1>1, CommandsAssumption DEF Position, Distance, ToMove

LEMMA LongestType ==
  ASSUME TypeOK
  PROVE  Longest \in 0..Far /\ \A a \in Axes : Distance(a) <= Longest
<1> DEFINE S == {Distance(a) : a \in Axes}
<1>1. S \subseteq 0..Far /\ S # {}
  BY DistanceType, CommandsAssumption DEF Axes
<1>2. \E d \in S : \A e \in S : e <= d
  BY <1>1, GreatestBelow, CommandsAssumption
<1>3. \E d \in S : \A a \in Axes : Distance(a) <= d
  BY <1>2
<1> QED
  BY <1>1, <1>3 DEF Longest

(* An axis that has a way to go has a speed that fits the word.            *)
LEMMA SpeedType ==
  ASSUME NEW d \in Nat, NEW longest \in Nat \ {0}
  PROVE  SpeedFor(d, longest) \in Speed
<1>1. FullSpeed * d \in Nat
  BY CommandsAssumption
<1>2. (FullSpeed * d) % Word \in 0..(Word - 1)
  BY <1>1, CommandsAssumption
<1> DEFINE x == (FullSpeed * d) % Word
<1>3. x \div longest \in Nat /\ x \div longest <= x
  BY <1>2, CommandsAssumption
<1> QED
  BY <1>2, <1>3, CommandsAssumption DEF SpeedFor, Speed

(* As long as nothing wraps around, an axis takes no less time for its way *)
(* than the one with the longest, which goes at full speed.                *)
THEOREM SpeedInProportion ==
  ASSUME NEW longest \in Nat \ {0}, NEW d \in 0..longest, FullSpeed * longest < Word
  PROVE  /\ SpeedFor(d, longest) * longest <= FullSpeed * d
         /\ d = longest => SpeedFor(d, longest) = FullSpeed
<1>1. FullSpeed * d \in Nat /\ FullSpeed * d < Word
  <2>1. FullSpeed * d <= FullSpeed * longest
    BY CommandsAssumption
  <2> QED
    BY <2>1, CommandsAssumption
<1>2. (FullSpeed * d) % Word = FullSpeed * d
  BY <1>1, CommandsAssumption
<1>3. ((FullSpeed * d) \div longest) * longest <= FullSpeed * d
  BY <1>1
<1>4. (FullSpeed * longest) \div longest = FullSpeed
  BY CommandsAssumption
<1> QED
  BY <1>2, <1>3, <1>4 DEF SpeedFor

-----------------------------------------------------------------------------
(* Types.                                                                  *)

AxisOK(x) == x \in AxisRecord /\ (x.moving => x.on)
RobotOK == axis \in [Axes -> AxisRecord] /\ (\A a \in Axes : AxisOK(axis[a]))
           /\ homing \in BOOLEAN
ThreadOK ==
  /\ request \in Request
  /\ pc \in {"idle", "begin", "motion", "alarm", "position", "speed", "act"}
  /\ at \in Axes /\ from \in [Axes -> Position]
  /\ answer \in {"none", "ok", "unable", "invalid"}
  /\ touched \subseteq Axes /\ acted \in BOOLEAN

LEMMA TypeParts == TypeOK <=> RobotOK /\ ThreadOK
BY DEF TypeOK, RobotOK, ThreadOK, AxisOK

(* One axis changes.                                                       *)
LEMMA OneAxis ==
  ASSUME RobotOK, NEW a \in Axes, NEW x, AxisOK(x), axis' = [axis EXCEPT ![a] = x],
         homing' \in BOOLEAN
  PROVE  RobotOK'
BY DEF RobotOK, AxisOK

LEMMA Unchanged == RobotOK /\ UNCHANGED robot => RobotOK'
BY DEF RobotOK, AxisOK, robot

(* What becomes of the command thread.                                     *)
Places == {"motion", "alarm", "position", "speed", "act"}

LEMMA NothingType == Nothing \in Request /\ Unread \in [Axes -> Position] /\ 0 \in Axes
BY CommandsAssumption DEF Nothing, Request, Command, Motor, All, Unread, Position, Axes

LEMMA GotoType ==
  ASSUME ThreadOK, NEW place \in Places, NEW a \in Axes, Goto(place, a), acted' \in BOOLEAN
  PROVE  ThreadOK'
BY DEF ThreadOK, Goto, Places

LEMMA AnswerType ==
  ASSUME NEW status \in {"ok", "unable", "invalid"}, Answer(status), acted' \in BOOLEAN
  PROVE  ThreadOK'
BY NothingType DEF ThreadOK, Answer

LEMMA NextAskedType ==
  ASSUME ThreadOK, NEW place \in Places, NextAsked(place), acted' \in BOOLEAN
  PROVE  ThreadOK'
<1>1. CASE request.motor = All /\ at < N - 1
  <2>1. at + 1 \in Axes
    BY <1>1, CommandsAssumption DEF ThreadOK, Axes
  <2>2. Goto(place, at + 1)
    BY <1>1, Zenon DEF NextAsked
  <2> QED
    BY <2>1, <2>2, GotoType
<1>2. CASE ~(request.motor = All /\ at < N - 1)
  <2>1. Answer("ok")
    BY <1>2, Zenon DEF NextAsked
  <2> QED
    BY <2>1, AnswerType
<1> QED
  BY <1>1, <1>2

LEMMA FirstAskedType == ThreadOK => FirstAsked \in Axes
BY NothingType DEF ThreadOK, Request, Motor, FirstAsked

LEMMA LooksKeeps == TypeOK /\ Looks => RobotOK' /\ acted' \in BOOLEAN
<1>1. TypeOK /\ Looks => RobotOK /\ UNCHANGED robot /\ acted' = acted /\ acted \in BOOLEAN
  BY DEF Looks, TypeOK, RobotOK, AxisOK
<1> QED
  BY <1>1, Unchanged

-----------------------------------------------------------------------------
(* The command thread, action by action.                                   *)

LEMMA BeginType == ASSUME TypeOK, NEW r \in Requests, Begin(r) PROVE TypeOK'
<1>1. r \in Request
  <2>1. PICK c \in Command : \E m \in Motor, f \in 0..3, t \in Targets(c), n \in Numbers(c) :
          r = [cmd |-> c, motor |-> m, fields |-> f, to |-> t, number |-> n]
    BY DEF Requests
  <2>4. PICK m \in Motor, f \in 0..3, t \in Targets(c), n \in Numbers(c) :
          r = [cmd |-> c, motor |-> m, fields |-> f, to |-> t, number |-> n]
    BY <2>1
  <2>2. t \in [Axes -> Position]
    BY NothingType DEF Targets, Request
  <2>3. n \in Nat
    BY CommandsAssumption DEF Numbers
  <2> QED
    BY <2>4, <2>2, <2>3 DEF Request
<1>2. ThreadOK'
  BY <1>1, TypeParts DEF Begin, ThreadOK
<1>3. RobotOK'
  BY TypeParts, Unchanged DEF Begin
<1> QED
  BY <1>2, <1>3 DEF TypeOK, RobotOK, ThreadOK, AxisOK

(* The calls that only look.                                               *)
LEMMA LookingType ==
  TypeOK /\ (Refuse \/ AnswerAtOnce \/ Proceed \/ AskMotion \/ AskAlarm \/ AskPosition)
    => TypeOK'
<1> SUFFICES ASSUME TypeOK,
                    Refuse \/ AnswerAtOnce \/ Proceed \/ AskMotion \/ AskAlarm \/ AskPosition
             PROVE  TypeOK'
  OBVIOUS
<1>1. ThreadOK /\ at \in Axes
  BY TypeParts DEF ThreadOK
<1>2. Looks
  BY DEF Refuse, AnswerAtOnce, Proceed, AskMotion, AskAlarm, AskPosition
<1>3. RobotOK' /\ acted' \in BOOLEAN
  BY <1>2, LooksKeeps
<1> SUFFICES ThreadOK'
  BY <1>3 DEF TypeOK, RobotOK, ThreadOK, AxisOK
<1>4. CASE Refuse \/ AnswerAtOnce
  BY <1>3, <1>4, AnswerType DEF Refuse, AnswerAtOnce
<1>5. CASE Proceed
  <2>1. FirstAsked \in Axes /\ 0 \in Axes
    BY <1>1, FirstAskedType, NothingType
  <2>2. \E place \in Places, a \in Axes : Goto(place, a)
    BY <1>5, <2>1 DEF Proceed, Places
  <2> QED
    BY <1>1, <1>3, <2>2, GotoType
<1>6. CASE AskMotion
  <2>1. \/ Goto("act", at) \/ Goto("alarm", at) \/ NextAsked("motion") \/ Answer("unable")
    BY <1>6 DEF AskMotion
  <2> QED
    BY <1>1, <1>3, <2>1, GotoType, NextAskedType, AnswerType DEF Places
<1>7. CASE AskAlarm
  <2>1. \/ NextAsked("alarm") \/ Answer("unable") \/ Goto("position", at)
        \/ Answer("invalid") \/ Goto("act", at)
    BY <1>7 DEF AskAlarm
  <2> QED
    BY <1>1, <1>3, <2>1, GotoType, NextAskedType, AnswerType DEF Places
<1>8. CASE AskPosition
  <2>1. CASE Answer("invalid")
    BY <1>3, <2>1, AnswerType
  <2>2. CASE ~Answer("invalid")
    <3>1. /\ from' = [from EXCEPT ![at] = axis[at].pos]
          /\ pc' \in {"motion", "speed"} /\ UNCHANGED <<request, answer, touched>>
          /\ (at + 1 < N /\ at' = at + 1) \/ at' = 0
      BY <1>8, <2>2 DEF AskPosition
    <3>2. axis[at].pos \in Position
      BY <1>1 DEF TypeOK, AxisRecord
    <3>3. at' \in Axes
      BY <1>1, <3>1, CommandsAssumption DEF Axes
    <3> QED
      BY <1>1, <1>3, <3>1, <3>2, <3>3 DEF ThreadOK
  <2> QED
    BY <2>1, <2>2
<1> QED
  BY <1>4, <1>5, <1>6, <1>7, <1>8

(* The calls that act.                                                     *)
LEMMA SpeedFits == ASSUME TypeOK, at \in ToMove PROVE SpeedFor(Distance(at), Longest) \in Speed
<1>1. at \in Axes
  BY DEF TypeOK
<1>2. Distance(at) \in 0..Far /\ Distance(at) # 0
  BY <1>1, DistanceType
<1>3. Longest \in 0..Far /\ Distance(at) <= Longest
  BY <1>1, LongestType
<1> QED
  BY <1>2, <1>3, SpeedType, CommandsAssumption

LEMMA ActingType ==
  /\ TypeOK
  /\ GiveSpeed \/ ActMove3D \/ ActMoveto \/ ActEnable \/ ActReset \/ ActStop \/ ActHoming
       \/ ActWrite \/ ActGripper
  => TypeOK'
<1> SUFFICES ASSUME TypeOK,
                    GiveSpeed \/ ActMove3D \/ ActMoveto \/ ActEnable \/ ActReset \/ ActStop
                      \/ ActHoming \/ ActWrite \/ ActGripper
             PROVE  RobotOK' /\ ThreadOK'
  BY DEF TypeOK, RobotOK, ThreadOK, AxisOK
<1>1. RobotOK /\ ThreadOK /\ at \in Axes /\ AxisOK(axis[at]) /\ homing \in BOOLEAN
  BY TypeParts DEF ThreadOK, RobotOK
<1>2. CanStart(at) \in BOOLEAN /\ (CanStart(at) => axis[at].on)
  BY DEF CanStart
<1>3. CASE GiveSpeed /\ at \in ToMove
  <2>1. axis' = [axis EXCEPT ![at] = [axis[at] EXCEPT !.speed = SpeedFor(Distance(at), Longest)]]
    BY <1>1, <1>3 DEF GiveSpeed, SetSpeed, RobotOK
  <2>2. AxisOK([axis[at] EXCEPT !.speed = SpeedFor(Distance(at), Longest)])
    <3>1. SpeedFor(Distance(at), Longest) \in Speed
      BY <1>3, SpeedFits
    <3> QED
      BY <1>1, <3>1 DEF AxisOK, AxisRecord
  <2>3. homing' \in BOOLEAN /\ acted' \in BOOLEAN /\ Goto("act", at)
    BY <1>1, <1>3, Zenon DEF GiveSpeed, Acts
  <2> QED
    BY <1>1, <2>1, <2>2, <2>3, OneAxis, GotoType DEF Places
<1>4. CASE GiveSpeed /\ at \notin ToMove
  <2>1. UNCHANGED robot /\ acted' \in BOOLEAN
    BY <1>4 DEF GiveSpeed, robot, TypeOK
  <2>2. Answer("ok") \/ (at < N - 1 /\ Goto("speed", at + 1))
    BY <1>4 DEF GiveSpeed
  <2>3. at < N - 1 => at + 1 \in Axes
    BY <1>1, CommandsAssumption DEF Axes
  <2> QED
    BY <1>1, <2>1, <2>2, <2>3, Unchanged, GotoType, AnswerType DEF Places
<1>5. CASE ActMove3D
  <2>1. axis' = [axis EXCEPT ![at] = [axis[at] EXCEPT !.moving = axis[at].moving \/ CanStart(at)]]
    BY <1>1, <1>5 DEF ActMove3D, RobotOK
  <2>2. AxisOK([axis[at] EXCEPT !.moving = axis[at].moving \/ CanStart(at)])
    BY <1>1, <1>2 DEF AxisOK, AxisRecord
  <2>3. homing' \in BOOLEAN /\ acted' \in BOOLEAN
    BY <1>1, <1>5, Zenon DEF ActMove3D, Acts
  <2>4. Answer("ok") \/ (at < N - 1 /\ Goto("speed", at + 1))
    BY <1>5 DEF ActMove3D
  <2>5. at < N - 1 => at + 1 \in Axes
    BY <1>1, CommandsAssumption DEF Axes
  <2> QED
    BY <1>1, <2>1, <2>2, <2>3, <2>4, <2>5, OneAxis, GotoType, AnswerType DEF Places
<1>6. CASE ActMoveto
  <2>1. axis' = [axis EXCEPT ![at] = [axis[at] EXCEPT !.moving = axis[at].moving \/ CanStart(at)]]
    BY <1>1, <1>6 DEF ActMoveto, Sends, RobotOK
  <2>2. AxisOK([axis[at] EXCEPT !.moving = axis[at].moving \/ CanStart(at)])
    BY <1>1, <1>2 DEF AxisOK, AxisRecord
  <2>3. homing' \in BOOLEAN /\ acted' \in BOOLEAN
    BY <1>1, <1>6, Zenon DEF ActMoveto, Acts
  <2>4. Answer("ok") \/ Answer("unable")
    BY <1>6 DEF ActMoveto
  <2> QED
    BY <1>1, <2>1, <2>2, <2>3, <2>4, OneAxis, AnswerType
<1>7. CASE ActEnable
  <2>1. axis' = [axis EXCEPT ![at] = [axis[at] EXCEPT !.on = request.number # 0, !.moving = FALSE]]
    BY <1>1, <1>7 DEF ActEnable, RobotOK
  <2>2. AxisOK([axis[at] EXCEPT !.on = request.number # 0, !.moving = FALSE])
    BY <1>1 DEF AxisOK, AxisRecord
  <2>3. homing' \in BOOLEAN /\ acted' \in BOOLEAN /\ Answer("ok")
    BY <1>1, <1>7, Zenon DEF ActEnable, Acts
  <2> QED
    BY <1>1, <2>1, <2>2, <2>3, OneAxis, AnswerType
<1>8. CASE ActReset
  <2>1. axis' = [axis EXCEPT ![at] = [axis[at] EXCEPT !.alarm = FALSE]]
    BY <1>1, <1>8 DEF ActReset, RobotOK
  <2>2. AxisOK([axis[at] EXCEPT !.alarm = FALSE])
    BY <1>1 DEF AxisOK, AxisRecord
  <2>3. homing' \in BOOLEAN /\ acted' \in BOOLEAN /\ NextAsked("motion")
    BY <1>1, <1>8, Zenon DEF ActReset, Acts
  <2> QED
    BY <1>1, <2>1, <2>2, <2>3, OneAxis, NextAskedType DEF Places
<1>9. CASE ActStop
  <2>1. axis' = [axis EXCEPT ![at] = [axis[at] EXCEPT !.moving = axis[at].moving /\ request.number # 0]]
    BY <1>1, <1>9 DEF ActStop, RobotOK
  <2>2. AxisOK([axis[at] EXCEPT !.moving = axis[at].moving /\ request.number # 0])
    BY <1>1 DEF AxisOK, AxisRecord
  <2>3. homing' \in BOOLEAN /\ acted' \in BOOLEAN /\ NextAsked("alarm")
    BY <1>1, <1>9, Zenon DEF ActStop, Acts
  <2> QED
    BY <1>1, <2>1, <2>2, <2>3, OneAxis, NextAskedType DEF Places
<1>10. CASE ActHoming
  <2>1. axis' = axis /\ acted' \in BOOLEAN /\ homing' \in BOOLEAN
    BY <1>10, <1>1, Zenon DEF ActHoming, Acts
  <2>2. Answer("ok") \/ Answer("unable")
    BY <1>10 DEF ActHoming
  <2> QED
    BY <1>1, <2>1, <2>2, AnswerType DEF RobotOK, AxisOK
<1>11. CASE ActWrite
  <2>1. axis' = [axis EXCEPT ![at] = [axis[at] EXCEPT !.speed = request.number % Word]]
    BY <1>1, <1>11 DEF ActWrite, RobotOK
  <2>2. request.number \in Nat
    BY <1>1 DEF ThreadOK, Request
  <2>3. request.number % Word \in Speed
    BY <2>2, CommandsAssumption DEF Speed
  <2>4. AxisOK([axis[at] EXCEPT !.speed = request.number % Word])
    BY <1>1, <2>3 DEF AxisOK, AxisRecord
  <2>5. homing' \in BOOLEAN /\ acted' \in BOOLEAN /\ Answer("ok")
    BY <1>1, <1>11, Zenon DEF ActWrite, Acts
  <2> QED
    BY <1>1, <2>1, <2>4, <2>5, OneAxis, AnswerType
<1>12. CASE ActGripper
  <2>1. UNCHANGED robot /\ acted' \in BOOLEAN /\ Answer("ok")
    BY <1>12, Zenon DEF ActGripper, Acts
  <2> QED
    BY <1>1, <2>1, Unchanged, AnswerType
<1> QED
  BY <1>3, <1>4, <1>5, <1>6, <1>7, <1>8, <1>9, <1>10, <1>11, <1>12

-----------------------------------------------------------------------------
(* Everybody else.                                                         *)

LEMMA EnvironmentType == TypeOK /\ Environment => TypeOK'
<1> SUFFICES ASSUME TypeOK, Environment PROVE RobotOK' /\ ThreadOK'
  BY DEF TypeOK, RobotOK, ThreadOK, AxisOK
<1>1. RobotOK /\ ThreadOK /\ homing \in BOOLEAN /\ \A a \in Axes : AxisOK(axis[a])
  BY TypeParts DEF RobotOK
<1>2. ASSUME NEW axes \in SUBSET Axes, Touch(axes) PROVE ThreadOK'
  BY <1>1, <1>2 DEF Touch, command, ThreadOK
<1>3. ASSUME NEW a \in Axes, OthersStart(a) PROVE RobotOK' /\ ThreadOK'
  <2>1. PICK v \in 0..FullSpeed :
          axis' = [axis EXCEPT ![a] = [axis[a] EXCEPT !.moving = TRUE, !.speed = v % Word]]
    BY <1>1, <1>3 DEF OthersStart, RobotOK
  <2>2. v % Word \in Speed /\ axis[a].on
    BY <1>3, CommandsAssumption DEF Speed, OthersStart, CanStart
  <2>3. AxisOK([axis[a] EXCEPT !.moving = TRUE, !.speed = v % Word])
    BY <1>1, <2>2 DEF AxisOK, AxisRecord
  <2>4. homing' \in BOOLEAN /\ Touch({a})
    BY <1>1, <1>3, Zenon DEF OthersStart
  <2> QED
    BY <1>1, <1>2, <2>1, <2>3, <2>4, OneAxis
<1>4. ASSUME NEW a \in Axes, OthersSwitch(a) PROVE RobotOK' /\ ThreadOK'
  <2>1. axis' = [axis EXCEPT ![a] = [axis[a] EXCEPT !.on = ~axis[a].on]] /\ ~axis[a].moving
    BY <1>1, <1>4 DEF OthersSwitch, IsInMotion, RobotOK
  <2>2. AxisOK([axis[a] EXCEPT !.on = ~axis[a].on])
    BY <1>1, <2>1 DEF AxisOK, AxisRecord
  <2>3. homing' \in BOOLEAN /\ Touch({a})
    BY <1>1, <1>4, Zenon DEF OthersSwitch
  <2> QED
    BY <1>1, <1>2, <2>1, <2>2, <2>3, OneAxis
<1>5. ASSUME NEW a \in Axes, MotionEnds(a) PROVE RobotOK' /\ ThreadOK'
  <2>1. PICK p \in Position :
          axis' = [axis EXCEPT ![a] = [axis[a] EXCEPT !.moving = FALSE, !.pos = p]]
    BY <1>1, <1>5 DEF MotionEnds, RobotOK
  <2>2. AxisOK([axis[a] EXCEPT !.moving = FALSE, !.pos = p])
    BY <1>1 DEF AxisOK, AxisRecord
  <2>3. homing' \in BOOLEAN /\ Touch({a})
    BY <1>1, <1>5, Zenon DEF MotionEnds
  <2> QED
    BY <1>1, <1>2, <2>1, <2>2, <2>3, OneAxis
<1>6. ASSUME NEW a \in Axes, Alarm(a) PROVE RobotOK' /\ ThreadOK'
  <2>1. homing' \in BOOLEAN /\ ThreadOK'
    BY <1>1, <1>2, <1>6 DEF Alarm
  <2>2. CASE axis[a].moving
    <3>1. axis' = [b \in Axes |-> [axis[b] EXCEPT !.on = FALSE, !.moving = FALSE,
                                                !.alarm = axis[b].alarm \/ b = a]]
      BY <1>6, <2>2 DEF Alarm
    <3>2. \A b \in Axes : AxisOK([axis[b] EXCEPT !.on = FALSE, !.moving = FALSE,
                                                !.alarm = axis[b].alarm \/ b = a])
      BY <1>1 DEF AxisOK, AxisRecord
    <3>3. axis' \in [Axes -> AxisRecord] /\ \A b \in Axes : AxisOK(axis'[b])
      BY <3>1, <3>2 DEF AxisOK
    <3> QED
      BY <2>1, <3>3 DEF RobotOK, AxisOK
  <2>3. CASE ~axis[a].moving
    <3>1. axis' = [axis EXCEPT ![a] = [axis[a] EXCEPT !.alarm = TRUE]]
      BY <1>1, <1>6, <2>3 DEF Alarm, RobotOK
    <3>2. AxisOK([axis[a] EXCEPT !.alarm = TRUE])
      BY <1>1 DEF AxisOK, AxisRecord
    <3> QED
      BY <1>1, <2>1, <3>1, <3>2, OneAxis
  <2> QED
    BY <2>2, <2>3
<1>7. CASE HomingEnds
  <2>1. homing' \in BOOLEAN /\ ThreadOK'
    BY <1>1, <1>2, <1>7, Zenon DEF HomingEnds
  <2>2. CASE UNCHANGED axis
    BY <1>1, <2>1, <2>2 DEF RobotOK, AxisOK
  <2>3. CASE axis' = [a \in Axes |-> [axis[a] EXCEPT !.on = TRUE, !.pos = 0]]
    <3>0. 0 \in Position
      BY CommandsAssumption DEF Position
    <3>1. \A b \in Axes : AxisOK([axis[b] EXCEPT !.on = TRUE, !.pos = 0])
      BY <1>1, <3>0 DEF AxisOK, AxisRecord
    <3>2. axis' \in [Axes -> AxisRecord] /\ \A b \in Axes : AxisOK(axis'[b])
      BY <2>3, <3>1 DEF AxisOK
    <3> QED
      BY <2>1, <3>2 DEF RobotOK, AxisOK
  <2> QED
    BY <1>7, <2>2, <2>3 DEF HomingEnds
<1>8. CASE OthersHome
  <2>1. homing' \in BOOLEAN /\ axis' = axis /\ Touch(Axes)
    BY <1>8 DEF OthersHome
  <2> QED
    BY <1>1, <1>2, <2>1 DEF RobotOK, AxisOK
<1> QED
  BY <1>3, <1>4, <1>5, <1>6, <1>7, <1>8 DEF Environment

LEMMA InitType == Init => TypeOK
<1> SUFFICES ASSUME Init PROVE TypeOK
  OBVIOUS
<1>1. PICK start \in [Axes -> Position] :
       axis = [a \in Axes |-> [on |-> FALSE, alarm |-> FALSE, moving |-> FALSE,
                               pos |-> start[a], speed |-> FullSpeed % Word]]
  BY DEF Init
<1>2. FullSpeed % Word \in Speed
  BY CommandsAssumption DEF Speed
<1>3. axis \in [Axes -> AxisRecord] /\ \A a \in Axes : axis[a].moving => axis[a].on
  BY <1>1, <1>2 DEF AxisRecord
<1>4. homing \in BOOLEAN /\ acted \in BOOLEAN
  BY Zenon DEF Init
<1>5. /\ request \in Request /\ at \in Axes /\ from \in [Axes -> Position]
      /\ pc = "idle" /\ answer = "none" /\ touched = {}
  BY NothingType DEF Init, Unread
<1> QED
  BY <1>3, <1>4, <1>5 DEF TypeOK

LEMMA NextType == TypeOK /\ [Next]_vars => TypeOK'
<1> SUFFICES ASSUME TypeOK, [Next]_vars PROVE TypeOK'
  OBVIOUS
<1>1. CASE CommandThread
  BY <1>1, LookingType, ActingType DEF CommandThread
<1>2. CASE Environment
  BY <1>2, EnvironmentType
<1>3. CASE \E r \in Requests : Begin(r)
  BY <1>3, BeginType
<1>4. CASE UNCHANGED vars
  BY <1>4 DEF TypeOK, vars, robot, command
<1> QED
  BY <1>1, <1>2, <1>3, <1>4 DEF Next

(* Commands' variables have their types in every state, and no axis moves  *)
(* that is not excited.                                                    *)
THEOREM TypeCorrect == Spec => []TypeOK
BY InitType, NextType, PTL DEF Spec

-----------------------------------------------------------------------------
(* A refusal.  Only Reset and Stop, which are not refused any more by then, *)
(* and Move3D, once it has all positions, go on after they have changed    *)
(* something.                                                              *)

Orderly ==
  /\ request.cmd = "reset" => pc \in {"idle", "begin", "motion", "act"}
  /\ request.cmd = "stop" => pc \in {"idle", "begin", "alarm", "act"}
  /\ request.cmd = "stop" /\ pc \in {"alarm", "act"} => request.fields >= 2
  /\ pc \in {"position", "speed"} => request.cmd = "move3d"
  /\ acted => \/ pc = "idle"
              \/ request.cmd = "reset" /\ pc \in {"motion", "act"}
              \/ request.cmd = "stop" /\ pc \in {"alarm", "act"}
              \/ request.cmd = "move3d" /\ pc \in {"speed", "act"}

LEMMA AnswerOrderly == ASSUME NEW status, Answer(status) PROVE Orderly'
BY DEF Answer, Orderly, Nothing

LEMMA LookingOrderly ==
  TypeOK /\ Orderly
  /\ (Refuse \/ AnswerAtOnce \/ Proceed \/ AskMotion \/ AskAlarm \/ AskPosition)
    => Orderly'
<1> SUFFICES ASSUME TypeOK, Orderly,
                    Refuse \/ AnswerAtOnce \/ Proceed \/ AskMotion \/ AskAlarm
                    \/ AskPosition
             PROVE  Orderly'
  OBVIOUS
<1>1. CASE Refuse \/ AnswerAtOnce
  BY <1>1, AnswerOrderly DEF Refuse, AnswerAtOnce
<1>2. CASE Proceed
  <2>1. /\ ~acted' /\ request' = request
        /\ \/ request.cmd \in {"enable", "moveto", "reset", "move3d"} /\ pc' = "motion"
           \/ request.cmd = "stop" /\ pc' = "alarm"
           \/ request.cmd \in {"homing", "write", "gripper"} /\ pc' = "act"
    BY <1>2 DEF Proceed, Goto, Looks, Orderly
  <2>2. request.cmd = "stop" => request.fields >= 2
    BY <1>2 DEF Proceed, Unreadable, TypeOK, Request
  <2> QED
    BY <2>1, <2>2 DEF Orderly
<1>3. CASE AskMotion
  <2>1. \/ \E status \in {"ok", "unable"} : Answer(status)
        \/ Goto(IF request.cmd = "reset" THEN "act" ELSE "alarm", at)
        \/ request.cmd = "reset" /\ Goto("motion", at + 1)
    BY <1>3 DEF AskMotion, NextAsked
  <2>2. acted' = acted /\ pc = "motion"
    BY <1>3 DEF AskMotion, Looks
  <2> QED
    BY <2>1, <2>2, AnswerOrderly DEF Goto, Orderly
<1>4. CASE AskAlarm
  <2>1. \/ \E status \in {"ok", "unable", "invalid"} : Answer(status)
        \/ request.cmd = "stop" /\ Goto("alarm", at + 1)
        \/ request.cmd = "move3d" /\ Goto("position", at)
        \/ request.cmd # "move3d" /\ Goto("act", at)
    BY <1>4 DEF AskAlarm, NextAsked
  <2>2. acted' = acted /\ pc = "alarm"
    BY <1>4 DEF AskAlarm, Looks
  <2> QED
    BY <2>1, <2>2, AnswerOrderly DEF Goto, Orderly
<1>5. CASE AskPosition
  <2>1. /\ acted' = acted /\ pc = "position"
        /\ \/ Answer("invalid")
           \/ request' = request /\ pc' \in {"motion", "speed"}
    BY <1>5 DEF AskPosition, Looks
  <2> QED
    BY <2>1, AnswerOrderly DEF Orderly
<1> QED
  BY <1>1, <1>2, <1>3, <1>4, <1>5

LEMMA ActingOrderly ==
  Orderly /\ (GiveSpeed \/ ActMove3D \/ ActMoveto \/ ActEnable \/ ActReset \/ ActStop
              \/ ActHoming \/ ActWrite \/ ActGripper)
    => Orderly'
<1> SUFFICES ASSUME Orderly,
                    GiveSpeed \/ ActMove3D \/ ActMoveto \/ ActEnable \/ ActReset
                    \/ ActStop \/ ActHoming \/ ActWrite \/ ActGripper
             PROVE  Orderly'
  OBVIOUS
<1>1. CASE GiveSpeed \/ ActMove3D
  <2>1. request.cmd = "move3d"
    BY <1>1 DEF GiveSpeed, ActMove3D, Orderly
  <2>2. Answer("ok") \/ (request' = request /\ pc' \in {"speed", "act"})
    BY <1>1 DEF GiveSpeed, ActMove3D, Goto
  <2> QED
    BY <2>1, <2>2, AnswerOrderly DEF Orderly
<1>2. CASE ActReset
  BY <1>2, AnswerOrderly DEF ActReset, NextAsked, Goto, Orderly
<1>3. CASE ActStop
  BY <1>3, AnswerOrderly DEF ActStop, NextAsked, Goto, Orderly
<1>4. CASE ActMoveto \/ ActEnable \/ ActHoming \/ ActWrite \/ ActGripper
  <2>1. \E status \in {"ok", "unable"} : Answer(status)
    BY <1>4 DEF ActMoveto, ActEnable, ActHoming, ActWrite, ActGripper
  <2> QED
    BY <2>1, AnswerOrderly
<1> QED
  BY <1>1, <1>2, <1>3, <1>4

LEMMA OrderlyNext == TypeOK /\ Orderly /\ [Next]_vars => Orderly'
<1> SUFFICES ASSUME TypeOK, Orderly, [Next]_vars PROVE Orderly'
  OBVIOUS
<1>1. CASE CommandThread
  BY <1>1, LookingOrderly, ActingOrderly DEF CommandThread
<1>2. CASE UNCHANGED command
  BY <1>2 DEF command, Orderly
<1>3. CASE Environment
  BY <1>2, <1>3 DEF Environment, OthersStart, OthersSwitch, MotionEnds, Alarm,
                    OthersHome, HomingEnds, Touch
<1>4. CASE \E r \in Requests : Begin(r)
  BY <1>4 DEF Begin, Orderly
<1>5. CASE UNCHANGED vars
  BY <1>2, <1>5 DEF vars
<1> QED
  BY <1>1, <1>3, <1>4, <1>5 DEF Next

(* A command that answers that it could not, or was not understood, has    *)
(* left the robot as it was, whatever went on meanwhile and at whichever   *)
(* of its calls it gave up (the execute functions of the commands).        *)
THEOREM RefusalIsClean == Spec => RefusedLeavesAlone
<1> DEFINE Clean == answer' \in {"unable", "invalid"} /\ answer = "none"
                    => ~acted /\ UNCHANGED robot
<1>1. Init => Orderly
  BY DEF Init, Nothing, Orderly
<1>2. TypeOK /\ Orderly /\ [Next]_vars => Clean
  <2> SUFFICES ASSUME TypeOK, Orderly, [Next]_vars,
                      answer' \in {"unable", "invalid"}, answer = "none"
               PROVE  ~acted /\ UNCHANGED robot
    OBVIOUS
  <2>1. CommandThread
    BY DEF Next, Begin, Environment, OthersStart, OthersSwitch, MotionEnds, Alarm,
           OthersHome, HomingEnds, Touch, command, vars
  <2>2. CASE Refuse
    BY <2>2 DEF Refuse, Looks, Orderly
  <2>3. CASE AskMotion
    BY <2>3 DEF AskMotion, NextAsked, Goto, Answer, Looks, Orderly
  <2>4. CASE AskAlarm
    <3>1. pc = "alarm" /\ UNCHANGED robot
      BY <2>4 DEF AskAlarm, Looks
    <3>2. request.cmd # "stop"
      <4>1. request.cmd = "stop" => request.fields \in 0..3 /\ request.fields >= 2
        BY <3>1 DEF Orderly, TypeOK, Request
      <4>2. ~NextAsked("alarm") /\ ~Goto("position", at) /\ ~Goto("act", at)
        BY DEF NextAsked, Goto, Answer
      <4>3. request.cmd = "stop" => axis[at].alarm \/ request.fields < 2
        BY <2>4, <4>2 DEF AskAlarm
      <4>4. request.cmd = "stop" => ~axis[at].alarm
        BY <2>4, <4>2 DEF AskAlarm
      <4> QED
        BY <4>1, <4>3, <4>4
    <3> QED
      BY <3>1, <3>2 DEF Orderly
  <2>5. CASE AskPosition
    BY <2>5 DEF AskPosition, Looks, Orderly
  <2>6. CASE ActMoveto
    <3>1. ~CanStart(at)
      BY <2>6 DEF ActMoveto, Answer
    <3>2. axis' = [axis EXCEPT ![at].moving = axis[at].moving]
      BY <2>6, <3>1 DEF ActMoveto, Sends, TypeOK, AxisRecord
    <3>3. axis' = axis
      BY <3>2 DEF TypeOK, AxisRecord
    <3> QED
      BY <2>6, <3>3 DEF ActMoveto, Orderly, robot
  <2>7. CASE ActHoming
    <3>1. \E a \in Axes : IsInMotion(a)
      BY <2>7 DEF ActHoming, Answer
    <3>2. homing' = homing
      BY <2>7, <3>1 DEF ActHoming, TypeOK
    <3> QED
      BY <2>7, <3>2 DEF ActHoming, Orderly, robot
  <2>8. ~AnswerAtOnce /\ ~Proceed /\ ~GiveSpeed /\ ~ActMove3D /\ ~ActEnable /\ ~ActReset
        /\ ~ActStop /\ ~ActWrite /\ ~ActGripper
    BY DEF AnswerAtOnce, Proceed, GiveSpeed, ActMove3D, ActEnable, ActReset, ActStop,
           ActWrite, ActGripper, NextAsked, Goto, Answer
  <2> QED
    BY <2>1, <2>2, <2>3, <2>4, <2>5, <2>6, <2>7, <2>8 DEF CommandThread
<1> QED
  BY TypeCorrect, <1>1, <1>2, OrderlyNext, PTL DEF Spec, RefusedLeavesAlone

-----------------------------------------------------------------------------
(* Move3D.  An axis that nobody else touches is, once it has been looked   *)
(* at, without alarm and at rest until it is sent off; then it moves, at   *)
(* the speed for its way.                                                  *)

Under(a) == a \in ToMove /\ axis[a].on
            => axis[a].moving /\ axis[a].speed = SpeedFor(Distance(a), Longest)
Ready(a) == ~axis[a].alarm /\ ~axis[a].moving

Steady(a) ==
  /\ pc \in {"motion", "alarm", "position"} /\ a < at => Ready(a)
  /\ pc \in {"alarm", "position"} /\ a = at => ~axis[a].moving
  /\ pc = "position" /\ a = at => ~axis[a].alarm
  /\ pc \in {"speed", "act"} /\ a >= at => Ready(a)
  /\ pc \in {"speed", "act"} /\ a < at => Under(a)
  /\ pc = "act" /\ a = at => axis[a].speed = SpeedFor(Distance(a), Longest)

Steered ==
  request.cmd = "move3d" =>
    /\ answer = "none"
    /\ \A a \in Axes \ touched : Steady(a)
    /\ pc = "act" => at \in ToMove
    /\ homing => \/ pc = "begin"
                 \/ pc = "motion" /\ at = 0
                 \/ touched = Axes

(* The ways are what they are while the targets and positions are kept.    *)
LEMMA SameWays ==
  ASSUME UNCHANGED <<request, from>>
  PROVE  /\ ToMove' = ToMove /\ Longest' = Longest
         /\ \A a : Distance(a)' = Distance(a)
<1>1. request' = request /\ from' = from
  OBVIOUS
<1> QED
  BY <1>1 DEF ToMove, Longest, Distance

LEMMA AnswerSteered == ASSUME NEW status, Answer(status) PROVE Steered'
BY DEF Answer, Nothing, Steered

LEMMA EnvironmentSteered == TypeOK /\ Steered /\ Environment => Steered'
<1> SUFFICES ASSUME TypeOK, Steered, Environment, request.cmd = "move3d"
             PROVE  Steered'
  BY DEF Steered, Environment, OthersStart, OthersSwitch, MotionEnds, Alarm, OthersHome,
         HomingEnds, Touch, command
<1>1. UNCHANGED <<request, pc, at, from, answer>>
  BY DEF Environment, OthersStart, OthersSwitch, MotionEnds, Alarm, OthersHome,
         HomingEnds, Touch, command
<1>2. touched \subseteq Axes /\ axis \in [Axes -> AxisRecord]
  BY DEF TypeOK
<1>3. CASE touched' = Axes
  BY <1>1, <1>3, SameWays DEF Steered
<1>4. ASSUME NEW a \in Axes, touched' = touched \cup {a}, homing' = homing,
             \A b \in Axes \ {a} : axis'[b] = axis[b]
      PROVE  Steered'
  <2>1. ASSUME NEW b \in Axes \ touched' PROVE Steady(b)'
    <3>1. axis'[b] = axis[b] /\ b \in Axes \ touched
      BY <1>4, <2>1
    <3>2. Steady(b)
      BY <3>1 DEF Steered
    <3>3. Ready(b)' = Ready(b) /\ Under(b)' = Under(b)
      BY <1>1, <3>1, SameWays DEF Ready, Under
    <3> QED
      BY <1>1, <3>1, <3>2, <3>3, SameWays DEF Steady
  <2>2. touched = Axes => touched' = Axes
    BY <1>4
  <2> QED
    BY <1>1, <1>4, <2>1, <2>2, SameWays DEF Steered
<1>5. ASSUME NEW a \in Axes, OthersStart(a) \/ OthersSwitch(a) \/ MotionEnds(a)
      PROVE  Steered'
  <2>1. touched' = touched \cup {a} /\ homing' = homing
    BY <1>5 DEF OthersStart, OthersSwitch, MotionEnds, Touch
  <2>2. \A b \in Axes \ {a} : axis'[b] = axis[b]
    BY <1>2, <1>5 DEF OthersStart, OthersSwitch, MotionEnds
  <2> QED
    BY <1>4, <2>1, <2>2
<1>6. ASSUME NEW a \in Axes, Alarm(a) PROVE Steered'
  <2>1. CASE axis[a].moving
    BY <1>2, <1>3, <1>6, <2>1 DEF Alarm, Touch
  <2>2. CASE ~axis[a].moving
    <3>1. touched' = touched \cup {a} /\ homing' = homing
      BY <1>6, <2>2 DEF Alarm, Touch
    <3>2. \A b \in Axes \ {a} : axis'[b] = axis[b]
      BY <1>2, <1>6, <2>2 DEF Alarm
    <3> QED
      BY <1>4, <3>1, <3>2
  <2> QED
    BY <2>1, <2>2
<1>7. CASE OthersHome \/ HomingEnds
  BY <1>2, <1>3, <1>7 DEF OthersHome, HomingEnds, Touch
<1> QED
  BY <1>5, <1>6, <1>7 DEF Environment

LEMMA LookingSteered ==
  TypeOK /\ Steered
  /\ (Refuse \/ AnswerAtOnce \/ Proceed \/ AskMotion \/ AskAlarm \/ AskPosition)
    => Steered'
<1> SUFFICES ASSUME TypeOK, Steered,
                    Refuse \/ AnswerAtOnce \/ Proceed \/ AskMotion \/ AskAlarm
                    \/ AskPosition
             PROVE  Steered'
  OBVIOUS
<1>1. at \in Axes /\ N \in Nat \ {0} /\ Axes \subseteq Int
  BY CommandsAssumption DEF TypeOK, Axes
<1>2. CASE Refuse \/ AnswerAtOnce
  BY <1>2, AnswerSteered DEF Refuse, AnswerAtOnce
<1>3. ASSUME NEW place \in {"motion", "alarm", "position", "act"}, NEW b,
             Goto(place, b), request.cmd # "move3d"
      PROVE  Steered'
  BY <1>3 DEF Goto, Steered
<1>4. CASE Proceed
  <2>1. CASE request.cmd = "move3d"
    <3>1. /\ request' = request /\ pc' = "motion" /\ at' = 0 /\ answer' = "none"
      BY <1>4, <2>1 DEF Proceed, Goto
    <3> QED
      BY <3>1, CommandsAssumption DEF Steered, Steady, Axes
  <2>2. CASE request.cmd # "move3d"
    BY <1>3, <1>4, <2>2 DEF Proceed
  <2> QED
    BY <2>1, <2>2
<1>5. CASE AskMotion
  <2>1. CASE request.cmd = "move3d"
    <3>1. CASE IsInMotion(at)
      BY <1>5, <2>1, <3>1, AnswerSteered DEF AskMotion
    <3>2. CASE ~IsInMotion(at)
      <4>1. /\ UNCHANGED <<request, at, touched, axis, homing>>
            /\ answer' = "none"
            /\ pc = "motion" /\ pc' = "alarm" /\ ~homing /\ ~axis[at].moving
        BY <1>5, <2>1, <3>2 DEF AskMotion, Goto, Looks, IsInMotion, robot
      <4>2. \A a \in Axes \ touched : a < at => Ready(a)
        BY <2>1, <4>1 DEF Steered, Steady
      <4> QED
        BY <4>1, <4>2 DEF Steered, Steady, Ready
    <3> QED
      BY <3>1, <3>2
  <2>2. CASE request.cmd # "move3d"
    BY <1>3, <1>5, <2>2, AnswerSteered DEF AskMotion, NextAsked
  <2> QED
    BY <2>1, <2>2
<1>6. CASE AskAlarm
  <2>1. CASE request.cmd = "move3d"
    <3>1. CASE axis[at].alarm
      BY <1>6, <2>1, <3>1, AnswerSteered DEF AskAlarm
    <3>2. CASE ~axis[at].alarm
      <4>1. /\ UNCHANGED <<request, at, touched, axis, homing>>
            /\ pc = "alarm" /\ pc' = "position" /\ answer' = "none"
        BY <1>6, <2>1, <3>2 DEF AskAlarm, Goto, Looks, robot
      <4>2. /\ \A a \in Axes \ touched : a < at => Ready(a)
            /\ at \notin touched => ~axis[at].moving
            /\ homing => touched = Axes
        BY <1>1, <2>1, <4>1 DEF Steered, Steady
      <4> QED
        BY <3>2, <4>1, <4>2 DEF Steered, Steady, Ready
    <3> QED
      BY <3>1, <3>2
  <2>2. CASE request.cmd # "move3d"
    BY <1>3, <1>6, <2>2, AnswerSteered DEF AskAlarm, NextAsked
  <2> QED
    BY <2>1, <2>2
<1>7. CASE AskPosition
  <2>1. CASE request.cmd # "move3d"
    BY <1>7, <2>1, AnswerSteered DEF AskPosition, Steered
  <2>2. CASE request.cmd = "move3d" /\ ~Answer("invalid")
    <3>1. /\ UNCHANGED <<request, touched, axis, homing, answer>> /\ pc = "position"
          /\ IF at + 1 < N THEN pc' = "motion" /\ at' = at + 1
                           ELSE pc' = "speed" /\ at' = 0
      BY <1>7, <2>2 DEF AskPosition, Looks, robot
    <3>2. /\ \A a \in Axes \ touched : a <= at => Ready(a)
          /\ homing => touched = Axes
      BY <1>1, <2>2, <3>1 DEF Steered, Steady, Ready
    <3>3. CASE at + 1 < N
      BY <1>1, <3>1, <3>2, <3>3 DEF Steered, Steady, Ready
    <3>4. CASE ~(at + 1 < N)
      <4>1. \A a \in Axes : a <= at /\ ~(a < 0)
        BY <1>1, <3>4 DEF Axes
      <4> QED
        BY <1>1, <3>1, <3>2, <3>4, <4>1 DEF Steered, Steady, Ready
    <3> QED
      BY <3>3, <3>4
  <2> QED
    BY <2>1, <2>2, AnswerSteered
<1> QED
  BY <1>2, <1>4, <1>5, <1>6, <1>7

(* What the two steps that act leave behind.                               *)
LEMMA SpeedGiven ==
  ASSUME TypeOK, Steered, request.cmd = "move3d", GiveSpeed
  PROVE  /\ at \in Axes /\ pc = "speed" /\ UNCHANGED homing
         /\ \/ at \in ToMove /\ axis' = [axis EXCEPT ![at].speed =
                                           SpeedFor(Distance(at), Longest)]
            \/ at \notin ToMove /\ axis' = axis
         /\ \A a \in Axes \ touched : a >= at => Ready(a)
         /\ \A a \in Axes \ touched : a < at => Under(a)
         /\ homing => touched = Axes
<1>1. at \in Axes
  BY DEF TypeOK
<1>2. /\ pc = "speed" /\ UNCHANGED homing
      /\ \/ at \in ToMove /\ axis' = [axis EXCEPT ![at].speed =
                                        SpeedFor(Distance(at), Longest)]
         \/ at \notin ToMove /\ axis' = axis
  BY DEF GiveSpeed, SetSpeed
<1> QED
  BY <1>1, <1>2 DEF Steered, Steady

LEMMA MotionSent ==
  ASSUME TypeOK, Steered, ActMove3D
  PROVE  /\ request.cmd = "move3d" /\ at \in Axes /\ UNCHANGED homing
         /\ \A a \in Axes \ {at} : axis'[a] = axis[a]
         /\ axis'[at].on = axis[at].on /\ axis'[at].speed = axis[at].speed
         /\ \A a \in Axes \ touched : a > at => Ready(a)
         /\ \A a \in Axes \ touched : a < at => Under(a)
         /\ at \notin touched /\ axis[at].on =>
              axis'[at].moving /\ axis[at].speed = SpeedFor(Distance(at), Longest)
         /\ homing => touched = Axes
<1>1. at \in Axes /\ axis \in [Axes -> AxisRecord] /\ Axes \subseteq Int
  BY CommandsAssumption DEF TypeOK, Axes
<1>2. /\ request.cmd = "move3d" /\ pc = "act" /\ UNCHANGED homing
      /\ axis' = [axis EXCEPT ![at].moving = axis[at].moving \/ CanStart(at)]
  BY DEF ActMove3D
<1>3. /\ \A a \in Axes \ {at} : axis'[a] = axis[a]
      /\ axis'[at].on = axis[at].on /\ axis'[at].speed = axis[at].speed
      /\ axis'[at].moving = (axis[at].moving \/ CanStart(at))
  BY <1>1, <1>2 DEF AxisRecord
<1>4. /\ \A a \in Axes \ touched : a >= at => Ready(a)
      /\ \A a \in Axes \ touched : a < at => Under(a)
      /\ at \notin touched => axis[at].speed = SpeedFor(Distance(at), Longest)
      /\ homing => touched = Axes
  BY <1>1, <1>2 DEF Steered, Steady
<1>5. at \notin touched /\ axis[at].on => CanStart(at)
  BY <1>1, <1>4 DEF Ready, CanStart, IsInMotion
<1>6. at \notin touched /\ axis[at].on => axis'[at].moving
  BY <1>3, <1>5, Zenon
<1>7. \A a \in Axes \ touched : a > at => Ready(a)
  BY <1>1, <1>4
<1> QED
  BY <1>1, <1>2, <1>3, <1>4, <1>6, <1>7, Zenon

LEMMA ActingSteered ==
  TypeOK /\ Orderly /\ Steered
  /\ (GiveSpeed \/ ActMove3D \/ ActMoveto \/ ActEnable \/ ActReset \/ ActStop
      \/ ActHoming \/ ActWrite \/ ActGripper)
    => Steered'
<1> SUFFICES ASSUME TypeOK, Orderly, Steered,
                    GiveSpeed \/ ActMove3D \/ ActMoveto \/ ActEnable \/ ActReset
                    \/ ActStop \/ ActHoming \/ ActWrite \/ ActGripper
             PROVE  Steered'
  OBVIOUS
<1>1. at \in Axes /\ axis \in [Axes -> AxisRecord] /\ Axes \subseteq Int
  BY CommandsAssumption DEF TypeOK, Axes
<1>2. CASE ActMoveto \/ ActEnable \/ ActHoming \/ ActWrite \/ ActGripper
  <2>1. \E status \in {"ok", "unable"} : Answer(status)
    BY <1>2 DEF ActMoveto, ActEnable, ActHoming, ActWrite, ActGripper
  <2> QED
    BY <2>1, AnswerSteered
<1>3. CASE ActReset \/ ActStop
  <2>1. request.cmd # "move3d" /\ (Answer("ok") \/ request' = request)
    BY <1>3 DEF ActReset, ActStop, NextAsked, Goto
  <2> QED
    BY <2>1, AnswerSteered DEF Steered
<1>4. CASE GiveSpeed /\ ~Answer("ok")
  <2>1. /\ request.cmd = "move3d" /\ UNCHANGED <<request, from, touched>>
        /\ answer' = "none"
    BY <1>4 DEF GiveSpeed, Goto, Orderly
  <2>2. /\ \/ at \in ToMove /\ axis' = [axis EXCEPT ![at].speed =
                                          SpeedFor(Distance(at), Longest)]
           \/ at \notin ToMove /\ axis' = axis
        /\ \A a \in Axes \ touched : a >= at => Ready(a)
        /\ \A a \in Axes \ touched : a < at => Under(a)
        /\ homing => touched = Axes
        /\ homing' = homing
    BY <1>4, <2>1, SpeedGiven
  <2>3. CASE at \in ToMove
    <3>1. /\ at' = at /\ pc' = "act"
          /\ axis' = [axis EXCEPT ![at].speed = SpeedFor(Distance(at), Longest)]
      BY <1>4, <2>2, <2>3 DEF GiveSpeed, Goto
    <3>2. /\ \A a \in Axes \ {at} : axis'[a] = axis[a]
          /\ axis'[at].alarm = axis[at].alarm /\ axis'[at].moving = axis[at].moving
          /\ axis'[at].speed = SpeedFor(Distance(at), Longest)
      BY <1>1, <3>1 DEF AxisRecord
    <3>3. \A a \in Axes \ touched : a >= at => Ready(a)'
      BY <2>2, <3>2 DEF Ready
    <3>4. \A a \in Axes \ touched : a < at => Under(a)'
      BY <1>1, <2>1, <2>2, <3>2, SameWays DEF Under
    <3> QED
      BY <1>1, <2>1, <2>2, <2>3, <3>1, <3>2, <3>3, <3>4, SameWays DEF Steered, Steady
  <2>4. CASE at \notin ToMove
    <3>1. at' = at + 1 /\ pc' = "speed" /\ axis' = axis
      BY <1>4, <2>2, <2>4 DEF GiveSpeed, Goto
    <3>2. \A a \in Axes \ touched : a >= at + 1 => Ready(a)'
      BY <1>1, <2>2, <3>1 DEF Ready
    <3>3. \A a \in Axes \ touched : a < at + 1 => Under(a)'
      BY <1>1, <2>1, <2>2, <2>4, <3>1, SameWays DEF Under
    <3> QED
      BY <1>1, <2>1, <2>2, <3>1, <3>2, <3>3 DEF Steered, Steady
  <2> QED
    BY <2>3, <2>4
<1>5. CASE ActMove3D /\ ~Answer("ok")
  <2>1. /\ at' = at + 1 /\ pc' = "speed" /\ UNCHANGED <<request, from, touched>>
        /\ answer' = "none"
    BY <1>5 DEF ActMove3D, Goto
  <2>2. \A a \in Axes \ touched : a >= at + 1 => Ready(a)'
    BY <1>1, <1>5, MotionSent DEF Ready
  <2>3. \A a \in Axes \ touched : a < at + 1 => Under(a)'
    BY <1>1, <1>5, <2>1, MotionSent, SameWays DEF Under
  <2>4. homing' => touched' = Axes
    BY <1>5, <2>1, MotionSent
  <2> QED
    BY <1>1, <2>1, <2>2, <2>3, <2>4 DEF Steered, Steady
<1> QED
  BY <1>2, <1>3, <1>4, <1>5, AnswerSteered

LEMMA SteeredNext == TypeOK /\ Orderly /\ Steered /\ [Next]_vars => Steered'
<1> SUFFICES ASSUME TypeOK, Orderly, Steered, [Next]_vars PROVE Steered'
  OBVIOUS
<1>1. CASE CommandThread
  BY <1>1, LookingSteered, ActingSteered DEF CommandThread
<1>2. CASE Environment
  BY <1>2, EnvironmentSteered
<1>3. CASE \E r \in Requests : Begin(r)
  <2>1. pc' = "begin" /\ answer' = "none"
    BY <1>3 DEF Begin
  <2> QED
    BY <2>1 DEF Steered, Steady
<1>4. CASE UNCHANGED vars
  <2>1. UNCHANGED <<request, pc, at, from, touched, axis, homing, answer>>
    BY <1>4 DEF vars, robot, command
  <2>2. \A a : Ready(a)' = Ready(a) /\ Under(a)' = Under(a)
    BY <2>1, SameWays DEF Ready, Under
  <2> QED
    BY <2>1, <2>2, SameWays DEF Steered, Steady
<1> QED
  BY <1>1, <1>2, <1>3, <1>4 DEF Next

(* For any number of axes, Move3D answers OK only with every axis under    *)
(* way that it was to move, at speeds in proportion to the ways, unless    *)
(* somebody else has touched the axis or the driver is not excited         *)
(* (Move3DCommand::execute).                                               *)
THEOREM Move3DMovesAll == Spec => Move3DWhole
<1> DEFINE Whole ==
      (request.cmd = "move3d" /\ answer' = "ok")
      => \A a \in ToMove \ touched : axis[a].on =>
           /\ axis'[a].moving
           /\ FullSpeed * Longest < Word =>
                /\ axis'[a].speed * Longest <= FullSpeed * Distance(a)
                /\ Distance(a) = Longest => axis'[a].speed = FullSpeed
<1>1. Init => Orderly /\ Steered
  BY DEF Init, Nothing, Orderly, Steered
<1>2. TypeOK /\ Orderly /\ Steered /\ [Next]_vars => Whole
  <2> SUFFICES ASSUME TypeOK, Orderly, Steered, [Next]_vars,
                      request.cmd = "move3d", answer' = "ok",
                      NEW a \in ToMove \ touched, axis[a].on
               PROVE  /\ axis'[a].moving
                      /\ FullSpeed * Longest < Word =>
                           /\ axis'[a].speed * Longest <= FullSpeed * Distance(a)
                           /\ Distance(a) = Longest => axis'[a].speed = FullSpeed
    OBVIOUS
  <2>1. a \in Axes /\ at \in Axes /\ axis \in [Axes -> AxisRecord] /\ Axes = 0..(N - 1)
    BY DEF ToMove, TypeOK, Axes
  <2>2. (GiveSpeed /\ at \notin ToMove /\ axis' = axis /\ at = N - 1)
        \/ (ActMove3D /\ at = N - 1)
    <3>1. CommandThread \/ UNCHANGED answer
      BY DEF Next, Begin, Environment, OthersStart, OthersSwitch, MotionEnds, Alarm,
             OthersHome, HomingEnds, Touch, command, vars
    <3>2. CommandThread
      BY <3>1 DEF Steered
    <3>3. ~Refuse /\ ~Proceed /\ ~AskMotion /\ ~AskAlarm /\ ~AskPosition /\ ~AnswerAtOnce
      BY DEF Refuse, Proceed, AskMotion, AskAlarm, AskPosition, AnswerAtOnce, NextAsked,
             Goto, Answer, Steered
    <3>4. ~ActMoveto /\ ~ActEnable /\ ~ActReset /\ ~ActStop /\ ~ActHoming /\ ~ActWrite
          /\ ~ActGripper
      BY DEF ActMoveto, ActEnable, ActReset, ActStop, ActHoming, ActWrite, ActGripper
    <3>5. GiveSpeed \/ ActMove3D
      BY <3>2, <3>3, <3>4 DEF CommandThread
    <3>6. at = N - 1 \/ at < N - 1
      BY <2>1, CommandsAssumption
    <3> QED
      BY <3>5, <3>6 DEF GiveSpeed, ActMove3D, Goto
  <2>3. axis'[a].moving /\ axis'[a].speed = SpeedFor(Distance(a), Longest)
    <3>1. CASE GiveSpeed /\ at \notin ToMove /\ axis' = axis /\ at = N - 1
      BY <2>1, <3>1, SpeedGiven, CommandsAssumption DEF Under
    <3>2. CASE ActMove3D /\ at = N - 1
      BY <2>1, <3>2, MotionSent, CommandsAssumption DEF Under
    <3> QED
      BY <2>2, <3>1, <3>2
  <2>4. Distance(a) \in 1..Longest /\ Longest \in Nat \ {0}
    <3>1. Distance(a) \in Nat \ {0}
      <4>1. request.to[a] \in Int /\ from[a] \in Int /\ request.to[a] # from[a]
        BY <2>1, CommandsAssumption DEF ToMove, TypeOK, Request, Position
      <4> QED
        BY <4>1 DEF Distance
    <3>2. Distance(a) <= Longest /\ Longest \in Nat
      BY <2>1, LongestType, CommandsAssumption
    <3> QED
      BY <3>1, <3>2
  <2> QED
    BY <2>3, <2>4, SpeedInProportion
<1> QED
  BY TypeCorrect, <1>1, <1>2, OrderlyNext, SteeredNext, PTL DEF Spec, Move3DWhole
=============================================================================
