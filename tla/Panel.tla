------------------------------- MODULE Panel --------------------------------
(***************************************************************************)
(* The touch panel: the touch thread that reads the kernel's input events, *)
(* the widgets that take touches, the two modal dialogs, and the turn of   *)
(* the main loop (RobotConsole::execute) that hands one event to the       *)
(* widgets and then brings the shown view up to date with the arm.         *)
(*                                                                         *)
(* The screen is a set of places.  A place stands for a point and is named *)
(* for what is there; what lies at the same point in another view or in a  *)
(* dialog is given by At, from the rectangles in the create calls.  Of the *)
(* views the arm view (a motor's toggle, a move) and the teaching view     *)
(* (the pitch label, a jog) are modelled; they cover the same rectangle.   *)
(* The arm is what the console asks Robot about, changed by the network    *)
(* and a script at any moment.                                             *)
(***************************************************************************)
EXTENDS Naturals, SequencesExt

CONSTANTS
  Axes,        \* the axes, numbered from 0 in the order stopAll takes them
  MaxEvents,   \* bound: events in m_events
  MaxLost,     \* bound: releases the kernel drops in a behaviour
  EditorSize,  \* symbols the editor takes: 8 in the code
  Together     \* bound: FALSE: no release is lost in a behaviour before or
               \* while an axis turns that still reads as halted

ASSUME PanelAssumption ==
  /\ Axes \subseteq Nat /\ IsFiniteSet(Axes) /\ Axes # {}
  /\ MaxEvents \in Nat \ {0} /\ MaxLost \in Nat /\ EditorSize \in Nat \ {0}
  /\ Together \in BOOLEAN

Place == {"tab0", "tab1", "upper", "middle", "ok", "cancel", "enter", "exit", "stop"}
View == {"arm", "teach"}
Listener == {"desktop", "message", "editor"}

(* The widgets of a listener, and the order handleTouchEvent asks them in: *)
(* children in the order of their creation, before their parent.           *)
Widgets == [desktop |-> {"tabs", "toggle", "gohome", "pitch", "jog", "exit", "stop",
                         "desktop"},
            message |-> {"ok", "cancel", "message"},
            editor  |-> {"key", "enter", "editor"}]
Rank == [tabs |-> 1, toggle |-> 2, gohome |-> 3, pitch |-> 4, jog |-> 5, exit |-> 6,
         stop |-> 7, desktop |-> 8,
         ok |-> 1, cancel |-> 2, message |-> 3, key |-> 1, enter |-> 2, editor |-> 3]
Widget == UNION {Widgets[l] : l \in Listener}

(* The children of a view that its update enables and disables.            *)
Children == [arm |-> {"toggle", "gohome"}, teach |-> {"pitch", "jog"}]
Control == UNION {Children[v] : v \in View}

(* The tabs, and what a listener has at a place, whether shown or not.  The *)
(* places "ok" and "cancel" are the two halves of the box: the only button  *)
(* of an error lies across both.                                           *)
TabAt(p) == IF p = "tab0" THEN "arm" ELSE "teach"
OnDesktop(p) == CASE p \in {"tab0", "tab1"} -> {"tabs"}
                  [] p = "upper" -> {"toggle", "pitch"}
                  [] p = "middle" -> {"gohome", "jog"}
                  [] p \in {"exit", "stop"} -> {p}
                  [] OTHER -> {}
OnMessage(p) == IF p \in {"ok", "cancel"} THEN {"ok", "cancel"} ELSE {}
OnEditor(p) == CASE p = "middle" -> {"key"}
                 [] p = "enter" -> {p}
                 [] OTHER -> {}

VARIABLES
  (* the touch thread and the kernel *)
  finger,      \* "up", "down", or "pending" before it counts
  events,      \* m_events
  lost,        \* releases dropped so far
  (* the widgets, touched only by the main thread *)
  listeners,   \* m_listeners, front first
  shown,       \* the dialogs that are visible
  captured,    \* the widgets with m_captured set
  selected,    \* the view of the selected tab
  down,        \* the tabs that are pressed
  enabled,     \* m_enable of each control
  lamp,        \* the toggle's m_state
  message,     \* what the message box says
  handler,     \* its EVENT_CLOSE handler
  value,       \* the editor's m_value: how many symbols, and the first
  turn,        \* where the main loop is
  axis,        \* the axis stopAll has come to
  terminated,  \* m_terminated of the console
  (* the arm *)
  power,       \* whether the motors are excited, as isHalted answers
  moving,      \* the axes in motion
  (* history *)
  busy,        \* turns that have ended since the arm came to move (2: more)
  spared,      \* axes that read as halted when stopAll came to them, or
               \* that others have started since
  pressedLamp, \* the lamp when the toggle was last touched
  switched,    \* the excitation was changed by others since that lamp was set
  refused      \* a move was refused and its message has not been closed

touch == <<finger, events, lost>>
dialogs == <<listeners, shown, message, handler, value>>
views == <<selected, down, enabled, lamp>>
arm == <<power, moving>>
history == <<busy, spared, pressedLamp, switched, refused>>
loop == <<turn, axis, terminated>>
vars == <<touch, dialogs, views, captured, loop, arm, history>>

Touched(p) == [touched |-> TRUE, at |-> p]
Released == [touched |-> FALSE, at |-> "up"]
Symbol == {"none", "minus", "zero", "digit"}
Turn == {"dispatch", "stop", "ended"} \cup Control

TypeOK ==
  /\ finger \in {"up", "pending", "down"}
  /\ events \in Seq({Touched(p) : p \in Place} \cup {Released})
  /\ Len(events) <= MaxEvents /\ lost \in 0..MaxLost
  /\ listeners \in Seq(Listener) /\ listeners # <<>>
  /\ shown \subseteq {"message", "editor"}
  /\ captured \subseteq Widget
  /\ selected \in View /\ down \subseteq View
  /\ enabled \in [Control -> BOOLEAN] /\ lamp \in BOOLEAN
  /\ message \in {"exit", "error"} /\ handler \in {"nothing", "exit"}
  /\ value \in [size: 0..EditorSize, first: Symbol]
  /\ turn \in Turn /\ axis \in Axes /\ terminated \in BOOLEAN
  /\ power \in BOOLEAN /\ moving \subseteq Axes
  /\ busy \in 0..2 /\ spared \subseteq Axes
  /\ {pressedLamp, switched, refused} \subseteq BOOLEAN

Empty == [size |-> 0, first |-> "none"]

Init ==
  /\ finger = "up" /\ events = <<>> /\ lost = 0
  /\ listeners = <<"desktop">> /\ shown = {} /\ captured = {}
  /\ selected = "arm" /\ down = {}
  /\ enabled = [w \in Control |-> TRUE] /\ lamp = FALSE
  /\ message = "error" /\ handler = "nothing" /\ value = Empty
  /\ turn = "dispatch" /\ axis = Min(Axes) /\ terminated = FALSE
  /\ power = FALSE /\ moving = {}
  /\ busy = 0 /\ spared = {}
  /\ pressedLamp = FALSE /\ switched = FALSE /\ refused = FALSE

(* An axis turns that reads as halted: it was started across its own       *)
(* hardHIZ (whoever started it had asked isHalted before) and has not been *)
(* polled since.                                                           *)
Unread == ~power /\ moving # {}
MayCross == Together \/ lost = 0

-----------------------------------------------------------------------------
(* The touch thread (TouchManager::execute).                               *)

Room == Len(events) < MaxEvents

(* BTN_TOUCH goes down; the touch counts once both coordinates have come,  *)
(* which the kernel sends only if they differ from the last ones: until    *)
(* then, or until the finger moves, it is pending.                         *)
FingerDown(p) ==
  /\ finger = "up" /\ Room
  /\ \/ finger' = "down" /\ events' = Append(events, Touched(p))
     \/ finger' = "pending" /\ UNCHANGED events
  /\ UNCHANGED <<lost, dialogs, views, captured, loop, arm, history>>

FingerMoves(p) ==
  /\ finger = "pending" /\ Room
  /\ finger' = "down" /\ events' = Append(events, Touched(p))
  /\ UNCHANGED <<lost, dialogs, views, captured, loop, arm, history>>

FingerUp ==
  /\ finger # "up" /\ Room
  /\ finger' = "up" /\ events' = Append(events, Released)
  /\ UNCHANGED <<lost, dialogs, views, captured, loop, arm, history>>

(* The kernel's buffer overflows while the thread reads one event at a     *)
(* time; the SYN_DROPPED that tells of it is not looked at.                *)
FingerUpLost ==
  /\ finger # "up" /\ lost < MaxLost
  /\ Together \/ ~Unread
  /\ finger' = "up" /\ lost' = lost + 1
  /\ UNCHANGED <<events, dialogs, views, captured, loop, arm, history>>

-----------------------------------------------------------------------------
(* The modal dialogs.                                                      *)

PushListener(d) == listeners' = <<d>> \o listeners
Listening == Head(listeners)

(* Variant: the box is not hidden when it is closed.                       *)
PopListenerVisible == listeners' = Tail(listeners) /\ UNCHANGED shown

PopListener == listeners' = Tail(listeners) /\ shown' = shown \ {Listening}

(* An error's handler does nothing.                                        *)
HandlerOf(text) == IF text = "exit" THEN "exit" ELSE "nothing"

(* Variant: an error attaches no handler.                                  *)
OpenMessageKeepsHandler(text) ==
  IF "message" \in shown THEN UNCHANGED dialogs
  ELSE /\ message' = text
       /\ handler' = IF text = "exit" THEN "exit" ELSE handler
       /\ PushListener("message") /\ shown' = shown \cup {"message"}
       /\ UNCHANGED value

(* A message for a box that is already open is dropped.                    *)
OpenMessage(text) ==
  IF "message" \in shown THEN UNCHANGED dialogs
  ELSE /\ message' = text /\ handler' = HandlerOf(text)
       /\ PushListener("message") /\ shown' = shown \cup {"message"}
       /\ UNCHANGED value

CloseMessage(result) ==
  IF "message" \notin shown THEN UNCHANGED <<dialogs, terminated, refused>>
  ELSE /\ PopListener
       /\ terminated' = (terminated \/ (handler = "exit" /\ result))
       /\ refused' = FALSE
       /\ UNCHANGED <<message, handler, value>>

OpenEditor ==
  IF "editor" \in shown THEN UNCHANGED dialogs
  ELSE /\ value' = Empty
       /\ PushListener("editor") /\ shown' = shown \cup {"editor"}
       /\ UNCHANGED <<message, handler>>

CloseEditor ==
  IF "editor" \notin shown THEN UNCHANGED dialogs
  ELSE PopListener /\ UNCHANGED <<message, handler, value>>

(* No zero in front of another digit, and a minus sign only at the start.  *)
Accepts(symbol) ==
  CASE symbol = "minus" -> value.size = 0
    [] symbol = "zero" -> /\ value.first # "zero"
                          /\ value.first = "minus" => value.size >= 2
    [] symbol = "digit" -> value.first # "zero"

TypeSymbol == \E symbol \in Symbol \ {"none"} :
  /\ value' = IF ~Accepts(symbol) THEN value
              ELSE [size |-> value.size + 1,
                    first |-> IF value.size = 0 THEN symbol ELSE value.first]
  /\ UNCHANGED <<listeners, shown, message, handler>>

(* Variant: one symbol too many.                                           *)
EditorKeyOverflows(key) ==
  IF value.size > EditorSize THEN UNCHANGED dialogs
  ELSE IF key = "enter" THEN CloseEditor ELSE TypeSymbol

(* A full editor takes no key: not even OK and CANCEL.                     *)
EditorKey(key) ==
  IF value.size >= EditorSize THEN UNCHANGED dialogs
  ELSE IF key = "enter" THEN CloseEditor ELSE TypeSymbol

-----------------------------------------------------------------------------
(* Touches.                                                                *)

(* A widget that is hidden or disabled takes none.                         *)
MayTake(w) ==
  /\ \A v \in View : w \in Children[v] => selected = v
  /\ w \in Control => enabled[w]
  /\ w = "cancel" => message = "exit"

IsAt(w, p) ==
  \/ w \in OnDesktop(p) \cup OnEditor(p) \cup {"desktop"}
  \/ w = "editor" /\ p \notin {"tab0", "tab1", "exit", "stop"}
  \/ w = "message" /\ p \in {"middle", "ok", "cancel"}
  \/ w = p
  \/ w = "ok" /\ p = "cancel" /\ message = "error"

(* The widgets that would take a touch at a place, and those that wait for *)
(* a release: the first one gets it.                                       *)
Asked == Widgets[Listening]
Takers(p) == {w \in Asked : IsAt(w, p) /\ MayTake(w)}
Captors == Asked \cap captured
First(ws) == CHOOSE w \in ws : \A v \in ws : Rank[w] <= Rank[v]

TakeTouch(w, p) ==
  /\ captured' = captured \cup {w}
  /\ down' = IF w = "tabs" /\ TabAt(p) # selected
             THEN down \cup {TabAt(p)} ELSE down
  /\ IF w = "toggle"
     THEN pressedLamp' = lamp /\ switched' = (lamp # power)
     ELSE UNCHANGED <<pressedLamp, switched>>

(* Variant: m_captured is not reset.                                       *)
LetGoKeeps(w) == UNCHANGED captured
LetGo(w) == captured' = captured \ {w}

-----------------------------------------------------------------------------
(* The handlers of a click, and what the console asks of the arm.          *)

(* The excitation changes otherwise than by the toggle.                    *)
Switch == switched' = (switched \/ "toggle" \in captured)

Dialog(open) == open /\ UNCHANGED <<views, arm, terminated, history>>

(* The last of the pressed tabs is selected.                               *)
ClickTabs ==
  /\ selected' = CASE "teach" \in down -> "teach"
                   [] down = {"arm"} -> "arm"
                   [] OTHER -> selected
  /\ down' = {}
  /\ UNCHANGED <<enabled, lamp, dialogs, arm, terminated, history>>

(* RobotConsole::enableMotor: nothing while the arm moves or has an alarm. *)
ClickToggle ==
  /\ lamp' = ~lamp
  /\ \/ moving = {} /\ power' = ~lamp
     \/ UNCHANGED power
  /\ pressedLamp' = FALSE /\ switched' = FALSE
  /\ UNCHANGED <<selected, down, enabled, dialogs, moving, terminated, busy,
                 spared, refused>>

(* RobotConsole::startMove is refused while the arm moves, and also before *)
(* homing, with an alarm or out of reach.  Between startMotion3D's look and *)
(* its commands others may switch the motors off.                          *)
ClickMove ==
  \/ /\ power /\ moving = {}
     /\ moving' \in SUBSET Axes
     /\ UNCHANGED <<power, dialogs, refused>>
     /\ UNCHANGED <<views, terminated, busy, spared, pressedLamp, switched>>
  \/ /\ power /\ moving = {} /\ MayCross
     /\ moving' \in (SUBSET Axes) \ {{}} /\ power' = FALSE /\ Switch
     /\ UNCHANGED <<dialogs, refused>>
     /\ UNCHANGED <<views, terminated, busy, spared, pressedLamp>>
  \/ /\ OpenMessage("error") /\ refused' = TRUE
     /\ UNCHANGED <<arm, views, terminated, busy, spared, pressedLamp, switched>>

Click(w) ==
  \/ w = "tabs" /\ ClickTabs
  \/ w = "toggle" /\ ClickToggle
  \/ w \in {"gohome", "jog"} /\ ClickMove
  \/ w = "pitch" /\ Dialog(OpenEditor)
  \/ w = "exit" /\ Dialog(OpenMessage("exit"))
  \/ /\ w \in {"ok", "cancel"} /\ CloseMessage(w = "ok")
     /\ UNCHANGED <<views, arm, busy, spared, pressedLamp, switched>>
  \/ w \in {"key", "enter"} /\ Dialog(EditorKey(w))
  \/ /\ w \in {"desktop", "message", "editor", "stop"}
     /\ UNCHANGED <<views, dialogs, arm, terminated, history>>

-----------------------------------------------------------------------------
(* The turn of the main loop: RobotConsole::execute.                       *)

(* Variant: the view that was shown when the turn began is updated.        *)
UpdateShownBefore ==
  turn' = IF Head(listeners') # "desktop" THEN "dispatch"
          ELSE IF selected = "arm" THEN "toggle" ELSE "pitch"

(* Only the view that is shown is updated, and only without a dialog.      *)
Update == turn' = IF Head(listeners') # "desktop" THEN "dispatch"
                  ELSE IF selected' = "arm" THEN "toggle" ELSE "pitch"

Dispatching == turn = "dispatch" /\ ~terminated /\ UNCHANGED <<finger, lost, axis>>

DispatchNothing ==
  /\ Dispatching /\ events = <<>>
  /\ UNCHANGED <<events, captured, dialogs, views, arm, terminated, history>>
  /\ Update

DispatchTouch ==
  /\ Dispatching /\ events # <<>> /\ Head(events).touched
  /\ events' = Tail(events)
  /\ LET takers == Takers(Head(events).at)
     IN IF takers = {}
        THEN UNCHANGED <<captured, down, pressedLamp, switched>>
        ELSE TakeTouch(First(takers), Head(events).at)
  /\ UNCHANGED <<dialogs, selected, enabled, lamp, arm, terminated, busy, spared,
                 refused>>
  /\ Update

(* Variant: like the controls, the stop button does nothing in motion.     *)
AfterClickAtRest(w) ==
  IF w = "stop" /\ moving # {} THEN Update
  ELSE IF w = "stop" THEN turn' = "stop" ELSE Update

AfterClick(w) == IF w = "stop" THEN turn' = "stop" ELSE Update

(* Whatever became of a captor since, it gets its release.                 *)
DispatchRelease ==
  /\ Dispatching /\ events # <<>> /\ ~Head(events).touched
  /\ events' = Tail(events)
  /\ IF Captors = {}
     THEN /\ UNCHANGED <<captured, dialogs, views, arm, terminated, history>>
          /\ Update
     ELSE LET captor == First(Captors)
          IN LetGo(captor) /\ Click(captor) /\ AfterClick(captor)

(* Variant: the axis after this one is left out.                           *)
NextAxisSkips(a) ==
  LET rest == {b \in Axes : b > a + 1}
  IN IF rest = {} THEN Update /\ axis' = Min(Axes) ELSE turn' = "stop" /\ axis' = Min(rest)

NextAxis(a) ==
  LET rest == {b \in Axes : b > a}
  IN IF rest = {} THEN Update /\ axis' = Min(Axes) ELSE turn' = "stop" /\ axis' = Min(rest)

(* When the arm has come to rest, its turns are counted anew.              *)
Rest == busy' = IF moving' = {} THEN 0 ELSE busy

(* RobotConsole::stopAll takes one axis after the other, and passes over   *)
(* one that reads as halted.                                               *)
StopAxis(a) ==
  /\ turn = "stop" /\ axis = a
  /\ moving' = IF power THEN moving \ {a} ELSE moving
  /\ Rest
  /\ UNCHANGED <<touch, captured, dialogs, views, power, terminated,
                 pressedLamp, switched, refused>>
  /\ NextAxis(a)
  /\ spared' = IF turn' # "stop" THEN {}
               ELSE IF power THEN spared \ {a} ELSE spared \cup {a}

(* The turn ends once the last child of the view has been updated.         *)
EndTurn ==
  /\ turn' = "dispatch"
  /\ busy' = IF moving = {} THEN 0 ELSE IF busy < 2 THEN busy + 1 ELSE busy

(* Variant: a toggle that is disabled is shown off.                        *)
ExcitedEnabled == power /\ enabled["toggle"]
Excited == power

(* The update functions of the views: each child asks Robot::isInMotion for *)
(* itself, and a toggle shows whether its motor is excited.                *)
UpdateChild(w) ==
  /\ turn = w
  /\ enabled' = [enabled EXCEPT ![w] = (moving = {})]
  /\ lamp' = IF w = "toggle" THEN Excited ELSE lamp
  /\ \/ w = "toggle" /\ turn' = "gohome" /\ UNCHANGED busy
     \/ w = "pitch" /\ turn' = "jog" /\ UNCHANGED busy
     \/ w \in {"gohome", "jog"} /\ EndTurn
  /\ UNCHANGED <<touch, captured, dialogs, selected, down, arm, axis, terminated,
                 spared, pressedLamp, switched, refused>>

End ==
  /\ turn = "dispatch" /\ terminated /\ turn' = "ended"
  /\ UNCHANGED <<touch, captured, dialogs, views, arm, axis, terminated, history>>

MainLoop ==
  \/ DispatchNothing \/ DispatchTouch \/ DispatchRelease \/ End
  \/ \E a \in Axes : StopAxis(a)
  \/ \E w \in Control : UpdateChild(w)

-----------------------------------------------------------------------------
(* The arm, as the network, a script and the drivers change it.            *)

Console == <<touch, captured, dialogs, views, loop, pressedLamp, refused>>

OthersStart(a) ==
  /\ power \/ MayCross
  /\ a \notin moving
  /\ moving' = moving \cup {a}
  /\ spared' = IF turn = "stop" THEN spared \cup {a} ELSE spared
  /\ UNCHANGED <<Console, power, busy, switched>>

(* The motion thread polls: first it reads whether the motors are excited, *)
(* then it looks for the end of a motion.                                  *)
Polled ==
  /\ Unread
  /\ power' = TRUE /\ Switch
  /\ UNCHANGED <<Console, moving, busy, spared>>

MotionEnds(a) ==
  /\ power /\ a \in moving
  /\ moving' = moving \ {a} /\ Rest
  /\ UNCHANGED <<Console, power, spared, switched>>

OthersSwitch ==
  /\ moving = {}
  /\ power' = ~power /\ Switch
  /\ UNCHANGED <<Console, moving, busy, spared>>

Fault ==
  /\ power \/ Unread
  /\ power' = FALSE /\ moving' = {} /\ Rest /\ Switch
  /\ UNCHANGED <<Console, spared>>

Environment ==
  \/ \E a \in Axes : OthersStart(a) \/ MotionEnds(a)
  \/ OthersSwitch \/ Polled \/ Fault

Next ==
  \/ \E p \in Place : FingerDown(p) \/ FingerMoves(p)
  \/ FingerUp \/ FingerUpLost
  \/ MainLoop
  \/ Environment

Spec == Init /\ [][Next]_vars

(* The main loop keeps turning, and a finger is taken away some time.      *)
FairSpec == Spec /\ WF_vars(MainLoop) /\ WF_vars(FingerUp)
-----------------------------------------------------------------------------
(* Safety.                                                                 *)

(* As long as no release is lost, at most one widget holds a touch, it is  *)
(* one that is still asked for releases, and its release is on its way: no *)
(* later touch can set off an earlier one's handler (m_captured in         *)
(* UIWidget::handleTouchEvent, across dialogs opening and closing).        *)
CaptureIsLive ==
  lost = 0 /\ captured # {} =>
    /\ Cardinality(captured) = 1 /\ captured \subseteq Asked
    /\ IF events = <<>> THEN finger = "down" ELSE ~Head(events).touched

(* When a touch is dispatched, no control that would start or switch       *)
(* anything takes it if the arm has been moving for a whole turn: not when *)
(* the view has just been shown or a dialog closed (the update functions   *)
(* of the views).                                                          *)
LockedInMotion ==
  turn = "dispatch" /\ busy = 2 /\ Listening = "desktop" =>
    \A w \in Children[selected] : ~enabled[w]

(* A move that was refused is reported by a box that is in front until it  *)
(* is closed (RobotConsole::startMove, MessageBox::open).                  *)
RefusalShown == refused => Listening = "message" /\ message = "error"

(* A toggle asks for the opposite of what it showed when it was pressed,   *)
(* unless the motor was switched by others meanwhile (update overwrites    *)
(* m_state, and ToggleButton::onReleased inverts it).                      *)
ToggleMeansPress ==
  [][DispatchRelease /\ Captors # {} /\ First(Captors) = "toggle"
       => lamp' = ~pressedLamp \/ switched]_vars

(* When stopAll has come through the axes, whatever moves was started by   *)
(* others after stopAll had come to its axis, or was then turning without  *)
(* having been polled since a start across its own hardHIZ                 *)
(* (RobotConsole::stopAll, whose isHalted is as old as the last poll).     *)
StopAllStops ==
  [][turn = "stop" /\ turn' # "stop" =>
       moving' \subseteq spared \cup IF Unread THEN {axis} ELSE {}]_vars

(* The console ends only by OK on the question of the exit button, however *)
(* many boxes have been opened and closed (MessageBox::attachEvent).       *)
EndsOnlyConfirmed ==
  [][~terminated /\ terminated' =>
       Listening = "message" /\ message = "exit" /\ First(Captors) = "ok"]_vars

(* The editor closes on OK and on CANCEL (the captions in NumberEditor's   *)
(* constructor).                                                           *)
OkCloses ==
  [][DispatchRelease /\ Captors # {} /\ First(Captors) = "enter"
       => Listening' # "editor"]_vars

(* Liveness.                                                               *)

(* A touch of the stop button sets off stopAll, if its release is not lost.*)
StopHeeded == "stop" \in captured ~> (turn = "stop" \/ lost > 0)
=============================================================================
