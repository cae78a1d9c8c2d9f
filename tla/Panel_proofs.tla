---------------------------- MODULE Panel_proofs -----------------------------
(***************************************************************************)
(* Proofs about the touch panel, for every set of axes, every bound on the *)
(* queue and on lost releases, and every size of the editor.               *)
(*                                                                         *)
(* Everything rests on Well: the types, and that the dialogs lie over the  *)
(* desktop one at a time (Stack).  On it stand five invariants that do not *)
(* need each other, one for what the box reports (Reports), one for the    *)
(* turns counted in motion (TurnsCounted), one for events and captors      *)
(* (Held), one for the toggle (ToggleShows) and one for stopAll            *)
(* (StoppedSoFar).  Each has a lemma with one step per action.             *)
(***************************************************************************)
EXTENDS Panel, SequenceTheorems, FiniteSetTheorems, WellFoundedInduction, TLAPS
-----------------------------------------------------------------------------
(* Facts about the tables of widgets and the choices made from them.       *)

(* A set of numbers that is not empty has a least one.                     *)
LEMMA Least ==
  ASSUME NEW T, T \subseteq Nat, T # {}
  PROVE  \E x \in T : \A y \in T : x <= y
<1> DEFINE Less == {d \in Nat \X Nat : d[1] < d[2]}
<1>1. IsWellFoundedOn(Less, Nat)
  <2>1. Less = OpToRel(<, Nat)
    BY DEF OpToRel
  <2> HIDE DEF Less
  <2> QED
    BY <2>1, NatLessThanWellFounded
<1> HIDE DEF Less
<1>2. PICK x \in T : \A y \in T : ~(<<y, x>> \in Less)
  BY <1>1, WFMin
<1>3. ASSUME NEW y \in T PROVE x <= y
  <2>1. ~(<<y, x>> \in Less) /\ x \in Nat /\ y \in Nat
    BY <1>2
  <2> QED
    BY <2>1 DEF Less
<1> QED
  BY <1>3

(* Min, which the order of stopAll's axes is built from, finds it.         *)
LEMMA MinIsLeast ==
  ASSUME NEW S, S \subseteq Nat, S # {}
  PROVE  Min(S) \in S /\ \A x \in S : Min(S) <= x
<1>1. \E x \in S : \A y \in S : x <= y
  BY Least
<1> QED
  BY <1>1 DEF Min

(* The tables of widgets, entry by entry.                                  *)
LEMMA Tables ==
  /\ Widgets["desktop"] = {"tabs", "toggle", "gohome", "pitch", "jog", "exit", "stop",
                           "desktop"}
  /\ Widgets["message"] = {"ok", "cancel", "message"}
  /\ Widgets["editor"] = {"key", "enter", "editor"}
  /\ Children["arm"] = {"toggle", "gohome"}
  /\ Children["teach"] = {"pitch", "jog"}
BY DEF Widgets, Children

(* All controls and all widgets, by name.                                  *)
LEMMA Named ==
  /\ Control = {"toggle", "gohome", "pitch", "jog"}
  /\ Widget = {"tabs", "toggle", "gohome", "pitch", "jog", "exit", "stop", "desktop",
               "ok", "cancel", "message", "key", "enter", "editor"}
  /\ \A l \in Listener : Widgets[l] \subseteq Widget
<1>1. Control = Children["arm"] \cup Children["teach"]
  BY DEF Control, View
<1>2. Widget = Widgets["desktop"] \cup Widgets["message"] \cup Widgets["editor"]
  BY DEF Widget, Listener
<1> QED
  BY <1>1, <1>2, Tables DEF Listener

(* Every widget has its place in the order of asking.                      *)
LEMMA Ranked == \A w \in Widget : Rank[w] \in Nat
BY Named DEF Rank

(* The widget that handleTouchEvent comes to first is one of those it      *)
(* looks for.                                                              *)
LEMMA FirstIsOne ==
  ASSUME NEW ws, ws \subseteq Widget, ws # {}
  PROVE  First(ws) \in ws
<1> DEFINE T == {Rank[w] : w \in ws}
<1>1. T \subseteq Nat /\ T # {}
  BY Ranked
<1>2. \E x \in T : \A y \in T : x <= y
  <2> HIDE DEF T
  <2> QED
    BY <1>1, Least
<1>3. PICK w \in ws : \A v \in ws : Rank[w] <= Rank[v]
  BY <1>2
<1> QED
  BY <1>3 DEF First

-----------------------------------------------------------------------------
(* The invariants, and the dialogs.                                        *)

(* The dialogs open over the desktop only, and one at a time: everything   *)
(* that opens one is on the desktop, which takes no touch below a dialog.  *)
Stack ==
  \/ listeners = <<"desktop">> /\ shown = {}
  \/ \E d \in {"message", "editor"} : listeners = <<d, "desktop">> /\ shown = {d}

(* The types and the stack of dialogs, kept together.                      *)
Well == TypeOK /\ Stack

(* The box that is open says what its handler is for.                      *)
HandlerFits == Listening = "message" => handler = HandlerOf(message)

(* Turns are counted while the arm moves, and an update in its middle has  *)
(* disabled the first child if it counts.                                  *)
TurnsCounted ==
  /\ busy > 0 => moving # {}
  /\ busy > 0 /\ turn = "gohome" => ~enabled["toggle"]
  /\ busy > 0 /\ turn = "jog" => ~enabled["pitch"]
  /\ turn \in Control => turn \in Children[selected]
  /\ LockedInMotion

(* Between two touches there is a release, and after the last one too if   *)
(* the finger is not down.                                                 *)
Alternate ==
  lost = 0 =>
    \A i \in 1..Len(events) : events[i].touched =>
      IF i = Len(events) THEN finger = "down" ELSE ~events[i + 1].touched

(* ... and as long as none is lost, one widget at most waits for one.      *)
OneCaptor ==
  lost = 0 /\ captured # {} =>
    /\ \E w \in Asked : captured = {w}
    /\ IF events = <<>> THEN finger = "down" ELSE ~Head(events).touched

(* While the toggle is pressed it shows what it showed then, and that is   *)
(* what the motor is, unless others have switched it.                      *)
ToggleShows ==
  "toggle" \in captured /\ ~switched => (lamp <=> pressedLamp) /\ (lamp <=> power)

(* The axes stopAll has been to rest, read as halted or were started since. *)
StoppedSoFar ==
  IF turn = "stop" THEN \A b \in moving : b < axis => b \in spared
                   ELSE axis = Min(Axes)

-----------------------------------------------------------------------------
(* The dialogs.                                                            *)

(* Who listens decides the whole stack.                                    *)
LEMMA Stacked ==
  ASSUME Stack
  PROVE  /\ Listening \in Listener
         /\ Listening = "desktop" => listeners = <<"desktop">> /\ shown = {}
         /\ Listening # "desktop" =>
              listeners = <<Listening, "desktop">> /\ shown = {Listening}
<1>1. CASE listeners = <<"desktop">> /\ shown = {}
  BY <1>1 DEF Listening, Listener
<1>2. ASSUME NEW d \in {"message", "editor"}, listeners = <<d, "desktop">>, shown = {d}
      PROVE  Listening = d
  BY <1>2 DEF Listening
<1> QED
  BY <1>1, <1>2 DEF Stack, Listener

(* A sequence of one.                                                      *)
LEMMA Single ==
  ASSUME NEW S, NEW d \in S
  PROVE  <<d>> \in Seq(S) /\ Len(<<d>>) = 1 /\ <<d>>[1] = d
OBVIOUS

(* Two of them joined.                                                     *)
LEMMA Joined ==
  ASSUME NEW S, NEW a \in Seq(S), NEW b \in Seq(S), Len(a) = 1, Len(b) = 1
  PROVE  a \o b = <<a[1], b[1]>>
<1>1. /\ a \o b \in Seq(S)
      /\ Len(a \o b) = Len(a) + Len(b)
      /\ \A i \in 1 .. Len(a) + Len(b) :
           (a \o b)[i] = IF i <= Len(a) THEN a[i] ELSE b[i - Len(a)]
  BY ConcatProperties
<1> DEFINE s == a \o b
<1> HIDE DEF s
<1>2. s \in Seq(S) /\ Len(s) = 2 /\ \A i \in 1 .. 2 : s[i] = IF i <= 1 THEN a[i] ELSE b[i - 1]
  BY <1>1 DEF s
<1>3. s[1] = a[1] /\ s[2] = b[1]
  BY <1>2
<1>4. s = <<s[1], s[2]>>
  BY <1>2
<1> QED
  BY <1>3, <1>4 DEF s

(* pushEventListener over the desktop.                                     *)
LEMMA Pushed == ASSUME NEW d PROVE <<d>> \o <<"desktop">> = <<d, "desktop">>
<1>1. d \in {d, "desktop"} /\ "desktop" \in {d, "desktop"}
  OBVIOUS
<1>2. PICK S : d \in S /\ "desktop" \in S
  BY <1>1
<1>3. <<d>> \in Seq(S) /\ Len(<<d>>) = 1 /\ <<d>>[1] = d
  BY <1>2, Single
<1>4. <<"desktop">> \in Seq(S) /\ Len(<<"desktop">>) = 1 /\ <<"desktop">>[1] = "desktop"
  BY <1>2, Single
<1>5. <<d>> \o <<"desktop">> = <<<<d>>[1], <<"desktop">>[1]>>
  BY <1>3, <1>4, Joined
<1> QED
  BY <1>3, <1>4, <1>5

(* Opened from the desktop, the message box lies over it with its own text *)
(* and its own handler.                                                    *)
LEMMA MessageOpens ==
  ASSUME Stack, Listening = "desktop", NEW text, OpenMessage(text)
  PROVE  /\ listeners' = <<"message", "desktop">> /\ shown' = {"message"}
         /\ message' = text /\ handler' = HandlerOf(text) /\ value' = value
<1>1. listeners = <<"desktop">> /\ shown = {}
  BY Stacked
<1>2. listeners' = <<"message">> \o <<"desktop">>
  BY <1>1 DEF OpenMessage, PushListener
<1> QED
  BY <1>1, <1>2, Pushed DEF OpenMessage

(* Opened from the desktop, the editor lies over it and is empty.          *)
LEMMA EditorOpens ==
  ASSUME Stack, Listening = "desktop", OpenEditor
  PROVE  /\ listeners' = <<"editor", "desktop">> /\ shown' = {"editor"}
         /\ value' = Empty /\ UNCHANGED <<message, handler>>
<1>1. listeners = <<"desktop">> /\ shown = {}
  BY Stacked
<1>2. listeners' = <<"editor">> \o <<"desktop">>
  BY <1>1 DEF OpenEditor, PushListener
<1> QED
  BY <1>1, <1>2, Pushed DEF OpenEditor

(* When the box closes the desktop listens, and the console ends only by   *)
(* its handler.                                                            *)
LEMMA MessageCloses ==
  ASSUME Stack, Listening = "message", NEW result, CloseMessage(result)
  PROVE  /\ listeners' = <<"desktop">> /\ shown' = {} /\ refused' = FALSE
         /\ terminated' = (terminated \/ (handler = "exit" /\ result))
         /\ UNCHANGED <<message, handler, value>>
<1>1. listeners = <<"message", "desktop">> /\ shown = {"message"}
  BY Stacked
<1>2. Tail(listeners) = <<"desktop">>
  BY <1>1
<1> QED
  BY <1>1, <1>2 DEF CloseMessage, PopListener

(* When the editor closes the desktop listens.                             *)
LEMMA EditorCloses ==
  ASSUME Stack, Listening = "editor", CloseEditor
  PROVE  /\ listeners' = <<"desktop">> /\ shown' = {}
         /\ UNCHANGED <<message, handler, value>>
<1>1. listeners = <<"editor", "desktop">> /\ shown = {"editor"}
  BY Stacked
<1>2. Tail(listeners) = <<"desktop">>
  BY <1>1
<1> QED
  BY <1>1, <1>2 DEF CloseEditor, PopListener

(* What a key does.                                                        *)
LEMMA KeyTypes ==
  ASSUME Well, Listening = "editor", NEW key, EditorKey(key)
  PROVE  /\ value' \in [size: 0..EditorSize, first: Symbol]
         /\ UNCHANGED <<message, handler>>
         /\ \/ UNCHANGED <<listeners, shown>>
            \/ listeners' = <<"desktop">> /\ shown' = {}
<1> USE PanelAssumption DEF Well, TypeOK
<1>1. CASE value.size >= EditorSize
  BY <1>1 DEF EditorKey, dialogs
<1>2. CASE ~(value.size >= EditorSize) /\ key = "enter"
  <2>1. CloseEditor
    BY <1>2 DEF EditorKey
  <2> QED
    BY <2>1, EditorCloses
<1>3. CASE ~(value.size >= EditorSize) /\ key # "enter"
  <2>1. TypeSymbol
    BY <1>3 DEF EditorKey
  <2>2. value.size \in 0..EditorSize /\ value.first \in Symbol /\ EditorSize \in Nat
    OBVIOUS
  <2>3. value.size + 1 \in 0..EditorSize
    BY <1>3, <2>2
  <2>4. PICK symbol \in Symbol :
          value' = IF ~Accepts(symbol) THEN value
                   ELSE [size |-> value.size + 1,
                         first |-> IF value.size = 0 THEN symbol ELSE value.first]
    BY <2>1 DEF TypeSymbol
  <2>5. value' \in [size: 0..EditorSize, first: Symbol]
    BY <2>2, <2>3, <2>4
  <2> QED
    BY <2>1, <2>5 DEF TypeSymbol
<1> QED
  BY <1>1, <1>2, <1>3

-----------------------------------------------------------------------------
(* A click.                                                                *)

(* The widget that is asked tells who listens.                             *)
LEMMA WhoClicks ==
  ASSUME Stack, NEW w \in Asked
  PROVE  /\ w \in {"tabs", "toggle", "gohome", "pitch", "jog", "exit", "stop", "desktop"}
              <=> Listening = "desktop"
         /\ w \in {"ok", "cancel", "message"} <=> Listening = "message"
         /\ w \in {"key", "enter", "editor"} <=> Listening = "editor"
         /\ w \in Widget
<1>1. Listening \in {"desktop", "message", "editor"}
  BY Stacked DEF Listener
<1> QED
  BY <1>1, Tables, Named DEF Asked

(* What the dialogs can become by one.                                     *)
LEMMA ClickDialogs ==
  ASSUME Well, NEW w \in Asked, Click(w)
  PROVE  /\ Stack'
         /\ message' \in {"exit", "error"} /\ handler' \in {"nothing", "exit"}
         /\ value' \in [size: 0..EditorSize, first: Symbol]
<1> USE DEF Well, TypeOK
<1>0. Empty \in [size: 0..EditorSize, first: Symbol]
  BY PanelAssumption DEF Empty, Symbol
<1>1. CASE UNCHANGED dialogs
  BY <1>1 DEF dialogs, Stack
<1>2. CASE w \in {"tabs", "toggle", "desktop", "message", "editor", "stop"}
  BY <1>1, <1>2 DEF Click, ClickTabs, ClickToggle
<1>3. CASE w \in {"gohome", "jog"}
  <2>1. ClickMove /\ Listening = "desktop"
    BY <1>3, WhoClicks DEF Click
  <2>2. UNCHANGED dialogs \/ OpenMessage("error")
    BY <2>1 DEF ClickMove
  <2>3. CASE OpenMessage("error")
    BY <2>1, <2>3, MessageOpens DEF Stack, HandlerOf
  <2> QED
    BY <1>1, <2>2, <2>3
<1>4. CASE w = "pitch"
  <2>1. OpenEditor /\ Listening = "desktop"
    BY <1>4, WhoClicks DEF Click, Dialog
  <2> QED
    BY <1>0, <2>1, EditorOpens DEF Stack
<1>5. CASE w = "exit"
  <2>1. OpenMessage("exit") /\ Listening = "desktop"
    BY <1>5, WhoClicks DEF Click, Dialog
  <2> QED
    BY <2>1, MessageOpens DEF Stack, HandlerOf
<1>6. CASE w \in {"ok", "cancel"}
  <2>1. CloseMessage(w = "ok") /\ Listening = "message"
    BY <1>6, WhoClicks DEF Click
  <2> QED
    BY <2>1, MessageCloses DEF Stack
<1>7. CASE w \in {"key", "enter"}
  <2>1. EditorKey(w) /\ Listening = "editor"
    BY <1>7, WhoClicks DEF Click, Dialog
  <2>2. UNCHANGED <<message, handler>>
    BY <2>1, KeyTypes
  <2>3. value' \in [size: 0..EditorSize, first: Symbol]
    BY <2>1, KeyTypes
  <2>4. UNCHANGED <<listeners, shown>> \/ (listeners' = <<"desktop">> /\ shown' = {})
    BY <2>1, KeyTypes
  <2> QED
    BY <2>2, <2>3, <2>4 DEF Stack
<1> QED
  BY <1>2, <1>3, <1>4, <1>5, <1>6, <1>7, WhoClicks, Named

(* ... and the rest.                                                       *)
LEMMA ClickType ==
  ASSUME Well, NEW w \in Asked, Click(w)
  PROVE  /\ selected' \in View /\ down' \subseteq View
         /\ enabled' = enabled /\ lamp' \in BOOLEAN
         /\ power' \in BOOLEAN /\ moving' \subseteq Axes
         /\ busy' = busy /\ spared' = spared
         /\ pressedLamp' \in BOOLEAN /\ switched' \in BOOLEAN /\ refused' \in BOOLEAN
         /\ terminated' \in BOOLEAN
<1> USE DEF Well, TypeOK
<1>1. CASE w = "tabs"
  BY <1>1 DEF Click, ClickTabs, View, arm, history, dialogs
<1>2. CASE w = "toggle"
  BY <1>2 DEF Click, ClickToggle
<1>3. CASE w \in {"gohome", "jog"}
  <2>1. ClickMove
    BY <1>3 DEF Click
  <2>2. UNCHANGED <<views, terminated, busy, spared, pressedLamp>>
        /\ power' \in BOOLEAN /\ switched' \in BOOLEAN
    BY <2>1 DEF ClickMove, arm, Switch
  <2>3. moving' \subseteq Axes
    BY <2>1 DEF ClickMove, arm
  <2>4. refused' \in BOOLEAN
    BY <2>1 DEF ClickMove
  <2> QED
    BY <2>2, <2>3, <2>4 DEF views
<1>4. CASE w \in {"pitch", "exit", "key", "enter"}
  BY <1>4 DEF Click, Dialog, views, arm, history
<1>5. CASE w \in {"ok", "cancel"}
  <2>1. CloseMessage(w = "ok") /\ Listening = "message"
        /\ UNCHANGED <<views, arm, busy, spared, pressedLamp, switched>>
    BY <1>5, WhoClicks DEF Click
  <2>2. refused' = FALSE /\ terminated' = (terminated \/ (handler = "exit" /\ w = "ok"))
    BY <2>1, MessageCloses
  <2> QED
    BY <2>1, <2>2 DEF views, arm
<1>6. CASE w \in {"desktop", "message", "editor", "stop"}
  BY <1>6 DEF Click, views, arm, history
<1> QED
  BY <1>1, <1>2, <1>3, <1>4, <1>5, <1>6, WhoClicks, Named

-----------------------------------------------------------------------------
(* The queue of events, the turns and the axes.                            *)

(* What the queue holds.                                                   *)
Event == {Touched(p) : p \in Place} \cup {Released}

(* Touches and releases are events.                                        *)
LEMMA EventTyped ==
  /\ \A p \in Place : Touched(p) \in Event
  /\ Released \in Event
BY DEF Event

(* The events after one has come, and after one has been taken.            *)
LEMMA EventComes ==
  ASSUME TypeOK, NEW e \in Event, Room, events' = Append(events, e)
  PROVE  /\ events' \in Seq(Event) /\ Len(events') <= MaxEvents
         /\ Len(events') = Len(events) + 1 /\ events'[Len(events')] = e
         /\ \A i \in 1..Len(events) : events'[i] = events[i]
<1>1. events \in Seq(Event) /\ Len(events) < MaxEvents /\ MaxEvents \in Nat
  BY PanelAssumption DEF TypeOK, Room, Event
<1>2. /\ Append(events, e) \in Seq(Event)
      /\ Len(Append(events, e)) = Len(events) + 1
      /\ \A i \in 1..Len(events) : Append(events, e)[i] = events[i]
      /\ Append(events, e)[Len(events) + 1] = e
  BY <1>1, AppendProperties
<1> QED
  BY <1>1, <1>2

(* ... and the one in front when it is taken.                               *)
LEMMA EventTaken ==
  ASSUME TypeOK, events # <<>>, events' = Tail(events)
  PROVE  /\ events' \in Seq(Event) /\ Len(events') <= MaxEvents
         /\ Len(events') = Len(events) - 1 /\ Len(events) \in Nat \ {0}
         /\ \A i \in 1..Len(events') : events'[i] = events[i + 1]
         /\ Head(events) = events[1] /\ Head(events) \in Event
<1>1. events \in Seq(Event) /\ Len(events) <= MaxEvents /\ MaxEvents \in Nat
  BY PanelAssumption DEF TypeOK, Event
<1>2. /\ Head(events) \in Event /\ Head(events) = events[1] /\ Len(events) \in Nat \ {0}
      /\ Tail(events) \in Seq(Event) /\ Len(Tail(events)) = Len(events) - 1
      /\ \A i \in 1..Len(Tail(events)) : Tail(events)[i] = events[i + 1]
  BY <1>1, HeadTailProperties, LenProperties, EmptySeq
<1> QED
  BY <1>1, <1>2

(* Where the turn goes on after the widgets have had their event.          *)
LEMMA Updated ==
  ASSUME Update, selected' \in View
  PROVE  \/ turn' = "dispatch" /\ Listening' # "desktop"
         \/ turn' = "toggle" /\ selected' = "arm" /\ Listening' = "desktop"
         \/ turn' = "pitch" /\ selected' = "teach" /\ Listening' = "desktop"
BY DEF Update, Listening, View

(* The places of the main loop, by name.                                   *)
LEMMA TurnNames == Turn = {"dispatch", "stop", "ended", "toggle", "gohome", "pitch", "jog"}
BY Named DEF Turn

(* A release goes to a widget of the listener in front that holds a touch. *)
LEMMA CaptorAsked ==
  ASSUME Well, Captors # {}
  PROVE  First(Captors) \in Asked /\ First(Captors) \in captured
<1>1. Captors \subseteq Widget
  BY DEF Captors, Well, TypeOK
<1> QED
  BY <1>1, FirstIsOne DEF Captors

(* A touch goes to a widget of the listener in front that may take it.     *)
LEMMA TakerAsked ==
  ASSUME Stack, NEW p, Takers(p) # {}
  PROVE  First(Takers(p)) \in Asked /\ First(Takers(p)) \in Widget /\ MayTake(First(Takers(p)))
<1>1. Takers(p) \subseteq Widget
  BY WhoClicks DEF Takers
<1> QED
  BY <1>1, FirstIsOne DEF Takers

(* stopAll begins with the least axis.                                     *)
LEMMA LeastAxis == Min(Axes) \in Axes /\ \A a \in Axes : Min(Axes) <= a
BY PanelAssumption, MinIsLeast

(* After an axis comes the next one, with none between, or the end of      *)
(* stopAll.                                                                *)
LEMMA AfterAxis ==
  ASSUME NEW a \in Axes, NextAxis(a), selected' \in View
  PROVE  /\ turn' \in Turn /\ axis' \in Axes
         /\ \/ turn' = "stop" /\ axis' > a /\ \A b \in Axes : b > a => b >= axis'
            \/ /\ \A b \in Axes : b <= a
               /\ Update /\ turn' # "stop" /\ axis' = Min(Axes)
<1> DEFINE rest == {b \in Axes : b > a}
<1>0. Axes \subseteq Nat
  BY PanelAssumption
<1>1. CASE rest = {}
  <2>1. Update /\ axis' = Min(Axes)
    BY <1>1 DEF NextAxis
  <2>2. \A b \in Axes : b <= a
    BY <1>0, <1>1
  <2> HIDE DEF rest
  <2> QED
    BY <2>1, <2>2, Updated, LeastAxis, TurnNames
<1>2. CASE rest # {}
  <2>1. turn' = "stop" /\ axis' = Min(rest)
    BY <1>2 DEF NextAxis
  <2>2. rest \subseteq Nat
    BY <1>0
  <2>3. Min(rest) \in rest /\ \A b \in rest : Min(rest) <= b
    <3> HIDE DEF rest
    <3> QED
      BY <1>2, <2>2, MinIsLeast
  <2>4. Min(rest) \in Axes /\ Min(rest) > a /\ \A b \in Axes : b > a => Min(rest) <= b
    BY <2>3
  <2> HIDE DEF rest
  <2>5. \A b \in Axes : b > a => b >= Min(rest)
    BY <1>0, <2>4
  <2> QED
    BY <2>1, <2>4, <2>5, TurnNames
<1> QED
  BY <1>1, <1>2

-----------------------------------------------------------------------------
(* Types and dialogs, through every action.                                *)

(* The panel begins with the desktop.                                      *)
LEMMA InitWell == Init => Well
<1> SUFFICES ASSUME Init PROVE Well
  OBVIOUS
<1> USE DEF Init
<1>1. events \in Seq({Touched(p) : p \in Place} \cup {Released}) /\ Len(events) = 0
  OBVIOUS
<1>2. listeners \in Seq(Listener) /\ listeners # <<>>
  BY DEF Listener
<1>3. enabled \in [Control -> BOOLEAN]
  OBVIOUS
<1>4. value \in [size: 0..EditorSize, first: Symbol]
  BY PanelAssumption DEF Empty, Symbol
<1>5. axis \in Axes
  BY LeastAxis
<1>6. TypeOK
  <2>1. Len(events) <= MaxEvents /\ lost \in 0..MaxLost /\ busy \in 0..2
    BY <1>1, PanelAssumption
  <2>2. /\ finger \in {"up", "pending", "down"} /\ shown \subseteq {"message", "editor"}
        /\ captured \subseteq Widget /\ selected \in View /\ down \subseteq View
        /\ message \in {"exit", "error"} /\ handler \in {"nothing", "exit"}
        /\ turn \in Turn /\ moving \subseteq Axes /\ spared \subseteq Axes
    BY DEF View, Turn
  <2>3. /\ lamp \in BOOLEAN /\ terminated \in BOOLEAN /\ power \in BOOLEAN
        /\ {pressedLamp, switched, refused} \subseteq BOOLEAN
    OBVIOUS
  <2> HIDE DEF Init
  <2> QED
    BY <1>1, <1>2, <1>3, <1>4, <1>5, <2>1, <2>2, <2>3 DEF TypeOK
<1> QED
  BY <1>6 DEF Well, Stack

(* What Stack allows has the types.                                        *)
LEMMA StackTyped ==
  ASSUME NEW l, NEW s,
         \/ l = <<"desktop">> /\ s = {}
         \/ \E d \in {"message", "editor"} : l = <<d, "desktop">> /\ s = {d}
  PROVE  l \in Seq(Listener) /\ l # <<>> /\ s \subseteq {"message", "editor"}
<1>1. CASE l = <<"desktop">> /\ s = {}
  BY <1>1 DEF Listener
<1>2. ASSUME NEW d \in {"message", "editor"}, l = <<d, "desktop">>, s = {d}
      PROVE  l \in Seq(Listener) /\ l # <<>> /\ s \subseteq {"message", "editor"}
  <2>1. d \in Listener /\ "desktop" \in Listener
    BY DEF Listener
  <2> QED
    BY <1>2, <2>1
<1> QED
  BY <1>1, <1>2

(* The actions of the touch thread and the kernel.                         *)
LEMMA TouchWell ==
  ASSUME Well,
         (\E p \in Place : FingerDown(p) \/ FingerMoves(p)) \/ FingerUp \/ FingerUpLost
  PROVE  Well'
<1> USE DEF Well
<1>1. UNCHANGED <<dialogs, views, captured, loop, arm, history>>
  BY DEF FingerDown, FingerMoves, FingerUp, FingerUpLost
<1>2. /\ finger' \in {"up", "pending", "down"}
      /\ events' \in Seq(Event) /\ Len(events') <= MaxEvents /\ lost' \in 0..MaxLost
  <2>1. CASE UNCHANGED <<events, lost>> /\ finger' \in {"up", "pending", "down"}
    BY <2>1 DEF TypeOK, Event
  <2>2. ASSUME NEW p \in Place, FingerDown(p) \/ FingerMoves(p)
        PROVE  <1>2!:
    <3>1. CASE events' = Append(events, Touched(p))
      BY <2>2, <3>1, EventComes, EventTyped DEF FingerDown, FingerMoves, TypeOK
    <3>2. CASE UNCHANGED events
      BY <2>1, <2>2, <3>2 DEF FingerDown, FingerMoves
    <3> QED
      BY <2>2, <3>1, <3>2 DEF FingerDown, FingerMoves
  <2>3. CASE FingerUp
    BY <2>3, EventComes, EventTyped DEF FingerUp, TypeOK
  <2>4. CASE FingerUpLost
    <3>1. lost' \in 0..MaxLost
      BY <2>4, PanelAssumption DEF FingerUpLost, TypeOK
    <3> QED
      BY <2>4, <3>1 DEF FingerUpLost, TypeOK, Event
  <2> QED
    BY <2>2, <2>3, <2>4
<1>3. Stack'
  BY <1>1 DEF Stack, dialogs
<1>4. TypeOK'
  BY <1>1, <1>2 DEF TypeOK, Event, dialogs, views, loop, arm, history
<1> QED
  BY <1>3, <1>4

(* A turn without an event.                                                *)
LEMMA NothingWell == ASSUME Well, DispatchNothing PROVE Well'
<1> USE DEF Well
<1>1. UNCHANGED <<touch, captured, dialogs, views, arm, axis, terminated, history>>
  BY DEF DispatchNothing, Dispatching, touch
<1>2. turn' \in Turn
  <2>1. Update /\ selected' \in View
    BY <1>1 DEF DispatchNothing, views, TypeOK
  <2> QED
    BY <2>1, Updated, TurnNames
<1>3. Stack'
  BY <1>1 DEF Stack, dialogs
<1>4. TypeOK'
  BY <1>1, <1>2 DEF TypeOK, touch, dialogs, views, arm, history
<1> QED
  BY <1>3, <1>4

(* What a touch that is dispatched changes.                                *)
LEMMA TouchTaken ==
  ASSUME Well, DispatchTouch
  PROVE  /\ UNCHANGED <<finger, lost, axis, dialogs, selected, enabled, lamp, arm, terminated,
                        busy, spared, refused>>
         /\ events # <<>> /\ events' = Tail(events) /\ Head(events).touched
         /\ turn = "dispatch" /\ ~terminated /\ Update
         /\ \/ UNCHANGED <<captured, down, pressedLamp, switched>>
            \/ \E w \in Asked : /\ TakeTouch(w, Head(events).at) /\ MayTake(w)
                                /\ w \in Widget
<1> DEFINE p == Head(events).at
<1>1. CASE Takers(p) = {}
  BY <1>1 DEF DispatchTouch, Dispatching
<1>2. CASE Takers(p) # {}
  <2>1. TakeTouch(First(Takers(p)), p)
    BY <1>2 DEF DispatchTouch
  <2>2. /\ First(Takers(p)) \in Asked /\ MayTake(First(Takers(p)))
        /\ First(Takers(p)) \in Widget
    BY <1>2, TakerAsked DEF Well
  <2> QED
    BY <2>1, <2>2 DEF DispatchTouch, Dispatching
<1> QED
  BY <1>1, <1>2

(* A turn that dispatches a touch.                                         *)
LEMMA TouchDispatchWell == ASSUME Well, DispatchTouch PROVE Well'
<1> USE DEF Well
<1>1. UNCHANGED <<finger, lost, axis, dialogs, selected, enabled, lamp, arm, terminated,
                  busy, spared, refused>>
  BY TouchTaken
<1>2. turn' \in Turn
  <2>1. Update /\ selected' \in View
    BY <1>1, TouchTaken DEF TypeOK
  <2> QED
    BY <2>1, Updated, TurnNames
<1>3. /\ captured' \subseteq Widget /\ down' \subseteq View
      /\ pressedLamp' \in BOOLEAN /\ switched' \in BOOLEAN
  <2>1. CASE UNCHANGED <<captured, down, pressedLamp, switched>>
    BY <2>1 DEF TypeOK
  <2>2. ASSUME NEW w \in Widget, TakeTouch(w, Head(events).at)
        PROVE  <1>3!:
    BY <2>2 DEF TakeTouch, TypeOK, TabAt, View
  <2> QED
    BY <2>1, <2>2, TouchTaken
<1>4. events' \in Seq(Event) /\ Len(events') <= MaxEvents
  BY TouchTaken, EventTaken
<1>5. Stack'
  BY <1>1 DEF Stack, dialogs
<1>6. TypeOK'
  BY <1>1, <1>2, <1>3, <1>4 DEF TypeOK, Event, dialogs, arm
<1> QED
  BY <1>5, <1>6

(* What a release that is dispatched changes.                              *)
LEMMA ReleaseTaken ==
  ASSUME Well, DispatchRelease
  PROVE  /\ UNCHANGED <<finger, lost, axis>>
         /\ events # <<>> /\ events' = Tail(events) /\ ~Head(events).touched
         /\ turn = "dispatch" /\ ~terminated
         /\ \/ /\ Captors = {} /\ Update
               /\ UNCHANGED <<captured, dialogs, views, arm, terminated, history>>
            \/ \E w \in Asked : /\ Captors # {} /\ w = First(Captors) /\ w \in captured
                                /\ captured' = captured \ {w} /\ Click(w)
                                /\ w = "stop" => turn' = "stop"
                                /\ w # "stop" => Update
<1>1. CASE Captors = {}
  BY <1>1 DEF DispatchRelease, Dispatching
<1>2. CASE Captors # {}
  <2>1. LetGo(First(Captors)) /\ Click(First(Captors)) /\ AfterClick(First(Captors))
    BY <1>2 DEF DispatchRelease
  <2>2. First(Captors) \in Asked /\ First(Captors) \in captured
    BY <1>2, CaptorAsked
  <2> QED
    BY <1>2, <2>1, <2>2 DEF DispatchRelease, Dispatching, LetGo, AfterClick
<1> QED
  BY <1>1, <1>2

(* A turn that dispatches a release.                                       *)
LEMMA ReleaseWell == ASSUME Well, DispatchRelease PROVE Well'
<1> USE DEF Well
<1>1. /\ events' \in Seq(Event) /\ Len(events') <= MaxEvents
      /\ UNCHANGED <<finger, lost, axis>>
  BY ReleaseTaken, EventTaken
<1>2. CASE UNCHANGED <<captured, dialogs, views, arm, terminated, history>> /\ Update
  <2>1. selected' \in View
    BY <1>2 DEF views, TypeOK
  <2>2. turn' \in Turn
    BY <1>2, <2>1, Updated, TurnNames
  <2>3. Stack'
    BY <1>2 DEF Stack, dialogs
  <2>4. TypeOK'
    BY <1>1, <1>2, <2>2 DEF TypeOK, Event, dialogs, views, arm, history
  <2> QED
    BY <2>3, <2>4
<1>3. ASSUME NEW w \in Asked, captured' = captured \ {w}, Click(w),
             turn' = "stop" \/ Update
      PROVE  Well'
  <2>1. /\ Stack'
        /\ message' \in {"exit", "error"} /\ handler' \in {"nothing", "exit"}
        /\ value' \in [size: 0..EditorSize, first: Symbol]
    BY <1>3, ClickDialogs
  <2>2. /\ selected' \in View /\ down' \subseteq View
        /\ enabled' = enabled /\ lamp' \in BOOLEAN
        /\ power' \in BOOLEAN /\ moving' \subseteq Axes
        /\ busy' = busy /\ spared' = spared
        /\ pressedLamp' \in BOOLEAN /\ switched' \in BOOLEAN /\ refused' \in BOOLEAN
        /\ terminated' \in BOOLEAN
    BY <1>3, ClickType
  <2>3. turn' \in Turn
    BY <1>3, <2>2, Updated, TurnNames
  <2>4. captured' \subseteq Widget
    BY <1>3 DEF TypeOK
  <2>5. /\ listeners' \in Seq(Listener) /\ listeners' # <<>>
        /\ shown' \subseteq {"message", "editor"}
    BY <2>1, StackTyped DEF Stack
  <2>6. TypeOK'
    BY <1>1, <2>1, <2>2, <2>3, <2>4, <2>5 DEF TypeOK, Event
  <2> QED
    BY <2>1, <2>6
<1> QED
  BY <1>2, <1>3, ReleaseTaken

(* A step of stopAll.                                                      *)
LEMMA StopWell == ASSUME Well, NEW a \in Axes, StopAxis(a) PROVE Well'
<1> USE DEF Well, StopAxis
<1>1. turn' \in Turn /\ axis' \in Axes
  <2>1. selected' \in View
    BY DEF views, TypeOK
  <2> QED
    BY <2>1, AfterAxis
<1>2. moving' \subseteq Axes /\ busy' \in 0..2 /\ spared' \subseteq Axes
  BY DEF TypeOK, Rest
<1>3. Stack'
  BY DEF Stack, dialogs
<1>4. TypeOK'
  BY <1>1, <1>2 DEF TypeOK, touch, dialogs, views
<1> QED
  BY <1>3, <1>4

(* The update of a control.                                                *)
LEMMA ChildWell == ASSUME Well, NEW w \in Control, UpdateChild(w) PROVE Well'
<1> USE DEF Well, UpdateChild
<1>1. enabled' \in [Control -> BOOLEAN]
  BY DEF TypeOK
<1>2. lamp' \in BOOLEAN
  BY DEF TypeOK, Excited
<1>3. turn' \in Turn
  BY TurnNames DEF EndTurn
<1>4. busy' \in 0..2
  <2>1. busy' = busy \/ busy' = 0 \/ (busy < 2 /\ busy' = busy + 1)
    BY DEF EndTurn
  <2>2. busy \in 0..2
    BY DEF TypeOK
  <2> HIDE DEF UpdateChild, Well
  <2> QED
    BY <2>1, <2>2
<1>5. Stack'
  BY DEF Stack, dialogs
<1>6. TypeOK'
  BY <1>1, <1>2, <1>3, <1>4 DEF TypeOK, touch, dialogs, arm
<1> QED
  BY <1>5, <1>6

(* The end of the console.                                                 *)
LEMMA EndWell == ASSUME Well, End PROVE Well'
<1>1. Stack'
  BY DEF Well, Stack, dialogs, End
<1>2. TypeOK'
  BY TurnNames DEF Well, TypeOK, End, touch, dialogs, views, arm, history
<1> QED
  BY <1>1, <1>2 DEF Well

(* What the others change: the arm, and the history that follows it.       *)
LEMMA ArmChanges ==
  ASSUME Well, Environment
  PROVE  /\ UNCHANGED <<touch, captured, dialogs, views, loop, pressedLamp, refused>>
         /\ power' \in BOOLEAN /\ moving' \subseteq Axes /\ spared' \subseteq Axes
         /\ switched' \in BOOLEAN
         /\ busy' = busy \/ (busy' = 0 /\ moving' = {})
         /\ moving # {} /\ moving' = {} => busy' = 0
<1> USE DEF Well
<1>1. ASSUME NEW a \in Axes, OthersStart(a)
      PROVE  /\ UNCHANGED <<touch, captured, dialogs, views, loop, pressedLamp, refused,
                            power, busy, switched>>
             /\ moving' = moving \cup {a} /\ spared' \subseteq Axes
  BY <1>1 DEF OthersStart, Console, TypeOK
<1>2. ASSUME NEW a \in Axes, MotionEnds(a)
      PROVE  /\ UNCHANGED <<touch, captured, dialogs, views, loop, pressedLamp, refused,
                            power, spared, switched>>
             /\ moving' = moving \ {a}
             /\ busy' = IF moving' = {} THEN 0 ELSE busy
  BY <1>2 DEF MotionEnds, Console, Rest
<1>3. ASSUME OthersSwitch
      PROVE  /\ UNCHANGED <<touch, captured, dialogs, views, loop, pressedLamp, refused,
                            moving, busy, spared>>
             /\ moving = {} /\ power' = ~power /\ switched' \in BOOLEAN
  BY <1>3 DEF OthersSwitch, Console, Switch, TypeOK
<1>p. ASSUME Polled
      PROVE  /\ UNCHANGED <<touch, captured, dialogs, views, loop, pressedLamp, refused,
                            moving, busy, spared>>
             /\ power' = TRUE /\ switched' \in BOOLEAN
  BY <1>p DEF Polled, Console, Switch, TypeOK
<1>4. ASSUME Fault
      PROVE  /\ UNCHANGED <<touch, captured, dialogs, views, loop, pressedLamp, refused,
                            spared>>
             /\ power' = FALSE /\ moving' = {} /\ switched' \in BOOLEAN
             /\ busy' = IF moving' = {} THEN 0 ELSE busy
  BY <1>4 DEF Fault, Console, Switch, TypeOK, Rest
<1>5. /\ power \in BOOLEAN /\ moving \subseteq Axes
      /\ spared \subseteq Axes /\ switched \in BOOLEAN
  BY DEF TypeOK
<1> HIDE DEF Well
<1>6. CASE \E a \in Axes : OthersStart(a)
  BY <1>1, <1>5, <1>6
<1>7. CASE \E a \in Axes : MotionEnds(a)
  BY <1>2, <1>5, <1>7
<1>8. CASE OthersSwitch
  BY <1>3, <1>5, <1>8
<1>9. CASE Fault
  BY <1>4, <1>5, <1>9
<1>10. CASE Polled
  BY <1>p, <1>5, <1>10
<1> QED
  BY <1>6, <1>7, <1>8, <1>9, <1>10 DEF Environment

(* The arm, changed by others.                                             *)
LEMMA ArmWell == ASSUME Well, Environment PROVE Well'
<1>1. /\ UNCHANGED <<touch, captured, dialogs, views, loop, pressedLamp, refused>>
      /\ power' \in BOOLEAN /\ moving' \subseteq Axes /\ spared' \subseteq Axes
      /\ switched' \in BOOLEAN
      /\ busy' = busy \/ busy' = 0
  BY ArmChanges
<1>2. Stack'
  BY <1>1 DEF Well, Stack, dialogs
<1>3. TypeOK'
  BY <1>1 DEF Well, TypeOK, touch, dialogs, views, loop
<1> QED
  BY <1>2, <1>3 DEF Well

(* Types and dialogs are kept by every step.                               *)
LEMMA WellKept == Well /\ [Next]_vars => Well'
<1> SUFFICES ASSUME Well, [Next]_vars PROVE Well'
  OBVIOUS
<1>1. CASE (\E p \in Place : FingerDown(p) \/ FingerMoves(p)) \/ FingerUp \/ FingerUpLost
  BY <1>1, TouchWell
<1>2. CASE DispatchNothing
  BY <1>2, NothingWell
<1>3. CASE DispatchTouch
  BY <1>3, TouchDispatchWell
<1>4. CASE DispatchRelease
  BY <1>4, ReleaseWell
<1>5. CASE End
  BY <1>5, EndWell
<1>6. CASE \E a \in Axes : StopAxis(a)
  BY <1>6, StopWell
<1>7. CASE \E w \in Control : UpdateChild(w)
  BY <1>7, ChildWell
<1>8. CASE Environment
  BY <1>8, ArmWell
<1>9. CASE UNCHANGED vars
  <2>1. Stack'
    BY <1>9 DEF Well, Stack, vars, dialogs
  <2>2. TypeOK'
    BY <1>9 DEF Well, TypeOK, vars, touch, dialogs, views, loop, arm, history
  <2> QED
    BY <2>1, <2>2 DEF Well
<1> QED
  BY <1>1, <1>2, <1>3, <1>4, <1>5, <1>6, <1>7, <1>8, <1>9 DEF Next, MainLoop

(* They hold in every state.                                               *)
LEMMA WellHolds == Spec => []Well
BY InitWell, WellKept, PTL DEF Spec

(* Every variable has its type in every state: the queue keeps to its      *)
(* bound, the editor to its size, and no dialog is closed that would leave *)
(* nobody listening (TouchManager::popEventListener).                      *)
THEOREM TypeCorrect == Spec => []TypeOK
<1>1. Well => TypeOK
  BY DEF Well
<1> QED
  BY <1>1, WellHolds, PTL

-----------------------------------------------------------------------------
(* What the message box reports.                                           *)

(* The steps of the touch thread and the kernel.                           *)
Aside == (\E p \in Place : FingerDown(p) \/ FingerMoves(p)) \/ FingerUp \/ FingerUpLost

(* The touch thread changes nothing that the main thread does.             *)
LEMMA AsideKeeps ==
  ASSUME Aside
  PROVE  UNCHANGED <<dialogs, views, captured, loop, arm, history>>
BY DEF Aside, FingerDown, FingerMoves, FingerUp, FingerUpLost

(* The steps, by what they leave alone.                                    *)
LEMMA Steps ==
  ASSUME [Next]_vars
  PROVE  \/ Aside \/ DispatchNothing \/ DispatchTouch \/ DispatchRelease \/ End
         \/ \E a \in Axes : StopAxis(a)
         \/ \E w \in Control : UpdateChild(w)
         \/ Environment \/ UNCHANGED vars
BY DEF Next, MainLoop, Aside

(* Dialogs open and close, and the console ends, by a release only.        *)
LEMMA OnlyReleases ==
  ASSUME Well, [Next]_vars, ~DispatchRelease
  PROVE  UNCHANGED <<dialogs, terminated, refused>>
<1>1. CASE Aside
  BY <1>1, AsideKeeps DEF loop, history
<1>2. CASE DispatchNothing \/ DispatchTouch
  BY <1>2 DEF DispatchNothing, DispatchTouch, history
<1>3. CASE End
  BY <1>3 DEF End, history
<1>4. CASE \E a \in Axes : StopAxis(a)
  BY <1>4 DEF StopAxis
<1>5. CASE \E w \in Control : UpdateChild(w)
  BY <1>5 DEF UpdateChild
<1>6. CASE Environment
  BY <1>6, ArmChanges DEF loop
<1>7. CASE UNCHANGED vars
  BY <1>7 DEF vars, loop, history
<1> QED
  BY <1>1, <1>2, <1>3, <1>4, <1>5, <1>6, <1>7, Steps

(* What the box says, what it is for, and what was refused.                *)
Reports == HandlerFits /\ RefusalShown

(* A click keeps what the box says, what it is for and what was refused    *)
(* together; only OK on the question ends the console.                     *)
LEMMA ClickReports ==
  ASSUME Well, Reports, NEW w \in Asked, Click(w)
  PROVE  /\ Reports'
         /\ ~terminated /\ terminated' => /\ Listening = "message" /\ message = "exit"
                                          /\ w = "ok"
<1> USE DEF Well
<1>1. CASE Listening = "desktop"
  <2>1. ~refused /\ w \in {"tabs", "toggle", "gohome", "pitch", "jog", "exit", "stop", "desktop"}
    BY <1>1, WhoClicks DEF Reports, RefusalShown
  <2>2. CASE UNCHANGED <<dialogs, refused, terminated>>
    BY <1>1, <2>1, <2>2 DEF Reports, HandlerFits, RefusalShown, Listening, dialogs
  <2>3. CASE w \in {"tabs", "toggle", "stop", "desktop"}
    BY <2>1, <2>2, <2>3 DEF Click, ClickTabs, ClickToggle, history
  <2>4. CASE w = "pitch"
    <3>1. OpenEditor /\ UNCHANGED <<terminated, refused>>
      BY <2>4 DEF Click, Dialog, history
    <3>2. listeners' = <<"editor", "desktop">>
      BY <1>1, <3>1, EditorOpens
    <3> QED
      BY <2>1, <3>1, <3>2 DEF Reports, HandlerFits, RefusalShown, Listening
  <2>5. CASE w = "exit"
    <3>1. OpenMessage("exit") /\ UNCHANGED <<terminated, refused>>
      BY <2>5 DEF Click, Dialog, history
    <3>2. listeners' = <<"message", "desktop">> /\ message' = "exit" /\ handler' = "exit"
      BY <1>1, <3>1, MessageOpens DEF HandlerOf
    <3> QED
      BY <2>1, <3>1, <3>2 DEF Reports, HandlerFits, HandlerOf, RefusalShown, Listening
  <2>6. CASE w \in {"gohome", "jog"}
    <3>1. ClickMove /\ UNCHANGED terminated
      BY <2>6 DEF Click, ClickMove
    <3>2. CASE OpenMessage("error")
      <4>1. listeners' = <<"message", "desktop">> /\ message' = "error" /\ handler' = "nothing"
        BY <1>1, <3>2, MessageOpens DEF HandlerOf
      <4> QED
        BY <3>1, <4>1 DEF Reports, HandlerFits, HandlerOf, RefusalShown, Listening
    <3> QED
      BY <2>2, <3>1, <3>2 DEF ClickMove
  <2> QED
    BY <2>1, <2>3, <2>4, <2>5, <2>6
<1>2. CASE Listening = "message"
  <2>1. w \in {"ok", "cancel", "message"}
    BY <1>2, WhoClicks
  <2>2. CASE w = "message"
    <3>1. UNCHANGED <<dialogs, refused, terminated>>
      BY <2>2 DEF Click, history
    <3> QED
      BY <1>2, <3>1 DEF Reports, HandlerFits, RefusalShown, Listening, dialogs
  <2>3. CASE w \in {"ok", "cancel"}
    <3>1. CloseMessage(w = "ok")
      BY <2>3 DEF Click
    <3>2. /\ listeners' = <<"desktop">> /\ refused' = FALSE
          /\ terminated' = (terminated \/ (handler = "exit" /\ w = "ok"))
      BY <1>2, <3>1, MessageCloses
    <3>3. handler = "exit" => message = "exit"
      BY <1>2 DEF Reports, HandlerFits, HandlerOf
    <3>4. Listening' = "desktop"
      BY <3>2 DEF Listening
    <3>5. Reports'
      BY <3>2, <3>4 DEF Reports, HandlerFits, RefusalShown
    <3>6. ~terminated /\ terminated' => message = "exit" /\ w = "ok"
      BY <3>2, <3>3, ZenonT(20)
    <3> QED
      BY <1>2, <3>5, <3>6
  <2> QED
    BY <2>1, <2>2, <2>3
<1>3. CASE Listening = "editor"
  <2>1. ~refused /\ w \in {"key", "enter", "editor"}
    BY <1>3, WhoClicks DEF Reports, RefusalShown
  <2>2. UNCHANGED <<terminated, refused>>
    BY <2>1 DEF Click, Dialog, history
  <2>3. UNCHANGED listeners \/ listeners' = <<"desktop">>
    <3>1. CASE w = "editor"
      BY <3>1 DEF Click, dialogs
    <3>2. CASE w # "editor"
      <4>1. EditorKey(w)
        BY <2>1, <3>2 DEF Click, Dialog
      <4> QED
        BY <1>3, <4>1, KeyTypes
    <3> QED
      BY <3>1, <3>2
  <2>4. Listening' # "message"
    BY <1>3, <2>3 DEF Listening
  <2> QED
    BY <2>1, <2>2, <2>4 DEF Reports, HandlerFits, RefusalShown
<1> QED
  BY <1>1, <1>2, <1>3, Stacked DEF Listener

(* ... and so does every step.                                             *)
LEMMA ReportsKept ==
  ASSUME Well, Reports, [Next]_vars
  PROVE  /\ Reports'
         /\ ~terminated /\ terminated' => /\ Listening = "message" /\ message = "exit"
                                          /\ First(Captors) = "ok"
<1>1. CASE UNCHANGED <<dialogs, terminated, refused>>
  BY <1>1 DEF Reports, HandlerFits, RefusalShown, Listening, dialogs
<1>2. CASE DispatchRelease
  <2>1. CASE UNCHANGED <<captured, dialogs, views, arm, terminated, history>>
    BY <1>1, <2>1 DEF history
  <2>2. ASSUME NEW w \in Asked, w = First(Captors), Click(w)
        PROVE  /\ Reports'
               /\ ~terminated /\ terminated' => /\ Listening = "message" /\ message = "exit"
                                                /\ First(Captors) = "ok"
    BY <2>2, ClickReports
  <2> QED
    BY <1>2, <2>1, <2>2, ReleaseTaken
<1> QED
  BY <1>1, <1>2, OnlyReleases

(* The box that is open says what its handler is for, in every state.      *)
LEMMA ReportsHold == Spec => []Reports
<1>1. Init => Reports
  BY DEF Init, Reports, HandlerFits, RefusalShown, Listening
<1>2. Reports /\ Well /\ [Next]_vars => Reports'
  BY ReportsKept
<1> QED
  BY <1>1, <1>2, WellHolds, PTL DEF Spec

(* A refused move stays reported by a box in front until it is closed      *)
(* (RobotConsole::startMove, MessageBox::open): no other box can open over *)
(* it, nor can its text be changed by one that is dropped.                 *)
THEOREM RefusalIsShown == Spec => []RefusalShown
<1>1. Reports => RefusalShown
  BY DEF Reports
<1> QED
  BY <1>1, ReportsHold, PTL

(* The console ends only by OK on the question of the exit button: the     *)
(* handler that runs is the one of the box that is shown                   *)
(* (MessageBox::attachEvent, open, close).                                 *)
THEOREM EndIsConfirmed == Spec => EndsOnlyConfirmed
<1>1. Reports /\ Well /\ [Next]_vars =>
        [~terminated /\ terminated' =>
           Listening = "message" /\ message = "exit" /\ First(Captors) = "ok"]_vars
  BY ReportsKept
<1> QED
  BY <1>1, ReportsHold, WellHolds, PTL DEF Spec, EndsOnlyConfirmed

-----------------------------------------------------------------------------
(* Motion locks the controls.                                              *)

(* What a dispatch does to the arm and the turn.                           *)
LEMMA ClickArm ==
  ASSUME Well, NEW w \in Asked, Click(w)
  PROVE  /\ busy' = busy /\ (moving # {} => moving' = moving)
         /\ w # "toggle" => UNCHANGED <<lamp, pressedLamp>>
         /\ w # "toggle" => UNCHANGED <<power, switched>> \/ Switch
         /\ w = "toggle" => lamp' = ~lamp
<1>1. CASE w = "tabs"
  BY <1>1 DEF Click, ClickTabs, arm, history
<1>2. CASE w = "toggle"
  BY <1>2 DEF Click, ClickToggle
<1>3. CASE w \in {"gohome", "jog"}
  BY <1>3 DEF Click, ClickMove, arm, views
<1>4. CASE w \in {"pitch", "exit", "key", "enter"}
  BY <1>4 DEF Click, Dialog, arm, history, views
<1>5. CASE w \in {"ok", "cancel"}
  BY <1>5 DEF Click, arm, views
<1>6. CASE w \in {"desktop", "message", "editor", "stop"}
  BY <1>6 DEF Click, arm, history, views
<1> QED
  <2>1. w \in Widget
    BY WhoClicks DEF Well
  <2> QED
    BY <1>1, <1>2, <1>3, <1>4, <1>5, <1>6, <2>1, Named

(* After a dispatch the arm is stopped, a dialog listens, or the first     *)
(* control of the view that is shown is updated next.                      *)
LEMMA Dispatched ==
  ASSUME Well, DispatchNothing \/ DispatchTouch \/ DispatchRelease
  PROVE  /\ turn = "dispatch" /\ axis' = axis /\ busy' = busy /\ moving' \subseteq Axes
         /\ moving # {} => moving' = moving
         /\ \/ turn' = "stop"
            \/ turn' = "dispatch" /\ Listening' # "desktop"
            \/ turn' = "toggle" /\ selected' = "arm"
            \/ turn' = "pitch" /\ selected' = "teach"
<1>0. selected' \in View /\ turn = "dispatch" /\ axis' = axis /\ moving' \subseteq Axes
  BY NothingWell, TouchDispatchWell, ReleaseWell
     DEF Well, TypeOK, DispatchNothing, DispatchTouch, DispatchRelease, Dispatching
<1>1. CASE DispatchNothing
  BY <1>0, <1>1, Updated DEF DispatchNothing, history, arm
<1>2. CASE DispatchTouch
  BY <1>0, <1>2, Updated DEF DispatchTouch, arm
<1>3. CASE DispatchRelease
  <2>1. CASE /\ UNCHANGED <<captured, dialogs, views, arm, terminated, history>>
             /\ Update
    BY <1>0, <2>1, Updated DEF arm, history
  <2>2. ASSUME NEW w \in Asked, Click(w), turn' = "stop" \/ Update
        PROVE  /\ turn = "dispatch" /\ axis' = axis /\ busy' = busy /\ moving' \subseteq Axes
               /\ moving # {} => moving' = moving
               /\ \/ turn' = "stop"
                  \/ turn' = "dispatch" /\ Listening' # "desktop"
                  \/ turn' = "toggle" /\ selected' = "arm"
                  \/ turn' = "pitch" /\ selected' = "teach"
    BY <1>0, <2>2, ClickArm, Updated
  <2> QED
    BY <1>3, <2>1, <2>2, ReleaseTaken
<1> QED
  BY <1>1, <1>2, <1>3

(* The turns that are counted.                                             *)
LEMMA CountKept == ASSUME Well, TurnsCounted, [Next]_vars PROVE TurnsCounted'
<1>0. /\ busy \in 0..2 /\ Children["arm"] = {"toggle", "gohome"}
      /\ Children["teach"] = {"pitch", "jog"} /\ selected \in View
      /\ Control = {"toggle", "gohome", "pitch", "jog"}
      /\ enabled \in [Control -> BOOLEAN]
  BY Tables, Named DEF Well, TypeOK
<1>1. CASE UNCHANGED <<dialogs, views, turn, arm, busy>>
  BY <1>1 DEF TurnsCounted, LockedInMotion, Listening, dialogs, views, arm
<1>2. CASE Aside
  BY <1>1, <1>2, AsideKeeps DEF loop, history
<1>3. CASE DispatchNothing \/ DispatchTouch \/ DispatchRelease
  <2>1. busy > 0 => moving # {}
    BY DEF TurnsCounted
  <2>2. busy' > 0 => moving' # {}
    BY <1>3, <2>1, Dispatched
  <2>3. \/ turn' = "stop"
        \/ turn' = "dispatch" /\ Listening' # "desktop"
        \/ turn' = "toggle" /\ selected' = "arm"
        \/ turn' = "pitch" /\ selected' = "teach"
    BY <1>3, Dispatched
  <2> QED
    BY <1>0, <2>2, <2>3 DEF TurnsCounted, LockedInMotion
<1>4. CASE End
  BY <1>0, <1>4 DEF TurnsCounted, LockedInMotion, End, history, arm
<1>5. ASSUME NEW a \in Axes, StopAxis(a) PROVE TurnsCounted'
  <2>1. busy' = IF moving' = {} THEN 0 ELSE busy
    BY <1>5 DEF StopAxis, Rest
  <2>2. selected' \in View
    BY <1>0, <1>5 DEF StopAxis, views
  <2>3. \/ turn' = "stop"
        \/ turn' = "dispatch" /\ Listening' # "desktop"
        \/ turn' = "toggle" /\ selected' = "arm"
        \/ turn' = "pitch" /\ selected' = "teach"
    BY <1>5, <2>2, AfterAxis, Updated DEF StopAxis
  <2> QED
    BY <1>0, <2>1, <2>3 DEF TurnsCounted, LockedInMotion
<1>6. ASSUME NEW w \in Control, UpdateChild(w) PROVE TurnsCounted'
  <2>1. /\ enabled' = [enabled EXCEPT ![w] = (moving = {})] /\ turn = w
        /\ moving' = moving /\ selected' = selected
    BY <1>6 DEF UpdateChild, arm
  <2>2. CASE w = "toggle"
    <3>1. turn' = "gohome" /\ busy' = busy
      BY <1>6, <2>2 DEF UpdateChild
    <3>2. busy > 0 => ~enabled'["toggle"]
      BY <1>0, <2>1, <2>2 DEF TurnsCounted
    <3>3. turn' \in Children[selected']
      BY <1>0, <2>1, <2>2, <3>1 DEF TurnsCounted, View
    <3> QED
      BY <2>1, <3>1, <3>2, <3>3 DEF TurnsCounted, LockedInMotion
  <2>3. CASE w = "pitch"
    <3>1. turn' = "jog" /\ busy' = busy
      BY <1>6, <2>3 DEF UpdateChild
    <3>2. busy > 0 => ~enabled'["pitch"]
      BY <1>0, <2>1, <2>3 DEF TurnsCounted
    <3>3. turn' \in Children[selected']
      BY <1>0, <2>1, <2>3, <3>1 DEF TurnsCounted, View
    <3> QED
      BY <2>1, <3>1, <3>2, <3>3 DEF TurnsCounted, LockedInMotion
  <2>4. CASE w \in {"gohome", "jog"}
    <3>1. /\ turn' = "dispatch"
          /\ busy' = IF moving = {} THEN 0 ELSE IF busy < 2 THEN busy + 1 ELSE busy
      BY <1>6, <2>4 DEF UpdateChild, EndTurn
    <3>2. busy' = 2 => busy > 0 /\ moving # {}
      BY <1>0, <3>1
    <3>3. busy' > 0 => moving' # {}
      BY <2>1, <3>1
    <3>4. ASSUME busy' = 2 PROVE \A v \in Children[selected'] : ~enabled'[v]
      <4>1. CASE w = "gohome"
        <5>1. ~enabled["toggle"] /\ selected = "arm"
          BY <1>0, <2>1, <3>2, <3>4, <4>1 DEF TurnsCounted, View
        <5> QED
          BY <1>0, <2>1, <3>2, <3>4, <4>1, <5>1
      <4>2. CASE w = "jog"
        <5>1. ~enabled["pitch"] /\ selected = "teach"
          BY <1>0, <2>1, <3>2, <3>4, <4>2 DEF TurnsCounted, View
        <5> QED
          BY <1>0, <2>1, <3>2, <3>4, <4>2, <5>1
      <4> QED
        BY <2>4, <4>1, <4>2
    <3> QED
      BY <1>0, <3>1, <3>3, <3>4 DEF TurnsCounted, LockedInMotion
  <2> QED
    BY <1>0, <2>2, <2>3, <2>4
<1>7. CASE Environment
  <2>1. /\ UNCHANGED <<dialogs, views, loop>>
        /\ busy' = busy \/ (busy' = 0 /\ moving' = {})
        /\ moving # {} /\ moving' = {} => busy' = 0
    BY <1>7, ArmChanges
  <2>2. busy' > 0 => moving' # {} /\ busy' = busy
    BY <1>0, <2>1 DEF TurnsCounted
  <2>3. UNCHANGED <<listeners, selected, enabled, turn>>
    BY <2>1 DEF dialogs, views, loop
  <2> QED
    BY <2>2, <2>3 DEF TurnsCounted, LockedInMotion, Listening
<1>8. CASE UNCHANGED vars
  BY <1>1, <1>8 DEF vars, loop, history
<1> QED
  BY <1>2, <1>3, <1>4, <1>5, <1>6, <1>7, <1>8, Steps

(* Once the arm has moved for a whole turn, no control of the view that is *)
(* shown takes a touch while the desktop listens (the update functions of  *)
(* the views).                                                             *)
THEOREM MotionLocks == Spec => []LockedInMotion
<1>1. Init => TurnsCounted
  BY Named DEF Init, TurnsCounted, LockedInMotion
<1>2. TurnsCounted /\ Well /\ [Next]_vars => TurnsCounted'
  BY CountKept
<1>3. TurnsCounted => LockedInMotion
  BY DEF TurnsCounted
<1> QED
  BY <1>1, <1>2, <1>3, WellHolds, PTL DEF Spec

-----------------------------------------------------------------------------
(* One widget waits for one release.                                       *)

(* The events, and who waits for one.                                      *)
Held == Alternate /\ OneCaptor

(* The empty queue has no events.                                          *)
LEMMA Nothing == \A s : s = <<>> => Len(s) = 0
OBVIOUS

(* When the event in front is taken, touches and releases still alternate, *)
(* and after a touch comes a release or the finger is down.                *)
LEMMA Shift ==
  ASSUME TypeOK, Alternate, lost = 0, finger' = finger, lost' = lost,
         events # <<>>, events' = Tail(events)
  PROVE  /\ Alternate'
         /\ Head(events).touched =>
              IF events' = <<>> THEN finger = "down" ELSE ~Head(events').touched
<1>1. /\ Len(events') = Len(events) - 1 /\ Len(events) \in Nat \ {0}
      /\ \A i \in 1..Len(events') : events'[i] = events[i + 1]
      /\ Head(events) = events[1]
  BY EventTaken
<1>2. \A i \in 1..Len(events) : events[i].touched =>
        IF i = Len(events) THEN finger = "down" ELSE ~events[i + 1].touched
  BY DEF Alternate
<1>3. ASSUME NEW i \in 1..Len(events'), events'[i].touched
      PROVE  IF i = Len(events') THEN finger' = "down" ELSE ~events'[i + 1].touched
  <2>1. i + 1 \in 1..Len(events) /\ events[i + 1].touched
    BY <1>1, <1>3
  <2> DEFINE j == i + 1
  <2>2. IF j = Len(events) THEN finger = "down" ELSE ~events[j + 1].touched
    <3>1. j \in 1..Len(events) /\ events[j].touched
      BY <2>1
    <3> HIDE DEF j
    <3> QED
      BY <1>2, <3>1
  <2>3. CASE i = Len(events')
    BY <1>1, <2>2, <2>3
  <2>4. CASE i # Len(events')
    <3>1. j \in 1..Len(events') /\ j # Len(events)
      <4>0. Len(events') \in Nat /\ Len(events) = Len(events') + 1
        BY <1>1
      <4>1. PICK n \in Nat : Len(events') = n /\ Len(events) = n + 1
        BY <4>0
      <4>2. i \in 1..n /\ i # n
        BY <1>3, <2>4, <4>1
      <4>3. i + 1 \in 1..n /\ i + 1 # n + 1
        BY <4>2
      <4> QED
        BY <4>1, <4>3
    <3>2. events'[j] = events[j + 1]
      <4> HIDE DEF j
      <4> QED
        BY <1>1, <3>1
    <3> QED
      BY <2>2, <2>4, <3>1, <3>2
  <2> QED
    BY <2>3, <2>4
<1>4. Alternate'
  BY <1>3 DEF Alternate
<1>5. ASSUME Head(events).touched
      PROVE  IF events' = <<>> THEN finger = "down" ELSE ~Head(events').touched
  <2>1. 1 \in 1..Len(events) /\ events[1].touched
    BY <1>1, <1>5
  <2>2. IF 1 = Len(events) THEN finger = "down" ELSE ~events[2].touched
    BY <1>2, <2>1
  <2>3. events' \in Seq(Event)
    BY EventTaken
  <2>4. CASE events' = <<>>
    <3>1. Len(events') = 0
      BY <2>4, Nothing, Zenon
    <3>2. Len(events') = Len(events) - 1 /\ Len(events) \in Nat
      BY <1>1
    <3>3. Len(events) = 1
      BY <3>1, <3>2
    <3>4. finger = "down"
      BY <2>2, <3>3
    <3> QED
      BY <2>4, <3>4
  <2>5. CASE events' # <<>>
    <3>1. Len(events') \in Nat \ {0} /\ Head(events') = events'[1]
      BY <2>3, <2>5, EmptySeq
    <3>2. events'[1] = events[2] /\ 1 # Len(events)
      BY <1>1, <3>1
    <3> QED
      BY <2>2, <2>5, <3>1, <3>2
  <2> QED
    BY <2>4, <2>5
<1> QED
  BY <1>4, <1>5

(* When an event comes, the one in front stays there.                      *)
LEMMA FrontStays ==
  ASSUME TypeOK, NEW e \in Event, Room, events' = Append(events, e)
  PROVE  /\ events' # <<>>
         /\ Head(events') = IF events = <<>> THEN e ELSE Head(events)
<1>1. /\ events' \in Seq(Event) /\ Len(events') = Len(events) + 1
      /\ events'[Len(events')] = e /\ \A i \in 1..Len(events) : events'[i] = events[i]
  BY EventComes
<1>2. events \in Seq(Event) /\ Len(events) \in Nat
  BY LenProperties DEF TypeOK, Event
<1>3. events' # <<>> /\ Head(events') = events'[1]
  <2>1. Len(events') # 0
    BY <1>1, <1>2
  <2>2. events' # <<>>
    BY <2>1
  <2> QED
    BY <1>1, <2>2
<1>4. CASE events = <<>>
  BY <1>1, <1>3, <1>4
<1>5. CASE events # <<>>
  <2>1. Head(events) = events[1] /\ 1 \in 1..Len(events)
    BY <1>2, <1>5, EmptySeq
  <2> QED
    BY <1>1, <1>3, <1>5, <2>1
<1> QED
  BY <1>4, <1>5

(* When an event comes, they still do.                                     *)
LEMMA Comes ==
  ASSUME TypeOK, Held, lost = 0, lost' = lost, UNCHANGED <<listeners, captured>>,
         NEW e \in Event, Room, events' = Append(events, e),
         \/ finger # "down" /\ finger' = "down" /\ e.touched
         \/ finger # "up" /\ finger' = "up" /\ ~e.touched
  PROVE  Held'
<1>1. /\ Len(events') = Len(events) + 1
      /\ events'[Len(events')] = e /\ \A i \in 1..Len(events) : events'[i] = events[i]
  BY EventComes
<1>2. Len(events) \in Nat
  BY LenProperties DEF TypeOK
<1>3. \A i \in 1..Len(events) : events[i].touched =>
        IF i = Len(events) THEN finger = "down" ELSE ~events[i + 1].touched
  BY DEF Held, Alternate
<1>4. ASSUME NEW i \in 1..Len(events'), events'[i].touched
      PROVE  IF i = Len(events') THEN finger' = "down" ELSE ~events'[i + 1].touched
  <2>1. CASE i = Len(events')
    BY <1>1, <1>4, <2>1
  <2>2. CASE i # Len(events')
    <3>1. i \in 1..Len(events) /\ events'[i] = events[i]
      BY <1>1, <1>2, <2>2
    <3>2. IF i = Len(events) THEN finger = "down" ELSE ~events[i + 1].touched
      BY <1>3, <1>4, <3>1
    <3>3. CASE i = Len(events)
      BY <1>1, <2>2, <3>2, <3>3
    <3>4. CASE i # Len(events)
      <4>1. i + 1 \in 1..Len(events)
        BY <1>2, <3>1, <3>4
      <4> QED
        BY <1>1, <2>2, <3>2, <3>4, <4>1
    <3> QED
      BY <3>3, <3>4
  <2> QED
    BY <2>1, <2>2
<1>5. Alternate'
  BY <1>4 DEF Alternate
<1>6. OneCaptor'
  <2>1. events' # <<>> /\ Head(events') = IF events = <<>> THEN e ELSE Head(events)
    BY FrontStays
  <2>2. Asked' = Asked
    BY DEF Asked, Listening
  <2> QED
    BY <2>1, <2>2 DEF Held, OneCaptor
<1> QED
  BY <1>5, <1>6 DEF Held

(* Every step keeps events and captors together.                           *)
LEMMA HeldKept == ASSUME Well, Held, [Next]_vars PROVE Held'
<1> USE DEF Well
<1>1. CASE UNCHANGED <<touch, listeners, captured>>
  <2>1. UNCHANGED <<finger, events, lost, listeners, captured>>
    BY <1>1 DEF touch
  <2> QED
    BY <2>1 DEF Held, Alternate, OneCaptor, Asked, Listening
<1>2. CASE lost' # 0
  BY <1>2 DEF Held, Alternate, OneCaptor
<1>3. ASSUME NEW p \in Place, FingerDown(p) \/ FingerMoves(p) PROVE Held'
  <2>0. UNCHANGED <<lost, listeners, captured>>
    BY <1>3 DEF FingerDown, FingerMoves, dialogs
  <2>1. CASE events' = Append(events, Touched(p)) /\ finger' = "down"
    <3>1. Touched(p) \in Event /\ Touched(p).touched /\ finger # "down" /\ Room
      BY <1>3, EventTyped DEF Touched, FingerDown, FingerMoves
    <3> QED
      BY <1>2, <2>0, <2>1, <3>1, Comes
  <2>2. CASE finger = "up" /\ finger' = "pending" /\ UNCHANGED events
    <3>1. UNCHANGED <<lost, events, listeners, captured>>
      BY <2>0, <2>2
    <3> QED
      BY <2>2, <3>1 DEF Held, Alternate, OneCaptor, Asked, Listening
  <2> QED
    BY <1>3, <2>1, <2>2 DEF FingerDown, FingerMoves
<1>4. CASE FingerUp
  <2>1. /\ UNCHANGED <<lost, listeners, captured>>
        /\ events' = Append(events, Released) /\ finger # "up" /\ finger' = "up" /\ Room
    BY <1>4 DEF FingerUp, dialogs
  <2>2. Released \in Event /\ ~Released.touched
    BY EventTyped DEF Released
  <2> QED
    BY <1>2, <2>1, <2>2, Comes
<1>5. CASE FingerUpLost
  <2>1. lost' # 0
    BY <1>5 DEF FingerUpLost, TypeOK
  <2> QED
    BY <1>2, <2>1
<1>6. CASE DispatchTouch
  <2>1. /\ UNCHANGED <<finger, lost, dialogs>>
        /\ events # <<>> /\ events' = Tail(events) /\ Head(events).touched
        /\ captured' = captured \/ \E w \in Asked : captured' = captured \cup {w}
    BY <1>6, TouchTaken DEF TakeTouch
  <2>2. Asked' = Asked
    BY <2>1 DEF Asked, Listening, dialogs
  <2>3. ASSUME lost = 0 PROVE Held'
    <3>1. captured = {}
      BY <2>1, <2>3 DEF Held, OneCaptor
    <3>2. captured' = {} \/ \E w \in Asked' : captured' = {w}
      BY <2>1, <2>2, <3>1
    <3>3. /\ Alternate'
          /\ IF events' = <<>> THEN finger = "down" ELSE ~Head(events').touched
      BY <2>1, <2>3, Shift DEF Held
    <3> QED
      BY <2>1, <3>2, <3>3 DEF Held, OneCaptor
  <2> QED
    BY <1>2, <2>1, <2>3
<1>7. CASE DispatchRelease
  <2>1. UNCHANGED <<finger, lost>> /\ events # <<>> /\ events' = Tail(events)
    BY <1>7, ReleaseTaken
  <2>2. ASSUME lost = 0 PROVE Held'
    <3>1. Alternate'
      BY <2>1, <2>2, Shift DEF Held
    <3>2. captured' = {}
      <4>1. CASE captured = {}
        <5>1. Captors = {}
          BY <4>1 DEF Captors
        <5> QED
          BY <1>7, <4>1, <5>1, ReleaseTaken
      <4>2. CASE captured # {}
        <5>1. PICK w \in Asked : captured = {w}
          BY <2>2, <4>2 DEF Held, OneCaptor
        <5>2. Captors # {}
          BY <5>1 DEF Captors
        <5>3. \E v \in captured : captured' = captured \ {v}
          BY <1>7, <5>2, ReleaseTaken
        <5> QED
          BY <5>1, <5>3
      <4> QED
        BY <4>1, <4>2
    <3> QED
      BY <3>1, <3>2 DEF Held, OneCaptor
  <2> QED
    BY <1>2, <2>1, <2>2
<1>8. CASE \/ DispatchNothing \/ End
           \/ \E a \in Axes : StopAxis(a)
           \/ \E w \in Control : UpdateChild(w)
  <2>1. UNCHANGED <<touch, listeners, captured>>
    BY <1>8 DEF DispatchNothing, Dispatching, End, StopAxis, UpdateChild, touch, dialogs
  <2> QED
    BY <1>1, <2>1
<1>9. CASE Environment
  <2>1. UNCHANGED <<touch, listeners, captured>>
    BY <1>9, ArmChanges DEF dialogs
  <2> QED
    BY <1>1, <2>1
<1>10. CASE UNCHANGED vars
  BY <1>1, <1>10 DEF vars, dialogs
<1> QED
  BY <1>3, <1>4, <1>5, <1>6, <1>7, <1>8, <1>9, <1>10, Steps DEF Aside

(* As long as no release is lost, one widget at most holds a touch, it     *)
(* belongs to the listener in front, and the next event is its release     *)
(* (UIWidget::handleTouchEvent, across dialogs opening and closing).       *)
THEOREM OneWaits == Spec => []CaptureIsLive
<1>1. Init => Held
  BY DEF Init, Held, Alternate, OneCaptor
<1>2. Held /\ Well /\ [Next]_vars => Held'
  BY HeldKept
<1>3. Held => CaptureIsLive
  <2>1. ASSUME OneCaptor, lost = 0, captured # {}
        PROVE  Cardinality(captured) = 1 /\ captured \subseteq Asked
    <3>1. PICK w \in Asked : captured = {w}
      BY <2>1 DEF OneCaptor
    <3> QED
      BY <3>1, FS_Singleton
  <2> QED
    BY <2>1 DEF Held, OneCaptor, CaptureIsLive
<1> QED
  BY <1>1, <1>2, <1>3, WellHolds, PTL DEF Spec

-----------------------------------------------------------------------------
(* The toggle, and stopAll.                                                *)

(* The lamp of the toggle while it is pressed.                             *)
LEMMA TakenShows ==
  ASSUME Well, ToggleShows, NEW w, NEW p, TakeTouch(w, p), UNCHANGED <<lamp, power>>
  PROVE  ToggleShows'
<1>0. lamp \in BOOLEAN /\ power \in BOOLEAN
  BY DEF Well, TypeOK
<1>1. CASE w = "toggle"
  <2>1. pressedLamp' = lamp /\ switched' = (lamp # power)
    BY <1>1 DEF TakeTouch
  <2>2. ~switched' => lamp = power
    BY <2>1
  <2> QED
    BY <1>0, <2>1, <2>2 DEF ToggleShows
<1>2. CASE w # "toggle"
  <2>1. UNCHANGED <<pressedLamp, switched>> /\ captured' = captured \cup {w}
    BY <1>2 DEF TakeTouch
  <2> QED
    BY <1>2, <2>1 DEF ToggleShows
<1> QED
  BY <1>1, <1>2

(* A motor that others switch while the toggle is pressed is noted.        *)
LEMMA ArmSwitches ==
  ASSUME Environment
  PROVE  /\ UNCHANGED <<captured, lamp, pressedLamp>>
         /\ UNCHANGED <<power, switched>> \/ switched' = (switched \/ "toggle" \in captured)
<1>1. CASE \E a \in Axes : OthersStart(a) \/ MotionEnds(a)
  BY <1>1 DEF OthersStart, MotionEnds, Console, views
<1>2. CASE OthersSwitch \/ Polled \/ Fault
  BY <1>2 DEF OthersSwitch, Polled, Fault, Console, views, Switch
<1> QED
  BY <1>1, <1>2 DEF Environment

(* Every step keeps lamp, motor and press together.                        *)
LEMMA ToggleKept == ASSUME Well, ToggleShows, [Next]_vars PROVE ToggleShows'
<1>1. CASE UNCHANGED <<captured, lamp, power, pressedLamp, switched>>
  BY <1>1 DEF ToggleShows
<1>2. CASE Aside
  BY <1>1, <1>2, AsideKeeps DEF views, arm, history
<1>3. CASE DispatchNothing \/ End \/ \E a \in Axes : StopAxis(a)
  BY <1>1, <1>3 DEF DispatchNothing, End, StopAxis, views, arm, history
<1>4. CASE DispatchTouch
  <2>1. UNCHANGED <<lamp, power>>
    BY <1>4, TouchTaken DEF arm
  <2>2. CASE UNCHANGED <<captured, down, pressedLamp, switched>>
    BY <1>1, <2>1, <2>2
  <2>3. CASE \E w \in Asked : TakeTouch(w, Head(events).at)
    BY <2>1, <2>3, TakenShows
  <2> QED
    BY <1>4, <2>2, <2>3, TouchTaken
<1>5. CASE DispatchRelease
  <2>1. CASE UNCHANGED <<captured, dialogs, views, arm, terminated, history>>
    BY <1>1, <2>1 DEF views, arm, history
  <2>2. ASSUME NEW w \in Asked, captured' = captured \ {w}, Click(w)
        PROVE  ToggleShows'
    <3>1. CASE w = "toggle"
      BY <2>2, <3>1 DEF ToggleShows
    <3>2. CASE w # "toggle"
      <4>1. UNCHANGED <<lamp, pressedLamp>>
        BY <2>2, <3>2, ClickArm
      <4>2. UNCHANGED <<power, switched>> \/ Switch
        BY <2>2, <3>2, ClickArm
      <4>3. "toggle" \in captured' => "toggle" \in captured
        BY <2>2
      <4> QED
        BY <4>1, <4>2, <4>3 DEF ToggleShows, Switch
    <3> QED
      BY <3>1, <3>2
  <2> QED
    BY <1>5, <2>1, <2>2, ReleaseTaken
<1>6. ASSUME NEW w \in Control, UpdateChild(w) PROVE ToggleShows'
  <2>1. /\ UNCHANGED <<captured, power, pressedLamp, switched>>
        /\ lamp' = power \/ lamp' = lamp
    BY <1>6 DEF UpdateChild, Excited, arm
  <2> QED
    BY <2>1 DEF ToggleShows
<1>7. CASE Environment
  <2>1. CASE UNCHANGED <<power, switched>>
    BY <1>1, <1>7, <2>1, ArmSwitches
  <2>2. CASE switched' = (switched \/ "toggle" \in captured)
    <3>1. UNCHANGED captured
      BY <1>7, ArmSwitches
    <3> QED
      BY <2>2, <3>1 DEF ToggleShows
  <2> QED
    BY <1>7, <2>1, <2>2, ArmSwitches
<1>8. CASE UNCHANGED vars
  BY <1>1, <1>8 DEF vars, views, arm, history
<1> QED
  BY <1>2, <1>3, <1>4, <1>5, <1>6, <1>7, <1>8, Steps

(* A toggle asks for the opposite of what it showed when it was pressed,   *)
(* whatever updates came between, unless others switched the motor         *)
(* (ToggleButton::onReleased, ArmView::update).                            *)
THEOREM ToggleInverts == Spec => ToggleMeansPress
<1>1. Init => ToggleShows
  BY DEF Init, ToggleShows
<1>2. ToggleShows /\ Well /\ [Next]_vars => ToggleShows'
  BY ToggleKept
<1>3. ToggleShows /\ Well /\ [Next]_vars =>
        [DispatchRelease /\ Captors # {} /\ First(Captors) = "toggle"
           => lamp' = ~pressedLamp \/ switched]_vars
  <2>1. ASSUME ToggleShows, Well, DispatchRelease, Captors # {}, First(Captors) = "toggle",
               ~switched
        PROVE  lamp' = ~pressedLamp
    <3>1. Click("toggle") /\ "toggle" \in captured
      BY <2>1, ReleaseTaken
    <3>2. lamp' = ~lamp
      BY <3>1 DEF Click, ClickToggle
    <3>3. (lamp <=> pressedLamp) /\ lamp \in BOOLEAN /\ pressedLamp \in BOOLEAN
      BY <2>1, <3>1 DEF ToggleShows, Well, TypeOK
    <3>4. lamp = pressedLamp
      BY <3>3
    <3> QED
      BY <3>2, <3>4
  <2> QED
    BY <2>1
<1> QED
  BY <1>1, <1>2, <1>3, WellHolds, PTL DEF Spec, ToggleMeansPress

(* The axes stopAll has been to.                                           *)
LEMMA ArmStops ==
  ASSUME Environment, turn = "stop", NEW b \in moving', b \in moving => b \in spared
  PROVE  b \in spared'
<1>1. CASE \E a \in Axes : OthersStart(a)
  BY <1>1 DEF OthersStart
<1>2. CASE \E a \in Axes : MotionEnds(a)
  BY <1>2 DEF MotionEnds
<1>3. CASE OthersSwitch \/ Polled \/ Fault
  BY <1>3 DEF OthersSwitch, Polled, Fault
<1> QED
  BY <1>1, <1>2, <1>3 DEF Environment

(* The last axis stopAll comes to, if it passes it over.                    *)
LastUnread == IF Unread THEN {axis} ELSE {}

(* A step of stopAll leaves only axes behind that were started since, or   *)
(* read as halted, and when it was the last one nothing else moves.        *)
LEMMA StopSteps ==
  ASSUME Well, StoppedSoFar, NEW a \in Axes, StopAxis(a)
  PROVE  /\ StoppedSoFar'
         /\ turn' # "stop" => moving' \subseteq spared \cup LastUnread
<1>1. /\ turn = "stop" /\ axis = a /\ moving' \subseteq moving
      /\ NextAxis(a) /\ selected' \in View
  BY DEF StopAxis, Well, TypeOK, views
<1>2. moving \subseteq Axes /\ Axes \subseteq Nat
  BY PanelAssumption DEF Well, TypeOK
<1>3. \A b \in moving : b < a => b \in spared
  BY <1>1 DEF StoppedSoFar
<1>6. a \in moving' => ~power
  BY DEF StopAxis
<1>4. CASE turn' = "stop" /\ \A b \in Axes : b > a => b >= axis'
  <2>1. axis' \in Nat
    BY <1>1, <1>2, AfterAxis
  <2>2. ASSUME NEW b \in moving', b < axis' PROVE b \in spared'
    <3>1. b \in moving /\ b \in Axes /\ b \in Nat /\ a \in Nat
      BY <1>1, <1>2, <2>2
    <3>2. ~(b > a)
      BY <1>4, <2>1, <2>2, <3>1
    <3>3. b < a \/ b = a
      BY <3>1, <3>2
    <3>4. CASE b = a
      BY <1>4, <1>6, <2>2, <3>4 DEF StopAxis
    <3>5. CASE b < a
      <4>1. b \in spared /\ b # a
        BY <1>3, <3>1, <3>5
      <4> QED
        BY <1>4, <4>1 DEF StopAxis
    <3> QED
      BY <3>3, <3>4, <3>5
  <2> QED
    BY <1>4, <2>2 DEF StoppedSoFar
<1>5. CASE turn' # "stop" /\ axis' = Min(Axes) /\ \A b \in Axes : b <= a
  <2>1. ASSUME NEW b \in moving' PROVE b \in spared \cup LastUnread
    <3>1. b \in moving /\ b <= a /\ b \in Nat /\ a \in Nat
      BY <1>1, <1>2, <1>5
    <3>2. b < a \/ b = a
      BY <3>1
    <3>3. CASE b = a
      <4>1. ~power /\ moving # {}
        BY <1>6, <2>1, <3>1, <3>3
      <4> QED
        BY <1>1, <3>3, <4>1 DEF LastUnread, Unread
    <3> QED
      BY <1>3, <3>1, <3>2, <3>3
  <2> QED
    BY <1>5, <2>1 DEF StoppedSoFar
<1> QED
  BY <1>1, <1>4, <1>5, AfterAxis

(* Every step keeps what stopAll has been through.                         *)
LEMMA StopKept ==
  ASSUME Well, StoppedSoFar, [Next]_vars
  PROVE  /\ StoppedSoFar'
         /\ turn = "stop" /\ turn' # "stop" => moving' \subseteq spared \cup LastUnread
<1>0. /\ turn # "stop" => axis = Min(Axes)
      /\ turn = "stop" => \A b \in moving : b < axis => b \in spared
  BY DEF StoppedSoFar
<1>1. CASE UNCHANGED <<turn, axis, moving, spared>>
  BY <1>1 DEF StoppedSoFar
<1>2. CASE Aside
  BY <1>1, <1>2, AsideKeeps DEF loop, arm, history
<1>3. CASE DispatchNothing \/ DispatchTouch \/ DispatchRelease
  <2>1. turn = "dispatch" /\ axis' = Min(Axes) /\ moving' \subseteq Axes
    BY <1>0, <1>3, Dispatched
  <2>2. ASSUME NEW b \in moving' PROVE ~(b < axis')
    <3>1. b \in Axes /\ axis' \in Axes /\ axis' <= b /\ Axes \subseteq Nat
      BY <2>1, LeastAxis, PanelAssumption
    <3>2. b \in Nat /\ axis' \in Nat /\ axis' <= b
      BY <3>1
    <3> QED
      BY <3>2
  <2> QED
    BY <2>1, <2>2 DEF StoppedSoFar
<1>4. CASE End
  BY <1>0, <1>4 DEF StoppedSoFar, End
<1>5. ASSUME NEW a \in Axes, StopAxis(a)
      PROVE  /\ StoppedSoFar'
             /\ turn = "stop" /\ turn' # "stop" => moving' \subseteq spared \cup LastUnread
  BY <1>5, StopSteps
<1>6. ASSUME NEW w \in Control, UpdateChild(w)
      PROVE  StoppedSoFar' /\ turn # "stop"
  BY <1>0, <1>6, Named DEF StoppedSoFar, UpdateChild, EndTurn
<1>7. CASE Environment
  <2>1. UNCHANGED <<turn, axis>>
    BY <1>7, ArmChanges DEF loop
  <2>2. ASSUME turn = "stop", NEW b \in moving', b < axis' PROVE b \in spared'
    BY <1>0, <1>7, <2>1, <2>2, ArmStops
  <2> QED
    BY <1>0, <2>1, <2>2 DEF StoppedSoFar
<1>8. CASE UNCHANGED vars
  BY <1>1, <1>8 DEF vars, loop, arm, history
<1> QED
  BY <1>2, <1>3, <1>4, <1>5, <1>6, <1>7, <1>8, Steps

(* When stopAll has come through the axes, whatever moves was started by   *)
(* others after stopAll had come to its axis, or was then turning without  *)
(* having been polled since a start across its own hardHIZ                 *)
(* (RobotConsole::stopAll, whose isHalted is as old as the last poll).     *)
THEOREM AllStopped == Spec => StopAllStops
<1>1. Init => StoppedSoFar
  BY DEF Init, StoppedSoFar
<1>2. StoppedSoFar /\ Well /\ [Next]_vars => StoppedSoFar'
  BY StopKept
<1>3. StoppedSoFar /\ Well /\ [Next]_vars =>
        [turn = "stop" /\ turn' # "stop" => moving' \subseteq spared \cup LastUnread]_vars
  BY StopKept
<1> QED
  BY <1>1, <1>2, <1>3, WellHolds, PTL DEF Spec, StopAllStops, LastUnread
==============================================================================
