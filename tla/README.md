# Verification of the uStepper robotic arm controller

TLA+ models of the control program of a three-axis arm (`src/`), from the
homing sequence of a motor driver to the buttons of the panel and the order in
which the program ends.  TLC checks them on small instances, TLAPS proves the
main safety properties for every instance.

## 1. Inventory

The program is one process.  These threads run in it:

| thread | where | what it does |
|---|---|---|
| homing | `Robot::execHoming` | every 100 ms one state of the homing switch, under `m_mutex` |
| motion | `Robot::execMotion` | every 10 ms one axis: `execControl`, retire a motion that has ended, under `m_mutex` |
| servo | `Robot::execServo` | one step of the gripper at a time, towards its destination |
| main | `RobotConsole::execute` | draws, takes one touch event a turn, calls `Robot` |
| touch | `TouchManager::execute` (`fb/ui.cpp`) | reads the input device, queues events |
| TCP server | `TcpServer::execute` | one connection at a time: accept, receive, send, under its own `m_mutex` |
| commands | `CommandManager::execute` | polls for a request, executes it on `Robot`, queues the response |
| script | `Script::execute` | runs a Lua script, whose functions call `Robot` |

| component | state | operations | talks to | modelled in |
|---|---|---|---|---|
| L6470 (`L6470.cpp/h`) | cached STATUS (`m_halted`, `m_inMotion`, `m_alarmFlag`), `m_homingState`, `m_homeCompleted`, position; the chip's registers | moves, stops, `startHoming`, `execControl`, `clearAlarm` | the chip by SPI, its BUSY pin; `Robot::getLimitState` | L6470, Axis |
| Robot (`robot.cpp/h`) | `m_homingState`, `m_motionState[3]`, `m_mutex` | `startHoming`, `startMotion`, `startMotion3D`, `enableMotor`, `clearAlarm`, stops, `setMotorParam`, queries | three L6470 objects | Robot |
| Gripper servo (`robot.cpp`, `fb/gripper_view.cpp`) | `m_gripperCurrentValue`, `m_gripperDestValue`, the view's label | `moveGripper`, `stopGripper`, `execServo`, the view's buttons | servo, callers | Gripper |
| Command server (`command_server.cpp/h`) | connection, `m_rxBuffer`, `m_txBuffer`, `m_requestPacket`, `m_requestReceived` | the TCP protocol | clients, commands | CommandServer |
| Command programs (`command_server.cpp`) | the request in execution | eleven commands | Robot | Commands |
| Script engine and view (`script.cpp/h`, `fb/script_view.cpp`) | `m_running`, `m_aborted`, error message; messages, list, selection, buttons | `run`, `abort`, hook, Lua functions; the view's handlers | Robot | Script |
| UI toolkit, console, views (`fb/ui.cpp`, `console.cpp`, `fb/*_view.cpp`) | event queue, captured widgets, listeners, dialogs, tabs, controls | dispatch, update, `stopAll`, `startMove`, `enableMotor` | touch thread, Robot | Panel |
| Teaching table (`fb/teaching_view.cpp`) | the points, their file | load, save, teach | disk | Main |
| Main (`robotic_arm.cpp`) and the destructors | the phase of the shutdown, `m_terminated` | start, end, kill | all | Main |
| Graphics (`fb/gfxpi.cpp`) | frame buffer, fonts | drawing | | not modelled |
| Former server (`tcpserver.cpp`, `tcpsession.cpp`), trial programs | | not part of the program built | | not modelled |

What is hard, and what makes each component correct:

* **L6470.**  The state the object answers from is as old as its last poll.
  The homing sequence has twenty states, reached over many polls, and can be
  stopped, alarmed or de-energised in each of them.  Correct means: it completes
  only at the origin, positions mean what they say while `m_homeCompleted` is
  set, MAX_SPEED is put back on every way out, and the sequence ends.
* **Robot.**  Several threads share `m_mutex`, but a method that asks and then
  acts takes it twice; one critical section spins on a hardware pin.  Correct
  means: nothing turns unwatched, an alarm takes the excitation off every axis,
  homing and positioning exclude each other, ELBOW homes before the others,
  every motion and every homing request ends, no call gets stuck.
* **Command server.**  Two threads share one request packet and a flag, and
  clients come, send in pieces and go as they like.  Correct means: what is
  executed is what was sent, whole, in order, at most once; every request is
  answered.
* **Command programs.**  A command makes up to a dozen calls of Robot, and the
  arm changes between any two.  Correct means: what is answered is what was
  done; what is refused has done nothing.
* **Script.**  Four unlocked members are shared by two threads.  Correct means:
  an abort is noticed, the program can end, the screen tells how the script
  that was run went.
* **Panel.**  A touch and its release are two events, and between them a dialog
  may open, a view change, a control be disabled, a motor be switched by
  others; the kernel may lose an event.  Correct means: a release does what its
  touch was for, controls are locked in motion, Stop stops.
* **Main.**  Callers, threads and drivers end one after the other while those
  that are left go on.  Correct means: no motor turns at the end, the table that
  was taught comes back at the next start.

`PROJECT.json` lists the hazards at their lines, with the properties about each.

## 2. Modules

```
 AxisContract ---- Axis ---- Robot ------- MCRobot
      ^ refines   |   \          \---- Robot_proofs
    L6470         |    \---- Axis_proofs
      |- MCL6470  |
      |- L6470_proofs (uses Axis_proofs)
                  |
      Gripper --- Main ---- MCMain, Main_proofs
 CommandServer ---- MCCommandServer, CommandServer_proofs
 Commands --------- MCCommands, Commands_proofs
 Script ----------- MCScript, Script_proofs
 Panel ------------ MCPanel, Panel_proofs
```

* **Axis**: what an L6470 object promises its caller, as operators on a record,
  one per public method.  Two fields are the chip's (`mode`, `fault`), five the
  object's members.  The homing sequence is reduced to five phases.
* **AxisContract**: the same operators as a specification (any method at any
  time, a poll, the chip).
* **L6470**: one object with its chip on a track of cells, an origin switch,
  end limits and a wrapping ABS_POS.  One action per kind of case of
  `execHoming`, one per method.  `Busy` says when the chip holds the BUSY pin
  low: while it positions, releases the switch or decelerates, but not in a run
  or in `goUntil` (`L6470.cpp:557-561`), nor while the sequence waits.  That is
  all `send()` looks at, so `MoveTo` is possible in the middle of a homing
  sequence.  Its direction is either one: Robot computes it from a position
  read before the wait (`robot.cpp:446`) or before the mutex (474-488).
  `crossed` remembers a `moveTo` that came into a sequence or was sent away
  from its target.  `rig` is the axis it drives, fixed at the
  start: BASE, SHOULDER or ELBOW, its switch working or stuck open.
  `KeepsContract` is the refinement of AxisContract under `AsAxis`.
* **Robot**: three `Axis` records, the homing thread (one action per state of
  its switch), the motion thread (one action per iteration) and the callers.
  An action is one critical section; a method with several sections is several
  actions, and `call[c]` is the caller's place among them.  `moveTo` and
  `setParam` spin on BUSY with the mutex held: there `mutex` names the caller
  and the chips go on while everybody else waits.  Reads made without the mutex
  (`m_halted`, `m_alarmFlag` in `startMotion`) are actions that do not ask for
  it.  The guards of `EnableCheck`, `ClearCheck` and `StopCheck` are the
  questions the callers ask first (`console.cpp`, `command_server.cpp`); a
  command for all axes is three calls, as in the code's loop.
* **CommandServer**: clients, wire, server thread and command thread.  A
  request is two fragments, its head and its rest, since a packet somebody looks
  at is empty, begun, whole or spoilt.  `Damaged` and `Unknown` name the requests
  with a bad checksum and those with an ID that no command has, which get no
  answer.
* **Commands**: the command thread again, one step per call of Robot, for every
  command and every number of fields that may have come.  The robot is what
  these calls tell apart (excited, alarmed, moving, position, speed; homing);
  everybody else changes it between two calls, and `touched` remembers where.
  Speeds are in C's unsigned arithmetic, with `Word` for 2^32.
* **Script**: the script thread line by line (loop, wake, start handler, hook,
  panic handler, end) and the view's handlers on the main thread.  A script is
  what it may do next, so every Lua script is a behaviour; `stubborn` ones catch
  the error by which the hook ends them.
* **Panel**: the touch thread, the widgets and the turn of the main loop.  The
  screen is nine places; the arm and the teaching view, the message box and the
  number editor share them as their rectangles do.  `Takers(p)` are the
  widgets that would take a touch, `Rank` the order in which `handleTouchEvent`
  asks them.  A turn dispatches one event and
  then updates the children of the view one by one, each asking Robot for
  itself, so the arm may change in the middle of an update; `stopAll` is one
  step per axis, which asks `isHalted` and passes over an axis that is.  `power`
  is what `isHalted` answers, as old as the last poll: an axis may be started
  across its own `hardHIZ` (by the console's `ClickMove` or by others) and turn
  while it still reads as halted (`Unread`), until the motion thread has
  `Polled` it.  `spared` are the axes `stopAll` passed over, or that were
  started after it.
* **Gripper**: the servo and its thread, `moveGripper` with its integer
  conversions, the view that rounds, clamps and shows; parameterised by pulse
  widths and step.
* **Main**: the process.  `phase` follows `main` through its destructors; each
  caller and each of Robot's threads goes on until the destructor that waits for
  it.  The axes are `Axis` records and the gripper is module Gripper, so the
  module composes both with the shutdown.  A crash may come at any moment and
  leaves the file as it is; a start loads it.

### Abstractions

* Positions matter only in L6470, there as cells, and in Commands, there as
  small numbers.  A cell stands for the 1000 pulses of overrun.  Polls come when
  they come: an axis may run any number of cells between two, since a caller
  that waits for another axis keeps `m_mutex` and every poll with it.  Stops
  decelerate over one cell or none.  A mechanical end makes the
  motor slip: the counter goes on alone.
* The chip is external: it latches a fault, drops the bridges, and performs no
  energising command until the latch is read.  The origin switch may be stuck
  open for ever.  Waits of one second may have passed at any poll.
* `send()` on the server takes the whole buffer, some of it or none of it.
* In Main the homing thread's choice of axes is left open, Robot has it; what a
  client does is one call of one kind.
* The Lua machine, the kernel's input events and the disk are external.
* History variables: `asked` (Robot), `crossed` (L6470), `executed`
  (CommandServer), `touched`, `acted` (Commands), `outcome`, `late` (Script),
  `busy`, `spared`, `pressedLamp`, `switched`, `refused` (Panel), `ordered`
  (Gripper), `stored`, `cut`, `raced` (Main).
* Operators under "Variant" comments are no part of the models: each is a
  plausible bug, and the property it is kept for fails when it takes the place
  of the operator that follows it.

## 3. Runs

| run | instance | shows |
|---|---|---|
| `robot` | 3 axes, 1 caller, 3 calls, 1 fault, fair | homed means held, turning means watched, every homing sequence is supervised, homing and positioning exclude each other, an alarm drops all axes, ELBOW first, motions are retired, homing requests end |
| `robot_live` | 2 callers, 3 calls, no fault, fair | calls return, a wait on BUSY with the mutex held included |
| `l6470` | the three axes, switch good or stuck, cells -3..3, fair | alignment, speed, completion at the origin, the contract, no home without a switch, termination |
| `server` | 2 connections of 4 requests, on each one damaged and one unknown, pipelined, fair | first connection: whole, matching; all: in order, once; next client served |
| `commands` | 2 axes, positions 0..2, full speed 1, words of 0..2 | Move3D starts what it answers for; a refusal has changed nothing |
| `panel` | 2 axes, 1 event queued, 1 release lost, editor of 1, fair | captures, locks, toggles, `stopAll` and what it passes over, refusals, the question before the end |
| `script` | 2 files, the hook every 3 instructions, fair | aborts are noticed and end the script; the screen tells its story; the thread can be joined |
| `main` | 1 axis, 3 callers, 2 calls, 1 fault, 1 crash, table of 2, widths 76..78 | nothing turns at the end, the table is kept, the gripper reports what was asked |
| `robot_race` | 2 callers, 3 calls | **violated**: `MotionOrHoming` |
| `robot_rehoming` | 1 caller, no fault | **violated**: `HomingOnlyOnRequest` |
| `server_stall` | 1 client, waits for each response, fair | **violated**: `Answered` |
| `panel_editor` | the editor's real 8 symbols | **violated**: `OkCloses` |

**Why the bounds are enough.**

* Robot (178,848 states): the longest story a safety property tells is enable,
  start a motion or a homing, stop; three calls by one caller and a fault
  anywhere in between contain it, with every interleaving of the two threads and
  the chips.  Three axes are the real number.  One caller is enough for the
  properties that hold for any number, since those are proved for any (section
  5); the others are about one caller, and proved for that.  `CallsReturn` has a
  run of its own (220,301 states) because a call only waits on BUSY when a motion
  is under way, that is from the third call on (enable, `startMotion`,
  `setMotorParam`), and only a second caller contends for the mutex meanwhile.  A
  fault only releases BUSY, so there is none.
* L6470 (1,099,346 states): the limits lie at -2 and 2 and the origin at 0, so
  between it and each limit there is a cell for the overrun or a deceleration,
  and one more to the mechanical end; the axis starts anywhere, with ABS_POS
  unrelated to where it is.
* CommandServer: two connections make every leftover of one meet the next;
  four requests make one in work, one buffered and one on the wire, with a
  damaged or an unknown one between two good ones.
* Commands: with two axes one is left to go wrong before or after the other;
  with ways of 0, 1 and 2 and a full speed of 1 a way is the longest, shorter
  or nothing, a speed is full or rounded down to 0, and a word of 3 wraps where
  2^32 would.
* Panel: one event is what the touch thread is ahead of the main loop; a second
  only delays.  An editor of one symbol is empty or full; the real eight are
  used where the number of symbols is the question.  Two axes give `stopAll` a
  first and a last one.  One lost release makes a widget stay captured into the
  next touch, and every property but `CaptureIsLive` and `StopHeeded` holds even
  then.  `Together` is FALSE: a lost release and an axis that turns while it
  reads as halted do not come in one behaviour, each has its own (2,111,352
  states as it is); the proofs do not ask for it.
* Script: an abort meets the hook before, at and after its count; two files
  suffice for a selection to be kept or lost.
* Main: with one axis a caller can be between its question and its motion while
  another switches the axis off, which is all that two axes would add; a crash
  is repeatable from the state it leaves, so one suffices; two rows make a cut
  table differ from a whole one and from an empty one; entries of -50, 60 and
  400 lie below, between and above what the servo can do.

**Deadlock** is checked but in `server`, `server_stall` and `script`: clients
may stop sending for good, and after the view is deleted nothing is left to do.

## 4. Fairness

* Robot: both threads loop (weak fairness), a caller inside a call goes on unless
  it waits on BUSY for an axis that turns (`GoesOn`), a motion the chip began
  ends (`ChipMotionEnds`).  A turning axis need not release BUSY, so a caller may
  wait for the whole motion; that it ends is the chip's.  For a positioning this
  is sound; for `releaseSW` on a switch stuck closed, or a motion whose counter
  never meets its target, it is an assumption: the code has no timeout, and
  `send()` would keep `m_mutex` for ever.  `std::mutex` promises no fairness;
  weak fairness of a caller suffices because a call takes the mutex a bounded
  number of times, the calls are finite, and the two threads sleep between their
  holds.  `HomingSequenceEnds` is strongly fair: a sequence
  polled for ever has a last poll, which is what L6470's `HomingTerminates`
  establishes, where the origin switch works or a limit lies behind it.  The
  exception, L6470's `Unstoppable`, is real: SHOULDER and ELBOW have no reverse limit
  (`Robot::getLimitState`), the leg towards the switch has no timeout.
* L6470: it is polled for ever, a turning axis turns, and a wait of the sequence
  does not outlast its second (`WaitEnds`, strong because a wait is polled
  again and again before it is over).
* CommandServer: both threads loop.  Clients owe nothing.
* Panel: the main loop keeps turning, and a finger does not rest on the panel for
  ever.  `RobotConsole::execute` can block, since every question it asks of Robot
  takes `m_mutex`, which a caller may hold while it waits on BUSY; but that motion
  ends and the call returns (`CallsReturn`).  The arm owes nothing.
* Script: the script thread runs, which covers the end of `delay` (it polls its
  timeout and the abort flag), and `join` returns once the thread is
  done.  The view and the user owe nothing.

## 5. Proofs

| theorem | module | assumes |
|---|---|---|
| `TypeCorrect`: `Spec => []TypeOK` | `Robot_proofs` | `BoundAssumption` |
| `HomedIsHeld`: `Spec => []HomedMeansHeld` | `Robot_proofs` | `BoundAssumption` |
| `MovingWatched`: `Spec => []MovingIsWatched` | `Robot_proofs` | `BoundAssumption` |
| `AlarmDropsAll`: `Spec => AlarmedMotionDropsAll` | `Robot_proofs` | `BoundAssumption` |
| `MotionExcludesHoming`: `Spec => []MotionOrHoming` | `Robot_proofs` | `BoundAssumption`, one calling thread |
| `HomingIsSupervised`: `Spec => []HomingSupervised` | `Robot_proofs` | `BoundAssumption`, one calling thread |
| `ElbowIsFirst`: `Spec => ElbowHomesFirst` | `Robot_proofs` | `BoundAssumption`, one calling thread |
| `SpeedIsRestored`: `Spec => []SpeedRestored` | `L6470_proofs` | `TrackAssumption` |
| `BlindNeverHomes`: `Spec => []NoOriginNoHome` | `L6470_proofs` | `TrackAssumption`; an axis that homes in reverse has no reverse limit |
| `ImplementsContract`: `Spec => KeepsContract` | `L6470_proofs` | `TrackAssumption`, `FaultInGap = FALSE` |
| `TypeCorrect`: `Spec => []TypeOK` | `L6470_proofs` | `TrackAssumption` |
| `HomedIsAligned`: `Spec => []HomedAligned` | `L6470_proofs` | `TrackAssumption`, `Room`, `ReverseIsOpen`, `FaultInGap = FALSE` |
| `EndsAtOrigin`: `Spec => CompletesAtOrigin` | `L6470_proofs` | the same |
| `HomedIsHeld`: `Spec => []HomedHeld` | `L6470_proofs` | `TrackAssumption`, `FaultInGap = FALSE` |
| `SpeedInProportion`: the speed of Move3D | `Commands_proofs` | the product does not wrap |
| `TypeCorrect`: `Spec => []TypeOK` | `Commands_proofs` | `CommandsAssumption` |
| `RefusalIsClean`: `Spec => RefusedLeavesAlone` | `Commands_proofs` | `CommandsAssumption` |
| `Move3DMovesAll`: `Spec => Move3DWhole` | `Commands_proofs` | `CommandsAssumption` |
| `TypeCorrect`: `Spec => []TypeOK` | `CommandServer_proofs` | `ServerAssumption` |
| `ExecutesInOrder`: `Spec => []ExecutedInOrder` | `CommandServer_proofs` | `ServerAssumption` |
| `FirstSessionOnlyWhole`: `Spec => []FirstSessionWhole` | `CommandServer_proofs` | `ServerAssumption` |
| `FirstSessionResponses`: `Spec => []FirstSessionMatches` | `CommandServer_proofs` | `ServerAssumption` |
| `TypeCorrect`: `Spec => []TypeOK` | `Script_proofs` | `ScriptAssumption` |
| `AbortNoticed`: `Spec => []LateBounded` | `Script_proofs` | `ScriptAssumption` |
| `StoryIsTold`: `Spec => []StoryTold` | `Script_proofs` | `ScriptAssumption` |
| `GripperReadsBack`: `Spec => []ReadBack` | `Main_proofs` | `GripperAssumption`, `MainAssumption` |
| `TypeCorrect`: `Spec => []TypeOK` | `Main_proofs` | the same |
| `NothingTurnsAtExit`: `Spec => []StoppedAtExit` | `Main_proofs` | the same |
| `TableSurvives`: `Spec => TableKept` | `Main_proofs` | the same |
| `TypeCorrect`: `Spec => []TypeOK` | `Panel_proofs` | `PanelAssumption` |
| `OneWaits`: `Spec => []CaptureIsLive` | `Panel_proofs` | `PanelAssumption` |
| `MotionLocks`: `Spec => []LockedInMotion` | `Panel_proofs` | `PanelAssumption` |
| `RefusalIsShown`: `Spec => []RefusalShown` | `Panel_proofs` | `PanelAssumption` |
| `EndIsConfirmed`: `Spec => EndsOnlyConfirmed` | `Panel_proofs` | `PanelAssumption` |
| `ToggleInverts`: `Spec => ToggleMeansPress` | `Panel_proofs` | `PanelAssumption` |
| `AllStopped`: `Spec => StopAllStops` | `Panel_proofs` | `PanelAssumption` |

They hold for any set of callers but where one is assumed, any number of calls,
faults and crashes, any track, any number of axes (Commands, Main, Panel),
connections, requests, rows, files, queued events and instructions between two
hooks.

* **One axis.**  `Sound(x)` (`Axis_proofs`) is the inductive invariant of the
  contract: the type, `Held` and `FaultIsOff`.  `Held` alone is not inductive: a
  poll clears the latch, and only because a latched fault means the bridges are
  off is the alarm it leaves behind enough to drop `homed`.  Each method
  preserves `Sound`, by a lemma of its own; Robot's proof cites the lemmas, not
  the definitions.
* **Robot.**  `HomedMeansHeld` follows from `AllSound`, which is `Sound` of each
  axis.  `MovingIsWatched` is not inductive: a homing sequence gives up on an
  alarm without waiting for the leg in progress, and the motor would turn on
  unwatched.  `Supervised` adds what rules that out: an axis that turns with its
  motion state 0 is homing and stands in no alarm, since an alarm comes with
  the bridges off (`FaultIsOff`).  The argument for the motion thread rests on
  its order: the axis is refreshed before it is asked whether it has stopped.
* **One caller.**  `MotionOrHoming` fails with two callers (`robot_race`).  With
  one, `Foreseen` says why it holds although the mutex is released in between:
  past its questions the caller knows there is no homing and, before
  `homing.set`, no motion, and whoever else runs only takes motions back or
  steps a request that is not there.  `Finished` completes it (a homed axis is
  in no sequence, ELBOW's is over in state 3).  `Follows` says of two states of
  an axis that no sequence has begun between them; everything but `startHoming`
  follows, and follows twice in a row.
* **The sequence.**  `SpeedRestored` is kept together with `ObjectType` and
  `SlowInLastLegs`: MAX_SPEED is low only from state 8 on (and in the abort
  state, whose number is above 7), which is the range the failure exit tests.
  `NoOriginNoHome` needs to know how far a sequence comes that finds no switch
  (`Lost`): to state 5 and still searching, or at the limit, or off.  That is true
  of a sequence no `moveTo` came into; one that did ends the search in its place
  and the axis is taken for homed, so the invariant and the property speak of
  `~crossed` (which nothing but a new sequence resets: `CrossedStays`).
* **The origin.**  `Sequence` follows the homing leg by leg: where the search may
  have ended (`FoundClosed`, `FoundEdge`), that the counter is then zeroed on the
  edge, that the overrun and the way back are positioning commands with their
  target in front of them (`Overrun`, `Return`, `Towards`), and that in between
  the counter is the distance to the edge (`Aligned`).  `Tracked` says the same
  of an axis once it is homed.  Both are kept together, because homing starts
  from a homed axis and ends in one.  Both speak of axes whose sequence no `moveTo`
  came into and that none sent away from its target (`UncrossedMove`,
  `UncrossedTracked`).  They need `Room`: three cells below the
  origin, since an axis that homes in reverse overruns its edge by three, two
  from it to the forward limit, and a cell to decelerate in around each position
  that may be asked for.  The run's track has that room (its origin
  and its limits lie apart as the sequence needs).  The last condition is the
  callers': `Robot::startMotion` takes any position (`robot.cpp:418`), so for
  one beyond a mechanical end, where the axis slips and only the counter goes on,
  `HomedAligned` is neither proved nor true.
* **Refinement.**  `AsAxis` maps the chip's five motions to "move" and the twenty
  states to five phases.  There is a lemma per part of `Next` (the chip, the
  callers, the poll), each showing the step is a step of the contract or leaves
  `AsAxis` alone.  A `moveTo` in the middle of the sequence is one of the contract's own
  (`MayAccept` in phase "run"); `Searches` says that an axis which turns with BUSY
  high is in the legs of a sequence, with no alarm or fault, where the contract
  takes the command.  A fault between the two STATUS reads is
  excluded: with it the contract is broken (section 6).
  `ContractSound` (a lemma) proves `Sound` of the
  contract from the lemmas of `Axis_proofs`, and `HomedIsHeld` brings it down:
  what Robot relies on holds of the chip and the sequence, not only of the record
  Robot is modelled with.
* **Commands.**  That Move3D is whole is an induction over its axes that the
  state carries: of the axes it has passed each that nobody touched is where it
  was read, and in motion at its speed if it was to move.  That nothing is
  changed before a refusal is the order of the calls: no command may still be
  refused once it has acted; the last call of `moveto` and of `homing` acts or
  refuses.
* **Command server.** `Network` puts the fragments of a connection in their
  places: what has been pushed into packets, what waits in `m_rxBuffer` and what
  is on the wire follow each other without a gap, in the order they were sent.
  `DrainedRun` says what a drain takes: every fragment until a request is whole,
  so that what it passes over was spoilt (`Least`, from the well-foundedness of
  the numbers, finds the first whole one). `InOrder` relates the list of
  executions to what has been pushed so far, across connections. For the first
  connection `Unswapped` says the packet is the request in execution until
  `enableRequest` empties it, which is why the unlocked flag does no harm;
  `Queued` says the responses received and queued are those due, and in turn:
  due is what can be answered, has been pushed, and is not in the packet
  waiting.
* **Script.**  `Counted`: instructions made since the abort and those left until
  the hook never add up to more than `HookEvery`.  `StoryTold` rests on
  `OutcomeIsOver` (while `m_running` is set no outcome is known, but at the very
  end) and on the error message being set exactly while the outcome is an error,
  so a run that is accepted before the report is made cannot falsify it.
* **Main.**  `StoppedAtExit` needs, for each phase of the shutdown, who may
  still act; a motor in motion was seen excited, or was started after it had
  been switched off (`raced`).  `TableKept` relates the file to the table that
  was last to be saved, before, during and after a save.
* **Panel.**  `Stack` comes first: the dialogs lie over the desktop, one at a
  time, because only the desktop opens one and it is not asked while one is open.
  From it follows which widgets can be clicked at all.  Five invariants stand on
  it separately.  `Reports`: the handler that would run belongs to the box that is
  shown, and a refusal is shown by it; so only OK on the exit question ends the
  console.  `TurnsCounted`: an update that counts in motion has already disabled the
  first control of the view, and the view cannot change before the second is
  disabled.  `Held`: touches and releases alternate in the queue
  (`Alternate`), the last touch has the finger down, and whoever holds a touch
  has its release in front (`OneCaptor`), so no dialog can open or close with a
  touch pending.  `ToggleShows`: lamp, motor and press agree while a toggle is
  held, and an update in between changes nothing.  `StoppedSoFar`: below the
  axis `stopAll` has come to, only those it passed over, or that were started since,
  move; `AfterAxis` says that `NextAxis` leaves none out.

Out of the prover's reach and only model-checked: everything under fairness
(`MotionRetired`, `HomingEnds`, `CallsReturn`, `HomingTerminates`, `Served`,
`StopHeeded`, `AbortEnds`, `JoinEnds`).  Every safety and action property of the
passing runs is proved.

## 6. Where the code and its comments part

The four violated properties, each from a comment, a caption or the protocol
document:

1. `robot.cpp:323-329` (`robot_rehoming`): a failed ELBOW sets the state to 0
   and falls through to the increment: homing starts again without a request.
2. `robot.cpp:272-279`, `438-449` (`robot_race`): check and act under two holds
   of the mutex: two callers can have homing and a motion accepted together.
3. `command_server.cpp:1081-1084`, `461-466` (`server_stall`): a request sent on
   receipt of the response can come before the flag is lowered, and is not
   looked at again.
4. `ui.cpp:1198` (`panel_editor`): an editor with eight symbols takes no button,
   OK and CANCEL included, and it is modal: Stop cannot be touched any more.

Seen while modelling, and allowed by the models without a run of their own:

* `robot.cpp:345`: the comment wants the other axis stopped at once when BASE or
  SHOULDER fails; 341-344 wait until both have ended (`HomingEnds` covers it).
* `robot.cpp:447`, `506`: a `moveTo` accepted across a homing request (the race of
  `robot_race`) is not held back by BUSY in a run, a search or a wait of the
  sequence, and takes its place.  The sequence goes on from where it ends: it may
  complete off the origin, take an axis whose switch never closes for homed, or, on
  SHOULDER and ELBOW, search without an end.  `HomedAligned`, `CompletesAtOrigin`,
  `NoOriginNoHome` and `HomingTerminates` except such a sequence (`crossed`) and no
  other.
* `robot.cpp:446`, `474-488`: the direction of a `moveTo` is computed before
  `send()` waits for BUSY, in `startMotion3D` before the mutex is taken.  If the
  axis has moved since, it is sent away from its target.
* `L6470.cpp:151`: while one axis is waited for, no axis is polled: limits and
  alarms of the others are seen when the wait is over.
* `console.cpp:310`: `stopAll` passes over an axis that reads as halted, and the
  answer is up to 30 ms old.  One that was started across its own `hardHIZ`
  (`robot.cpp:425`, `445`) turns and is not stopped (`StopAllStops` excepts it).
* `L6470.cpp:275-276`: a fault between the two STATUS reads is lost.
  `FaultInGap = TRUE` lets it happen, and `KeepsContract` fails then.
* `command_server.cpp:517-524`: the response of a client that left goes to the
  next.  `command_server.h:110`, `command_server.cpp:541`: a reconnection
  between `available` and `getRequest` lets the command thread take a cleared or
  half-received packet.  Hence the "first session" properties.
* `command_server.cpp:846`: the read command refuses a request that has a motor
  ID, its test having lost the `!` the other commands have.
* `command_server.cpp:822`: a way under a sixteenth of the longest gets speed 0.
* `robot.cpp:418`, `command_server.cpp:824`: a position is not compared with the
  axis's reach.  SHOULDER and ELBOW have no reverse limit: driven on to the
  mechanical end they stay "homed" while counter and axis part (the condition on
  `Targets` in `Room`).
* `robot.cpp:425`: `startMotion` asks for an alarm before it locks, so an axis
  can be started after it has been switched off (`raced` in `StoppedAtExit`).
* `script.cpp:94-95`: an abort that comes between the two assignments is wiped
  out; a script that catches errors survives its abort, and the program's end.
* `script_view.cpp`: if the directory cannot be read the list is emptied and the
  selection is kept.  `gripper_view.cpp`: the label may show 104 %, and shows
  nothing of what scripts and the network do.  `console.cpp:306`: `stopAll` does
  not abort the script, which may start the next motion.

## 7. Not modelled

* SPI byte transfers and register encodings other than ABS_POS and MAX_SPEED;
  `softHIZ`, `goMark`, `resetPos` and the EEPROM stubs (nothing calls them).
* The packet parser byte by byte (`Packet::push`): in CommandServer a request is
  two fragments, the second good or spoilt (checksum or end byte).  A first one
  that is damaged, and a start byte among the data of a spoilt request, at which
  the search for the next request would begin too early, are left out.
* Inverse and forward kinematics, jog steps and typed coordinates (floating
  point); the contents of status and read responses.
* Pixels, fonts and images; geometry beyond the nine places; the status views,
  which only draw.
* What a power cut does to a file that has been closed; SIGPIPE other than as a
  crash.
* The former TCP server and the trial programs, which are not part of the
  program.

## 8. What would come next

The plan is done: Axis, Robot, L6470 and the refinement, CommandServer,
Commands, Script, Panel, Gripper, Main, and the proofs for one caller.  Left:

1. the packet parser byte by byte, with its search for a start byte, refined by
   CommandServer's fragments;
2. end limits that are not polled while `send()` spins on BUSY
   (`L6470.cpp:151`): a bound on the delay, with Robot's mutex and a track in one
   module;
3. proofs that do not ask for one calling thread, as far as they can be had: what
   `MotionOrHoming` keeps when two callers never home at the same time.
