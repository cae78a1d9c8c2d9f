------------------------------- MODULE Script -------------------------------
(***************************************************************************)
(* Scripts: the thread that runs a Lua script (Script::execute), the hook  *)
(* by which it notices an abort, and the view that starts, stops and       *)
(* reports scripts from the main thread.  The two threads share m_running, *)
(* m_aborted, m_terminated and m_errorMessage without a lock, and the      *)
(* messages under a mutex.                                                 *)
(*                                                                         *)
(* A script is what it may do next: compute, ask for a motion or a grip,   *)
(* wait, exit, fail or return.  A stubborn script catches every error.     *)
(***************************************************************************)
EXTENDS Naturals, Sequences

CONSTANTS
  MaxFiles,    \* bound: scripts in the directory
  HookEvery    \* instructions from one call of the hook to the next: 10

ASSUME ScriptAssumption == MaxFiles \in Nat \ {0} /\ HookEvery \in Nat \ {0}

VARIABLES
  (* the script thread *)
  pc,           \* where it is
  left,         \* instructions until the hook is called
  stubborn,     \* the script catches errors
  reported,     \* the error message as the end handler has read it
  (* shared *)
  running,      \* m_running
  aborted,      \* m_aborted
  terminated,   \* m_terminated
  errorMessage, \* m_errorMessage is set
  messages,     \* m_messages
  updated,      \* m_messageUpdated
  (* the main thread *)
  life,         \* the view: "up", "joining" the thread, or "joined"
  shown,        \* the view is visible
  drawn,        \* the messages on the screen
  runButton, stopButton,   \* enabled
  captured,     \* the button that has taken a touch, or "none"
  listed,       \* files in m_files
  selected,     \* m_selectedIndex + 1: 0 is no selection
  (* history *)
  outcome,      \* how the last script ended, until run is called again
  late          \* instructions the script has made since it was aborted

shared == <<running, aborted, terminated, errorMessage>>
board == <<messages, updated>>
lua == <<left, stubborn, late>>
view == <<life, shown, drawn, runButton, stopButton, captured, listed, selected>>
vars == <<pc, lua, reported, shared, board, view, outcome>>

Message == {"started", "error", "terminated"}

(* In the Lua machine, and after it up to the report.                      *)
Executing == {"run", "pause", "delay"}
Epilogue == {"panic", "over", "clear", "end", "report"}

TypeOK ==
  /\ pc \in {"head", "sleep", "setup", "done"} \cup Executing \cup Epilogue
  /\ left \in 0..HookEvery /\ late \in 0..(HookEvery + 1)
  /\ stubborn \in BOOLEAN /\ reported \in BOOLEAN /\ running \in BOOLEAN
  /\ aborted \in BOOLEAN /\ terminated \in BOOLEAN /\ errorMessage \in BOOLEAN
  /\ updated \in BOOLEAN /\ shown \in BOOLEAN
  /\ runButton \in BOOLEAN /\ stopButton \in BOOLEAN
  /\ messages \in Seq(Message)
  /\ drawn \in Seq(Message)
  /\ Len(messages) <= 3
  /\ life \in {"up", "joining", "joined"}
  /\ captured \in {"none", "run", "stop"}
  /\ listed \in 0..MaxFiles /\ selected \in 0..MaxFiles
  /\ outcome \in {"none", "normal", "error", "aborted"}

Init ==
  /\ pc = "head" /\ left = HookEvery /\ stubborn = FALSE /\ reported = FALSE
  /\ running = FALSE /\ aborted = FALSE /\ terminated = FALSE
  /\ errorMessage = FALSE /\ messages = <<>> /\ updated = FALSE
  /\ life = "up" /\ shown = FALSE /\ drawn = <<>>
  /\ runButton = TRUE /\ stopButton = TRUE /\ captured = "none"
  /\ listed \in 0..MaxFiles /\ selected = 0
  /\ outcome = "none" /\ late = 0

-----------------------------------------------------------------------------
(* The script thread.                                                      *)

Goto(a, b) == pc = a /\ pc' = b

(* The loop's condition, then 100 ms of sleep, then m_running.             *)
LoopHead ==
  /\ pc = "head" /\ pc' = IF terminated THEN "done" ELSE "sleep"
  /\ UNCHANGED <<lua, reported, shared, board, view, outcome>>

Wake ==
  /\ pc = "sleep" /\ pc' = IF running THEN "setup" ELSE "head"
  /\ UNCHANGED <<lua, reported, shared, board, view, outcome>>

FirstMessage == messages' = <<"started">>

(* The Lua state is made, and the start handler clears the messages.       *)
Start ==
  /\ Goto("setup", "run")
  /\ left' = HookEvery /\ stubborn' \in BOOLEAN /\ late' = 0
  /\ FirstMessage /\ updated' = TRUE
  /\ UNCHANGED <<reported, shared, view, outcome>>

(* An error ends the script unless it is caught.                           *)
Raise == pc' = IF stubborn THEN "run" ELSE "panic"

(* Variant: coming back from a call starts the count anew.                 *)
CountDownAnew == left' = HookEvery
CountDown == left' = left - 1

(* One instruction that is no call, or a call that returns at once:        *)
(* go_home, in_motion, alarm_hapenned, get_position, grip.                 *)
Compute == pc' = "run" /\ CountDown /\ UNCHANGED <<aborted, outcome>>

(* moveto waits for 100 ms after the start of the motion.                  *)
Moveto == pc' = "pause" /\ CountDown /\ UNCHANGED <<aborted, outcome>>

Delay == pc' = "delay" /\ CountDown /\ UNCHANGED <<aborted, outcome>>

(* Out of range, unable to start the motion, or an error of the script.    *)
Fail == Raise /\ CountDown /\ UNCHANGED <<aborted, outcome>>

(* exit_script: the hook is called at the next line from now on.           *)
ExitScript ==
  /\ pc' = "run" /\ left' \in 0..(left - 1) /\ aborted' = TRUE
  /\ UNCHANGED outcome

Return == pc' = "over" /\ outcome' = "normal" /\ CountDown /\ UNCHANGED aborted

Instruction ==
  /\ pc = "run" /\ left > 0
  /\ Compute \/ Moveto \/ Delay \/ Fail \/ ExitScript \/ Return
  /\ late' = IF ~aborted \/ stubborn THEN 0
             ELSE IF late <= HookEvery THEN late + 1 ELSE late   \* counts no further
  /\ UNCHANGED <<stubborn, reported, running, terminated, errorMessage, board, view>>

(* Variant: only the end of the program stops a script.                    *)
MustStopAtEnd == terminated
MustStop == aborted \/ terminated

(* hookProc.                                                               *)
Hook ==
  /\ pc = "run" /\ left = 0 /\ left' = HookEvery
  /\ IF MustStop THEN Raise ELSE pc' = "run"
  /\ UNCHANGED <<stubborn, late, reported, shared, board, view, outcome>>

(* Back from moveto; delay ends at its timeout, at once when aborted.      *)
Resume ==
  /\ pc \in {"pause", "delay"} /\ pc' = "run"
  /\ UNCHANGED <<lua, reported, shared, board, view, outcome>>

(* atPanic: an abort is no error.                                          *)
AtPanic ==
  /\ Goto("panic", "over")
  /\ LET quiet == aborted \/ terminated
     IN /\ errorMessage' = IF quiet THEN errorMessage ELSE TRUE
        /\ outcome' = IF quiet THEN "aborted" ELSE "error"
  /\ UNCHANGED <<lua, reported, running, aborted, terminated, board, view>>

(* The end of a script, step by step, with no lock held.                   *)
StopRunning ==
  /\ Goto("over", "clear") /\ running' = FALSE
  /\ UNCHANGED <<lua, reported, aborted, terminated, errorMessage, board, view, outcome>>

ClearAbort ==
  /\ Goto("clear", "end") /\ aborted' = FALSE
  /\ UNCHANGED <<lua, reported, running, terminated, errorMessage, board, view, outcome>>

ReadError ==
  /\ Goto("end", "report") /\ reported' = errorMessage
  /\ UNCHANGED <<lua, shared, board, view, outcome>>

Report ==
  /\ Goto("report", "head")
  /\ messages' = messages \o (IF reported THEN <<"error">> ELSE <<>>)
                          \o <<"terminated">>
  /\ updated' = TRUE /\ reported' = FALSE
  /\ UNCHANGED <<lua, shared, view, outcome>>

ScriptThread ==
  \/ LoopHead \/ Wake \/ Start \/ Instruction \/ Hook \/ Resume
  \/ AtPanic \/ StopRunning \/ ClearAbort \/ ReadError \/ Report

-----------------------------------------------------------------------------
(* The main thread: the view's handlers and its update.                    *)

(* Variant: the last error message stays.                                  *)
RunKeepsError == running' = TRUE /\ aborted' = FALSE /\ UNCHANGED errorMessage
RunFresh == running' = TRUE /\ aborted' = FALSE /\ errorMessage' = FALSE

(* Script::run, from ScriptView::runScript: the file may not open.         *)
Run ==
  \/ /\ ~running /\ selected > 0
     /\ RunFresh /\ outcome' = "none" /\ UNCHANGED terminated
  \/ UNCHANGED <<shared, outcome>>

Abort == aborted' = TRUE /\ UNCHANGED <<running, terminated, errorMessage, outcome>>

Press(button) ==
  /\ life = "up" /\ shown /\ captured = "none"
  /\ IF button = "run" THEN runButton ELSE stopButton
  /\ captured' = button
  /\ UNCHANGED <<pc, lua, reported, shared, board, life, shown, drawn, runButton,
                 stopButton, listed, selected, outcome>>

Release ==
  /\ life = "up" /\ captured # "none" /\ captured' = "none"
  /\ IF captured = "run" THEN Run ELSE Abort
  /\ UNCHANGED <<pc, lua, reported, board, life, shown, drawn, runButton,
                 stopButton, listed, selected>>

(* Another tab covers the view; coming back, it paints itself anew.        *)
ChangeTab ==
  /\ life = "up" /\ captured = "none"
  /\ shown' = ~shown /\ drawn' = <<>> /\ updated' = (shown' \/ updated)
  /\ UNCHANGED <<pc, lua, reported, shared, messages, life, runButton, stopButton,
                 captured, listed, selected, outcome>>

(* createFileList: if the directory cannot be read the list is empty but   *)
(* the selection stays.                                                    *)
ListFiles ==
  /\ life = "up" /\ shown /\ captured = "none"
  /\ \/ listed' \in 0..MaxFiles /\ selected' = 0
     \/ listed' = 0 /\ UNCHANGED selected
  /\ updated' = TRUE /\ drawn' = <<>>
  /\ UNCHANGED <<pc, lua, reported, shared, messages, life, shown, runButton,
                 stopButton, captured, outcome>>

SelectFile(n) ==
  /\ life = "up" /\ shown /\ captured = "none" /\ n <= listed
  /\ selected' = n
  /\ UNCHANGED <<pc, lua, reported, shared, board, life, shown, drawn, runButton,
                 stopButton, captured, listed, outcome>>

(* ScriptView::update, once a turn of the main loop.                       *)
Update ==
  /\ life = "up" /\ shown
  /\ runButton' = (~running /\ selected > 0) /\ stopButton' = running
  /\ IF updated THEN drawn' = messages ELSE UNCHANGED drawn
  /\ updated' = FALSE
  /\ UNCHANGED <<pc, lua, reported, shared, messages, life, shown, captured,
                 listed, selected, outcome>>

(* Variant: the thread is not told that the program ends.                  *)
TellEndAborts == aborted' = TRUE /\ UNCHANGED terminated
TellEnd == aborted' = TRUE /\ terminated' = TRUE

(* ~Script, from ~ScriptView when the console is deleted.                  *)
Delete ==
  /\ life = "up" /\ life' = "joining" /\ TellEnd
  /\ UNCHANGED <<pc, lua, reported, running, errorMessage, board, shown, drawn,
                 runButton, stopButton, captured, listed, selected, outcome>>

Join ==
  /\ life = "joining" /\ pc = "done" /\ life' = "joined"
  /\ UNCHANGED <<pc, lua, reported, shared, board, shown, drawn, runButton,
                 stopButton, captured, listed, selected, outcome>>

MainThread ==
  \/ \E button \in {"run", "stop"} : Press(button)
  \/ Release \/ ChangeTab \/ ListFiles \/ Update \/ Delete \/ Join
  \/ \E n \in 1..MaxFiles : SelectFile(n)

Next == ScriptThread \/ MainThread
Spec == Init /\ [][Next]_vars

(* Both threads keep running; nobody has to touch anything.                *)
FairSpec == Spec /\ WF_vars(ScriptThread) /\ WF_vars(Join)

-----------------------------------------------------------------------------
(* Safety.                                                                 *)

(* A script that does not catch errors makes at most HookEvery more        *)
(* instructions after an abort: a motion it asks for right after a delay   *)
(* that was cut short may still be among them (hookProc, delayScript).     *)
LateBounded == late <= HookEvery

(* What stands on the screen after a script has ended is the story of that *)
(* script: its start, its error if it had one and was not aborted, its     *)
(* end, unless the next one has been asked for (onStart and onEnd handlers *)
(* against ScriptView::update and Script::run).                            *)
StoryTold ==
  outcome # "none" /\ pc \in {"head", "sleep"} /\ shown /\ ~updated =>
    drawn = <<"started">> \o (IF outcome = "error" THEN <<"error">> ELSE <<>>)
                          \o <<"terminated">>

-----------------------------------------------------------------------------
(* Liveness.                                                               *)

(* A script that is aborted while it executes ends, if it does not catch   *)
(* errors.  An abort that comes while the one before is still ending is    *)
(* not covered: ClearAbort wipes it out.                                   *)
AbortEnds ==
  (pc \in Executing /\ aborted /\ ~stubborn) ~> pc \notin Executing

(* The program ends: the thread is joined whatever it was doing when the   *)
(* console was deleted, but for a script that catches errors (~Script).    *)
JoinEnds == (life = "joining" /\ ~stubborn) ~> (life = "joined" \/ stubborn)
=============================================================================
