---------------------------- MODULE Script_proofs ----------------------------
(***************************************************************************)
(* Proofs about module Script, for every number of instructions between    *)
(* two calls of the hook: type correctness, that an abort is noticed within *)
(* that number of instructions, and that the screen tells the story of the *)
(* script that has ended.                                                  *)
(***************************************************************************)
EXTENDS Script, SequenceTheorems, TLAPS

(* The messages are those of the script in execution from its start to its *)
(* report, and m_running stays set from Wake to StopRunning.               *)
BoardFresh == pc \in Executing \cup Epilogue => Len(messages) = 1
RunningHeld == pc \in {"setup", "panic", "over"} \cup Executing => running

(* Instructions made since the abort, and those left until the hook.       *)
Counted ==
  late # 0 /\ pc \in Executing => aborted /\ ~stubborn /\ late + left <= HookEvery

ScriptInv == TypeOK /\ BoardFresh /\ RunningHeld /\ Counted /\ LateBounded

LEMMA ScriptInit == Init => ScriptInv
<1> SUFFICES ASSUME Init PROVE ScriptInv
  OBVIOUS
<1>1. messages \in Seq(Message) /\ Len(messages) = 0 /\ drawn \in Seq(Message)
  BY EmptySeq DEF Init
<1>2. TypeOK
  <2>1. /\ stubborn \in BOOLEAN /\ reported \in BOOLEAN /\ running \in BOOLEAN
        /\ aborted \in BOOLEAN /\ terminated \in BOOLEAN /\ errorMessage \in BOOLEAN
        /\ updated \in BOOLEAN /\ shown \in BOOLEAN
        /\ runButton \in BOOLEAN /\ stopButton \in BOOLEAN
    BY Zenon DEF Init
  <2>2. /\ left \in 0..HookEvery /\ late \in 0..(HookEvery + 1)
        /\ listed \in 0..MaxFiles /\ selected \in 0..MaxFiles
    BY ScriptAssumption DEF Init
  <2>3. /\ pc = "head" /\ life = "up" /\ captured = "none" /\ outcome = "none"
    BY DEF Init
  <2> QED
    BY <1>1, <2>1, <2>2, <2>3 DEF TypeOK
<1>3. BoardFresh /\ RunningHeld /\ Counted /\ LateBounded
  BY ScriptAssumption DEF Init, BoardFresh, RunningHeld, Counted, LateBounded, Executing,
     Epilogue
<1> QED
  BY <1>2, <1>3 DEF ScriptInv

LEMMA OneMessage ==
  ASSUME NEW m \in Message PROVE <<m>> \in Seq(Message) /\ Len(<<m>>) = 1
OBVIOUS

(* What the report makes of the messages.                                  *)
LEMMA ReportMessages ==
  ASSUME NEW m \in Seq(Message), Len(m) = 1, NEW extra \in {<<>>, <<"error">>}
  PROVE  /\ m \o extra \o <<"terminated">> \in Seq(Message)
         /\ Len(m \o extra \o <<"terminated">>) <= 3
<1>1. extra \in Seq(Message) /\ Len(extra) \in {0, 1}
  BY EmptySeq, OneMessage DEF Message
<1>2. m \o extra \in Seq(Message) /\ Len(m \o extra) = 1 + Len(extra)
  BY <1>1, ConcatProperties
<1>3. <<"terminated">> \in Seq(Message) /\ Len(<<"terminated">>) = 1
  BY OneMessage DEF Message
<1> QED
  BY <1>1, <1>2, <1>3, ConcatProperties

LEMMA OneMoreOneLess ==
  ASSUME NEW made \in Nat, NEW before \in Nat, NEW after \in Nat, NEW most \in Nat,
         made + before <= most, after <= before - 1
  PROVE  made + 1 \in Nat /\ made + 1 <= most /\ made + 1 + after <= most
OBVIOUS

(* An instruction uses up one of those left, and counts one if it is late. *)
LEMMA InstructionKeeps == ScriptInv /\ Instruction => ScriptInv'
<1> SUFFICES ASSUME ScriptInv, Instruction PROVE ScriptInv'
  OBVIOUS
<1> USE ScriptAssumption DEF ScriptInv, TypeOK, LateBounded
<1>1. /\ left' \in 0..(left - 1) /\ left \in 1..HookEvery
      /\ pc' \in {"run", "pause", "delay", "panic", "over"}
      /\ aborted' \in BOOLEAN /\ (aborted => aborted')
      /\ outcome' \in {"none", "normal", "error", "aborted"}
  <2>1. left \in 1..HookEvery
    BY DEF Instruction
  <2>2. left - 1 \in 0..(left - 1)
    BY <2>1
  <2> DEFINE Made == /\ left' \in 0..(left - 1)
                     /\ pc' \in {"run", "pause", "delay", "panic", "over"}
                     /\ aborted' \in BOOLEAN /\ (aborted => aborted')
                     /\ outcome' \in {"none", "normal", "error", "aborted"}
  <2>3. ASSUME Compute \/ Moveto \/ Delay \/ Return PROVE Made
    BY <2>2, <2>3 DEF Compute, Moveto, Delay, Return, CountDown
  <2>4. ASSUME Fail PROVE Made
    BY <2>2, <2>4, Zenon DEF Fail, Raise, CountDown
  <2>5. ASSUME ExitScript PROVE Made
    BY <2>5, Zenon DEF ExitScript
  <2> QED
    BY <2>1, <2>3, <2>4, <2>5 DEF Instruction
<1>2. UNCHANGED <<stubborn, running, terminated, errorMessage, board, view, reported>>
  BY DEF Instruction
<1>3. /\ late' \in Nat /\ late' <= HookEvery
      /\ late' # 0 => aborted /\ ~stubborn /\ late' + left' <= HookEvery
  <2>1. CASE ~aborted \/ stubborn
    <3>1. late' = 0
      BY <2>1, Zenon DEF Instruction
    <3> QED
      BY <3>1
  <2>2. CASE aborted /\ ~stubborn
    <3>1. late' = late + 1
      BY <2>2, Zenon DEF Instruction
    <3>2. pc \in Executing
      BY DEF Instruction, Executing
    <3>3. late # 0 => late + left <= HookEvery
      BY <3>2, Zenon DEF Counted
    <3>4. late \in Nat /\ late + left <= HookEvery
      BY <3>3, <1>1
    <3>5. left' \in Nat /\ left' <= left - 1 /\ left \in Nat /\ HookEvery \in Nat
      BY <1>1
    <3>6. late' \in Nat /\ late' <= HookEvery /\ late' + left' <= HookEvery
      BY <3>1, <3>4, <3>5, OneMoreOneLess, Zenon
    <3> QED
      BY <3>6, <2>2, Zenon
  <2> QED
    BY <2>1, <2>2
<1>4. TypeOK' /\ LateBounded'
  BY <1>1, <1>2, <1>3 DEF board, view, Executing, Epilogue
<1>5. BoardFresh' /\ RunningHeld'
  BY <1>1, <1>2 DEF BoardFresh, RunningHeld, Instruction, board, Executing, Epilogue
<1>6. Counted'
  BY <1>1, <1>2, <1>3 DEF Counted
<1> QED
  BY <1>4, <1>5, <1>6

(* The hook lets no script go on that has been aborted.                    *)
LEMMA HookKeeps == ScriptInv /\ Hook => ScriptInv'
BY ScriptAssumption DEF ScriptInv, TypeOK, BoardFresh, RunningHeld, Counted, LateBounded,
   Hook, MustStop, Raise, Executing, Epilogue, shared, board, view

LEMMA ReportKeeps == ScriptInv /\ Report => ScriptInv'
<1> SUFFICES ASSUME ScriptInv, Report PROVE ScriptInv'
  OBVIOUS
<1>1. messages \in Seq(Message) /\ Len(messages) = 1
  BY DEF ScriptInv, TypeOK, BoardFresh, Report, Goto, Epilogue
<1>2. PICK extra \in {<<>>, <<"error">>} : messages' = messages \o extra \o <<"terminated">>
  BY DEF Report
<1>3. messages' \in Seq(Message) /\ Len(messages') <= 3
  BY <1>1, <1>2, ReportMessages
<1>4. /\ pc' = "head" /\ updated' = TRUE /\ reported' = FALSE
      /\ UNCHANGED <<lua, shared, view, outcome>>
  BY DEF Report, Goto
<1>5. updated' \in BOOLEAN /\ reported' \in BOOLEAN
  BY <1>4, Zenon
<1> QED
  BY <1>3, <1>4, <1>5 DEF ScriptInv, TypeOK, BoardFresh, RunningHeld, Counted, LateBounded,
     Executing, Epilogue, lua, shared, view

(* The rest of the script thread.                                          *)
LEMMA OtherThreadKeeps ==
  /\ ScriptInv
  /\ LoopHead \/ Wake \/ Start \/ Resume \/ AtPanic \/ StopRunning \/ ClearAbort \/ ReadError
  => ScriptInv'
<1> USE ScriptAssumption DEF ScriptInv, TypeOK, BoardFresh, RunningHeld, Counted, LateBounded,
        Goto, Executing, Epilogue, lua, shared, board, view
<1>1. ASSUME ScriptInv, LoopHead PROVE ScriptInv'
  BY <1>1 DEF LoopHead
<1>2. ASSUME ScriptInv, Wake PROVE ScriptInv'
  BY <1>2 DEF Wake
<1>3. ASSUME ScriptInv, Start PROVE ScriptInv'
  <2>1. messages' \in Seq(Message) /\ Len(messages') = 1
    BY <1>3, OneMessage DEF Start, FirstMessage, Message
  <2> QED
    BY <1>3, <2>1 DEF Start
<1>4. ASSUME ScriptInv, Resume PROVE ScriptInv'
  BY <1>4 DEF Resume
<1>5. ASSUME ScriptInv, AtPanic PROVE ScriptInv'
  BY <1>5, ZenonT(40) DEF AtPanic
<1>6. ASSUME ScriptInv, StopRunning PROVE ScriptInv'
  <2>1. running' \in BOOLEAN /\ pc' = "clear"
    BY <1>6, Zenon DEF StopRunning
  <2>2. UNCHANGED <<lua, reported, aborted, terminated, errorMessage, board, view, outcome>>
    BY <1>6 DEF StopRunning
  <2>3. pc = "over"
    BY <1>6 DEF StopRunning
  <2> QED
    BY <1>6, <2>1, <2>2, <2>3
<1>7. ASSUME ScriptInv, ClearAbort PROVE ScriptInv'
  <2>1. aborted' \in BOOLEAN /\ pc' = "end"
    BY <1>7, Zenon DEF ClearAbort
  <2>2. UNCHANGED <<lua, reported, running, terminated, errorMessage, board, view, outcome>>
    BY <1>7 DEF ClearAbort
  <2>3. pc = "clear"
    BY <1>7 DEF ClearAbort
  <2> QED
    BY <1>7, <2>1, <2>2, <2>3
<1>8. ASSUME ScriptInv, ReadError PROVE ScriptInv'
  BY <1>8 DEF ReadError
<1> HIDE DEF ScriptInv
<1> QED
  BY <1>1, <1>2, <1>3, <1>4, <1>5, <1>6, <1>7, <1>8

(* The main thread: Run changes nothing while a script is in execution.    *)
LEMMA MainThreadKeeps == ScriptInv /\ MainThread => ScriptInv'
<1> USE ScriptAssumption DEF ScriptInv, TypeOK, BoardFresh, RunningHeld, Counted, LateBounded,
        Executing, Epilogue, lua, shared, board
<1>1. ASSUME ScriptInv, NEW b \in {"run", "stop"}, Press(b) PROVE ScriptInv'
  BY <1>1 DEF Press
<1>2. ASSUME ScriptInv, Release PROVE ScriptInv'
  <2>1. CASE Abort
    BY <1>2, <2>1 DEF Release, Abort
  <2>2. CASE Run
    <3>1. CASE ~running /\ RunFresh /\ outcome' = "none" /\ UNCHANGED terminated
      BY <1>2, <3>1, ZenonT(40) DEF Release, RunFresh
    <3>2. CASE UNCHANGED <<shared, outcome>>
      BY <1>2, <3>2 DEF Release
    <3> QED
      BY <2>2, <3>1, <3>2 DEF Run
  <2> QED
    BY <1>2, <2>1, <2>2 DEF Release
<1>3. ASSUME ScriptInv, ChangeTab PROVE ScriptInv'
  <2>1. drawn' \in Seq(Message)
    BY <1>3, EmptySeq DEF ChangeTab
  <2> QED
    BY <1>3, <2>1 DEF ChangeTab
<1>4. ASSUME ScriptInv, ListFiles PROVE ScriptInv'
  <2>1. drawn' \in Seq(Message)
    BY <1>4, EmptySeq DEF ListFiles
  <2> QED
    BY <1>4, <2>1 DEF ListFiles
<1>5. ASSUME ScriptInv, Update PROVE ScriptInv'
  <2>1. runButton' \in BOOLEAN /\ stopButton' \in BOOLEAN /\ updated' \in BOOLEAN
    BY <1>5 DEF Update
  <2>2. drawn' \in Seq(Message)
    BY <1>5 DEF Update
  <2> QED
    BY <1>5, <2>1, <2>2 DEF Update
<1>6. ASSUME ScriptInv, Delete PROVE ScriptInv'
  BY <1>6 DEF Delete, TellEnd
<1>7. ASSUME ScriptInv, Join PROVE ScriptInv'
  BY <1>7 DEF Join
<1>8. ASSUME ScriptInv, NEW n \in 1..MaxFiles, SelectFile(n) PROVE ScriptInv'
  BY <1>8 DEF SelectFile
<1> HIDE DEF ScriptInv
<1> QED
  BY <1>1, <1>2, <1>3, <1>4, <1>5, <1>6, <1>7, <1>8 DEF MainThread

LEMMA ScriptNext == ScriptInv /\ [Next]_vars => ScriptInv'
<1> SUFFICES ASSUME ScriptInv, [Next]_vars PROVE ScriptInv'
  OBVIOUS
<1>1. CASE Next
  BY <1>1, InstructionKeeps, HookKeeps, ReportKeeps, OtherThreadKeeps, MainThreadKeeps
     DEF Next, ScriptThread
<1>2. CASE UNCHANGED vars
  BY <1>2 DEF ScriptInv, TypeOK, BoardFresh, RunningHeld, Counted, LateBounded, vars, lua,
     shared, board, view
<1> QED
  BY <1>1, <1>2

LEMMA ScriptInvariant == Spec => []ScriptInv
BY ScriptInit, ScriptNext, PTL DEF Spec

(* Script's variables have their types in every state.                     *)
THEOREM TypeCorrect == Spec => []TypeOK
<1>1. ScriptInv => TypeOK
  BY DEF ScriptInv
<1> QED
  BY <1>1, ScriptInvariant, PTL

(* A script that does not catch errors makes at most HookEvery more        *)
(* instructions once it is aborted (hookProc, abort, exitScript).          *)
THEOREM AbortNoticed == Spec => []LateBounded
<1>1. ScriptInv => LateBounded
  BY DEF ScriptInv
<1> QED
  BY <1>1, ScriptInvariant, PTL

-----------------------------------------------------------------------------
(* The messages.  The outcome of a script is known from its last           *)
(* instruction to the next run, which comes after m_running has fallen;    *)
(* the error message is set exactly while that outcome is an error.        *)

InProgress == Executing \cup Epilogue
Story == <<"started">> \o (IF outcome = "error" THEN <<"error">> ELSE <<>>)
                       \o <<"terminated">>

FirstIsStarted == pc \in InProgress => messages = <<"started">>
DrawnWhenSeen == shown /\ ~updated => drawn = messages
OutcomeIsOver == running /\ pc # "over" => outcome = "none"
ErrorIsOutcome == errorMessage <=> outcome = "error"
ReportedIsRead == pc = "report" /\ outcome # "none" => (reported <=> outcome = "error")
MessagesTold == pc \in {"head", "sleep"} /\ outcome # "none" => messages = Story

StoryInv == /\ FirstIsStarted /\ DrawnWhenSeen /\ OutcomeIsOver
            /\ ErrorIsOutcome /\ ReportedIsRead /\ MessagesTold

LEMMA StoryInit == Init => StoryInv
BY DEF Init, StoryInv, FirstIsStarted, DrawnWhenSeen, OutcomeIsOver, ErrorIsOutcome,
       ReportedIsRead, MessagesTold, InProgress, Executing, Epilogue

(* While a script is in execution nothing is known of its outcome.         *)
LEMMA StoryInstruction == ScriptInv /\ StoryInv /\ Instruction => StoryInv'
<1> SUFFICES ASSUME ScriptInv, StoryInv, Instruction PROVE StoryInv'
  OBVIOUS
<1> USE DEF StoryInv, FirstIsStarted, DrawnWhenSeen, OutcomeIsOver, ErrorIsOutcome,
            ReportedIsRead, MessagesTold, InProgress, Executing, Epilogue
<1>1. outcome = "none" /\ pc = "run"
  BY DEF Instruction, ScriptInv, RunningHeld
<1>2. /\ pc' \in {"run", "pause", "delay", "panic", "over"}
      /\ \/ pc' = "over" /\ outcome' = "normal"
         \/ outcome' = outcome
  BY DEF Instruction, Compute, Moveto, Delay, Fail, ExitScript, Return, Raise
<1>3. UNCHANGED <<running, errorMessage, messages, updated, shown, drawn>>
  BY DEF Instruction, board, view
<1> QED
  BY <1>1, <1>2, <1>3

LEMMA StoryReport == StoryInv /\ Report => StoryInv'
<1> SUFFICES ASSUME StoryInv, Report PROVE StoryInv'
  OBVIOUS
<1> USE DEF StoryInv
<1>1. /\ pc = "report" /\ pc' = "head" /\ updated' = TRUE
      /\ messages = <<"started">>
      /\ messages' = messages \o (IF reported THEN <<"error">> ELSE <<>>)
                              \o <<"terminated">>
      /\ UNCHANGED <<running, errorMessage, outcome>>
  BY DEF Report, Goto, FirstIsStarted, InProgress, Epilogue, shared
<1>2. outcome # "none" => messages' = Story
  BY <1>1 DEF ReportedIsRead, Story
<1>3. MessagesTold'
  BY <1>1, <1>2 DEF MessagesTold, Story
<1>4. OutcomeIsOver' /\ ErrorIsOutcome'
  BY <1>1 DEF OutcomeIsOver, ErrorIsOutcome
<1>5. FirstIsStarted' /\ DrawnWhenSeen' /\ ReportedIsRead'
  BY <1>1 DEF FirstIsStarted, DrawnWhenSeen, ReportedIsRead, InProgress, Executing,
              Epilogue
<1> QED
  BY <1>3, <1>4, <1>5

LEMMA StoryThread ==
  /\ ScriptInv /\ StoryInv
  /\ \/ LoopHead \/ Wake \/ Start \/ Hook \/ Resume
     \/ AtPanic \/ StopRunning \/ ClearAbort \/ ReadError
  => StoryInv'
<1> USE DEF StoryInv, FirstIsStarted, DrawnWhenSeen, OutcomeIsOver, ErrorIsOutcome,
            ReportedIsRead, MessagesTold, Story, InProgress, Executing, Epilogue,
            Goto, shared, board, view
<1>1. ASSUME StoryInv, LoopHead \/ Wake PROVE StoryInv'
  BY <1>1 DEF LoopHead, Wake
<1>2. ASSUME StoryInv, Start PROVE StoryInv'
  BY <1>2 DEF Start, FirstMessage
<1>3. ASSUME StoryInv, Hook \/ Resume PROVE StoryInv'
  BY <1>3 DEF Hook, Raise, Resume
<1>4. ASSUME ScriptInv, StoryInv, AtPanic PROVE StoryInv'
  <2>1. outcome = "none"
    BY <1>4 DEF AtPanic, ScriptInv, RunningHeld
  <2>2. /\ pc = "panic" /\ pc' = "over"
        /\ errorMessage' <=> outcome' = "error"
        /\ UNCHANGED <<running, messages, updated, shown, drawn>>
    BY <1>4, <2>1 DEF AtPanic
  <2> QED
    BY <1>4, <2>2
<1>5. ASSUME StoryInv, StopRunning PROVE StoryInv'
  BY <1>5 DEF StopRunning
<1>6. ASSUME StoryInv, ClearAbort PROVE StoryInv'
  BY <1>6 DEF ClearAbort
<1>7. ASSUME StoryInv, ReadError PROVE StoryInv'
  BY <1>7 DEF ReadError
<1> HIDE DEF StoryInv
<1> QED
  BY <1>1, <1>2, <1>3, <1>4, <1>5, <1>6, <1>7

(* Run forgets the outcome and the error, but only when no script runs.    *)
LEMMA StoryMain == ScriptInv /\ StoryInv /\ MainThread => StoryInv'
<1> USE DEF StoryInv, FirstIsStarted, DrawnWhenSeen, OutcomeIsOver, ErrorIsOutcome,
            ReportedIsRead, MessagesTold, Story, InProgress, Executing, Epilogue,
            shared, board
<1>1. ASSUME StoryInv, NEW b \in {"run", "stop"}, Press(b) PROVE StoryInv'
  BY <1>1 DEF Press
<1>2. ASSUME StoryInv, Release PROVE StoryInv'
  <2>1. UNCHANGED <<pc, reported, messages, updated, shown, drawn>>
    BY <1>2 DEF Release
  <2>2. \/ UNCHANGED <<running, errorMessage, outcome>>
        \/ outcome' = "none" /\ errorMessage' = FALSE
    BY <1>2 DEF Release, Run, RunFresh, Abort
  <2> QED
    BY <1>2, <2>1, <2>2
<1>3. ASSUME StoryInv, ChangeTab \/ ListFiles PROVE StoryInv'
  <2>1. UNCHANGED <<pc, reported, running, errorMessage, messages, outcome>>
    BY <1>3 DEF ChangeTab, ListFiles
  <2>2. shown' => updated'
    BY <1>3, Zenon DEF ChangeTab, ListFiles
  <2> QED
    BY <1>3, <2>1, <2>2
<1>4. ASSUME StoryInv, Update PROVE StoryInv'
  <2>1. UNCHANGED <<pc, reported, running, errorMessage, messages, outcome, shown>>
    BY <1>4 DEF Update
  <2>2. shown => drawn' = messages
    <3>1. CASE updated
      BY <1>4, <3>1, Zenon DEF Update
    <3>2. CASE ~updated
      BY <1>4, <3>2, Zenon DEF Update
    <3> QED
      BY <3>1, <3>2
  <2> QED
    BY <1>4, <2>1, <2>2
<1>5. ASSUME StoryInv, Delete \/ Join PROVE StoryInv'
  BY <1>5 DEF Delete, TellEnd, Join
<1>6. ASSUME StoryInv, NEW n \in 1..MaxFiles, SelectFile(n) PROVE StoryInv'
  BY <1>6 DEF SelectFile
<1> HIDE DEF StoryInv
<1> QED
  BY <1>1, <1>2, <1>3, <1>4, <1>5, <1>6 DEF MainThread

LEMMA StoryNext == ScriptInv /\ StoryInv /\ [Next]_vars => StoryInv'
<1> SUFFICES ASSUME ScriptInv, StoryInv, [Next]_vars PROVE StoryInv'
  OBVIOUS
<1>1. CASE Next
  BY <1>1, StoryInstruction, StoryReport, StoryThread, StoryMain DEF Next, ScriptThread
<1>2. CASE UNCHANGED vars
  BY <1>2 DEF StoryInv, FirstIsStarted, DrawnWhenSeen, OutcomeIsOver, ErrorIsOutcome,
     ReportedIsRead, MessagesTold, Story, vars, shared, board, view
<1> QED
  BY <1>1, <1>2

(* The messages on the screen after a script has ended are those of that   *)
(* script, its error among them if and only if it had one, although the    *)
(* error is read and reported after the next run is accepted (Script::     *)
(* execute, ScriptView::update).                                           *)
THEOREM StoryIsTold == Spec => []StoryTold
<1>1. StoryInv => StoryTold
  BY DEF StoryInv, StoryTold, DrawnWhenSeen, MessagesTold, Story
<1>2. Init => StoryInv
  BY StoryInit
<1>3. ScriptInv /\ StoryInv /\ [Next]_vars => StoryInv'
  BY StoryNext
<1> QED
  BY <1>1, <1>2, <1>3, ScriptInvariant, PTL DEF Spec
=============================================================================
