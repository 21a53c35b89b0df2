--------------------------- MODULE AgentLoopProofs ---------------------------
(***************************************************************************)
(* Theorems about AgentLoop, for every value of its constants.             *)
(***************************************************************************)
EXTENDS AgentLoop, TLAPS

-----------------------------------------------------------------------------
(* Type correctness.  A few operators carry most of the changes (Continue, *)
(* TaskEnds, ProcessEnds, NextCall, BeginCompaction and the file           *)
(* operations): one lemma each, and then one step per action.              *)

\* The values the variables start with, and return to, have their types.
LEMMA StartingValues ==
  /\ NoCheckpoint \in Checkpoints
  /\ NewTurn \in Turns
  /\ NoJob \in Jobs
  /\ NewProgress \in Guards /\ [stalls |-> 0, nudged |-> TRUE] \in Guards
  /\ NoCancel \in Cancels
BY BoundsAssumption
   DEF NoCheckpoint, Checkpoints, Reasons, Plans, NewTurn, Turns, NoJob, Jobs, NewProgress,
       Guards, NoCancel, Cancels

\* What a task's caller adds to the chain, and what a new process starts with, are tasks.
LEMMA FollowUpsAreTasks ==
  /\ \A task \in Tasks : FollowUps(task) \in Seq(Tasks)
  /\ <<>> \in Seq(Tasks)
  /\ <<"resume">> \in Seq(Tasks)
BY DEF Tasks, FollowUps

\* Variables an action leaves alone keep their types.
LEMMA Frames ==
  /\ SessionType /\ UNCHANGED session => SessionType'
  /\ LocalsType /\ UNCHANGED locals => LocalsType'
  /\ MemoryType /\ UNCHANGED memory => MemoryType'
  /\ UiType /\ UNCHANGED ui => UiType'
  /\ DiskType /\ UNCHANGED disk => DiskType'
  /\ ControlType /\ UNCHANGED <<session, locals>> => ControlType'
BY DEF SessionType, LocalsType, MemoryType, UiType, DiskType, ControlType, session, locals,
       memory, ui, disk

\* Moving on within a task.
LEMMA ContinueTyped ==
  ASSUME TypeOK, NEW label \in PCs, Continue(label), taskChain # <<>>,
         pc # "idle" \/ proc # "down",
         label \notin {"planOpen", "planWrite", "fit", "gate", "tool"} \/ calls > 0
  PROVE  SessionType' /\ LocalsType' /\ ControlType'
BY DEF TypeOK, SessionType, LocalsType, ControlType, Continue, Goto, session

\* Leaving a task.
LEMMA TaskEndsTyped ==
  ASSUME TypeOK, taskChain # <<>>, TaskEnds
  PROVE  SessionType' /\ LocalsType' /\ ControlType'
<1>1. pc' \in PCs /\ calls' \in 0..MaxCalls /\ turn' \in Turns /\ job' \in Jobs
  BY StartingValues, BoundsAssumption DEF TaskEnds, PCs
<1>2. aborted' \in BOOLEAN /\ busy' \in BOOLEAN /\ freed' \in BOOLEAN
  BY Zenon DEF TaskEnds
<1>3. Task \in Tasks /\ Tail(taskChain) \in Seq(Tasks)
  BY DEF TypeOK, SessionType, Task
<1>4. taskChain' \in Seq(Tasks)
  BY <1>3, FollowUpsAreTasks DEF TaskEnds
<1>5. proc' \in {"up", "quitting", "down"} /\ commands' \in 0..MaxCommands
  BY DEF TaskEnds, TypeOK, SessionType
<1>6. ControlType'
  BY DEF ControlType, TaskEnds
<1> QED BY <1>1, <1>2, <1>4, <1>5, <1>6 DEF SessionType, LocalsType

\* Leaving the process.
LEMMA ProcessEndsTyped == TypeOK /\ ProcessEnds => TypeOK'
<1> SUFFICES ASSUME TypeOK, ProcessEnds PROVE TypeOK'
  OBVIOUS
<1>1. SessionType' /\ LocalsType'
  <2>1. pc' \in PCs /\ calls' \in 0..MaxCalls /\ turn' \in Turns /\ job' \in Jobs
    BY StartingValues, BoundsAssumption DEF ProcessEnds, PCs
  <2>2. aborted' \in BOOLEAN /\ busy' \in BOOLEAN /\ freed' \in BOOLEAN
    BY DEF ProcessEnds
  <2>3. proc' \in {"up", "quitting", "down"} /\ taskChain' \in Seq(Tasks)
    BY FollowUpsAreTasks DEF ProcessEnds
  <2>4. commands' \in 0..MaxCommands
    BY BoundsAssumption DEF ProcessEnds
  <2> QED BY <2>1, <2>2, <2>3, <2>4 DEF SessionType, LocalsType
<1>2. MemoryType' /\ UiType' /\ DiskType'
  <2>1. progress' \in Guards /\ cancelling' \in Cancels
    BY StartingValues DEF ProcessEnds
  <2>2. talked' \in BOOLEAN /\ cancelRequested' \in BOOLEAN
    BY DEF ProcessEnds
  <2> QED BY <2>1, <2>2, BoundsAssumption
          DEF ProcessEnds, TypeOK, MemoryType, UiType, DiskType, Plans
<1>3. ControlType'
  BY DEF ControlType, ProcessEnds
<1> QED BY <1>1, <1>2, <1>3 DEF TypeOK

\* Going on with the next call of the batch.
LEMMA NextCallTyped ==
  ASSUME TypeOK, pc \in {"fit", "gate", "tool", "planOpen", "planWrite"}, NextCall
  PROVE  SessionType' /\ LocalsType' /\ ControlType'
BY BoundsAssumption
   DEF TypeOK, SessionType, LocalsType, ControlType, NextCall, Goto, session, PCs

\* Beginning a compaction records a checkpoint with the plan of the moment.
LEMMA BeginCompactionTyped ==
  ASSUME TypeOK, NEW reason \in Reasons, NEW pending \in BOOLEAN, taskChain # <<>>,
         NEW after \in {"turn", "batch", "overflow", "task"},
         BeginCompaction(reason, pending, after),
         pc # "idle" \/ proc # "down", calls' \in 0..MaxCalls, turn' \in Turns
  PROVE  SessionType' /\ LocalsType' /\ ControlType'
<1>1. job' \in Jobs
  <2>1. [reason |-> reason, plan |-> plan, pending |-> pending] \in Checkpoints
    BY DEF Checkpoints, TypeOK, MemoryType
  <2> QED BY <2>1, BoundsAssumption DEF BeginCompaction, Jobs
<1>2. pc' = "openFirst" /\ aborted' = aborted /\ UNCHANGED session
  BY DEF BeginCompaction, Goto
<1>3. LocalsType'
  BY <1>1, <1>2 DEF TypeOK, LocalsType, PCs, CompactSteps
<1> QED BY <1>2, <1>3 DEF TypeOK, SessionType, ControlType, session

\* Every operation on the checkpoint file leaves a file.
LEMMA FileTyped ==
  ASSUME TypeOK, NEW writer \in {"loop", "cancel"}, NEW ck \in Checkpoints,
         OpensFile(writer) \/ WritesFile(writer, ck) \/ WriteFails(writer)
  PROVE  DiskType'
BY DEF TypeOK, DiskType, Files, OpensFile, WritesFile, Written, WriteFails

\* The removal of the checkpoint keeps the types of the disk.
LEMMA RemovedTyped == TypeOK /\ RemovesFile => DiskType'
BY DEF TypeOK, DiskType, Files, RemovesFile

\* Back from injectResumeContextIfPending and from compact, into whichever caller it was.
LEMMA InjectReturnsTyped ==
  ASSUME TypeOK, pc \in InjectSteps, NEW resumed \in BOOLEAN, InjectReturns(resumed)
  PROVE  SessionType' /\ LocalsType' /\ ControlType' /\ talked' \in BOOLEAN
<1>0. taskChain # <<>> /\ pc # "idle" /\ proc # "down"
  BY DEF TypeOK, ControlType, InjectSteps
<1>1. CASE Continue("top") /\ UNCHANGED talked
  BY <1>0, <1>1, ContinueTyped DEF TypeOK, MemoryType, PCs
<1>2. CASE TaskEnds /\ UNCHANGED talked
  BY <1>0, <1>2, TaskEndsTyped DEF TypeOK, MemoryType
<1>3. CASE /\ Goto("top") /\ turn' = [turn EXCEPT !.started = TRUE] /\ talked' = TRUE
           /\ UNCHANGED <<calls, job, aborted>>
  <2>1. turn' \in Turns
    BY <1>3 DEF TypeOK, LocalsType, Turns
  <2> QED BY <1>0, <1>3, <2>1
          DEF TypeOK, SessionType, LocalsType, ControlType, Goto, session, PCs
<1> QED BY <1>1, <1>2, <1>3 DEF InjectReturns

\* The end of a compaction keeps the types.
LEMMA CompactionReturnsTyped ==
  ASSUME TypeOK, pc \in {"compacted", "failed"}, NEW shrunk \in BOOLEAN,
         CompactionReturns(shrunk)
  PROVE  SessionType' /\ LocalsType' /\ ControlType'
<1>0. taskChain # <<>>
  BY DEF TypeOK, ControlType
<1>1. CASE \E label \in {"chat", "readReason", "top"} : Continue(label)
  BY <1>0, <1>1, ContinueTyped DEF PCs, InjectSteps
<1>2. CASE TaskEnds
  BY <1>0, <1>2, TaskEndsTyped
<1>3. CASE /\ turn.tail < TailHalvings /\ Goto("top")
           /\ turn' = [turn EXCEPT !.tail = @ + 1] /\ UNCHANGED <<calls, job, aborted>>
  <2>1. turn' \in Turns
    BY <1>3, BoundsAssumption DEF TypeOK, LocalsType, Turns
  <2> QED BY <1>0, <1>3, <2>1
          DEF TypeOK, SessionType, LocalsType, ControlType, Goto, session, PCs
<1> QED BY <1>1, <1>2, <1>3 DEF CompactionReturns

\* The counters of a turn stay within their bounds.
LEMMA CountersTyped ==
  ASSUME TypeOK
  PROVE  /\ Said \in Turns
         /\ \A kind \in AllOutcomes : CountTry(kind) => turn' \in Turns
<1>1. Said \in Turns
  BY BoundsAssumption DEF TypeOK, LocalsType, Turns, Said
<1>2. ASSUME NEW kind \in AllOutcomes, CountTry(kind) PROVE turn' \in Turns
  BY <1>2 DEF TypeOK, LocalsType, Turns, CountTry
<1> QED BY <1>1, <1>2

\* A cancel records a checkpoint with the plan of the moment.
LEMMA BeginCancelTyped ==
  ASSUME TypeOK, NEW exits \in BOOLEAN, BeginCancel(exits)
  PROVE  MemoryType' /\ UiType'
<1>1. [reason |-> "manual", plan |-> plan, pending |-> FALSE] \in Checkpoints
  BY DEF Checkpoints, Reasons, TypeOK, MemoryType
<1>2. cancelling' \in Cancels
  BY <1>1 DEF BeginCancel, Cancels
<1> QED BY <1>2 DEF BeginCancel, TypeOK, MemoryType, UiType

\* Starting a task.
LEMMA StartTaskTyped == TypeOK /\ StartTask => TypeOK'
<1> SUFFICES ASSUME TypeOK, StartTask PROVE TypeOK'
  OBVIOUS
<1>1. CASE StartTurn
  BY <1>1, Frames, ContinueTyped, StartingValues
     DEF StartTurn, Ready, MemoryType, TypeOK, ControlType, PCs, InjectSteps
<1>2. CASE StartForceCompact
  BY <1>2, Frames, BeginCompactionTyped, BoundsAssumption
     DEF StartForceCompact, Ready, Reasons, LocalsType, TypeOK, ControlType
<1>3. CASE StartQuitSave
  BY <1>3, Frames, BeginCompactionTyped, TaskEndsTyped, BoundsAssumption
     DEF StartQuitSave, Ready, Reasons, LocalsType, TypeOK, ControlType
<1>4. CASE StartWarm
  BY <1>4, Frames, ContinueTyped DEF StartWarm, Ready, TypeOK, ControlType, PCs
<1>5. CASE TakeSnapshot
  BY <1>5, Frames, TaskEndsTyped DEF TakeSnapshot, Ready, TypeOK, ControlType
<1>6. CASE Exit
  BY <1>6, ProcessEndsTyped DEF Exit
<1> QED BY <1>1, <1>2, <1>3, <1>4, <1>5, <1>6 DEF StartTask

\* Resuming.
LEMMA InjectTyped == TypeOK /\ Inject => TypeOK'
<1> SUFFICES ASSUME TypeOK, Inject PROVE TypeOK'
  OBVIOUS
<1>1. CASE ReadReason
  BY <1>1, Frames, ContinueTyped, InjectReturnsTyped, TaskEndsTyped
     DEF ReadReason, ReadThrows, TypeOK, ControlType, MemoryType, PCs, InjectSteps, memory
<1>2. CASE ReadPrompt
  BY <1>2, Frames, ContinueTyped, InjectReturnsTyped, TaskEndsTyped
     DEF ReadPrompt, ReadThrows, TypeOK, ControlType, MemoryType, PCs, InjectSteps, memory
<1>3. CASE ReadPlan
  BY <1>3, Frames, ContinueTyped, TaskEndsTyped
     DEF ReadPlan, ReadThrows, TypeOK, ControlType, MemoryType, PCs, InjectSteps, memory,
         RestoredPlan, IsWhole, Checkpoints
<1>4. CASE Consume
  BY <1>4, Frames, InjectReturnsTyped, RemovedTyped
     DEF Consume, TypeOK, MemoryType, InjectSteps
<1> QED BY <1>1, <1>2, <1>3, <1>4 DEF Inject

\* Compacting.
LEMMA CompactionTyped == TypeOK /\ Compaction => TypeOK'
<1> SUFFICES ASSUME TypeOK, Compaction PROVE TypeOK'
  OBVIOUS
<1>1. CASE OpenFirst
  BY <1>1, Frames, ContinueTyped, FileTyped
     DEF OpenFirst, LocalsType, Jobs, TypeOK, ControlType, PCs, CompactSteps
<1>2. CASE WriteFirst
  BY <1>2, Frames, ContinueTyped, FileTyped
     DEF WriteFirst, LocalsType, Jobs, TypeOK, ControlType, PCs, CompactSteps
<1>3. CASE SummaryAnswered
  BY <1>3, Frames, ContinueTyped DEF SummaryAnswered, TypeOK, ControlType, PCs, CompactSteps
<1>4. CASE SummaryRetried
  <2>1. job' \in Jobs
    BY <1>4, BoundsAssumption DEF SummaryRetried, TypeOK, LocalsType, Jobs
  <2> QED
    BY <1>4, <2>1, Frames
       DEF SummaryRetried, TypeOK, SessionType, LocalsType, ControlType, PCs, CompactSteps,
           Goto, session
<1>5. CASE SummaryFails
  BY <1>5, Frames, BoundsAssumption
     DEF SummaryFails, LocalsType, SessionType, Goto, session, TypeOK, ControlType, PCs,
         CompactSteps
<1>6. CASE OpenFinal
  BY <1>6, Frames, ContinueTyped, FileTyped
     DEF OpenFinal, LocalsType, Jobs, TypeOK, ControlType, PCs, CompactSteps
<1>7. CASE WriteFinal
  BY <1>7, Frames, ContinueTyped, FileTyped
     DEF WriteFinal, LocalsType, Jobs, TypeOK, ControlType, PCs, CompactSteps
<1>8. CASE Compacted
  <2>1. progress' \in Guards
    BY <1>8, BoundsAssumption DEF Compacted, TypeOK, MemoryType, Guards
  <2> QED
    BY <1>8, <2>1, Frames, CompactionReturnsTyped DEF Compacted, TypeOK, MemoryType
<1>9. CASE CompactionFailed
  BY <1>9, Frames, CompactionReturnsTyped DEF CompactionFailed, TypeOK
<1> QED BY <1>1, <1>2, <1>3, <1>4, <1>5, <1>6, <1>7, <1>8, <1>9 DEF Compaction

\* A chat request answered or failed.
LEMMA ChatTyped == TypeOK /\ Chat => TypeOK'
<1> SUFFICES ASSUME TypeOK, Chat PROVE TypeOK'
  OBVIOUS
<1>1. CASE ChatText
  BY <1>1, Frames, CountersTyped, TaskEndsTyped
     DEF ChatText, TypeOK, LocalsType, SessionType, ControlType, PCs, Goto, session
<1>2. CASE ChatCalls
  BY <1>2, Frames, CountersTyped, TaskEndsTyped, BoundsAssumption
     DEF ChatCalls, TypeOK, LocalsType, SessionType, ControlType, PCs, Goto, session
<1>3. CASE ChatCancelled
  BY <1>3, Frames, TaskEndsTyped
     DEF ChatCancelled, CancelsTurn, MemoryType, TypeOK, ControlType
<1>4. CASE ChatOverflow
  BY <1>4, Frames, CountersTyped, BeginCompactionTyped
     DEF ChatOverflow, TypeOK, LocalsType, ControlType, Reasons, AllOutcomes
<1>5. CASE ChatTruncated
  BY <1>5, Frames, CountersTyped
     DEF ChatTruncated, TypeOK, LocalsType, SessionType, ControlType, PCs, Goto, session,
         AllOutcomes
<1>6. ASSUME NEW kind \in {"timeout", "utf8"}, ChatTransient(kind) PROVE TypeOK'
  BY <1>6, Frames, CountersTyped
     DEF ChatTransient, TypeOK, LocalsType, SessionType, ControlType, PCs, Goto, session,
         AllOutcomes
<1>7. CASE ChatError
  BY <1>7, Frames, TaskEndsTyped DEF ChatError, TypeOK, ControlType
<1> QED BY <1>1, <1>2, <1>3, <1>4, <1>5, <1>6, <1>7 DEF Chat

\* The rest of a turn, and a warm compaction's measurement.
LEMMA TurnTyped ==
  ASSUME TypeOK, WarmMeasured \/ Top \/ Measured \/ Salvaged \/ EndTurn \/ EndClear
  PROVE  TypeOK'
<1>1. CASE WarmMeasured
  BY <1>1, Frames, BeginCompactionTyped, TaskEndsTyped, BoundsAssumption
     DEF WarmMeasured, Reasons, LocalsType, TypeOK, ControlType
<1>2. CASE Top
  <2>0. progress' = progress \/ progress' = [stalls |-> 0, nudged |-> TRUE]
    BY Zenon, <1>2 DEF Top
  <2>1. MemoryType'
    <3>1. progress' \in Guards
      BY <2>0, StartingValues DEF TypeOK, MemoryType
    <3>2. queuedMessages' = 0 /\ UNCHANGED <<plan, talked, cancelRequested>>
      BY <1>2, SMT DEF Top
    <3> QED
      BY <3>1, <3>2, BoundsAssumption DEF TypeOK, MemoryType
  <2> QED
    BY <1>2, <2>1, Frames, ContinueTyped, TaskEndsTyped DEF Top, TypeOK, ControlType, PCs
<1>3. CASE Measured
  BY <1>3, Frames, ContinueTyped, BeginCompactionTyped, BoundsAssumption
     DEF Measured, Reasons, LocalsType, TypeOK, ControlType, PCs
<1>4. CASE Salvaged
  BY <1>4, Frames, ContinueTyped DEF Salvaged, TypeOK, ControlType, PCs
<1>5. CASE EndTurn
  BY <1>5, Frames, ContinueTyped, TaskEndsTyped
     DEF EndTurn, MemoryType, Plans, TypeOK, ControlType, PCs
<1>6. CASE EndClear
  BY <1>6, Frames, TaskEndsTyped, RemovedTyped DEF EndClear, TypeOK, ControlType
<1> QED BY <1>1, <1>2, <1>3, <1>4, <1>5, <1>6

\* The calls of one message.
LEMMA ToolCallsTyped == TypeOK /\ ToolCalls => TypeOK'
<1> SUFFICES ASSUME TypeOK, ToolCalls PROVE TypeOK'
  OBVIOUS
<1>1. CASE Call
  BY <1>1, Frames, ContinueTyped, TaskEndsTyped
     DEF Call, CancelsTurn, MemoryType, TypeOK, ControlType, PCs
<1>2. CASE Fit
  <2>1. 0 \in 0..MaxCalls /\ taskChain # <<>>
    BY <1>2, BoundsAssumption DEF Fit, TypeOK, ControlType
  <2>2. SessionType' /\ LocalsType' /\ ControlType'
    BY <1>2, <2>1, ContinueTyped, NextCallTyped, BeginCompactionTyped
       DEF Fit, TypeOK, LocalsType, ControlType, PCs, Reasons
  <2> QED
    BY <1>2, <2>2, Frames DEF Fit, TypeOK
<1>3. CASE UpdatePlan
  <2> PICK steps \in Plans :
        /\ plan' = steps
        /\ job' = [NoJob EXCEPT !.ck = [reason |-> "plan-progress", plan |-> steps,
                                        pending |-> FALSE]]
    BY <1>3, OpsAssumption DEF UpdatePlan
  <2>1. job' \in Jobs
    BY StartingValues DEF Jobs, Checkpoints, Reasons
  <2>2. progress' \in Guards
    BY <1>3, StartingValues DEF UpdatePlan, TypeOK, MemoryType
  <2> QED
    BY <1>3, <2>1, <2>2, Frames
       DEF UpdatePlan, TypeOK, LocalsType, SessionType, MemoryType, ControlType, PCs, Goto,
           session
<1>4. CASE PlanOpen
  BY <1>4, Frames, ContinueTyped, FileTyped, NextCallTyped
     DEF PlanOpen, LocalsType, Jobs, TypeOK, ControlType, PCs
<1>5. CASE PlanWrite
  BY <1>5, Frames, FileTyped, NextCallTyped, BoundsAssumption
     DEF PlanWrite, LocalsType, Jobs, TypeOK, ControlType
<1>6. CASE Gate
  BY <1>6, Frames, ContinueTyped, NextCallTyped DEF Gate, TypeOK, ControlType, PCs
<1>7. CASE ToolDone
  BY <1>7, Frames, NextCallTyped, StartingValues
     DEF ToolDone, MemoryType, TypeOK, ControlType
<1> QED BY <1>1, <1>2, <1>3, <1>4, <1>5, <1>6, <1>7 DEF ToolCalls

\* The steps of a cancel and of /plan-clear beside the running task.
LEMMA CallbacksTyped == TypeOK /\ (CancelSteps \/ ClearSteps) => TypeOK'
<1> SUFFICES ASSUME TypeOK, CancelSteps \/ ClearSteps PROVE TypeOK'
  OBVIOUS
<1>1. CASE CancelOpen
  BY <1>1, Frames, FileTyped DEF CancelOpen, UiType, Cancels, TypeOK
<1>2. CASE CancelWrite
  BY <1>2, Frames, FileTyped DEF CancelWrite, UiType, Cancels, TypeOK
<1>3. CASE CancelAbort
  <2>1. taskChain' \in Seq(Tasks)
    BY <1>3 DEF CancelAbort, TypeOK, SessionType, Tasks
  <2>2. cancelling' \in Cancels
    BY <1>3, StartingValues DEF CancelAbort
  <2>3. aborted' \in BOOLEAN
    BY <1>3 DEF CancelAbort, TypeOK, LocalsType
  <2>4. ControlType'
    BY <1>3 DEF CancelAbort, TypeOK, ControlType, SessionType, locals
  <2> QED
    BY <1>3, <2>1, <2>2, <2>3, <2>4, Frames
       DEF CancelAbort, TypeOK, SessionType, LocalsType, UiType
<1>4. CASE ClearPlanMemory
  BY <1>4, Frames DEF ClearPlanMemory, UiType, MemoryType, Plans, TypeOK
<1>5. CASE ClearPlanFile
  BY <1>5, Frames, RemovedTyped DEF ClearPlanFile, UiType, TypeOK
<1> QED BY <1>1, <1>2, <1>3, <1>4, <1>5 DEF CancelSteps, ClearSteps

\* What the user does.
LEMMA UserTyped == TypeOK /\ User => TypeOK'
<1> SUFFICES ASSUME TypeOK, User PROVE TypeOK'
  OBVIOUS
<1>1. CASE Submit
  BY <1>1, Frames DEF Submit, SessionType, Enqueue, Tasks, TypeOK, ControlType, locals
<1>2. CASE QueueMessage
  BY <1>2, Frames, BoundsAssumption
     DEF QueueMessage, MemoryType, UserMay, TypeOK
<1>3. CASE ForceCompact
  BY <1>3, Frames DEF ForceCompact, SessionType, Enqueue, Tasks, TypeOK, ControlType, locals
<1>4. CASE Cancel
  BY <1>4, Frames, BeginCancelTyped DEF Cancel, TypeOK, ControlType, session, locals
<1>5. CASE ClearPlan
  BY <1>5, Frames DEF ClearPlan, UiType, TypeOK
<1>6. CASE Quit
  <2>0. taskChain' = taskChain \/ taskChain' = Append(taskChain, "quit")
    BY Zenon, <1>6 DEF Quit
  <2>1. taskChain' \in Seq(Tasks)
    BY <2>0 DEF TypeOK, SessionType, Tasks
  <2>2. MemoryType' /\ UiType'
    BY <1>6, Frames, BeginCancelTyped DEF Quit, TypeOK
  <2>3. ControlType'
    BY <1>6, <2>0 DEF Quit, TypeOK, ControlType, SessionType, locals
  <2> QED
    BY <1>6, <2>1, <2>2, <2>3, Frames DEF Quit, TypeOK, SessionType
<1>7. CASE BeginCommand
  BY <1>7, Frames, BoundsAssumption
     DEF BeginCommand, SessionType, TypeOK, ControlType, locals
<1> QED BY <1>1, <1>2, <1>3, <1>4, <1>5, <1>6, <1>7 DEF User

\* A command that is over, dying and starting again.
LEMMA ProcessTyped == TypeOK /\ (EndCommand \/ QuitNow \/ Crash \/ Restart) => TypeOK'
<1> SUFFICES ASSUME TypeOK, EndCommand \/ QuitNow \/ Crash \/ Restart PROVE TypeOK'
  OBVIOUS
<1>1. CASE QuitNow
  BY <1>1, ProcessEndsTyped DEF QuitNow
<1>2. CASE Crash
  BY <1>2, ProcessEndsTyped DEF Crash
<1>3. CASE Restart
  <2>1. SessionType'
    BY <1>3, FollowUpsAreTasks DEF Restart, TypeOK, SessionType
  <2>2. MemoryType'
    BY <1>3 DEF Restart, TypeOK, MemoryType
  <2>3. DiskType'
    BY <1>3 DEF Restart, TypeOK, DiskType, Files
  <2>4. ControlType'
    BY <1>3 DEF Restart, TypeOK, ControlType, locals
  <2> QED
    BY <1>3, <2>1, <2>2, <2>3, <2>4, Frames DEF Restart, TypeOK
<1>4. CASE EndCommand
  <2>1. freed' \in BOOLEAN /\ busy' \in BOOLEAN
    BY Zenon, <1>4 DEF EndCommand, HasTurn
  <2>2. commands' \in 0..MaxCommands
    BY <1>4, BoundsAssumption DEF EndCommand, TypeOK, SessionType
  <2> QED
    BY <1>4, <2>1, <2>2, Frames DEF EndCommand, TypeOK, SessionType, ControlType, locals
<1> QED BY <1>1, <1>2, <1>3, <1>4

\* Every step keeps the types.
LEMMA TypeStep == TypeOK /\ [Next]_vars => TypeOK'
<1> SUFFICES ASSUME TypeOK, [Next]_vars PROVE TypeOK'
  OBVIOUS
<1>1. CASE Next
  BY <1>1, StartTaskTyped, InjectTyped, CompactionTyped, ChatTyped, TurnTyped, ToolCallsTyped,
     CallbacksTyped, UserTyped, ProcessTyped DEF Next, Loop
<1>2. CASE UNCHANGED vars
  BY <1>2, Frames DEF TypeOK, ControlType, vars, session, locals
<1> QED BY <1>1, <1>2

\* The first state is typed.
LEMMA TypeInit == Init => TypeOK
<1> SUFFICES ASSUME Init PROVE TypeOK
  OBVIOUS
<1>1. SessionType /\ ControlType
  <2>1. busy \in BOOLEAN /\ freed \in BOOLEAN
    BY DEF Init
  <2>2. commands \in 0..MaxCommands
    BY BoundsAssumption DEF Init
  <2> QED BY <2>1, <2>2, FollowUpsAreTasks DEF Init, SessionType, ControlType
<1>2. turn \in Turns /\ job \in Jobs /\ progress \in Guards /\ cancelling \in Cancels
  BY StartingValues DEF Init
<1>3. aborted \in BOOLEAN /\ talked \in BOOLEAN /\ cancelRequested \in BOOLEAN
  BY DEF Init
<1>4. LocalsType /\ MemoryType /\ UiType /\ DiskType
  BY <1>2, <1>3, BoundsAssumption
     DEF Init, LocalsType, MemoryType, UiType, DiskType, PCs, Plans, Files
<1> QED BY <1>1, <1>4 DEF TypeOK

\* Every variable keeps its type, whatever the user does and however requests and writes
\* fail: in particular no retry counter, no halving of the kept tail and no queue passes its
\* bound, and a step of a task or of a tool call only happens inside one.
THEOREM TypeCorrect == Spec => []TypeOK
BY TypeInit, TypeStep, PTL DEF Spec

-----------------------------------------------------------------------------
(* The calm configurations: no cancel, no /plan-clear, no quit and no      *)
(* failing write.  CalmInv is inductive, and the four safety properties    *)
(* follow from it.                                                         *)

LEMMA CalmFacts == Calm => ~DiskFails /\ UserOps \cap {"clearPlan", "cancel", "quit"} = {}
BY DEF Calm

\* A file is whole, torn or absent, and only one of them.
LEMMA FileFacts == Absent \notin Checkpoints /\ Torn \notin Checkpoints /\ Absent # Torn
BY FilesAssumption

\* Only a new process resumes: no caller adds a resume to the chain.
LEMMA NothingToResume ==
  ASSUME TypeOK, ProcessState, taskChain # <<>>, TaskEnds
  PROVE  ProcessState' /\ ~Resuming'
<1>1. \A i \in 1..Len(taskChain') : taskChain'[i] # "resume"
  <2>1. \A i \in 1..Len(FollowUps(Task)) : FollowUps(Task)[i] # "resume"
    BY DEF FollowUps
  <2>2. \A i \in 1..Len(Tail(taskChain)) : Tail(taskChain)[i] # "resume"
    BY DEF ProcessState, TypeOK, SessionType
  <2>3. FollowUps(Task) \in Seq(Tasks) /\ Tail(taskChain) \in Seq(Tasks)
    BY FollowUpsAreTasks DEF TypeOK, SessionType, Task
  <2> QED BY <2>1, <2>2, <2>3 DEF TaskEnds
<1>2. taskChain' \in Seq(Tasks)
  BY TaskEndsTyped DEF SessionType
<1>3. proc' # "down"
  BY DEF TaskEnds, ProcessState, TypeOK
<1> QED BY <1>1, <1>2, <1>3 DEF ProcessState, Resuming, Task, TaskEnds, NewTurn, InjectSteps

\* A task may end wherever the checkpoint on disk has the plan in memory.
LEMMA TaskEndsCalm ==
  ASSUME TypeOK, CalmInv, pc \notin WriteSteps, taskChain # <<>>,
         proc = "up" /\ IsWhole(checkpoint) => checkpoint.plan = plan,
         TaskEnds, UNCHANGED <<plan, ui, disk>>, ~cancelRequested'
  PROVE  CalmInv'
<1>1. ProcessState' /\ ~Resuming'
  BY NothingToResume DEF CalmInv
<1> QED BY <1>1 DEF TaskEnds, CalmInv, OnlyTheChain, TornOnlyInWrites, JobIsSaved, PlanOnDisk,
                    AbandonedCallIsCheckpointed, WriteSteps, CompactSteps, ui, disk, IsWhole

\* The end of the process keeps CalmInv.
LEMMA ProcessEndsCalm == ASSUME CalmInv, ProcessEnds PROVE CalmInv'
BY DEF ProcessEnds, CalmInv, OnlyTheChain, ProcessState, TornOnlyInWrites, JobIsSaved, PlanOnDisk,
       AbandonedCallIsCheckpointed, WriteSteps, CompactSteps, InjectSteps, Resuming, NewTurn

\* A compaction over finds its own checkpoint on disk, so its caller may go on or stop.
LEMMA CompactionReturnsCalm ==
  ASSUME TypeOK, CalmInv, pc \in {"compacted", "failed"}, NEW shrunk \in BOOLEAN,
         CompactionReturns(shrunk), UNCHANGED <<plan, cancelRequested, ui, disk>>
  PROVE  CalmInv'
<1> USE DEF CalmInv, OnlyTheChain, ProcessState, TornOnlyInWrites, JobIsSaved, PlanOnDisk,
            AbandonedCallIsCheckpointed, WriteSteps, CompactSteps, InjectSteps, ui, disk,
            IsWhole, TypeOK, ControlType, Resuming, Task
<1>1. /\ IsWhole(checkpoint) /\ checkpoint.plan = plan
      /\ job.after = "batch" => checkpoint.pending
  BY DEF LocalsType, Jobs
<1>2. CASE Continue("chat") \/ Continue("top")
  BY <1>2 DEF Continue, Goto, session
<1>3. CASE job.after = "batch" /\ Continue("readReason")
  BY <1>1, <1>3 DEF Continue, Goto, session
<1>4. CASE TaskEnds
  BY <1>1, <1>4, TaskEndsCalm
<1>5. CASE Goto("top") /\ turn' = [turn EXCEPT !.tail = @ + 1]
  <2>1. turn'.started = turn.started
    BY <1>5 DEF LocalsType, Turns
  <2> QED BY <2>1, <1>5 DEF Goto, session
<1> QED BY <1>2, <1>3, <1>4, <1>5 DEF CompactionReturns

\* Counting does not start a turn.
LEMMA CountersCalm ==
  ASSUME TypeOK
  PROVE  /\ Said.started = turn.started
         /\ \A kind \in AllOutcomes : CountTry(kind) => turn'.started = turn.started
BY DEF TypeOK, LocalsType, Turns, Said, CountTry

\* Starting a task.
LEMMA StartTaskCalm ==
  ASSUME Calm, TypeOK, CalmInv, StartTask
  PROVE  CalmInv'
<1> USE CalmFacts, FileFacts
    DEF CalmInv, OnlyTheChain, ProcessState, TornOnlyInWrites, JobIsSaved, PlanOnDisk,
        AbandonedCallIsCheckpointed, Resuming, Task, IsWhole, WriteSteps, CompactSteps,
        InjectSteps, TypeOK, ControlType, session, locals, memory, ui, disk
<1>1. CASE StartTurn
  BY <1>1 DEF StartTurn, Ready, Continue, Goto
<1>2. CASE StartForceCompact
  BY <1>2 DEF StartForceCompact, Ready, BeginCompaction, Goto
<1>3. CASE StartQuitSave
  BY <1>3, TaskEndsCalm DEF StartQuitSave, Ready, BeginCompaction, Goto
<1>4. CASE StartWarm
  BY <1>4 DEF StartWarm, Ready, Continue, Goto
<1>5. CASE TakeSnapshot
  BY <1>5, TaskEndsCalm DEF TakeSnapshot, Ready
<1>6. CASE Exit
  BY <1>6, ProcessEndsCalm DEF Exit
<1> QED BY <1>1, <1>2, <1>3, <1>4, <1>5, <1>6 DEF StartTask

\* Resuming: the plan on disk and the plan in memory meet again.
LEMMA InjectCalm ==
  ASSUME Calm, TypeOK, CalmInv, Inject
  PROVE  CalmInv'
<1> USE CalmFacts, FileFacts
    DEF CalmInv, OnlyTheChain, ProcessState, TornOnlyInWrites, JobIsSaved, PlanOnDisk,
        AbandonedCallIsCheckpointed, Resuming, Task, IsWhole, WriteSteps, CompactSteps,
        InjectSteps, TypeOK, ControlType, session, locals, memory, ui, disk
<1>1. CASE ReadReason
  BY <1>1, TaskEndsCalm
     DEF ReadReason, ReadThrows, OwnPlanOnDisk, InjectReturns, Continue, Goto, TaskEnds,
         NewTurn, SessionType, DiskType, Files, LocalsType
<1>2. CASE ReadPrompt
  BY <1>2, TaskEndsCalm
     DEF ReadPrompt, ReadThrows, InjectReturns, Continue, Goto, TaskEnds, NewTurn,
         SessionType, DiskType, Files, LocalsType, Turns
<1>3. CASE ReadPlan
  BY <1>3, TaskEndsCalm
     DEF ReadPlan, ReadThrows, RestoredPlan, Continue, Goto, TaskEnds, DiskType, Files
<1>4. CASE Consume
  BY <1>4
     DEF Consume, InjectReturns, RemovesFile, Continue, Goto, TaskEnds, LocalsType, Turns
<1> QED BY <1>1, <1>2, <1>3, <1>4 DEF Inject

\* Compacting.
LEMMA CompactionCalm ==
  ASSUME Calm, TypeOK, CalmInv, Compaction
  PROVE  CalmInv'
<1> USE CalmFacts, FileFacts
    DEF CalmInv, OnlyTheChain, ProcessState, TornOnlyInWrites, JobIsSaved, PlanOnDisk,
        AbandonedCallIsCheckpointed, Resuming, Task, IsWhole, WriteSteps, CompactSteps,
        InjectSteps, TypeOK, ControlType, session, locals, memory, ui, disk
<1>1. CASE OpenFirst
  BY <1>1 DEF OpenFirst, Continue, Goto, OpensFile
<1>2. CASE WriteFirst
  BY <1>2 DEF WriteFirst, Continue, Goto, WritesFile, Written, WriteFails, LocalsType, Jobs
<1>3. CASE SummaryAnswered
  BY <1>3 DEF SummaryAnswered, Continue, Goto
<1>4. CASE SummaryRetried
  BY <1>4 DEF SummaryRetried, Goto, LocalsType, Jobs
<1>5. CASE SummaryFails
  BY <1>5 DEF SummaryFails, Goto
<1>6. CASE OpenFinal
  BY <1>6 DEF OpenFinal, Continue, Goto, OpensFile
<1>7. CASE WriteFinal
  BY <1>7 DEF WriteFinal, Continue, Goto, WritesFile, Written, WriteFails, LocalsType, Jobs
<1>8. CASE Compacted
  BY <1>8, CompactionReturnsCalm DEF Compacted
<1>9. CASE CompactionFailed
  BY <1>9, CompactionReturnsCalm DEF CompactionFailed
<1> QED BY <1>1, <1>2, <1>3, <1>4, <1>5, <1>6, <1>7, <1>8, <1>9 DEF Compaction

\* A chat request answered or failed.
LEMMA ChatCalm ==
  ASSUME Calm, TypeOK, CalmInv, Chat
  PROVE  CalmInv'
<1> USE CalmFacts, FileFacts
    DEF CalmInv, OnlyTheChain, ProcessState, TornOnlyInWrites, JobIsSaved, PlanOnDisk,
        AbandonedCallIsCheckpointed, Resuming, Task, IsWhole, WriteSteps, CompactSteps,
        InjectSteps, TypeOK, ControlType, session, locals, memory, ui, disk
<1>1. CASE ChatText
  BY <1>1, TaskEndsCalm, CountersCalm DEF ChatText, Goto
<1>2. CASE ChatCalls
  BY <1>2, TaskEndsCalm, CountersCalm DEF ChatCalls, Goto
<1>3. CASE ChatCancelled
  BY <1>3 DEF ChatCancelled, CancelsTurn
<1>4. CASE ChatOverflow
  BY <1>4, CountersCalm DEF ChatOverflow, BeginCompaction, Goto, AllOutcomes
<1>5. CASE ChatTruncated
  BY <1>5, CountersCalm DEF ChatTruncated, Goto, AllOutcomes
<1>6. ASSUME NEW kind \in {"timeout", "utf8"}, ChatTransient(kind) PROVE CalmInv'
  BY <1>6, CountersCalm DEF ChatTransient, Goto, AllOutcomes
<1>7. CASE ChatError
  BY <1>7, TaskEndsCalm DEF ChatError
<1> QED BY <1>1, <1>2, <1>3, <1>4, <1>5, <1>6, <1>7 DEF Chat

\* The rest of a turn, and a warm compaction's measurement.
LEMMA TurnCalm ==
  ASSUME Calm, TypeOK, CalmInv, WarmMeasured \/ Top \/ Measured \/ Salvaged \/ EndTurn \/ EndClear
  PROVE  CalmInv'
<1> USE CalmFacts, FileFacts
    DEF CalmInv, OnlyTheChain, ProcessState, TornOnlyInWrites, JobIsSaved, PlanOnDisk,
        AbandonedCallIsCheckpointed, Resuming, Task, IsWhole, WriteSteps, CompactSteps,
        InjectSteps, TypeOK, ControlType, session, locals, memory, ui, disk
<1>1. CASE WarmMeasured
  BY <1>1, TaskEndsCalm DEF WarmMeasured, BeginCompaction, Goto
<1>2. CASE Top
  BY <1>2, TaskEndsCalm DEF Top, Continue, Goto
<1>3. CASE Measured
  BY <1>3 DEF Measured, BeginCompaction, Continue, Goto
<1>4. CASE Salvaged
  BY <1>4 DEF Salvaged, Continue, Goto
<1>5. CASE EndTurn
  BY <1>5, TaskEndsCalm DEF EndTurn, Continue, Goto, SessionType
<1>6. CASE EndClear
  <2>1. ProcessState' /\ ~Resuming'
    BY <1>6, NothingToResume DEF EndClear
  <2> QED BY <1>6, <2>1 DEF EndClear, RemovesFile, TaskEnds
<1> QED BY <1>1, <1>2, <1>3, <1>4, <1>5, <1>6

\* The calls of one message.
LEMMA ToolCallsCalm ==
  ASSUME Calm, TypeOK, CalmInv, ToolCalls
  PROVE  CalmInv'
<1> USE CalmFacts, FileFacts
    DEF CalmInv, OnlyTheChain, ProcessState, TornOnlyInWrites, JobIsSaved, PlanOnDisk,
        AbandonedCallIsCheckpointed, Resuming, Task, IsWhole, WriteSteps, CompactSteps,
        InjectSteps, TypeOK, ControlType, session, locals, memory, ui, disk
<1>1. CASE Call
  BY <1>1, TaskEndsCalm DEF Call, CancelsTurn, Continue, Goto
<1>2. CASE Fit
  BY <1>2 DEF Fit, BeginCompaction, Continue, NextCall, Goto
<1>3. CASE UpdatePlan
  BY <1>3 DEF UpdatePlan, NoJob, Goto
<1>4. CASE PlanOpen
  BY <1>4 DEF PlanOpen, OpensFile, Continue, NextCall, Goto
<1>5. CASE PlanWrite
  BY <1>5 DEF PlanWrite, WritesFile, Written, WriteFails, NextCall, Goto, LocalsType, Jobs
<1>6. CASE Gate
  BY <1>6 DEF Gate, Continue, NextCall, Goto
<1>7. CASE ToolDone
  BY <1>7 DEF ToolDone, NextCall, Goto
<1> QED BY <1>1, <1>2, <1>3, <1>4, <1>5, <1>6, <1>7 DEF ToolCalls

\* What the user does: a Calm one does not cancel, clear or quit.
LEMMA UserCalm ==
  ASSUME Calm, TypeOK, CalmInv, User
  PROVE  CalmInv'
<1> USE CalmFacts, FileFacts
    DEF CalmInv, OnlyTheChain, ProcessState, TornOnlyInWrites, JobIsSaved, PlanOnDisk,
        AbandonedCallIsCheckpointed, Resuming, Task, IsWhole, WriteSteps, CompactSteps,
        InjectSteps, TypeOK, ControlType, session, locals, memory, ui, disk
<1>1. CASE Submit
  BY <1>1 DEF Submit, UserMay, Enqueue, SessionType
<1>2. CASE QueueMessage
  BY <1>2 DEF QueueMessage
<1>3. CASE ForceCompact
  BY <1>3 DEF ForceCompact, UserMay, Enqueue, SessionType
<1>4. CASE Cancel
  BY <1>4 DEF Cancel, UserMay
<1>5. CASE ClearPlan
  BY <1>5 DEF ClearPlan, UserMay
<1>6. CASE Quit
  BY <1>6 DEF Quit, UserMay
<1>7. CASE BeginCommand
  BY <1>7 DEF BeginCommand
<1> QED BY <1>1, <1>2, <1>3, <1>4, <1>5, <1>6, <1>7 DEF User

\* Steps outside the chain: in a Calm configuration only a crash and a restart.
LEMMA OutsideCalm ==
  ASSUME Calm, TypeOK, CalmInv,
         CancelSteps \/ ClearSteps \/ EndCommand \/ QuitNow \/ Crash \/ Restart
  PROVE  CalmInv'
<1> USE CalmFacts, FileFacts
    DEF CalmInv, OnlyTheChain, ProcessState, TornOnlyInWrites, JobIsSaved, PlanOnDisk,
        AbandonedCallIsCheckpointed, Resuming, Task, IsWhole, WriteSteps, CompactSteps,
        InjectSteps, TypeOK, ControlType, session, locals, memory, ui, disk
<1>1. CASE CancelSteps
  BY <1>1 DEF CancelSteps, CancelOpen, CancelWrite, CancelAbort, NoCancel
<1>2. CASE ClearSteps
  BY <1>2 DEF ClearSteps, ClearPlanMemory, ClearPlanFile
<1>3. CASE QuitNow
  BY <1>3 DEF QuitNow
<1>4. CASE Crash
  BY <1>4, ProcessEndsCalm DEF Crash
<1>5. CASE Restart
  BY <1>5 DEF Restart, SessionType, NewTurn
<1>6. CASE EndCommand
  BY <1>6 DEF EndCommand
<1> QED BY <1>1, <1>2, <1>3, <1>4, <1>5, <1>6

\* Every step keeps CalmInv.
LEMMA CalmStep == ASSUME Calm, TypeOK, CalmInv, [Next]_vars PROVE CalmInv'
<1>1. CASE Next
  BY <1>1, StartTaskCalm, InjectCalm, CompactionCalm, ChatCalm, TurnCalm, ToolCallsCalm,
     UserCalm, OutsideCalm DEF Next, Loop
<1>2. CASE UNCHANGED vars
  BY <1>2 DEF vars, session, locals, memory, ui, disk, CalmInv, OnlyTheChain, ProcessState,
              TornOnlyInWrites, JobIsSaved, PlanOnDisk, AbandonedCallIsCheckpointed, Resuming,
              Task, IsWhole
<1> QED BY <1>1, <1>2

\* CalmInv holds at first.
LEMMA CalmInit == Init => CalmInv
BY FileFacts DEF Init, CalmInv, OnlyTheChain, ProcessState, TornOnlyInWrites, JobIsSaved,
   PlanOnDisk, AbandonedCallIsCheckpointed, Resuming, IsWhole, WriteSteps, CompactSteps, NewTurn

\* CalmInv is an invariant of every calm configuration: between its own writes the loop keeps
\* the plan on disk and the plan in memory equal, through compactions, resumes and crashes.
THEOREM CalmCorrect == Calm => (Spec => []CalmInv)
<1> SUFFICES ASSUME Calm PROVE Spec => []CalmInv
  OBVIOUS
<1>1. Init => CalmInv
  BY CalmInit
<1>2. TypeOK /\ CalmInv /\ [Next]_vars => CalmInv'
  BY CalmStep
<1> QED BY <1>1, <1>2, TypeCorrect, PTL DEF Spec

\* TornOnlyWhileWriting: a live process leaves a checkpoint that cannot be parsed only while
\* a write of it is under way.
THEOREM TornOnlyWhileWritingCorrect == Calm => (Spec => []TornOnlyWhileWriting)
<1> SUFFICES ASSUME Calm PROVE Spec => []TornOnlyWhileWriting
  OBVIOUS
<1>1. CalmInv => TornOnlyWhileWriting
  BY DEF CalmInv, TornOnlyInWrites, TornOnlyWhileWriting
<1> QED BY <1>1, CalmCorrect, PTL

\* AbandonedCallIsCheckpointed: a tool call that a compaction abandons is in the checkpoint
\* the turn resumes from.
THEOREM AbandonedCallCorrect == Calm => (Spec => []AbandonedCallIsCheckpointed)
<1> SUFFICES ASSUME Calm PROVE Spec => []AbandonedCallIsCheckpointed
  OBVIOUS
<1>1. CalmInv => AbandonedCallIsCheckpointed
  BY DEF CalmInv
<1> QED BY <1>1, CalmCorrect, PTL

\* FailedCompactionIsSaved: when a compaction reports that the checkpoint was saved, it was.
THEOREM FailedCompactionCorrect == Calm => (Spec => []FailedCompactionIsSaved)
<1> SUFFICES ASSUME Calm PROVE Spec => []FailedCompactionIsSaved
  OBVIOUS
<1>1. TypeOK /\ CalmInv => FailedCompactionIsSaved
  BY DEF TypeOK, LocalsType, Jobs, CalmInv, JobIsSaved, FailedCompactionIsSaved, IsWhole
<1> QED BY <1>1, CalmCorrect, TypeCorrect, PTL

\* Only the end of a resume and the clean end of a turn remove a checkpoint.
LEMMA Removers ==
  ASSUME Calm, TypeOK, CalmInv, Next, proc = "up", IsWhole(checkpoint), checkpoint' = Absent
  PROVE  Consume \/ EndClear
<1> USE CalmFacts, FileFacts DEF disk, IsWhole
<1>1. ~StartTask /\ ~User
  BY DEF StartTask, StartTurn, StartForceCompact, StartQuitSave, StartWarm, TakeSnapshot, Exit,
         ProcessEnds, User, Submit, QueueMessage, ForceCompact, BeginCommand, Cancel,
         ClearPlan, Quit
<1>2. ~(ReadReason \/ ReadPrompt \/ ReadPlan)
  BY DEF ReadReason, ReadPrompt, ReadPlan
<1>3. ~Compaction
  BY DEF Compaction, OpenFirst, WriteFirst, SummaryAnswered, SummaryRetried, SummaryFails,
         OpenFinal, WriteFinal, Compacted, CompactionFailed, OpensFile, WritesFile, Written,
         WriteFails, TypeOK, LocalsType, Jobs
<1>4. ~(WarmMeasured \/ Top \/ Measured \/ Chat \/ Salvaged \/ EndTurn)
  BY DEF WarmMeasured, Top, Measured, Chat, ChatText, ChatCalls, ChatCancelled, ChatOverflow,
         ChatTruncated, ChatTransient, ChatError, Salvaged, EndTurn
<1>5. ~ToolCalls
  BY DEF ToolCalls, Call, Fit, UpdatePlan, PlanOpen, PlanWrite, Gate, ToolDone, OpensFile,
         WritesFile, Written, WriteFails, TypeOK, LocalsType, Jobs
<1>6. ~(CancelSteps \/ ClearSteps \/ EndCommand \/ QuitNow \/ Crash \/ Restart)
  BY DEF CancelSteps, CancelOpen, CancelWrite, CancelAbort, ClearSteps, ClearPlanMemory,
         ClearPlanFile, EndCommand, QuitNow, Crash, ProcessEnds, Restart, CalmInv, OnlyTheChain, NoCancel
<1> QED BY <1>1, <1>2, <1>3, <1>4, <1>5, <1>6 DEF Next, Loop, Inject

\* NoOpenPlanForgotten: a running process removes a checkpoint with an open plan only while
\* it holds an open plan in memory.
THEOREM NoOpenPlanForgottenCorrect == Calm => (Spec => NoOpenPlanForgotten)
<1> SUFFICES ASSUME Calm PROVE Spec => NoOpenPlanForgotten
  OBVIOUS
<1>1. TypeOK /\ CalmInv /\ [Next]_vars =>
        [(proc = "up" /\ IsWhole(checkpoint) /\ checkpoint' = Absent)
           => (checkpoint.plan = "open" => plan = "open")]_vars
  <2> SUFFICES ASSUME TypeOK, CalmInv, Next, proc = "up", IsWhole(checkpoint),
                      checkpoint' = Absent, checkpoint.plan = "open"
               PROVE  plan = "open"
    OBVIOUS
  <2>1. CASE Consume
    BY <2>1 DEF Consume, CalmInv, PlanOnDisk
  <2>2. CASE EndClear
    BY <2>2 DEF EndClear, CalmInv, PlanOnDisk
  <2> QED BY <2>1, <2>2, Removers
<1> QED BY <1>1, CalmCorrect, TypeCorrect, PTL DEF Spec, NoOpenPlanForgotten

-----------------------------------------------------------------------------
(* The loop is a serial queue: every step starts the task at the head,     *)
(* settles it, adds one at the tail or restarts, or leaves the queue       *)
(* alone.  Nothing is assumed of the configuration.                        *)

SameQueue == UNCHANGED taskChain /\ (pc' # "idle" <=> pc # "idle")
QueueStep == Chain!Next \/ SameQueue

\* The four ways a step of the loop touches the queue.
LEMMA QueueOperations ==
  ASSUME TypeOK
  PROVE  /\ taskChain # <<>> /\ TaskEnds => QueueStep
         /\ ProcessEnds => QueueStep
         /\ \A task \in Tasks : UNCHANGED pc /\ taskChain' = Append(taskChain, task) => QueueStep
         /\ \A label \in PCs \ {"idle"} : taskChain # <<>> /\ Goto(label) => QueueStep
<1> USE DEF QueueStep, Chain!Next
<1>1. ASSUME taskChain # <<>>, TaskEnds PROVE QueueStep
  BY <1>1 DEF TaskEnds, Chain!Settle, Task
<1>2. ASSUME ProcessEnds PROVE QueueStep
  BY <1>2 DEF ProcessEnds, Chain!Reset
<1>3. ASSUME NEW task \in Tasks, UNCHANGED pc, taskChain' = Append(taskChain, task)
      PROVE  QueueStep
  BY <1>3 DEF Chain!Add
<1>4. ASSUME NEW label \in PCs \ {"idle"}, taskChain # <<>>, Goto(label) PROVE QueueStep
  <2>1. CASE pc = "idle"
    BY <1>4, <2>1 DEF Goto, session, Chain!Start
  <2>2. CASE pc # "idle"
    BY <1>4, <2>2 DEF Goto, session, SameQueue
  <2> QED BY <2>1, <2>2
<1> QED BY <1>1, <1>2, <1>3, <1>4

\* Every step of the loop is a step of the serial queue or leaves it alone.
LEMMA QueueSteps == ASSUME TypeOK, Next PROVE QueueStep
<1> USE QueueOperations DEF PCs, InjectSteps, CompactSteps, TypeOK, ControlType
<1>1. CASE StartTask
  BY <1>1
     DEF StartTask, StartTurn, StartForceCompact, StartQuitSave, StartWarm, TakeSnapshot,
         Exit, Ready, BeginCompaction, Continue
<1>2. CASE Inject
  BY <1>2
     DEF Inject, ReadReason, ReadPrompt, ReadPlan, Consume, ReadThrows, InjectReturns,
         Continue
<1>3. CASE Compaction
  BY <1>3
     DEF Compaction, OpenFirst, WriteFirst, SummaryAnswered, SummaryRetried, SummaryFails,
         OpenFinal, WriteFinal, Compacted, CompactionFailed, CompactionReturns, Continue
<1>4. CASE Chat
  BY <1>4
     DEF Chat, ChatText, ChatCalls, ChatCancelled, CancelsTurn, ChatOverflow,
         BeginCompaction, ChatTruncated, ChatTransient, ChatError
<1>5. CASE WarmMeasured \/ Top \/ Measured \/ Salvaged \/ EndTurn \/ EndClear
  BY <1>5
     DEF WarmMeasured, Top, Measured, Salvaged, EndTurn, EndClear, BeginCompaction, Continue
<1>6. CASE ToolCalls
  BY <1>6
     DEF ToolCalls, Call, CancelsTurn, Fit, UpdatePlan, PlanOpen, PlanWrite, Gate, ToolDone,
         NextCall, BeginCompaction, Continue
<1>7. CASE User
  BY <1>7
     DEF User, Submit, QueueMessage, ForceCompact, BeginCommand, Enqueue, Cancel, ClearPlan,
         Quit, session, locals, SameQueue, QueueStep, Tasks
<1>8. CASE CancelSteps \/ ClearSteps
  BY <1>8
     DEF CancelSteps, CancelOpen, CancelWrite, CancelAbort, ClearSteps, ClearPlanMemory,
         ClearPlanFile, session, locals, SameQueue, QueueStep, Tasks
<1>9. CASE EndCommand \/ QuitNow \/ Crash \/ Restart
  BY <1>9 DEF EndCommand, QuitNow, Crash, Restart, Chain!Next, Chain!Reset, QueueStep, SameQueue, locals
<1> QED BY <1>1, <1>2, <1>3, <1>4, <1>5, <1>6, <1>7, <1>8, <1>9 DEF Next, Loop

\* ChainSafety, the safety part of ChainSpec: tasks run one at a time and in the order they
\* were added, and every one that settles, however it does, lets the next one start.
THEOREM LoopIsASerialQueue == Spec => ChainSafety
<1>1. Init => Chain!Init
  BY DEF Init, Chain!Init
<1>2. TypeOK /\ [Next]_vars => [Chain!Next]_(Chain!vars)
  <2> SUFFICES ASSUME TypeOK, [Next]_vars PROVE QueueStep
    BY DEF QueueStep, SameQueue, Chain!vars
  <2>1. CASE Next
    BY <2>1, QueueSteps
  <2>2. CASE UNCHANGED vars
    BY <2>2 DEF QueueStep, SameQueue, vars, session, locals
  <2> QED BY <2>1, <2>2
<1> QED BY <1>1, <1>2, TypeCorrect, PTL DEF Spec, ChainSafety

-----------------------------------------------------------------------------
(* The busy flag.  As long as nothing but turns has cleared the flag under *)
(* a turn, the chain holds one turn at most: it was the one that set the   *)
(* flag, and only its end clears it.  A process that is quitting adds no   *)
(* turn, and the next one starts with an empty chain or with a resume.     *)

OneTurn ==
  \A i, j \in 1..Len(taskChain) :
    taskChain[i] \in Turning /\ taskChain[j] \in Turning => i = j
NoTurnWhileDown == proc = "down" => ~HasTurn(taskChain)

TurnsInv == (freed \/ OneTurn) /\ NoTurnWhileDown /\ BusyWhileTurnRuns

\* What a step may do to the session.
SubmitsTurn ==
  /\ proc = "up" /\ ~busy
  /\ taskChain' = Append(taskChain, "send") /\ busy' = TRUE /\ UNCHANGED <<proc, freed>>
SubmitsCompact ==
  /\ taskChain' = Append(taskChain, "compact") /\ busy' = TRUE /\ UNCHANGED <<proc, freed>>
CommandBegins == busy' = TRUE /\ UNCHANGED <<proc, taskChain, freed>>
CommandEnds == freed' = HasTurn(taskChain) /\ UNCHANGED <<proc, taskChain>>
AddsExit == taskChain' = Append(taskChain, "exit") /\ UNCHANGED <<proc, busy, freed>>
BeginsQuit ==
  /\ proc' = "quitting" /\ UNCHANGED freed
  /\ UNCHANGED taskChain \/ taskChain' = Append(taskChain, "quit")
Restarts ==
  /\ proc = "down" /\ proc' = "up" /\ UNCHANGED freed
  /\ UNCHANGED <<busy, taskChain>> \/ (busy' = TRUE /\ taskChain' = <<"resume">>)

SessionStep ==
  \/ UNCHANGED <<proc, busy, taskChain, freed>>
  \/ taskChain # <<>> /\ TaskEnds
  \/ ProcessEnds
  \/ SubmitsTurn \/ SubmitsCompact \/ CommandBegins \/ CommandEnds
  \/ AddsExit \/ BeginsQuit \/ Restarts

\* Every step does one of these to the session.
LEMMA SessionSteps ==
  ASSUME TypeOK, [Next]_vars
  PROVE  SessionStep
<1> USE DEF SessionStep, TypeOK, ControlType, session
<1>1. CASE StartTask
  BY <1>1
     DEF StartTask, StartTurn, StartForceCompact, StartQuitSave, StartWarm, TakeSnapshot,
         Exit, Ready, BeginCompaction, Continue, Goto
<1>2. CASE Inject
  BY <1>2
     DEF Inject, ReadReason, ReadPrompt, ReadPlan, Consume, ReadThrows, InjectReturns,
         Continue, Goto
<1>3. CASE Compaction
  BY <1>3
     DEF Compaction, OpenFirst, WriteFirst, SummaryAnswered, SummaryRetried, SummaryFails,
         OpenFinal, WriteFinal, Compacted, CompactionFailed, CompactionReturns, Continue, Goto
<1>4. CASE Chat
  BY <1>4
     DEF Chat, ChatText, ChatCalls, ChatCancelled, CancelsTurn, ChatOverflow,
         BeginCompaction, ChatTruncated, ChatTransient, ChatError, Goto
<1>5. CASE WarmMeasured \/ Top \/ Measured \/ Salvaged \/ EndTurn \/ EndClear
  BY <1>5
     DEF WarmMeasured, Top, Measured, Salvaged, EndTurn, EndClear, BeginCompaction, Continue,
         Goto
<1>6. CASE ToolCalls
  BY <1>6
     DEF ToolCalls, Call, CancelsTurn, Fit, UpdatePlan, PlanOpen, PlanWrite, Gate, ToolDone,
         NextCall, BeginCompaction, Continue, Goto
<1>7. CASE User
  BY <1>7
     DEF User, Submit, UserMay, QueueMessage, ForceCompact, BeginCommand, Enqueue, Cancel,
         ClearPlan, Quit, SubmitsTurn, SubmitsCompact, CommandBegins, BeginsQuit
<1>8. CASE CancelSteps \/ ClearSteps
  BY <1>8
     DEF CancelSteps, CancelOpen, CancelWrite, CancelAbort, ClearSteps, ClearPlanMemory,
         ClearPlanFile, AddsExit
<1>9. CASE EndCommand \/ QuitNow \/ Crash \/ Restart
  BY <1>9 DEF EndCommand, CommandEnds, QuitNow, Crash, Restart, Restarts
<1>10. CASE UNCHANGED vars
  BY <1>10 DEF vars
<1> QED
  BY <1>1, <1>2, <1>3, <1>4, <1>5, <1>6, <1>7, <1>8, <1>9, <1>10 DEF Next, Loop

\* A task that settles leaves the tasks behind it as they were, one place nearer, and adds
\* no turn.
LEMMA TailPlaces ==
  ASSUME TypeOK, taskChain # <<>>, TaskEnds
  PROVE  /\ taskChain' \in Seq(Tasks)
         /\ \A i \in 1..Len(taskChain') :
              \/ i + 1 \in 1..Len(taskChain) /\ taskChain'[i] = taskChain[i + 1]
              \/ taskChain'[i] \notin Turning
<1> DEFINE adds == FollowUps(Task)
           rest == Tail(taskChain)
<1>1. taskChain \in Seq(Tasks) /\ rest \in Seq(Tasks) /\ Len(rest) = Len(taskChain) - 1
  BY DEF TypeOK, SessionType
<1>2. adds \in Seq(Tasks)
  BY FollowUpsAreTasks DEF TypeOK, SessionType, Task
<1>3. taskChain' = rest \o adds
  BY DEF TaskEnds
<1>4. \A i \in 1..Len(adds) : adds[i] \notin Turning
  BY DEF FollowUps, Turning
<1>5. ASSUME NEW i \in 1..Len(taskChain')
      PROVE  \/ i + 1 \in 1..Len(taskChain) /\ taskChain'[i] = taskChain[i + 1]
             \/ taskChain'[i] \notin Turning
  <2>1. Len(taskChain') = Len(rest) + Len(adds)
    BY <1>1, <1>2, <1>3
  <2>2. CASE i <= Len(rest)
    BY <1>1, <1>2, <1>3, <2>2
  <2>3. CASE i > Len(rest)
    <3>1. i - Len(rest) \in 1..Len(adds) /\ taskChain'[i] = adds[i - Len(rest)]
      BY <1>1, <1>2, <1>3, <2>1, <2>3
    <3> QED BY <3>1, <1>4
  <2> QED BY <1>1, <2>2, <2>3
<1> QED BY <1>1, <1>2, <1>3, <1>5

\* One more task at the end leaves the others in their places.
LEMMA AppendPlaces ==
  ASSUME TypeOK, NEW task \in Tasks, taskChain' = Append(taskChain, task)
  PROVE  /\ Len(taskChain') = Len(taskChain) + 1
         /\ taskChain'[Len(taskChain) + 1] = task
         /\ \A i \in 1..Len(taskChain') :
              i # Len(taskChain) + 1 => i \in 1..Len(taskChain) /\ taskChain'[i] = taskChain[i]
BY DEF TypeOK, SessionType

\* Every step keeps the busy flag and the turn of the chain together.
LEMMA TurnsStep ==
  ASSUME TypeOK, TurnsInv, [Next]_vars
  PROVE  TurnsInv'
<1> USE DEF TurnsInv, OneTurn, NoTurnWhileDown, BusyWhileTurnRuns, HasTurn
<1>1. CASE UNCHANGED <<proc, busy, taskChain, freed>>
  BY <1>1
<1>2. CASE taskChain # <<>> /\ TaskEnds
  <2>1. \A i \in 1..Len(taskChain') :
          \/ i + 1 \in 1..Len(taskChain) /\ taskChain'[i] = taskChain[i + 1]
          \/ taskChain'[i] \notin Turning
    BY <1>2, TailPlaces
  <2>2. NoTurnWhileDown'
    BY <1>2, <2>1 DEF TaskEnds
  <2>3. CASE ~HasTurn(taskChain')
    BY <2>2, <2>3
  <2>4. CASE freed'
    BY <2>2, <2>4
  <2>5. CASE HasTurn(taskChain') /\ ~freed'
    <3>1. ~freed /\ Task # "compact"
      BY <1>2, <2>5 DEF TaskEnds
    <3>2. OneTurn'
      BY <3>1, <2>1
    <3>3. PICK i \in 1..Len(taskChain') : taskChain'[i] \in Turning
      BY <2>5
    <3>4. i + 1 \in 1..Len(taskChain) /\ taskChain[i + 1] \in Turning
      BY <2>1, <3>3
    <3>5. 1 \in 1..Len(taskChain) /\ Task = taskChain[1] /\ i + 1 # 1
      BY <1>2, <3>4 DEF Task, TypeOK, SessionType
    <3>6. Task \notin ClearsBusy
      BY <3>1, <3>4, <3>5 DEF ClearsBusy
    <3>7. proc' = "up" => busy
      BY <1>2, <3>1, <3>4 DEF TaskEnds
    <3> QED BY <1>2, <2>2, <3>2, <3>6, <3>7 DEF TaskEnds
  <2> QED BY <2>3, <2>4, <2>5
<1>3. CASE ProcessEnds
  BY <1>3 DEF ProcessEnds
<1>4. CASE SubmitsTurn
  BY <1>4, AppendPlaces DEF SubmitsTurn, Tasks
<1>5. CASE SubmitsCompact
  BY <1>5, AppendPlaces DEF SubmitsCompact, Tasks, Turning
<1>6. CASE CommandBegins \/ CommandEnds
  BY <1>6 DEF CommandBegins, CommandEnds
<1>7. CASE AddsExit
  BY <1>7, AppendPlaces DEF AddsExit, Tasks, Turning
<1>8. CASE BeginsQuit
  BY <1>8, AppendPlaces DEF BeginsQuit, Tasks, Turning
<1>9. CASE Restarts
  BY <1>9 DEF Restarts
<1> QED
  BY <1>1, <1>2, <1>3, <1>4, <1>5, <1>6, <1>7, <1>8, <1>9, SessionSteps DEF SessionStep

\* A turn that is queued or running keeps the UI busy, so that a message typed meanwhile is
\* queued into it and a quit cancels it (onSubmit, exitAfterSaving), unless a /compact or
\* another slash command has cleared the flag under it: whatever else the user does, no other
\* step takes the flag away.
THEOREM BusyWhileTurnRunsCorrect == Spec => []BusyWhileTurnRuns
<1>1. Init => TurnsInv
  BY DEF Init, TurnsInv, OneTurn, NoTurnWhileDown, BusyWhileTurnRuns, HasTurn
<1>2. TypeOK /\ TurnsInv /\ [Next]_vars => TurnsInv'
  BY TurnsStep
<1>3. TurnsInv => BusyWhileTurnRuns
  BY DEF TurnsInv
<1> QED BY <1>1, <1>2, <1>3, TypeCorrect, PTL DEF Spec

==============================================================================
