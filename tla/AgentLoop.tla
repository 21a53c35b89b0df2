------------------------------ MODULE AgentLoop ------------------------------
(***************************************************************************)
(* The agent loop (src/src/agent/loop.ts) with what shares state with it:  *)
(* the compaction it runs (compaction/compactor.ts), the checkpoint file   *)
(* both write (compaction/checkpoint.ts), and the handlers of index.tsx    *)
(* that queue work for it, cancel it, quit and restart.                    *)
(*                                                                         *)
(* JavaScript runs one callback at a time, so a step is a stretch of code  *)
(* from one await to the next.  pc names the await the task at the head of *)
(* taskChain is in; the steps of the user, of a cancel and of /plan-clear  *)
(* fall in between.  A label of Sync is not an await: it only splits a     *)
(* stretch of code into readable actions.                                  *)
(*                                                                         *)
(* Kept: every state change, guard and early return.  Abstracted to a      *)
(* choice: token counts (does this measurement trigger a compaction, did   *)
(* it shrink anything), clocks (has the stall lasted long enough, does the *)
(* circuit breaker trip), message text, the arguments and results of       *)
(* tools.                                                                  *)
(***************************************************************************)
EXTENDS Naturals, Sequences

CONSTANTS
  UserOps,           \* what the user may do, a subset of AllUserOps
  Outcomes,          \* how a chat request may fail, a subset of AllOutcomes
  Answers,           \* how it may succeed, a subset of AllAnswers
  Updates,           \* bound: the plans update_plan may write, a subset of Plans
  MaxCalls,          \* bound: tool calls in one assistant message
  MaxTasks,          \* bound: tasks chained when the user adds another
  MaxQueued,         \* bound: messages typed ahead during a turn
  MaxCommands,       \* bound: slash commands in progress at a time
  MaxOverflow,       \* MAX_OVERFLOW_RETRIES
  MaxTruncated,      \* MAX_TOOL_CALL_TRUNCATION_RETRIES
  MaxTimeout,        \* MAX_BACKEND_TIMEOUT_RETRIES
  MaxUtf8,           \* MAX_UTF8_SPLIT_RETRIES
  MaxSummaryRetries, \* MAX_COMPACTION_RETRIES
  TailHalvings,      \* halvings from DEFAULT_TAIL_BUDGET_FRACTION to the floor
  RepeatLimit,       \* REPEAT_LIMIT
  StallLimit,        \* progressGuard.compactions
  AutoResume,        \* opts.autoResume
  DiskFails,         \* may writeFile fail?
  Absent, Torn       \* no checkpoint file; a file JSON.parse rejects

AllUserOps == {"send", "queue", "compact", "command", "clearPlan", "cancel", "quit", "crash"}
AllOutcomes == {"overflow", "truncated", "timeout", "utf8", "error"}
AllAnswers == {"text", "calls", "summary"}

\* A plan is empty, has a step left, or has only done steps.
Plans == {"none", "open", "done"}
Reasons == {"auto-threshold", "manual", "plan-progress"}
\* pending: pendingToolCall # null.
Checkpoints == [reason : Reasons, plan : Plans, pending : BOOLEAN]
Files == Checkpoints \cup {Absent, Torn}

ASSUME OpsAssumption ==
  /\ UserOps \subseteq AllUserOps
  /\ Outcomes \subseteq AllOutcomes
  /\ Answers \subseteq AllAnswers
  /\ Updates \subseteq Plans
ASSUME BoundsAssumption ==
  /\ {MaxTasks, MaxQueued, MaxCommands, MaxOverflow, MaxTruncated, MaxTimeout,
      MaxUtf8, MaxSummaryRetries, TailHalvings, StallLimit} \subseteq Nat
  /\ {MaxCalls, RepeatLimit} \subseteq Nat \ {0}
  /\ {AutoResume, DiskFails} \subseteq BOOLEAN
ASSUME FilesAssumption ==
  /\ Absent # Torn
  /\ {Absent, Torn} \cap Checkpoints = {}

VARIABLES
  proc,            \* "up", "quitting" (the save before exit), "down"
  busy,            \* the UI's busy flag
  taskChain,       \* the tasks enqueued and not finished, the running one first
  commands,        \* slash commands in progress that have set busy
  freed,           \* history: something else than a turn has cleared busy under this turn
  pc,              \* the await the running task is in, "idle" between tasks
  calls,           \* tool calls of the current message not handled yet
  turn,            \* the counters local to runUntilIdle
  job,             \* the compaction or plan write in progress
  aborted,         \* backend.cancel() reached the request in flight
  plan,            \* this.plan
  queuedMessages,  \* how many this.queuedMessages holds
  talked,          \* this.messages holds more than the system prompt
  cancelRequested, \* this.cancelRequested
  progress,        \* the progress guard
  cancelling,      \* a call of cancelCurrentTurn in progress
  clearing,        \* a call of clearPlan in progress
  checkpoint,      \* .llamacli/state/checkpoint.json
  writers          \* writeFile calls with that file open

session == <<proc, busy, taskChain, commands, freed>>
locals  == <<pc, calls, turn, job, aborted>>
memory  == <<plan, queuedMessages, talked, cancelRequested, progress>>
ui      == <<cancelling, clearing>>
disk    == <<checkpoint, writers>>
vars    == <<session, locals, memory, ui, disk>>

Tasks == {"send", "resume", "warm", "compact", "quit", "snapshot", "exit"}
Sync  == {"top", "end", "call", "failed"}
InjectSteps  == {"readReason", "readPrompt", "readPlan", "consume"}
CompactSteps == {"openFirst", "writeFirst", "summary", "openFinal", "writeFinal",
                 "compacted", "failed"}
PCs == {"idle", "top", "measure", "chat", "salvage", "end", "endClear", "call", "fit",
        "gate", "tool", "planOpen", "planWrite", "warmMeasure"}
         \cup InjectSteps \cup CompactSteps

RetryLimit == [overflow |-> MaxOverflow, truncated |-> MaxTruncated,
               timeout |-> MaxTimeout, utf8 |-> MaxUtf8, error |-> 0]

NoCheckpoint == [reason |-> "manual", plan |-> "none", pending |-> FALSE]
NewTurn      == [started |-> FALSE, said |-> 0, tail |-> 0,
                 tries |-> [k \in AllOutcomes |-> 0]]
NoJob        == [ck |-> NoCheckpoint, attempt |-> 0, after |-> "task"]
NewProgress  == [stalls |-> 0, nudged |-> FALSE]
NoCancel     == [at |-> "no", ck |-> NoCheckpoint, exits |-> FALSE]

Turns     == [started : BOOLEAN, said : 0..RepeatLimit, tail : 0..TailHalvings,
              tries : [AllOutcomes -> Nat]]
Jobs      == [ck : Checkpoints, attempt : 0..MaxSummaryRetries,
              after : {"turn", "batch", "overflow", "task"}]
Guards    == [stalls : 0..StallLimit, nudged : BOOLEAN]
Cancels   == [at : {"no", "open", "write", "abort"}, ck : Checkpoints, exits : BOOLEAN]

SessionType ==
  /\ proc \in {"up", "quitting", "down"}
  /\ busy \in BOOLEAN
  /\ taskChain \in Seq(Tasks)
  /\ commands \in 0..MaxCommands
  /\ freed \in BOOLEAN

LocalsType ==
  /\ pc \in PCs
  /\ calls \in 0..MaxCalls
  /\ turn \in Turns
  /\ job \in Jobs
  /\ aborted \in BOOLEAN

MemoryType ==
  /\ plan \in Plans
  /\ queuedMessages \in 0..MaxQueued
  /\ talked \in BOOLEAN
  /\ cancelRequested \in BOOLEAN
  /\ progress \in Guards

UiType ==
  /\ cancelling \in Cancels
  /\ clearing \in {"no", "notes", "file"}

DiskType ==
  /\ checkpoint \in Files
  /\ writers \subseteq {"loop", "cancel"}

\* A task in progress is in the chain of a process that is there, and a call being handled is
\* still counted.
ControlType ==
  /\ pc # "idle" => proc # "down"
  /\ pc # "idle" => taskChain # <<>>
  /\ pc \in {"fit", "gate", "tool", "planOpen", "planWrite"} => calls > 0

\* Every variable has its type: the bounds of the retries of compact, of the tail halvings
\* and of the repeated answers among them.
TypeOK == SessionType /\ LocalsType /\ MemoryType /\ UiType /\ DiskType /\ ControlType

Task == Head(taskChain)
IsWhole(file) == file \in Checkpoints

-----------------------------------------------------------------------------
(* The task chain: AgentLoop.enqueue and the handlers that call it.        *)

\* Mutant of FollowUps: the process does not exit once the save of a quit is over.
FollowUpsWithoutExit(task) ==
  IF task = "send" THEN <<"warm", "snapshot">> ELSE <<>>

FollowUps(task) ==
  CASE task = "send" -> <<"warm", "snapshot">>
    [] task = "quit" -> <<"exit">>
    [] OTHER         -> <<>>

\* The tasks that run a turn of the conversation.
Turning == {"send", "resume"}
HasTurn(chain) == \E i \in 1..Len(chain) : chain[i] \in Turning

\* Tasks whose caller runs setBusy(false) when they settle.
ClearsBusy == Turning \cup {"compact"}

Goto(label) == pc' = label /\ UNCHANGED session
Continue(label) == Goto(label) /\ UNCHANGED <<calls, turn, job, aborted>>

\* The task settles, resolved or rejected: the chain goes on either way.
TaskEnds ==
  /\ pc' = "idle"
  /\ taskChain' = Tail(taskChain) \o FollowUps(Task)
  /\ busy' = (busy /\ Task \notin ClearsBusy)
  /\ freed' = ((freed \/ Task = "compact") /\ HasTurn(taskChain'))
  /\ calls' = 0
  /\ turn' = NewTurn
  /\ job' = NoJob
  /\ aborted' = FALSE
  /\ UNCHANGED <<proc, commands>>

\* The process is gone with its memory; the file stays as the last write left it.
ProcessEnds ==
  /\ proc' = "down"
  /\ busy' = FALSE
  /\ taskChain' = <<>>
  /\ commands' = 0
  /\ freed' = FALSE
  /\ pc' = "idle"
  /\ calls' = 0
  /\ turn' = NewTurn
  /\ job' = NoJob
  /\ aborted' = FALSE
  /\ plan' = "none"
  /\ queuedMessages' = 0
  /\ talked' = FALSE
  /\ cancelRequested' = FALSE
  /\ progress' = NewProgress
  /\ cancelling' = NoCancel
  /\ clearing' = "no"
  /\ writers' = {}
  /\ UNCHANGED checkpoint

Ready(tasks) == proc # "down" /\ pc = "idle" /\ taskChain # <<>> /\ Task \in tasks

-----------------------------------------------------------------------------
(* writeFile opens with O_TRUNC and then writes, so the file is torn in    *)
(* between; with two writers the later write may leave the tail of a       *)
(* longer earlier one.  A writer whose file was unlinked writes nowhere.   *)

OpensFile(writer) ==
  /\ checkpoint' = Torn
  /\ writers' = writers \cup {writer}

Written(writer, ck) ==
  IF writer \notin writers THEN {checkpoint}
  ELSE IF checkpoint = Torn THEN {ck} ELSE {ck, Torn}

WritesFile(writer, ck) ==
  /\ checkpoint' \in Written(writer, ck)
  /\ writers' = writers \ {writer}

WriteFails(writer) ==
  /\ DiskFails
  /\ writers' = writers \ {writer}
  /\ UNCHANGED checkpoint

\* Mutant of RemovesFile: clearCheckpoint as an empty write.
EmptiesFile ==
  /\ checkpoint' = Torn
  /\ writers' = {}

RemovesFile ==
  /\ checkpoint' = Absent
  /\ writers' = {}

-----------------------------------------------------------------------------
(* Resuming: injectResumeContextIfPending reads the file three times,      *)
(* restores the plan from the last reading and removes the file.  A torn   *)
(* file makes a reading throw, which rejects the task.                     *)

StartTurn ==
  /\ Ready({"send", "resume"})
  /\ Continue("readReason")
  /\ progress' = NewProgress
  /\ UNCHANGED <<plan, queuedMessages, talked, cancelRequested, ui, disk>>

\* resumed: the return value.  send pushes its message and goes on in any case,
\* resumeIfCheckpointExists only when there was something to resume.
InjectReturns(resumed) ==
  \/ turn.started /\ Continue("top") /\ UNCHANGED talked
  \/ ~turn.started /\ Task = "resume" /\ ~resumed /\ TaskEnds /\ UNCHANGED talked
  \/ /\ ~turn.started
     /\ Task = "send" \/ resumed
     /\ Goto("top")
     /\ turn' = [turn EXCEPT !.started = TRUE]
     /\ talked' = TRUE
     /\ UNCHANGED <<calls, job, aborted>>

\* The checkpoint is this process's own record of a plan still in memory.
OwnPlanOnDisk == IsWhole(checkpoint) /\ checkpoint.reason = "plan-progress" /\ plan # "none"

ReadThrows == checkpoint = Torn /\ TaskEnds /\ UNCHANGED <<plan, talked>>

ReadReason ==
  /\ pc = "readReason"
  /\ \/ ReadThrows
     \/ OwnPlanOnDisk /\ InjectReturns(FALSE) /\ UNCHANGED plan
     \/ /\ checkpoint # Torn
        /\ ~OwnPlanOnDisk
        /\ Continue("readPrompt")
        /\ UNCHANGED <<plan, talked>>
  /\ UNCHANGED <<queuedMessages, cancelRequested, progress, ui, disk>>

ReadPrompt ==
  /\ pc = "readPrompt"
  /\ \/ ReadThrows
     \/ checkpoint = Absent /\ InjectReturns(FALSE) /\ UNCHANGED plan
     \/ IsWhole(checkpoint) /\ Continue("readPlan") /\ talked' = TRUE /\ UNCHANGED plan
  /\ UNCHANGED <<queuedMessages, cancelRequested, progress, ui, disk>>

\* Mutant of RestoredPlan: only the text of the resume prompt is taken over.
KeptPlan == plan

RestoredPlan ==
  IF IsWhole(checkpoint) /\ checkpoint.plan # "none" THEN checkpoint.plan ELSE plan

ReadPlan ==
  /\ pc = "readPlan"
  /\ \/ ReadThrows
     \/ /\ checkpoint # Torn
        /\ Continue("consume")
        /\ plan' = RestoredPlan
        /\ UNCHANGED talked
  /\ UNCHANGED <<queuedMessages, cancelRequested, progress, ui, disk>>

Consume ==
  /\ pc = "consume"
  /\ InjectReturns(TRUE)
  /\ RemovesFile
  /\ UNCHANGED <<plan, queuedMessages, cancelRequested, progress, ui>>

-----------------------------------------------------------------------------
(* Compaction: AgentLoop.compact around runCompaction.  The checkpoint's   *)
(* content is fixed when compact starts; it is written before the summary  *)
(* request and, with a summary in hand, once more.                         *)

\* Mutant of BeginCompaction: the checkpoint is written only once there is a summary.
BeginCompactionUnsaved(reason, pending, after) ==
  /\ Goto("summary")
  /\ job' = [ck |-> [reason |-> reason, plan |-> plan, pending |-> pending],
             attempt |-> 0, after |-> after]
  /\ UNCHANGED aborted

\* Mutant of BeginCompaction: the call that was about to run is not recorded.
BeginCompactionForgetsCall(reason, pending, after) ==
  /\ Goto("openFirst")
  /\ job' = [ck |-> [reason |-> reason, plan |-> plan, pending |-> FALSE],
             attempt |-> 0, after |-> after]
  /\ UNCHANGED aborted

BeginCompaction(reason, pending, after) ==
  /\ Goto("openFirst")
  /\ job' = [ck |-> [reason |-> reason, plan |-> plan, pending |-> pending],
             attempt |-> 0, after |-> after]
  /\ UNCHANGED aborted

OpenFirst ==
  /\ pc = "openFirst"
  /\ \/ Continue("writeFirst") /\ OpensFile("loop")
     \/ Continue("failed") /\ DiskFails /\ UNCHANGED disk
  /\ UNCHANGED <<memory, ui>>

WriteFirst ==
  /\ pc = "writeFirst"
  /\ \/ Continue("summary") /\ WritesFile("loop", job.ck)
     \/ Continue("failed") /\ WriteFails("loop")
  /\ UNCHANGED <<memory, ui>>

\* A deadline may end the summary request with no text: there is then no second write.
SummaryAnswered ==
  /\ pc = "summary"
  /\ ~aborted
  /\ "summary" \in Answers
  /\ Continue("openFinal") \/ Continue("compacted")
  /\ UNCHANGED <<memory, ui, disk>>

\* A connection timeout and a split UTF-8 byte are retried from the first write on.
SummaryRetried ==
  /\ pc = "summary"
  /\ ~aborted
  /\ Outcomes \cap {"timeout", "utf8"} # {}
  /\ job.attempt < MaxSummaryRetries
  /\ Goto("openFirst")
  /\ job' = [job EXCEPT !.attempt = @ + 1]
  /\ UNCHANGED <<calls, turn, aborted, memory, ui, disk>>

SummaryFails ==
  /\ pc = "summary"
  /\ \/ aborted
     \/ Outcomes \ {"timeout", "utf8"} # {}
     \/ Outcomes # {} /\ job.attempt = MaxSummaryRetries
  /\ Goto("failed")
  /\ aborted' = FALSE
  /\ UNCHANGED <<calls, turn, job, memory, ui, disk>>

OpenFinal ==
  /\ pc = "openFinal"
  /\ \/ Continue("writeFinal") /\ OpensFile("loop")
     \/ Continue("failed") /\ DiskFails /\ UNCHANGED disk
  /\ UNCHANGED <<memory, ui>>

WriteFinal ==
  /\ pc = "writeFinal"
  /\ \/ Continue("compacted") /\ WritesFile("loop", job.ck)
     \/ Continue("failed") /\ WriteFails("loop")
  /\ UNCHANGED <<memory, ui>>

\* Back in the caller of compact.  shrunk: the estimate after is below the one before.
CompactionReturns(shrunk) ==
  \/ job.after = "turn" /\ Continue("chat")
  \/ job.after = "batch" /\ AutoResume /\ Continue("readReason")
  \/ job.after = "batch" /\ ~AutoResume /\ TaskEnds
  \/ job.after = "overflow" /\ shrunk /\ Continue("top")
  \/ /\ job.after = "overflow"
     /\ ~shrunk
     /\ turn.tail < TailHalvings
     /\ Goto("top")
     /\ turn' = [turn EXCEPT !.tail = @ + 1]
     /\ UNCHANGED <<calls, job, aborted>>
  \/ job.after = "overflow" /\ ~shrunk /\ turn.tail = TailHalvings /\ TaskEnds
  \/ job.after = "task" /\ TaskEnds

Compacted ==
  /\ pc = "compacted"
  /\ \E shrunk \in BOOLEAN : CompactionReturns(shrunk)
  /\ progress' = IF progress.stalls < StallLimit
                 THEN [progress EXCEPT !.stalls = @ + 1] ELSE progress
  /\ UNCHANGED <<plan, queuedMessages, talked, cancelRequested, ui, disk>>

\* "[compaction failed] ... checkpoint was saved": the conversation is as before.
CompactionFailed ==
  /\ pc = "failed"
  /\ CompactionReturns(FALSE)
  /\ UNCHANGED <<memory, ui, disk>>

StartForceCompact ==
  /\ Ready({"compact"})
  /\ BeginCompaction("manual", FALSE, "task")
  /\ UNCHANGED <<calls, turn, memory, ui, disk>>

StartQuitSave ==
  /\ Ready({"quit"})
  /\ \/ talked /\ BeginCompaction("manual", FALSE, "task") /\ UNCHANGED <<calls, turn>>
     \/ ~talked /\ TaskEnds
  /\ UNCHANGED <<memory, ui, disk>>

StartWarm ==
  /\ Ready({"warm"})
  /\ Continue("warmMeasure")
  /\ UNCHANGED <<memory, ui, disk>>

WarmMeasured ==
  /\ pc = "warmMeasure"
  /\ \/ TaskEnds
     \/ BeginCompaction("auto-threshold", FALSE, "task") /\ UNCHANGED <<calls, turn>>
  /\ UNCHANGED <<memory, ui, disk>>

TakeSnapshot ==
  /\ Ready({"snapshot"})
  /\ TaskEnds
  /\ UNCHANGED <<memory, ui, disk>>

Exit == Ready({"exit"}) /\ ProcessEnds

-----------------------------------------------------------------------------
(* The turn: runUntilIdle.                                                 *)

\* The progress guard's verdict needs StallLimit compactions and enough minutes.
Stalled == progress.stalls >= StallLimit

Top ==
  /\ pc = "top"
  /\ queuedMessages' = 0
  /\ \/ Continue("measure") /\ UNCHANGED progress
     \/ Stalled /\ ~progress.nudged /\ Continue("measure")
          /\ progress' = [stalls |-> 0, nudged |-> TRUE]
     \/ Stalled /\ progress.nudged /\ TaskEnds /\ UNCHANGED progress
  /\ UNCHANGED <<plan, talked, cancelRequested, ui, disk>>

Measured ==
  /\ pc = "measure"
  /\ \/ Continue("chat")
     \/ BeginCompaction("auto-threshold", FALSE, "turn") /\ UNCHANGED <<calls, turn>>
  /\ UNCHANGED <<memory, ui, disk>>

\* One more assistant message with text in it; RepeatLimit of them may be the same one.
Said == [turn EXCEPT !.said = IF @ < RepeatLimit THEN @ + 1 ELSE @]
MayRepeat == Said.said = RepeatLimit

ChatText ==
  /\ pc = "chat"
  /\ ~aborted
  /\ "text" \in Answers
  /\ \/ Goto("end") /\ turn' \in {turn, Said} /\ UNCHANGED <<calls, job, aborted>>
     \/ MayRepeat /\ TaskEnds
  /\ UNCHANGED <<memory, ui, disk>>

ChatCalls ==
  /\ pc = "chat"
  /\ ~aborted
  /\ "calls" \in Answers
  /\ \/ Goto("call") /\ calls' \in 1..MaxCalls /\ turn' \in {turn, Said}
          /\ UNCHANGED <<job, aborted>>
     \/ MayRepeat /\ TaskEnds
  /\ UNCHANGED <<memory, ui, disk>>

\* "[cancelled] work saved": the turn notices the flag and returns.
CancelsTurn ==
  /\ cancelRequested
  /\ cancelRequested' = FALSE
  /\ TaskEnds
  /\ UNCHANGED <<plan, queuedMessages, talked, progress>>

Retries(kind) == turn.tries[kind] < RetryLimit[kind]
\* Mutant of CountTry: the retry is not counted.
ForgetTry(kind) == UNCHANGED turn

CountTry(kind) == turn' = [turn EXCEPT !.tries[kind] = @ + 1]

ChatCancelled ==
  /\ pc = "chat"
  /\ aborted \/ Outcomes # {}
  /\ CancelsTurn
  /\ UNCHANGED <<ui, disk>>

ChatOverflow ==
  /\ pc = "chat"
  /\ ~aborted /\ ~cancelRequested
  /\ "overflow" \in Outcomes
  /\ Retries("overflow")
  /\ CountTry("overflow")
  /\ BeginCompaction("auto-threshold", FALSE, "overflow")
  /\ UNCHANGED <<calls, memory, ui, disk>>

\* A call cut off mid-generation: its prefix may be salvaged by a write tool.
ChatTruncated ==
  /\ pc = "chat"
  /\ ~aborted /\ ~cancelRequested
  /\ "truncated" \in Outcomes
  /\ Retries("truncated")
  /\ CountTry("truncated")
  /\ Goto("salvage") \/ Goto("top")
  /\ UNCHANGED <<calls, job, aborted, memory, ui, disk>>

Salvaged == pc = "salvage" /\ Continue("top") /\ UNCHANGED <<memory, ui, disk>>

ChatTransient(kind) ==
  /\ pc = "chat"
  /\ ~aborted /\ ~cancelRequested
  /\ kind \in Outcomes
  /\ Retries(kind)
  /\ CountTry(kind)
  /\ Goto("top")
  /\ UNCHANGED <<calls, job, aborted, memory, ui, disk>>

ChatError ==
  /\ pc = "chat"
  /\ ~cancelRequested
  /\ aborted \/ \E kind \in Outcomes : ~Retries(kind)
  /\ TaskEnds
  /\ UNCHANGED <<memory, ui, disk>>

\* A message without tool calls.  Only a plan with every step done is forgotten here.
EndTurn ==
  /\ pc = "end"
  /\ \/ plan # "done" /\ TaskEnds /\ UNCHANGED plan
     \/ plan = "done" /\ plan' = "none" /\ Continue("endClear")
  /\ UNCHANGED <<queuedMessages, talked, cancelRequested, progress, ui, disk>>

EndClear ==
  /\ pc = "endClear"
  /\ RemovesFile
  /\ TaskEnds
  /\ UNCHANGED <<memory, ui>>

-----------------------------------------------------------------------------
(* The tool calls of one assistant message.                                *)

NextCall == Goto("call") /\ calls' = calls - 1 /\ UNCHANGED <<turn, job, aborted>>

\* Mutant of Call: the cancel flag is only looked at when a chat request fails.
CallIgnoresCancel ==
  /\ pc = "call"
  /\ \/ calls = 0 /\ Continue("top")
     \/ calls > 0 /\ TaskEnds
     \/ calls > 0 /\ Continue("fit")
  /\ UNCHANGED <<memory, ui, disk>>

Call ==
  /\ pc = "call"
  /\ \/ calls = 0 /\ Continue("top") /\ UNCHANGED memory
     \/ calls > 0 /\ CancelsTurn
     \/ calls > 0 /\ ~cancelRequested /\ TaskEnds /\ UNCHANGED memory  \* breaker
     \/ calls > 0 /\ ~cancelRequested /\ Continue("fit") /\ UNCHANGED memory
  /\ UNCHANGED <<ui, disk>>

\* maybeCompact before the call: a compaction abandons it and the rest of the batch.
Fit ==
  /\ pc = "fit"
  /\ \/ BeginCompaction("auto-threshold", TRUE, "batch") /\ calls' = 0 /\ UNCHANGED turn
     \/ Continue("gate")
     \/ Continue("tool")
     \/ NextCall   \* refused, or arguments that do not parse
  /\ UNCHANGED <<memory, ui, disk>>

\* update_plan: the plan is replaced at once and written as a plan-progress checkpoint.
UpdatePlan ==
  /\ pc = "fit"
  /\ \E steps \in Updates :
       /\ plan' = steps
       /\ Goto("planOpen")
       /\ job' = [NoJob EXCEPT !.ck = [reason |-> "plan-progress", plan |-> steps,
                                       pending |-> FALSE]]
       /\ progress' = NewProgress \/ progress' = progress
  /\ UNCHANGED <<calls, turn, aborted, queuedMessages, talked, cancelRequested, ui, disk>>

PlanOpen ==
  /\ pc = "planOpen"
  /\ \/ Continue("planWrite") /\ OpensFile("loop")
     \/ NextCall /\ DiskFails /\ UNCHANGED disk
  /\ UNCHANGED <<memory, ui>>

PlanWrite ==
  /\ pc = "planWrite"
  /\ NextCall
  /\ WritesFile("loop", job.ck) \/ WriteFails("loop")
  /\ UNCHANGED <<memory, ui>>

\* The user's answer; while the save before exit is shown every key is swallowed.
Gate ==
  /\ pc = "gate"
  /\ proc = "up"
  /\ Continue("tool") \/ NextCall
  /\ UNCHANGED <<memory, ui, disk>>

ToolDone ==
  /\ pc = "tool"
  /\ NextCall
  /\ progress' = NewProgress \/ progress' = progress
  /\ UNCHANGED <<plan, queuedMessages, talked, cancelRequested, ui, disk>>

-----------------------------------------------------------------------------
(* The user.  Keys reach the App between awaits; while a tool waits for    *)
(* approval they are answers to that question only.                        *)

EventLoopFree == pc \notin Sync /\ ~(pc = "idle" /\ taskChain # <<>>)
UserMay(op) == op \in UserOps /\ proc = "up" /\ EventLoopFree /\ pc # "gate"

\* Mutant of Enqueue: the newest task goes first.
EnqueueFirst(task) == Len(taskChain) < MaxTasks /\ taskChain' = <<task>> \o taskChain

Enqueue(task) == Len(taskChain) < MaxTasks /\ taskChain' = Append(taskChain, task)

Submit ==
  /\ UserMay("send")
  /\ ~busy
  /\ Enqueue("send")
  /\ busy' = TRUE
  /\ UNCHANGED <<proc, commands, freed, locals, memory, ui, disk>>

QueueMessage ==
  /\ UserMay("queue")
  /\ busy
  /\ queuedMessages < MaxQueued
  /\ queuedMessages' = queuedMessages + 1
  /\ UNCHANGED <<session, locals, plan, talked, cancelRequested, progress, ui, disk>>

ForceCompact ==
  /\ UserMay("compact")
  /\ Enqueue("compact")
  /\ busy' = TRUE
  /\ UNCHANGED <<proc, commands, freed, locals, memory, ui, disk>>

\* /models, /server restart, /server calibrate and /reset: run beside the task chain, whatever
\* it is doing, with busy set when their work begins and cleared when it is over.
BeginCommand ==
  /\ "command" \in UserOps
  /\ proc = "up"
  /\ EventLoopFree
  /\ commands < MaxCommands
  /\ commands' = commands + 1
  /\ busy' = TRUE
  /\ UNCHANGED <<proc, taskChain, freed, locals, memory, ui, disk>>

EndCommand ==
  /\ commands > 0
  /\ EventLoopFree
  /\ commands' = commands - 1
  /\ busy' = FALSE
  /\ freed' = HasTurn(taskChain)
  /\ UNCHANGED <<proc, taskChain, locals, memory, ui, disk>>

\* cancelCurrentTurn: not enqueued.  It sets the flag, writes a checkpoint, then aborts.
\* exits: it was called by a quit.
BeginCancel(exits) ==
  /\ cancelling.at = "no"
  /\ cancelRequested' = TRUE
  /\ cancelling' = [at |-> "open",
                    ck |-> [reason |-> "manual", plan |-> plan, pending |-> FALSE],
                    exits |-> exits]
  /\ UNCHANGED <<plan, queuedMessages, talked, progress, clearing>>

\* Mutant of Cancel: the UI is free again at once, while the task is still being stopped.
CancelFreesTheUI ==
  /\ UserMay("cancel")
  /\ BeginCancel(FALSE)
  /\ busy' = FALSE
  /\ UNCHANGED <<proc, taskChain, commands, freed, locals, disk>>

Cancel == UserMay("cancel") /\ BeginCancel(FALSE) /\ UNCHANGED <<session, locals, disk>>

CancelOpen ==
  /\ cancelling.at = "open"
  /\ \/ cancelling' = [cancelling EXCEPT !.at = "write"] /\ OpensFile("cancel")
     \/ cancelling' = [cancelling EXCEPT !.at = "abort"] /\ DiskFails /\ UNCHANGED disk
  /\ UNCHANGED <<session, locals, memory, clearing>>

CancelWrite ==
  /\ cancelling.at = "write"
  /\ cancelling' = [cancelling EXCEPT !.at = "abort"]
  /\ WritesFile("cancel", cancelling.ck) \/ WriteFails("cancel")
  /\ UNCHANGED <<session, locals, memory, clearing>>

\* backend.cancel() reaches a request only while one is in flight, whichever it is by now.
\* A quit's last snapshot is enqueued behind the cancelled turn.
InFlight == pc \in {"chat", "summary"}

CancelAbort ==
  /\ cancelling.at = "abort"
  /\ EventLoopFree
  /\ cancelling' = NoCancel
  /\ aborted' = (aborted \/ InFlight)
  /\ taskChain' = IF cancelling.exits THEN Append(taskChain, "exit") ELSE taskChain
  /\ UNCHANGED <<proc, busy, commands, freed, pc, calls, turn, job, memory, clearing, disk>>

\* clearPlan: not enqueued either.
ClearPlan ==
  /\ UserMay("clearPlan")
  /\ clearing = "no"
  /\ clearing' = "notes"
  /\ UNCHANGED <<session, locals, memory, cancelling, disk>>

ClearPlanMemory ==
  /\ clearing = "notes"
  /\ EventLoopFree
  /\ clearing' = "file"
  /\ plan' = "none"
  /\ UNCHANGED <<session, locals, queuedMessages, talked, cancelRequested, progress,
                 cancelling, disk>>

ClearPlanFile ==
  /\ clearing = "file"
  /\ clearing' = "no"
  /\ RemovesFile
  /\ UNCHANGED <<session, locals, memory, cancelling>>

-----------------------------------------------------------------------------
(* Quitting, dying and starting again.                                     *)

\* exitAfterSaving: a busy UI cancels the turn, an idle one compacts.
Quit ==
  /\ UserMay("quit")
  /\ proc' = "quitting"
  /\ \/ busy /\ BeginCancel(TRUE) /\ UNCHANGED taskChain
     \/ ~busy /\ taskChain' = Append(taskChain, "quit") /\ UNCHANGED <<memory, ui>>
  /\ UNCHANGED <<busy, commands, freed, locals, disk>>

\* QUIT_SAVE_TIMEOUT_MS passes, or the user will not wait for the save.
QuitNow == proc = "quitting" /\ EventLoopFree /\ ProcessEnds

Crash == "crash" \in UserOps /\ proc # "down" /\ ProcessEnds

\* main() reads the checkpoint before it renders anything, and a torn one stops it.
\* With one on disk the user is asked first: resume it, or start fresh without it (its
\* removal, which nothing waits for, is taken to be over before the user's next key).
Restart ==
  /\ proc = "down"
  /\ checkpoint # Torn
  /\ proc' = "up"
  /\ \/ checkpoint = Absent /\ UNCHANGED <<busy, taskChain, talked, checkpoint>>
     \/ /\ IsWhole(checkpoint)
        /\ busy' = TRUE
        /\ taskChain' = <<"resume">>
        /\ talked' \in BOOLEAN   \* was there a session snapshot to restore?
        /\ UNCHANGED checkpoint
     \/ IsWhole(checkpoint) /\ checkpoint' = Absent /\ UNCHANGED <<busy, taskChain, talked>>
  /\ UNCHANGED <<commands, freed, locals, plan, queuedMessages, cancelRequested, progress, ui,
                 writers>>

-----------------------------------------------------------------------------
Init ==
  /\ proc = "up"
  /\ busy = FALSE
  /\ taskChain = <<>>
  /\ commands = 0
  /\ freed = FALSE
  /\ pc = "idle"
  /\ calls = 0
  /\ turn = NewTurn
  /\ job = NoJob
  /\ aborted = FALSE
  /\ plan = "none"
  /\ queuedMessages = 0
  /\ talked = FALSE
  /\ cancelRequested = FALSE
  /\ progress = NewProgress
  /\ cancelling = NoCancel
  /\ clearing = "no"
  /\ checkpoint = Absent
  /\ writers = {}

Inject == ReadReason \/ ReadPrompt \/ ReadPlan \/ Consume

Compaction ==
  \/ OpenFirst \/ WriteFirst \/ SummaryAnswered \/ SummaryRetried \/ SummaryFails
  \/ OpenFinal \/ WriteFinal \/ Compacted \/ CompactionFailed

StartTask ==
  \/ StartTurn \/ StartForceCompact \/ StartQuitSave \/ StartWarm \/ TakeSnapshot \/ Exit

Chat ==
  \/ ChatText \/ ChatCalls \/ ChatCancelled \/ ChatOverflow \/ ChatTruncated
  \/ ChatTransient("timeout") \/ ChatTransient("utf8") \/ ChatError

ToolCalls ==
  Call \/ Fit \/ UpdatePlan \/ PlanOpen \/ PlanWrite \/ Gate \/ ToolDone

\* What the running task does by itself, or when the backend, a tool or the user answers.
Loop ==
  \/ StartTask \/ Inject \/ Compaction \/ WarmMeasured
  \/ Top \/ Measured \/ Chat \/ Salvaged \/ EndTurn \/ EndClear \/ ToolCalls

CancelSteps == CancelOpen \/ CancelWrite \/ CancelAbort
ClearSteps  == ClearPlanMemory \/ ClearPlanFile
User == Submit \/ QueueMessage \/ ForceCompact \/ BeginCommand \/ Cancel \/ ClearPlan \/ Quit

Next == Loop \/ CancelSteps \/ ClearSteps \/ User \/ EndCommand \/ QuitNow \/ Crash \/ Restart

Spec == Init /\ [][Next]_vars

\* A request is answered or times out, a tool and a file operation end, the user answers
\* an approval question.  Nothing is assumed of the time limit of a quit.
Fairness ==
  /\ WF_vars(Loop)
  /\ WF_vars(CancelSteps)
  /\ WF_vars(ClearSteps)

FairSpec == Spec /\ Fairness

-----------------------------------------------------------------------------
(* Properties.  "Calm" ones hold while nothing writes or removes the file  *)
(* beside the task chain and no write fails.                               *)

\* A live process never leaves a checkpoint that the next start could not parse: the file
\* is torn only while some writeFile still has it open (writeCheckpoint, main's read).
TornOnlyWhileWriting == proc # "down" /\ checkpoint = Torn => writers # {}

\* When a compaction abandons a tool call and the turn goes back for the resume prompt,
\* the file names that call: it is reissued, not lost (the in-batch compaction of
\* runUntilIdle, and injectResumeContextIfPending after it).
AbandonedCallIsCheckpointed ==
  pc = "readReason" /\ turn.started => IsWhole(checkpoint) /\ checkpoint.pending

\* "[compaction failed] ... checkpoint was saved" is true when it is shown (compact's catch).
FailedCompactionIsSaved == pc = "failed" => IsWhole(checkpoint)

\* A running process removes a checkpoint with an open plan only when it holds an open
\* plan itself (injectResumeContextIfPending, and the clean end of runUntilIdle).
NoOpenPlanForgotten ==
  [][(proc = "up" /\ IsWhole(checkpoint) /\ checkpoint' = Absent)
       => (checkpoint.plan = "open" => plan = "open")]_vars

\* What makes the four properties above inductive, while the configuration is Calm: only
\* the task chain touches the file, the file is torn exactly in the middle of its writes, a
\* compaction past its first write finds its own checkpoint on disk, and apart from a resume
\* in progress the checkpoint on disk has the plan in memory (runUntilIdle, compact,
\* applyStateTool and injectResumeContextIfPending keep the two in step).
Calm == UserOps \cap {"clearPlan", "cancel", "quit"} = {} /\ ~DiskFails

WriteSteps == {"writeFirst", "writeFinal", "planWrite"}
Resuming == taskChain # <<>> /\ Task = "resume" /\ ~turn.started

OnlyTheChain ==
  /\ cancelling = NoCancel
  /\ clearing = "no"
  /\ ~cancelRequested
  /\ proc # "quitting"
  /\ writers \subseteq {"loop"}
ProcessState ==
  /\ pc = "idle" => ~turn.started
  /\ proc = "down" => taskChain = <<>> /\ plan = "none"
  /\ \A i \in 2..Len(taskChain) : taskChain[i] # "resume"
  /\ Resuming => pc \in InjectSteps \cup {"idle"}
TornOnlyInWrites ==
  /\ pc \in WriteSteps => writers = {"loop"} /\ checkpoint = Torn
  /\ pc \notin WriteSteps => writers = {} /\ (checkpoint = Torn => proc = "down")
JobIsSaved ==
  /\ pc \in {"summary", "openFinal", "compacted", "failed"} => checkpoint = job.ck
  /\ pc \in CompactSteps /\ job.after = "batch" => job.ck.pending
  /\ pc \in CompactSteps \cup {"planOpen", "planWrite"} => job.ck.plan = plan
PlanOnDisk ==
  /\ Resuming /\ pc \in {"idle", "readReason", "readPrompt", "readPlan"} => plan = "none"
  /\ pc \in {"readPlan", "consume"} => IsWhole(checkpoint)
  /\ Resuming /\ pc = "consume" => checkpoint.plan \in {"none", plan}
  /\ pc = "endClear" /\ IsWhole(checkpoint) => checkpoint.plan = "done"
  /\ (proc = "up" /\ IsWhole(checkpoint) /\ ~Resuming /\ pc \notin {"planOpen", "endClear"})
       => checkpoint.plan = plan

CalmInv ==
  /\ OnlyTheChain
  /\ ProcessState
  /\ TornOnlyInWrites
  /\ JobIsSaved
  /\ PlanOnDisk
  /\ AbandonedCallIsCheckpointed

\* While a turn is queued or running the UI is busy, so that a message typed meanwhile is
\* queued into it and a quit cancels it instead of waiting for it (onSubmit,
\* onResumeDecision, exitAfterSaving), until something that is not a turn clears the flag
\* under it: a /compact that ends, or /models, /server restart, /server calibrate or /reset,
\* none of which waits for a turn or is refused during one.  From then to the end of the last
\* turn in the chain the flag says nothing.
BusyWhileTurnRuns == proc = "up" /\ HasTurn(taskChain) => busy \/ freed

\* exitAfterSaving: quitting ends without its time limit, unless the turn being cancelled
\* waits for an approval, which no key can answer any more, or the flag was cleared under
\* the turn, which is then waited for and not cancelled.
QuitEndsUnlessAsked == proc = "quitting" /\ ~freed ~> (proc = "down" \/ pc = "gate")

\* cancelCurrentTurn: the task in progress ends, whatever it is doing, unless the user is
\* asked for an approval and is already quitting.
CancelEndsTheTask ==
  cancelRequested ~> (pc = "idle" \/ (pc = "gate" /\ proc = "quitting"))

\* Every task settles or gets an answer that goes on to a tool, however the requests fail: each
\* retry of runUntilIdle and compact is bounded, and each tail halving; only a session that is
\* quitting can be left at an approval question.
RetriesEnd ==
  pc # "idle" ~> (pc \in {"idle", "end", "call"} \/ (pc = "gate" /\ proc = "quitting"))

\* The loop is a serial queue of tasks.
Chain == INSTANCE TaskChain WITH
  chain <- taskChain, running <- pc # "idle",
  Restarts <- {<<>>, <<"resume">>}
ChainSpec == Chain!Spec
ChainSafety == Chain!Init /\ [][Chain!Next]_(Chain!vars)

=============================================================================
