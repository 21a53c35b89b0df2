# llamacli: a TLA+ model, its model checking and its proofs

llamacli is a terminal coding agent over a local llama.cpp server. This
directory holds TLA+ modules that model its core, the TLC configurations that
check them and the TLAPS proofs about them. Paths below are relative to
`src/src/`, the program's own code.

## 1. The system

| component | code | state | operations | modelled in |
|---|---|---|---|---|
| Agent loop | `agent/loop.ts` | `taskChain`, `messages`, `plan`, `queuedMessages`, `cancelRequested`, the counters of `runUntilIdle` | `send`, `resumeIfCheckpointExists`, `forceCompact`, `warmCompactIfNeeded`, `saveStateOnQuit`, `cancelCurrentTurn`, `clearPlan`, `queueMessage`, `snapshot` | `AgentLoop`, `History` |
| Checkpoint file | `compaction/checkpoint.ts` | `.llamacli/state/checkpoint.json` | write, read, clear | `AgentLoop` |
| Compaction | `compaction/compactor.ts`, `notes.ts` | the token memo, the kept tail, the notes | `runCompaction`, `selectKeptTail`, `estimateTokens` | `History`; its writes and retries in `AgentLoop` |
| Session snapshot | `sessionSnapshot.ts` | `session.json` | save, load, trim | `History` |
| Progress guard, circuit breaker | `agent/harness.ts`, `hermes/selfHeal.ts` | compactions without progress; a window of failures | `verdict`, `tripped` | `AgentLoop` (the breaker's verdict only) |
| Chat client | `backend/openaiClient.ts` | the controller of the request in flight, its timers | `chat`, `cancel`, `startWarmPrefill`, `stopWarmPrefill` | `ChatClient` |
| Session wiring | `index.tsx` | `busy`, `quitting`, the resume question, the commands | `onSubmit`, `/compact`, `/plan-clear`, `onForceQuit`, `exitAfterSaving`, `main` | `AgentLoop`, `ServerLife`, `Setup`, `Calibrate`, `SelfUpdate` |
| Terminal UI | `tui/App.tsx`, `pasteChip.ts`, `promptHistory.ts`, `transientLine.ts`, `selection.ts` | the input line, the questions, the log | key handler, ticks, folding, scrolling, selecting | `Prompt`, `Screen` |
| Server lifecycle | `backend/resolve.ts`, `detect.ts`, `llamaServer.ts`, `setup/modelSwitch.ts`, `serverPolicy.ts` | the processes, the record of what runs | start, adopt, launch, replace, exit | `ServerLife` |
| Setup | `setup/bootstrap.ts`, `llamaCpp.ts`, `stockRuntime.ts`, `modelSelect.ts`, `existingModel.ts` | engines and models on disk, `config.yaml` | `/models`, `/reset`, `ensureLocalStack` | `Engine`, `Setup` |
| Sizing, calibration | `setup/tuning.ts`, `calibrate.ts`, `calibrateTuning.ts`, `calibrateCommand.ts` | the tuning in memory and on file | derive, plan, apply, take back | `Tuning`, `Calibrate` |
| Self update | `selfUpdate.ts`, `updateSlots.ts` | `dist/`, stage, archive, slots, two hash files | check, apply, save slot, restore slot | `SelfUpdate` |
| Model download | `setup/download.ts`, `downloadProgress.ts` | `.part`, the record of ranges, the final file | `downloadFile`, ranges, verify, move | `Download` |
| Deferred backend, archives, presentation, skills | see `PROJECT.json` | | | not modelled (section 7) |

### How they interact

`index.tsx` owns the UI's `busy` flag and calls the loop. Most calls go through
`AgentLoop.enqueue`, a promise chain that runs one task at a time. Three do not:
`queueMessage`, `cancelCurrentTurn` and `clearPlan` act at once, between two
awaits of the running task. A turn (`runUntilIdle`) alternates chat requests
and tool calls. Before a request, before each tool call of a batch, and after a
"context overflow" answer it may run a compaction, which writes the checkpoint,
asks the model for a summary, and writes the checkpoint again. After an in-batch
compaction the turn abandons the rest of the batch and resumes from the
checkpoint it has just written, as the next start of the program would. Requests
of the chain and the warm prefill, which runs outside it, share one controller
field of the client.

At start-up `maybeSelfUpdateAndRestart` compares the publisher's manifest with
two hash files in `dist/`, saves `dist/` to a slot and swaps in the new build;
`resolveBackend` then finds, adopts or launches a server. `/models` and `/reset`
provide an engine and a model at the same time and write `config.yaml` at their
end; `/server calibrate` measures the running server and restarts it. Every
session of the machine meets the same servers, files and `dist/`, with no lock.

### What is hard

* two writers of one file, one of them outside the task chain; a file read three
  times over awaits and removed afterwards; `writeFile` truncates first;
* a cancel that arrives where there is nothing to abort, or while a timer, an
  error body or a buffered chunk of the same request is on its way;
* five kinds of retries, each with its counter, around a compaction with its own;
* a cut of the history that must not separate a result from its call, and a memo
  of its token count that must not be taken for another history's;
* `dist/` is replaced in two steps, a directory that exists counts as a whole
  slot, and a partial download has its full length from the start;
* a server that is loading, dying or foreign, met between two probes;
* one file, `config.yaml`, read at the start of a long command and written at its end;
* arithmetic that spends one memory on layers, cache and experts, with rounding;
* input that arrives in arbitrary portions, for several questions at once.

`PROJECT.json` lists the hazards one by one, each at its line.

### What correctness means, per component

* Agent loop: tasks run one at a time in order; every retry is bounded; a cancel
  ends the task; no call, plan or checkpoint is lost by a compaction or a resume.
* Session wiring: busy while a turn runs, unless something else has cleared the flag under
  it; a quit ends the process.
* History: what is sent is well formed, the newest message survives, the counts are right.
* Chat client: a cancel reaches the request it is meant for, and nothing else; every
  request ends; half of the arguments of a tool call is no answer.
* Servers: no second server beside one that can be found, no stranger stopped, nothing left behind, a true record.
* Setup: the engine taken runs, the user's keys and selection survive, nothing is fetched twice.
* Calibration: a plan keeps the margin, a derived tuning loads, the record is what serves.
* Self update: hashes are true, no update in a loop, the way back is the build before.
* Download: the final file holds the bytes of the whole file, whatever died between.
* Terminal: an answer goes to the question shown; every streamed delta is shown once.

## 2. Modules

| module | what it is |
|---|---|
| `TaskChain` | abstract specification of `AgentLoop.enqueue`: a serial queue |
| `AgentLoop` | loop, compaction, checkpoint and wiring, with the refinement mapping to `TaskChain` |
| `History` | the conversation: kept tail, repair, triggers, token memo, snapshot |
| `ChatClient` | the client's requests, timers and controller, the chain and the warm prefill that share it |
| `ServerLife` | the llama-server processes of a machine and one session after another |
| `Engine`, `Setup` | an engine found, fetched or built (`Engine`), beside the model and the configuration (`Setup` extends it); `MCSetup` gives TLC its instances |
| `Tuning`, `Calibrate` | the sizing arithmetic, and calibration with its restarts (extends it); `MCCalibrate` gives TLC its instances |
| `Prompt`, `Screen` | the input line with its questions; the log |
| `SelfUpdate`, `Download` | update, slots and rollback; the download of one file |
| `ConversationProofs` | the theorems about `History` and `ChatClient` |
| `TerminalProofs` | the theorems about `Prompt` and `Screen`, with the lemmas about flattening they share |
| `AgentLoopProofs`, `ServerLifeProofs`, `SetupProofs`, `CalibrateProofs`, `SelfUpdateProofs`, `DownloadProofs` | the theorems about the module of that name |

`AgentLoop` and `TaskChain` are composed by refinement, `Setup` with `Engine` and
`Calibrate` with `Tuning` by extension. Components that share no state at one time
in the code (an update runs before the loop exists) are not composed; where one is the
environment of another, its answers are choices there (`AgentLoop` lets a request end in
every way that `ChatClient` shows it can). Where two components share a proof module, the parts
of one have names of their own (`ClientSpec` in `ChatClient`, `ScreenSpec` in `Screen`).

### AgentLoop: how it corresponds to the code

JavaScript runs one callback at a time, so an action is a stretch of code from
one `await` to the next. `pc` names the await in which the task at the head of
`taskChain` is suspended. Labels of the set `Sync` are not awaits; they split
one stretch of code into readable actions, and no action of the user, of a
cancel or of `clearPlan` is enabled at them (`EventLoopFree`).

| variable | code |
|---|---|
| `proc` | the process: running, in `exitAfterSaving`, gone |
| `busy` | the `busy` prop, set by `onSubmit`, `/compact`, `onResumeDecision` and the commands below |
| `commands` | how many of `/models`, `/server restart`, `/server calibrate` and `/reset` are between their `setBusy(true)` and their `setBusy(false)` |
| `freed` | no variable of the program: whether a `/compact` or one of these commands has cleared `busy` under a turn of the chain |
| `taskChain` | the promise chain `AgentLoop.taskChain` as the tasks it still has to run |
| `pc`, `calls`, `turn`, `job`, `aborted` | where the running task is; calls left of the batch; counters local to `runUntilIdle`; the compaction or plan write in progress; whether `backend.cancel()` reached the request in flight |
| `plan`, `queuedMessages`, `talked`, `cancelRequested`, `progress` | the fields of `AgentLoop` of that name; `talked` is "`messages` holds more than the system prompt" |
| `cancelling`, `clearing` | a call of `cancelCurrentTurn` or `clearPlan` in progress |
| `checkpoint`, `writers` | the file: absent, torn, or a checkpoint; and who has it open for writing |

Choices stand for data: whether a measured token count triggers a compaction,
whether a compaction shrank anything, whether the progress guard's minutes have
passed, whether the circuit breaker trips, whether a tool needs approval and
what the user answers. A plan is `none`, `open` or `done`; a checkpoint keeps
its reason, plan and whether a pending call is in it.

No slash command waits for a turn or is refused during one. What four of them do is in the
modules of setup, servers and calibration; here `BeginCommand` and `EndCommand` are what
they do to `busy`, at any moment between.

A task that settles leaves the chain and adds its caller's follow-ups
(`FollowUps`): after a `send`, `warmCompactIfNeeded` and the snapshot; after the
save of a quit, the exit.

### History: how it corresponds to the code

A message is its role, its size in coarse units and the number of calls in it. `msgs` is
`this.messages` without the first; `sys` says what the system message holds beyond the
base prompt (at most one summary, at most one copy of the notes). `pc` is where the
turn is, `batch` the calls of the last answer that are not handled yet, `job` the
compaction in progress with its caller, `memo` the pair of key and count that
`estimateTokens` keeps, `lastUsed` `lastCompactionUsed`, `saved` the snapshot, and `trimmed`
whether the history came from one that had lost its start.

`Cut`, `Repaired`, `WithUser` and `KeptTail` are `selectKeptTail` and its repairs, as
functions of the history; `Compacted` is the whole of `runCompaction`'s effect on it. The budget of
the tail is measured through the same memo, over the system prompt and one "." of the user
(`Probe`): it has the key of a history whose one message is one character, so `Lengths` lets the
user type one character or more. The summary's size is a choice up to its cap. A start with a
checkpoint asks about it (`RestartAndResume`, `RestartAfresh`); without one the notes and the
snapshot stay where they are (`Restart`).

### ChatClient: how it corresponds to the code

An action is one callback: a header, a chunk, a timer, a key, or a stretch of the running task.
`phase` and `why` are, per request (`main` for the chain's, `warm` for the prefill), how far it
is and its abort reason; `current` is `currentChatController`; `deltas`, `toolCalls`,
`idleTimedOut` and `deadlineHit` are the locals of the stream. A chunk of the network may
hold several lines, and the cap is compared after the last of them (`DeltasPerChunk`).
`toolCalls` says how far the last call is: none, its name only, half of its arguments, whole.
A call that breaks off before its arguments begin passes the filter and is handed over
(`Reported`). `MainRejected` is the catch
that decides what an abort meant; `outcome` is what the loop is told. A server may break
off, send an error body, go silent, or send for ever.

### ServerLife: how it corresponds to the code

`server` has the processes that hold a port: each loading, serving or dying, a
llama-server of the user or a session, a systemd unit, a silent listener or a test double. A
tuning is its `--n-cpu-moe`; one below `need` runs out of memory while it loads. `disk` and
`mem` are `config.yaml` and the session's own copy. `pc` is `discover`, `hold` (waiting for a
silent port), `spawn`, `watch`, `release` (waiting for a port to be given back), `switch` or
`up`. `Resolving` is `resolveBackend`, `Launching` the launch with its out-of-memory retries,
trial and restore, `Switch` `switchModelAndServer`, which asks again who holds the port.
`lookup` says what the machine can tell of a port that is held: whose it is (`owners`), only that
it is held, since the command line of the holder cannot be read (`ports`), or nothing.

### Setup and Engine: how they correspond to the code

An engine is a slot with a grade that says what probes answer when they run it; which
grade a fetched or compiled one has is chosen when it is unpacked. `eng` is the acquisition
in progress, `call` the command, `files` what is at each path (nothing, too short, wrong
bytes, the model), `room` the disks with room, `conf` and `tmp` the configuration and the file
written beside it. `EnginePart` and the transfer interleave as the two halves of
`ensureLocalStack` do; `WriteConfig` and `RenameConfig` are its end. `Restart` is a session
that ends anywhere and the next one's `loadConfig`.

### Tuning and Calibrate: how they correspond to the code

`Tuning` has the arithmetic with its rounding, in units of 64 MiB and blocks of 4096 tokens.
A model has two prices of a layer: `per`, what the code takes it to cost, and `real`, never more.
In `Calibrate`, `run` is the running server's tuning, `memory` and `disk` the two records,
`cmd` the command with the tuning it started from and its plan. `Plan` is
`planCalibration`; `Launched` is what a launch can end in: with three raises, of 15 % and two layers
at least, after running out of memory; with the trial that brings experts back or, where this model
was calibrated before or the card cannot be read, without it; or with nothing, since every
launch can fail, the one that brings the first tuning back included. `Replace` is the restart, and the one that takes it back. Which
process holds the port is in `ServerLife`.

### Prompt and Screen: how they correspond to the code

`Prompt` reads pieces of input in any portions. `held` is `mouseBufferRef`, `asked` the
questions that wait, `blocks` the pasted blocks by number. `Handle` is one read, `Key` the key
handler in the order of its tests, `Shown` what the status line shows and `Answering` what a key
goes to: two orders that the code states separately. `Printed` is the text of a read.

A label of a paste is two cells, so that the cursor can stand inside it and an edit can break it.
`PastesStayAttached` leaves out the numbers on labels, or parts of labels, that the history
holds (`Recorded`). Sending replaces whole labels only: one somebody wrote into goes to the history
as it stands, and the history outlives the session while the counter of the labels does not.
Recalled and completed by hand, it is a second label of another paste, and a backspace
at the one takes the block of the other.

`Screen` has the log as lines whose text is the sequence of deltas in them; `asBuf` and `reBuf`
are the buffers between two ticks, `asId`, `reId`, `toolId` and `barId` the ids that say which
line is written to, `closed` the folded blocks, `offset` and `drag` the window and the selection.

### SelfUpdate: how it corresponds to the code

A step of a process is one request or one file operation. A tree of files is the
set of builds its files come from, whether it is a complete build, and its two
hash files; the sha256 of an archive stands for the build in it.

| in the model | code |
|---|---|
| `published` | `bin/manifest.json` and the archive beside it |
| `dist`, `slots` | the installed tree; `update-slots/` in the order of mtimes, newest first |
| `sha`, `applied` of a tree | `LOCAL_HASH_FILE` and the applied-update file |
| `archives` | processes with a verified archive inside `dist/`, which a removal of `dist/` takes away |
| `pc`, `target`, `slot` | where each process is, the manifest it is installing, the slot it is saving or restoring |
| `FetchManifest` to `Ask` | `checkForUpdate` and the question of `maybeSelfUpdateAndRestart` |
| `Download` to `WriteApplied` | `applyUpdate`, with `saveSlot` and its pruning in it |
| `Rollback` to `RestoreCopy` | `/rollback confirm` and `restoreSlot` |
| `Publish` | `scripts/update-bin.mjs`: a later build |

`Faults` chooses what may go wrong: `crash` (a process dies between two steps),
`disk` (an operation fails, and the code's catch runs), `halfSlot` (a copy into a
slot or a removal of one stops half way). The copy of a restore is one step
that may be interrupted. Opting out is decided before the first step. A hash file
between its open and its write exists for a process that dies there (`Torn`), not
for another that reads it at that moment.

### Download: how it corresponds to the code

The file is cut into the ranges of `planRanges`. A `.part` file is its length in
ranges and the set `right` of the ranges whose bytes are the right ones: a range
never written is a hole of zeros. `flight` says where the workers are with each
range, `done` is `progress.ranges` in memory, `record` the file with them on disk,
and `pc` the await of `downloadFile` the call is at. A crash loses the locals
and nothing else. `Servers` says what a probe may find: `ranges`, `stream` (a
size, no ranges), `unsized`. `Faults` chooses crashes, failing requests and file
operations (`io`), failing operations on the record, which the code swallows
(`record`), and bodies that end early (`short`). One process downloads at a time.

## 3. Runs

An invariant named `...Inv` is the type invariant and the named state invariants of its module.

| run | bounds | states | shows |
|---|---|---|---|
| `loop_calm` | 2 tasks chained, batches of 2 calls, 1 typed-ahead message, 1 retry of each kind, 1 tail halving, plans of every kind, crash and restart at any step | 610 753 | the file is torn only during a write; an abandoned call is in the checkpoint the resume reads; a failed compaction has saved; no open plan is forgotten; every retry ends; the loop implements `TaskChain`, its fairness included |
| `loop_cancel` | cancel, `/plan-clear`, quit and 2 slash commands at any step, failing disk, a model that calls tools for ever | 435 673 | the UI is busy while a turn runs, unless a command has cleared the flag; a cancel ends the task; a quit ends without its time limit unless a question is open or the flag was cleared |
| `history` | 5 messages, of one character or more, batches of 2, results of two sizes, snapshots of 2, 1 halving, 2 overflows | 3 600 378 | every result has its call and every request a user message (`HistoryInv`); the newest message survives; the memo is right but for the notes, and never the probe's; compactions need growth |
| `chat` | 3 deltas, 2 in a chunk, deadline and prefill on | 6 357 | one controller is one request; half of a call's arguments is no answer; a cancel is reported as one; every request ends |
| `server` | 2 ports, 3 processes, 2 starts, 1 command, 1 program of the user, 1 death, owners or ports or nothing to be looked up | 1 360 786 | nothing is left behind and the record is true (`ServerInv`); launches are alone among what can be found; strangers are safe; every start settles |
| `setup` | 2 disks, 2 models, a ladder of 2, 2 commands, 1 failure or crash | 1 632 034 | the engine runs and the user's keys survive (`SetupInv`); the selected model is the one provided; a reset keeps the selection; nothing is fetched twice; every command ends |
| `calibrate` | 4 machines, 16 models, others at 0 and 2.5 GiB, 3 launches | 370 426 | plans keep the margin and derived tunings load (`CalibrateInv`); experts come back within the margin; the record is what serves |
| `calibrate_partial` | the same | | violation: see the finding below |
| `prompt` | 4 cells of text, 2 pastes, 1 message of history, letters `/` and `y` | 2 852 350 | the keyboard is never held (`PromptInv`); a label keeps its block, but for numbers the history holds; an answer goes to the question shown |
| `screen` | 3 lines kept of 4, a box of 2 rows, 2 deltas of each kind, 2 replies, 2 updates of the bar | 397 244 | deltas are shown once and in order, the window fits (`ScreenInv`); the bar shows its newest text; text appears |
| `update` | one process at a time, 5 builds, 3 slots, crashes and a failing disk at every step, rollbacks | 86 756 | a complete build never has the hash of another; no build is installed over itself; the newest slot is the build an update replaces |
| `download` | 3 ranges, 2 connections, every kind of server and fault, final files removed, staging on another filesystem | 7 506 | only a whole file gets the final name; every call ends |

Why the bounds are enough: each case the properties tell apart needs few of a kind, and
every bound allows those and one step beyond them. The loop needs two tasks (one running, one
queued), two calls in a batch (one done, one abandoned) and one retry with its
limit; counters are compared with their limits only. A history of five messages holds a
user message, an answer with a batch of two and something before and after, and the
smallest budget cuts between any of them. A stream of three deltas has a first, a last
and one in between, and with two in a chunk it reaches the cap exactly or passes it. Two
slash commands at a time are one that clears the flag and one that is still at work, and in `loop_cancel`
every plan the model writes is empty (`Updates`): the writes happen, and no property of that run is
about what is in them. Servers need two ports (the configured one and
another) and three processes (the one that runs, its successor, a stranger). Setup needs two
disks and two models (the selected one and the catalogue's). Calibration needs a
card smaller and larger than the model, one pool, and no card. The prompt needs two labels
and a message long enough to stand between them; the log one line more than it keeps. Updates
need three builds, downloads a range done, one in flight and one to do. In
`history` there is no warm trigger (`Warm = 0`), and in `server` a stopped server gives
its port back within the wait (`Lingers = FALSE`): the theorems cover the other values.

`CHECK_DEADLOCK FALSE` is stated where the system may stop: every task settled or a bound
of commands used up, or a torn checkpoint or no complete build in `dist/`, after which the program
does not start again. `chat`, `download` and `prompt` never stop.

### Fairness

* `AgentLoop`: weak fairness of the loop's steps taken together, of the steps of a cancel and of
  the steps of `clearPlan`. A request is answered or reaches a timer; file operations and tools
  end; the user answers an approval question. One task runs at a time and its steps stay
  enabled, so fairness of the disjunction suffices. Nothing is assumed of crashes, restarts
  or the time limit of a quit.
* `ChatClient`: timers fire, a rejection is delivered, a live stream brings a chunk, its end or
  silence, and an error body that has begun ends. The last is an assumption: no timer of
  the code bounds it (see below).
* `ServerLife`: the session goes on with what it is at, a load ends, a process told to stop stops.
* `Setup`: a command goes on (`Step`). `Screen`: the tick of a running screen comes.
* `Download`: the steps of a call go on; the runtime's own limits end a silent request, since
  the code sets none.
* `SelfUpdate`, `History`, `Prompt` and `Calibrate` state no liveness: they wait for the user.

### Finding

`CalibrationLeavesTheRest` (run `calibrate_partial`). The plan of a calibration names the
fields that change; "fields the tuner does not decide are absent" (`setup/calibrateTuning.ts:85`),
and the command prints for such a field that it was not measured and not touched
(`calibrateCommand.ts:122`). The restart (`calibrateCommand.ts:128`) passes the plan to
`switchModelAndServer`, which fills every absent field with the default of a first
launch (`modelSwitch.ts:218-220`): a calibration that changes the threads alone relaunches a
server that used the card with no layer on it.

### Further disagreements between the code and its comments

Met while modelling; the models contain the behaviour, and no run states the comment.

Loop, checkpoint and wiring:

* The resume step reads the checkpoint and then removes it. A cancel whose write falls between has its
  checkpoint removed, and the turn says "[cancelled] work saved" (`agent/loop.ts:576`, 1714
  against 1145, 1419).
* After an in-batch compaction the resume step removes the only file with the plan (`loop.ts:1465`); the
  comment at 1619-1622 says a plan survives a hard kill at any point.
* `cancelRequested` is reset only where a turn notices it, so a cancel that finds no turn
  ends the next one at its first tool call (`loop.ts:1706` calls it harmless). In the UI
  of this commit only a quit cancels.
* A message typed during the last request of a turn is applied in the next turn, after
  the message that started it.
* A turn that ends with no plan leaves the checkpoint of a compaction on disk
  (`loop.ts:1383-1396`), so the next message begins with a resume of finished work.
* The catch of `compact` says the checkpoint was saved also when its write failed (`loop.ts:2090`).
* A slash command is not gated on `busy`, and `/models`, `/server restart`, `/server calibrate`
  and `/reset` clear the flag when they end (`index.tsx:1478`, 1533, 1574, 1659), also under a turn.
  So does a `/compact` that was given before another one and the message (1698). The input line then
  takes a message as a new turn, which waits in the chain, and a quit waits for the turn
  instead of cancelling it (its time limit ends it).
* While a quit is saving, an approval question can come up that no key answers.
* `main` reads the checkpoint unguarded (`index.tsx:701`): a torn file stops every start.

History:

* "Cannot go stale" (`compactor.ts:212-216`) is not so: the notes that a compaction appends after its
  measurement (`loop.ts:2047-2069`) are not counted, which is as far off as `MemoIsCurrent` allows.
* The key of the memo does not tell the budget's probe (`loop.ts:1921-1929`) from a history of one
  message of one character. The history does not get the probe's count, since it was measured
  before; the other way round, its own count, summaries and notes included, passes
  for the overhead, and the tail's budget is smaller by them.
* Without a checkpoint no resume is asked for, and the snapshot and the notes of the last
  session stay: the next checkpoint that is resumed meets them.
* After an in-batch compaction the abandoned calls can still be in the kept tail
  (`loop.ts:1433-1436`, 1456-1457). A snapshot cut to 200 messages can start inside a batch.
* The warm compaction has no condition of growth.

Client:

* "The broken call itself never enters the history" (`openaiClient.ts:508`) holds of a call
  cut inside its arguments. One cut right after its name passes the filter (510), which lets empty
  arguments through for tools that have none, and the loop runs it with `{}` (`tools/index.ts:340`).
* The reads of an error body and of a JSON body have no timer (against `openaiClient.ts:40-52`);
  a stream of keep-alives re-arms the idle timer for ever; a cancel during an error body
  surfaces as a raw abort.
* A deadline before any text gives an empty summary, which replaces the history (`compactor.ts:901-903`).

Servers:

* "Exactly ONE llama-server" (`modelSwitch.ts:4-19`) holds of what can be found. Where command lines
  cannot be read, a restart on a port that is free launches beside a server on another port;
  a start only looks at the ports it probes. `LaunchesAlone` says what is looked at.
* The gate decides before provisioning, and the switch asks again later and stops what it finds
  without another confirmation (`serverPolicy.ts:14-15`). "Ours" is any command line with llama-server in it
  (`modelSwitch.ts:295`, against 23-30).
* `detect.ts:298-299` contradicts 270-276; 313-319 adopts a test double that answers late. A port
  whose process has died is adopted as still loading, a dying predecessor can pass for the
  trial's success, and a restart right after a quit can adopt the dying server.
* A restart records its tuning only with a calibration (`serverCommand.ts:68`), and reads the one
  to use from the session's stale copy (`index.tsx:49-56`). An adoption drops the `llama`
  block (`resolve.ts:622` says other keys are kept), and a later record writes one without a binary.
* "Connected to the new server" (`index.tsx:984`) is printed while the client keeps its port.
* A session that ends stops a server that another one has adopted; two sessions that start at
  once launch on the same port.

Setup:

* A file with the wrong hash (`bootstrap.ts:599-607`) is then found again by its size and used
  (640-645). A short file that is in use is kept for ever. Room is asked for
  even for a file that is already there (581-588).
* Commands are not gated on `busy`, so two of them overlap between the reading of
  `config.yaml` and its writing, over one temporary file. `loadConfig`'s catch takes a syntax
  error for a missing file and overwrites it in place (`config.ts:326-353`).
* A rejected runtime stays on disk and is accepted later; a torn clone breaks every later
  build (`llamaCpp.ts:932`); a failed accelerated build is not followed by the CPU one in
  `stockRuntime.ts:394-398`. When the engine fails and the model arrives, the model is not recorded.
* `/reset` says it downloads nothing (`index.tsx:1619`) and may; it plans a port around the
  program's own server (`ports.ts:94-132`), and drops the compaction block unless one
  key of it is set (`bootstrap.ts:948`, against `index.tsx:1616`). The slash menu
  takes an argument from where the full name of the command would end, also when less was typed
  (`App.tsx:1665`).

Calibration:

* A calibration with no server running launches one with the default of every field; the
  taking back uses the tuning in memory, and so does `/reset` through `/server restart`
  (`index.tsx:1649-1651`). A refusal by the gate restarts a server that was not touched.
* For a model with experts the price of a layer excludes those on the CPU, so the same slack is
  spent on layers and on experts; a deficit is taken from layers and from the context, each
  in full; a change of the cache's type is not paid for, and an absent type is priced as q8
  though the server uses f16. `ownServerVramGiB` mixes units (`calibrateTuning.ts:233`).
* What is kept back for a growing context was measured over 61 440 tokens
  (`calibrateTuning.ts:120-128`); a context that grows by more can need more, so
  `PlanKeepsMargin` is stated within `Span`.

Terminal:

* The filter for mouse reports never matches a report that was split, since the library has
  removed its ESC (`App.tsx:1415`, against 1140-1147 and 1429-1431); reassembly before it catches them.
* A reply that fails does not release its line, so the next reply is appended to it
  (`index.tsx:908-912`), and text buffered before the first tick stays (against `App.tsx:1216-1221`);
  the comments at 1266-1269 and 1308-1316 describe a tick and a render that are two.
* One key folds each visible row the other way (against 1742-1744). A drag that did not
  start over the log can copy (against 1515-1517). After a fold a stale offset makes PageDown do nothing.

* A broken label is kept by the history (against `pasteChip.ts:73-74`, "never the label itself"), and
  one from an earlier session can meet its double (against 48-50); the cursor does stand
  in the middle of the text (against 10-11).

Update and download:

* A slot counts as saved when its directory exists (`updateSlots.ts:49-56`), so after a copy that
  stopped half way the next update goes on with half a way back (against `selfUpdate.ts:384-385`).
* A failed rename or write after the removal of `dist/` leaves no program, or one without its
  hash (`selfUpdate.ts:429-443`, against 485-488), and a build that never boots cannot run `/rollback`.
  A kill between the rename and the hash file leaves an installation that never updates again.
* Two processes that install different releases at once may write each other's hash files.
* Without ranges a second attempt receives the whole body and appends it to what the first one left
  (`download.ts:764`, against 757-759); only the publisher's hash, where known, notices.
* A kill between the move of a finished file and the removal of its record (`download.ts:549-550`)
  leaves a complete record; once the file is removed, a call without a hash moves a file of
  zeros. A range answer that ends early is recorded as finished (724-735). Without a
  record any file of the right length counts as done (466).

## 4. Proofs

Every theorem is proved for every value of the constants that satisfies the named
assumptions of its module; what is assumed beyond those is in the table. An invariant
that is not inductive is proved from one that is (`Inv`, `CalmInv`, `ScreenIInv` and the like), whose
parts are named in the proof modules.

| module | theorem | states | beyond the constants' types |
|---|---|---|---|
| `AgentLoopProofs` | `TypeCorrect` | `[]TypeOK` | |
| | `LoopIsASerialQueue` | `ChainSafety`: every step is one of `TaskChain` or leaves the queue alone | |
| | `BusyWhileTurnRunsCorrect` | `[]BusyWhileTurnRuns`, with every command, cancel, quit, crash and failing write | |
| | `CalmCorrect`, `TornOnlyWhileWritingCorrect`, `AbandonedCallCorrect`, `FailedCompactionCorrect`, `NoOpenPlanForgottenCorrect` | `[]CalmInv` and the four safety properties of `loop_calm` | `Calm` |
| `ConversationProofs` | `Invariance`, `HistoryCorrect`, `MemoIsCurrentCorrect` | the inductive invariant, `[]HistoryInv`, `[]MemoIsCurrent` | |
| | `NewestSurvivesCorrect`, `CompactionsNeedGrowthCorrect` | the action properties of those names | |
| | `TypeCorrect`, `OneControllerCorrect`, `BrokenCallCorrect`, `CancelIsReportedCorrect`, `NeverBoth` | the properties of `chat`; a turn's request and the prefill are never in flight together | |
| `TerminalProofs` | `PromptInvariant`, `PromptHolds` | the inductive invariant of the input line, `[]PromptInv` | |
| | `PastesStay`, `AnswersGoWhereTheyShould` | `PastesStayAttached`, `AnswersGoToTheQuestionShown` | |
| | `ScreenInvariant`, `ScreenHolds` | the inductive invariant of the log, `[]ScreenInv` | |
| | `ProgressStays` | `ProgressIsShown` | |
| `ServerLifeProofs` | `ServerCorrect`, `StrangersAreSafeCorrect`, `LaunchesAloneCorrect` | the safety properties of `server` | |
| `SetupProofs` | `SetupCorrect`, `SelectedIsProvidedCorrect`, `ResetKeepsTheSelectionCorrect`, `HaveItDontFetchCorrect` | the safety properties of `setup` | |
| `CalibrateProofs` | `CalibrateCorrect`, `ComingBackKeepsMarginCorrect`, `RecordsWhatServesCorrect` | the properties of `calibrate` | |
| `SelfUpdateProofs` | `TypeCorrect` | `[]TypeOK` | |
| | `AlwaysStartableCorrect` | `[]AlwaysStartable`, for any number of processes | `Undisturbed`: no crash, failing disk or rollback |
| | `RecordsAreTrueCorrect`, `NoReinstallCorrect` | the properties of those names, with every fault | `Alone`: one process |
| | `NewestSlotIsReplacedCorrect` | the property of that name, with crashes and a failing disk | `WayBackAssumption`: `Alone`, and whole operations on slots |
| `DownloadProofs` | `TypeCorrect` | `[]TypeOK` | |
| | `FinalIsWholeChecked` | `[]FinalIsWhole`, with every fault | `Hashed` |
| | `FinalIsWholeUnchecked`, `RecordIsOnDiskCorrect`, `NoRangeTwiceCorrect` | the properties of those names, with crashes and failures | `Plain`: ranges, records that can be saved, whole answers, files that stay |

### The arguments

**AgentLoop.** `Calm` says that the user neither cancels, quits nor clears the plan, and that no
write fails: only the task chain touches the file. Without it the four properties are false
(section 3 says how), so it is the line between what the chain guarantees and what
it cannot. `CalmInv` adds what the code keeps in step: no writer but the loop
(`OnlyTheChain`), a resume only at the head and in its first steps (`ProcessState`), a file
torn exactly between open and write (`TornOnlyInWrites`), a compaction that finds its own
checkpoint on disk (`JobIsSaved`), and, outside a resume, a checkpoint with the plan in
memory (`PlanOnDisk`). The busy flag is another argument, with cancels, quits, crashes and failing
writes allowed. `TurnsInv` says that the chain holds at most one turn, whichever task is
at its head; so the task whose end clears the flag is that turn, and nothing is left behind it that
needs the flag. A `/compact` and
the four commands clear the flag on behalf of what is no turn: `freed` remembers that until
the chain has no turn left, and only that. `SessionSteps` sums every action up as one of a few
changes of the session, and the proof is about those.

**History.** `Inv` is the types with `Owners` (each result has its call, over the history and over what
is saved), `BatchInv` (while a batch is in progress the next result will have its owner), `UserInv` (a
user message stays in the history of a turn), `SavedInv` `MemoInv` (the memo's key is never of a
longer history than there is), `NotEmpty` and `ProbeInv`: a history with the probe's key has been
measured before a compaction of it can begin, so the probe finds its key in the memo and writes nothing.
What resumes a checkpoint is longer than one character (`ResumedIsNoProbe`). That a compaction keeps `Owners` is a statement about `KeptTail`
for every history, budget and cut. It rests on two facts about data that are inductions over a
sequence, which the library's theorems cannot give here: the least element of a set
of numbers (`LeastElement`, from well-foundedness), and from it induction for a set of numbers
(`AllNumbers`) and "the sum of sizes is a number" (`TotalIsNumber`).

**ChatClient.** `OneController` is not inductive: that a prefill is never in flight when the
chain asks follows from `SlotInv` (when one may be in flight at all) and `TaskInv` (the task awaits
an answer exactly while its request is in flight). `CapInv` says a stream at the cap is over.

**ServerLife.** What a step may stop rests on one process per port and on what the session launched
being a llama-server (`OnePerPort`, `Owned`); that a launch is alone on what is left alive on the way to it
(`AloneInv`); that the file is true on where the job's port and tuning come from (`RecordInv`).
Both speak of the ports the launch at hand has looked at (`Probes` for a start, `Known` for any):
where command lines cannot be read, a replacement looks at its own port only, and what it leaves
on another one is set apart (`Left`, `Described`).

**Setup.** `EngineInv` is that nothing is taken unprobed. What `config.yaml` ends up naming is decided
far from where it is written: `KeysInv`, `SwitchInv` and `ResetInv` carry it from the reading of the
file through the choice of the model and the transfer to the rename; `FetchInv` says what
was looked at before a transfer.

**Calibrate.** The arithmetic is that of shares: a number of layers times their price never
exceeds the memory it was divided from, whatever the rounding (`Share`). The invariant needs
only that a server that runs has its layers and context decided. A raise only adds experts, so what it keeps of a tuning it keeps three
times (`RaiseFacts`, `RaisesFacts`); `LaunchedFacts` goes through the ways a launch can end.

**SelfUpdate and Download.** Each property is about one moment, and what makes it true was done
steps before. `SwapInv` counts whose rename is still to come; `RecordInv` adds that slots carry
their own hashes; `WayBackInv` the order of the slots. With a hash `CheckedInv` is short (what is
moved is the verified file); without it `RangesInv` says what record, memory and file claim
about each other at every step.

**Flattening.** What a key prints, what a message stands for and what the log shows of a stream are
concatenations of sequences of texts. The community module defines them by a recursive
function of partial concatenations. `JoinsExist` and the lemmas after it show, by
`AllNumbers`, that there is exactly one such function; from there on the proofs use only what
flattening does when a text is added at the end, the first is dropped, or one in the middle grows
(`FlattenAppend`, `FlattenFirst`, `FlattenGrown`), and how long the result can be (`FlattenBound`).

**Prompt.** `ReadInv` says what the terminal can still be about to send: the end of a report is the last
piece of a burst, and what is held back is the start of a report whose end is the only thing
unread, so the keyboard is heard wherever the reads were cut.
`PastesStayAttached` needs `LabelInv`: over the message and the waiting draft, every label number
stands on one label and is at most the counter. The numbers that the history
holds are set aside everywhere, in the invariant as in the property. Each edit is a splice of the
text (`Spliced`), and `SplicedLabels` says what a splice does to labels; recalling exchanges message
and draft, which the invariant treats alike. Then the block that a backspace or Ctrl-K drops is
that of the label it takes away, because there is no second one. `AnswersGoWhereTheyShould` compares
the two orders of the questions, and shows that no other branch of the handler is reached with a
question open.

**Screen.** `StreamedTextIsKept` is not inductive: a flush that extends the line of an open stream is
right only while no later line of that kind exists. `Stream` adds it (`Behind`), with the kind of the
line that an id stands for (`Writes`); ids are never given out again (`Listed`), also those of lines
the cap has dropped. Until it drops one, the log holds every id from one
on (`Whole`), which is what "nothing is missing" rests on. `LogOK` is this for answer, reasoning and
bar at once. Three things happen to a log: a line is added at its end, with the oldest dropped at
the cap; an open line grows; the bar's line is rewritten where it is. Each has its
lemma, and the actions are compositions of them. `WindowFits` is arithmetic over the number of
rows, for which the flattened rows need only a length. `HasRoom` keeps room for
the lines that filled buffers will take (`Owed`), so the ids stay within `MaxId`, a bound of the model.

### Only model-checked

Every invariant and every action property of the passing runs is a theorem. What stays with TLC is
liveness, which rests on fairness and `ENABLED`: `RetriesEnd`, `CancelEndsTheTask`,
`QuitEndsUnlessAsked`, the fairness part of `ChainSpec`, `CallEnds`, `RequestsEnd`,
`StartSettles`, `CommandsEnd`, `TextAppears`.

`AlwaysStartable`, `RecordIsOnDisk`, `NoRangeTwice` and `NeverBoth` are proved and belong to no run.

## 5. Plan

1. Loop, update and download with their proofs (done).
2. History, client, servers, setup, calibration and terminal with their proofs (done).
3. Abstract specifications of what an update promises (a program directory that is one complete
   build after another) and of a download (a file that appears whole or not at all).
4. Two processes on one `.part` file; two sessions on one machine.

## 6. Running

`tlc -config loop_calm.cfg AgentLoop.tla` checks one run. The name of a configuration says its
module: `loop_` `AgentLoop`, `history` `History`, `chat` `ChatClient`, `server` `ServerLife`, `setup`
`MCSetup`, `calibrate` and `calibrate_partial` `MCCalibrate`, `prompt` `Prompt`, `screen` `Screen`,
`update` `SelfUpdate`, `download` `Download`. `tlapm AgentLoopProofs.tla` checks the proofs of a module.

Definitions whose comment begins with "Mutant" are used by no specification: each is a
plausible mistake in the definition it names, and `PROJECT.json` says which property notices it.

## 7. Not modelled, and why

The deferred backend is used by no code but its test. Archives are parsers without
state. Tools act on the user's files and on git; what the loop sees of them is a result, a refusal or a
question. Presentation, skills and rules are text. Of setup, offline installs, package managers,
macOS and systemd runtimes, previews and reports are left out;
of the lookup of a port, that the listing shows no process id for another user's process, which
then reads as a free port (`modelSwitch.ts:334`); of the client, the
short requests for properties, token counts and models; of the terminal, the wrapping of
long lines, colours and layout. Clocks, message texts and, outside `History`, token counts
are choices, so that what a model shows holds whatever they are.
