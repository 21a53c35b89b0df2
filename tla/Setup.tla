-------------------------------- MODULE Setup --------------------------------
(* The setup of the local stack inside a session: "/models x" (selectModel,     *)
(* then provisionForSwitch when something is missing) and "/reset confirm",     *)
(* both of which run ensureLocalStack (src/setup/bootstrap.ts, provision.ts,    *)
(* modelSelect.ts, existingModel.ts, disk.ts), and loadConfig at the start of   *)
(* a session (src/config.ts).  Everything ends up in one file, config.yaml.     *)
(*                                                                              *)
(* ensureLocalStack reads that file once, at its beginning; it looks for an     *)
(* engine (module Engine) and for the model's file, fetches what is missing     *)
(* of both AT THE SAME TIME, and writes the file at its end.  Sizing, ports     *)
(* and the server itself are not in here.                                       *)
EXTENDS Engine

CONSTANTS
    Dirs,         \* directories models are kept in
    ModelsDir,    \* the one this install downloads into
    Pick,         \* chooseModel: what the catalogue gives this machine
    Fits,         \* the models this machine can run at all
    Known,        \* the paths where a model can be at the start
    Contents,     \* what a file can hold at the start
    MaxCommands   \* bound: commands and session starts

ASSUME SetupAssumption ==
    /\ ModelsDir \in Dirs
    /\ Pick \in Fits
    /\ Fits \subseteq Models
    /\ Known \subseteq Dirs \X Models
    /\ Contents \subseteq {"none", "short", "corrupt", "whole"}
    /\ MaxCommands \in Nat

Paths == Dirs \X Models
NoPath == <<"no directory", NoModel>>
ModelAt(p) == p[2]

\* config.yaml: the user's own keys, and what the machine derives
NoConfig == [state |-> "none", keys |-> FALSE, model |-> NoPath, llamaModel |-> NoPath,
             bin |-> NoSlot]
Configs == [state : {"none", "torn", "ok"}, keys : BOOLEAN, model : Paths \cup {NoPath},
            llamaModel : Paths \cup {NoPath}, bin : Slots \cup {NoSlot}]

VARIABLES
    files,     \* path -> what is there: nothing, too few bytes, wrong bytes, the model
    room,      \* the directories whose disk has room for a model
    conf,      \* config.yaml
    tmp,       \* config.yaml.tmp
    call,      \* the command that runs
    commands   \* how many were given

setupVars == <<files, room, conf, tmp, call, commands>>
vars == <<engineVars, setupVars>>

NoCall == [kind |-> "none", at |-> "idle", existing |-> NoConfig, want |-> NoModel,
           inUse |-> NoPath, model |-> NoModel, hashed |-> FALSE, path |-> NoPath,
           dest |-> NoPath, fetch |-> "idle", errors |-> FALSE, ok |-> FALSE,
           abort |-> FALSE, checked |-> FALSE]

Calls == [kind : {"none", "reset", "switch"},
          at : {"idle", "select", "begin", "decide", "parts", "save", "rename", "done"},
          existing : Configs, want : Models \cup {NoModel},
          inUse : Paths \cup {NoPath}, model : Models \cup {NoModel},
          hashed : BOOLEAN, path : Paths \cup {NoPath}, dest : Paths \cup {NoPath},
          fetch : {"idle", "look", "transfer", "over"},
          errors : BOOLEAN, ok : BOOLEAN, abort : BOOLEAN, checked : BOOLEAN]

TypeOK ==
    /\ EngineTypeOK
    /\ files \in [Paths -> {"none", "short", "corrupt", "whole"}]
    /\ room \subseteq Dirs
    /\ conf \in Configs
    /\ tmp \in Configs
    /\ call \in Calls
    /\ commands \in 0 .. MaxCommands

(***************************************************************************)
(* Files.  A size is all that most checks look at: a "short" file has one,    *)
(* and only a published hash tells "corrupt" from "whole".                    *)
(***************************************************************************)
There(p) == p # NoPath /\ files[p] # "none"
FullSize(p) == p # NoPath /\ files[p] \in {"corrupt", "whole"}

\* selectModelPath: the requested directory, or another disk, or nowhere.
Target == IF ModelsDir \in room THEN {ModelsDir}
          ELSE IF room # {} THEN room ELSE {ModelsDir}

\* Mutant: only the directory a download would go to is looked at.
ReusableHere(m) == {p \in {<<ModelsDir, m>>} : FullSize(p)}

\* findModelAnywhere with pickReusable: by name and size, in every directory.
Reusable(m) == {p \in Paths : ModelAt(p) = m /\ FullSize(p)}

(***************************************************************************)
(* config.yaml                                                               *)
(***************************************************************************)
Readable(c) == IF c.state = "ok" THEN c ELSE NoConfig     \* readConfig

\* Mutant: a reset keeps what the user typed, and forgets what they selected.
KeptUserKeys(c) == [NoConfig EXCEPT !.state = c.state, !.keys = c.keys]

\* keepUserOwnedKeys, keepSelectedModelOnReset
KeptOnReset(c) ==
    LET p == IF c.llamaModel # NoPath THEN c.llamaModel ELSE c.model
        keeps == There(p) /\ ModelAt(p) \in Fits
    IN [NoConfig EXCEPT !.state = c.state, !.keys = c.keys,
                        !.model = IF keeps THEN p ELSE NoPath,
                        !.llamaModel = IF keeps THEN p ELSE NoPath]

Configured(c) == IF c.llamaModel # NoPath THEN c.llamaModel ELSE c.model

\* buildConfig: without an engine nothing is recorded over what was there.
BuildConfig ==
    LET base == call.existing IN
    IF eng.at # "got" THEN [base EXCEPT !.state = "ok"]
    ELSE [base EXCEPT !.state = "ok", !.bin = eng.slot,
                      !.llamaModel = IF call.path # NoPath THEN call.path ELSE @]

\* Mutant: written in place.
Truncated(c) == [NoConfig EXCEPT !.state = "torn"]

\* config.yaml while its successor is being written: beside it, not over it.
WhileWriting(c) == c

(***************************************************************************)
(* The commands                                                              *)
(***************************************************************************)
Give(kind, want) ==
    /\ call.at \in {"idle", "done"}
    /\ commands < MaxCommands
    /\ commands' = commands + 1
    /\ call' = [NoCall EXCEPT !.kind = kind, !.want = want,
                              !.at = IF kind = "switch" THEN "select" ELSE "begin"]
    /\ eng' = Idle
    /\ room' \in {Dirs, Dirs \ {ModelsDir}, {}}     \* disks fill up and are cleaned up
    /\ UNCHANGED <<builds, source, faults, files, conf, tmp>>

\* "/models m confirm": resolveModelPath, checkLlama, and the selection is
\* recorded at once, whether or not the file is there. With the file and an
\* engine the command goes on to the server (module ServerLife) and is over here.
Places(m) ==
    LET named == {p \in Paths : ModelAt(p) = m /\ There(p)}
        kept == named \cap {Configured(Readable(conf))}
    IN IF kept # {} THEN kept ELSE IF named # {} THEN named
       ELSE {<<d, m>> : d \in Target}

\* Mutant: only the llama block learns of the selection.
RecordedBeside(c, p, bin) == [c EXCEPT !.state = "ok", !.llamaModel = p]

Recorded(c, p, bin) ==
    [c EXCEPT !.state = "ok", !.model = p, !.llamaModel = p,
              !.bin = IF bin = NoSlot THEN @ ELSE bin]

SelectModel ==
    /\ call.at = "select"
    /\ \E p \in Places(call.want), slow \in BOOLEAN :
         LET asked == IF There(p) THEN call.want ELSE NoModel
             bin == Found(builds, asked, slow)
         IN /\ conf' = Recorded(Readable(conf), p, bin)
            /\ call' = IF bin # NoSlot /\ There(p)
                       THEN [call EXCEPT !.at = "done", !.path = p, !.ok = TRUE]
                       ELSE [call EXCEPT !.at = "begin"]
    /\ UNCHANGED <<engineVars, files, room, tmp, commands>>

\* ensureLocalStack begins: the file is read, once, and an engine looked for.
Begin ==
    /\ call.at = "begin"
    /\ LET read == Readable(conf)
           existing == IF call.kind = "reset" THEN KeptOnReset(read) ELSE read
           path == Configured(existing)
       IN /\ call' = [call EXCEPT !.at = "decide", !.existing = existing]
          /\ FindServer(IF There(path) THEN ModelAt(path) ELSE NoModel)
    /\ UNCHANGED <<files, room, conf, tmp, commands>>

\* A test double holds the port: nothing is changed. Only /reset looks for one.
StubInTheWay ==
    /\ call.at = "decide" /\ call.kind = "reset"
    /\ Fault
    /\ call' = [NoCall EXCEPT !.kind = call.kind, !.at = "done"]
    /\ eng' = Idle
    /\ UNCHANGED <<builds, source, files, room, conf, tmp, commands>>

\* The model: the one in use if its file is there, else the one selected, else
\* the catalogue's. Asking the Hub can fail, and then there is none.
DecideModel ==
    /\ call.at = "decide"
    /\ LET e == call.existing
           inUse == IF There(e.llamaModel) THEN e.llamaModel
                    ELSE IF There(e.model) THEN e.model ELSE NoPath
           asked == IF call.kind = "switch" THEN call.want ELSE Pick
           parts == [call EXCEPT !.at = "parts", !.inUse = inUse]
       IN \/ /\ inUse # NoPath
             /\ call' = [parts EXCEPT !.path = inUse, !.model = ModelAt(inUse), !.fetch = "look"]
             /\ UNCHANGED faults
          \/ /\ inUse = NoPath
             /\ \E hashed \in BOOLEAN :
                  call' = [parts EXCEPT !.model = asked, !.hashed = hashed, !.fetch = "look"]
             /\ UNCHANGED faults
          \/ /\ inUse = NoPath
             /\ Fault
             /\ call' = [parts EXCEPT !.errors = TRUE, !.fetch = "over"]
    /\ UNCHANGED <<builds, source, eng, files, room, conf, tmp, commands>>

NeedDownload == call.model # NoModel /\ call.inUse = NoPath

(***************************************************************************)
(* The two parts that run beside each other                                  *)
(***************************************************************************)
EnginePart ==
    /\ call.at = "parts"
    /\ AcquireStep
    /\ call' = IF eng'.at = "failed"
               THEN [call EXCEPT !.errors = TRUE, !.abort = NeedDownload]
               ELSE call
    /\ UNCHANGED <<files, room, conf, tmp, commands>>

Over == [call EXCEPT !.fetch = "over", !.hashed = FALSE]

\* Room first; then the file under its own name, judged by its hash if there is
\* one; then the file in use; then any copy anywhere; and only then a transfer.
LookForModel ==
    /\ call.fetch = "look"
    /\ IF room = {}
       THEN call' = [Over EXCEPT !.errors = TRUE]
       ELSE \E d \in Target :
              LET dest == <<d, call.model>>
                  matches == FullSize(dest) /\ (call.hashed => files[dest] = "whole")
              IN \/ /\ matches
                    /\ call' = [Over EXCEPT !.path = dest]
                 \/ /\ ~matches /\ call.inUse # NoPath
                    /\ call' = [Over EXCEPT !.path = call.inUse]
                 \/ /\ ~matches /\ call.inUse = NoPath
                    /\ \E p \in Reusable(call.model) : call' = [Over EXCEPT !.path = p]
                 \/ /\ ~matches /\ call.inUse = NoPath /\ Reusable(call.model) = {}
                    /\ call' = [call EXCEPT !.fetch = "transfer", !.dest = dest]
    /\ UNCHANGED <<engineVars, files, room, conf, tmp, commands>>

\* downloadFile (module Download): the file is replaced only by a complete one.
TransferEnds ==
    /\ call.fetch = "transfer"
    /\ ~call.abort
    /\ \E got \in IF call.hashed THEN {"whole"} ELSE {"whole", "corrupt"} :
         files' = [files EXCEPT ![call.dest] = got]
    /\ call' = [Over EXCEPT !.path = call.dest]
    /\ UNCHANGED <<engineVars, room, conf, tmp, commands>>

TransferBreaks ==
    /\ call.fetch = "transfer"
    /\ \/ call.abort /\ UNCHANGED faults
       \/ Fault
    /\ call' = [Over EXCEPT !.errors = TRUE]
    /\ UNCHANGED <<builds, source, eng, files, room, conf, tmp, commands>>

\* checkBinaryAgainstChosenModel, once the engine is there: it asks about the
\* file in use, or the one under the new model's name if there is one by then.
CheckBinary ==
    /\ call.at = "parts" /\ ~call.checked
    /\ eng.at = "got"
    /\ LET p == IF call.inUse # NoPath THEN call.inUse ELSE <<ModelsDir, call.model>>
           asks == call.model # NoModel /\ files[p] = "whole"
       IN \E slow \in BOOLEAN :
            call' = [call EXCEPT !.checked = TRUE,
                       !.errors = @ \/ (asks /\ Unsupported(builds[eng.slot], call.model, slow))]
    /\ UNCHANGED <<engineVars, files, room, conf, tmp, commands>>

\* Mutant: a failed engine part is never awaited to its end.
PartsEndWithEngine ==
    /\ call.at = "parts"
    /\ call.fetch = "over"
    /\ call.checked
    /\ call' = [call EXCEPT !.at = "save", !.checked = FALSE, !.abort = FALSE]
    /\ UNCHANGED <<engineVars, files, room, conf, tmp, commands>>

PartsEnd ==
    /\ call.at = "parts"
    /\ call.fetch = "over"
    /\ call.checked \/ eng.at = "failed"
    /\ call' = [call EXCEPT !.at = "save", !.checked = FALSE, !.abort = FALSE]
    /\ UNCHANGED <<engineVars, files, room, conf, tmp, commands>>

(***************************************************************************)
(* The end: the file is written beside the old one and renamed over it.       *)
(***************************************************************************)
\* What is left of the report. ok is report.ok for a reset; for a switch,
\* provisionForSwitch wants an engine and a model that are both on the disk,
\* whatever else went wrong.
Outcome(errors) ==
    [NoCall EXCEPT !.kind = call.kind, !.want = call.want, !.at = "done", !.path = call.path,
                   !.ok = /\ eng.at = "got"
                          /\ IF call.kind = "switch" THEN There(call.path) ELSE ~errors]

WriteConfig ==
    /\ call.at = "save"
    /\ \/ /\ tmp' = BuildConfig
          /\ conf' = WhileWriting(conf)
          /\ call' = [call EXCEPT !.at = "rename"]
          /\ UNCHANGED <<eng, faults>>
       \/ /\ Fault                             \* a directory one cannot write in
          /\ call' = Outcome(TRUE)
          /\ eng' = Idle
          /\ UNCHANGED <<tmp, conf>>
    /\ UNCHANGED <<builds, source, files, room, commands>>

RenameConfig ==
    /\ call.at = "rename"
    /\ conf' = tmp
    /\ tmp' = NoConfig
    /\ call' = Outcome(call.errors)
    /\ eng' = Idle
    /\ UNCHANGED <<builds, source, faults, files, room, commands>>

(***************************************************************************)
(* What happens around them                                                  *)
(***************************************************************************)
\* The session dies and another starts: loadConfig generates a file when there
\* is none that it can read.
Restart ==
    /\ Fault
    /\ EngineAfterCrash
    /\ call' = NoCall
    /\ conf' = IF conf.state = "ok" THEN conf ELSE [NoConfig EXCEPT !.state = "ok"]
    /\ UNCHANGED <<files, room, tmp, commands>>

Init ==
    /\ EngineInit
    /\ files \in {f \in [Paths -> Contents \cup {"none"}] :
                     \A p \in Paths \ Known : f[p] = "none"}
    /\ room = Dirs
    /\ conf \in {[NoConfig EXCEPT !.state = "ok", !.keys = TRUE, !.model = p, !.llamaModel = p] :
                   p \in Known \cup {NoPath}}
    /\ tmp = NoConfig
    /\ call = NoCall
    /\ commands = 0

Command == Give("reset", NoModel) \/ \E m \in Models : Give("switch", m)

Step ==
    \/ SelectModel \/ Begin \/ DecideModel
    \/ EnginePart \/ LookForModel \/ TransferEnds \/ TransferBreaks
    \/ CheckBinary \/ PartsEnd \/ WriteConfig \/ RenameConfig

Next == Command \/ Step \/ StubInTheWay \/ Restart

Spec == Init /\ [][Next]_vars /\ WF_vars(Step)

-----------------------------------------------------------------------------
(* What must hold *)

\* The keys keepUserOwnedKeys lists stay in config.yaml through every reset, selection,
\* failure and crash (bootstrap.ts: keepUserOwnedKeys, buildConfig's merge, the write beside
\* the file: one unreadable moment and the next start begins from nothing).
KeysSurvive == conf.keys

\* A switch that reports success has the model that was selected, whatever other
\* model the file named before and whatever failed on the way (provisionForSwitch
\* returns report.modelPath, which ensureLocalStack fills in by its own order).
SelectedIsProvided ==
    call.at = "done" /\ call.kind = "switch" /\ call.ok => ModelAt(call.path) = call.want

\* A reset does not undo a selection: with the selected model's file there (and
\* not only since this reset fetched it) and fit to run, config.yaml names that
\* model afterwards (keepSelectedModelOnReset).
ResetKeepsTheSelection ==
    [][call.kind = "reset" /\ call.at = "rename" /\ There(conf.llamaModel)
       /\ ModelAt(conf.llamaModel) \in Fits /\ conf.llamaModel # call.dest
       => call'.at = "idle" \/ ModelAt(conf'.llamaModel) = ModelAt(conf.llamaModel)]_vars

\* Nothing is fetched that is already on one of the machine's disks.
HaveItDontFetch ==
    [][call.fetch = "look" /\ call'.fetch = "transfer" =>
         \A p \in Paths : ModelAt(p) = call.model => files[p] # "whole"]_vars

\* Every command ends: neither part waits for the other for ever, and a transfer
\* is given up when there will be no engine for it.
CommandsEnd == (call.at = "begin") ~> (call.at \in {"done", "idle"})

\* In every state: the types, an engine that has been seen to run wherever the file names
\* one, and the user's own keys.
SetupInv == TypeOK /\ EngineRuns /\ KeysSurvive
=============================================================================
