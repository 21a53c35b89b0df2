----------------------------- MODULE ServerLife -----------------------------
(***************************************************************************)
(* The llama-server processes of one machine and one llamacli session      *)
(* after another: how a start finds, adopts or launches a server           *)
(* (backend/resolve.ts, detect.ts, llamaServer.ts), how a launch is retried *)
(* and tried with another --n-cpu-moe (setup/calibrate.ts), and how         *)
(* /models, /server restart and /server calibrate replace the server that   *)
(* runs (setup/serverPolicy.ts, serverCommand.ts, modelSwitch.ts).          *)
(*                                                                         *)
(* A tuning is its --n-cpu-moe: the number of expert layers kept on the    *)
(* CPU.  A server with fewer of them than "need" runs out of GPU memory    *)
(* while it loads.                                                         *)
(***************************************************************************)
EXTENDS Integers, FiniteSets

CONSTANTS
    Ports,        \* the ports of the machine
    Common,       \* those the program always probes (COMMON_PORTS)
    DefaultPort,  \* DEFAULT_CONFIG.llama.port
    Pids,         \* the process ids in use at one time
    Layers,       \* the expert layers of the model (info.moeLayers)
    DefaultTune,  \* the tuning of a config without one
    Retries,      \* the out-of-memory retries of a launch (maxOomRetries)
    Kinds,        \* what else can hold a port: subset of {"llama", "unit", "stub", "other"}
    MaxStarts, MaxOps, MaxHands, MaxDeaths,  \* bounds of a behaviour
    Lingers       \* a stopped server may still hold its port when the wait for it ends

ASSUME ServerAssumption ==
    /\ Ports \subseteq Nat /\ IsFiniteSet(Ports)
    /\ Common \subseteq Ports /\ DefaultPort \in Common
    /\ Pids \subseteq Nat \ {0} /\ IsFiniteSet(Pids)
    /\ Layers \in Nat /\ DefaultTune \in 0 .. Layers /\ Retries \in Nat
    /\ Kinds \subseteq {"llama", "unit", "stub", "other"}
    /\ {MaxStarts, MaxOps, MaxHands, MaxDeaths} \subseteq Nat
    /\ Lingers \in BOOLEAN

VARIABLES
    server,   \* the processes that hold a port
    need,     \* the least tuning the card has the memory for
    lookup,   \* what the tools here tell of the listening ports: who owns them, that they
              \* are held (netstat alone: no wmic, no command line), or nothing (no ss either)
    disk,     \* .llamacli/config.yaml
    mem,      \* the config object of the session, as loaded
    pc,       \* where the session is
    job,      \* the launch or replacement it is at
    children, \* what this session launched and has not stopped itself
    client,   \* the port its backend client talks to
    said,     \* the port of the last server the session said it was connected to
    picked,   \* a model chosen by /models is on disk that no launch has served yet
    starts, ops, hands, deaths

sess == <<mem, pc, job, children, client, said>>
env  == <<need, lookup, hands, deaths>>
vars == <<server, need, lookup, disk, mem, pc, job, children, client, said, picked,
          starts, ops, hands, deaths>>

NoPort == 0
Lookups == {"owners", "ports", "nothing"}
Goals  == {"start", "models", "restart", "calibrate", "back"}
Tunes  == 0 .. Layers
Proc   == [st : {"gone", "loading", "serving", "dying"}, kind : {"llama", "unit", "stub", "other"},
           port : Ports, tune : Tunes, by : {"hand", "session"}]
\* url: the adopted endpoint (backend openai-compatible), or NoPort; port, tune
\* and cal: the llama block, which the defaults replace while it is absent;
\* ready: a binary and a model file are recorded.
Config == [url : Ports \cup {NoPort}, port : Ports, tune : Tunes, cal : BOOLEAN, ready : BOOLEAN,
           block : BOOLEAN]
Job    == [goal : Goals, port : Ports, tune : Tunes, prev : Tunes, cal : BOOLEAN,
           stage : {"first", "trial", "restore"}, tries : 0 .. Retries, child : Pids \cup {0}]

Gone == [st |-> "gone", kind |-> "other", port |-> DefaultPort, tune |-> 0, by |-> "hand"]
Idle == [goal |-> "start", port |-> DefaultPort, tune |-> 0, prev |-> 0, cal |-> FALSE,
         stage |-> "first", tries |-> 0, child |-> 0]
FirstConfig == [url |-> NoPort, port |-> DefaultPort, tune |-> DefaultTune, cal |-> FALSE,
                ready |-> FALSE, block |-> TRUE]

-----------------------------------------------------------------------------
(* What can be seen of the machine. *)

Up(i)      == server[i].st \in {"loading", "serving", "dying"}
At(p)      == {i \in Pids : Up(i) /\ server[i].port = p}
Answers(p) == \E i \in At(p) : server[i].st = "serving"
\* A process that was told to stop may answer once more.
MayAnswer(p) == \E i \in At(p) : server[i].st \in {"serving", "dying"}
Stub(p)    == \E i \in At(p) : server[i].kind = "stub"
Llama(i)   == Up(i) /\ server[i].kind \in {"llama", "unit"}

\* listLlamaServers: the processes that listen and have llama-server in their
\* command line; none when that cannot be read, or the ports cannot be listed.
LlamaServers == IF lookup = "owners" THEN {i \in Pids : Llama(i)} ELSE {}

\* resolveLiveServerPort: the recorded port when a llama-server listens there,
\* else the port of one that listens elsewhere, else the record.
LivePorts(recorded) ==
    LET live == {server[i].port : i \in LlamaServers}
    IN  IF recorded \in live \/ live = {} THEN {recorded} ELSE live

\* detectPortOwner.  A port of which nobody can say who holds it is not a free one; the unit
\* is looked for before the command line is read (where no command line can be read there are
\* no units).
Seen(p, holder) ==
    CASE lookup = "nothing" -> "unknown"
      [] lookup # "nothing" /\ At(p) = {} -> "none"
      [] lookup = "ports" /\ At(p) # {} -> "unknown"
      [] OTHER -> holder
HeldBy(p, kinds) == \E i \in At(p) : server[i].kind \in kinds
OwnerByCommand(p) == Seen(p, IF HeldBy(p, {"llama", "unit"}) THEN "ours" ELSE "foreign")
Owner(p) ==
    Seen(p, IF HeldBy(p, {"unit"}) THEN "systemd"
            ELSE IF HeldBy(p, {"llama"}) THEN "ours" ELSE "foreign")

\* configuredPort, and the ports a start probes.
ConfiguredPort == IF mem.url = NoPort THEN mem.port ELSE mem.url
Probed == Common \cup {ConfiguredPort} \cup {server[i].port : i \in LlamaServers}

\* The listening ports that answered nothing to the first probe.
Listeners == {p \in Probed : At(p) # {} /\ ~Answers(p)}
Serving   == {p \in Probed : Answers(p) /\ ~Stub(p)}

-----------------------------------------------------------------------------
TypeOK ==
    /\ server \in [Pids -> Proc]
    /\ need \in Tunes /\ lookup \in Lookups
    /\ disk \in Config /\ mem \in Config
    /\ pc \in {"down", "discover", "hold", "spawn", "watch", "release", "switch", "up"}
    /\ job \in Job
    /\ children \subseteq Pids
    /\ client \in Ports \cup {NoPort} /\ said \in Ports \cup {NoPort}
    /\ picked \in BOOLEAN
    /\ starts \in 0 .. MaxStarts /\ ops \in 0 .. MaxOps
    /\ hands \in 0 .. MaxHands /\ deaths \in 0 .. MaxDeaths

Init ==
    /\ server = [i \in Pids |-> Gone]
    /\ need \in Tunes /\ lookup \in Lookups
    /\ disk \in {FirstConfig} \cup
         {[FirstConfig EXCEPT !.ready = TRUE, !.tune = Layers, !.port = p] : p \in Ports}
    /\ mem = FirstConfig /\ pc = "down" /\ job = Idle
    /\ children = {} /\ client = NoPort /\ said = NoPort /\ picked = FALSE
    /\ starts = 0 /\ ops = 0 /\ hands = 0 /\ deaths = 0

-----------------------------------------------------------------------------
(* The end of a session, and the launch every path goes through. *)

\* stop(): a SIGTERM to the processes given; each leaves when it is done.
Stopped(which) ==
    [i \in Pids |-> IF i \in which /\ server[i].st # "gone"
                    THEN [server[i] EXCEPT !.st = "dying"] ELSE server[i]]

\* The exit hook of every LlamaServerManager, and the cleanup registry: what
\* this session launched is stopped with it.
OnlyConnected == {i \in children : server[i].port = client}
Reaped == children

Leave == /\ server' = Stopped(Reaped)
         /\ pc' = "down" /\ children' = {} /\ client' = NoPort /\ said' = NoPort
         /\ job' = Idle /\ mem' = FirstConfig

Launch(goal, port, tune, cal) ==
    [goal |-> goal, port |-> port, tune |-> tune, prev |-> tune, cal |-> cal,
     stage |-> "first", tries |-> 0, child |-> 0]

\* gateServerReplacement.
GateIgnoresOthers(p, confirmed) ==
    Owner(p) = "none" \/ (Owner(p) = "ours" /\ confirmed)
Gate(p, confirmed) ==
    /\ Cardinality(LlamaServers) <= 1
    /\ Owner(p) = "none" \/ (Owner(p) = "ours" /\ confirmed)

-----------------------------------------------------------------------------
(* resolveBackend. *)

Start ==
    /\ pc = "down" /\ starts < MaxStarts
    /\ starts' = starts + 1 /\ mem' = disk /\ pc' = "discover"
    /\ UNCHANGED <<server, disk, job, children, client, said, picked, ops, env>>

\* persistAdoption replaces the whole file unless it already names this url:
\* the llama block goes, and the defaults stand in for it at the next load.
Adopted(p, named) ==
    IF mem.url = p THEN disk
    ELSE [FirstConfig EXCEPT !.url = p, !.ready = named \/ mem.ready, !.block = FALSE]

Adopt(p, healthy, named) ==
    /\ disk' = IF healthy THEN Adopted(p, named) ELSE disk
    /\ client' = p /\ pc' = "up" /\ job' = Idle
    /\ picked' = FALSE
    /\ UNCHANGED <<server, mem, children, said, starts, ops, env>>

\* A server that answers is used at once: the configured one when it is among
\* them.  A probe that reads garbage leaves the config alone.
Found ==
    /\ pc = "discover"
    /\ \E p \in {q \in Probed : MayAnswer(q) /\ ~Stub(q)}, healthy \in BOOLEAN :
        /\ ConfiguredPort \in Serving => p = ConfiguredPort
        /\ Adopt(p, healthy, TRUE)

\* A port that is held and silent is waited on, the lowest first.
Hold ==
    /\ pc = "discover" /\ Serving = {} /\ Listeners # {}
    /\ \E p \in Listeners :
        (\A q \in Listeners : p <= q) /\ job' = [Idle EXCEPT !.port = p]
    /\ pc' = "hold"
    /\ UNCHANGED <<server, disk, mem, children, client, said, picked, starts, ops, env>>

HoldAnswered ==
    /\ pc = "hold" /\ MayAnswer(job.port)
    /\ \E healthy \in BOOLEAN : Adopt(job.port, healthy, ~Stub(job.port))

\* The budget runs out: the port is used as one that is still loading.
HoldUntilAnswered == pc = "hold" /\ Answers(job.port) /\ Adopt(job.port, TRUE, FALSE)
HoldExpires == pc = "hold" /\ Adopt(job.port, TRUE, FALSE)

\* Every port that answers is a test double: reported, and nothing is launched.
OnlyStubs ==
    /\ pc = "discover" /\ Serving = {} /\ Listeners = {}
    /\ \E p \in Probed : Answers(p) /\ client' = p
    /\ pc' = "up"
    /\ UNCHANGED <<server, disk, mem, job, children, said, picked, starts, ops, env>>

NothingRuns == pc = "discover" /\ \A p \in Probed : At(p) = {} \/ (~Answers(p) /\ p \notin Listeners)

LaunchRecorded ==
    /\ NothingRuns /\ mem.ready
    /\ job' = Launch("start", mem.port, mem.tune, mem.cal) /\ pc' = "spawn"
    /\ UNCHANGED <<server, disk, mem, children, client, said, picked, starts, ops, env>>

\* ensureLocalStack writes the tuning it computed; the session's own config
\* object is not read again.
Bootstrap ==
    /\ NothingRuns /\ ~mem.ready
    /\ \/ \E t \in Tunes :
            /\ disk' = [disk EXCEPT !.url = NoPort, !.ready = TRUE, !.block = TRUE,
                                      !.tune = t, !.cal = FALSE]
            /\ job' = Launch("start", mem.port, t, FALSE) /\ pc' = "spawn"
            /\ UNCHANGED <<server, mem, children, client, said>>
       \/ Leave /\ UNCHANGED disk
    /\ UNCHANGED <<picked, starts, ops, env>>

-----------------------------------------------------------------------------
(* startCalibrated, over LlamaServerManager.start and waitUntilReady. *)

\* A port another process holds ends the child at its bind.
Spawn ==
    /\ pc = "spawn"
    /\ \E i \in Pids :
        /\ server[i].st = "gone" /\ \A j \in Pids : j < i => server[j].st # "gone"
        /\ IF At(job.port) = {}
           THEN /\ server' = [server EXCEPT ![i] =
                        [st |-> "loading", kind |-> "llama", port |-> job.port,
                         tune |-> job.tune, by |-> "session"]]
                /\ children' = children \cup {i} /\ job' = [job EXCEPT !.child = i]
           ELSE job' = [job EXCEPT !.child = 0] /\ UNCHANGED <<server, children>>
    /\ pc' = "watch"
    /\ UNCHANGED <<disk, mem, client, said, picked, starts, ops, env>>

\* What a successful launch writes, and what the session says of it.  A start
\* writes the tuning alone, so a file that lost its llama block to an adoption
\* has one without a binary now.  The in-memory config keeps the port and the
\* tuning it was loaded with.
Recorded ==
    IF job.goal = "start"
    THEN [disk EXCEPT !.tune = job.tune, !.cal = TRUE, !.block = TRUE, !.ready = @ /\ disk.block]
    ELSE [disk EXCEPT !.ready = TRUE, !.block = TRUE, !.port = job.port, !.tune = job.tune, !.cal = TRUE,
                      !.url = IF @ = NoPort THEN NoPort ELSE job.port]

Done ==
    /\ disk' = Recorded /\ picked' = FALSE
    /\ pc' = "up" /\ job' = Idle
    /\ IF job.goal = "start"
       THEN client' = job.port /\ UNCHANGED <<said, mem>>
       ELSE /\ said' = job.port /\ UNCHANGED client
            /\ mem' = [mem EXCEPT !.ready = TRUE,
                                  !.cal = IF job.goal = "models" THEN FALSE ELSE @]
    /\ UNCHANGED <<server, children, starts, ops, env>>

\* After the first launch came up by itself, once per model and card: the same
\* launch with fewer or more layers on the CPU, as the memory left says.
TryAnother ==
    /\ job.stage = "first" /\ job.tries = 0 /\ ~job.cal
    /\ \E t \in Tunes \ {job.tune} :
        job' = [job EXCEPT !.stage = "trial", !.tune = t, !.prev = job.tune]
    /\ server' = Stopped({job.child} \cap Pids) /\ children' = children \ {job.child}
    /\ pc' = "release"
    /\ UNCHANGED <<disk, mem, client, said, picked, starts, ops, env>>

\* Whatever answers on the port counts as the child that was launched.
Ready == pc = "watch" /\ MayAnswer(job.port) /\ (Done \/ TryAnother)

\* A child whose log says out of memory; one that ended for another reason, one
\* that could not bind, and one whose time is up (it is stopped) are alike.
ChildDied == \E i \in Pids : i = job.child /\ server[i].st = "gone"
OutOfMemory == ChildDied /\ job.tune < need

Larger(have, least) == IF have > least THEN have ELSE least
Raised(have) ==
    LET more == have + Larger((Larger(have, 8) * 15 + 99) \div 100, 2)
    IN  IF more < Layers THEN more ELSE Layers

RaiseAndRetry ==
    /\ pc = "watch" /\ job.stage = "first" /\ OutOfMemory
    /\ job.tries < Retries /\ job.tune < Layers
    /\ job' = [job EXCEPT !.tune = Raised(job.tune), !.tries = @ + 1, !.child = 0]
    /\ children' = children \ {job.child} /\ pc' = "spawn"
    /\ UNCHANGED <<server, disk, mem, client, said, picked, starts, ops, env>>

\* A trial that does not come up: back to the launch that worked.
Restored == [job EXCEPT !.stage = "restore", !.tune = job.prev, !.child = 0]

TrialFails ==
    /\ pc = "watch" /\ job.stage = "trial"
    /\ job' = Restored /\ pc' = "release"
    /\ server' = Stopped({job.child} \cap Pids) /\ children' = children \ {job.child}
    /\ UNCHANGED <<disk, mem, client, said, picked, starts, ops, env>>

\* The launch fails: a start ends the program, a replacement leaves the
\* session up without a server, and a calibration goes back to what the
\* session's config records.
LaunchFails ==
    /\ pc = "watch"
    /\ \/ job.stage = "restore"
       \/ job.stage = "first" /\ ~(OutOfMemory /\ job.tries < Retries /\ job.tune < Layers)
    /\ IF job.goal = "start"
       THEN Leave
       ELSE /\ server' = Stopped({job.child} \cap Pids)
            /\ children' = children \ {job.child}
            /\ IF job.goal = "calibrate"
               THEN \E p \in LivePorts(mem.port) :
                        IF Gate(p, TRUE)
                        THEN job' = Launch("back", p, mem.tune, mem.cal) /\ pc' = "switch"
                        ELSE job' = Idle /\ pc' = "up"
               ELSE job' = Idle /\ pc' = "up"
            /\ UNCHANGED <<mem, client, said>>
    /\ UNCHANGED <<disk, picked, starts, ops, env>>

\* Before the next launch, the one that was stopped is waited for.
Release ==
    /\ pc = "release"
    /\ Lingers \/ \A i \in At(job.port) : server[i].st # "dying"
    /\ pc' = "spawn"
    /\ UNCHANGED <<server, disk, mem, job, children, client, said, picked, starts, ops, env>>

-----------------------------------------------------------------------------
(* /models, /server restart and /server calibrate. *)

\* selectModel writes its choice before anything is asked.
Chosen(p, t) == [disk EXCEPT !.ready = TRUE, !.block = TRUE, !.port = p, !.tune = t]

Models ==
    /\ pc = "up" /\ ops < MaxOps
    /\ \E p \in LivePorts(disk.port), t \in Tunes, confirmed \in BOOLEAN :
        /\ disk' = Chosen(p, t) /\ picked' = TRUE
        /\ IF Gate(p, confirmed)
           THEN pc' = "switch" /\ job' = Launch("models", p, t, FALSE)
           ELSE UNCHANGED <<pc, job>>
    /\ ops' = ops + 1
    /\ UNCHANGED <<server, mem, children, client, said, starts, env>>

\* The tuning of a restart is the one of the session's config object, which
\* always has one (DEFAULT_CONFIG.llama).
Restart ==
    /\ pc = "up" /\ ops < MaxOps /\ (mem.ready \/ LlamaServers # {})
    /\ \E p \in LivePorts(mem.port), confirmed \in BOOLEAN :
        /\ Gate(p, confirmed)
        /\ job' = Launch("restart", p, mem.tune, mem.cal)
    /\ pc' = "switch" /\ ops' = ops + 1
    /\ UNCHANGED <<server, disk, mem, children, client, said, picked, starts, env>>

Calibrate ==
    /\ pc = "up" /\ ops < MaxOps
    /\ \E p \in LivePorts(mem.port), t \in Tunes :
        /\ Gate(p, TRUE) /\ At(p) # {} /\ \A i \in At(p) : server[i].tune # t
        /\ job' = Launch("calibrate", p, t, FALSE)
    /\ pc' = "switch" /\ ops' = ops + 1
    /\ UNCHANGED <<server, disk, mem, children, client, said, picked, starts, env>>

\* switchModelAndServer asks again who holds the port, and stops only a
\* llama-server that is no unit's; /models sizes the launch anew.
Retuned(t) == job.goal = "models" \/ t = job.tune

Switch ==
    /\ pc = "switch"
    /\ \/ /\ Owner(job.port) \in {"none", "ours"}
          /\ server' = Stopped(At(job.port))
          /\ \E t \in Tunes : Retuned(t) /\ job' = [job EXCEPT !.tune = t, !.prev = t]
          /\ pc' = "release"
       \/ /\ Owner(job.port) \notin {"none", "ours"}
          /\ pc' = "up" /\ job' = Idle /\ UNCHANGED server
    /\ UNCHANGED <<disk, mem, children, client, said, picked, starts, ops, env>>

-----------------------------------------------------------------------------
(* The end of a session, and the machine. *)

\* The cleanup and the exit hooks run; a kill runs nothing.
Quit  == pc = "up" /\ Leave /\ UNCHANGED <<disk, picked, starts, ops, env>>
Crash ==
    /\ pc # "down"
    /\ server' = [i \in Pids |-> [server[i] EXCEPT !.by = "hand"]]
    /\ pc' = "down" /\ children' = {} /\ client' = NoPort /\ said' = NoPort
    /\ job' = Idle /\ mem' = FirstConfig
    /\ UNCHANGED <<disk, picked, starts, ops, env>>

\* Between two sessions the user starts something on a port by hand; what is
\* no llama-server takes a port at any time.
Free(i) == LET free == {j \in Pids \ {job.child} : server[j].st = "gone"}
           IN  i \in free /\ \A j \in free : i <= j
HandStart ==
    /\ hands < MaxHands
    /\ \E i \in Pids, p \in Ports, k \in Kinds :
        /\ Free(i) /\ At(p) = {} /\ (pc = "down" \/ k \in {"stub", "other"})
        /\ server' = [server EXCEPT ![i] =
                [st |-> IF k = "stub" THEN "serving" ELSE "loading", kind |-> k,
                 port |-> p, tune |-> Layers, by |-> "hand"]]
    /\ hands' = hands + 1
    /\ UNCHANGED <<need, lookup, disk, sess, picked, starts, ops, deaths>>

Machine(i, to) ==
    /\ server' = [server EXCEPT ![i] = IF to = "gone" THEN Gone ELSE [@ EXCEPT !.st = to]]
    /\ children' = IF to = "gone" THEN children \ {i} ELSE children
    /\ UNCHANGED <<need, lookup, disk, mem, pc, job, client, said, picked, starts, ops, hands>>

\* A llama-server that fits serves; one that does not dies; a silent listener
\* stays as it is.
Load(i) ==
    /\ server[i].st = "loading" /\ server[i].kind \in {"llama", "unit"}
    /\ Machine(i, IF server[i].tune >= need THEN "serving" ELSE "gone")
    /\ UNCHANGED deaths
Vanish(i) == server[i].st = "dying" /\ Machine(i, "gone") /\ UNCHANGED deaths
Die(i) ==
    /\ server[i].st \in {"loading", "serving"} /\ deaths < MaxDeaths
    /\ deaths' = deaths + 1 /\ Machine(i, "gone")

-----------------------------------------------------------------------------
Resolving == Found \/ Hold \/ HoldAnswered \/ HoldExpires \/ OnlyStubs \/ LaunchRecorded \/ Bootstrap
Launching == Spawn \/ Ready \/ RaiseAndRetry \/ TrialFails \/ LaunchFails \/ Release
Commands  == Models \/ Restart \/ Calibrate
Outside   == HandStart \/ \E i \in Pids : Load(i) \/ Vanish(i) \/ Die(i)

Next == Start \/ Resolving \/ Launching \/ Commands \/ Switch \/ Quit \/ Crash \/ Outside

Spec == Init /\ [][Next]_vars

\* The session runs on, a load ends, a process that was told to stop stops.
FairSpec ==
    /\ Spec /\ WF_vars(Resolving) /\ WF_vars(Launching) /\ WF_vars(Switch)
    /\ \A i \in Pids : WF_vars(Load(i)) /\ WF_vars(Vanish(i))

-----------------------------------------------------------------------------
(* Properties. *)

\* One server: the program launches a llama-server only when none of those it looks for is left
\* running, whatever an earlier session that was killed, or the user, left on any port
\* (modelSwitch.ts:4-19, detect.ts:268-276).  A start looks at the ports it probes, and so does
\* a replacement that can tell who owns them; where no command line can be read, a replacement
\* looks at its own port only, and a llama-server on another one is left beside the new one.
LookedAt == IF lookup = "owners" \/ job.goal = "start" THEN Probed ELSE {job.port}
Launched(i) == server[i].st = "gone" /\ server'[i].st = "loading" /\ server'[i].by = "session"
LaunchesAlone ==
    [][\A i \in Pids : Launched(i) =>
          \A j \in Pids : Llama(j) /\ server[j].port \in LookedAt => server[j].st = "dying"]_vars

\* Only a llama-server that is no systemd unit's is ever told to stop
\* (modelSwitch.ts:23-34, serverPolicy.ts:10-15).
StrangersAreSafe ==
    [][\A i \in Pids : server'[i].st = "dying" => server[i].kind = "llama"]_vars

\* What a session launched does not outlive it, unless it was killed: the
\* servers of a replacement, a trial or a restore no more than the first
\* (index.tsx:625-656, llamaServer.ts:260-271).
NothingLeftRunning ==
    pc = "down" => \A i \in Pids : server[i].by = "session" => server[i].st \in {"gone", "dying"}

\* The file describes the server the session launched last: its port, and the
\* tuning that the retries and the trial ended at (index.tsx:1464-1472).  Where
\* no command line can be read, a replacement can leave one on another port.
RecordedIsRunning ==
    pc = "up" /\ ~picked =>
        \A i \in children : server[i].st \in {"loading", "serving"} =>
            \/ disk.tune = server[i].tune /\ disk.port = server[i].port
            \/ lookup = "ports" /\ disk.port # server[i].port

\* A start, and every replacement, comes to an end, whatever listens in
\* silence and whatever does not load (detect.ts:272-276).
StartSettles == pc \notin {"up", "down"} ~> pc \in {"up", "down"}

\* In every state: the types, nothing of the session left behind it, and a file
\* that describes the server it launched.
ServerInv == TypeOK /\ NothingLeftRunning /\ RecordedIsRunning
=============================================================================
