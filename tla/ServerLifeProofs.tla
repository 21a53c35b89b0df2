-------------------------- MODULE ServerLifeProofs --------------------------
(***************************************************************************)
(* What ServerLife promises for any number of ports, process ids, sessions,*)
(* commands, deaths and retries.  None of the properties is inductive.     *)
(* What a step may stop rests on one process per port and on what the      *)
(* session launched being a llama-server (Owned); that a launch is alone   *)
(* rests on what is left alive on the way to it (AloneInv); that the file  *)
(* describes the server rests on where the job's port and tuning come from *)
(* (RecordInv).                                                            *)
(***************************************************************************)
EXTENDS ServerLife, FiniteSetTheorems, TLAPS

Alive(i) == server[i].st \in {"loading", "serving"}

\* A port that a start looks at: where the owners can be told every llama-server's,
\* elsewhere the common ones and the configured one.
Probes(p) == lookup = "owners" \/ p \in Common \/ p = ConfiguredPort

\* A port that the launch at hand looked at.
Known(p) ==
    IF job.goal = "start" THEN Probes(p) ELSE lookup = "owners" \/ p = job.port

\* What a replacement leaves alone where no command line can be read, and what
\* the file says of a server.
Left(i) == lookup = "ports" /\ server[i].port # job.port
Described(i) ==
    \/ disk.tune = server[i].tune /\ disk.port = server[i].port
    \/ lookup = "ports" /\ disk.port # server[i].port

OnePerPort == \A i, j \in Pids : Up(i) /\ Up(j) /\ server[i].port = server[j].port => i = j

\* What was told to stop, what the session launched, and what it is launching.
Owned ==
    /\ \A i \in Pids : server[i].st = "dying" => server[i].kind = "llama"
    /\ \A i \in children : Up(i) /\ server[i].kind = "llama"
    /\ \A i \in Pids : i = job.child /\ Up(i) => server[i].kind = "llama"
    /\ \A i \in Pids : server[i].by = "session" /\ Alive(i) => i \in children
    /\ pc \in {"down", "discover", "hold"} => children = {}

\* The llama-servers alive on the way to a launch.
AloneInv ==
    /\ pc = "switch" =>
           \A i \in Pids : Llama(i) /\ Alive(i) /\ Known(server[i].port) => server[i].port = job.port
    /\ pc \in {"release", "spawn"} =>
           \A i \in Pids : Llama(i) /\ Known(server[i].port) => ~Alive(i)
    /\ pc = "watch" =>
           \A i \in Pids : Llama(i) /\ Known(server[i].port) /\ Alive(i) => i = job.child

\* Which server the session has, and where the file's port and tuning come from.
RecordInv ==
    /\ pc \in {"release", "spawn"} => \A i \in children : Alive(i) => Left(i)
    /\ pc = "watch" =>
           \A i \in children : Alive(i) =>
               IF i = job.child THEN server[i].tune = job.tune /\ server[i].port = job.port
                                ELSE Left(i)
    /\ pc \in {"up", "switch", "release", "spawn", "watch"} /\ ~picked =>
           \A i \in children : Alive(i) => Described(i) \/ (pc = "watch" /\ i = job.child)
    /\ pc \in {"discover", "hold"} => disk.port = mem.port
    /\ pc \in {"spawn", "watch", "release"} /\ job.goal = "start" =>
           disk.port = mem.port /\ job.port = mem.port
    /\ pc = "switch" => job.goal # "start"

Inv == TypeOK /\ OnePerPort /\ Owned /\ AloneInv /\ RecordInv

USE ServerAssumption DEF ServerAssumption

-----------------------------------------------------------------------------
(* Facts about the operators. *)

\* The ports a start probes are ports of the machine.
LEMMA ProbedPorts == TypeOK => Probed \subseteq Ports /\ ConfiguredPort \in Ports
  <1> SUFFICES ASSUME TypeOK PROVE Probed \subseteq Ports /\ ConfiguredPort \in Ports
    OBVIOUS
  <1>1. mem.port \in Ports /\ mem.url \in Ports \cup {NoPort}
    BY DEF TypeOK, Config
  <1>2. ConfiguredPort \in Ports
    BY <1>1 DEF ConfiguredPort
  <1>3. \A i \in Pids : server[i].port \in Ports
    BY DEF TypeOK, Proc
  <1>4. LlamaServers \subseteq Pids
    BY DEF LlamaServers
  <1> QED BY <1>2, <1>3, <1>4, Zenon DEF Probed, ServerAssumption

\* A llama-server is on a probed port exactly when a start looks at its port.
LEMMA ProbedIsKnown ==
  ASSUME TypeOK, NEW i \in Pids, Llama(i)
  PROVE  server[i].port \in Probed <=> Probes(server[i].port)
  BY DEF Probed, Probes, LlamaServers

\* The live ports of a recorded one are ports, and when one of them holds
\* nothing there is no llama-server at all.
LEMMA LivePortsFacts ==
  ASSUME TypeOK, NEW r \in Ports, NEW p \in LivePorts(r)
  PROVE  /\ p \in Ports
         /\ At(p) = {} => LlamaServers = {}
  <1>1. p \in Ports
    BY DEF LivePorts, LlamaServers, TypeOK, Proc
  <1>2. ASSUME At(p) = {}, LlamaServers # {} PROVE FALSE
    <2>1. p \in {server[i].port : i \in LlamaServers}
      BY <1>2 DEF LivePorts
    <2>2. PICK i \in LlamaServers : server[i].port = p
      BY <2>1
    <2>3. i \in At(p)
      BY <2>2 DEF At, LlamaServers, Llama
    <2> QED BY <2>3, <1>2
  <1> QED BY <1>1, <1>2

\* At most one llama-server is one: two would be a pair among them.
LEMMA OneLlamaServer ==
  ASSUME Cardinality(LlamaServers) <= 1, NEW i \in LlamaServers, NEW j \in LlamaServers
  PROVE  i = j
  <1>1. IsFiniteSet(LlamaServers)
    BY FS_Subset, LlamaServers \in SUBSET Pids DEF LlamaServers
  <1>2. SUFFICES ASSUME i # j PROVE FALSE
    OBVIOUS
  <1>3. Cardinality({i, j}) = 2
    <2>1. IsFiniteSet({i}) /\ Cardinality({i}) = 1
      BY FS_Singleton
    <2>2. Cardinality({i} \cup {j}) = 2
      <3>1. j \notin {i}
        BY <1>2
      <3>2. Cardinality({i} \cup {j}) = Cardinality({i}) + 1
        BY <2>1, <3>1, FS_AddElement, Zenon
      <3> QED BY <2>1, <3>2
    <2> QED BY <2>2, {i} \cup {j} = {i, j}
  <1>4. Cardinality({i, j}) <= Cardinality(LlamaServers)
    BY <1>1, FS_Subset
  <1>5. Cardinality(LlamaServers) \in Nat
    BY <1>1, FS_CardinalityType
  <1> QED BY <1>3, <1>4, <1>5

\* What the gate lets through: where the owners can be told, every llama-server
\* that runs holds the port.
LEMMA GateFacts ==
  ASSUME TypeOK, lookup = "owners", NEW r \in Ports, NEW p \in LivePorts(r),
         NEW c \in BOOLEAN, Gate(p, c)
  PROVE  \A i \in Pids : Llama(i) => server[i].port = p
  <1>1. Owner(p) \in {"none", "ours"}
    BY DEF Gate
  <1>2. SUFFICES ASSUME NEW i \in Pids, Llama(i) PROVE server[i].port = p
    OBVIOUS
  <1>3. i \in LlamaServers
    BY <1>2 DEF LlamaServers
  <1>4. CASE At(p) = {}
    BY <1>3, <1>4, LivePortsFacts
  <1>5. CASE At(p) # {}
    <2>1. PICK j \in At(p) : server[j].kind = "llama"
      BY <1>1, <1>5 DEF Owner, Seen, HeldBy
    <2>2. j \in LlamaServers /\ server[j].port = p
      BY <2>1 DEF At, LlamaServers, Llama
    <2> QED BY <2>2, <1>3, OneLlamaServer DEF Gate
  <1> QED BY <1>4, <1>5

\* A stop changes the status of those it is sent to, and nothing else.
LEMMA StoppedFacts ==
  ASSUME TypeOK, NEW which \in SUBSET Pids, server' = Stopped(which)
  PROVE  /\ server' \in [Pids -> Proc]
         /\ \A i \in Pids :
               /\ server'[i].kind = server[i].kind /\ server'[i].port = server[i].port
               /\ server'[i].tune = server[i].tune /\ server'[i].by = server[i].by
               /\ server'[i].st = IF i \in which /\ server[i].st # "gone" THEN "dying"
                                                                        ELSE server[i].st
  BY DEF TypeOK, Proc, Stopped

\* The initial values are jobs and configs.
LEMMA IdleFacts == Idle \in Job /\ Idle.child = 0 /\ FirstConfig \in Config
  BY DEF Idle, Job, Goals, Tunes, FirstConfig, Config

\* The next tuning of a launch that ran out of memory is a tuning.
LEMMA RaisedFacts == \A t \in Tunes : Raised(t) \in Tunes
  BY DEF Raised, Larger, Tunes

LEMMA InitInv == Init => Inv
  <1> SUFFICES ASSUME Init PROVE Inv
    OBVIOUS
  <1>1. server \in [Pids -> Proc] /\ \A i \in Pids : server[i] = Gone
    <2>1. Gone \in Proc
      BY DEF Gone, Proc, Tunes
    <2> QED BY <2>1 DEF Init
  <1>2. disk \in Config
    <2>1. CASE disk = FirstConfig
      BY <2>1, IdleFacts
    <2>2. ASSUME NEW p \in Ports,
                 disk = [FirstConfig EXCEPT !.ready = TRUE, !.tune = Layers, !.port = p]
          PROVE  disk \in Config
      BY <2>2, IdleFacts, Layers \in Tunes DEF Config, Tunes
    <2> QED BY <2>1, <2>2 DEF Init
  <1>3. TypeOK
    <2>1. 0 \in 0 .. MaxStarts /\ 0 \in 0 .. MaxOps /\ 0 \in 0 .. MaxHands /\ 0 \in 0 .. MaxDeaths
      OBVIOUS
    <2> QED BY <1>1, <1>2, <2>1, IdleFacts DEF Init, TypeOK
  <1>4. \A i \in Pids : ~Up(i) /\ ~Alive(i)
    BY <1>1 DEF Up, Alive, Gone
  <1>5. OnePerPort /\ Owned
    BY <1>1, <1>4 DEF Init, OnePerPort, Owned, Gone
  <1>6. AloneInv /\ RecordInv
    BY DEF Init, AloneInv, RecordInv
  <1> QED BY <1>3, <1>5, <1>6 DEF Inv

-----------------------------------------------------------------------------
(* The steps. *)

LEMMA StartInv == Inv /\ Start => Inv'
  <1> SUFFICES ASSUME Inv, Start PROVE Inv'
    OBVIOUS
  <1>1. TypeOK'
    BY DEF Inv, TypeOK, Start, env
  <1>2. OnePerPort' /\ Owned'
    BY DEF Inv, OnePerPort, Owned, Start, Up, Alive
  <1>3. AloneInv' /\ RecordInv'
    BY DEF Inv, AloneInv, RecordInv, Start
  <1> QED BY <1>1, <1>2, <1>3 DEF Inv

\* Using a server that is there, while nothing of this session runs.
LEMMA AdoptInv ==
  ASSUME Inv, pc \in {"discover", "hold"}, NEW p \in Ports, NEW h \in BOOLEAN,
         NEW n \in BOOLEAN, Adopt(p, h, n)
  PROVE  Inv'
  <1>1. disk' \in Config
    BY DEF Inv, TypeOK, Adopt, Adopted, Config, FirstConfig, Tunes
  <1>2. TypeOK'
    BY <1>1, IdleFacts DEF Inv, TypeOK, Adopt, env
  <1>3. OnePerPort' /\ Owned'
    BY IdleFacts DEF Inv, OnePerPort, Owned, Adopt, Up, Alive
  <1>4. AloneInv' /\ RecordInv'
    BY DEF Inv, AloneInv, RecordInv, Owned, Adopt
  <1> QED BY <1>2, <1>3, <1>4 DEF Inv

\* A stop that is sent to llama-servers keeps the ports apart and the rest typed.
LEMMA StopKeeps ==
  ASSUME Inv, NEW which \in SUBSET Pids, server' = Stopped(which),
         \A i \in which : Up(i) => server[i].kind = "llama"
  PROVE  /\ OnePerPort'
         /\ \A i \in Pids : /\ Up(i)' <=> Up(i)
                            /\ Alive(i)' <=> Alive(i) /\ i \notin which
                            /\ Llama(i)' <=> Llama(i)
                            /\ server'[i].st = "dying" => server[i].kind = "llama"
  <1>1. \A i \in Pids : server[i].st \in {"gone", "loading", "serving", "dying"}
    BY DEF Inv, TypeOK, Proc
  <1>2. \A i \in Pids : /\ Up(i)' <=> Up(i)
                        /\ Alive(i)' <=> Alive(i) /\ i \notin which
                        /\ Llama(i)' <=> Llama(i)
    BY <1>1, StoppedFacts DEF Inv, Up, Alive, Llama
  <1>3. \A i \in Pids : server'[i].st = "dying" => server[i].kind = "llama"
    BY <1>1, StoppedFacts DEF Inv, Owned, Up
  <1>4. OnePerPort'
    BY <1>2, StoppedFacts DEF Inv, OnePerPort
  <1> QED BY <1>2, <1>3, <1>4

\* The end of a session: what it launched is told to stop.
LEMMA LeaveInv ==
  ASSUME Inv, Leave, UNCHANGED <<disk, starts, ops, env>>, picked' = picked
  PROVE  Inv'
  <1>1. children \in SUBSET Pids /\ server' = Stopped(children)
    BY DEF Inv, TypeOK, Leave, Reaped
  <1>2. \A i \in children : Up(i) => server[i].kind = "llama"
    BY DEF Inv, Owned
  <1>3. TypeOK'
    BY <1>1, StoppedFacts, IdleFacts DEF Inv, TypeOK, Leave, env
  <1>4. Owned'
    BY <1>1, <1>2, StopKeeps, StoppedFacts, IdleFacts DEF Inv, Owned, Leave
  <1>5. AloneInv' /\ RecordInv'
    BY DEF AloneInv, RecordInv, Leave
  <1> QED BY <1>1, <1>2, <1>3, <1>4, <1>5, StopKeeps DEF Inv

LEMMA ResolvingInv == Inv /\ Resolving => Inv'
  <1> SUFFICES ASSUME Inv, Resolving PROVE Inv'
    OBVIOUS
  <1>1. CASE Found
    BY <1>1, AdoptInv, ProbedPorts DEF Found, Inv
  <1>2. CASE Hold
    <2>1. PICK p \in Listeners : job' = [Idle EXCEPT !.port = p]
      BY <1>2 DEF Hold
    <2>2. p \in Ports
      BY ProbedPorts DEF Inv, Listeners
    <2>3. job' \in Job /\ job'.child = 0
      BY <2>1, <2>2, IdleFacts DEF Job
    <2>4. TypeOK'
      BY <1>2, <2>3 DEF Inv, TypeOK, Hold, env
    <2>5. OnePerPort' /\ Owned'
      BY <1>2, <2>3 DEF Inv, OnePerPort, Owned, Hold, Up, Alive
    <2>6. AloneInv' /\ RecordInv'
      BY <1>2 DEF Inv, AloneInv, RecordInv, Hold
    <2> QED BY <2>4, <2>5, <2>6 DEF Inv
  <1>3. CASE HoldAnswered
    BY <1>3, AdoptInv DEF HoldAnswered, Inv, TypeOK, Job
  <1>4. CASE HoldExpires
    BY <1>4, AdoptInv DEF HoldExpires, Inv, TypeOK, Job
  <1>5. CASE OnlyStubs
    <2>1. TypeOK'
      BY <1>5, ProbedPorts DEF Inv, TypeOK, OnlyStubs, env
    <2>2. OnePerPort' /\ Owned'
      BY <1>5 DEF Inv, OnePerPort, Owned, OnlyStubs, Up, Alive
    <2>3. AloneInv' /\ RecordInv'
      BY <1>5 DEF Inv, AloneInv, RecordInv, Owned, OnlyStubs
    <2> QED BY <2>1, <2>2, <2>3 DEF Inv
  <1>6. CASE LaunchRecorded
    <2>1. mem.port \in Ports /\ mem.tune \in Tunes /\ mem.cal \in BOOLEAN
      BY DEF Inv, TypeOK, Config
    <2>2. /\ job' \in Job /\ job'.child = 0 /\ job'.goal = "start" /\ job'.port = mem.port
      BY <1>6, <2>1 DEF LaunchRecorded, Launch, Job, Goals
    <2>3. TypeOK'
      BY <1>6, <2>2 DEF Inv, TypeOK, LaunchRecorded, env
    <2>4. OnePerPort' /\ Owned'
      BY <1>6, <2>2 DEF Inv, OnePerPort, Owned, LaunchRecorded, NothingRuns, Up, Alive
    <2>5. \A i \in Pids : ~(Llama(i) /\ Probes(server[i].port))
      BY <1>6, ProbedIsKnown DEF Inv, LaunchRecorded, NothingRuns, Listeners, Llama, At
    <2>6. AloneInv'
      BY <1>6, <2>2, <2>5
         DEF AloneInv, LaunchRecorded, NothingRuns, Known, Probes, ConfiguredPort, Llama, Up, env
    <2>7. RecordInv'
      BY <1>6, <2>2 DEF Inv, RecordInv, Owned, LaunchRecorded, NothingRuns
    <2> QED BY <2>3, <2>4, <2>6, <2>7 DEF Inv
  <1>7. CASE Bootstrap
    <2>1. CASE Leave /\ UNCHANGED disk
      BY <1>7, <2>1, LeaveInv DEF Bootstrap
    <2>2. ASSUME NEW t \in Tunes,
                 disk' = [disk EXCEPT !.url = NoPort, !.ready = TRUE, !.block = TRUE,
                                      !.tune = t, !.cal = FALSE],
                 job' = Launch("start", mem.port, t, FALSE), pc' = "spawn",
                 UNCHANGED <<server, mem, children, client, said>>
          PROVE  Inv'
      <3>1. disk' \in Config /\ disk'.port = disk.port
        BY <2>2 DEF Inv, TypeOK, Config
      <3>2. mem.port \in Ports
        BY DEF Inv, TypeOK, Config
      <3>3. /\ job' \in Job /\ job'.child = 0 /\ job'.goal = "start" /\ job'.port = mem.port
        BY <2>2, <3>2 DEF Launch, Job, Goals
      <3>4. TypeOK'
        BY <1>7, <2>2, <3>1, <3>3 DEF Inv, TypeOK, Bootstrap, env
      <3>5. OnePerPort' /\ Owned'
        BY <1>7, <2>2, <3>3 DEF Inv, OnePerPort, Owned, Bootstrap, NothingRuns, Up, Alive
      <3>6. \A i \in Pids : ~(Llama(i) /\ Probes(server[i].port))
        BY <1>7, ProbedIsKnown DEF Inv, Bootstrap, NothingRuns, Listeners, Llama, At
      <3>7. AloneInv'
        BY <1>7, <2>2, <3>3, <3>6
           DEF AloneInv, Bootstrap, NothingRuns, Known, Probes, ConfiguredPort, Llama, Up, env
      <3>8. RecordInv'
        BY <1>7, <2>2, <3>1, <3>3 DEF Inv, RecordInv, Owned, Bootstrap, NothingRuns
      <3> QED BY <3>4, <3>5, <3>7, <3>8 DEF Inv
    <2> QED BY <1>7, <2>1, <2>2 DEF Bootstrap
  <1> QED BY <1>1, <1>2, <1>3, <1>4, <1>5, <1>6, <1>7 DEF Resolving

-----------------------------------------------------------------------------
(* A launch. *)

LEMMA SpawnInv == Inv /\ Spawn => Inv'
  <1> SUFFICES ASSUME Inv, Spawn PROVE Inv'
    OBVIOUS
  <1>1. pc = "spawn" /\ pc' = "watch" /\ mem' = mem /\ disk' = disk /\ UNCHANGED env
    BY DEF Spawn
  <1>2. ASSUME job'.goal = job.goal, job'.port = job.port PROVE \A p : Known(p)' <=> Known(p)
    BY <1>1, <1>2 DEF Known, Probes, ConfiguredPort, env
  <1>3. CASE At(job.port) = {}
    <2>1. PICK i \in Pids :
            /\ server[i].st = "gone"
            /\ server' = [server EXCEPT ![i] =
                   [st |-> "loading", kind |-> "llama", port |-> job.port,
                    tune |-> job.tune, by |-> "session"]]
            /\ children' = children \cup {i} /\ job' = [job EXCEPT !.child = i]
      BY <1>3 DEF Spawn
    <2>2. /\ job' \in Job /\ job'.child = i /\ job'.port = job.port
          /\ job'.tune = job.tune /\ job'.goal = job.goal
      BY <2>1 DEF Inv, TypeOK, Job
    <2>3. job.port \in Ports /\ job.tune \in Tunes
      BY DEF Inv, TypeOK, Job
    <2>4. /\ server'[i].st = "loading" /\ server'[i].kind = "llama"
          /\ server'[i].port = job.port /\ server'[i].tune = job.tune
          /\ \A j \in Pids \ {i} : server'[j] = server[j]
      BY <2>1 DEF Inv, TypeOK
    <2>5. TypeOK'
      <3>1. server' \in [Pids -> Proc]
        BY <2>1, <2>3 DEF Inv, TypeOK, Proc
      <3> QED BY <1>1, <2>1, <2>2, <3>1 DEF Inv, TypeOK, Spawn, env
    <2>6. \A j \in Pids : Up(j) => server[j].port # job.port
      BY <1>3 DEF At
    <2>7. OnePerPort'
      BY <2>4, <2>6 DEF Inv, OnePerPort, Up
    <2>8. Owned'
      BY <1>1, <2>1, <2>2, <2>4 DEF Inv, Owned, Up, Alive
    <2>9. AloneInv'
      BY <1>1, <1>2, <2>2, <2>4 DEF Inv, AloneInv, Llama, Up, Alive
    <2>10. RecordInv'
      <3>1. i \notin children
        BY <2>1 DEF Inv, Owned, Up
      <3>2. \A j \in children : server'[j] = server[j] /\ j # i
        BY <2>4, <3>1 DEF Inv, TypeOK
      <3>3. picked' = picked /\ lookup' = lookup
        BY DEF Spawn, env
      <3> QED BY <1>1, <2>1, <2>2, <2>4, <3>2, <3>3 DEF Inv, RecordInv, Alive, Left, Described
    <2> QED BY <2>5, <2>7, <2>8, <2>9, <2>10 DEF Inv
  <1>4. CASE At(job.port) # {}
    <2>1. job' = [job EXCEPT !.child = 0] /\ UNCHANGED <<server, children>>
      BY <1>4 DEF Spawn
    <2>2. /\ job' \in Job /\ job'.child = 0 /\ job'.port = job.port /\ job'.goal = job.goal
      BY <2>1 DEF Inv, TypeOK, Job
    <2>3. TypeOK'
      BY <1>1, <2>1, <2>2 DEF Inv, TypeOK, Spawn, env
    <2>4. OnePerPort' /\ Owned'
      BY <1>1, <2>1, <2>2 DEF Inv, OnePerPort, Owned, Up, Alive
    <2>5. AloneInv'
      BY <1>1, <1>2, <2>1, <2>2 DEF Inv, AloneInv, Llama, Up, Alive
    <2>6. picked' = picked /\ lookup' = lookup /\ children \subseteq Pids
      BY DEF Spawn, env, Inv, TypeOK
    <2>7. RecordInv'
      BY <1>1, <2>1, <2>2, <2>6 DEF Inv, RecordInv, Alive, Left, Described
    <2> QED BY <2>3, <2>4, <2>5, <2>7 DEF Inv
  <1> QED BY <1>3, <1>4

LEMMA DoneInv == Inv /\ pc = "watch" /\ Done => Inv'
  <1> SUFFICES ASSUME Inv, pc = "watch", Done PROVE Inv'
    OBVIOUS
  <1>1. job.port \in Ports /\ job.tune \in Tunes
    BY DEF Inv, TypeOK, Job
  <1>2. /\ disk' \in Config
        /\ disk'.tune = job.tune
        /\ disk'.port = IF job.goal = "start" THEN disk.port ELSE job.port
    BY <1>1 DEF Inv, TypeOK, Config, Done, Recorded
  <1>3. mem' \in Config
    BY DEF Inv, TypeOK, Config, Done
  <1>4. TypeOK'
    BY <1>1, <1>2, <1>3, IdleFacts DEF Inv, TypeOK, Done, env
  <1>5. OnePerPort' /\ Owned'
    BY IdleFacts DEF Inv, OnePerPort, Owned, Done, Up, Alive
  <1>6. AloneInv' /\ RecordInv'
    BY <1>2 DEF Inv, AloneInv, RecordInv, Done, Alive, Left, Described, env
  <1> QED BY <1>4, <1>5, <1>6 DEF Inv

\* What a launch that is given up leaves: its child is told to stop, and what is
\* still alive of the session is on a port that nobody looked at.
LEMMA ChildStopped ==
  ASSUME Inv, pc = "watch", server' = Stopped({job.child} \cap Pids),
         children' = children \ {job.child}, UNCHANGED <<mem, lookup, disk, picked>>
  PROVE  /\ server' \in [Pids -> Proc] /\ OnePerPort'
         /\ \A i \in Pids : server'[i].st = "dying" => server'[i].kind = "llama"
         /\ \A i \in children' : Up(i)' /\ server'[i].kind = "llama"
         /\ \A i \in children' : Alive(i)' =>
             /\ lookup = "ports" /\ server'[i].port # job.port
             /\ (~picked => Described(i)')
         /\ \A i \in Pids : i = job.child /\ Up(i)' => server'[i].kind = "llama"
         /\ \A i \in Pids : server'[i].by = "session" /\ Alive(i)' => i \in children'
         /\ \A i \in Pids : Llama(i)' /\ Known(server[i].port) => ~Alive(i)'
  <1>1. \A i \in {job.child} \cap Pids : Up(i) => server[i].kind = "llama"
    BY DEF Inv, Owned
  <1>3. children \subseteq Pids
    BY DEF Inv, TypeOK
  <1> DEFINE which == {job.child} \cap Pids
  <1>4. which \in SUBSET Pids /\ server' = Stopped(which)
    OBVIOUS
  <1>5. /\ OnePerPort'
        /\ \A i \in Pids : /\ Up(i)' <=> Up(i)
                           /\ Alive(i)' <=> Alive(i) /\ i \notin which
                           /\ Llama(i)' <=> Llama(i)
                           /\ server'[i].st = "dying" => server[i].kind = "llama"
    BY <1>1, <1>4, StopKeeps
  <1>6. /\ server' \in [Pids -> Proc]
        /\ \A i \in Pids : /\ server'[i].kind = server[i].kind /\ server'[i].by = server[i].by
                           /\ server'[i].port = server[i].port
                           /\ server'[i].tune = server[i].tune
    BY <1>4, StoppedFacts DEF Inv
  <1> HIDE DEF which
  <1>7. \A i \in Pids : Alive(i)' <=> Alive(i) /\ i # job.child
    BY <1>5 DEF which
  <1>8. \A i \in Pids : server'[i].st = "dying" => server'[i].kind = "llama"
    BY <1>5, <1>6
  <1>9. ASSUME NEW i \in children'
        PROVE  /\ Up(i)' /\ server'[i].kind = "llama"
               /\ Alive(i)' => /\ lookup = "ports" /\ server'[i].port # job.port
                               /\ (~picked => Described(i)')
    <2>1. i \in children /\ i \in Pids /\ i # job.child
      BY <1>3, <1>9
    <2>2. /\ Up(i) /\ server[i].kind = "llama"
          /\ Alive(i) => Left(i) /\ (~picked => Described(i))
      BY <2>1 DEF Inv, Owned, RecordInv
    <2>3. Described(i)' <=> Described(i)
      BY <1>6, <2>1 DEF Described
    <2> QED BY <1>7, <1>5, <1>6, <2>1, <2>2, <2>3 DEF Left
  <1>10. \A i \in Pids : i = job.child /\ Up(i)' => server'[i].kind = "llama"
    BY <1>5, <1>6 DEF Inv, Owned
  <1>11. ASSUME NEW i \in Pids, server'[i].by = "session", Alive(i)' PROVE i \in children'
    BY <1>7, <1>11, <1>6 DEF Inv, Owned
  <1>12. ASSUME NEW i \in Pids, Llama(i)', Known(server[i].port) PROVE ~Alive(i)'
    <2>1. Llama(i)
      BY <1>12, <1>5
    <2>2. Alive(i) => i = job.child
      BY <2>1, <1>12 DEF Inv, AloneInv
    <2> QED BY <1>7, <2>2
  <1> QED BY <1>8, <1>9, <1>10, <1>11, <1>12, <1>5, <1>6

\* A launch that is stopped for another one, or is gone: the job goes on.
LEMMA NextLaunchInv ==
  ASSUME Inv, pc = "watch", server' = Stopped({job.child} \cap Pids),
         children' = children \ {job.child}, job' \in Job,
         job'.goal = job.goal, job'.port = job.port, job'.child \in {0, job.child},
         pc' = "release", UNCHANGED <<disk, mem, client, said, picked, starts, ops, env>>
  PROVE  Inv'
  <1>1. UNCHANGED lookup
    BY DEF env
  <1>2. TypeOK'
    BY <1>1, ChildStopped DEF Inv, TypeOK, env
  <1>3. Owned'
    BY <1>1, ChildStopped DEF Owned
  <1>4. AloneInv'
    <2>1. \A i \in Pids : Known(server[i].port)' <=> Known(server[i].port)
      <3>1. \A i \in Pids : server'[i].port = server[i].port
        BY {job.child} \cap Pids \in SUBSET Pids, StoppedFacts DEF Inv
      <3> QED BY <1>1, <3>1 DEF Known, Probes, ConfiguredPort
    <2> QED BY <1>1, <2>1, ChildStopped DEF AloneInv
  <1>5. RecordInv'
    <2>1. \A i \in children' : Alive(i)' => Left(i)' /\ (~picked => Described(i)')
      BY <1>1, ChildStopped DEF Left
    <2> QED BY <1>1, <2>1 DEF Inv, RecordInv
  <1> QED BY <1>1, <1>2, <1>3, <1>4, <1>5, ChildStopped DEF Inv

LEMMA TryAnotherInv == Inv /\ pc = "watch" /\ TryAnother => Inv'
  <1> SUFFICES ASSUME Inv, pc = "watch", TryAnother PROVE Inv'
    OBVIOUS
  <1>1. PICK t \in Tunes :
          job' = [job EXCEPT !.stage = "trial", !.tune = t, !.prev = job.tune]
    BY DEF TryAnother
  <1>2. /\ job' \in Job /\ job'.goal = job.goal
        /\ job'.port = job.port /\ job'.child = job.child
    BY <1>1 DEF Inv, TypeOK, Job
  <1> QED BY <1>2, NextLaunchInv DEF TryAnother

LEMMA TrialFailsInv == Inv /\ TrialFails => Inv'
  <1> SUFFICES ASSUME Inv, TrialFails PROVE Inv'
    OBVIOUS
  <1>1. job' = [job EXCEPT !.stage = "restore", !.tune = job.prev, !.child = 0]
    BY DEF TrialFails, Restored
  <1>2. /\ job' \in Job /\ job'.goal = job.goal /\ job'.port = job.port /\ job'.child = 0
    BY <1>1 DEF Inv, TypeOK, Job
  <1> QED BY <1>2, NextLaunchInv DEF TrialFails

LEMMA RaiseAndRetryInv == Inv /\ RaiseAndRetry => Inv'
  <1> SUFFICES ASSUME Inv, RaiseAndRetry PROVE Inv'
    OBVIOUS
  <1>1. /\ pc = "watch" /\ pc' = "spawn" /\ children' = children \ {job.child}
        /\ UNCHANGED <<server, disk, mem, client, said, picked, starts, ops, env>>
    BY DEF RaiseAndRetry
  <1>2. PICK c \in Pids : c = job.child /\ server[c].st = "gone"
    BY DEF RaiseAndRetry, OutOfMemory, ChildDied
  <1>3. job.tune \in Tunes /\ job.tries + 1 \in 0 .. Retries
    BY DEF Inv, TypeOK, Job, RaiseAndRetry
  <1>4. /\ job' \in Job /\ job'.goal = job.goal /\ job'.port = job.port /\ job'.child = 0
    BY <1>3, RaisedFacts DEF Inv, TypeOK, Job, RaiseAndRetry
  <1>5. TypeOK'
    BY <1>1, <1>4 DEF Inv, TypeOK, env
  <1>6. ~Alive(c)
    BY <1>2 DEF Alive
  <1>7. OnePerPort' /\ Owned'
    BY <1>1, <1>2, <1>4, <1>6 DEF Inv, OnePerPort, Owned, Up, Alive
  <1>8. AloneInv'
    BY <1>1, <1>2, <1>4, <1>6
       DEF Inv, AloneInv, Known, Probes, ConfiguredPort, Llama, Up, Alive, env
  <1>9. RecordInv'
    BY <1>1, <1>2, <1>4 DEF Inv, RecordInv, Alive, Left, Described, env
  <1> QED BY <1>5, <1>7, <1>8, <1>9 DEF Inv

LEMMA ReleaseInv == Inv /\ Release => Inv'
  <1> SUFFICES ASSUME Inv, Release PROVE Inv'
    OBVIOUS
  <1>1. TypeOK'
    BY DEF Inv, TypeOK, Release, env
  <1>2. OnePerPort' /\ Owned'
    BY DEF Inv, OnePerPort, Owned, Release, Up, Alive
  <1>3. AloneInv' /\ RecordInv'
    BY DEF Inv, AloneInv, RecordInv, Release, Known, Probes, ConfiguredPort, Llama, Up, Alive,
           Left, Described, env
  <1> QED BY <1>1, <1>2, <1>3 DEF Inv

LEMMA LaunchFailsInv == Inv /\ LaunchFails => Inv'
  <1> SUFFICES ASSUME Inv, LaunchFails PROVE Inv'
    OBVIOUS
  <1>1. CASE job.goal = "start"
    BY <1>1, LeaveInv DEF LaunchFails
  <1>2. CASE job.goal # "start"
    <2>1. /\ pc = "watch" /\ server' = Stopped({job.child} \cap Pids)
          /\ children' = children \ {job.child}
          /\ UNCHANGED <<disk, mem, client, said, picked, starts, ops, env>> /\ UNCHANGED lookup
      BY <1>2 DEF LaunchFails, env
    <2>2. mem.port \in Ports /\ mem.tune \in Tunes /\ mem.cal \in BOOLEAN
      BY DEF Inv, TypeOK, Config
    <2>3. CASE job' = Idle /\ pc' = "up"
      <3>1. TypeOK'
        BY <2>1, <2>3, ChildStopped, IdleFacts DEF Inv, TypeOK, env
      <3>2. Owned'
        BY <2>1, <2>3, ChildStopped, IdleFacts DEF Owned
      <3>3. \A i \in children' : Alive(i)' => (~picked => Described(i)')
        BY <2>1, ChildStopped
      <3>4. AloneInv' /\ RecordInv'
        BY <2>1, <2>3, <3>3 DEF AloneInv, RecordInv
      <3> QED BY <2>1, <3>1, <3>2, <3>4, ChildStopped DEF Inv
    <2>4. ASSUME NEW p \in LivePorts(mem.port), Gate(p, TRUE),
                 job' = Launch("back", p, mem.tune, mem.cal), pc' = "switch"
          PROVE  Inv'
      <3>1. p \in Ports
        BY <2>2, LivePortsFacts DEF Inv
      <3>2. /\ job' \in Job /\ job'.child = 0 /\ job'.goal = "back" /\ job'.port = p
        BY <2>2, <2>4, <3>1 DEF Launch, Job, Goals
      <3>3. TypeOK'
        BY <2>1, <2>4, <3>2, ChildStopped DEF Inv, TypeOK, env
      <3>4. Owned'
        BY <2>1, <2>4, <3>2, ChildStopped, Pids \subseteq Nat \ {0} DEF Owned
      <3>5. lookup = "owners" => \A i \in Pids : Llama(i) => server[i].port = p
        BY <2>2, <2>4, GateFacts DEF Inv
      <3>6. \A i \in Pids : (Llama(i)' <=> Llama(i)) /\ server'[i].port = server[i].port
        <4>1. \A i \in {job.child} \cap Pids : Up(i) => server[i].kind = "llama"
          BY DEF Inv, Owned
        <4>2. {job.child} \cap Pids \in SUBSET Pids
          OBVIOUS
        <4>3. \A i \in Pids : Llama(i)' <=> Llama(i)
          BY <2>1, <4>1, <4>2, StopKeeps
        <4> QED BY <2>1, <4>2, <4>3, StoppedFacts DEF Inv
      <3>7. AloneInv'
        BY <2>1, <2>4, <3>2, <3>5, <3>6 DEF AloneInv, Known
      <3>8. RecordInv'
        <4>1. \A i \in children' : Alive(i)' => (~picked => Described(i)')
          BY <2>1, ChildStopped
        <4> QED BY <2>1, <2>4, <3>2, <4>1 DEF RecordInv
      <3> QED BY <2>1, <3>3, <3>4, <3>7, <3>8, ChildStopped DEF Inv
    <2> QED BY <1>2, <2>3, <2>4 DEF LaunchFails
  <1> QED BY <1>1, <1>2

LEMMA LaunchingInv == Inv /\ Launching => Inv'
  BY SpawnInv, DoneInv, TryAnotherInv, TrialFailsInv, RaiseAndRetryInv, ReleaseInv,
     LaunchFailsInv DEF Launching, Ready

-----------------------------------------------------------------------------
(* The commands, the replacement, and the machine. *)

\* A command that passed the gate.
LEMMA CommandInv ==
  ASSUME Inv, pc = "up", pc' = "switch", NEW r \in Ports, NEW p \in LivePorts(r),
         NEW c \in BOOLEAN, Gate(p, c), job' \in Job, job'.child = 0, job'.port = p,
         job'.goal # "start", disk' \in Config, picked' \in BOOLEAN, ops' \in 0 .. MaxOps,
         ~picked' => disk' = disk /\ ~picked,
         UNCHANGED <<server, mem, children, client, said, starts, env>>
  PROVE  Inv'
  <1>1. TypeOK'
    BY DEF Inv, TypeOK, env
  <1>2. OnePerPort' /\ Owned'
    BY DEF Inv, OnePerPort, Owned, Up, Alive
  <1>3. AloneInv'
    BY GateFacts DEF Inv, AloneInv, Known, Llama, Up, Alive, env
  <1>4. RecordInv'
    BY DEF Inv, RecordInv, Alive, Described, env
  <1> QED BY <1>1, <1>2, <1>3, <1>4 DEF Inv

LEMMA CommandsInv == Inv /\ Commands => Inv'
  <1> SUFFICES ASSUME Inv, Commands PROVE Inv'
    OBVIOUS
  <1>1. /\ mem.port \in Ports /\ mem.tune \in Tunes /\ mem.cal \in BOOLEAN
        /\ disk.port \in Ports
    BY DEF Inv, TypeOK, Config
  <1>2. CASE Models
    <2>1. PICK p \in LivePorts(disk.port), t \in Tunes, c \in BOOLEAN :
            /\ disk' = Chosen(p, t) /\ picked' = TRUE
            /\ IF Gate(p, c)
               THEN pc' = "switch" /\ job' = Launch("models", p, t, FALSE)
               ELSE UNCHANGED <<pc, job>>
      BY <1>2 DEF Models
    <2>2. p \in Ports
      BY <1>1, LivePortsFacts DEF Inv
    <2>3. disk' \in Config
      BY <2>1, <2>2 DEF Chosen, Inv, TypeOK, Config
    <2>4. /\ pc = "up" /\ ops' \in 0 .. MaxOps
          /\ UNCHANGED <<server, mem, children, client, said, starts, env>>
      BY <1>2 DEF Inv, TypeOK, Models
    <2>5. CASE Gate(p, c)
      <3>1. /\ job' \in Job /\ job'.child = 0 /\ job'.goal = "models" /\ job'.port = p
        <4>1. job' = Launch("models", p, t, FALSE)
          BY <2>1, <2>5
        <4> QED BY <2>2, <4>1 DEF Launch, Job, Goals
      <3> QED BY <1>1, <2>1, <2>3, <2>4, <2>5, <3>1, CommandInv
    <2>6. CASE ~Gate(p, c)
      <3>1. TypeOK'
        BY <2>1, <2>3, <2>4, <2>6 DEF Inv, TypeOK, env
      <3>2. OnePerPort' /\ Owned'
        BY <2>1, <2>4, <2>6 DEF Inv, OnePerPort, Owned, Up, Alive
      <3>3. AloneInv' /\ RecordInv'
        BY <2>1, <2>4, <2>6 DEF AloneInv, RecordInv
      <3> QED BY <3>1, <3>2, <3>3 DEF Inv
    <2> QED BY <2>5, <2>6
  <1>3. CASE Restart
    <2>1. PICK p \in LivePorts(mem.port), c \in BOOLEAN :
            Gate(p, c) /\ job' = Launch("restart", p, mem.tune, mem.cal)
      BY <1>3 DEF Restart
    <2>2. p \in Ports
      BY <1>1, LivePortsFacts DEF Inv
    <2>3. /\ job' \in Job /\ job'.child = 0 /\ job'.goal = "restart" /\ job'.port = p
      BY <1>1, <2>1, <2>2 DEF Launch, Job, Goals
    <2>4. /\ pc = "up" /\ pc' = "switch" /\ ops' \in 0 .. MaxOps
          /\ disk' \in Config /\ picked' \in BOOLEAN
          /\ UNCHANGED <<server, disk, mem, children, client, said, picked, starts, env>>
      BY <1>3 DEF Inv, TypeOK, Restart
    <2> QED BY <1>1, <2>1, <2>3, <2>4, CommandInv
  <1>4. CASE Calibrate
    <2>1. PICK p \in LivePorts(mem.port), t \in Tunes :
            Gate(p, TRUE) /\ job' = Launch("calibrate", p, t, FALSE)
      BY <1>4 DEF Calibrate
    <2>2. p \in Ports
      BY <1>1, LivePortsFacts DEF Inv
    <2>3. /\ job' \in Job /\ job'.child = 0 /\ job'.goal = "calibrate" /\ job'.port = p
      BY <2>1, <2>2 DEF Launch, Job, Goals
    <2>4. /\ pc = "up" /\ pc' = "switch" /\ ops' \in 0 .. MaxOps
          /\ disk' \in Config /\ picked' \in BOOLEAN
          /\ UNCHANGED <<server, disk, mem, children, client, said, picked, starts, env>>
      BY <1>4 DEF Inv, TypeOK, Calibrate
    <2> QED BY <1>1, <2>1, <2>3, <2>4, CommandInv
  <1> QED BY <1>2, <1>3, <1>4 DEF Commands

\* What a replacement stops is the one llama-server that holds the port.
LEMMA SwitchStops ==
  ASSUME Inv, Owner(job.port) \in {"none", "ours"}
  PROVE  \A i \in At(job.port) : server[i].kind = "llama"
  BY DEF Inv, OnePerPort, Owner, Seen, HeldBy, At

LEMMA SwitchInv == Inv /\ Switch => Inv'
  <1> SUFFICES ASSUME Inv, Switch PROVE Inv'
    OBVIOUS
  <1>1. /\ pc = "switch" /\ UNCHANGED lookup
        /\ UNCHANGED <<disk, mem, children, client, said, picked, starts, ops, env>>
    BY DEF Switch, env
  <1>2. CASE Owner(job.port) \in {"none", "ours"}
    <2>1. /\ server' = Stopped(At(job.port)) /\ pc' = "release"
      BY <1>2 DEF Switch
    <2>2. PICK t \in Tunes : job' = [job EXCEPT !.tune = t, !.prev = t]
      BY <1>2 DEF Switch
    <2>3. /\ job' \in Job /\ job'.goal = job.goal
          /\ job'.port = job.port /\ job'.child = job.child
      BY <2>2 DEF Inv, TypeOK, Job
    <2>4. At(job.port) \in SUBSET Pids
      BY DEF At
    <2>5. \A i \in At(job.port) : Up(i) => server[i].kind = "llama"
      BY <1>2, SwitchStops
    <2>6. /\ server' \in [Pids -> Proc] /\ OnePerPort'
          /\ \A i \in Pids : /\ server'[i].kind = server[i].kind
                             /\ server'[i].port = server[i].port
                             /\ server'[i].by = server[i].by
                             /\ Up(i)' <=> Up(i)
                             /\ Alive(i)' <=> Alive(i) /\ i \notin At(job.port)
                             /\ Llama(i)' <=> Llama(i)
                             /\ server'[i].st = "dying" => server[i].kind = "llama"
      BY <2>1, <2>4, <2>5, StopKeeps, StoppedFacts DEF Inv
    <2>7. TypeOK'
      BY <1>1, <2>1, <2>3, <2>6 DEF Inv, TypeOK, env
    <2>8. Owned'
      BY <1>1, <2>1, <2>3, <2>6 DEF Inv, TypeOK, Owned
    <2>9. \A i \in Pids : Alive(i)' => server[i].port # job.port
      BY <2>6 DEF At, Up, Alive
    <2>10. AloneInv'
      <3>1. \A p : Known(p)' <=> Known(p)
        BY <1>1, <2>3 DEF Known, Probes, ConfiguredPort
      <3> QED BY <1>1, <2>1, <2>6, <2>9, <3>1 DEF Inv, AloneInv
    <2>11. ASSUME NEW i \in children', Alive(i)' PROVE Left(i)' /\ (~picked => Described(i)')
      <3>1. i \in children /\ i \in Pids /\ Alive(i) /\ Llama(i)
        BY <1>1, <2>6, <2>11 DEF Inv, TypeOK, Owned, Llama
      <3>2. lookup = "ports"
        <4>1. CASE lookup = "owners"
          BY <1>1, <4>1, <3>1, <2>9, <2>11 DEF Inv, AloneInv, RecordInv, Known
        <4>2. CASE lookup = "nothing"
          BY <1>2, <4>2 DEF Owner, Seen
        <4> QED BY <4>1, <4>2 DEF Inv, TypeOK, Lookups
      <3>3. server'[i].port = server[i].port /\ server'[i].tune = server[i].tune
        BY <2>1, <2>4, <3>1, StoppedFacts DEF Inv
      <3>4. ~picked => Described(i)
        BY <1>1, <3>1 DEF Inv, RecordInv
      <3> QED BY <1>1, <2>3, <2>9, <2>11, <3>1, <3>2, <3>3, <3>4 DEF Left, Described
    <2>12. RecordInv'
      BY <1>1, <2>1, <2>3, <2>11 DEF Inv, RecordInv
    <2> QED BY <2>6, <2>7, <2>8, <2>10, <2>12 DEF Inv
  <1>3. CASE Owner(job.port) \notin {"none", "ours"}
    <2>1. pc' = "up" /\ job' = Idle /\ UNCHANGED server
      BY <1>3 DEF Switch
    <2>2. TypeOK'
      BY <1>1, <2>1, IdleFacts DEF Inv, TypeOK, env
    <2>3. OnePerPort' /\ Owned'
      BY <1>1, <2>1, IdleFacts DEF Inv, OnePerPort, Owned, Up, Alive
    <2>4. AloneInv' /\ RecordInv'
      BY <1>1, <2>1 DEF Inv, AloneInv, RecordInv, Alive, Described
    <2> QED BY <2>2, <2>3, <2>4 DEF Inv
  <1> QED BY <1>2, <1>3

LEMMA CrashInv == Inv /\ Crash => Inv'
  <1> SUFFICES ASSUME Inv, Crash PROVE Inv'
    OBVIOUS
  <1>1. /\ server' \in [Pids -> Proc]
        /\ \A i \in Pids : /\ server'[i].st = server[i].st /\ server'[i].kind = server[i].kind
                           /\ server'[i].port = server[i].port /\ server'[i].by = "hand"
    BY DEF Inv, TypeOK, Proc, Crash
  <1>2. TypeOK'
    BY <1>1, IdleFacts DEF Inv, TypeOK, Crash, env
  <1>3. OnePerPort'
    BY <1>1 DEF Inv, OnePerPort, Up
  <1>4. Owned'
    BY <1>1, IdleFacts, ZenonT(40) DEF Inv, Owned, Crash
  <1>5. AloneInv' /\ RecordInv'
    BY DEF AloneInv, RecordInv, Crash
  <1> QED BY <1>2, <1>3, <1>4, <1>5 DEF Inv

\* A step of the machine at one process, which dies or serves.
LEMMA MachineInv ==
  ASSUME Inv, NEW i \in Pids, NEW to \in {"serving", "gone"}, Machine(i, to),
         to = "serving" => server[i].st = "loading", deaths' \in 0 .. MaxDeaths
  PROVE  Inv'
  <1>1. /\ UNCHANGED <<lookup, disk, mem, pc, job, client, said, picked, starts, ops, hands, need>>
        /\ children' = IF to = "gone" THEN children \ {i} ELSE children
        /\ server' = [server EXCEPT ![i] = IF to = "gone" THEN Gone ELSE [@ EXCEPT !.st = to]]
    BY DEF Machine
  <1>2. Gone \in Proc /\ Gone.st = "gone" /\ Gone.by = "hand"
    BY DEF Gone, Proc, Tunes
  <1>3. /\ server' \in [Pids -> Proc]
        /\ \A j \in Pids \ {i} : server'[j] = server[j]
        /\ to = "gone" => server'[i].st = "gone"
        /\ to = "serving" =>
              /\ server[i].st = "loading" /\ server'[i].st = "serving"
              /\ server'[i].kind = server[i].kind /\ server'[i].port = server[i].port
              /\ server'[i].tune = server[i].tune /\ server'[i].by = server[i].by
    <2>1. CASE to = "gone"
      BY <1>1, <1>2, <2>1 DEF Inv, TypeOK
    <2>2. CASE to = "serving"
      BY <1>1, <2>2 DEF Inv, TypeOK, Proc
    <2> QED BY <2>1, <2>2
  <1>4. TypeOK'
    BY <1>1, <1>3 DEF Inv, TypeOK
  <1>5. \A j \in Pids : /\ Up(j)' <=> Up(j) /\ ~(j = i /\ to = "gone")
                        /\ Alive(j)' <=> Alive(j) /\ ~(j = i /\ to = "gone")
                        /\ Up(j)' => /\ server'[j].kind = server[j].kind
                                     /\ server'[j].port = server[j].port
                                     /\ server'[j].tune = server[j].tune
                                     /\ server'[j].by = server[j].by
    BY <1>3 DEF Up, Alive
  <1>6. \A j \in Pids : (Llama(j)' => Llama(j)) /\ (Alive(j) => Up(j))
    BY <1>5 DEF Llama, Up, Alive
  <1>7. OnePerPort'
    BY <1>5 DEF Inv, OnePerPort
  <1>8. Owned'
    <2>1. \A j \in Pids : server'[j].st = "dying" => server'[j].kind = "llama"
      BY <1>3 DEF Inv, Owned
    <2>2. \A j \in children' : Up(j)' /\ server'[j].kind = "llama"
      BY <1>1, <1>5 DEF Inv, TypeOK, Owned
    <2>3. \A j \in Pids : j = job'.child /\ Up(j)' => server'[j].kind = "llama"
      BY <1>1, <1>5 DEF Inv, Owned
    <2>4. \A j \in Pids : server'[j].by = "session" /\ Alive(j)' => j \in children'
      BY <1>1, <1>5, <1>6 DEF Inv, Owned, Up, Alive
    <2>5. pc' \in {"down", "discover", "hold"} => children' = {}
      BY <1>1 DEF Inv, Owned
    <2> QED BY <2>1, <2>2, <2>3, <2>4, <2>5 DEF Owned
  <1>9. \A p : Known(p)' <=> Known(p)
    BY <1>1 DEF Known, Probes, ConfiguredPort
  <1>10. \A j \in Pids : Alive(j)' => server'[j].port = server[j].port /\ server'[j].tune = server[j].tune
    BY <1>5 DEF Up, Alive
  <1>11. AloneInv'
    BY <1>1, <1>5, <1>6, <1>9, <1>10 DEF Inv, AloneInv
  <1>12. RecordInv'
    BY <1>1, <1>5, <1>10 DEF Inv, TypeOK, RecordInv, Left, Described
  <1> QED BY <1>4, <1>7, <1>8, <1>11, <1>12 DEF Inv

\* What the user or another program starts takes a free process and a free port.
LEMMA HandStartInv == Inv /\ HandStart => Inv'
  <1> SUFFICES ASSUME Inv, HandStart PROVE Inv'
    OBVIOUS
  <1>1. PICK i \in Pids, p \in Ports, k \in Kinds :
          /\ Free(i) /\ At(p) = {} /\ (pc = "down" \/ k \in {"stub", "other"})
          /\ server' = [server EXCEPT ![i] =
                 [st |-> IF k = "stub" THEN "serving" ELSE "loading", kind |-> k,
                  port |-> p, tune |-> Layers, by |-> "hand"]]
    BY DEF HandStart
  <1>2. /\ UNCHANGED <<need, lookup, disk, mem, pc, job, children, client, said, picked,
                       starts, ops, deaths>>
        /\ hands' \in 0 .. MaxHands
    BY DEF HandStart, sess, Inv, TypeOK
  <1>3. server[i].st = "gone" /\ i # job.child
    BY <1>1 DEF Free
  <1>4. /\ server' \in [Pids -> Proc]
        /\ \A j \in Pids \ {i} : server'[j] = server[j]
        /\ server'[i].st \in {"serving", "loading"} /\ server'[i].kind = k
        /\ server'[i].port = p /\ server'[i].by = "hand"
    <2>1. k \in {"llama", "unit", "stub", "other"} /\ Layers \in Tunes
      BY DEF Tunes
    <2> QED BY <1>1, <2>1 DEF Inv, TypeOK, Proc
  <1>5. TypeOK'
    BY <1>2, <1>4 DEF Inv, TypeOK
  <1>6. \A j \in Pids : Up(j) => server[j].port # p
    BY <1>1 DEF At
  <1>7. OnePerPort'
    BY <1>4, <1>6 DEF Inv, OnePerPort, Up
  <1>8. ~Up(i) /\ i \notin children
    BY <1>3 DEF Inv, Owned, Up
  <1>9. Owned'
    BY <1>2, <1>3, <1>4, <1>8 DEF Inv, TypeOK, Owned, Up, Alive
  <1>10. \A q : Known(q)' <=> Known(q)
    BY <1>2 DEF Known, Probes, ConfiguredPort
  <1>11. CASE pc = "down"
    BY <1>2, <1>5, <1>7, <1>9, <1>11 DEF Inv, AloneInv, RecordInv
  <1>12. CASE k \in {"stub", "other"}
    <2>1. \A j \in Pids : Llama(j)' => j # i /\ server'[j] = server[j] /\ Llama(j)
      BY <1>4, <1>12 DEF Llama, Up
    <2>2. AloneInv'
      BY <1>2, <1>10, <2>1 DEF Inv, AloneInv, Alive
    <2>3. \A j \in children : server'[j] = server[j]
      BY <1>4, <1>8 DEF Inv, TypeOK
    <2>4. RecordInv'
      BY <1>2, <2>3 DEF Inv, RecordInv, Alive, Left, Described
    <2> QED BY <1>5, <1>7, <1>9, <2>2, <2>4 DEF Inv
  <1> QED BY <1>1, <1>11, <1>12

LEMMA OutsideInv == Inv /\ Outside => Inv'
  <1> SUFFICES ASSUME Inv, Outside PROVE Inv'
    OBVIOUS
  <1>1. CASE HandStart
    BY <1>1, HandStartInv
  <1>2. ASSUME NEW i \in Pids, Load(i) PROVE Inv'
    <2>1. deaths' \in 0 .. MaxDeaths
      BY <1>2 DEF Load, Inv, TypeOK
    <2>2. CASE server[i].tune >= need
      BY <1>2, <2>1, <2>2, MachineInv DEF Load
    <2>3. CASE ~(server[i].tune >= need)
      BY <1>2, <2>1, <2>3, MachineInv DEF Load
    <2> QED BY <2>2, <2>3
  <1>3. ASSUME NEW i \in Pids, Vanish(i) PROVE Inv'
    BY <1>3, MachineInv DEF Vanish, Inv, TypeOK
  <1>4. ASSUME NEW i \in Pids, Die(i) PROVE Inv'
    <2>1. deaths' \in 0 .. MaxDeaths
      BY <1>4 DEF Die, Inv, TypeOK
    <2> QED BY <1>4, <2>1, MachineInv DEF Die
  <1> QED BY <1>1, <1>2, <1>3, <1>4 DEF Outside

LEMMA NextInv == Inv /\ [Next]_vars => Inv'
  <1> SUFFICES ASSUME Inv, [Next]_vars PROVE Inv'
    OBVIOUS
  <1>1. CASE Quit
    BY <1>1, LeaveInv DEF Quit
  <1>2. CASE UNCHANGED vars
    BY <1>2 DEF vars, Inv, TypeOK, OnePerPort, Owned, AloneInv, RecordInv, Up, Alive, Llama, Known,
                Probes, ConfiguredPort, Left, Described
  <1> QED BY <1>1, <1>2, StartInv, ResolvingInv, LaunchingInv, CommandsInv, SwitchInv,
             CrashInv, OutsideInv DEF Next

-----------------------------------------------------------------------------
(* What a step can do to the processes. *)

\* A process is left alone, stopped, or taken over by nobody; it changes into
\* another one only when it starts or ends, and only a spawn starts one for
\* the session.
LEMMA ProcessSteps ==
  ASSUME Inv, [Next]_vars, NEW i \in Pids
  PROVE  /\ server'[i].st = "dying" => server'[i].kind = server[i].kind
         /\ server[i].st = "gone" /\ server'[i].st = "loading" /\ server'[i].by = "session"
              => pc = "spawn"
  <1> DEFINE Fine == /\ server'[i].st = "dying" => server'[i].kind = server[i].kind
                     /\ server[i].st = "gone" /\ server'[i].st = "loading"
                        /\ server'[i].by = "session" => pc = "spawn"
  <1>1. ASSUME UNCHANGED server PROVE Fine
    BY <1>1
  <1>2. ASSUME NEW which \in SUBSET Pids, server' = Stopped(which) PROVE Fine
    BY <1>2, StoppedFacts DEF Inv
  <1>3. CASE Start \/ Resolving \/ Commands \/ UNCHANGED vars
    <2>1. ASSUME Leave PROVE Fine
      BY <2>1, <1>2 DEF Leave, Reaped, Inv, TypeOK
    <2> QED BY <1>1, <1>3, <2>1 DEF Start, Resolving, Commands, Found, Hold, HoldAnswered, HoldExpires,
               Adopt, OnlyStubs, LaunchRecorded, Bootstrap, Models, Restart, Calibrate, vars
  <1>4. CASE Launching
    <2>1. CASE Spawn
      BY <2>1 DEF Spawn, Inv, TypeOK
    <2>2. CASE Release \/ RaiseAndRetry \/ (pc = "watch" /\ Done)
      BY <1>1, <2>2 DEF Release, RaiseAndRetry, Done
    <2>3. {job.child} \cap Pids \in SUBSET Pids
      OBVIOUS
    <2>4. CASE TryAnother \/ TrialFails
      BY <1>2, <2>3, <2>4 DEF TryAnother, TrialFails
    <2>5. CASE LaunchFails
      <3>1. children \in SUBSET Pids
        BY DEF Inv, TypeOK
      <3> QED BY <1>2, <2>3, <2>5, <3>1 DEF LaunchFails, Leave, Reaped
    <2> QED BY <1>4, <2>1, <2>2, <2>4, <2>5 DEF Launching, Ready
  <1>5. CASE Switch
    <2>1. At(job.port) \in SUBSET Pids
      BY DEF At
    <2> QED BY <1>1, <1>2, <1>5, <2>1 DEF Switch
  <1>6. CASE Quit
    BY <1>2, <1>6 DEF Quit, Leave, Reaped, Inv, TypeOK
  <1>7. CASE Crash
    BY <1>7 DEF Crash, Inv, TypeOK, Proc
  <1>8. CASE HandStart
    BY <1>8 DEF HandStart, Inv, TypeOK
  <1>9. ASSUME NEW j \in Pids, Load(j) \/ Vanish(j) \/ Die(j) PROVE Fine
    <2>1. PICK to \in {"serving", "gone"} : Machine(j, to)
      BY <1>9 DEF Load, Vanish, Die
    <2>2. server'[j].st # "dying" /\ server'[j].st # "loading"
      BY <2>1 DEF Machine, Gone, Inv, TypeOK, Proc
    <2>3. \A k \in Pids \ {j} : server'[k] = server[k]
      BY <2>1 DEF Machine, Inv, TypeOK
    <2> QED BY <2>2, <2>3
  <1> QED BY <1>3, <1>4, <1>5, <1>6, <1>7, <1>8, <1>9 DEF Next, Outside

-----------------------------------------------------------------------------
(* The theorems. *)

THEOREM Invariance == Spec => []Inv
  BY InitInv, NextInv, PTL DEF Spec

\* The types, nothing that a session launched alive after it unless it was
\* killed, and a file that describes the server it launched
\* (index.tsx:625-656, 1464-1472).
THEOREM ServerCorrect == Spec => []ServerInv
  <1>1. Inv => ServerInv
    <2> SUFFICES ASSUME Inv PROVE ServerInv
      OBVIOUS
    <2>1. \A i \in Pids : server[i].st \in {"gone", "loading", "serving", "dying"}
      BY DEF Inv, TypeOK, Proc
    <2>2. NothingLeftRunning
      BY <2>1 DEF Inv, Owned, NothingLeftRunning, Alive
    <2>3. RecordedIsRunning
      BY DEF Inv, RecordInv, RecordedIsRunning, Alive, Described
    <2> QED BY <2>2, <2>3 DEF Inv, ServerInv
  <1> QED BY <1>1, Invariance, PTL

\* Only a llama-server that is no unit's is ever told to stop, by whichever of
\* the five places that stop one (modelSwitch.ts:23-34, serverPolicy.ts:10-15).
THEOREM StrangersAreSafeCorrect == Spec => StrangersAreSafe
  <1>1. Inv /\ Inv' /\ [Next]_vars =>
          [\A i \in Pids : server'[i].st = "dying" => server[i].kind = "llama"]_vars
    BY ProcessSteps DEF Inv, Owned
  <1> QED BY <1>1, Invariance, PTL DEF Spec, StrangersAreSafe

\* The program launches a llama-server only when every one it looks for has been
\* told to stop (modelSwitch.ts:4-19, detect.ts:268-276).
THEOREM LaunchesAloneCorrect == Spec => LaunchesAlone
  <1>1. ASSUME Inv, [Next]_vars, NEW i \in Pids, Launched(i), NEW j \in Pids, Llama(j),
               server[j].port \in LookedAt
        PROVE  server[j].st = "dying"
    <2>1. pc = "spawn"
      BY <1>1, ProcessSteps DEF Launched
    <2>2. Known(server[j].port)
      BY <1>1, ProbedIsKnown DEF Inv, LookedAt, Known, Probes
    <2> QED BY <1>1, <2>1, <2>2 DEF Inv, AloneInv, Alive, Llama, Up
  <1>2. Inv /\ [Next]_vars =>
          [\A i \in Pids : Launched(i) =>
             \A j \in Pids : Llama(j) /\ server[j].port \in LookedAt => server[j].st = "dying"]_vars
    BY <1>1
  <1> QED BY <1>2, Invariance, PTL DEF Spec, LaunchesAlone

=============================================================================
