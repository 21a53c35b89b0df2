----------------------------- MODULE SetupProofs -----------------------------
(***************************************************************************)
(* What Setup promises for any ladder of runtimes, any models, disks and   *)
(* files, and any number of commands, failures and crashes.  The engine    *)
(* part needs only that nothing is taken unprobed (EngineInv).  What       *)
(* config.yaml ends up naming is decided far from where it is written:     *)
(* KeysInv, SwitchInv and ResetInv carry it from the moment the file is    *)
(* read, through the choice of the model and the transfer beside it, to    *)
(* the rename.                                                             *)
(***************************************************************************)
EXTENDS Setup, WellFoundedInduction, TLAPS

\* A slot where there must be one, and an engine that has been probed.
EngineInv ==
    /\ EngineTypeOK
    /\ eng.at \in {"unpack", "checkout", "compile", "got"} => eng.slot \in Slots \ {NoSlot}
    /\ EngineRuns

Names(p, m) == p # NoPath /\ ModelAt(p) = m

\* The user's keys, in the file and in what it will be replaced by.
KeysInv ==
    /\ conf.state = "ok" /\ conf.keys
    /\ call.at \in {"decide", "parts", "save"} => call.existing.keys
    /\ call.at = "rename" => tmp.state = "ok" /\ tmp.keys

\* A model is looked for or fetched only while the parts run, and for a model.
FetchInv ==
    /\ call.fetch \in {"look", "transfer"} => call.at = "parts" /\ call.model \in Models
    /\ call.fetch = "transfer" =>
           /\ call.inUse = NoPath /\ call.dest \in Paths
           /\ ModelAt(call.dest) = call.model
    /\ call.fetch = "look" => call.dest = NoPath
    /\ call.at \in {"select", "begin", "decide"} =>
           call.dest = NoPath /\ call.path = NoPath /\ call.model = NoModel
    /\ call.at = "select" => call.kind = "switch"
    /\ call.kind = "switch" => call.want \in Models

\* A switch: the model that was asked for, at every stage.
SwitchInv ==
    call.kind = "switch" =>
        /\ call.at = "begin" => Names(conf.model, call.want) /\ Names(conf.llamaModel, call.want)
        /\ call.at = "decide" => /\ Names(call.existing.model, call.want)
                                 /\ Names(call.existing.llamaModel, call.want)
        /\ call.at \in {"parts", "save", "rename"} =>
               /\ call.model \in {call.want, NoModel}
               /\ call.inUse # NoPath => ModelAt(call.inUse) = call.want
               /\ call.path # NoPath => ModelAt(call.path) = call.want
        /\ call.at = "done" /\ call.ok => ModelAt(call.path) = call.want

\* The selection a reset has to keep: its file is there, fits, and was not
\* fetched by this very reset.
Selected == /\ There(conf.llamaModel) /\ ModelAt(conf.llamaModel) \in Fits
            /\ conf.llamaModel # call.dest

ResetInv ==
    call.kind = "reset" /\ Selected =>
        /\ call.at \in {"decide", "parts", "save"} => call.existing.llamaModel = conf.llamaModel
        /\ call.at \in {"parts", "save"} =>
               /\ call.inUse = conf.llamaModel
               /\ call.model = ModelAt(conf.llamaModel)
               /\ Names(call.path, ModelAt(conf.llamaModel))
        /\ call.at = "rename" => ModelAt(tmp.llamaModel) = ModelAt(conf.llamaModel)

Inv == TypeOK /\ EngineInv /\ KeysInv /\ FetchInv /\ SwitchInv /\ ResetInv

-----------------------------------------------------------------------------
(* The first of a list. *)

\* A set of naturals has a least one.
LEMMA LeastIsThere ==
  ASSUME NEW T \in SUBSET Nat, T # {}
  PROVE  \E x \in T : \A y \in T : x <= y
  <1> DEFINE R == {ss \in Nat \X Nat : ss[1] < ss[2]}
  <1>1. OpToRel(<, Nat) = R
    BY DEF OpToRel
  <1>2. IsWellFoundedOn(R, Nat)
    BY <1>1, NatLessThanWellFounded
  <1>3. \E x \in T : \A y \in T : ~ (<<y, x>> \in R)
    BY <1>2, WFMin
  <1>4. ASSUME NEW x \in T, NEW y \in T, <<y, x>> \notin R PROVE x <= y
    <2>1. <<y, x>> \in Nat \X Nat /\ <<y, x>>[1] = y /\ <<y, x>>[2] = x
      OBVIOUS
    <2>2. ~(y < x)
      BY <1>4, <2>1
    <2> QED BY <2>2
  <1> HIDE DEF R
  <1> QED BY <1>3, <1>4

\* The first of a list that is among the slots is one of the slots.
LEMMA FirstOfFacts ==
  ASSUME NEW order, DOMAIN order \subseteq Nat, NEW slots
  PROVE  FirstOf(order, slots) \in slots \cup {NoSlot}
  <1> DEFINE hits == {k \in DOMAIN order : order[k] \in slots}
  <1>1. CASE hits = {}
    BY <1>1 DEF FirstOf
  <1>2. CASE hits # {}
    <2>1. hits \in SUBSET Nat
      OBVIOUS
    <2>2. \E k \in hits : \A j \in hits : k <= j
      BY <1>2, <2>1, LeastIsThere
    <2>3. (CHOOSE k \in hits : \A j \in hits : k <= j) \in hits
      BY <2>2
    <2> QED BY <1>2, <2>3 DEF FirstOf
  <1> QED BY <1>1, <1>2

\* Both lists are numbered.
LEMMA ListFacts == DOMAIN DiscoveryOrder \subseteq Nat /\ DOMAIN Ladder \subseteq Nat
  <1>1. Ladder \in Seq(STRING) /\ Prebuilt \in Seq(STRING)
    BY EngineAssumption DEF EngineAssumption
  <1>2. DOMAIN Ladder \subseteq Nat
    BY <1>1
  <1>3. \A p \in Seq(STRING) : DOMAIN (<<"own", "build-accel", "build-cpu">> \o p) \subseteq Nat
    OBVIOUS
  <1> QED BY <1>1, <1>2, <1>3 DEF DiscoveryOrder

\* What discovery and the ladder settle on has been probed.
LEMMA FoundFacts ==
  ASSUME NEW i, NEW asked, NEW slow
  PROVE  /\ Found(i, asked, slow) # NoSlot =>
               /\ Found(i, asked, slow) \in Slots
               /\ Accepted(i[Found(i, asked, slow)], asked, slow)
         /\ Installed(i, asked, slow) # NoSlot =>
               /\ Installed(i, asked, slow) \in Slots
               /\ Accepted(i[Installed(i, asked, slow)], asked, slow)
  <1>1. DOMAIN DiscoveryOrder \subseteq Nat /\ DOMAIN Ladder \subseteq Nat
    BY ListFacts
  <1>2. Found(i, asked, slow) \in {s \in Slots : Accepted(i[s], asked, slow)} \cup {NoSlot}
    BY <1>1, FirstOfFacts DEF Found
  <1>3. Installed(i, asked, slow) \in {s \in Slots : Verified(s, i[s], asked, slow)} \cup {NoSlot}
    BY <1>1, FirstOfFacts DEF Installed
  <1> QED BY <1>2, <1>3 DEF Verified

-----------------------------------------------------------------------------
(* The engine. *)

\* An engine that is taken after its probe leaves the engine part in order.
LEMMA GotInv ==
  ASSUME EngineTypeOK, builds' \in [Slots -> Grades], UNCHANGED <<source, faults>>,
         NEW s \in Slots \ {NoSlot}, NEW slow \in BOOLEAN,
         Accepted(builds'[s], eng.asked, slow), eng' = Got(builds', s, slow)
  PROVE  EngineInv'
  <1>1. eng' = [eng EXCEPT !.at = "got", !.slot = s, !.tried = {},
                           !.slow = Doubtful(builds', s, eng.asked, slow)]
    BY DEF Got
  <1>2. Doubtful(builds', s, eng.asked, slow) \in BOOLEAN
    BY DEF Doubtful, Unsupported
  <1>3. /\ eng'.at = "got" /\ eng'.slot = s /\ eng'.asked = eng.asked
        /\ eng'.slow = Doubtful(builds', s, eng.asked, slow)
    BY <1>1 DEF EngineTypeOK
  <1>4. EngineTypeOK'
    BY <1>1, <1>2 DEF EngineTypeOK, EngineStages
  <1>5. Runs(builds'[s]) /\ (~slow => ~Unsupported(builds'[s], eng.asked, FALSE))
    BY DEF Accepted, Unsupported
  <1>6. ~Doubtful(builds', s, eng.asked, slow) => ~Unsupported(builds'[s], eng.asked, FALSE)
    BY <1>5 DEF Doubtful
  <1>7. EngineRuns'
    BY <1>3, <1>5, <1>6 DEF EngineRuns
  <1> QED BY <1>3, <1>4, <1>7 DEF EngineInv

\* Every step of an acquisition keeps an engine probed.
LEMMA AcquireInv ==
  ASSUME EngineInv, AcquireStep
  PROVE  EngineInv'
  <1> DEFINE Engs == [at : EngineStages, slot : Slots \cup {NoSlot}, tried : SUBSET Slots,
                      asked : Models \cup {NoModel}, slow : BOOLEAN]
  <1>1. /\ builds \in [Slots -> Grades] /\ source \in {"none", "torn", "whole"}
        /\ eng \in Engs /\ faults \in 0 .. MaxFaults
        /\ eng.at \in {"unpack", "checkout", "compile", "got"} => eng.slot \in Slots \ {NoSlot}
    BY DEF EngineInv, EngineTypeOK
  <1>2. "build-accel" \in Slots \ {NoSlot} /\ "build-cpu" \in Slots \ {NoSlot}
    BY DEF Slots, Compiled, NoSlot
  \* A step that goes on without an engine.
  <1>3. ASSUME builds' \in [Slots -> Grades], source' \in {"none", "torn", "whole"},
               faults' \in 0 .. MaxFaults, eng' \in Engs, eng'.at # "got",
               eng'.at \in {"unpack", "checkout", "compile"} => eng'.slot \in Slots \ {NoSlot}
        PROVE  EngineInv'
    BY <1>3 DEF EngineInv, EngineTypeOK, EngineRuns
  \* A step that takes one.
  <1>4. ASSUME builds' \in [Slots -> Grades], UNCHANGED <<source, faults>>,
               NEW s \in Slots \ {NoSlot}, NEW slow \in BOOLEAN,
               Accepted(builds'[s], eng.asked, slow), eng' = Got(builds', s, slow)
        PROVE  EngineInv'
    BY <1>4, GotInv DEF EngineInv
  <1>5. Fault => faults' \in 0 .. MaxFaults
    <2>1. MaxFaults \in Nat
      BY EngineAssumption DEF EngineAssumption
    <2> QED BY <1>1, <2>1 DEF Fault
  <1>6. GiveUp \in Engs /\ GiveUp.at = "failed"
    BY <1>1 DEF GiveUp, EngineStages
  <1>7. CASE TryInstalled
    <2>1. PICK slow \in BOOLEAN :
            LET hit == Installed(builds, eng.asked, slow)
            IN  eng' = IF hit # NoSlot THEN Got(builds, hit, slow) ELSE [eng EXCEPT !.at = "list"]
      BY <1>7 DEF TryInstalled
    <2>2. UNCHANGED <<builds, source, faults>>
      BY <1>7 DEF TryInstalled
    <2> DEFINE hit == Installed(builds, eng.asked, slow)
    <2>3. CASE hit # NoSlot
      <3>1. hit \in Slots \ {NoSlot} /\ Accepted(builds[hit], eng.asked, slow)
        BY <2>3, FoundFacts
      <3>2. eng' = Got(builds', hit, slow)
        BY <2>1, <2>2, <2>3
      <3> QED BY <1>1, <1>4, <2>2, <3>1, <3>2
    <2>4. CASE hit = NoSlot
      <3>1. eng' = [eng EXCEPT !.at = "list"]
        BY <2>1, <2>4
      <3> QED BY <1>1, <1>3, <2>2, <3>1 DEF EngineStages
    <2> QED BY <2>3, <2>4
  <1>8. CASE ListReleases
    <2>1. /\ UNCHANGED <<builds, source>> /\ faults' \in 0 .. MaxFaults
          /\ \/ eng' = [eng EXCEPT !.at = "ladder"]
             \/ eng' = [eng EXCEPT !.at = "checkout", !.slot = "build-accel"]
      BY <1>1, <1>5, <1>8 DEF ListReleases
    <2>2. eng' \in Engs /\ eng'.at \in {"ladder", "checkout"}
          /\ (eng'.at = "checkout" => eng'.slot = "build-accel")
      BY <1>1, <1>2, <2>1 DEF EngineStages
    <2> QED BY <1>1, <1>2, <1>3, <2>1, <2>2
  <1>9. CASE FetchRung
    <2> DEFINE rung == FirstOf(Ladder, Untried)
    <2>1. rung # NoSlot => rung \in Slots
      <3>1. rung \in Untried \cup {NoSlot}
        BY FirstOfFacts, ListFacts
      <3> QED BY <3>1 DEF Untried, Slots
    <2>2. /\ source' = source
          /\ \/ /\ eng' = [eng EXCEPT !.at = "checkout", !.slot = "build-accel", !.tried = {}]
                /\ UNCHANGED <<builds, faults>>
             \/ /\ rung # NoSlot /\ builds' = [builds EXCEPT ![rung] = "none"]
                /\ eng' = [eng EXCEPT !.at = "unpack", !.slot = rung, !.tried = @ \cup {rung}]
                /\ UNCHANGED faults
             \/ /\ rung # NoSlot /\ Fault /\ eng.at = "ladder"
                /\ eng' = [eng EXCEPT !.tried = @ \cup {rung}]
                /\ UNCHANGED builds
      BY <1>9 DEF FetchRung
    <2> HIDE DEF rung
    <2>3. builds' \in [Slots -> Grades] /\ faults' \in 0 .. MaxFaults
      BY <1>1, <1>5, <2>2 DEF Grades
    <2>4. /\ eng' \in Engs /\ eng'.at \in {"ladder", "checkout", "unpack"}
          /\ eng'.at \in {"checkout", "unpack"} => eng'.slot \in Slots \ {NoSlot}
      <3>1. eng.tried \cup {rung} \in SUBSET Slots \/ rung = NoSlot
        BY <1>1, <2>1
      <3>2. CASE eng' = [eng EXCEPT !.at = "checkout", !.slot = "build-accel", !.tried = {}]
        BY <1>1, <1>2, <3>2 DEF EngineStages
      <3>3. CASE /\ rung # NoSlot
                 /\ eng' = [eng EXCEPT !.at = "unpack", !.slot = rung, !.tried = @ \cup {rung}]
        BY <1>1, <2>1, <3>1, <3>3 DEF EngineStages
      <3>4. CASE /\ rung # NoSlot /\ eng.at = "ladder"
                 /\ eng' = [eng EXCEPT !.tried = @ \cup {rung}]
        BY <1>1, <3>1, <3>4
      <3> QED BY <2>2, <3>2, <3>3, <3>4
    <2> QED BY <1>1, <1>3, <2>2, <2>3, <2>4
  <1>10. CASE UnpackRung
    <2>1. PICK g \in Grades, slow \in BOOLEAN :
            /\ builds' = [builds EXCEPT ![eng.slot] = g]
            /\ eng' = IF Verified(eng.slot, g, eng.asked, slow)
                      THEN Got(builds', eng.slot, slow)
                      ELSE [eng EXCEPT !.at = "ladder"]
      BY <1>10 DEF UnpackRung
    <2>2. UNCHANGED <<source, faults>> /\ eng.slot \in Slots \ {NoSlot}
      BY <1>1, <1>10 DEF UnpackRung
    <2>3. builds' \in [Slots -> Grades] /\ builds'[eng.slot] = g
      BY <1>1, <2>1, <2>2
    <2>4. CASE Verified(eng.slot, g, eng.asked, slow)
      <3>1. Accepted(builds'[eng.slot], eng.asked, slow)
        BY <2>3, <2>4 DEF Verified
      <3>2. eng' = Got(builds', eng.slot, slow)
        BY <2>1, <2>4
      <3> QED BY <1>4, <2>2, <2>3, <3>1, <3>2
    <2>5. CASE ~Verified(eng.slot, g, eng.asked, slow)
      <3>1. eng' = [eng EXCEPT !.at = "ladder"]
        BY <2>1, <2>5
      <3> QED BY <1>1, <1>3, <2>2, <2>3, <3>1 DEF EngineStages
    <2> QED BY <2>4, <2>5
  <1>11. CASE Checkout
    <2>1. /\ UNCHANGED builds /\ source' \in {"none", "torn", "whole"}
          /\ faults' \in 0 .. MaxFaults /\ eng.at = "checkout"
          /\ eng' = [eng EXCEPT !.at = "compile"] \/ eng' = GiveUp
      BY <1>1, <1>5, <1>11 DEF Checkout
    <2>2. CASE eng' = [eng EXCEPT !.at = "compile"]
      BY <1>1, <1>3, <2>1, <2>2 DEF EngineStages
    <2>3. CASE eng' = GiveUp
      BY <1>1, <1>3, <1>6, <2>1, <2>3
    <2> QED BY <2>1, <2>2, <2>3
  <1>12. CASE Compile
    <2>1. UNCHANGED source /\ eng.slot \in Slots \ {NoSlot}
      BY <1>1, <1>12 DEF Compile
    <2>2. ASSUME NEW g \in Grades, NEW slow \in BOOLEAN, UNCHANGED faults,
                 builds' = [builds EXCEPT ![eng.slot] = g],
                 eng' = IF Verified(eng.slot, g, eng.asked, slow)
                        THEN Got(builds', eng.slot, slow)
                        ELSE IF eng.slot = "build-accel"
                        THEN [eng EXCEPT !.at = "checkout", !.slot = "build-cpu"]
                        ELSE GiveUp
          PROVE  EngineInv'
      <3>1. builds' \in [Slots -> Grades] /\ builds'[eng.slot] = g
        BY <1>1, <2>1, <2>2
      <3>2. CASE Verified(eng.slot, g, eng.asked, slow)
        <4>1. Accepted(builds'[eng.slot], eng.asked, slow)
          BY <3>1, <3>2 DEF Verified
        <4>2. eng' = Got(builds', eng.slot, slow)
          BY <2>2, <3>2
        <4> QED BY <1>4, <2>1, <2>2, <3>1, <4>1, <4>2
      <3>3. CASE eng' = [eng EXCEPT !.at = "checkout", !.slot = "build-cpu"]
        BY <1>1, <1>2, <1>3, <2>1, <2>2, <3>1, <3>3 DEF EngineStages
      <3>4. CASE eng' = GiveUp
        BY <1>1, <1>3, <1>6, <2>1, <2>2, <3>1, <3>4
      <3> QED BY <2>2, <3>2, <3>3, <3>4
    <2>3. CASE UNCHANGED builds /\ eng' = GiveUp /\ faults' \in 0 .. MaxFaults
      BY <1>1, <1>3, <1>6, <2>1, <2>3
    <2> QED BY <1>1, <1>5, <1>12, <2>2, <2>3 DEF Compile
  <1> QED BY <1>7, <1>8, <1>9, <1>10, <1>11, <1>12 DEF AcquireStep

-----------------------------------------------------------------------------
(* The files and the configuration. *)

\* No model is at no path, and the models that fit are models.
LEMMA PathFacts ==
  /\ NoPath \notin Paths /\ NoModel \notin Models
  /\ \A p \in Paths : ModelAt(p) \in Models
  /\ \A d \in Dirs, m \in Models : <<d, m>> \in Paths /\ ModelAt(<<d, m>>) = m /\ <<d, m>> # NoPath
  /\ Pick \in Models /\ ModelsDir \in Dirs
  <1>1. NoModel \notin Models
    BY EngineAssumption DEF EngineAssumption, NoModel
  <1>2. Pick \in Models /\ ModelsDir \in Dirs
    BY SetupAssumption DEF SetupAssumption
  <1> QED BY <1>1, <1>2 DEF NoPath, Paths, ModelAt

LEMMA NothingFacts ==
  /\ NoConfig \in Configs /\ NoConfig.state = "none"
  /\ NoCall \in Calls /\ NoCall.at = "idle" /\ NoCall.kind = "none" /\ NoCall.fetch = "idle"
  /\ NoCall.dest = NoPath /\ NoCall.ok = FALSE /\ NoCall.path = NoPath
  /\ NoCall.model = NoModel /\ NoCall.inUse = NoPath
  /\ Idle \in [at : EngineStages, slot : Slots \cup {NoSlot}, tried : SUBSET Slots,
               asked : Models \cup {NoModel}, slow : BOOLEAN]
  /\ Idle.at = "idle"
  <1>1. NoConfig \in Configs /\ NoConfig.state = "none"
    BY DEF NoConfig, Configs
  <1>2. /\ NoCall.at = "idle" /\ NoCall.kind = "none" /\ NoCall.fetch = "idle"
        /\ NoCall.dest = NoPath /\ NoCall.ok = FALSE /\ NoCall.path = NoPath
        /\ NoCall.model = NoModel /\ NoCall.inUse = NoPath
    BY DEF NoCall
  <1>3. NoCall \in Calls
    BY <1>1 DEF NoCall, Calls
  <1>4. /\ Idle \in [at : EngineStages, slot : Slots \cup {NoSlot}, tried : SUBSET Slots,
                     asked : Models \cup {NoModel}, slow : BOOLEAN]
        /\ Idle.at = "idle"
    BY DEF Idle, EngineStages
  <1> QED BY <1>1, <1>2, <1>3, <1>4

\* The place of a download is one of the directories.
LEMMA TargetFacts == room \subseteq Dirs => Target \subseteq Dirs
  BY PathFacts DEF Target

\* No engine and no acquisition is in order.
LEMMA IdleInv ==
  ASSUME EngineInv, eng' = Idle, builds' \in [Slots -> Grades],
         source' \in {"none", "torn", "whole"}, faults' \in 0 .. MaxFaults
  PROVE  EngineInv'
  BY NothingFacts DEF EngineInv, EngineTypeOK, EngineRuns

\* What has to hold of the call and the file while the engine is in order.
CallInv == KeysInv /\ FetchInv /\ SwitchInv /\ ResetInv

LEMMA FaultFacts == ASSUME EngineInv, Fault PROVE faults' \in 0 .. MaxFaults
  <1>1. MaxFaults \in Nat
    BY EngineAssumption DEF EngineAssumption
  <1> QED BY <1>1 DEF Fault, EngineInv, EngineTypeOK

-----------------------------------------------------------------------------
(* The steps. *)

LEMMA GiveInv ==
  ASSUME Inv, NEW kind \in {"reset", "switch"}, NEW want \in Models \cup {NoModel},
         Give(kind, want), kind = "switch" => want \in Models
  PROVE  Inv'
  <1>1. /\ call' = [NoCall EXCEPT !.kind = kind, !.want = want,
                                  !.at = IF kind = "switch" THEN "select" ELSE "begin"]
        /\ eng' = Idle /\ room' \subseteq Dirs
        /\ UNCHANGED <<builds, source, faults, files, conf, tmp>>
    BY DEF Give
  <1>2. /\ call' \in Calls /\ call'.at = (IF kind = "switch" THEN "select" ELSE "begin")
        /\ call'.kind = kind /\ call'.want = want /\ call'.fetch = "idle"
        /\ call'.dest = NoPath /\ call'.path = NoPath /\ call'.model = NoModel
    <2> DEFINE stage == IF kind = "switch" THEN "select" ELSE "begin"
    <2>1. call' = [NoCall EXCEPT !.kind = kind, !.want = want, !.at = stage]
      BY <1>1
    <2>2. stage \in {"select", "begin"}
      OBVIOUS
    <2> HIDE DEF stage
    <2>3. call' \in Calls
      BY <2>1, <2>2, NothingFacts DEF Calls
    <2>4. call'.at = stage /\ call'.kind = kind /\ call'.want = want
      BY <2>1, NothingFacts DEF Calls
    <2>5. /\ call'.fetch = "idle" /\ call'.dest = NoPath
          /\ call'.path = NoPath /\ call'.model = NoModel
      BY <2>1, NothingFacts DEF Calls
    <2> QED BY <2>3, <2>4, <2>5 DEF stage
  <1>3. EngineInv'
    BY <1>1, IdleInv DEF Inv, EngineInv, EngineTypeOK
  <1>4. commands' \in 0 .. MaxCommands
    <2>1. MaxCommands \in Nat
      BY SetupAssumption DEF SetupAssumption
    <2> QED BY <2>1 DEF Give, Inv, TypeOK
  <1>5. TypeOK'
    BY <1>1, <1>2, <1>3, <1>4 DEF Inv, TypeOK, EngineInv
  <1>6. KeysInv' /\ FetchInv' /\ ResetInv'
    BY <1>1, <1>2 DEF Inv, KeysInv, FetchInv, ResetInv
  <1>7. SwitchInv'
    BY <1>1, <1>2 DEF SwitchInv
  <1> QED BY <1>3, <1>5, <1>6, <1>7 DEF Inv

LEMMA SelectModelInv == Inv /\ SelectModel => Inv'
  <1> SUFFICES ASSUME Inv, SelectModel PROVE Inv'
    OBVIOUS
  <1> DEFINE bin(p, slow) == Found(builds, IF There(p) THEN call.want ELSE NoModel, slow)
  <1>1. PICK p \in Places(call.want), slow \in BOOLEAN :
          /\ conf' = Recorded(Readable(conf), p, bin(p, slow))
          /\ call' = IF bin(p, slow) # NoSlot /\ There(p)
                     THEN [call EXCEPT !.at = "done", !.path = p, !.ok = TRUE]
                     ELSE [call EXCEPT !.at = "begin"]
    BY DEF SelectModel
  <1>2. /\ call.at = "select" /\ call.kind = "switch"
        /\ UNCHANGED <<engineVars, files, room, tmp, commands>>
    BY DEF SelectModel, Inv, FetchInv
  <1>3. call.want \in Models
    BY <1>2 DEF Inv, FetchInv
  <1>4. p \in Paths /\ ModelAt(p) = call.want /\ p # NoPath
    BY <1>3, PathFacts, TargetFacts DEF Places, Inv, TypeOK
  <1>5. bin(p, slow) \in Slots \cup {NoSlot}
    BY FoundFacts
  <1>6. /\ conf' \in Configs /\ conf'.state = "ok" /\ conf'.keys
        /\ conf'.model = p /\ conf'.llamaModel = p
    BY <1>1, <1>4, <1>5 DEF Inv, TypeOK, KeysInv, Readable, Recorded, Configs
  <1> HIDE DEF bin
  <1>7. /\ call' \in Calls /\ call'.at \in {"begin", "done"} /\ call'.kind = "switch"
        /\ call'.want = call.want /\ call'.fetch = call.fetch
        /\ call'.dest = call.dest
        /\ call'.at = "done" => call'.path = p
        /\ call'.at = "begin" => call'.path = call.path /\ call'.model = call.model
    <2>1. call \in Calls
      BY DEF Inv, TypeOK
    <2>2. CASE call' = [call EXCEPT !.at = "done", !.path = p, !.ok = TRUE]
      <3>1. call' \in Calls
        BY <1>4, <2>1, <2>2 DEF Calls
      <3>2. call'.at = "done" /\ call'.path = p
        BY <2>1, <2>2 DEF Calls
      <3>3. /\ call'.kind = call.kind /\ call'.want = call.want /\ call'.fetch = call.fetch
            /\ call'.dest = call.dest
        BY <2>1, <2>2 DEF Calls
      <3> QED BY <1>2, <3>1, <3>2, <3>3
    <2>3. CASE call' = [call EXCEPT !.at = "begin"]
      <3>1. call' \in Calls
        BY <2>1, <2>3 DEF Calls
      <3>2. /\ call'.at = "begin" /\ call'.kind = call.kind /\ call'.want = call.want
            /\ call'.fetch = call.fetch /\ call'.dest = call.dest
            /\ call'.path = call.path /\ call'.model = call.model
        BY <2>1, <2>3 DEF Calls
      <3> QED BY <1>2, <3>1, <3>2
    <2> QED BY <1>1, <2>2, <2>3
  <1>8. EngineInv' /\ TypeOK'
    BY <1>2, <1>6, <1>7 DEF Inv, TypeOK, EngineInv, EngineTypeOK, EngineRuns, engineVars
  <1>9. KeysInv' /\ FetchInv'
    BY <1>2, <1>6, <1>7 DEF Inv, KeysInv, FetchInv
  <1>10. SwitchInv' /\ ResetInv'
    BY <1>4, <1>6, <1>7 DEF SwitchInv, ResetInv, Names
  <1> QED BY <1>8, <1>9, <1>10 DEF Inv

LEMMA BeginInv == Inv /\ Begin => Inv'
  <1> SUFFICES ASSUME Inv, Begin PROVE Inv'
    OBVIOUS
  <1> DEFINE existing == IF call.kind = "reset" THEN KeptOnReset(Readable(conf)) ELSE Readable(conf)
             asks == IF There(Configured(existing)) THEN ModelAt(Configured(existing)) ELSE NoModel
  <1>1. /\ call.at = "begin" /\ call' = [call EXCEPT !.at = "decide", !.existing = existing]
        /\ FindServer(asks) /\ UNCHANGED <<files, room, conf, tmp, commands>>
    BY DEF Begin
  <1>2. Readable(conf) = conf /\ conf \in Configs
    BY DEF Readable, Inv, KeysInv, TypeOK
  <1>3. /\ KeptOnReset(conf) \in Configs /\ KeptOnReset(conf).keys
        /\ There(conf.llamaModel) /\ ModelAt(conf.llamaModel) \in Fits =>
               KeptOnReset(conf).llamaModel = conf.llamaModel
    <2> DEFINE p == IF conf.llamaModel # NoPath THEN conf.llamaModel ELSE conf.model
               keeps == There(p) /\ ModelAt(p) \in Fits
    <2>1. KeptOnReset(conf) = [NoConfig EXCEPT !.state = conf.state, !.keys = conf.keys,
                                 !.model = IF keeps THEN p ELSE NoPath,
                                 !.llamaModel = IF keeps THEN p ELSE NoPath]
      BY DEF KeptOnReset
    <2>2. p \in Paths \cup {NoPath} /\ conf.keys /\ conf.keys \in BOOLEAN
      BY <1>2 DEF Configs, Inv, KeysInv
    <2>3. conf.llamaModel # NoPath => p = conf.llamaModel
      OBVIOUS
    <2> HIDE DEF p
    <2>4. KeptOnReset(conf) \in Configs /\ KeptOnReset(conf).keys
          /\ (keeps => KeptOnReset(conf).llamaModel = p)
      BY <1>2, <2>1, <2>2, NothingFacts DEF Configs
    <2> QED BY <2>3, <2>4 DEF There
  <1>4. /\ existing \in Configs /\ existing.keys
        /\ call.kind = "switch" => existing = conf
        /\ call.kind = "reset" /\ There(conf.llamaModel) /\ ModelAt(conf.llamaModel) \in Fits =>
               existing.llamaModel = conf.llamaModel
    BY <1>2, <1>3 DEF Inv, KeysInv, Calls, TypeOK
  <1> HIDE DEF existing
  <1>5. /\ call' \in Calls /\ call'.at = "decide" /\ call'.kind = call.kind
        /\ call'.want = call.want /\ call'.fetch = call.fetch /\ call'.dest = call.dest
        /\ call'.existing = existing /\ call'.path = call.path /\ call'.model = call.model
    BY <1>1, <1>4 DEF Inv, TypeOK, Calls
  <1>6. EngineInv'
    <2>1. asks \in Models \cup {NoModel}
      <3>1. Configured(existing) \in Paths \cup {NoPath}
        BY <1>4 DEF Configured, Configs
      <3> QED BY <3>1, PathFacts DEF There
    <2> HIDE DEF asks
    <2>2. PICK slow \in BOOLEAN :
            LET hit == Found(builds, asks, slow) IN
            eng' = [Idle EXCEPT !.at = IF hit = NoSlot THEN "installed" ELSE "got",
                                !.slot = hit, !.asked = asks,
                                !.slow = Doubtful(builds, hit, asks, slow)]
      BY <1>1 DEF FindServer
    <2> DEFINE hit == Found(builds, asks, slow)
    <2>3. /\ hit \in Slots \cup {NoSlot}
          /\ hit # NoSlot => Accepted(builds[hit], asks, slow)
      BY FoundFacts
    <2> HIDE DEF hit
    <2>4. Doubtful(builds, hit, asks, slow) \in BOOLEAN
      BY DEF Doubtful, Unsupported
    <2>5. /\ eng' \in [at : EngineStages, slot : Slots \cup {NoSlot}, tried : SUBSET Slots,
                       asked : Models \cup {NoModel}, slow : BOOLEAN]
          /\ eng'.at = (IF hit = NoSlot THEN "installed" ELSE "got") /\ eng'.slot = hit
          /\ eng'.asked = asks /\ eng'.slow = Doubtful(builds, hit, asks, slow)
      BY <2>1, <2>2, <2>3, <2>4, NothingFacts DEF hit, EngineStages
    <2>6. UNCHANGED <<builds, source, faults>>
      BY <1>1 DEF FindServer
    <2>7. EngineTypeOK'
      BY <2>5, <2>6 DEF Inv, EngineInv, EngineTypeOK
    <2>8. hit # NoSlot => /\ Runs(builds[hit])
                          /\ ~Doubtful(builds, hit, asks, slow) => ~Unsupported(builds[hit], asks, FALSE)
      BY <2>3 DEF Accepted, Doubtful, Unsupported
    <2> QED BY <2>3, <2>5, <2>6, <2>7, <2>8 DEF EngineInv, EngineRuns
  <1>7. TypeOK'
    BY <1>1, <1>5, <1>6 DEF Inv, TypeOK, EngineInv
  <1>8. KeysInv' /\ FetchInv' /\ SwitchInv'
    BY <1>1, <1>4, <1>5 DEF Inv, KeysInv, FetchInv, SwitchInv, Names
  <1>9. ResetInv'
    BY <1>1, <1>4, <1>5 DEF ResetInv, Selected, There
  <1> QED BY <1>6, <1>7, <1>8, <1>9 DEF Inv

\* A step that leaves the engine, the disks and the file alone.
LEMMA EngineAlone ==
  ASSUME Inv, UNCHANGED <<builds, source, eng>>, faults' \in 0 .. MaxFaults,
         call' \in Calls, UNCHANGED <<room, conf, tmp, commands>>,
         files' \in [Paths -> {"none", "short", "corrupt", "whole"}]
  PROVE  EngineInv' /\ TypeOK'
  <1>1. EngineInv'
    BY DEF Inv, EngineInv, EngineTypeOK, EngineRuns
  <1> QED BY <1>1 DEF Inv, TypeOK, EngineInv

LEMMA DecideModelInv == Inv /\ DecideModel => Inv'
  <1> SUFFICES ASSUME Inv, DecideModel PROVE Inv'
    OBVIOUS
  <1> DEFINE e == call.existing
             inUse == IF There(e.llamaModel) THEN e.llamaModel
                      ELSE IF There(e.model) THEN e.model ELSE NoPath
             asked == IF call.kind = "switch" THEN call.want ELSE Pick
             parts == [call EXCEPT !.at = "parts", !.inUse = inUse]
  <1>1. /\ call.at = "decide" /\ UNCHANGED <<builds, source, eng, files, room, conf, tmp, commands>>
        /\ \/ /\ inUse # NoPath /\ UNCHANGED faults
              /\ call' = [parts EXCEPT !.path = inUse, !.model = ModelAt(inUse), !.fetch = "look"]
           \/ /\ inUse = NoPath /\ UNCHANGED faults
              /\ \E hashed \in BOOLEAN :
                   call' = [parts EXCEPT !.model = asked, !.hashed = hashed, !.fetch = "look"]
           \/ /\ inUse = NoPath /\ Fault
              /\ call' = [parts EXCEPT !.errors = TRUE, !.fetch = "over"]
    BY DEF DecideModel
  <1>2. /\ call \in Calls /\ e \in Configs /\ e.keys
        /\ call.kind = "switch" => call.want \in Models
    BY <1>1 DEF Inv, TypeOK, Calls, KeysInv, FetchInv
  <1>3. asked \in Models /\ inUse \in Paths \cup {NoPath}
        /\ (inUse # NoPath => ModelAt(inUse) \in Models)
    BY <1>2, PathFacts DEF Configs
  <1>4. call.kind = "switch" /\ inUse # NoPath => ModelAt(inUse) = call.want
    BY <1>1 DEF Inv, SwitchInv, Names
  <1>5. call.kind = "switch" => asked = call.want
    OBVIOUS
  <1>6. call.kind = "reset" /\ There(conf.llamaModel) /\ ModelAt(conf.llamaModel) \in Fits =>
            inUse = conf.llamaModel /\ inUse # NoPath
    BY <1>1 DEF Inv, ResetInv, Selected, FetchInv, There
  <1> HIDE DEF inUse, asked
  <1>7. call.path = NoPath /\ call.model = NoModel /\ call.dest = NoPath
    BY <1>1 DEF Inv, FetchInv
  <1>8. /\ call' \in Calls /\ call'.at = "parts" /\ call'.kind = call.kind
        /\ call'.want = call.want /\ call'.dest = NoPath /\ call'.inUse = inUse
        /\ call'.existing = call.existing
        /\ \/ /\ inUse # NoPath /\ call'.fetch = "look"
              /\ call'.path = inUse /\ call'.model = ModelAt(inUse)
           \/ /\ inUse = NoPath /\ call'.fetch = "look"
              /\ call'.path = NoPath /\ call'.model = asked
           \/ /\ inUse = NoPath /\ call'.path = NoPath /\ call'.model = NoModel
              /\ call'.fetch = "over"
    <2>1. parts \in Calls
      BY <1>2, <1>3 DEF Calls
    <2>2. /\ parts.at = "parts" /\ parts.kind = call.kind /\ parts.want = call.want
          /\ parts.dest = NoPath /\ parts.inUse = inUse /\ parts.existing = call.existing
          /\ parts.path = NoPath /\ parts.model = NoModel
      BY <1>2, <1>7 DEF Calls
    <2> HIDE DEF parts
    <2>3. CASE /\ inUse # NoPath
               /\ call' = [parts EXCEPT !.path = inUse, !.model = ModelAt(inUse), !.fetch = "look"]
      <3>1. call' \in Calls
        BY <1>3, <2>1, <2>3 DEF Calls
      <3>2. /\ call'.at = parts.at /\ call'.kind = parts.kind /\ call'.want = parts.want
            /\ call'.dest = parts.dest /\ call'.inUse = parts.inUse
            /\ call'.existing = parts.existing
            /\ call'.fetch = "look" /\ call'.path = inUse /\ call'.model = ModelAt(inUse)
        BY <2>1, <2>3 DEF Calls
      <3> QED BY <2>2, <2>3, <3>1, <3>2
    <2>4. ASSUME inUse = NoPath, NEW hashed \in BOOLEAN,
                 call' = [parts EXCEPT !.model = asked, !.hashed = hashed, !.fetch = "look"]
          PROVE  /\ call' \in Calls /\ call'.at = "parts" /\ call'.kind = call.kind
                 /\ call'.want = call.want /\ call'.dest = NoPath /\ call'.inUse = inUse
                 /\ call'.existing = call.existing /\ call'.fetch = "look"
                 /\ call'.path = NoPath /\ call'.model = asked
      <3>1. call' \in Calls
        BY <1>3, <2>1, <2>4, ZenonT(40) DEF Calls
      <3>2. /\ call'.at = parts.at /\ call'.kind = parts.kind /\ call'.want = parts.want
            /\ call'.dest = parts.dest /\ call'.inUse = parts.inUse
            /\ call'.existing = parts.existing
            /\ call'.path = parts.path /\ call'.model = asked /\ call'.fetch = "look"
        BY <2>1, <2>4 DEF Calls
      <3> QED BY <2>2, <2>4, <3>1, <3>2
    <2>5. CASE inUse = NoPath /\ call' = [parts EXCEPT !.errors = TRUE, !.fetch = "over"]
      <3>1. call' \in Calls
        BY <2>1, <2>5 DEF Calls
      <3>2. /\ call'.at = parts.at /\ call'.kind = parts.kind /\ call'.want = parts.want
            /\ call'.dest = parts.dest /\ call'.inUse = parts.inUse
            /\ call'.existing = parts.existing
            /\ call'.path = parts.path /\ call'.model = parts.model /\ call'.fetch = "over"
        BY <2>1, <2>5 DEF Calls
      <3> QED BY <2>2, <2>5, <3>1, <3>2
    <2> QED BY <1>1, <2>3, <2>4, <2>5
  <1>9. faults' \in 0 .. MaxFaults
    BY <1>1, FaultFacts DEF Inv, EngineInv, EngineTypeOK
  <1>10. EngineInv' /\ TypeOK'
    BY <1>1, <1>8, <1>9, EngineAlone DEF Inv, TypeOK
  <1>11. KeysInv' /\ FetchInv'
    BY <1>1, <1>2, <1>3, <1>8 DEF Inv, KeysInv, FetchInv
  <1>12. SwitchInv'
    BY <1>4, <1>5, <1>8 DEF SwitchInv
  <1>13. ResetInv'
    <2>1. call'.kind = "reset" /\ Selected' => call.kind = "reset" /\ Selected
      BY <1>1, <1>7, <1>8 DEF Selected, There
    <2>2. call'.kind = "reset" /\ Selected' =>
             /\ call.existing.llamaModel = conf.llamaModel
             /\ inUse = conf.llamaModel /\ inUse # NoPath
      BY <1>1, <1>6, <2>1 DEF Inv, ResetInv, Selected
    <2> QED BY <1>1, <1>8, <2>2 DEF ResetInv, Names
  <1> QED BY <1>10, <1>11, <1>12, <1>13 DEF Inv

\* A step while the parts run keeps what config.yaml will name, as long as any
\* path it settles on is one of the model that is looked for.
LEMMA PartsKept ==
  ASSUME Inv, call.at = "parts", UNCHANGED <<conf, tmp>>, call'.at \in {"parts", "save"},
         call'.kind = call.kind, call'.want = call.want, call'.inUse = call.inUse,
         call'.model = call.model, call'.existing = call.existing,
         call'.at = "save" => call'.fetch = "over",
         call'.fetch = "look" => call.fetch = "look" /\ call'.dest = call.dest,
         call'.fetch = "transfer" =>
             \/ call.fetch = "transfer" /\ call'.dest = call.dest
             \/ /\ call.fetch = "look" /\ call.inUse = NoPath
                /\ call'.dest \in Paths /\ ModelAt(call'.dest) = call.model,
         \/ call'.path = call.path
         \/ call'.path = call.inUse /\ call.inUse # NoPath
         \/ Names(call'.path, call.model) /\ call.model \in Models,
         Selected' => Selected
  PROVE  KeysInv' /\ FetchInv' /\ SwitchInv' /\ ResetInv'
  <1>1. KeysInv'
    BY DEF Inv, KeysInv
  <1>2. FetchInv'
    BY DEF Inv, FetchInv
  <1>3. SwitchInv'
    BY PathFacts DEF Inv, SwitchInv, Names
  <1>4. ResetInv'
    BY DEF Inv, ResetInv, Selected, There, Names
  <1> QED BY <1>1, <1>2, <1>3, <1>4

LEMMA EnginePartInv == Inv /\ EnginePart => Inv'
  <1> SUFFICES ASSUME Inv, EnginePart PROVE Inv'
    OBVIOUS
  <1>1. /\ call.at = "parts" /\ UNCHANGED <<files, room, conf, tmp, commands>>
        /\ \/ call' = call
           \/ call' = [call EXCEPT !.errors = TRUE, !.abort = NeedDownload]
    BY DEF EnginePart
  <1>2. EngineInv'
    BY AcquireInv DEF EnginePart, Inv
  <1>3. call \in Calls /\ NeedDownload \in BOOLEAN
    BY DEF Inv, TypeOK, NeedDownload
  <1>4. call' \in Calls
    BY <1>1, <1>3, ZenonT(40) DEF Calls
  <1>5. /\ call'.at = call.at /\ call'.kind = call.kind /\ call'.want = call.want
        /\ call'.inUse = call.inUse /\ call'.model = call.model
        /\ call'.existing = call.existing /\ call'.fetch = call.fetch
        /\ call'.dest = call.dest /\ call'.path = call.path
    BY <1>1, <1>3 DEF Calls
  <1>6. TypeOK'
    BY <1>1, <1>2, <1>4 DEF Inv, TypeOK, EngineInv
  <1>7. Selected' => Selected
    BY <1>1, <1>5 DEF Selected, There
  <1>8. KeysInv' /\ FetchInv' /\ SwitchInv' /\ ResetInv'
    BY <1>1, <1>5, <1>7, PartsKept
  <1> QED BY <1>2, <1>6, <1>8 DEF Inv

\* What ends a transfer or a look at the disks.
LEMMA OverFacts ==
  call \in Calls =>
    /\ Over \in Calls /\ Over.fetch = "over" /\ Over.at = call.at /\ Over.kind = call.kind
    /\ Over.want = call.want /\ Over.inUse = call.inUse /\ Over.model = call.model
    /\ Over.existing = call.existing /\ Over.dest = call.dest /\ Over.path = call.path
  BY ZenonT(40) DEF Over, Calls

\* Both parts of a look or a transfer that ends: with a path, or with an error.
LEMMA OverWith ==
  ASSUME Inv, call.at = "parts", UNCHANGED <<builds, source, eng, room, conf, tmp, commands>>,
         faults' \in 0 .. MaxFaults, call.model \in Models,
         files' \in [Paths -> {"none", "short", "corrupt", "whole"}],
         \/ call' = [Over EXCEPT !.errors = TRUE]
         \/ \E p \in Paths : /\ call' = [Over EXCEPT !.path = p]
                             /\ p = call.inUse \/ ModelAt(p) = call.model,
         Selected' => Selected
  PROVE  Inv'
  <1>1. call \in Calls
    BY DEF Inv, TypeOK
  <1>2. /\ call' \in Calls /\ call'.fetch = "over" /\ call'.at = call.at
        /\ call'.kind = call.kind /\ call'.want = call.want /\ call'.inUse = call.inUse
        /\ call'.model = call.model /\ call'.existing = call.existing
        /\ \/ call'.path = call.path
           \/ /\ call'.path \in Paths
              /\ call'.path = call.inUse \/ ModelAt(call'.path) = call.model
    <2>1. CASE call' = [Over EXCEPT !.errors = TRUE]
      <3>1. call' \in Calls
        BY <1>1, <2>1, OverFacts DEF Calls
      <3>2. /\ call'.fetch = Over.fetch /\ call'.at = Over.at
            /\ call'.kind = Over.kind /\ call'.want = Over.want /\ call'.inUse = Over.inUse
            /\ call'.model = Over.model /\ call'.existing = Over.existing
            /\ call'.path = Over.path
        BY <1>1, <2>1, OverFacts DEF Calls
      <3> QED BY <1>1, <3>1, <3>2, OverFacts
    <2>2. ASSUME NEW p \in Paths, call' = [Over EXCEPT !.path = p]
          PROVE  /\ call' \in Calls /\ call'.fetch = "over" /\ call'.at = call.at
                 /\ call'.kind = call.kind /\ call'.want = call.want
                 /\ call'.inUse = call.inUse /\ call'.model = call.model
                 /\ call'.existing = call.existing /\ call'.path = p
      <3>1. call' \in Calls
        BY <1>1, <2>2, OverFacts DEF Calls
      <3>2. /\ call'.fetch = Over.fetch /\ call'.at = Over.at
            /\ call'.kind = Over.kind /\ call'.want = Over.want /\ call'.inUse = Over.inUse
            /\ call'.model = Over.model /\ call'.existing = Over.existing
            /\ call'.path = p
        BY <1>1, <2>2, OverFacts DEF Calls
      <3> QED BY <1>1, <3>1, <3>2, OverFacts
    <2> QED BY <2>1, <2>2
  <1>3. EngineInv' /\ TypeOK'
    BY <1>2, EngineAlone
  <1>4. \/ call'.path = call.path
        \/ call'.path = call.inUse /\ call.inUse # NoPath
        \/ Names(call'.path, call.model) /\ call.model \in Models
    BY <1>2, PathFacts DEF Names
  <1>5. KeysInv' /\ FetchInv' /\ SwitchInv' /\ ResetInv'
    BY <1>2, <1>4, PartsKept
  <1> QED BY <1>3, <1>5 DEF Inv

LEMMA LookForModelInv == Inv /\ LookForModel => Inv'
  <1> SUFFICES ASSUME Inv, LookForModel PROVE Inv'
    OBVIOUS
  <1>1. /\ call.fetch = "look" /\ call.at = "parts" /\ call.model \in Models
        /\ call \in Calls /\ call.dest = NoPath
        /\ UNCHANGED <<builds, source, eng, faults, files, room, conf, tmp, commands>>
    BY DEF LookForModel, Inv, FetchInv, TypeOK, engineVars
  <1>2. /\ files' \in [Paths -> {"none", "short", "corrupt", "whole"}]
        /\ faults' \in 0 .. MaxFaults
    BY <1>1 DEF Inv, TypeOK, EngineTypeOK
  <1>3. Selected' => Selected
    BY <1>1 DEF Selected, There
  <1>4. call.inUse \in Paths \cup {NoPath}
    BY <1>1 DEF Calls
  <1>5. CASE call' = [Over EXCEPT !.errors = TRUE]
    BY <1>1, <1>2, <1>3, <1>5, OverWith
  <1>6. ASSUME NEW p \in Paths, call' = [Over EXCEPT !.path = p],
               p = call.inUse \/ ModelAt(p) = call.model
        PROVE  Inv'
    BY <1>1, <1>2, <1>3, <1>6, OverWith
  <1>7. ASSUME NEW d \in Target, call.inUse = NoPath,
               call' = [call EXCEPT !.fetch = "transfer", !.dest = <<d, call.model>>]
        PROVE  Inv'
    <2>1. d \in Dirs
      BY <1>7, TargetFacts DEF Inv, TypeOK
    <2>2. <<d, call.model>> \in Paths /\ ModelAt(<<d, call.model>>) = call.model
      BY <1>1, <2>1, PathFacts
    <2>3. call' \in Calls
      BY <1>1, <1>7, <2>2 DEF Calls
    <2>4. /\ call'.at = call.at /\ call'.kind = call.kind /\ call'.want = call.want
          /\ call'.inUse = call.inUse /\ call'.model = call.model
          /\ call'.existing = call.existing /\ call'.fetch = "transfer"
          /\ call'.dest = <<d, call.model>> /\ call'.path = call.path
      BY <1>1, <1>7 DEF Calls
    <2>5. EngineInv' /\ TypeOK'
      BY <1>1, <1>2, <2>3, EngineAlone
    <2>6. KeysInv' /\ FetchInv' /\ SwitchInv' /\ ResetInv'
      BY <1>1, <1>3, <1>7, <2>2, <2>4, PartsKept
    <2> QED BY <2>5, <2>6 DEF Inv
  <1>8. CASE room = {}
    BY <1>5, <1>8 DEF LookForModel
  <1>9. CASE room # {}
    <2>1. PICK d \in Target :
            \/ call' = [Over EXCEPT !.path = <<d, call.model>>]
            \/ call.inUse # NoPath /\ call' = [Over EXCEPT !.path = call.inUse]
            \/ \E p \in Reusable(call.model) : call' = [Over EXCEPT !.path = p]
            \/ /\ call.inUse = NoPath
               /\ call' = [call EXCEPT !.fetch = "transfer", !.dest = <<d, call.model>>]
      BY <1>9 DEF LookForModel
    <2>2. <<d, call.model>> \in Paths /\ ModelAt(<<d, call.model>>) = call.model
      <3>1. d \in Dirs
        BY TargetFacts DEF Inv, TypeOK
      <3> QED BY <1>1, <3>1, PathFacts
    <2>3. \A p \in Reusable(call.model) : p \in Paths /\ ModelAt(p) = call.model
      BY DEF Reusable
    <2> QED BY <1>4, <1>6, <1>7, <2>1, <2>2, <2>3
  <1> QED BY <1>8, <1>9

LEMMA TransferInv == Inv /\ (TransferEnds \/ TransferBreaks) => Inv'
  <1> SUFFICES ASSUME Inv, TransferEnds \/ TransferBreaks PROVE Inv'
    OBVIOUS
  <1>1. /\ call.fetch = "transfer" /\ call.at = "parts" /\ call.model \in Models
        /\ call \in Calls /\ call.dest \in Paths /\ ModelAt(call.dest) = call.model
        /\ UNCHANGED <<builds, source, eng, room, conf, tmp, commands>>
    BY DEF TransferEnds, TransferBreaks, Inv, FetchInv, TypeOK, engineVars
  <1>2. call'.dest = call.dest
    BY <1>1, OverFacts DEF TransferEnds, TransferBreaks, Calls
  <1>3. CASE TransferEnds
    <2>1. PICK got \in {"whole", "corrupt"} : files' = [files EXCEPT ![call.dest] = got]
      BY <1>3 DEF TransferEnds
    <2>2. /\ files' \in [Paths -> {"none", "short", "corrupt", "whole"}]
          /\ \A p \in Paths : p # call.dest => files'[p] = files[p]
      BY <1>1, <2>1 DEF Inv, TypeOK
    <2>3. Selected' => Selected
      <3>1. conf.llamaModel \in Paths \cup {NoPath}
        BY DEF Inv, TypeOK, Configs
      <3> QED BY <1>1, <1>2, <2>2, <3>1 DEF Selected, There
    <2>4. faults' \in 0 .. MaxFaults /\ call' = [Over EXCEPT !.path = call.dest]
      BY <1>3 DEF TransferEnds, engineVars, Inv, TypeOK, EngineTypeOK
    <2> QED BY <1>1, <2>2, <2>3, <2>4, OverWith
  <1>4. CASE TransferBreaks
    <2>1. faults' \in 0 .. MaxFaults
      BY <1>4, FaultFacts DEF TransferBreaks, Inv, EngineInv, EngineTypeOK
    <2>2. UNCHANGED files /\ call' = [Over EXCEPT !.errors = TRUE]
      BY <1>4 DEF TransferBreaks
    <2>3. Selected' => Selected
      BY <1>1, <1>2, <2>2 DEF Selected, There
    <2>4. files' \in [Paths -> {"none", "short", "corrupt", "whole"}]
      BY <2>2 DEF Inv, TypeOK
    <2> QED BY <1>1, <2>1, <2>2, <2>3, <2>4, OverWith
  <1> QED BY <1>3, <1>4

\* The two steps that only set marks of the parts.
LEMMA MarksInv == Inv /\ (CheckBinary \/ PartsEnd) => Inv'
  <1> SUFFICES ASSUME Inv, CheckBinary \/ PartsEnd PROVE Inv'
    OBVIOUS
  <1>1. /\ call.at = "parts" /\ call \in Calls
        /\ UNCHANGED <<builds, source, eng, faults, files, room, conf, tmp, commands>>
    BY DEF CheckBinary, PartsEnd, Inv, TypeOK, engineVars
  <1>2. /\ call' \in Calls /\ call'.at \in {"parts", "save"}
        /\ call'.at = "save" => call.fetch = "over"
        /\ call'.kind = call.kind /\ call'.want = call.want
        /\ call'.inUse = call.inUse /\ call'.model = call.model
        /\ call'.existing = call.existing /\ call'.fetch = call.fetch
        /\ call'.dest = call.dest /\ call'.path = call.path
    <2>1. CASE CheckBinary
      <3>1. PICK b \in BOOLEAN : call' = [call EXCEPT !.checked = TRUE, !.errors = b]
        <4> DEFINE p == IF call.inUse # NoPath THEN call.inUse ELSE <<ModelsDir, call.model>>
                   b(slow) == call.errors \/ (/\ call.model # NoModel /\ files[p] = "whole"
                                              /\ Unsupported(builds[eng.slot], call.model, slow))
        <4>1. \E slow \in BOOLEAN : call' = [call EXCEPT !.checked = TRUE, !.errors = b(slow)]
          BY <2>1 DEF CheckBinary
        <4>2. \A slow \in BOOLEAN : b(slow) \in BOOLEAN
          BY <1>1 DEF Calls
        <4> QED BY <4>1, <4>2
      <3>2. call' \in Calls
        BY <1>1, <3>1 DEF Calls
      <3>3. /\ call'.at = call.at /\ call'.kind = call.kind /\ call'.want = call.want
            /\ call'.inUse = call.inUse /\ call'.model = call.model
            /\ call'.existing = call.existing /\ call'.fetch = call.fetch
            /\ call'.dest = call.dest /\ call'.path = call.path
        BY <1>1, <3>1 DEF Calls
      <3> QED BY <1>1, <3>2, <3>3
    <2>2. CASE PartsEnd
      <3>1. /\ call.fetch = "over"
            /\ call' = [call EXCEPT !.at = "save", !.checked = FALSE, !.abort = FALSE]
        BY <2>2 DEF PartsEnd
      <3>2. call' \in Calls
        BY <1>1, <3>1 DEF Calls
      <3>3. /\ call'.at = "save" /\ call'.kind = call.kind /\ call'.want = call.want
            /\ call'.inUse = call.inUse /\ call'.model = call.model
            /\ call'.existing = call.existing /\ call'.fetch = call.fetch
            /\ call'.dest = call.dest /\ call'.path = call.path
        BY <1>1, <3>1 DEF Calls
      <3> QED BY <3>1, <3>2, <3>3
    <2> QED BY <2>1, <2>2
  <1>3. /\ files' \in [Paths -> {"none", "short", "corrupt", "whole"}]
        /\ faults' \in 0 .. MaxFaults
    BY <1>1 DEF Inv, TypeOK, EngineTypeOK
  <1>4. EngineInv' /\ TypeOK'
    BY <1>1, <1>2, <1>3, EngineAlone
  <1>5. Selected' => Selected
    BY <1>1, <1>2 DEF Selected, There
  <1>6. KeysInv' /\ FetchInv' /\ SwitchInv' /\ ResetInv'
    BY <1>1, <1>2, <1>5, PartsKept
  <1> QED BY <1>4, <1>6 DEF Inv

\* A report: the command is over and keeps only what it came to.
LEMMA OutcomeFacts ==
  ASSUME call \in Calls, NEW errors \in BOOLEAN
  PROVE  /\ Outcome(errors) \in Calls /\ Outcome(errors).at = "done"
         /\ Outcome(errors).kind = call.kind /\ Outcome(errors).want = call.want
         /\ Outcome(errors).fetch = "idle" /\ Outcome(errors).path = call.path
         /\ call.kind = "switch" /\ Outcome(errors).ok => There(call.path)
  <1> DEFINE ok == /\ eng.at = "got"
                   /\ IF call.kind = "switch" THEN There(call.path) ELSE ~errors
  <1>1. Outcome(errors) = [NoCall EXCEPT !.kind = call.kind, !.want = call.want, !.at = "done",
                                         !.path = call.path, !.ok = ok]
    BY DEF Outcome
  <1>2. ok \in BOOLEAN /\ (call.kind = "switch" /\ ok => There(call.path))
    BY DEF There
  <1> HIDE DEF ok
  <1>3. Outcome(errors) \in Calls
    BY <1>1, <1>2, NothingFacts, ZenonT(40) DEF Calls
  <1>4. /\ Outcome(errors).at = "done" /\ Outcome(errors).kind = call.kind
        /\ Outcome(errors).want = call.want /\ Outcome(errors).path = call.path
        /\ Outcome(errors).ok = ok
    BY <1>1, NothingFacts DEF Calls
  <1>5. Outcome(errors).fetch = "idle"
    BY <1>1, NothingFacts DEF Calls
  <1> QED BY <1>2, <1>3, <1>4, <1>5

\* A command that ends with a report.
LEMMA ReportInv ==
  ASSUME Inv, call.at \in {"save", "rename"}, NEW errors \in BOOLEAN, call' = Outcome(errors),
         eng' = Idle, UNCHANGED <<builds, source, files, room, commands>>,
         faults' \in 0 .. MaxFaults, conf' \in Configs, tmp' \in Configs,
         conf'.state = "ok", conf'.keys
  PROVE  Inv'
  <1>1. call \in Calls
    BY DEF Inv, TypeOK
  <1>2. /\ call' \in Calls /\ call'.at = "done" /\ call'.kind = call.kind
        /\ call'.want = call.want /\ call'.fetch = "idle" /\ call'.path = call.path
        /\ call.kind = "switch" /\ call'.ok => There(call.path)
    BY <1>1, OutcomeFacts
  <1>3. EngineInv'
    BY IdleInv DEF Inv, TypeOK, EngineTypeOK
  <1>4. TypeOK'
    BY <1>2, <1>3 DEF Inv, TypeOK, EngineInv
  <1>5. KeysInv' /\ FetchInv' /\ ResetInv'
    BY <1>2 DEF Inv, KeysInv, FetchInv, ResetInv
  <1>6. SwitchInv'
    BY <1>2 DEF Inv, SwitchInv, There
  <1> QED BY <1>3, <1>4, <1>5, <1>6 DEF Inv

LEMMA WriteConfigInv == Inv /\ WriteConfig => Inv'
  <1> SUFFICES ASSUME Inv, WriteConfig PROVE Inv'
    OBVIOUS
  <1>1. /\ call.at = "save" /\ call \in Calls /\ conf \in Configs /\ tmp \in Configs
        /\ conf.state = "ok" /\ conf.keys
        /\ UNCHANGED <<builds, source, files, room, commands>>
    BY DEF WriteConfig, Inv, TypeOK, KeysInv
  <1>2. CASE /\ tmp' = BuildConfig /\ conf' = WhileWriting(conf)
             /\ call' = [call EXCEPT !.at = "rename"] /\ UNCHANGED <<eng, faults>>
    <2>1. UNCHANGED conf
      BY <1>2 DEF WhileWriting
    <2>2. call' \in Calls
      BY <1>1, <1>2 DEF Calls
    <2>3. /\ call'.at = "rename" /\ call'.kind = call.kind /\ call'.want = call.want
          /\ call'.inUse = call.inUse /\ call'.model = call.model
          /\ call'.fetch = call.fetch /\ call'.dest = call.dest /\ call'.path = call.path
      BY <1>1, <1>2 DEF Calls
    <2>4. /\ call.existing \in Configs /\ call.existing.keys
          /\ call.path \in Paths \cup {NoPath}
      BY <1>1 DEF Inv, KeysInv, Calls
    <2>5. eng.at = "got" => eng.slot \in Slots
      BY DEF Inv, EngineInv
    <2>6. /\ BuildConfig \in Configs /\ BuildConfig.state = "ok" /\ BuildConfig.keys
          /\ BuildConfig.llamaModel \in {call.path, call.existing.llamaModel}
          /\ call.path = NoPath => BuildConfig.llamaModel = call.existing.llamaModel
      <3>1. CASE eng.at # "got"
        <4>1. BuildConfig = [call.existing EXCEPT !.state = "ok"]
          BY <3>1 DEF BuildConfig
        <4> QED BY <2>4, <4>1 DEF Configs
      <3>2. CASE eng.at = "got"
        <4> DEFINE llama == IF call.path # NoPath THEN call.path ELSE call.existing.llamaModel
        <4>1. llama \in Paths \cup {NoPath}
          BY <2>4 DEF Configs
        <4>2. BuildConfig = [call.existing EXCEPT !.state = "ok", !.bin = eng.slot,
                                                  !.llamaModel = llama]
          BY <2>4, <3>2 DEF BuildConfig, Configs
        <4>3. llama \in {call.path, call.existing.llamaModel}
              /\ (call.path = NoPath => llama = call.existing.llamaModel)
          OBVIOUS
        <4> HIDE DEF llama
        <4> QED BY <2>4, <2>5, <3>2, <4>1, <4>2, <4>3 DEF Configs
      <3> QED BY <3>1, <3>2
    <2>7. EngineInv'
      BY <1>1, <1>2 DEF Inv, EngineInv, EngineTypeOK, EngineRuns
    <2>8. TypeOK'
      BY <1>1, <1>2, <2>1, <2>2, <2>6, <2>7 DEF Inv, TypeOK, EngineInv
    <2>9. KeysInv' /\ FetchInv' /\ SwitchInv'
      BY <1>1, <1>2, <2>1, <2>3, <2>6 DEF Inv, KeysInv, FetchInv, SwitchInv
    <2>10. ResetInv'
      <3>1. Selected' => Selected
        BY <1>1, <2>1, <2>3 DEF Selected, There
      <3> QED BY <1>1, <1>2, <2>1, <2>3, <2>6, <3>1 DEF Inv, ResetInv, Names
    <2> QED BY <2>7, <2>8, <2>9, <2>10 DEF Inv
  <1>3. CASE Fault /\ call' = Outcome(TRUE) /\ eng' = Idle /\ UNCHANGED <<tmp, conf>>
    <2>1. faults' \in 0 .. MaxFaults
      BY <1>3, FaultFacts DEF Inv
    <2> QED BY <1>1, <1>3, <2>1, ReportInv
  <1> QED BY <1>2, <1>3 DEF WriteConfig

LEMMA RenameConfigInv == Inv /\ RenameConfig => Inv'
  <1> SUFFICES ASSUME Inv, RenameConfig PROVE Inv'
    OBVIOUS
  <1>1. /\ call.at = "rename" /\ call \in Calls /\ conf' = tmp /\ tmp' = NoConfig
        /\ call' = Outcome(call.errors) /\ eng' = Idle
        /\ UNCHANGED <<builds, source, faults, files, room, commands>>
    BY DEF RenameConfig, Inv, TypeOK
  <1>2. tmp \in Configs /\ tmp.state = "ok" /\ tmp.keys /\ faults' \in 0 .. MaxFaults
    BY <1>1 DEF Inv, TypeOK, EngineTypeOK, KeysInv
  <1>3. call.errors \in BOOLEAN
    BY <1>1 DEF Calls
  <1> QED BY <1>1, <1>2, <1>3, NothingFacts, ReportInv

LEMMA StubInv == Inv /\ StubInTheWay => Inv'
  <1> SUFFICES ASSUME Inv, StubInTheWay PROVE Inv'
    OBVIOUS
  <1>1. /\ call.kind = "reset" /\ call \in Calls
        /\ call' = [NoCall EXCEPT !.kind = call.kind, !.at = "done"] /\ eng' = Idle
        /\ UNCHANGED <<builds, source, files, room, conf, tmp, commands>>
    BY DEF StubInTheWay, Inv, TypeOK
  <1>2. call' \in Calls
    BY <1>1, NothingFacts, ZenonT(40) DEF Calls
  <1>3. call'.at = "done" /\ call'.kind = "reset" /\ call'.fetch = "idle"
    BY <1>1, NothingFacts DEF Calls
  <1>4. faults' \in 0 .. MaxFaults
    BY FaultFacts DEF StubInTheWay, Inv
  <1>5. EngineInv'
    BY <1>1, <1>4, IdleInv DEF Inv, TypeOK, EngineTypeOK
  <1>6. TypeOK'
    BY <1>1, <1>2, <1>5 DEF Inv, TypeOK, EngineInv
  <1>7. KeysInv' /\ FetchInv' /\ SwitchInv' /\ ResetInv'
    BY <1>1, <1>3 DEF Inv, KeysInv, FetchInv, SwitchInv, ResetInv
  <1> QED BY <1>5, <1>6, <1>7 DEF Inv

LEMMA RestartInv == Inv /\ Restart => Inv'
  <1> SUFFICES ASSUME Inv, Restart PROVE Inv'
    OBVIOUS
  <1>1. /\ call' = NoCall /\ eng' = Idle /\ conf' = conf
        /\ UNCHANGED <<files, room, tmp, commands>>
    BY DEF Restart, EngineAfterCrash, Inv, KeysInv
  <1>2. faults' \in 0 .. MaxFaults
    BY FaultFacts DEF Restart, Inv
  <1>3. builds' \in [Slots -> Grades] /\ source' \in {"none", "torn", "whole"}
    <2>1. builds \in [Slots -> Grades] /\ source \in {"none", "torn", "whole"}
      BY DEF Inv, TypeOK, EngineTypeOK
    <2> QED BY <2>1 DEF Restart, EngineAfterCrash, Grades
  <1>4. EngineInv'
    BY <1>1, <1>2, <1>3, IdleInv DEF Inv
  <1>5. TypeOK'
    BY <1>1, <1>4, NothingFacts DEF Inv, TypeOK, EngineInv
  <1>6. KeysInv' /\ FetchInv' /\ SwitchInv' /\ ResetInv'
    BY <1>1, NothingFacts DEF Inv, KeysInv, FetchInv, SwitchInv, ResetInv
  <1> QED BY <1>4, <1>5, <1>6 DEF Inv

\* Every step keeps the invariant.
LEMMA NextInv == Inv /\ [Next]_vars => Inv'
  <1> SUFFICES ASSUME Inv, [Next]_vars PROVE Inv'
    OBVIOUS
  <1>1. CASE Command
    <2>1. CASE Give("reset", NoModel)
      BY <2>1, GiveInv
    <2>2. ASSUME NEW m \in Models, Give("switch", m) PROVE Inv'
      BY <2>2, GiveInv
    <2> QED BY <1>1, <2>1, <2>2 DEF Command
  <1>2. CASE Step
    BY <1>2, SelectModelInv, BeginInv, DecideModelInv, EnginePartInv, LookForModelInv,
       TransferInv, MarksInv, WriteConfigInv, RenameConfigInv DEF Step
  <1>3. CASE StubInTheWay \/ Restart
    BY <1>3, StubInv, RestartInv
  <1>4. CASE UNCHANGED vars
    <2>1. UNCHANGED <<builds, source, eng, faults, files, room, conf, tmp, call, commands>>
      BY <1>4 DEF vars, engineVars, setupVars
    <2>2. EngineInv' /\ TypeOK'
      BY <2>1 DEF Inv, TypeOK, EngineInv, EngineTypeOK, EngineRuns
    <2>3. KeysInv' /\ FetchInv' /\ SwitchInv' /\ ResetInv'
      BY <2>1 DEF Inv, KeysInv, FetchInv, SwitchInv, ResetInv, Selected, There, Names
    <2> QED BY <2>2, <2>3 DEF Inv
  <1> QED BY <1>1, <1>2, <1>3, <1>4 DEF Next

LEMMA InitInv == Init => Inv
  <1> SUFFICES ASSUME Init PROVE Inv
    OBVIOUS
  <1>1. EngineTypeOK
    <2>1. MaxFaults \in Nat
      BY EngineAssumption DEF EngineAssumption
    <2>2. builds \in [Slots -> Grades]
      BY DEF Init, EngineInit, Grades
    <2>3. source = "none" /\ eng = Idle /\ faults = 0
      BY DEF Init, EngineInit
    <2> QED BY <2>1, <2>2, <2>3, NothingFacts DEF EngineTypeOK
  <1>2. EngineInv
    BY <1>1, NothingFacts DEF Init, EngineInit, EngineInv, EngineRuns
  <1>3. PICK p \in Known \cup {NoPath} :
          conf = [NoConfig EXCEPT !.state = "ok", !.keys = TRUE, !.model = p, !.llamaModel = p]
    BY DEF Init
  <1>4. p \in Paths \cup {NoPath}
    BY SetupAssumption DEF SetupAssumption, Paths
  <1>5. conf \in Configs /\ conf.state = "ok" /\ conf.keys
    BY <1>3, <1>4, NothingFacts DEF Configs
  <1>6. files \in [Paths -> {"none", "short", "corrupt", "whole"}]
    <2>1. Contents \cup {"none"} \subseteq {"none", "short", "corrupt", "whole"}
      BY SetupAssumption DEF SetupAssumption
    <2>2. files \in [Paths -> Contents \cup {"none"}]
      BY DEF Init
    <2> QED BY <2>1, <2>2
  <1>7. commands \in 0 .. MaxCommands
    <2>1. MaxCommands \in Nat /\ commands = 0
      BY SetupAssumption DEF SetupAssumption, Init
    <2> QED BY <2>1
  <1>8. call = NoCall /\ tmp = NoConfig /\ room = Dirs
    BY DEF Init
  <1>9. TypeOK
    BY <1>1, <1>5, <1>6, <1>7, <1>8, NothingFacts DEF TypeOK
  <1>10. KeysInv /\ FetchInv /\ SwitchInv /\ ResetInv
    BY <1>5, <1>8, NothingFacts DEF KeysInv, FetchInv, SwitchInv, ResetInv
  <1> QED BY <1>2, <1>9, <1>10 DEF Inv

-----------------------------------------------------------------------------
(* The theorems. *)

\* The invariant the other theorems follow from.
THEOREM Invariance == Spec => []Inv
  <1>1. Init => Inv
    BY InitInv
  <1>2. Inv /\ [Next]_vars => Inv'
    BY NextInv
  <1> QED BY <1>1, <1>2, PTL DEF Spec

\* In every state an engine that setup settles on has been seen to run, and the user's
\* keys are in config.yaml (llamaCpp.ts: findLlamaServer, stockRuntime.ts:
\* acquireStockLlamaServer, bootstrap.ts: keepUserOwnedKeys and the write beside the file).
THEOREM SetupCorrect == Spec => []SetupInv
  <1>1. Inv => SetupInv
    BY DEF Inv, EngineInv, KeysInv, SetupInv, KeysSurvive
  <1> QED BY Invariance, <1>1, PTL

\* A switch that reports success has the model that was selected (provision.ts:
\* provisionForSwitch, bootstrap.ts: ensureLocalStack's choice of the model).
THEOREM SelectedIsProvidedCorrect == Spec => []SelectedIsProvided
  <1>1. Inv => SelectedIsProvided
    BY DEF Inv, SwitchInv, SelectedIsProvided
  <1> QED BY Invariance, <1>1, PTL

\* A step that renames the new file into place.
LEMMA Renames ==
  ASSUME Inv, [Next]_vars, call.at = "rename", call'.at # "idle"
  PROVE  conf' \in {conf, tmp}
  <1>1. call.fetch \notin {"look", "transfer"}
    BY DEF Inv, FetchInv
  <1>2. CASE Command
    BY <1>2 DEF Command, Give
  <1>3. CASE Step
    BY <1>1, <1>3 DEF Step, SelectModel, Begin, DecideModel, EnginePart, LookForModel, TransferEnds,
       TransferBreaks, CheckBinary, PartsEnd, WriteConfig, RenameConfig
  <1>4. CASE StubInTheWay
    BY <1>4 DEF StubInTheWay
  <1>5. CASE Restart
    BY <1>5, NothingFacts DEF Restart
  <1>6. CASE UNCHANGED vars
    BY <1>6 DEF vars, setupVars
  <1> QED BY <1>2, <1>3, <1>4, <1>5, <1>6 DEF Next

\* A reset does not undo a selection whose file is there and fits (bootstrap.ts:
\* keepSelectedModelOnReset, buildConfig).
THEOREM ResetKeepsTheSelectionCorrect == Spec => ResetKeepsTheSelection
  <1>1. Inv /\ [Next]_vars =>
          [call.kind = "reset" /\ call.at = "rename" /\ There(conf.llamaModel)
             /\ ModelAt(conf.llamaModel) \in Fits /\ conf.llamaModel # call.dest
           => call'.at = "idle" \/ ModelAt(conf'.llamaModel) = ModelAt(conf.llamaModel)]_vars
    <2> SUFFICES ASSUME Inv, [Next]_vars, call.kind = "reset", call.at = "rename", Selected,
                        call'.at # "idle"
                 PROVE  ModelAt(conf'.llamaModel) = ModelAt(conf.llamaModel)
      BY DEF Selected
    <2>1. ModelAt(tmp.llamaModel) = ModelAt(conf.llamaModel)
      BY DEF Inv, ResetInv
    <2> QED BY <2>1, Renames
  <1> QED BY Invariance, <1>1, PTL DEF Spec, ResetKeepsTheSelection

\* A step that decides on a transfer.
LEMMA OnlyLooking ==
  ASSUME Inv, [Next]_vars, call.fetch = "look", call'.fetch = "transfer"
  PROVE  LookForModel /\ Reusable(call.model) = {}
  <1>1. call \in Calls /\ call.at = "parts"
    BY DEF Inv, TypeOK, FetchInv
  <1>2. CASE Command
    BY <1>1, <1>2 DEF Command, Give
  <1>3. CASE EnginePart
    BY <1>1, <1>3 DEF EnginePart, Calls
  <1>4. CASE LookForModel
    <2>1. /\ \A p : [Over EXCEPT !.path = p].fetch = "over"
          /\ [Over EXCEPT !.errors = TRUE].fetch = "over"
      BY <1>1 DEF Over, Calls
    <2> QED BY <1>4, <2>1 DEF LookForModel
  <1>5. CASE CheckBinary
    BY <1>1, <1>5 DEF CheckBinary, Calls
  <1>6. CASE PartsEnd
    BY <1>6 DEF PartsEnd
  <1>7. CASE SelectModel \/ Begin \/ DecideModel \/ WriteConfig \/ RenameConfig
    BY <1>1, <1>7 DEF SelectModel, Begin, DecideModel, WriteConfig, RenameConfig
  <1>8. CASE TransferEnds \/ TransferBreaks
    BY <1>8 DEF TransferEnds, TransferBreaks
  <1>9. CASE StubInTheWay \/ Restart
    BY <1>1, <1>9, NothingFacts DEF StubInTheWay, Restart
  <1>10. CASE UNCHANGED vars
    BY <1>10 DEF vars, setupVars
  <1> QED BY <1>2, <1>3, <1>4, <1>5, <1>6, <1>7, <1>8, <1>9, <1>10 DEF Next, Step

\* Nothing is fetched that is already on one of the machine's disks (existingModel.ts:
\* findModelAnywhere, bootstrap.ts: the order of the checks before a download).
THEOREM HaveItDontFetchCorrect == Spec => HaveItDontFetch
  <1>1. Inv /\ [Next]_vars =>
          [call.fetch = "look" /\ call'.fetch = "transfer" =>
             \A p \in Paths : ModelAt(p) = call.model => files[p] # "whole"]_vars
    <2> SUFFICES ASSUME Inv, [Next]_vars, call.fetch = "look", call'.fetch = "transfer",
                        NEW p \in Paths, ModelAt(p) = call.model
                 PROVE  files[p] # "whole"
      OBVIOUS
    <2>1. p \notin Reusable(call.model)
      BY OnlyLooking
    <2> QED BY <2>1, PathFacts DEF Reusable, FullSize
  <1> QED BY Invariance, <1>1, PTL DEF Spec, HaveItDontFetch

=============================================================================
