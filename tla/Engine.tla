------------------------------- MODULE Engine -------------------------------
(* How setup finds, fetches or compiles a llama-server: findLlamaServer        *)
(* (src/setup/llamaCpp.ts), the ladder of prebuilt runtimes and the source     *)
(* build (src/setup/stockRuntime.ts, llamaCpp.ts, engineCommon.ts).            *)
(*                                                                             *)
(* A build on the disk is a SLOT with a grade, which says what the probes      *)
(* answer when they run it: "none" is not there or fails --version; "nogpu"    *)
(* runs but fails --list-devices; "old" runs but cannot read a NewQuants       *)
(* model; "good" does everything. Which grade a fetched or compiled build has  *)
(* is not known until it is there, so it is chosen when it is unpacked.        *)
EXTENDS Naturals, Sequences, SequencesExt

CONSTANTS
    Models,       \* the models setup can be asked for
    NewQuants,    \* those of them whose quantisation an old build cannot read
    Ladder,       \* acceptableStockBackends: the prebuilt runtimes, best first
    Prebuilt,     \* the same runtimes in the order findLlamaServer meets them
    MaxFaults     \* bound: failures and crashes in one behaviour

ASSUME EngineAssumption ==
    /\ NewQuants \subseteq Models
    /\ "no model" \notin Models
    /\ Ladder \in Seq(STRING) /\ Prebuilt \in Seq(STRING)
    /\ ToSet(Ladder) = ToSet(Prebuilt)
    /\ MaxFaults \in Nat

NoModel == "no model"
NoSlot == "no slot"

Stock == ToSet(Ladder)
Compiled == {"build-accel", "build-cpu"}
Slots == {"own"} \cup Compiled \cup Stock
Grades == {"none", "nogpu", "old", "good"}

VARIABLES
    builds,   \* slot -> grade of what is installed there
    source,   \* the clone of llama.cpp: "none", "torn" or "whole"
    eng,      \* the acquisition in progress
    faults    \* failures and crashes so far

engineVars == <<builds, source, eng, faults>>

Idle == [at |-> "idle", slot |-> NoSlot, tried |-> {}, asked |-> NoModel,
         slow |-> FALSE]

EngineStages == {"idle", "installed", "list", "ladder", "unpack", "checkout",
                 "compile", "got", "failed"}

EngineTypeOK ==
    /\ builds \in [Slots -> Grades]
    /\ source \in {"none", "torn", "whole"}
    /\ eng \in [at : EngineStages, slot : Slots \cup {NoSlot}, tried : SUBSET Slots,
                asked : Models \cup {NoModel}, slow : BOOLEAN]
    /\ faults \in 0 .. MaxFaults

Fault ==
    /\ faults < MaxFaults
    /\ faults' = faults + 1

(***************************************************************************)
(* The probes. "slow" is a compatibility probe that ran out of its minute:   *)
(* its verdict is inconclusive, and an inconclusive build is not rejected.    *)
(***************************************************************************)
Runs(grade) == grade \in {"nogpu", "old", "good"}

Unsupported(grade, asked, slow) == grade = "old" /\ asked \in NewQuants /\ ~slow

\* What discovery takes: --version, and the model when there is one to ask about.
Accepted(grade, asked, slow) == Runs(grade) /\ ~Unsupported(grade, asked, slow)

\* What the ladder takes: the devices too, for every runtime but the CPU one.
Verified(slot, grade, asked, slow) ==
    /\ Accepted(grade, asked, slow)
    /\ slot \notin {"cpu", "build-cpu"} => grade # "nogpu"

\* An "unverified" choice: only the clock kept it from being rejected.
Doubtful(i, slot, asked, slow) ==
    slow /\ slot # NoSlot /\ Unsupported(i[slot], asked, FALSE)

FirstOf(order, slots) ==
    LET hits == {k \in DOMAIN order : order[k] \in slots}
    IN  IF hits = {} THEN NoSlot ELSE order[CHOOSE k \in hits : \A j \in hits : k <= j]

DiscoveryOrder == <<"own", "build-accel", "build-cpu">> \o Prebuilt

\* findLlamaServer over an installation i
Found(i, asked, slow) ==
    FirstOf(DiscoveryOrder, {s \in Slots : Accepted(i[s], asked, slow)})

\* listInstalledStock, and the verification of what it lists
Installed(i, asked, slow) ==
    FirstOf(Ladder, {s \in Slots : Verified(s, i[s], asked, slow)})

(***************************************************************************)
(* The search for an engine. When it finds one the acquisition is over.       *)
(***************************************************************************)
FindServer(asked) ==
    /\ \E slow \in BOOLEAN :
         LET hit == Found(builds, asked, slow) IN
         eng' = [Idle EXCEPT !.at = IF hit = NoSlot THEN "installed" ELSE "got",
                             !.slot = hit, !.asked = asked, !.slow = Doubtful(builds, hit, asked, slow)]
    /\ UNCHANGED <<builds, source, faults>>

Got(i, slot, slow) ==
    [eng EXCEPT !.at = "got", !.slot = slot, !.tried = {},
                !.slow = Doubtful(i, slot, eng.asked, slow)]

TryInstalled ==
    /\ eng.at = "installed"
    /\ \E slow \in BOOLEAN :
         LET hit == Installed(builds, eng.asked, slow) IN
         eng' = IF hit # NoSlot THEN Got(builds, hit, slow) ELSE [eng EXCEPT !.at = "list"]
    /\ UNCHANGED <<builds, source, faults>>

ListReleases ==
    /\ eng.at = "list"
    /\ \/ /\ eng' = [eng EXCEPT !.at = "ladder"]
          /\ UNCHANGED faults
       \/ /\ Fault                                  \* no release list: compile
          /\ eng' = [eng EXCEPT !.at = "checkout", !.slot = "build-accel"]
    /\ UNCHANGED <<builds, source>>

\* The next rung of the ladder, each backend once even over several releases.
Untried == Stock \ eng.tried

FetchRung ==
    /\ eng.at = "ladder"
    /\ LET rung == FirstOf(Ladder, Untried) IN
       IF rung = NoSlot
       THEN /\ eng' = [eng EXCEPT !.at = "checkout", !.slot = "build-accel", !.tried = {}]
            /\ UNCHANGED <<builds, faults>>
       ELSE /\ \/ /\ builds' = [builds EXCEPT ![rung] = "none"]   \* rm -r, then unpack
                  /\ eng' = [eng EXCEPT !.at = "unpack", !.slot = rung, !.tried = @ \cup {rung}]
                  /\ UNCHANGED faults
               \/ /\ Fault                               \* the transfer failed
                  /\ eng' = [eng EXCEPT !.tried = @ \cup {rung}]
                  /\ UNCHANGED builds
    /\ UNCHANGED source

\* Unpacked in place and tried at once; nothing happens to it in between.
UnpackRung ==
    /\ eng.at = "unpack"
    /\ \E g \in Grades, slow \in BOOLEAN :
         /\ eng.slot = "cpu" => g # "nogpu"
         /\ builds' = [builds EXCEPT ![eng.slot] = g]
         /\ eng' = IF Verified(eng.slot, g, eng.asked, slow)
                   THEN Got(builds', eng.slot, slow)
                   ELSE [eng EXCEPT !.at = "ladder"]
    /\ UNCHANGED <<source, faults>>

(***************************************************************************)
(* Compiling: the accelerated build, then the CPU one when that does not run. *)
(***************************************************************************)
GiveUp == [eng EXCEPT !.at = "failed", !.slot = NoSlot, !.tried = {}]

\* No room, no compiler, no network, or a clone somebody else left there.
Checkout ==
    /\ eng.at = "checkout"
    /\ \/ /\ source' = IF source = "none" THEN "whole" ELSE source
          /\ eng' = [eng EXCEPT !.at = "compile"]
          /\ UNCHANGED faults
       \/ /\ Fault
          /\ eng' = GiveUp
          /\ UNCHANGED source
    /\ UNCHANGED builds

Compile ==
    /\ eng.at = "compile"
    /\ \/ /\ source = "whole"
          /\ \E g \in Grades, slow \in BOOLEAN :
               /\ eng.slot = "build-cpu" => g # "nogpu"
               /\ builds' = [builds EXCEPT ![eng.slot] = g]
               /\ eng' = IF Verified(eng.slot, g, eng.asked, slow)
                         THEN Got(builds', eng.slot, slow)
                         ELSE IF eng.slot = "build-accel"
                         THEN [eng EXCEPT !.at = "checkout", !.slot = "build-cpu"]
                         ELSE GiveUp
          /\ UNCHANGED faults
       \/ /\ source = "torn"                          \* cmake finds no project
          /\ eng' = GiveUp
          /\ UNCHANGED <<builds, faults>>
       \/ /\ Fault
          /\ eng' = GiveUp
          /\ UNCHANGED builds
    /\ UNCHANGED source

AcquireStep ==
    \/ TryInstalled \/ ListReleases \/ FetchRung \/ UnpackRung
    \/ Checkout \/ Compile

\* What a crash leaves of an engine: an unpacking half done, a clone half made.
EngineAfterCrash ==
    /\ eng' = Idle
    /\ IF eng.at = "unpack"
       THEN \E g \in {"none", "nogpu"} : builds' = [builds EXCEPT ![eng.slot] = g]
       ELSE UNCHANGED builds
    /\ source' \in IF eng.at = "checkout" /\ source = "none" THEN {"none", "torn"} ELSE {source}

EngineInit ==
    /\ builds \in {[s \in Slots |-> IF s = "own" THEN g ELSE "none"] :
                     g \in {"none", "old"}}
    /\ source = "none"
    /\ eng = Idle
    /\ faults = 0

-----------------------------------------------------------------------------
(* What is asked of an engine *)

\* An engine that setup settles on runs, and it reads the model it was chosen
\* for unless that very probe ran out of time (findLlamaServer,
\* acquireStockLlamaServer: nothing is taken unprobed).
EngineRuns ==
    eng.at = "got" =>
      /\ Runs(builds[eng.slot])
      /\ ~eng.slow => ~Unsupported(builds[eng.slot], eng.asked, FALSE)
=============================================================================
