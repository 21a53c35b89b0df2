------------------------------ MODULE SelfUpdate ------------------------------
(***************************************************************************)
(* Self update and rollback: checkForUpdate and applyUpdate of             *)
(* src/src/selfUpdate.ts, the slots of src/src/updateSlots.ts, and the     *)
(* code of src/src/index.tsx that runs them at start-up and on /rollback.  *)
(*                                                                         *)
(* Several processes may run on one installation; nothing locks it.  A     *)
(* step is one file operation (or one request), and a process may die      *)
(* between any two.  A tree of files is abstracted to the builds its files *)
(* come from, whether it is a complete build, and its two hash files; the  *)
(* sha256 of an archive, and its version, to the build it holds.  The      *)
(* staged tree of a process needs no variable: it is the complete target   *)
(* exactly between Extract and Rename.                                     *)
(***************************************************************************)
EXTENDS Naturals, Sequences

CONSTANTS
  Procs,     \* the processes that may run on this installation
  LastBuild, \* bound: builds are numbered from 1 in the order of their release
  Ops,       \* a subset of AllOps: what publisher and user may do
  Faults,    \* a subset of AllFaults
  MaxSlots,  \* VERSION_SLOTS
  Nothing,   \* no tree, no hash file
  Torn       \* a hash file that was created and not written

AllOps == {"publish", "rollback"}
\* crash: a process dies at any point but inside an operation on a slot; disk: an operation on
\* the disk fails; halfSlot: the copy into a slot, or the removal of one, stops half way, for
\* one reason or the other.
AllFaults == {"crash", "disk", "halfSlot"}

Builds == 1..LastBuild
Hashes == Builds \cup {Nothing, Torn}
Trees  == [parts : SUBSET Builds, whole : BOOLEAN, sha : Hashes, applied : Hashes]
Names  == [version : Hashes, sha : Hashes]
NoName == [version |-> Nothing, sha |-> Nothing]
Slots  == [name : Names, tree : Trees]

ASSUME ConstantsAssumption ==
  /\ LastBuild \in Nat \ {0}
  /\ MaxSlots \in Nat \ {0}
  /\ Ops \subseteq AllOps
  /\ Faults \subseteq AllFaults
  /\ Nothing \notin Builds \cup Trees
  /\ Torn \notin Builds \cup {Nothing}

VARIABLES
  published, \* the build of bin/manifest.json and of the archive beside it
  dist,      \* the installed tree
  archives,  \* processes with a verified archive inside dist/
  slots,     \* update-slots/, newest first
  pc,        \* where each process is
  target,    \* the manifest it is installing
  slot       \* the slot it is saving or restoring

vars == <<published, dist, archives, slots, pc, target, slot>>

CheckSteps   == {"fetch", "readLocal", "readApplied", "ask", "download"}
InstallSteps == {"write", "rehash", "name", "stat", "copy", "copying", "prune", "extract",
                 "remove", "rename", "writeLocal", "writeApplied"}
RestoreSteps == {"entry", "restoreRemove", "restoreMkdir", "restoreCopy"}
PCs == {"off", "up"} \cup CheckSteps \cup InstallSteps \cup RestoreSteps

\* Every variable has its type.
TypeOK ==
  /\ published \in Builds
  /\ dist \in Trees \cup {Nothing}
  /\ archives \subseteq Procs
  /\ slots \in Seq(Slots)
  /\ pc \in [Procs -> PCs]
  /\ target \in [Procs -> Builds]
  /\ slot \in [Procs -> Names]

Release(build) == [parts |-> {build}, whole |-> TRUE, sha |-> Nothing, applied |-> Nothing]
EmptyTree == [parts |-> {}, whole |-> FALSE, sha |-> Nothing, applied |-> Nothing]
IsBuild(tree, build) == tree # Nothing /\ tree.whole /\ tree.parts = {build}
Startable == dist # Nothing /\ dist.whole

At(p, label) == pc' = [pc EXCEPT ![p] = label]
Goes(p, label) == At(p, label) /\ UNCHANGED <<target, slot>>
\* Out of the call, whose locals are gone.
Ends(p, label) ==
  /\ At(p, label)
  /\ target' = [target EXCEPT ![p] = 1]
  /\ slot' = [slot EXCEPT ![p] = NoName]
DiskMayFail == "disk" \in Faults
HalfOf(tree) == [tree EXCEPT !.whole = FALSE]
Exists(name) == \E i \in 1..Len(slots) : slots[i].name = name
SlotTree(name) == slots[CHOOSE i \in 1..Len(slots) : slots[i].name = name].tree

\* The slot over whatever dist/ holds by now.
Restored(src) ==
  [src EXCEPT !.parts = @ \cup dist.parts, !.whole = @ /\ dist.parts \subseteq src.parts]

\* What dist/ may be once the operation of p on it failed, or p died in it.
Interrupted(p) ==
  {dist} \cup
  IF dist = Nothing THEN {}
  ELSE CASE pc[p] \in {"remove", "restoreRemove"} -> {HalfOf(dist)}
         [] pc[p] = "restoreCopy" /\ Exists(slot[p]) -> {HalfOf(Restored(SlotTree(slot[p])))}
         [] pc[p] = "writeLocal" -> {[dist EXCEPT !.sha = Torn]}
         [] pc[p] = "writeApplied" -> {[dist EXCEPT !.applied = Nothing]}
         [] OTHER -> {}

\* The finally block, and the start-up goes on with the build in memory.
GivesUp(p) ==
  /\ Ends(p, "up")
  /\ archives' = archives \ {p}

-----------------------------------------------------------------------------
(* checkForUpdate and the question.                                        *)

Start(p) ==
  /\ pc[p] = "off"
  /\ Startable
  /\ Goes(p, "fetch")
  /\ UNCHANGED <<published, dist, archives, slots>>

FetchManifest(p) ==
  /\ pc[p] = "fetch"
  /\ \/ At(p, "readLocal") /\ target' = [target EXCEPT ![p] = published] /\ UNCHANGED slot
     \/ Ends(p, "up")
  /\ UNCHANGED <<published, dist, archives, slots>>

HasHash == dist # Nothing /\ dist.sha # Nothing

\* Mutant of ReadLocal: a build without a hash file counts as another build.
ReadLocalOrNone(p) ==
  /\ pc[p] = "readLocal"
  /\ IF HasHash /\ dist.sha = target[p] THEN Ends(p, "up") ELSE Goes(p, "readApplied")
  /\ UNCHANGED <<published, dist, archives, slots>>

ReadLocal(p) ==
  /\ pc[p] = "readLocal"
  /\ IF HasHash /\ dist.sha # target[p] THEN Goes(p, "readApplied") ELSE Ends(p, "up")
  /\ UNCHANGED <<published, dist, archives, slots>>

\* The loop breaker: this very archive was installed before.
ReadApplied(p) ==
  /\ pc[p] = "readApplied"
  /\ IF dist # Nothing /\ dist.applied = target[p] THEN Ends(p, "up") ELSE Goes(p, "ask")
  /\ UNCHANGED <<published, dist, archives, slots>>

Ask(p) ==
  /\ pc[p] = "ask"
  /\ Goes(p, "download") \/ Ends(p, "up")
  /\ UNCHANGED <<published, dist, archives, slots>>

-----------------------------------------------------------------------------
(* applyUpdate.                                                            *)

\* The archive is fetched after the manifest and may be a later one: it is then refused.
Download(p) ==
  /\ pc[p] = "download"
  /\ \/ published = target[p] /\ Goes(p, "write")
     \/ Ends(p, "up")
  /\ UNCHANGED <<published, dist, archives, slots>>

WriteArchive(p) ==
  /\ pc[p] = "write"
  /\ \/ dist # Nothing /\ Goes(p, "rehash") /\ archives' = archives \cup {p}
     \/ (dist = Nothing \/ DiskMayFail) /\ GivesUp(p)
  /\ UNCHANGED <<published, dist, slots>>

Rehash(p) ==
  /\ pc[p] = "rehash"
  /\ \/ p \in archives /\ Goes(p, "name") /\ UNCHANGED archives
     \/ (p \notin archives \/ DiskMayFail) /\ GivesUp(p)
  /\ UNCHANGED <<published, dist, slots>>

\* The version and hash files of dist/, each "unknown" when it cannot be read.  Which version
\* an incomplete tree still tells is open.
Versions(tree) ==
  IF tree = Nothing THEN {Nothing}
  ELSE IF tree.whole THEN tree.parts ELSE tree.parts \cup {Nothing}

NameSlot(p) ==
  /\ pc[p] = "name"
  /\ At(p, "stat")
  /\ \E version \in Versions(dist) :
       slot' = [slot EXCEPT ![p] =
                 [version |-> version, sha |-> IF dist = Nothing THEN Nothing ELSE dist.sha]]
  /\ UNCHANGED <<published, dist, archives, slots, target>>

\* A slot that exists is not written again.
StatSlot(p) ==
  /\ pc[p] = "stat"
  /\ Goes(p, IF Exists(slot[p]) THEN "extract" ELSE "copy")
  /\ UNCHANGED <<published, dist, archives, slots>>

Put(name, tree) ==
  IF Exists(name)
  THEN [i \in 1..Len(slots) |->
         IF slots[i].name = name THEN [name |-> name, tree |-> tree] ELSE slots[i]]
  ELSE <<[name |-> name, tree |-> tree]>> \o slots

CopyBegins(p) ==
  /\ pc[p] = "copy"
  /\ \/ dist # Nothing /\ Goes(p, "copying") /\ slots' = Put(slot[p], HalfOf(dist))
          /\ UNCHANGED archives
     \/ (dist = Nothing \/ DiskMayFail) /\ GivesUp(p) /\ UNCHANGED slots
  /\ UNCHANGED <<published, dist>>

\* The copy is of one build if dist/ is the same complete one at both ends of it.
Copied(half) ==
  [dist EXCEPT !.parts = @ \cup half.parts,
               !.whole = @ /\ half.parts = dist.parts]

CopyEnds(p) ==
  /\ pc[p] = "copying"
  /\ \/ /\ dist # Nothing /\ Exists(slot[p])
        /\ Goes(p, "prune")
        /\ slots' = Put(slot[p], Copied(SlotTree(slot[p])))
        /\ UNCHANGED archives
     \/ /\ dist = Nothing \/ ~Exists(slot[p]) \/ "halfSlot" \in Faults
        /\ GivesUp(p)
        /\ UNCHANGED slots
  /\ UNCHANGED <<published, dist>>

\* Mutant of Prune: the sort is the wrong way round.
PruneNewest(p) ==
  /\ pc[p] = "prune"
  /\ \/ /\ Goes(p, "extract") /\ UNCHANGED archives
        /\ slots' = IF Len(slots) > MaxSlots
                    THEN SubSeq(slots, Len(slots) - MaxSlots + 1, Len(slots)) ELSE slots
     \/ DiskMayFail /\ GivesUp(p) /\ UNCHANGED slots
  /\ UNCHANGED <<published, dist>>

\* A slot that is half removed has just been modified: it sorts as the newest.
HalfPruned ==
  LET oldest == Len(slots)
  IN  <<[slots[oldest] EXCEPT !.tree = HalfOf(@)]>> \o SubSeq(slots, 1, oldest - 1)

Prune(p) ==
  /\ pc[p] = "prune"
  /\ \/ /\ Goes(p, "extract") /\ UNCHANGED archives
        /\ slots' = IF Len(slots) > MaxSlots THEN SubSeq(slots, 1, MaxSlots) ELSE slots
     \/ DiskMayFail /\ GivesUp(p) /\ UNCHANGED slots
     \/ "halfSlot" \in Faults /\ Len(slots) > MaxSlots /\ GivesUp(p) /\ slots' = HalfPruned
  /\ UNCHANGED <<published, dist>>

\* Unpacks into the stage and checks what landed there.
Extract(p) ==
  /\ pc[p] = "extract"
  /\ \/ p \in archives /\ Goes(p, "remove") /\ UNCHANGED archives
     \/ (p \notin archives \/ DiskMayFail) /\ GivesUp(p)
  /\ UNCHANGED <<published, dist, slots>>

RemoveDist(p) ==
  /\ pc[p] = "remove"
  /\ \/ Goes(p, "rename") /\ dist' = Nothing /\ archives' = {}
     \/ DiskMayFail /\ GivesUp(p) /\ dist' \in Interrupted(p)
  /\ UNCHANGED <<published, slots>>

\* rename replaces no directory with files in it.
CanRename == dist # Nothing => dist.parts = {}

Rename(p) ==
  /\ pc[p] = "rename"
  /\ \/ CanRename /\ Goes(p, "writeLocal") /\ dist' = Release(target[p]) /\ UNCHANGED archives
     \/ (~CanRename \/ DiskMayFail) /\ GivesUp(p) /\ UNCHANGED dist
  /\ UNCHANGED <<published, slots>>

\* Mutant of WriteLocal: the hash of the manifest as it is now.
WriteLocalLatest(p) ==
  /\ pc[p] = "writeLocal"
  /\ \/ dist # Nothing /\ Goes(p, "writeApplied") /\ dist' = [dist EXCEPT !.sha = published]
          /\ UNCHANGED archives
     \/ (dist = Nothing \/ DiskMayFail) /\ GivesUp(p) /\ dist' \in Interrupted(p)
  /\ UNCHANGED <<published, slots>>

WriteLocal(p) ==
  /\ pc[p] = "writeLocal"
  /\ \/ dist # Nothing /\ Goes(p, "writeApplied") /\ dist' = [dist EXCEPT !.sha = target[p]]
          /\ UNCHANGED archives
     \/ (dist = Nothing \/ DiskMayFail) /\ GivesUp(p) /\ dist' \in Interrupted(p)
  /\ UNCHANGED <<published, slots>>

\* Installed: the process starts its successor and exits.
WriteApplied(p) ==
  /\ pc[p] = "writeApplied"
  /\ \/ dist # Nothing /\ Ends(p, "off") /\ dist' = [dist EXCEPT !.applied = target[p]]
          /\ archives' = archives \ {p}
     \/ (dist = Nothing \/ DiskMayFail) /\ GivesUp(p) /\ dist' \in Interrupted(p)
  /\ UNCHANGED <<published, slots>>

-----------------------------------------------------------------------------
(* /rollback confirm, and restoreSlot.  An error in it is not caught: the  *)
(* process ends.                                                           *)

Rollback(p) ==
  /\ pc[p] = "up"
  /\ "rollback" \in Ops
  /\ slots # <<>>
  /\ At(p, "entry")
  /\ slot' = [slot EXCEPT ![p] = Head(slots).name]
  /\ UNCHANGED <<published, dist, archives, slots, target>>

\* A half copied slot may have its index.js already.
CheckEntry(p) ==
  /\ pc[p] = "entry"
  /\ \/ Exists(slot[p]) /\ Goes(p, "restoreRemove")
     \/ Exists(slot[p]) /\ ~SlotTree(slot[p]).whole /\ Ends(p, "up")
     \/ ~Exists(slot[p]) /\ Ends(p, "up")
  /\ UNCHANGED <<published, dist, archives, slots>>

RestoreRemove(p) ==
  /\ pc[p] = "restoreRemove"
  /\ \/ Goes(p, "restoreMkdir") /\ dist' = Nothing /\ archives' = {}
     \/ DiskMayFail /\ Ends(p, "off") /\ dist' \in Interrupted(p) /\ UNCHANGED archives
  /\ UNCHANGED <<published, slots>>

RestoreMkdir(p) ==
  /\ pc[p] = "restoreMkdir"
  /\ \/ Goes(p, "restoreCopy") /\ dist' = IF dist = Nothing THEN EmptyTree ELSE dist
     \/ DiskMayFail /\ Ends(p, "off") /\ UNCHANGED dist
  /\ UNCHANGED <<published, archives, slots>>

RestoreCopy(p) ==
  /\ pc[p] = "restoreCopy"
  /\ Ends(p, "off")
  /\ \/ /\ Exists(slot[p]) /\ dist # Nothing
        /\ dist' = Restored(SlotTree(slot[p]))
     \/ /\ ~Exists(slot[p]) \/ dist = Nothing \/ DiskMayFail
        /\ dist' \in Interrupted(p)
  /\ UNCHANGED <<published, archives, slots>>

-----------------------------------------------------------------------------
(* The publisher, who never takes a release back, the user's exit, and a   *)
(* crash.                                                                  *)

Publish ==
  /\ "publish" \in Ops
  /\ \E build \in Builds : build > published /\ published' = build
  /\ UNCHANGED <<dist, archives, slots, pc, target, slot>>

Quit(p) ==
  /\ pc[p] = "up"
  /\ Ends(p, "off")
  /\ UNCHANGED <<published, dist, archives, slots>>

Crash(p) ==
  /\ "crash" \in Faults
  /\ pc[p] # "off"
  /\ pc[p] = "copying" => "halfSlot" \in Faults
  /\ Ends(p, "off")
  /\ dist' \in Interrupted(p)
  /\ UNCHANGED <<published, archives, slots>>

-----------------------------------------------------------------------------
Init ==
  /\ published \in Builds
  /\ dist = [Release(1) EXCEPT !.sha = 1]
  /\ archives = {}
  /\ slots = <<>>
  /\ pc = [p \in Procs |-> "off"]
  /\ target = [p \in Procs |-> 1]
  /\ slot = [p \in Procs |-> NoName]

Check(p) == Start(p) \/ FetchManifest(p) \/ ReadLocal(p) \/ ReadApplied(p) \/ Ask(p)

SaveSlot(p) ==
  \/ NameSlot(p) \/ StatSlot(p) \/ CopyBegins(p) \/ CopyEnds(p) \/ Prune(p)

Install(p) ==
  \/ Download(p) \/ WriteArchive(p) \/ Rehash(p) \/ SaveSlot(p) \/ Extract(p)
  \/ RemoveDist(p) \/ Rename(p) \/ WriteLocal(p) \/ WriteApplied(p)

Restore(p) ==
  \/ Rollback(p) \/ CheckEntry(p) \/ RestoreRemove(p) \/ RestoreMkdir(p) \/ RestoreCopy(p)

Next ==
  \/ \E p \in Procs : Check(p) \/ Install(p) \/ Restore(p) \/ Quit(p) \/ Crash(p)
  \/ Publish

Spec == Init /\ [][Next]_vars

-----------------------------------------------------------------------------
(* Properties.                                                             *)

\* However many processes update at once, the installation can be started whenever none is
\* between its removal of dist/ and its rename, or in a restore (the swap of applyUpdate).
SwapInProgress(p) == pc[p] \in {"rename", "restoreMkdir", "restoreCopy"}
AlwaysStartable == Startable \/ \E p \in Procs : SwapInProgress(p)

\* The hash files of a complete installed build are its own, absent or torn, after a crash, an
\* update or a restore at any point (LOCAL_HASH_FILE, and the comment of restoreSlot).
RecordsAreTrue ==
  Startable => {dist.sha, dist.applied} \ {Nothing, Torn} \subseteq dist.parts

\* An update replaces a build by the same build only when the hash file of that build was torn,
\* so that no start-up can update and restart for ever (checkForUpdate's two comparisons).
NoReinstall ==
  [][\A p \in Procs :
       pc[p] = "remove" /\ pc'[p] = "rename" /\ IsBuild(dist, target[p])
         => dist.sha = Torn]_vars

\* "so a new build that never boots can be rolled back to exactly this": the slot that
\* /rollback takes, the newest, is a complete copy of the build an update replaces.
NewestSlotIsReplaced ==
  [][\A p \in Procs :
       pc[p] = "remove" /\ pc'[p] = "rename" /\ Startable
         => slots # <<>> /\ slots[1].tree.whole /\ slots[1].tree.parts = dist.parts]_vars

-----------------------------------------------------------------------------
(* What makes the properties inductive.                                    *)

\* AlwaysStartable, when nothing crashes or fails and nobody restores a slot.
Undisturbed == "rollback" \notin Ops /\ Faults \cap {"crash", "disk"} = {}

SwapInv ==
  /\ \A p \in Procs : pc[p] \notin RestoreSteps
  /\ dist # Nothing => dist.whole /\ dist.parts # {}
  /\ dist = Nothing => \E p \in Procs : pc[p] = "rename"

\* RecordsAreTrue and NoReinstall, for one process at a time: complete trees are of one build
\* and carry its own hashes, and a process that found a newer build still runs the older one.
Alone == \A p, q \in Procs : p = q

OwnHashes(tree) ==
  tree.whole => \E build \in Builds :
                  /\ tree.parts = {build}
                  /\ tree.sha \in {build, Nothing, Torn}
                  /\ tree.applied \in {build, Nothing}

SaveSteps == {"stat", "copy", "copying", "prune"}
BeforeSwap == {"readApplied", "ask", "download", "write", "rehash", "name", "extract", "remove"}
                \cup SaveSteps

RecordInv ==
  /\ dist # Nothing => OwnHashes(dist)
  /\ \A i \in 1..Len(slots) : OwnHashes(slots[i].tree)
  /\ \A p \in Procs : pc[p] \in {"fetch", "readLocal"} => Startable
  /\ \A p \in Procs :
       pc[p] \in BeforeSwap => Startable /\ dist.sha # Nothing /\ dist.sha # target[p]
  /\ \A p \in Procs : pc[p] \in {"writeLocal", "writeApplied"} => IsBuild(dist, target[p])

\* NewestSlotIsReplaced, when moreover no copy into a slot stops half way: slots are in the
\* order of the releases, none later than the installed build, and hold the builds they are
\* named for, but for the one being copied.  A build whose hash file was torn may have a slot
\* of its own, older than the slot it gets once it is installed again.
IsWayBack(s) == s.tree.whole /\ s.tree.parts = {s.name.version} /\ s.tree.sha = s.name.sha
Named(build) == [version |-> build, sha |-> build]
Precedes(s, t) ==
  \/ s.version > t.version
  \/ s = Named(t.version) /\ t.sha = Torn

SlotsInOrder ==
  /\ \A i \in 1..Len(slots) :
       /\ slots[i].name.version \in 1..published
       /\ slots[i].name.sha \in {slots[i].name.version, Torn}
       /\ slots[i].name.sha # published
       /\ IsWayBack(slots[i]) \/ (i = 1 /\ \E p \in Procs : pc[p] = "copying")
  /\ \A i, j \in 1..Len(slots) : i < j => Precedes(slots[i].name, slots[j].name)

NoSlotIsLater ==
  Startable => \A build \in dist.parts :
                 /\ build <= published
                 /\ \A i \in 1..Len(slots) : slots[i].name.version <= build
                 /\ dist.sha = Torn => ~Exists(Named(build))

NewestIsMine(p) == slots # <<>> /\ slots[1].name = slot[p]
Installing == BeforeSwap \cup {"readLocal", "rename", "writeLocal"}

MyWayBack(p) ==
  /\ target[p] <= published
  /\ pc[p] \in Installing => ~Exists(Named(target[p]))
  /\ pc[p] \in BeforeSwap \cup {"readLocal"} => \A build \in dist.parts : build <= target[p]
  /\ pc[p] \in SaveSteps \cup {"extract", "remove"} =>
       dist.parts = {slot[p].version} /\ slot[p].sha = dist.sha
  /\ pc[p] = "copy" => ~Exists(slot[p])
  /\ pc[p] \in {"copying", "prune", "extract", "remove"} \cup RestoreSteps => NewestIsMine(p)
  /\ pc[p] = "copying" => slots[1].tree.parts = dist.parts /\ slots[1].tree.sha = dist.sha
  /\ pc[p] = "rename" => \A i \in 1..Len(slots) : slots[i].name.version <= target[p]

WayBackInv == SlotsInOrder /\ NoSlotIsLater /\ \A p \in Procs : MyWayBack(p)

=============================================================================
