--------------------------- MODULE SelfUpdateProofs ---------------------------
(***************************************************************************)
(* Theorems about SelfUpdate, for any number of builds, of slots and, for  *)
(* the first two, of processes on one installation.                        *)
(***************************************************************************)
EXTENDS SelfUpdate, TLAPS

\* A slot that exists has a tree.
LEMMA SlotTreeType ==
  ASSUME slots \in Seq(Slots), NEW name, Exists(name)
  PROVE  /\ SlotTree(name) \in Trees
         /\ \E i \in 1..Len(slots) : slots[i].tree = SlotTree(name)
<1> DEFINE i == CHOOSE j \in 1..Len(slots) : slots[j].name = name
<1>1. i \in 1..Len(slots)
  BY DEF Exists
<1>2. slots[i] \in Slots
  BY <1>1
<1>3. SlotTree(name) = slots[i].tree
  BY DEF SlotTree
<1> QED BY <1>1, <1>2, <1>3 DEF Slots

\* Saving a slot gives a sequence of slots, each the new one or an old one.
LEMMA PutType ==
  ASSUME slots \in Seq(Slots), NEW name \in Names, NEW tree \in Trees
  PROVE  /\ Put(name, tree) \in Seq(Slots)
         /\ \A i \in 1..Len(Put(name, tree)) :
              \/ Put(name, tree)[i] = [name |-> name, tree |-> tree]
              \/ \E j \in 1..Len(slots) : Put(name, tree)[i] = slots[j]
<1> DEFINE new == [name |-> name, tree |-> tree]
<1>1. new \in Slots
  BY DEF Slots
<1>2. CASE Exists(name)
  BY <1>1, <1>2 DEF Put
<1>3. CASE ~Exists(name)
  <2>1. Put(name, tree) = <<new>> \o slots
    BY <1>3 DEF Put
  <2>2. /\ <<new>> \o slots \in Seq(Slots)
        /\ Len(<<new>> \o slots) = Len(slots) + 1
        /\ (<<new>> \o slots)[1] = new
        /\ \A i \in 2..Len(slots) + 1 : (<<new>> \o slots)[i] = slots[i - 1]
    BY <1>1
  <2>3. \A i \in 2..Len(slots) + 1 : i - 1 \in 1..Len(slots)
    OBVIOUS
  <2> QED BY <2>1, <2>2, <2>3
<1> QED BY <1>2, <1>3

\* Pruning gives a sequence of slots, each an old one.
LEMMA PruneType ==
  ASSUME slots \in Seq(Slots), Len(slots) > MaxSlots, MaxSlots \in Nat
  PROVE  /\ SubSeq(slots, 1, MaxSlots) \in Seq(Slots)
         /\ \A i \in 1..Len(SubSeq(slots, 1, MaxSlots)) :
              \E j \in 1..Len(slots) : SubSeq(slots, 1, MaxSlots)[i] = slots[j]
OBVIOUS

\* Half of a tree is a tree.
LEMMA HalfType == \A tree \in Trees : HalfOf(tree) \in Trees /\ ~HalfOf(tree).whole
BY DEF HalfOf, Trees

\* The first slots of the sequence are a sequence of slots.
LEMMA PrefixType ==
  ASSUME slots \in Seq(Slots), NEW n \in Nat, n <= Len(slots)
  PROVE  /\ SubSeq(slots, 1, n) \in Seq(Slots)
         /\ Len(SubSeq(slots, 1, n)) = n
         /\ \A i \in 1..n : SubSeq(slots, 1, n)[i] = slots[i] /\ i \in 1..Len(slots)
OBVIOUS

\* A removal that stops half way gives a sequence of slots too: the slot it began with is now
\* half a tree, in front of the others.
LEMMA HalfPrunedType ==
  ASSUME slots \in Seq(Slots), Len(slots) > MaxSlots, MaxSlots \in Nat
  PROVE  /\ HalfPruned \in Seq(Slots)
         /\ \A i \in 1..Len(HalfPruned) :
              \/ HalfPruned[i].tree \in Trees /\ ~HalfPruned[i].tree.whole
              \/ \E j \in 1..Len(slots) : HalfPruned[i] = slots[j]
<1> DEFINE rest == SubSeq(slots, 1, Len(slots) - 1)
           oldest == slots[Len(slots)]
           half == [oldest EXCEPT !.tree = HalfOf(@)]
<1>1. Len(slots) \in 1..Len(slots) /\ Len(slots) - 1 \in Nat /\ Len(slots) - 1 <= Len(slots)
  OBVIOUS
<1>2. oldest \in Slots
  BY <1>1
<1>3. HalfPruned = <<half>> \o rest
  BY DEF HalfPruned
<1>4. /\ rest \in Seq(Slots) /\ Len(rest) = Len(slots) - 1
      /\ \A i \in 1..Len(rest) : rest[i] = slots[i] /\ i \in 1..Len(slots)
  <2> HIDE DEF oldest, half
  <2> QED BY <1>1, PrefixType
<1> HIDE DEF rest, oldest
<1>5. half \in Slots /\ half.tree = HalfOf(oldest.tree) /\ oldest.tree \in Trees
  BY <1>2, HalfType DEF Slots
<1> HIDE DEF half
<1>6. /\ <<half>> \o rest \in Seq(Slots)
      /\ Len(<<half>> \o rest) = Len(rest) + 1
      /\ (<<half>> \o rest)[1] = half
      /\ \A i \in 1..Len(rest) : (<<half>> \o rest)[i + 1] = rest[i]
  BY ONLY <1>4, <1>5
<1>7. ASSUME NEW i \in 1..Len(HalfPruned)
      PROVE  \/ HalfPruned[i].tree \in Trees /\ ~HalfPruned[i].tree.whole
             \/ \E j \in 1..Len(slots) : HalfPruned[i] = slots[j]
  <2>1. CASE i = 1
    BY <2>1, <1>3, <1>5, <1>6, HalfType
  <2>2. CASE i # 1
    <3>1. i - 1 \in 1..Len(rest) /\ i = (i - 1) + 1
      BY <1>3, <1>4, <1>6, <2>2
    <3>2. HalfPruned[i] = slots[i - 1] /\ i - 1 \in 1..Len(slots)
      BY <3>1, <1>3, <1>4, <1>6
    <3> QED BY <3>2
  <2> QED BY <2>1, <2>2
<1> QED BY <1>3, <1>6, <1>7

\* A released tree, half of a tree, an empty tree and no name have their types.
LEMMA ReleaseTypes ==
  /\ EmptyTree \in Trees /\ NoName \in Names
  /\ \A build \in Builds : Release(build) \in Trees
  /\ \A tree \in Trees : HalfOf(tree) \in Trees
<1>1. EmptyTree \in Trees
  BY DEF EmptyTree, Trees, Hashes
<1>2. NoName \in Names
  BY DEF NoName, Names, Hashes
<1>3. \A build \in Builds : Release(build) \in Trees
  BY DEF Release, Trees, Hashes
<1>4. \A tree \in Trees : HalfOf(tree) \in Trees
  BY DEF HalfOf, Trees
<1> QED BY <1>1, <1>2, <1>3, <1>4

\* An operation on dist/ that was interrupted left it as it was, incomplete, or with a hash
\* file that was opened and not written.
LEMMA InterruptedIs ==
  ASSUME TypeOK, NEW p \in Procs, NEW tree \in Interrupted(p)
  PROVE  \/ tree = dist
         \/ dist # Nothing /\ tree \in Trees /\ ~tree.whole
         \/ /\ dist # Nothing /\ pc[p] = "writeLocal"
            /\ tree = [dist EXCEPT !.sha = Torn] /\ tree \in Trees
         \/ /\ dist # Nothing /\ pc[p] = "writeApplied"
            /\ tree = [dist EXCEPT !.applied = Nothing] /\ tree \in Trees
<1>1. CASE dist = Nothing
  BY <1>1 DEF Interrupted
<1>2. CASE dist # Nothing
  <2>1. dist \in Trees
    BY <1>2 DEF TypeOK
  <2>2. HalfOf(dist) \in Trees /\ ~HalfOf(dist).whole
    BY <2>1 DEF HalfOf, Trees
  <2>3. ASSUME Exists(slot[p])
        PROVE  /\ HalfOf(Restored(SlotTree(slot[p]))) \in Trees
               /\ ~HalfOf(Restored(SlotTree(slot[p]))).whole
    <3>1. SlotTree(slot[p]) \in Trees
      BY <2>3, SlotTreeType DEF TypeOK
    <3>2. Restored(SlotTree(slot[p])) \in Trees
      BY <2>1, <3>1 DEF Restored, Trees
    <3> QED BY <3>2 DEF HalfOf, Trees
  <2>4. /\ [dist EXCEPT !.sha = Torn] \in Trees
        /\ [dist EXCEPT !.applied = Nothing] \in Trees
    BY <2>1 DEF Trees, Hashes
  <2> QED BY <1>2, <2>2, <2>3, <2>4 DEF Interrupted
<1> QED BY <1>1, <1>2

\* So it has its type.
LEMMA InterruptedTyped ==
  ASSUME TypeOK, NEW p \in Procs
  PROVE  Interrupted(p) \subseteq Trees \cup {Nothing}
BY InterruptedIs DEF TypeOK

\* Every variable keeps its type.
LEMMA TypeStep == TypeOK /\ [Next]_vars => TypeOK'
<1> SUFFICES ASSUME TypeOK, [Next]_vars PROVE TypeOK'
  OBVIOUS
<1> USE ConstantsAssumption DEF ConstantsAssumption
<1>t. /\ EmptyTree \in Trees /\ NoName \in Names
      /\ \A build \in Builds : Release(build) \in Trees
      /\ \A tree \in Trees : HalfOf(tree) \in Trees
  BY ReleaseTypes
<1>i. \A p \in Procs : Interrupted(p) \subseteq Trees \cup {Nothing}
  BY InterruptedTyped
<1>g. \A p \in Procs, label \in PCs :
        /\ At(p, label) => pc' \in [Procs -> PCs]
        /\ Goes(p, label) => pc' \in [Procs -> PCs] /\ target' = target /\ slot' = slot
        /\ Ends(p, label) => /\ pc' \in [Procs -> PCs]
                             /\ target' \in [Procs -> Builds]
                             /\ slot' \in [Procs -> Names]
  <2> SUFFICES ASSUME NEW p \in Procs, NEW label \in PCs
               PROVE  /\ At(p, label) => pc' \in [Procs -> PCs]
                      /\ Goes(p, label) => /\ pc' \in [Procs -> PCs]
                                           /\ target' = target /\ slot' = slot
                      /\ Ends(p, label) => /\ pc' \in [Procs -> PCs]
                                           /\ target' \in [Procs -> Builds]
                                           /\ slot' \in [Procs -> Names]
    OBVIOUS
  <2>1. At(p, label) => pc' \in [Procs -> PCs]
    BY DEF At, TypeOK
  <2>2. /\ [target EXCEPT ![p] = 1] \in [Procs -> Builds]
        /\ [slot EXCEPT ![p] = NoName] \in [Procs -> Names]
    BY <1>t DEF TypeOK, Builds
  <2> QED BY <2>1, <2>2 DEF Goes, Ends
<1>l. {"off", "up"} \cup CheckSteps \cup InstallSteps \cup RestoreSteps \subseteq PCs
  BY DEF PCs
<1>u. \A p \in Procs : GivesUp(p) => /\ pc' \in [Procs -> PCs]
                                     /\ target' \in [Procs -> Builds]
                                     /\ slot' \in [Procs -> Names]
                                     /\ archives' \subseteq Procs
  BY <1>g, <1>l DEF GivesUp, TypeOK
<1> USE <1>g, <1>l, <1>u, <1>i DEF CheckSteps, InstallSteps, RestoreSteps
<1>1. ASSUME NEW p \in Procs, Check(p) PROVE TypeOK'
  <2>1. CASE Start(p)
    BY <2>1 DEF Start, TypeOK, Goes
  <2>2. CASE FetchManifest(p)
    BY <2>2 DEF FetchManifest, TypeOK
  <2>3. CASE ReadLocal(p)
    BY <2>3 DEF ReadLocal, TypeOK, Goes
  <2>4. CASE ReadApplied(p)
    BY <2>4 DEF ReadApplied, TypeOK, Goes
  <2>5. CASE Ask(p)
    BY <2>5 DEF Ask, TypeOK, Goes
  <2> QED BY <1>1, <2>1, <2>2, <2>3, <2>4, <2>5 DEF Check
<1>2. ASSUME NEW p \in Procs, Install(p) PROVE TypeOK'
  <2>1. CASE Download(p)
    BY <2>1 DEF Download, TypeOK, Goes
  <2>2. CASE WriteArchive(p)
    BY <2>2 DEF WriteArchive, TypeOK, Goes
  <2>3. CASE Rehash(p)
    BY <2>3 DEF Rehash, TypeOK, Goes
  <2>4. CASE SaveSlot(p)
    <3>1. CASE NameSlot(p)
      <4>1. /\ dist # Nothing => dist.sha \in Hashes
            /\ Versions(dist) \subseteq Hashes
        BY DEF Versions, TypeOK, Trees, Hashes
      <4>2. slot' \in [Procs -> Names]
        BY <3>1, <4>1 DEF NameSlot, TypeOK, Names, Hashes
      <4> QED BY <3>1, <4>2 DEF NameSlot, TypeOK
    <3>2. CASE StatSlot(p)
      BY <3>2 DEF StatSlot, TypeOK, Goes
    <3>3. CASE CopyBegins(p)
      <4>1. dist # Nothing => Put(slot[p], HalfOf(dist)) \in Seq(Slots)
        BY <1>t, PutType DEF TypeOK
      <4> QED BY <3>3, <4>1 DEF CopyBegins, TypeOK, Goes
    <3>4. CASE CopyEnds(p)
      <4>1. ASSUME dist # Nothing, Exists(slot[p])
            PROVE  Put(slot[p], Copied(SlotTree(slot[p]))) \in Seq(Slots)
        <5>1. SlotTree(slot[p]) \in Trees /\ dist \in Trees
          BY <4>1, SlotTreeType DEF TypeOK
        <5>2. Copied(SlotTree(slot[p])) \in Trees
          BY <5>1 DEF Copied, Trees
        <5> QED BY <5>2, PutType DEF TypeOK
      <4> QED BY <3>4, <4>1 DEF CopyEnds, TypeOK, Goes
    <3>5. CASE Prune(p)
      BY <3>5, PruneType, HalfPrunedType, ConstantsAssumption
         DEF Prune, TypeOK, Goes, ConstantsAssumption
    <3> QED BY <2>4, <3>1, <3>2, <3>3, <3>4, <3>5 DEF SaveSlot
  <2>5. CASE Extract(p)
    BY <2>5 DEF Extract, TypeOK, Goes
  <2>6. CASE RemoveDist(p)
    BY <2>6, <1>t DEF RemoveDist, TypeOK, Goes
  <2>7. CASE Rename(p)
    BY <2>7, <1>t DEF Rename, TypeOK, Goes
  <2>8. CASE WriteLocal(p)
    <3>1. dist # Nothing => [dist EXCEPT !.sha = target[p]] \in Trees
      BY DEF TypeOK, Trees, Hashes
    <3> QED BY <2>8, <3>1 DEF WriteLocal, TypeOK, Goes
  <2>9. CASE WriteApplied(p)
    <3>1. dist # Nothing => [dist EXCEPT !.applied = target[p]] \in Trees
      BY DEF TypeOK, Trees, Hashes
    <3> QED BY <2>9, <3>1 DEF WriteApplied, TypeOK, Goes
  <2> QED BY <1>2, <2>1, <2>2, <2>3, <2>4, <2>5, <2>6, <2>7, <2>8, <2>9 DEF Install
<1>3. ASSUME NEW p \in Procs, Restore(p) PROVE TypeOK'
  <2>1. CASE Rollback(p)
    <3>1. Head(slots) \in Slots
      BY <2>1 DEF Rollback, TypeOK
    <3>2. slot' \in [Procs -> Names]
      BY <2>1, <3>1 DEF Rollback, TypeOK, Slots
    <3> QED BY <2>1, <3>2 DEF Rollback, TypeOK
  <2>2. CASE CheckEntry(p)
    BY <2>2 DEF CheckEntry, TypeOK, Goes
  <2>3. CASE RestoreRemove(p)
    BY <2>3, <1>t DEF RestoreRemove, TypeOK, Goes
  <2>4. CASE RestoreMkdir(p)
    BY <2>4, <1>t DEF RestoreMkdir, TypeOK, Goes
  <2>5. CASE RestoreCopy(p)
    <3>1. ASSUME Exists(slot[p]), dist # Nothing
          PROVE  Restored(SlotTree(slot[p])) \in Trees
      <4>1. SlotTree(slot[p]) \in Trees /\ dist \in Trees
        BY <3>1, SlotTreeType DEF TypeOK
      <4> QED BY <4>1 DEF Restored, Trees
    <3> QED BY <2>5, <3>1, <1>t DEF RestoreCopy, TypeOK
  <2> QED BY <1>3, <2>1, <2>2, <2>3, <2>4, <2>5 DEF Restore
<1>4. ASSUME NEW p \in Procs, Quit(p) \/ Crash(p) PROVE TypeOK'
  BY <1>4 DEF Quit, Crash, TypeOK
<1>5. CASE Publish
  BY <1>5 DEF Publish, TypeOK
<1>6. CASE UNCHANGED vars
  BY <1>6 DEF vars, TypeOK
<1> QED BY <1>1, <1>2, <1>3, <1>4, <1>5, <1>6 DEF Next

\* The initial state has its type, and something is installed.
LEMMA TypeInit == Init => TypeOK /\ dist \in Trees
<1> SUFFICES ASSUME Init PROVE TypeOK /\ dist \in Trees
  OBVIOUS
<1>1. 1 \in Builds
  BY ConstantsAssumption DEF ConstantsAssumption, Builds
<1>2. dist \in Trees
  BY <1>1 DEF Init, Release, Trees, Hashes
<1>3. slots \in Seq(Slots)
  BY DEF Init
<1>4. NoName \in Names
  BY ReleaseTypes
<1> QED BY <1>1, <1>2, <1>3, <1>4 DEF Init, TypeOK, PCs

\* Every variable always has its type, whatever the faults and however many processes run.
THEOREM TypeCorrect == Spec => []TypeOK
BY TypeInit, TypeStep, PTL DEF Spec

-----------------------------------------------------------------------------
(* Any number of processes updating at once.                               *)

\* The swap keeps the installation there, however the processes interleave.
LEMMA SwapStep == Undisturbed /\ TypeOK /\ SwapInv /\ [Next]_vars => SwapInv'
<1> SUFFICES ASSUME Undisturbed, TypeOK, SwapInv, [Next]_vars PROVE SwapInv'
  OBVIOUS
<1>q. "crash" \notin Faults /\ ~DiskMayFail /\ "rollback" \notin Ops
  BY DEF Undisturbed, DiskMayFail
<1> USE DEF At, Goes, Ends, GivesUp, RestoreSteps
<1>1. ASSUME NEW p \in Procs, Check(p) PROVE SwapInv'
  <2>1. dist' = dist /\ pc[p] # "rename" /\ \E label \in CheckSteps \cup {"up"} :
          pc' = [pc EXCEPT ![p] = label]
    BY <1>1 DEF Check, Start, FetchManifest, ReadLocal, ReadApplied, Ask, CheckSteps
  <2> QED BY <2>1 DEF SwapInv, TypeOK, CheckSteps
<1>2. ASSUME NEW p \in Procs, Install(p) PROVE SwapInv'
  <2>1. CASE Download(p) \/ WriteArchive(p) \/ Rehash(p) \/ SaveSlot(p) \/ Extract(p)
    <3>1. dist' = dist /\ pc[p] # "rename" /\ \E label \in InstallSteps \cup {"up"} :
            pc' = [pc EXCEPT ![p] = label]
      <4>1. CASE Download(p) \/ WriteArchive(p) \/ Rehash(p) \/ Extract(p)
        BY <4>1 DEF Download, WriteArchive, Rehash, Extract, InstallSteps
      <4>2. CASE SaveSlot(p)
        BY <4>2 DEF SaveSlot, NameSlot, StatSlot, CopyBegins, CopyEnds, Prune, InstallSteps
      <4> QED BY <2>1, <4>1, <4>2
    <3> QED BY <3>1 DEF SwapInv, TypeOK, InstallSteps
  <2>2. CASE RemoveDist(p)
    BY <2>2, <1>q DEF RemoveDist, SwapInv, TypeOK
  <2>3. CASE Rename(p)
    <3>1. CASE dist = Nothing
      <4>1. dist' = Release(target[p]) /\ pc' = [pc EXCEPT ![p] = "writeLocal"]
        BY <2>3, <3>1, <1>q DEF Rename, CanRename
      <4>2. dist'.whole /\ dist'.parts # {} /\ dist' # Nothing
        <5>1. dist' \in Trees
          BY <4>1, ReleaseTypes DEF TypeOK
        <5> QED BY <4>1, <5>1, ConstantsAssumption DEF Release, ConstantsAssumption
      <4> QED BY <4>1, <4>2 DEF SwapInv, TypeOK
    <3>2. CASE dist # Nothing
      <4>1. dist' = dist /\ pc' = [pc EXCEPT ![p] = "up"]
        BY <2>3, <3>2 DEF Rename, CanRename, SwapInv
      <4> QED BY <3>2, <4>1 DEF SwapInv, TypeOK
    <3> QED BY <3>1, <3>2
  <2>4. CASE WriteLocal(p) \/ WriteApplied(p)
    <3>1. CASE dist = Nothing
      <4>1. dist' = Nothing /\ pc' = [pc EXCEPT ![p] = "up"] /\ pc[p] # "rename"
        BY <2>4, <3>1, InterruptedIs DEF WriteLocal, WriteApplied
      <4> QED BY <3>1, <4>1 DEF SwapInv, TypeOK
    <3>2. CASE dist # Nothing
      <4>1. /\ dist'.whole /\ dist'.parts # {} /\ dist' # Nothing
            /\ \E label \in {"writeApplied", "off"} : pc' = [pc EXCEPT ![p] = label]
        <5>1. dist' \in Trees
          BY <2>4, <3>2, <1>q DEF WriteLocal, WriteApplied, TypeOK, Trees, Hashes
        <5> QED BY <2>4, <3>2, <5>1, <1>q, ConstantsAssumption
                DEF WriteLocal, WriteApplied, TypeOK, Trees, SwapInv, ConstantsAssumption
      <4> QED BY <4>1 DEF SwapInv, TypeOK
    <3> QED BY <3>1, <3>2
  <2> QED BY <1>2, <2>1, <2>2, <2>3, <2>4 DEF Install
<1>3. ASSUME NEW p \in Procs, Restore(p) PROVE FALSE
  BY <1>3, <1>q DEF Restore, Rollback, CheckEntry, RestoreRemove, RestoreMkdir, RestoreCopy,
                    SwapInv
<1>4. ASSUME NEW p \in Procs, Quit(p) \/ Crash(p) PROVE SwapInv'
  BY <1>4, <1>q DEF Quit, Crash, SwapInv, TypeOK
<1>5. CASE Publish \/ UNCHANGED vars
  BY <1>5 DEF Publish, vars, SwapInv
<1> QED BY <1>1, <1>2, <1>3, <1>4, <1>5 DEF Next

\* However many processes update one installation at once, in whatever order, it can be
\* started whenever none of them is between its removal of dist/ and its rename.
THEOREM AlwaysStartableCorrect ==
  ASSUME Undisturbed
  PROVE  Spec => []AlwaysStartable
<1>1. ASSUME Init PROVE SwapInv
  <2>1. dist \in Trees /\ dist # Nothing
    BY <1>1, TypeInit, ConstantsAssumption DEF ConstantsAssumption
  <2> QED BY <1>1, <2>1 DEF Init, SwapInv, Release, RestoreSteps
<1>2. SwapInv => AlwaysStartable
  BY DEF SwapInv, AlwaysStartable, Startable, SwapInProgress
<1>3. TypeOK /\ SwapInv /\ [Next]_vars => SwapInv'
  BY SwapStep
<1> QED BY <1>1, <1>2, <1>3, TypeCorrect, PTL DEF Spec

-----------------------------------------------------------------------------
(* One process at a time, with crashes and a failing disk.                 *)

\* Half a tree is not whole.
LEMMA HalfIsNotWhole == ASSUME NEW tree \in Trees PROVE ~HalfOf(tree).whole
BY DEF HalfOf, Trees

\* Halves, empty trees and releases carry their own hashes.
LEMMA OwnHashesKept ==
  ASSUME NEW tree \in Trees
  PROVE  /\ OwnHashes(HalfOf(tree)) /\ OwnHashes(EmptyTree)
         /\ \A build \in Builds : OwnHashes(Release(build))
BY HalfIsNotWhole DEF OwnHashes, EmptyTree, Release

\* So does an installed tree whose update was interrupted.
LEMMA InterruptedHashes ==
  ASSUME TypeOK, RecordInv, NEW p \in Procs, NEW tree \in Interrupted(p), tree # Nothing
  PROVE  OwnHashes(tree)
<1>1. tree = dist \/ dist # Nothing
  BY InterruptedIs
<1>2. dist \in Trees /\ OwnHashes(dist)
  BY <1>1 DEF TypeOK, RecordInv
<1>3. CASE tree = [dist EXCEPT !.sha = Torn]
  <2>1. tree.parts = dist.parts /\ tree.sha = Torn /\ tree.applied = dist.applied
    BY <1>2, <1>3 DEF Trees
  <2>2. tree.whole => dist.whole
    BY <1>2, <1>3 DEF Trees
  <2> QED BY <1>2, <2>1, <2>2 DEF OwnHashes
<1>4. CASE tree = [dist EXCEPT !.applied = Nothing]
  <2>1. tree.parts = dist.parts /\ tree.sha = dist.sha /\ tree.applied = Nothing
    BY <1>2, <1>4 DEF Trees
  <2>2. tree.whole => dist.whole
    BY <1>2, <1>4 DEF Trees
  <2> QED BY <1>2, <2>1, <2>2 DEF OwnHashes
<1>5. CASE ~tree.whole
  BY <1>5 DEF OwnHashes
<1> QED BY <1>2, <1>3, <1>4, <1>5, InterruptedIs

\* The trees of the slots after a Put.
LEMMA PutTrees ==
  ASSUME slots \in Seq(Slots), NEW name \in Names, NEW tree \in Trees, OwnHashes(tree),
         \A i \in 1..Len(slots) : OwnHashes(slots[i].tree)
  PROVE  \A i \in 1..Len(Put(name, tree)) : OwnHashes(Put(name, tree)[i].tree)
<1> SUFFICES ASSUME NEW i \in 1..Len(Put(name, tree))
             PROVE  OwnHashes(Put(name, tree)[i].tree)
  OBVIOUS
<1>1. \/ Put(name, tree)[i] = [name |-> name, tree |-> tree]
      \/ \E j \in 1..Len(slots) : Put(name, tree)[i] = slots[j]
  BY PutType
<1>2. CASE Put(name, tree)[i] = [name |-> name, tree |-> tree]
  BY <1>2
<1>3. CASE \E j \in 1..Len(slots) : Put(name, tree)[i] = slots[j]
  BY <1>3
<1> QED BY <1>1, <1>2, <1>3

\* What a lone process does keeps every record true.
LEMMA RecordStep == Alone /\ TypeOK /\ RecordInv /\ [Next]_vars => RecordInv'
<1> SUFFICES ASSUME Alone, TypeOK, RecordInv, [Next]_vars PROVE RecordInv'
  OBVIOUS
<1> DEFINE Before(p) == pc[p] \in BeforeSwap
<1>b. BeforeSwap = {"readApplied", "ask", "download", "write", "rehash", "name", "extract",
                    "remove", "stat", "copy", "copying", "prune"}
  BY DEF BeforeSwap, SaveSteps
<1> USE DEF At, Goes, Ends, GivesUp
<1>1. ASSUME NEW p \in Procs, Check(p) PROVE RecordInv'
  <2>1. CASE Start(p)
    BY <2>1, <1>b DEF Start, RecordInv, Alone, TypeOK, Startable
  <2>2. CASE FetchManifest(p)
    BY <2>2, <1>b DEF FetchManifest, RecordInv, Alone, TypeOK, Startable
  <2>3. CASE ReadLocal(p)
    BY <2>3, <1>b DEF ReadLocal, RecordInv, Alone, TypeOK, Startable, HasHash
  <2>4. CASE ReadApplied(p)
    BY <2>4, <1>b DEF ReadApplied, RecordInv, Alone, TypeOK, Startable
  <2>5. CASE Ask(p)
    BY <2>5, <1>b DEF Ask, RecordInv, Alone, TypeOK, Startable
  <2> QED BY <1>1, <2>1, <2>2, <2>3, <2>4, <2>5 DEF Check
<1>2. ASSUME NEW p \in Procs, Install(p) PROVE RecordInv'
  <2>1. CASE Download(p) \/ WriteArchive(p) \/ Rehash(p) \/ Extract(p)
    BY <2>1, <1>b DEF Download, WriteArchive, Rehash, Extract, RecordInv, Alone, TypeOK, Startable
  <2>2. CASE SaveSlot(p)
    <3>1. CASE NameSlot(p)
      BY <3>1, <1>b DEF NameSlot, RecordInv, Alone, TypeOK, Startable
    <3>2. CASE StatSlot(p)
      BY <3>2, <1>b DEF StatSlot, RecordInv, Alone, TypeOK, Startable
    <3>3. CASE CopyBegins(p)
      <4>1. dist # Nothing => dist \in Trees /\ HalfOf(dist) \in Trees /\ OwnHashes(HalfOf(dist))
        BY ReleaseTypes, OwnHashesKept DEF TypeOK
      <4>2. dist # Nothing => \A i \in 1..Len(Put(slot[p], HalfOf(dist))) :
                                OwnHashes(Put(slot[p], HalfOf(dist))[i].tree)
        BY <4>1, PutTrees DEF TypeOK, RecordInv
      <4>3. \A i \in 1..Len(slots') : OwnHashes(slots'[i].tree)
        BY <3>3, <4>2 DEF CopyBegins, RecordInv
      <4> QED BY <3>3, <4>3, <1>b DEF CopyBegins, RecordInv, Alone, TypeOK, Startable
    <3>4. CASE CopyEnds(p)
      <4>1. ASSUME dist # Nothing, Exists(slot[p])
            PROVE  \A i \in 1..Len(Put(slot[p], Copied(SlotTree(slot[p])))) :
                     OwnHashes(Put(slot[p], Copied(SlotTree(slot[p])))[i].tree)
        <5> DEFINE half == SlotTree(slot[p])
        <5>1. half \in Trees /\ dist \in Trees /\ OwnHashes(dist)
          BY <4>1, SlotTreeType DEF TypeOK, RecordInv
        <5>2. Copied(half) \in Trees
          BY <5>1 DEF Copied, Trees
        <5>3. OwnHashes(Copied(half))
          BY <5>1 DEF Copied, OwnHashes, Trees
        <5> QED BY <5>2, <5>3, PutTrees DEF TypeOK, RecordInv
      <4>2. \A i \in 1..Len(slots') : OwnHashes(slots'[i].tree)
        BY <3>4, <4>1 DEF CopyEnds, RecordInv
      <4> QED BY <3>4, <4>2, <1>b DEF CopyEnds, RecordInv, Alone, TypeOK, Startable
    <3>5. CASE Prune(p)
      <4>1. \A i \in 1..Len(slots') : OwnHashes(slots'[i].tree)
        <5>1. CASE slots' = HalfPruned /\ Len(slots) > MaxSlots
          <6>1. \A i \in 1..Len(slots') :
                  \/ slots'[i].tree \in Trees /\ ~slots'[i].tree.whole
                  \/ \E j \in 1..Len(slots) : slots'[i] = slots[j]
            BY <5>1, HalfPrunedType, ConstantsAssumption DEF TypeOK, ConstantsAssumption
          <6> QED BY ONLY RecordInv, <6>1 DEF RecordInv, OwnHashes
        <5>2. CASE slots' = SubSeq(slots, 1, MaxSlots) /\ Len(slots) > MaxSlots
          BY <5>2, PruneType, ConstantsAssumption DEF RecordInv, TypeOK, ConstantsAssumption
        <5>3. CASE slots' = slots
          BY <5>3 DEF RecordInv
        <5> QED BY ONLY <3>5, <5>1, <5>2, <5>3 DEF Prune
      <4> QED BY <3>5, <4>1, <1>b DEF Prune, RecordInv, Alone, TypeOK, Startable
    <3> QED BY <2>2, <3>1, <3>2, <3>3, <3>4, <3>5 DEF SaveSlot
  <2>3. CASE RemoveDist(p)
    <3>1. dist' # Nothing => OwnHashes(dist')
      BY <2>3, InterruptedHashes DEF RemoveDist
    <3> QED BY <2>3, <3>1, <1>b DEF RemoveDist, RecordInv, Alone, TypeOK
  <2>4. CASE Rename(p)
    <3>1. CASE dist' = dist /\ pc' = [pc EXCEPT ![p] = "up"]
      BY <2>4, <3>1, <1>b DEF Rename, RecordInv, Alone, TypeOK
    <3>2. CASE dist' = Release(target[p]) /\ pc' = [pc EXCEPT ![p] = "writeLocal"]
      <4>1. dist' \in Trees /\ OwnHashes(dist') /\ target' = target /\ slots' = slots
        BY <2>4, <3>2, ReleaseTypes, OwnHashesKept DEF Rename, TypeOK
      <4>2. IsBuild(dist', target[p])
        BY <3>2, <4>1, ConstantsAssumption DEF IsBuild, Release, ConstantsAssumption
      <4> QED BY <3>2, <4>1, <4>2, <1>b DEF RecordInv, Alone, TypeOK, IsBuild
    <3> QED BY <2>4, <3>1, <3>2 DEF Rename
  <2>5. CASE WriteLocal(p) \/ WriteApplied(p)
    <3>1. /\ IsBuild(dist, target[p]) /\ dist \in Trees /\ OwnHashes(dist)
          /\ target[p] \in Builds /\ dist # Nothing /\ dist.parts = {target[p]} /\ dist.whole
      BY <2>5 DEF WriteLocal, WriteApplied, RecordInv, IsBuild, TypeOK
    <3>2. CASE dist' = [dist EXCEPT !.sha = target[p]]
               \/ dist' = [dist EXCEPT !.applied = target[p]]
      <4>1. dist.sha \in {target[p], Nothing, Torn} /\ dist.applied \in {target[p], Nothing}
        BY <3>1 DEF OwnHashes
      <4>2. dist' \in Trees
        BY <3>1, <3>2 DEF Trees, Hashes
      <4>3. /\ dist'.parts = {target[p]} /\ dist'.whole
            /\ dist'.sha \in {target[p], Nothing, Torn}
            /\ dist'.applied \in {target[p], Nothing}
        BY <3>1, <3>2, <4>1 DEF Trees
      <4>4. OwnHashes(dist') /\ IsBuild(dist', target[p])
        BY <3>1, <4>2, <4>3, ConstantsAssumption DEF OwnHashes, IsBuild, ConstantsAssumption
      <4> QED BY <2>5, <4>4, <1>b DEF WriteLocal, WriteApplied, RecordInv, Alone, TypeOK
    <3>3. CASE GivesUp(p) /\ dist' \in Interrupted(p)
      <4>1. dist' # Nothing => OwnHashes(dist')
        BY <3>3, InterruptedHashes
      <4> QED BY <2>5, <3>3, <4>1, <1>b DEF WriteLocal, WriteApplied, RecordInv, Alone, TypeOK
    <3> QED BY <2>5, <3>1, <3>2, <3>3 DEF WriteLocal, WriteApplied
  <2> QED BY <1>2, <2>1, <2>2, <2>3, <2>4, <2>5 DEF Install
<1>3. ASSUME NEW p \in Procs, Restore(p) PROVE RecordInv'
  <2>1. /\ \E label \in RestoreSteps \cup {"up", "off"} : pc' = [pc EXCEPT ![p] = label]
        /\ slots' = slots
    BY <1>3 DEF Restore, Rollback, CheckEntry, RestoreRemove, RestoreMkdir, RestoreCopy,
                RestoreSteps
  <2>2. dist' # Nothing => OwnHashes(dist')
    <3>1. CASE Rollback(p) \/ CheckEntry(p)
      BY <3>1 DEF Rollback, CheckEntry, RecordInv
    <3>2. CASE RestoreRemove(p)
      BY <3>2, InterruptedHashes DEF RestoreRemove
    <3>3. CASE RestoreMkdir(p)
      BY <3>3 DEF RestoreMkdir, RecordInv, EmptyTree, OwnHashes
    <3>4. CASE RestoreCopy(p)
      <4>1. ASSUME Exists(slot[p]), dist # Nothing
            PROVE  OwnHashes(Restored(SlotTree(slot[p])))
        <5> DEFINE src == SlotTree(slot[p])
        <5>1. src \in Trees /\ OwnHashes(src) /\ dist \in Trees
          BY <4>1, SlotTreeType DEF TypeOK, RecordInv
        <5> QED BY <5>1 DEF Restored, OwnHashes, Trees
      <4> QED BY <3>4, <4>1, InterruptedHashes DEF RestoreCopy
    <3> QED BY <1>3, <3>1, <3>2, <3>3, <3>4 DEF Restore
  <2> QED BY <2>1, <2>2, <1>b DEF RecordInv, Alone, TypeOK, RestoreSteps
<1>4. ASSUME NEW p \in Procs, Quit(p) \/ Crash(p) PROVE RecordInv'
  <2>1. dist' # Nothing => OwnHashes(dist')
    BY <1>4, InterruptedHashes DEF Quit, Crash, RecordInv
  <2> QED BY <1>4, <2>1, <1>b DEF Quit, Crash, RecordInv, Alone, TypeOK
<1>5. CASE Publish \/ UNCHANGED vars
  BY <1>5 DEF Publish, vars, RecordInv, Startable
<1> QED BY <1>1, <1>2, <1>3, <1>4, <1>5 DEF Next

\* A lone process keeps RecordInv, whatever fails and whenever it dies.
LEMMA RecordCorrect ==
  ASSUME Alone
  PROVE  Spec => []RecordInv
<1>1. ASSUME Init PROVE RecordInv
  <2>1. dist \in Trees
    BY <1>1, TypeInit
  <2>2. OwnHashes(dist)
    BY <1>1, <2>1, ConstantsAssumption
       DEF Init, OwnHashes, Release, Builds, ConstantsAssumption
  <2> QED BY <1>1, <2>2 DEF Init, RecordInv, BeforeSwap, SaveSteps
<1>2. TypeOK /\ RecordInv /\ [Next]_vars => RecordInv'
  BY RecordStep
<1> QED BY <1>1, <1>2, TypeCorrect, PTL DEF Spec

\* The hash files of a complete installed build are its own, absent or torn.
THEOREM RecordsAreTrueCorrect ==
  ASSUME Alone
  PROVE  Spec => []RecordsAreTrue
<1>1. TypeOK /\ RecordInv => RecordsAreTrue
  BY DEF RecordInv, RecordsAreTrue, Startable, OwnHashes
<1> QED BY <1>1, RecordCorrect, TypeCorrect, PTL

\* No update replaces a build by itself unless its hash file was torn, so that no start-up
\* updates and restarts for ever.
THEOREM NoReinstallCorrect ==
  ASSUME Alone
  PROVE  Spec => NoReinstall
<1> DEFINE Fresh == \A p \in Procs :
             pc[p] = "remove" /\ pc'[p] = "rename" /\ IsBuild(dist, target[p])
               => dist.sha = Torn
<1>1. TypeOK /\ RecordInv => Fresh
  BY DEF RecordInv, BeforeSwap, IsBuild, OwnHashes
<1> QED BY <1>1, RecordCorrect, TypeCorrect, PTL DEF NoReinstall

-----------------------------------------------------------------------------
(* The way back, for a process alone whose copies into slots are complete. *)

WayBackAssumption == Alone /\ "halfSlot" \notin Faults

\* No two slots have one name.
LEMMA PrecedesIsStrict ==
  ASSUME TypeOK, SlotsInOrder, NEW i \in 1..Len(slots), NEW j \in 1..Len(slots), i < j
  PROVE  slots[i].name # slots[j].name /\ slots[i].name.version >= slots[j].name.version
<1>1. Precedes(slots[i].name, slots[j].name)
  BY DEF SlotsInOrder
<1>2. /\ slots[i].name.version \in 1..published /\ slots[j].name.version \in 1..published
      /\ published \in Builds
  BY DEF SlotsInOrder, TypeOK
<1>3. slots[i].name.version \in Builds /\ slots[i].name.version \in Nat
      /\ slots[j].name.version \in Nat
  BY <1>2, ConstantsAssumption DEF Builds, ConstantsAssumption
<1>4. CASE slots[i].name.version > slots[j].name.version
  BY <1>3, <1>4
<1>5. CASE slots[i].name = Named(slots[j].name.version) /\ slots[j].name.sha = Torn
  BY <1>3, <1>5, ConstantsAssumption DEF Named, ConstantsAssumption
<1> QED BY <1>1, <1>4, <1>5 DEF Precedes

\* Looking up the slot a process has just put in front.
LEMMA NewestTree ==
  ASSUME TypeOK, SlotsInOrder, NEW name, slots # <<>>, slots[1].name = name
  PROVE  /\ Exists(name) /\ SlotTree(name) = slots[1].tree
         /\ \A i \in 1..Len(slots) : slots[i].name = name => i = 1
<1>1. 1 \in 1..Len(slots) /\ Len(slots) \in Nat
  BY DEF TypeOK
<1>2. \A i \in 1..Len(slots) : slots[i].name = name => i = 1
  BY <1>1, PrecedesIsStrict
<1> QED BY <1>1, <1>2 DEF Exists, SlotTree

\* The slot of the installed build, if there is one, is the newest.
LEMMA InstalledIsNewest ==
  ASSUME TypeOK, WayBackInv, NEW p \in Procs, Startable, OwnHashes(dist), dist.sha # Nothing,
         dist.parts = {slot[p].version}, slot[p].sha = dist.sha, Exists(slot[p])
  PROVE  NewestIsMine(p)
<1>1. PICK i \in 1..Len(slots) : slots[i].name = slot[p]
  BY DEF Exists
<1>2. SlotsInOrder /\ NoSlotIsLater
  BY DEF WayBackInv
<1>3. 1 \in 1..Len(slots) /\ Len(slots) \in Nat /\ slots # <<>>
  BY <1>1 DEF TypeOK
<1>4. /\ slots[1].name.version \in Nat /\ slots[i].name.version \in Nat
      /\ slots[1].name.version <= slot[p].version
  BY <1>1, <1>2, <1>3 DEF SlotsInOrder, NoSlotIsLater, TypeOK, Builds
<1>5. slot[p].sha \in {slot[p].version, Torn} /\ slot[p].version \in Builds
  BY DEF OwnHashes, Startable
<1>6. slot[p].sha = Torn => ~Exists(Named(slot[p].version))
  BY <1>2 DEF NoSlotIsLater
<1>7. ASSUME i # 1 PROVE FALSE
  <2>1. Precedes(slots[1].name, slot[p])
    BY <1>1, <1>2, <1>3, <1>7 DEF SlotsInOrder
  <2>2. slots[1].name = Named(slot[p].version) /\ slot[p].sha = Torn
    BY <1>1, <1>4, <2>1 DEF Precedes
  <2> QED BY <1>3, <1>6, <2>2 DEF Exists
<1> QED BY <1>1, <1>3, <1>7 DEF NewestIsMine

\* Steps that change neither slots nor dist keep the order.
LEMMA OrderKept ==
  ASSUME TypeOK, WayBackInv, slots' = slots, published' = published,
         NEW p \in Procs, pc[p] # "copying", Alone
  PROVE  SlotsInOrder'
BY DEF WayBackInv, SlotsInOrder, Alone

\* For a lone process the invariant is about that one.
LEMMA WayBackOfOne ==
  ASSUME Alone, NEW p \in Procs
  PROVE  /\ WayBackInv <=> SlotsInOrder /\ NoSlotIsLater /\ MyWayBack(p)
         /\ WayBackInv' <=> SlotsInOrder' /\ NoSlotIsLater' /\ MyWayBack(p)'
BY DEF Alone, WayBackInv

\* A slot that is not there yet is put in front.
LEMMA PutInFront ==
  ASSUME slots \in Seq(Slots), NEW name \in Names, NEW tree \in Trees, ~Exists(name)
  PROVE  /\ Len(Put(name, tree)) = Len(slots) + 1
         /\ Put(name, tree)[1] = [name |-> name, tree |-> tree]
         /\ \A i \in 2..Len(slots) + 1 :
              i - 1 \in 1..Len(slots) /\ Put(name, tree)[i] = slots[i - 1]
<1> DEFINE new == [name |-> name, tree |-> tree]
<1>1. Put(name, tree) = <<new>> \o slots
  BY DEF Put
<1>2. new \in Slots
  BY DEF Slots
<1>3. /\ Len(<<new>> \o slots) = Len(slots) + 1
      /\ (<<new>> \o slots)[1] = new
      /\ \A i \in 2..Len(slots) + 1 : (<<new>> \o slots)[i] = slots[i - 1]
  BY <1>2
<1>4. \A i \in 2..Len(slots) + 1 : i - 1 \in 1..Len(slots)
  OBVIOUS
<1> QED BY <1>1, <1>3, <1>4

\* The newest slot is written where it is.
LEMMA PutOnNewest ==
  ASSUME TypeOK, SlotsInOrder, NEW name, NEW tree, slots # <<>>, slots[1].name = name
  PROVE  /\ Len(Put(name, tree)) = Len(slots)
         /\ Put(name, tree)[1] = [name |-> name, tree |-> tree]
         /\ \A i \in 2..Len(slots) : Put(name, tree)[i] = slots[i]
<1>1. 1 \in 1..Len(slots) /\ Len(slots) \in Nat
  BY DEF TypeOK
<1>2. Exists(name) /\ \A i \in 1..Len(slots) : slots[i].name = name => i = 1
  BY NewestTree
<1>3. Put(name, tree) = [i \in 1..Len(slots) |->
        IF slots[i].name = name THEN [name |-> name, tree |-> tree] ELSE slots[i]]
  BY <1>2 DEF Put
<1> QED BY <1>1, <1>2, <1>3

\* A complete restored tree is the slot it comes from.
LEMMA RestoredWhole ==
  ASSUME NEW src \in Trees, dist \in Trees, Restored(src).whole
  PROVE  src.whole /\ Restored(src).parts = src.parts /\ Restored(src).sha = src.sha
<1>1. Restored(src).parts = src.parts \cup dist.parts /\ Restored(src).sha = src.sha
  BY DEF Restored, Trees
<1>2. src.whole /\ dist.parts \subseteq src.parts
  BY DEF Restored, Trees
<1> QED BY <1>1, <1>2

\* A copy that begins and ends with one complete tree is that tree.
LEMMA CopiedWhole ==
  ASSUME dist \in Trees, dist.whole, NEW half \in Trees, half.parts = dist.parts
  PROVE  /\ Copied(half).whole /\ Copied(half).parts = dist.parts
         /\ Copied(half).sha = dist.sha /\ Copied(half) \in Trees
BY DEF Copied, Trees

\* Saving a slot happens while the installed tree is complete.
LEMMA SavingIsWhole ==
  ASSUME RecordInv, NEW p \in Procs, SaveSlot(p)
  PROVE  pc[p] \in BeforeSwap /\ Startable
<1>1. pc[p] \in {"name", "stat", "copy", "copying", "prune"}
  BY DEF SaveSlot, NameSlot, StatSlot, CopyBegins, CopyEnds, Prune
<1> QED BY <1>1 DEF RecordInv, BeforeSwap, SaveSteps

\* The copy into a new slot puts it in front of all older ones.
LEMMA CopyBeginsKeepsOrder ==
  ASSUME Alone, TypeOK, RecordInv, WayBackInv, NEW p \in Procs,
         pc[p] = "copy", pc' = [pc EXCEPT ![p] = "copying"],
         slots' = Put(slot[p], HalfOf(dist)), UNCHANGED <<published, dist, target, slot>>
  PROVE  WayBackInv'
<1> DEFINE v == slot[p].version
<1>0. SlotsInOrder /\ NoSlotIsLater /\ MyWayBack(p)
  BY DEF WayBackInv
<1>1. /\ Startable /\ OwnHashes(dist) /\ dist.sha # Nothing /\ dist.sha # target[p]
      /\ slot[p] \in Names /\ dist \in Trees /\ dist.whole /\ HalfOf(dist) \in Trees
      /\ target[p] \in Builds /\ published \in Nat /\ Len(slots) \in Nat
  BY ReleaseTypes DEF TypeOK, Startable, RecordInv, BeforeSwap, SaveSteps, Builds
<1>2. /\ dist.parts = {v} /\ slot[p].sha = dist.sha /\ ~Exists(slot[p])
      /\ v <= target[p] /\ target[p] <= published /\ ~Exists(Named(target[p]))
  BY <1>0 DEF MyWayBack, Installing, BeforeSwap, SaveSteps
<1>3. v \in Builds /\ slot[p].sha \in {v, Torn} /\ v \in 1..published /\ v \in Nat
  <2>1. v \in Builds /\ dist.sha \in {v, Nothing, Torn}
    BY <1>1, <1>2 DEF OwnHashes
  <2>2. v <= published
    BY <1>0, <1>1, <1>2 DEF NoSlotIsLater
  <2> QED BY <1>1, <1>2, <2>1, <2>2 DEF Builds
<1>4. slot[p].sha # published /\ (slot[p].sha = v => v # target[p])
  <2>1. published \in Builds /\ Torn # published
    BY ConstantsAssumption DEF ConstantsAssumption, TypeOK
  <2>2. slot[p].sha = v => v # target[p]
    BY <1>1, <1>2
  <2>3. slot[p].sha = v => v # published
    BY <1>1, <1>2, <1>3, <2>2 DEF Builds
  <2> QED BY <1>3, <2>1, <2>2, <2>3
<1>5. ASSUME NEW i \in 1..Len(slots)
      PROVE  /\ slots[i].name.version \in 1..published /\ slots[i].name.version <= v
             /\ slots[i].name.sha \in {slots[i].name.version, Torn}
             /\ slots[i].name.sha # published /\ IsWayBack(slots[i])
             /\ slots[i].name \in Names /\ slots[i].name # slot[p]
  <2>1. slots[i] \in Slots
    BY DEF TypeOK
  <2>2. slots[i].name \in Names
    BY <2>1 DEF Slots
  <2> QED BY <1>0, <1>1, <1>2, <2>2 DEF SlotsInOrder, NoSlotIsLater, Exists, Alone
<1>6. \A i \in 1..Len(slots) : Precedes(slot[p], slots[i].name)
  <2> TAKE i \in 1..Len(slots)
  <2>1. CASE slots[i].name.version = v
    <3>1. slots[i].name = [version |-> v, sha |-> slots[i].name.sha]
          /\ slot[p] = [version |-> v, sha |-> slot[p].sha]
      BY <1>1, <1>5, <2>1 DEF Names
    <3>2. slot[p].sha = Torn => slots[i].name.sha = Torn
      BY <1>0, <1>1, <1>2, <1>5, <2>1, <3>1 DEF NoSlotIsLater, Exists, Named
    <3>3. slot[p].sha = v /\ slots[i].name.sha = Torn
      BY <1>3, <1>5, <2>1, <3>1, <3>2
    <3> QED BY <2>1, <3>1, <3>3 DEF Precedes, Named
  <2>2. CASE slots[i].name.version # v
    BY <1>3, <1>5, <2>2 DEF Precedes
  <2> QED BY <2>1, <2>2
<1>7. /\ Len(slots') = Len(slots) + 1
      /\ slots'[1] = [name |-> slot[p], tree |-> HalfOf(dist)]
      /\ \A i \in 2..Len(slots) + 1 : i - 1 \in 1..Len(slots) /\ slots'[i] = slots[i - 1]
  BY <1>1, <1>2, PutInFront DEF TypeOK
<1>8. ASSUME NEW i \in 1..Len(slots')
      PROVE  /\ slots'[i].name.version \in 1..published /\ slots'[i].name.version <= v
             /\ slots'[i].name.sha \in {slots'[i].name.version, Torn}
             /\ slots'[i].name.sha # published
             /\ i # 1 => IsWayBack(slots'[i])
             /\ i # 1 => i - 1 \in 1..Len(slots) /\ slots'[i] = slots[i - 1]
  <2>1. CASE i = 1
    BY <1>3, <1>4, <1>7, <2>1
  <2>2. CASE i # 1
    <3>1. i - 1 \in 1..Len(slots) /\ slots'[i] = slots[i - 1]
      BY <1>1, <1>7, <2>2
    <3> QED BY <1>5, <2>2, <3>1
  <2> QED BY <2>1, <2>2
<1>9. ASSUME NEW i \in 1..Len(slots'), NEW j \in 1..Len(slots'), i < j
      PROVE  Precedes(slots'[i].name, slots'[j].name)
  <2>1. j - 1 \in 1..Len(slots) /\ slots'[j] = slots[j - 1]
    BY <1>1, <1>7, <1>8, <1>9
  <2>2. CASE i = 1
    BY <1>6, <1>7, <2>1, <2>2
  <2>3. CASE i # 1
    <3>1. i - 1 \in 1..Len(slots) /\ slots'[i] = slots[i - 1] /\ i - 1 < j - 1
      BY <1>1, <1>7, <1>8, <1>9, <2>3
    <3> QED BY <1>0, <2>1, <3>1 DEF SlotsInOrder
  <2> QED BY <2>2, <2>3
<1>10. pc'[p] = "copying" /\ published' = published /\ dist' = dist /\ target' = target
       /\ slot' = slot
  BY DEF TypeOK
<1>11. SlotsInOrder'
  BY ONLY <1>8, <1>9, <1>10, p \in Procs DEF SlotsInOrder, IsWayBack, Precedes, Named
<1>12. \A b \in Builds : b = v \/ b = target[p] =>
         (Exists(Named(b))' => Exists(Named(b)) \/ Named(b) = slot[p])
  <2> SUFFICES ASSUME NEW i \in 1..Len(slots'), NEW b \in Builds, slots'[i].name = Named(b)
               PROVE  Exists(Named(b)) \/ Named(b) = slot[p]
    BY DEF Exists, Named
  <2> QED BY <1>7, <1>8 DEF Exists
<1>13. ~Exists(Named(target[p]))'
  <2>1. Named(target[p]) # slot[p]
    BY <1>4 DEF Named
  <2> QED BY <1>1, <1>2, <1>12, <2>1
<1>14. dist.sha = Torn => ~Exists(Named(v))'
  <2>1. dist.sha = Torn => Named(v) # slot[p]
    BY <1>2, <1>3, ConstantsAssumption DEF Named, ConstantsAssumption
  <2>2. dist.sha = Torn => ~Exists(Named(v))
    BY <1>0, <1>1, <1>2 DEF NoSlotIsLater
  <2> QED BY <1>3, <1>12, <2>1, <2>2
<1>15. NoSlotIsLater'
  <2>1. \A i \in 1..Len(slots') : slots'[i].name.version <= v
    BY <1>8
  <2>2. v <= published
    BY <1>3
  <2>3. \A b \in dist.parts : b = v
    BY <1>2
  <2> QED BY ONLY <1>10, <1>14, <2>1, <2>2, <2>3 DEF NoSlotIsLater, Startable, Exists, Named
<1>16. slots'[1].tree.parts = dist.parts /\ slots'[1].tree.sha = dist.sha
  BY <1>1, <1>7 DEF HalfOf, Trees
<1>17. slots' # <<>> /\ slots'[1].name = slot[p]
  BY <1>1, <1>7
<1>18. MyWayBack(p)'
  BY ONLY <1>2, <1>10, <1>13, <1>16, <1>17
     DEF MyWayBack, NewestIsMine, SaveSteps, BeforeSwap, RestoreSteps, Installing, Named, Exists
<1> QED BY <1>11, <1>15, <1>18, WayBackOfOne

\* The end of the copy completes the newest slot.
LEMMA CopyEndsKeepsOrder ==
  ASSUME Alone, TypeOK, WayBackInv, NEW p \in Procs, Startable,
         pc[p] = "copying", pc' = [pc EXCEPT ![p] = "prune"],
         slots' = Put(slot[p], Copied(SlotTree(slot[p]))),
         UNCHANGED <<published, dist, target, slot>>
  PROVE  WayBackInv'
<1> DEFINE v == slot[p].version
<1>0. SlotsInOrder /\ NoSlotIsLater /\ MyWayBack(p)
  BY DEF WayBackInv
<1>1. slot[p] \in Names /\ dist \in Trees /\ dist.whole /\ Len(slots) \in Nat
  BY DEF TypeOK, Startable
<1>2. /\ dist.parts = {v} /\ slot[p].sha = dist.sha /\ slots # <<>> /\ slots[1].name = slot[p]
      /\ slots[1].tree.parts = dist.parts /\ slots[1].tree.sha = dist.sha
      /\ target[p] <= published /\ ~Exists(Named(target[p]))
      /\ \A build \in dist.parts : build <= target[p]
  BY <1>0 DEF MyWayBack, SaveSteps, NewestIsMine, Installing, BeforeSwap
<1>3. 1 \in 1..Len(slots)
  BY <1>1, <1>2 DEF TypeOK
<1>4. SlotTree(slot[p]) = slots[1].tree /\ Exists(slot[p])
  BY <1>0, <1>2, NewestTree
<1>5. SlotTree(slot[p]) \in Trees
  BY <1>4, SlotTreeType DEF TypeOK
<1> DEFINE full == Copied(SlotTree(slot[p]))
<1>6. full.whole /\ full.parts = {v} /\ full.sha = slot[p].sha
  BY <1>1, <1>2, <1>4, <1>5, CopiedWhole
<1>7. /\ Len(slots') = Len(slots)
      /\ slots'[1] = [name |-> slot[p], tree |-> full]
      /\ \A i \in 2..Len(slots) : slots'[i] = slots[i]
  BY <1>0, <1>2, PutOnNewest
<1>8. ASSUME NEW i \in 1..Len(slots) PROVE slots'[i].name = slots[i].name /\ IsWayBack(slots'[i])
  <2>1. CASE i = 1
    BY <1>2, <1>6, <1>7, <2>1 DEF IsWayBack
  <2>2. CASE i # 1
    BY <1>0, <1>1, <1>7, <2>2 DEF SlotsInOrder
  <2> QED BY <2>1, <2>2
<1>9. pc'[p] = "prune" /\ published' = published /\ dist' = dist /\ target' = target
      /\ slot' = slot
  BY DEF TypeOK
<1>10. SlotsInOrder'
  BY ONLY <1>0, <1>7, <1>8, <1>9 DEF SlotsInOrder, IsWayBack, Precedes, Named
<1>11. \A name : Exists(name)' <=> Exists(name)
  BY ONLY <1>7, <1>8 DEF Exists
<1>12. NoSlotIsLater'
  BY ONLY <1>0, <1>7, <1>8, <1>9, <1>11 DEF NoSlotIsLater, Startable, Exists, Named
<1>13. slots' # <<>> /\ slots'[1].name = slot[p]
  BY <1>1, <1>3, <1>7
<1>14. ~Exists(Named(target[p]))'
  BY <1>2, <1>11
<1>15. MyWayBack(p)'
  BY ONLY <1>2, <1>9, <1>13, <1>14
     DEF MyWayBack, NewestIsMine, SaveSteps, BeforeSwap, RestoreSteps, Installing, Named, Exists
<1> QED BY <1>10, <1>12, <1>15, WayBackOfOne

\* Pruning removes the oldest slots.
LEMMA PruneKeepsOrder ==
  ASSUME Alone, TypeOK, WayBackInv, NEW p \in Procs, pc[p] = "prune",
         pc' = [pc EXCEPT ![p] = "extract"], slots' = SubSeq(slots, 1, MaxSlots),
         Len(slots) > MaxSlots, UNCHANGED <<published, dist, target, slot>>
  PROVE  WayBackInv'
<1>0. SlotsInOrder /\ NoSlotIsLater /\ MyWayBack(p)
  BY DEF WayBackInv
<1>1. /\ Len(slots') = MaxSlots /\ MaxSlots \in Nat /\ 1 \in 1..MaxSlots
      /\ \A i \in 1..MaxSlots : i \in 1..Len(slots) /\ slots'[i] = slots[i]
  BY ConstantsAssumption DEF TypeOK, ConstantsAssumption
<1>2. \A i \in 1..MaxSlots : IsWayBack(slots'[i])
  BY <1>0, <1>1 DEF SlotsInOrder, Alone
<1>3. pc'[p] = "extract" /\ published' = published /\ dist' = dist /\ target' = target
      /\ slot' = slot
  BY DEF TypeOK
<1>4. SlotsInOrder'
  <2>1. ASSUME NEW i \in 1..Len(slots')
        PROVE  /\ slots'[i].name.version \in 1..published
               /\ slots'[i].name.sha \in {slots'[i].name.version, Torn}
               /\ slots'[i].name.sha # published /\ IsWayBack(slots'[i])
    BY ONLY <1>0, <1>1, <1>2, <2>1 DEF SlotsInOrder
  <2>2. ASSUME NEW i \in 1..Len(slots'), NEW j \in 1..Len(slots'), i < j
        PROVE  Precedes(slots'[i].name, slots'[j].name)
    BY ONLY <1>0, <1>1, <2>2 DEF SlotsInOrder
  <2> QED BY ONLY <2>1, <2>2, <1>3 DEF SlotsInOrder, IsWayBack, Precedes, Named
<1>5. \A name : Exists(name)' => Exists(name)
  BY ONLY <1>1 DEF Exists
<1>6. NoSlotIsLater'
  BY ONLY <1>0, <1>1, <1>3, <1>5 DEF NoSlotIsLater, Startable, Exists, Named
<1>7. /\ dist.parts = {slot[p].version} /\ slot[p].sha = dist.sha
      /\ slots[1].name = slot[p] /\ target[p] <= published /\ ~Exists(Named(target[p]))
      /\ \A build \in dist.parts : build <= target[p]
  BY <1>0 DEF MyWayBack, SaveSteps, NewestIsMine, Installing, BeforeSwap
<1>8. slots' # <<>> /\ slots'[1].name = slot[p]
  BY ONLY <1>1, <1>7
<1>9. ~Exists(Named(target[p]))'
  BY <1>5, <1>7
<1>10. MyWayBack(p)'
  BY ONLY <1>3, <1>7, <1>8, <1>9
     DEF MyWayBack, NewestIsMine, SaveSteps, BeforeSwap, RestoreSteps, Installing, Named, Exists
<1> QED BY <1>4, <1>6, <1>10, WayBackOfOne

\* A step that changes no slot keeps the invariant if it keeps what it says of dist/ and of
\* the process.
LEMMA SlotsStay ==
  ASSUME Alone, TypeOK, WayBackInv, NEW p \in Procs, pc[p] # "copying",
         UNCHANGED <<published, slots>>, NoSlotIsLater', MyWayBack(p)'
  PROVE  WayBackInv'
BY OrderKept, WayBackOfOne

\* The invariant says nothing of dist/ while it is incomplete.
LEMMA TreeStays ==
  ASSUME WayBackInv, UNCHANGED <<published, slots>>,
         \/ dist' = dist
         \/ dist' = Nothing
         \/ ~dist'.whole
         \/ /\ dist # Nothing /\ dist.whole /\ dist'.parts = dist.parts
            /\ dist'.sha # Torn \/ dist'.sha = dist.sha
  PROVE  NoSlotIsLater'
BY DEF WayBackInv, NoSlotIsLater, Startable, Exists, Named

\* It says little of a process that is out of the call.
LEMMA OutOfTheCall ==
  ASSUME TypeOK, NEW p \in Procs, NEW label \in {"up", "off"}, Ends(p, label),
         published' = published
  PROVE  MyWayBack(p)'
<1>1. pc'[p] = label /\ target'[p] = 1
  BY DEF Ends, At, TypeOK
<1>2. 1 <= published'
  BY DEF TypeOK, Builds
<1> QED BY ONLY <1>1, <1>2, label \in {"up", "off"}
        DEF MyWayBack, Installing, BeforeSwap, SaveSteps, RestoreSteps

\* A lone process whose copies are complete keeps its slots in order.
LEMMA WayBackStep ==
  WayBackAssumption /\ TypeOK /\ RecordInv /\ WayBackInv /\ [Next]_vars => WayBackInv'
<1> SUFFICES ASSUME WayBackAssumption, TypeOK, RecordInv, WayBackInv, [Next]_vars
             PROVE  WayBackInv'
  OBVIOUS
<1>a. Alone /\ "halfSlot" \notin Faults
  BY DEF WayBackAssumption
<1>o. SlotsInOrder /\ NoSlotIsLater /\ \A p \in Procs : MyWayBack(p)
  BY DEF WayBackInv
<1>n. \A p \in Procs : target[p] \in Builds /\ target[p] <= published /\ published \in Builds
  BY <1>o DEF MyWayBack, TypeOK
<1>k. \A p \in Procs, label \in PCs :
        /\ At(p, label) => pc'[p] = label
        /\ Goes(p, label) => pc'[p] = label /\ target' = target /\ slot' = slot
  BY DEF At, Goes, TypeOK
<1>1. ASSUME NEW p \in Procs, Check(p) PROVE WayBackInv'
  <2>1. UNCHANGED <<published, dist, slots>> /\ pc[p] # "copying"
    BY <1>1 DEF Check, Start, FetchManifest, ReadLocal, ReadApplied, Ask
  <2>2. CASE \E label \in {"up", "off"} : Ends(p, label)
    BY <1>a, <2>1, <2>2, SlotsStay, TreeStays, OutOfTheCall
  <2>3. CASE Start(p)
    <3>1. pc'[p] = "fetch" /\ target' = target
      BY <2>3, <1>k DEF Start, Goes, PCs, CheckSteps
    <3>2. MyWayBack(p)'
      BY ONLY <1>n, <2>1, <3>1, p \in Procs
         DEF MyWayBack, Installing, BeforeSwap, SaveSteps, RestoreSteps
    <3> QED BY <1>a, <2>1, <3>2, SlotsStay, TreeStays
  <2>4. CASE FetchManifest(p) /\ At(p, "readLocal")
             /\ target' = [target EXCEPT ![p] = published]
    <3>1. pc'[p] = "readLocal" /\ target'[p] = published /\ Startable
      BY <2>4, <1>k DEF FetchManifest, RecordInv, PCs, CheckSteps, TypeOK
    <3>2. ~Exists(Named(target'[p])) /\ \A build \in dist.parts : build <= target'[p]
      <4>1. \A i \in 1..Len(slots) : slots[i].name.sha # published
        BY <1>o DEF SlotsInOrder
      <4>2. ~Exists(Named(published))
        BY <4>1 DEF Exists, Named
      <4> QED BY <1>o, <3>1, <4>2 DEF NoSlotIsLater
    <3>3. MyWayBack(p)'
      BY ONLY <1>n, <2>1, <3>1, <3>2, p \in Procs
         DEF MyWayBack, Installing, BeforeSwap, SaveSteps, RestoreSteps, Exists, Named, TypeOK,
             Builds
    <3> QED BY <1>a, <2>1, <3>3, SlotsStay, TreeStays
  <2>5. CASE \/ pc[p] = "readLocal" /\ Goes(p, "readApplied")
             \/ pc[p] = "readApplied" /\ Goes(p, "ask")
             \/ pc[p] = "ask" /\ Goes(p, "download")
    <3>1. /\ pc[p] \in {"readLocal", "readApplied", "ask"}
          /\ pc'[p] \in {"readApplied", "ask", "download"} /\ target' = target
      BY <2>5, <1>k DEF PCs, CheckSteps
    <3>2. MyWayBack(p) /\ Exists(Named(target[p])) = Exists(Named(target[p]))'
      BY <1>o, <2>1, <3>1 DEF Exists, Named
    <3>3. MyWayBack(p)'
      BY ONLY <2>1, <3>1, <3>2
         DEF MyWayBack, Installing, BeforeSwap, SaveSteps, RestoreSteps
    <3> QED BY <1>a, <2>1, <3>3, SlotsStay, TreeStays
  <2> QED BY <1>1, <2>2, <2>3, <2>4, <2>5 DEF Check, Start, FetchManifest, ReadLocal, ReadApplied, Ask
<1>2. ASSUME NEW p \in Procs, Install(p) PROVE WayBackInv'
  <2>g. ASSUME GivesUp(p), UNCHANGED <<published, slots>>, pc[p] # "copying", NoSlotIsLater'
        PROVE  WayBackInv'
    BY <1>a, <2>g, SlotsStay, OutOfTheCall DEF GivesUp
  <2>1. CASE Download(p) \/ WriteArchive(p) \/ Rehash(p) \/ Extract(p)
    <3>1. UNCHANGED <<published, dist, slots>> /\ pc[p] # "copying"
      BY <2>1 DEF Download, WriteArchive, Rehash, Extract
    <3>2. CASE Ends(p, "up")
      BY <1>a, <3>1, <3>2, SlotsStay, TreeStays, OutOfTheCall
    <3>3. CASE \/ pc[p] = "download" /\ Goes(p, "write")
               \/ pc[p] = "write" /\ Goes(p, "rehash")
               \/ pc[p] = "rehash" /\ Goes(p, "name")
               \/ pc[p] = "extract" /\ Goes(p, "remove")
      <4>1. /\ pc[p] \in {"download", "write", "rehash", "extract"}
            /\ pc'[p] \in {"write", "rehash", "name", "remove"}
            /\ pc'[p] = "remove" => pc[p] = "extract"
            /\ target' = target /\ slot' = slot
        BY <3>3, <1>k DEF PCs, CheckSteps, InstallSteps
      <4>2. MyWayBack(p) /\ Exists(Named(target[p])) = Exists(Named(target[p]))'
        BY <1>o, <3>1, <4>1 DEF Exists, Named
      <4>3. MyWayBack(p)'
        BY ONLY <3>1, <4>1, <4>2
           DEF MyWayBack, Installing, BeforeSwap, SaveSteps, RestoreSteps, NewestIsMine
      <4> QED BY <1>a, <3>1, <4>3, SlotsStay, TreeStays
    <3> QED BY <2>1, <3>2, <3>3 DEF Download, WriteArchive, Rehash, Extract, GivesUp
  <2>2. CASE SaveSlot(p)
    <3>0. pc[p] \in BeforeSwap /\ Startable
      BY <2>2, SavingIsWhole
    <3>d. /\ dist \in Trees /\ dist # Nothing /\ dist.whole /\ OwnHashes(dist)
          /\ dist.sha # Nothing
      BY <3>0 DEF TypeOK, Startable, RecordInv
    <3>m. MyWayBack(p)
      BY <1>o
    <3>1. CASE NameSlot(p)
      <4>1. PICK version \in Versions(dist) :
              slot' = [slot EXCEPT ![p] = [version |-> version, sha |-> dist.sha]]
        BY <3>1, <3>d DEF NameSlot
      <4>2. dist.parts = {version}
        BY <3>d, <4>1 DEF Versions, OwnHashes
      <4>3. /\ pc[p] = "name" /\ pc'[p] = "stat" /\ UNCHANGED <<published, dist, slots, target>>
            /\ slot'[p] = [version |-> version, sha |-> dist.sha]
        BY <3>1, <4>1, <1>k DEF NameSlot, PCs, InstallSteps, TypeOK
      <4>4. Exists(Named(target[p])) = Exists(Named(target[p]))'
        BY <4>3 DEF Exists, Named
      <4>5. MyWayBack(p)'
        BY ONLY <3>m, <4>2, <4>3, <4>4
           DEF MyWayBack, Installing, BeforeSwap, SaveSteps, RestoreSteps
      <4> QED BY <1>a, <4>3, <4>5, SlotsStay, TreeStays
    <3>2. CASE StatSlot(p)
      <4>1. /\ pc[p] = "stat" /\ pc'[p] = IF Exists(slot[p]) THEN "extract" ELSE "copy"
            /\ UNCHANGED <<published, dist, slots, target, slot>>
        BY <3>2, <1>k DEF StatSlot, PCs, InstallSteps
      <4>2. dist.parts = {slot[p].version} /\ slot[p].sha = dist.sha
        BY <3>m, <4>1 DEF MyWayBack, SaveSteps
      <4>3. Exists(slot[p]) => NewestIsMine(p)
        BY <3>0, <3>d, <4>2, InstalledIsNewest
      <4>4. /\ Exists(Named(target[p])) = Exists(Named(target[p]))'
            /\ Exists(slot[p]) = Exists(slot[p])' /\ NewestIsMine(p) = NewestIsMine(p)'
        BY <4>1 DEF Exists, Named, NewestIsMine
      <4>5. MyWayBack(p)'
        BY ONLY <3>m, <4>1, <4>2, <4>3, <4>4
           DEF MyWayBack, Installing, BeforeSwap, SaveSteps, RestoreSteps
      <4> QED BY <1>a, <4>1, <4>5, SlotsStay, TreeStays
    <3>3. CASE CopyBegins(p)
      <4>1. CASE Goes(p, "copying") /\ slots' = Put(slot[p], HalfOf(dist))
        BY ONLY <1>a, TypeOK, RecordInv, WayBackInv, p \in Procs, <3>3, <4>1, CopyBeginsKeepsOrder
           DEF CopyBegins, Goes, At
      <4>2. CASE GivesUp(p) /\ UNCHANGED slots
        BY <3>3, <4>2, <2>g, TreeStays DEF CopyBegins
      <4> QED BY <3>3, <4>1, <4>2 DEF CopyBegins
    <3>4. CASE CopyEnds(p)
      <4>1. pc[p] = "copying" /\ UNCHANGED <<published, dist>>
        BY <3>4 DEF CopyEnds
      <4>2. NewestIsMine(p)
        BY <3>m, <4>1 DEF MyWayBack
      <4>3. Exists(slot[p])
        BY <1>o, <4>2, NewestTree DEF NewestIsMine
      <4>4. slots' = Put(slot[p], Copied(SlotTree(slot[p]))) /\ Goes(p, "prune")
        BY <1>a, <3>4, <3>d, <4>3 DEF CopyEnds
      <4> QED BY ONLY <1>a, TypeOK, WayBackInv, p \in Procs, <3>0, <4>1, <4>4, CopyEndsKeepsOrder
              DEF Goes, At
    <3>5. CASE Prune(p)
      <4>1. pc[p] = "prune" /\ UNCHANGED <<published, dist>>
        BY <3>5 DEF Prune
      <4>2. CASE Len(slots) > MaxSlots /\ slots' = SubSeq(slots, 1, MaxSlots)
                 /\ Goes(p, "extract")
        BY ONLY <1>a, TypeOK, WayBackInv, p \in Procs, <4>1, <4>2, PruneKeepsOrder DEF Goes, At
      <4>3. CASE slots' = slots /\ GivesUp(p)
        BY <4>1, <4>3, <2>g, TreeStays
      <4>4. CASE slots' = slots /\ Goes(p, "extract")
        <5>1. pc'[p] = "extract" /\ UNCHANGED <<target, slot>>
          BY <4>4, <1>k DEF PCs, InstallSteps
        <5>2. Exists(Named(target[p])) = Exists(Named(target[p]))'
          BY <4>4, <5>1 DEF Exists, Named
        <5>3. MyWayBack(p)'
          BY ONLY <3>m, <4>1, <4>4, <5>1, <5>2
             DEF MyWayBack, Installing, BeforeSwap, SaveSteps, RestoreSteps, NewestIsMine
        <5> QED BY <1>a, <4>1, <4>4, <5>3, SlotsStay, TreeStays
      <4> QED BY <1>a, <3>5, <4>2, <4>3, <4>4 DEF Prune
    <3> QED BY <2>2, <3>1, <3>2, <3>3, <3>4, <3>5 DEF SaveSlot
  <2>3. CASE RemoveDist(p)
    <3>0. /\ pc[p] = "remove" /\ dist \in Trees /\ dist # Nothing /\ dist.whole
          /\ OwnHashes(dist) /\ UNCHANGED <<published, slots>>
      BY <2>3 DEF RemoveDist, RecordInv, BeforeSwap, Startable, TypeOK
    <3>1. CASE Goes(p, "rename") /\ dist' = Nothing
      <4>1. pc'[p] = "rename" /\ target' = target
        BY <3>1, <1>k DEF PCs, InstallSteps
      <4>2. PICK v \in Builds : dist.parts = {v}
        BY <3>0 DEF OwnHashes
      <4>3. v <= target[p] /\ ~Exists(Named(target[p]))
        BY <1>o, <3>0, <4>2 DEF MyWayBack, BeforeSwap, Installing
      <4>4. \A i \in 1..Len(slots) : slots[i].name.version <= v /\ slots[i].name.version \in Nat
        BY <1>o, <3>0, <4>2 DEF NoSlotIsLater, SlotsInOrder, Startable, TypeOK, Builds
      <4>5. \A i \in 1..Len(slots) : slots[i].name.version <= target[p]
        BY <1>n, <4>3, <4>4 DEF Builds
      <4>6. MyWayBack(p)'
        BY ONLY <1>n, <3>0, <4>1, <4>3, <4>5, p \in Procs
           DEF MyWayBack, Installing, BeforeSwap, SaveSteps, RestoreSteps, Exists, Named
      <4> QED BY <1>a, <3>0, <3>1, <4>6, SlotsStay, TreeStays
    <3>2. CASE GivesUp(p) /\ dist' \in Interrupted(p)
      <4>1. dist' = dist \/ ~dist'.whole
        BY <3>0, <3>2, InterruptedIs
      <4> QED BY <3>0, <3>2, <4>1, <2>g, TreeStays
    <3> QED BY <2>3, <3>1, <3>2 DEF RemoveDist
  <2>4. CASE Rename(p)
    <3>0. pc[p] = "rename" /\ UNCHANGED <<published, slots>> /\ MyWayBack(p)
      BY <2>4, <1>o DEF Rename
    <3>1. CASE Goes(p, "writeLocal") /\ dist' = Release(target[p])
      <4>1. pc'[p] = "writeLocal" /\ target' = target
        BY <3>1, <1>k DEF PCs, InstallSteps
      <4>2. dist'.parts = {target[p]} /\ dist'.sha # Torn
        BY <3>1, ConstantsAssumption DEF Release, ConstantsAssumption
      <4>3. \A i \in 1..Len(slots) : slots[i].name.version <= target[p]
        BY <3>0 DEF MyWayBack
      <4>4. NoSlotIsLater'
        BY ONLY <1>n, <3>0, <4>2, <4>3, p \in Procs DEF NoSlotIsLater
      <4>5. MyWayBack(p)'
        BY ONLY <1>n, <3>0, <4>1, p \in Procs
           DEF MyWayBack, Installing, BeforeSwap, SaveSteps, RestoreSteps, Exists, Named
      <4> QED BY <1>a, <3>0, <4>4, <4>5, SlotsStay
    <3>2. CASE GivesUp(p) /\ UNCHANGED dist
      BY <3>0, <3>2, <2>g, TreeStays
    <3> QED BY <2>4, <3>1, <3>2 DEF Rename
  <2>5. CASE WriteLocal(p) \/ WriteApplied(p)
    <3>0. /\ pc[p] \in {"writeLocal", "writeApplied"} /\ UNCHANGED <<published, slots>>
          /\ dist \in Trees /\ dist.whole /\ dist # Nothing /\ dist.parts = {target[p]}
          /\ MyWayBack(p) /\ target[p] \in Builds /\ target[p] <= published
      BY <2>5, <1>o, <1>n DEF WriteLocal, WriteApplied, RecordInv, IsBuild, TypeOK
    <3>1. CASE WriteLocal(p) /\ Goes(p, "writeApplied") /\ dist' = [dist EXCEPT !.sha = target[p]]
      <4>1. pc'[p] = "writeApplied" /\ target' = target
        BY <3>1, <1>k DEF PCs, InstallSteps
      <4>2. dist'.parts = dist.parts /\ dist'.sha = target[p]
        BY <3>0, <3>1 DEF Trees
      <4>3. NoSlotIsLater'
        BY <3>0, <4>2, TreeStays, ConstantsAssumption DEF ConstantsAssumption
      <4>4. MyWayBack(p)'
        BY ONLY <3>0, <4>1 DEF MyWayBack, Installing, BeforeSwap, SaveSteps, RestoreSteps
      <4> QED BY <1>a, <3>0, <4>3, <4>4, SlotsStay
    <3>2. CASE WriteApplied(p) /\ Ends(p, "off") /\ dist' = [dist EXCEPT !.applied = target[p]]
      <4>1. dist'.parts = dist.parts /\ dist'.sha = dist.sha
        BY <3>0, <3>2 DEF Trees
      <4> QED BY <1>a, <3>0, <3>2, <4>1, TreeStays, SlotsStay, OutOfTheCall
    <3>3. CASE GivesUp(p) /\ dist' \in Interrupted(p)
      <4>1. CASE pc[p] = "writeLocal" /\ dist' = [dist EXCEPT !.sha = Torn]
        <5>1. dist'.parts = {target[p]}
          BY <3>0, <4>1 DEF Trees
        <5>2. ~Exists(Named(target[p])) /\ NoSlotIsLater /\ Startable
          BY <1>o, <3>0, <4>1 DEF MyWayBack, Installing, Startable
        <5>3. NoSlotIsLater'
          BY ONLY <3>0, <5>1, <5>2 DEF NoSlotIsLater, Exists, Named
        <5> QED BY <3>0, <3>3, <5>3, <2>g
      <4>2. CASE dist' = [dist EXCEPT !.applied = Nothing]
        <5>1. dist'.parts = dist.parts /\ dist'.sha = dist.sha
          BY <3>0, <4>2 DEF Trees
        <5> QED BY <3>0, <3>3, <5>1, <2>g, TreeStays
      <4>3. CASE dist' = dist \/ ~dist'.whole
        BY <3>0, <3>3, <4>3, <2>g, TreeStays
      <4> QED BY <3>3, <4>1, <4>2, <4>3, InterruptedIs
    <3> QED BY <2>5, <3>0, <3>1, <3>2, <3>3 DEF WriteLocal, WriteApplied
  <2> QED BY <1>2, <2>1, <2>2, <2>3, <2>4, <2>5 DEF Install
<1>3. ASSUME NEW p \in Procs, Restore(p) PROVE WayBackInv'
  <2>0. /\ pc[p] \in RestoreSteps \cup {"up"} /\ pc[p] # "copying"
        /\ UNCHANGED <<published, slots>> /\ MyWayBack(p)
    BY <1>3, <1>o DEF Restore, Rollback, CheckEntry, RestoreRemove, RestoreMkdir, RestoreCopy,
                      RestoreSteps
  <2>e. ASSUME \E label \in {"up", "off"} : Ends(p, label), NoSlotIsLater' PROVE WayBackInv'
    BY <1>a, <2>0, <2>e, SlotsStay, OutOfTheCall
  <2>r. ASSUME pc'[p] \in RestoreSteps, target' = target, NewestIsMine(p)', NoSlotIsLater'
        PROVE  WayBackInv'
    <3>1. MyWayBack(p)'
      BY ONLY <1>n, <2>0, <2>r, p \in Procs
         DEF MyWayBack, Installing, BeforeSwap, SaveSteps, RestoreSteps
    <3> QED BY <1>a, <2>0, <2>r, <3>1, SlotsStay
  <2>n. pc[p] # "up" /\ slot' = slot => NewestIsMine(p)'
    BY <2>0 DEF MyWayBack, NewestIsMine, RestoreSteps
  <2>1. CASE Rollback(p)
    <3>1. slots # <<>> /\ slot'[p] = slots[1].name /\ pc'[p] = "entry" /\ target' = target
          /\ UNCHANGED dist
      BY <2>1, <1>k DEF Rollback, PCs, RestoreSteps, TypeOK
    <3>2. NewestIsMine(p)'
      BY <2>0, <3>1 DEF NewestIsMine
    <3> QED BY <2>0, <2>r, <3>1, <3>2, TreeStays DEF RestoreSteps
  <2>2. CASE CheckEntry(p)
    <3>1. UNCHANGED dist /\ pc[p] # "up"
      BY <2>2 DEF CheckEntry
    <3>2. CASE Goes(p, "restoreRemove")
      BY <2>0, <2>n, <2>r, <3>1, <3>2, <1>k, TreeStays DEF PCs, RestoreSteps
    <3>3. CASE Ends(p, "up")
      BY <2>0, <2>e, <3>1, <3>3, TreeStays
    <3> QED BY <2>2, <3>2, <3>3 DEF CheckEntry
  <2>3. CASE RestoreRemove(p)
    <3>1. CASE Goes(p, "restoreMkdir") /\ dist' = Nothing
      BY <2>0, <2>n, <2>r, <2>3, <3>1, <1>k, TreeStays DEF RestoreRemove, PCs, RestoreSteps
    <3>2. CASE Ends(p, "off") /\ dist' \in Interrupted(p)
      <4>1. dist' = dist \/ ~dist'.whole
        BY <2>3, <3>2, InterruptedIs DEF RestoreRemove
      <4> QED BY <2>0, <2>e, <3>2, <4>1, TreeStays
    <3> QED BY <2>3, <3>1, <3>2 DEF RestoreRemove
  <2>4. CASE RestoreMkdir(p)
    <3>1. dist' = dist \/ ~dist'.whole
      BY <2>4 DEF RestoreMkdir, EmptyTree
    <3>2. CASE Goes(p, "restoreCopy")
      BY <2>0, <2>n, <2>r, <2>4, <3>1, <3>2, <1>k, TreeStays DEF RestoreMkdir, PCs, RestoreSteps
    <3>3. CASE Ends(p, "off")
      BY <2>0, <2>e, <3>1, <3>3, TreeStays
    <3> QED BY <2>4, <3>2, <3>3 DEF RestoreMkdir
  <2>5. CASE RestoreCopy(p)
    <3>0. pc[p] = "restoreCopy" /\ Ends(p, "off")
      BY <2>5 DEF RestoreCopy
    <3>1. CASE dist # Nothing /\ dist' = Restored(SlotTree(slot[p]))
      <4>1. slots # <<>> /\ slots[1].name = slot[p] /\ 1 \in 1..Len(slots)
        BY <2>0, <3>0 DEF MyWayBack, NewestIsMine, RestoreSteps, TypeOK
      <4>2. SlotTree(slot[p]) = slots[1].tree /\ Exists(slot[p])
        BY <1>o, <4>1, NewestTree
      <4>3. slots[1].tree \in Trees /\ dist \in Trees
        BY <3>1, <4>2, SlotTreeType DEF TypeOK
      <4>4. IsWayBack(slots[1])
        BY <1>a, <1>o, <3>0, <4>1 DEF SlotsInOrder, Alone
      <4> DEFINE v == slots[1].name.version
      <4>5. dist'.whole => dist'.parts = {v} /\ dist'.sha = slots[1].name.sha
        BY <3>1, <4>2, <4>3, <4>4, RestoredWhole DEF IsWayBack
      <4>6. v <= published /\ \A i \in 1..Len(slots) : slots[i].name.version <= v
        <5>1. v \in 1..published
          BY <1>o, <4>1 DEF SlotsInOrder
        <5>2. ASSUME NEW i \in 1..Len(slots) PROVE slots[i].name.version <= v
          <6>1. CASE i = 1
            BY <5>1, <6>1 DEF TypeOK, Builds
          <6>2. CASE i # 1
            <7>1. 1 < i
              BY <6>2 DEF TypeOK
            <7>2. v >= slots[i].name.version
              BY <1>o, <4>1, <7>1, PrecedesIsStrict
            <7> QED BY <7>2, <5>1, <1>o DEF SlotsInOrder, TypeOK, Builds
          <6> QED BY <6>1, <6>2
        <5> QED BY <5>1, <5>2 DEF TypeOK, Builds
      <4>7. slots[1].name.sha = Torn => ~Exists(Named(v))
        <5> SUFFICES ASSUME slots[1].name.sha = Torn, NEW i \in 1..Len(slots),
                            slots[i].name = Named(v)
                     PROVE  FALSE
          BY DEF Exists
        <5>1. v \in Builds /\ v # Torn
          BY <1>o, <4>1, ConstantsAssumption
             DEF SlotsInOrder, TypeOK, Builds, ConstantsAssumption
        <5>2. i # 1
          BY <5>1 DEF Named
        <5>3. 1 < i
          BY <5>2 DEF TypeOK
        <5>4. Precedes(slots[1].name, slots[i].name)
          BY <1>o, <4>1, <5>3 DEF SlotsInOrder
        <5> QED BY <5>1, <5>4, ConstantsAssumption
                DEF Precedes, Named, ConstantsAssumption, Builds
      <4>8. NoSlotIsLater'
        BY ONLY <2>0, <4>5, <4>6, <4>7 DEF NoSlotIsLater, Startable, Exists, Named
      <4> QED BY <2>e, <3>0, <4>8
    <3>2. CASE dist' \in Interrupted(p)
      <4>1. dist' = dist \/ ~dist'.whole
        BY <3>0, <3>2, InterruptedIs
      <4> QED BY <2>0, <2>e, <3>0, <4>1, TreeStays
    <3> QED BY <2>5, <3>1, <3>2 DEF RestoreCopy
  <2> QED BY <1>3, <2>1, <2>2, <2>3, <2>4, <2>5 DEF Restore
<1>4. ASSUME NEW p \in Procs, Quit(p) \/ Crash(p) PROVE WayBackInv'
  <2>1. pc[p] # "copying" /\ UNCHANGED <<published, slots>> /\ Ends(p, "off")
    BY <1>4, <1>a DEF Quit, Crash
  <2>2. dist' \in Interrupted(p)
    BY <1>4 DEF Quit, Crash, Interrupted
  <2>3. CASE pc[p] = "writeLocal" /\ dist # Nothing /\ dist' = [dist EXCEPT !.sha = Torn]
    <3>1. dist \in Trees /\ dist.whole /\ dist.parts = {target[p]} /\ ~Exists(Named(target[p]))
      BY <1>o, <2>3 DEF RecordInv, IsBuild, TypeOK, MyWayBack, Installing
    <3>2. dist'.parts = {target[p]}
      BY <2>3, <3>1 DEF Trees
    <3>3. NoSlotIsLater'
      BY ONLY <1>o, <2>1, <2>3, <3>1, <3>2 DEF NoSlotIsLater, Startable, Exists, Named
    <3> QED BY <1>a, <2>1, <3>3, SlotsStay, OutOfTheCall
  <2>4. CASE pc[p] = "writeApplied" /\ dist # Nothing /\ dist' = [dist EXCEPT !.applied = Nothing]
    <3>1. dist \in Trees /\ dist.whole
      BY <2>4 DEF RecordInv, IsBuild, TypeOK
    <3>2. dist'.parts = dist.parts /\ dist'.sha = dist.sha
      BY <2>4, <3>1 DEF Trees
    <3> QED BY <1>a, <2>1, <2>4, <3>1, <3>2, TreeStays, SlotsStay, OutOfTheCall
  <2>5. CASE dist' = dist \/ ~dist'.whole
    BY <1>a, <2>1, <2>5, TreeStays, SlotsStay, OutOfTheCall
  <2> QED BY <2>2, <2>3, <2>4, <2>5, InterruptedIs
<1>5. CASE Publish
  <2>1. /\ published' \in Builds /\ published' > published
        /\ UNCHANGED <<dist, archives, slots, pc, target, slot>>
    BY <1>5 DEF Publish
  <2>2. published \in Nat /\ published' \in Nat /\ \A p \in Procs : target[p] \in Nat
    BY <2>1 DEF TypeOK, Builds
  <2>3. SlotsInOrder'
    <3>1. ASSUME NEW i \in 1..Len(slots)
          PROVE  /\ slots[i].name.version \in 1..published' /\ slots[i].name.sha # published'
      <4>1. /\ slots[i].name.version \in 1..published
            /\ slots[i].name.sha \in {slots[i].name.version, Torn}
        BY <1>o DEF SlotsInOrder
      <4>2. Torn # published'
        BY <2>1, ConstantsAssumption DEF ConstantsAssumption
      <4> QED BY <2>1, <2>2, <4>1, <4>2
    <3> QED BY ONLY <1>o, <2>1, <3>1 DEF SlotsInOrder, IsWayBack, Precedes, Named
  <2>4. NoSlotIsLater'
    <3>1. ASSUME NEW build \in dist.parts, Startable PROVE build <= published'
      <4>1. build <= published /\ build \in Nat
        BY <1>o, <3>1 DEF NoSlotIsLater, Startable, TypeOK, Trees, Builds
      <4> QED BY <2>1, <2>2, <4>1
    <3> QED BY ONLY <1>o, <2>1, <3>1 DEF NoSlotIsLater, Startable, Exists, Named
  <2>5. ASSUME NEW p \in Procs PROVE MyWayBack(p)'
    <3>1. target[p] <= published'
      BY <1>n, <2>1, <2>2
    <3> QED BY ONLY <1>o, <2>1, <3>1, p \in Procs
            DEF MyWayBack, Exists, Named, NewestIsMine
  <2> QED BY <2>3, <2>4, <2>5 DEF WayBackInv
<1>6. CASE UNCHANGED vars
  BY ONLY <1>6, WayBackInv
     DEF vars, WayBackInv, SlotsInOrder, NoSlotIsLater, MyWayBack, Startable, Exists, Named,
         NewestIsMine, IsWayBack, Precedes
<1> QED BY <1>1, <1>2, <1>3, <1>4, <1>5, <1>6 DEF Next

\* A lone process keeps its slots in the order of the releases, whenever it dies.
LEMMA WayBackCorrect ==
  ASSUME WayBackAssumption
  PROVE  Spec => []WayBackInv
<1>1. ASSUME Init PROVE WayBackInv
  <2>1. dist.parts = {1} /\ published \in Builds /\ Len(slots) = 0 /\ 1 \in Builds
    BY <1>1, ConstantsAssumption DEF Init, Release, Builds, ConstantsAssumption
  <2>2. SlotsInOrder
    BY <2>1 DEF SlotsInOrder
  <2>3. NoSlotIsLater
    <3> SUFFICES ASSUME NEW build \in dist.parts
                 PROVE  /\ build <= published
                        /\ \A i \in 1..Len(slots) : slots[i].name.version <= build
                        /\ ~Exists(Named(build))
      BY DEF NoSlotIsLater
    <3>1. ~ \E i \in 1..Len(slots) : TRUE
      BY <2>1
    <3>2. build <= published
      BY <2>1 DEF Builds
    <3>3. ~Exists(Named(build))
      BY ONLY <3>1 DEF Exists
    <3> QED BY <3>1, <3>2, <3>3
  <2>4. \A p \in Procs : pc[p] = "off" /\ target[p] <= published
    <3>1. pc = [p \in Procs |-> "off"] /\ target = [p \in Procs |-> 1]
      BY <1>1 DEF Init
    <3>2. 1 <= published
      BY <2>1 DEF Builds
    <3> QED BY ONLY <3>1, <3>2
  <2>5. \A p \in Procs : MyWayBack(p)
    BY ONLY <2>4 DEF MyWayBack, Installing, BeforeSwap, SaveSteps, RestoreSteps
  <2> QED BY <2>2, <2>3, <2>5 DEF WayBackInv
<1>2. TypeOK /\ RecordInv /\ WayBackInv /\ [Next]_vars => WayBackInv'
  BY WayBackStep
<1>3. Spec => []RecordInv
  BY RecordCorrect DEF WayBackAssumption
<1> QED BY <1>1, <1>2, <1>3, TypeCorrect, PTL DEF Spec

\* The slot a rollback takes is a complete copy of the build that an update replaces.
THEOREM NewestSlotIsReplacedCorrect ==
  ASSUME WayBackAssumption
  PROVE  Spec => NewestSlotIsReplaced
<1> DEFINE Saved == \A p \in Procs :
             pc[p] = "remove" /\ pc'[p] = "rename" /\ Startable
               => slots # <<>> /\ slots[1].tree.whole /\ slots[1].tree.parts = dist.parts
<1>1. TypeOK /\ WayBackInv => Saved
  <2> SUFFICES ASSUME TypeOK, WayBackInv, NEW p \in Procs, pc[p] = "remove", Startable
               PROVE  slots # <<>> /\ slots[1].tree.whole /\ slots[1].tree.parts = dist.parts
    OBVIOUS
  <2>1. slots # <<>> /\ slots[1].name = slot[p] /\ dist.parts = {slot[p].version}
    BY DEF WayBackInv, MyWayBack, NewestIsMine
  <2>2. 1 \in 1..Len(slots)
    BY <2>1 DEF TypeOK
  <2>3. \A q \in Procs : pc[q] # "copying"
    BY DEF WayBackAssumption, Alone
  <2> QED BY <2>1, <2>2, <2>3 DEF WayBackInv, SlotsInOrder, IsWayBack
<1>2. Spec => []WayBackInv
  BY WayBackCorrect
<1> QED BY <1>1, <1>2, TypeCorrect, PTL DEF NewestSlotIsReplaced

=============================================================================
