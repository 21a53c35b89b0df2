---------------------------- MODULE DownloadProofs ----------------------------
(***************************************************************************)
(* Proofs about Download: type correctness in every configuration, the     *)
(* whole file under its own name when its hash is known, and without the   *)
(* hash the whole file, the truth of the record and no range fetched twice *)
(* where the assumption Plain holds.                                       *)
(***************************************************************************)
EXTENDS Download, FiniteSetTheorems, TLAPS

-----------------------------------------------------------------------------
(* Types.                                                                  *)

\* The names of the sets are distinct things: no file is absent.
LEMMA AbsentIsNone ==
  ASSUME NEW f \in Files PROVE f # Absent
  BY ConstantsAssumption

\* The locals after a call are typed.
LEMMA EndsTyped ==
  ASSUME Ends
  PROVE /\ pc' \in PCs /\ server' \in AllServers /\ retried' \in BOOLEAN
        /\ done' \in SUBSET Segments /\ flight' \in [Segments -> Stages] /\ received' \in 0..Size
        /\ pc' = "idle"
<1>1. NoFlight \in [Segments -> Stages]
  BY DEF NoFlight, Stages
<1>2. 0 \in 0..Size
  BY ConstantsAssumption
<1> QED
  BY <1>1, <1>2 DEF Ends, PCs, AllServers

\* A stage of one range changes within the type.
LEMMA MovesTyped ==
  ASSUME flight \in [Segments -> Stages], NEW s \in Segments, NEW stage \in Stages, Moves(s, stage)
  PROVE flight' \in [Segments -> Stages]
  BY DEF Moves

\* The first state is typed.
LEMMA TypeInit == Init => TypeInv
<1>1. NoFlight \in [Segments -> Stages]
  BY DEF NoFlight, Stages
<1>2. 0 \in 0..Size
  BY ConstantsAssumption
<1> QED
  BY <1>1, <1>2 DEF Init, TypeInv, TypeOK, PartInUse, PCs, AllServers

\* Every step keeps the types and the .part file that is in use.
LEMMA TypeStep == TypeInv /\ [Next]_vars => TypeInv'
<1> SUFFICES ASSUME TypeInv, [Next]_vars PROVE TypeInv'
  OBVIOUS
<1> USE ConstantsAssumption
<1>t. TypeOK /\ PartInUse
  BY DEF TypeInv
<1>1. CASE Start
  BY <1>1, <1>t DEF Start, TypeInv, TypeOK, PartInUse, PCs, disk
<1>2. CASE Look
  <2>1. CASE Ends /\ UNCHANGED disk
    BY <2>1, <1>t, EndsTyped DEF TypeInv, TypeOK, PartInUse, disk
  <2>2. CASE Finished /\ Goes(Checks) /\ UNCHANGED disk
    <3>1. part # Absent
      BY <2>2 DEF Finished, HashVouches, SizeOf
    <3> QED
      BY <2>2, <3>1, <1>t DEF TypeInv, TypeOK, PartInUse, PCs, disk, call, Goes, Checks
  <2>3. CASE Goes("open") /\ UNCHANGED disk
    BY <2>3, <1>t DEF TypeInv, TypeOK, PartInUse, PCs, disk, call, Goes
  <2> QED
    BY <1>2, <2>1, <2>2, <2>3 DEF Look
<1>3. CASE Open
  <2>1. CASE Ends /\ UNCHANGED disk
    BY <2>1, <1>t, EndsTyped DEF TypeInv, TypeOK, PartInUse, disk
  <2>2. CASE /\ Goes(IF server = "ranges" THEN "load" ELSE "request")
             /\ part' = IF part = Absent THEN [size |-> 0, right |-> {}] ELSE part
             /\ UNCHANGED <<final, record>>
    <3>1. part' \in Files /\ part' # Absent
      BY <2>2, <1>t, AbsentIsNone DEF TypeOK, Files
    <3> QED
      BY <2>2, <3>1, <1>t DEF TypeInv, TypeOK, PartInUse, PCs, call, Goes
  <2> QED
    BY <1>3, <2>1, <2>2 DEF Open, disk
<1>4. CASE Load
  <2>1. CASE Ends /\ UNCHANGED disk
    BY <2>1, <1>t, EndsTyped DEF TypeInv, TypeOK, PartInUse, disk
  <2>2. CASE /\ pc' = "fetching"
             /\ done' = IF record = Absent THEN {} ELSE record.ranges
             /\ flight' = [s \in Segments |-> IF s \in done' THEN "saved" ELSE "todo"]
             /\ part' = Truncated(part)
             /\ UNCHANGED <<final, record, server, retried, received>>
    <3>1. part' \in Files /\ part' # Absent
      BY <2>2, <1>4, <1>t, AbsentIsNone DEF Load, TypeOK, PartInUse, Files, Truncated
    <3>2. done' \in SUBSET Segments /\ flight' \in [Segments -> Stages]
      BY <2>2, <1>t DEF TypeOK, Records, Stages
    <3> QED
      BY <2>2, <3>1, <3>2, <1>t DEF TypeInv, TypeOK, PartInUse, PCs
  <2> QED
    BY <1>4, <2>1, <2>2 DEF Load, disk
<1>5. ASSUME NEW s \in Segments, Ask(s) PROVE TypeInv'
  BY <1>5, <1>t, MovesTyped DEF Ask, TypeInv, TypeOK, PartInUse, disk, Stages
<1>6. ASSUME NEW s \in Segments, Arrives(s) PROVE TypeInv'
  <2>1. flight' \in [Segments -> Stages]
    BY <1>6, <1>t, MovesTyped DEF Arrives, TypeOK, Stages
  <2>2. part' \in Files
    BY <1>6, <1>t DEF Arrives, TypeOK, PartInUse, Files
  <2> QED
    BY <1>6, <1>t, <2>1, <2>2, AbsentIsNone DEF Arrives, TypeInv, TypeOK, PartInUse
<1>7. ASSUME NEW s \in Segments, Save(s) PROVE TypeInv'
  <2>1. flight' \in [Segments -> Stages]
    BY <1>7, <1>t, MovesTyped DEF Save, TypeOK, Stages
  <2>2. done' \in SUBSET Segments /\ record' \in Records \cup {Absent}
    BY <1>7, <1>t DEF Save, TypeOK, Records
  <2> QED
    BY <1>7, <1>t, <2>1, <2>2 DEF Save, TypeInv, TypeOK, PartInUse
<1>8. CASE Settle
  <2>1. CASE Ends
    BY <1>8, <2>1, <1>t, EndsTyped DEF Settle, TypeInv, TypeOK, PartInUse, disk
  <2>2. CASE Goes(Checks)
    BY <1>8, <2>2, <1>t DEF Settle, TypeInv, TypeOK, PartInUse, PCs, disk, call, Goes, Checks
  <2> QED
    BY <1>8, <2>1, <2>2 DEF Settle
<1>9. CASE Single
  <2>1. CASE Ends /\ UNCHANGED disk
    BY <2>1, <1>t, EndsTyped DEF TypeInv, TypeOK, PartInUse, disk
  <2>2. CASE pc = "request" /\ Goes("streaming") /\ UNCHANGED disk
    BY <2>2, <1>t DEF TypeInv, TypeOK, PartInUse, PCs, disk, call, Goes
  <2>3. CASE /\ pc = "streaming" /\ received < Size
             /\ part' = Appended(part, received + 1)
             /\ received' = received + 1
             /\ UNCHANGED <<final, record, pc, server, retried, done, flight>>
    <3>1. part \in Files /\ received + 1 \in Segments
      BY <2>3, <1>t DEF TypeOK, PartInUse, Segments
    <3>2. part' \in Files
      BY <2>3, <3>1 DEF Appended, Files, Segments
    <3> QED
      BY <2>3, <3>1, <3>2, <1>t, AbsentIsNone DEF TypeInv, TypeOK, PartInUse, Segments
  <2>4. CASE pc = "streaming" /\ Goes(Checks) /\ UNCHANGED disk
    BY <2>4, <1>t DEF TypeInv, TypeOK, PartInUse, PCs, disk, call, Goes, Checks
  <2> QED
    BY <1>9, <2>1, <2>2, <2>3, <2>4 DEF Single, Request, Chunk, BodyEnds, disk
<1>10. CASE Verify
  <2>1. CASE Ends /\ UNCHANGED disk
    BY <2>1, <1>t, EndsTyped DEF TypeInv, TypeOK, PartInUse, disk
  <2>2. CASE Goes("move") /\ UNCHANGED disk
    BY <1>10, <2>2, <1>t DEF Verify, TypeInv, TypeOK, PartInUse, PCs, disk, call, Goes
  <2>3. CASE Goes("discard") /\ part' = Absent /\ UNCHANGED <<final, record>>
    BY <2>3, <1>t DEF TypeInv, TypeOK, PartInUse, PCs, call, Goes
  <2> QED
    BY <1>10, <2>1, <2>2, <2>3 DEF Verify, disk
<1>11. CASE Discard
  <2>1. record' \in Records \cup {Absent}
    BY <1>11, <1>t DEF Discard, Cleared, TypeOK
  <2>2. CASE Ends
    BY <1>11, <2>1, <2>2, <1>t, EndsTyped DEF Discard, TypeInv, TypeOK, PartInUse
  <2>3. CASE ~retried
    BY <1>11, <2>1, <2>3, <1>t
    DEF Discard, TypeInv, TypeOK, PartInUse, PCs, NoFlight, Stages
  <2> QED
    BY <1>11, <2>2, <2>3 DEF Discard
<1>12. CASE Move
  <2>1. CASE Ends /\ UNCHANGED disk
    BY <2>1, <1>t, EndsTyped DEF TypeInv, TypeOK, PartInUse, disk
  <2>2. CASE /\ Goes(IF CrossFs THEN "remove" ELSE "clear")
             /\ final' = part
             /\ part' = IF CrossFs THEN part ELSE Absent
             /\ UNCHANGED record
    BY <1>12, <2>2, <1>t DEF Move, TypeInv, TypeOK, PartInUse, PCs, call, Goes
  <2> QED
    BY <1>12, <2>1, <2>2 DEF Move, disk
<1>13. CASE Remove
  <2>1. CASE Ends /\ UNCHANGED disk
    BY <2>1, <1>t, EndsTyped DEF TypeInv, TypeOK, PartInUse, disk
  <2>2. CASE Goes("clear") /\ part' = Absent /\ UNCHANGED <<final, record>>
    BY <2>2, <1>t DEF TypeInv, TypeOK, PartInUse, PCs, call, Goes
  <2> QED
    BY <1>13, <2>1, <2>2 DEF Remove, disk
<1>14. CASE Clear
  BY <1>14, <1>t, EndsTyped DEF Clear, Cleared, TypeInv, TypeOK, PartInUse
<1>15. CASE Delete
  BY <1>15, <1>t DEF Delete, TypeInv, TypeOK, PartInUse, call
<1>16. CASE Crash
  BY <1>16, <1>t, EndsTyped DEF Crash, TypeInv, TypeOK, PartInUse, disk
<1>17. CASE UNCHANGED vars
  BY <1>17, <1>t DEF vars, disk, call, TypeInv, TypeOK, PartInUse
<1> QED
  BY <1>1, <1>2, <1>3, <1>4, <1>5, <1>6, <1>7, <1>8, <1>9, <1>10, <1>11, <1>12, <1>13, <1>14,
     <1>15, <1>16, <1>17 DEF Next, Call, Ranges

\* Every variable keeps its type, on any server and with any fault.
THEOREM TypeCorrect == Spec => []TypeOK
<1>1. TypeInv => TypeOK
  BY DEF TypeInv
<1> QED
  BY TypeInit, TypeStep, <1>1, PTL DEF Spec

-----------------------------------------------------------------------------
(* With the publisher's hash.                                              *)

\* A lone verification is enough: what is moved has been verified, and nothing touches it since.
LEMMA CheckedStep == Hashed /\ TypeInv /\ CheckedInv /\ [Next]_vars => CheckedInv'
<1> SUFFICES ASSUME Hashed, TypeInv, CheckedInv, [Next]_vars PROVE CheckedInv'
  OBVIOUS
<1> USE DEF CheckedInv, FinalIsWhole
<1>e. ASSUME Ends, UNCHANGED final PROVE CheckedInv'
  BY <1>e DEF Ends
<1>g. ASSUME NEW label \in {"open", "load", "request", "streaming", "verify", "discard", "clear"},
             Goes(label), UNCHANGED final
      PROVE CheckedInv'
  BY <1>g DEF Goes
<1>c. Checks = "verify"
  BY DEF Checks
<1>1. CASE Start
  BY <1>1 DEF Start, disk
<1>2. CASE Look
  BY <1>2, <1>e, <1>g, <1>c DEF Look, disk
<1>3. CASE Open
  BY <1>3, <1>e, <1>g DEF Open
<1>4. CASE Ranges
  <2>1. CASE Load
    BY <2>1, <1>e DEF Load
  <2>2. ASSUME NEW s \in Segments, Ask(s) \/ Arrives(s) \/ Save(s) PROVE CheckedInv'
    BY <2>2 DEF Ask, Arrives, Save, disk
  <2>3. CASE Settle
    BY <2>3, <1>e, <1>g, <1>c DEF Settle, disk
  <2> QED
    BY <1>4, <2>1, <2>2, <2>3 DEF Ranges
<1>5. CASE Single
  <2>1. CASE Request
    BY <2>1, <1>e, <1>g DEF Request, disk
  <2>2. CASE Chunk
    BY <2>2, <1>e DEF Chunk
  <2>3. CASE BodyEnds
    BY <2>3, <1>g, <1>c DEF BodyEnds, disk
  <2> QED
    BY <1>5, <2>1, <2>2, <2>3 DEF Single
<1>6. CASE Verify
  BY <1>6, <1>e DEF Verify, Goes
<1>7. CASE Discard
  BY <1>7, <1>e DEF Discard
<1>8. CASE Move
  BY <1>8, <1>e DEF Move, Goes
<1>9. CASE Remove
  BY <1>9, <1>e, <1>g DEF Remove
<1>10. CASE Clear
  BY <1>10, <1>e DEF Clear
<1>11. CASE Delete
  BY <1>11 DEF Delete, call
<1>12. CASE Crash
  BY <1>12, <1>e DEF Crash, disk
<1>13. CASE UNCHANGED vars
  BY <1>13 DEF vars, disk
<1> QED
  BY <1>1, <1>2, <1>3, <1>4, <1>5, <1>6, <1>7, <1>8, <1>9, <1>10, <1>11, <1>12, <1>13 DEF Next, Call

\* With its hash in hand a model file under its own name is whole, whatever the server answers and
\* whatever dies, fails or is removed (verifyOrDiscard before moveIntoPlace).
THEOREM FinalIsWholeChecked ==
  ASSUME Hashed
  PROVE  Spec => []FinalIsWhole
<1>1. Init => CheckedInv
  BY DEF Init, CheckedInv, FinalIsWhole
<1>2. TypeInv /\ CheckedInv /\ [Next]_vars => CheckedInv'
  BY CheckedStep
<1>3. CheckedInv => FinalIsWhole
  BY DEF CheckedInv
<1> QED
  BY TypeInit, TypeStep, <1>1, <1>2, <1>3, PTL DEF Spec

-----------------------------------------------------------------------------
(* Without the hash, on a server that honours ranges.                      *)

\* A file of full length with every range in it is the whole file.
LEMMA WholeIsGood ==
  ASSUME NEW f \in Files, f.size = Size, Segments \subseteq f.right
  PROVE  f = Good
  BY DEF Files, Good

\* What RangesInv says between calls is what a new call may rely on.
LEMMA EndsInv ==
  ASSUME Ends, FinalIsWhole', RecordIsOnDisk', PartSized', LeftOver'
  PROVE  RangesInv'
  BY DEF Ends, RangesInv, FetchingInv, EndInv

\* A step that leaves the disk alone keeps what RangesInv says of it.
LEMMA DiskInv ==
  ASSUME RangesInv, UNCHANGED disk
  PROVE  FinalIsWhole' /\ RecordIsOnDisk' /\ PartSized' /\ LeftOver'
  BY DEF RangesInv, disk, FinalIsWhole, RecordIsOnDisk, PartSized, LeftOver, Complete

\* A complete record beside a .part file vouches for it.
LEMMA CompleteIsGood ==
  ASSUME TypeInv, RangesInv, record # Absent, Complete, part # Absent
  PROVE  part = Good
<1>1. part \in Files
  BY DEF TypeInv, TypeOK
<1>2. Segments \subseteq part.right
  BY DEF RangesInv, RecordIsOnDisk, Complete
<1>3. 1 \in Segments
  BY ConstantsAssumption DEF Segments
<1>4. part.size = Size
  BY <1>2, <1>3 DEF RangesInv, PartSized
<1> QED
  BY <1>1, <1>2, <1>4, WholeIsGood

\* What Look finds: an end, a finished .part file, or a record that is worth resuming.
LEMMA LookStep ==
  ASSUME Plain, TypeInv, RangesInv, Look
  PROVE  RangesInv'
<1>0. /\ server = "ranges" /\ pc = "look" /\ UNCHANGED disk
      /\ FinalIsWhole' /\ RecordIsOnDisk' /\ PartSized' /\ LeftOver'
  BY DiskInv DEF Look, RangesInv
<1>1. CASE Ends
  BY <1>0, <1>1, EndsInv
<1>2. CASE Sized /\ Finished /\ Goes(Checks)
  <2>1. part # Absent /\ SizeOf(part) >= Size /\ part \in Files
    BY <1>2, ConstantsAssumption DEF Finished, HashVouches, SizeOf, TypeInv, TypeOK
  <2>2. CASE Known /\ Complete
    <3>1. part = Good
      BY <2>1, <2>2, CompleteIsGood DEF Known
    <3> QED
      BY <1>0, <1>2, <2>1, <2>2, <3>1
      DEF RangesInv, FetchingInv, EndInv, Goes, Checks, disk, call, SizeOf, Complete
  <2>3. CASE HashVouches
    <3>1. record = Absent /\ Hashed
      BY <1>2, <2>3 DEF HashVouches, Known
    <3> QED
      BY <1>0, <1>2, <2>1, <3>1
      DEF RangesInv, FetchingInv, EndInv, Goes, Checks, disk, call, SizeOf
  <2> QED
    BY <1>2, <2>2, <2>3 DEF Finished
<1>3. CASE ~(Sized /\ (FinalIsDone \/ Finished)) /\ Goes("open")
  <2>1. Sized
    BY <1>0 DEF Sized
  <2>2. ASSUME record # Absent PROVE part # Absent /\ ~Complete
    <3>1. Known
      BY <2>1, <2>2 DEF Known
    <3>2. ASSUME part = Absent PROVE FALSE
      <4>1. Complete /\ final = Good
        BY <2>2, <3>2 DEF RangesInv, LeftOver
      <4>2. SizeOf(final) >= Size
        <5>1. Good \in Files
          BY <4>1, ConstantsAssumption, TypeInv DEF Good, Files, Segments
        <5> QED
          BY <5>1, <4>1, AbsentIsNone, ConstantsAssumption DEF SizeOf, Good
      <4> QED
        BY <1>3, <2>1, <4>1, <4>2 DEF FinalIsDone
    <3>3. ASSUME Complete PROVE FALSE
      <4>1. part = Good
        BY <2>2, <3>2, <3>3, CompleteIsGood
      <4>2. SizeOf(part) >= Size
        BY <3>2, <4>1, ConstantsAssumption DEF SizeOf, Good
      <4> QED
        BY <1>3, <2>1, <3>1, <3>3, <4>2 DEF Finished
    <3> QED
      BY <3>2, <3>3
  <2> QED
    BY <1>0, <1>3, <2>2 DEF RangesInv, FetchingInv, EndInv, Goes, disk, call, Complete
<1> QED
  BY <1>1, <1>2, <1>3 DEF Look

\* The ranges a call fetches: what is on record stays on disk, and the last one makes the file whole.
LEMMA RangesStep ==
  ASSUME Plain, TypeInv, RangesInv, Ranges
  PROVE  RangesInv'
<1>p. ~RecordMayFail /\ "short" \notin Faults
  BY DEF Plain, RecordMayFail
<1>1. CASE Load
  <2>0. pc = "load" /\ part # Absent /\ part \in Files /\ UNCHANGED <<final, record>>
    BY <1>1 DEF Load, RangesInv, EndInv, TypeInv, TypeOK
  <2>1. CASE Ends /\ UNCHANGED part
    BY <2>0, <2>1, DiskInv, EndsInv DEF disk
  <2>2. CASE /\ pc' = "fetching"
             /\ done' = IF record = Absent THEN {} ELSE record.ranges
             /\ flight' = [s \in Segments |-> IF s \in done' THEN "saved" ELSE "todo"]
             /\ part' = [size |-> Size, right |-> part.right]
             /\ UNCHANGED server
    <3>1. part' # Absent /\ part'.size = Size /\ part'.right = part.right
      <4>1. part' \in Files
        BY <2>0, <2>2, ConstantsAssumption DEF Files
      <4> QED
        BY <2>2, <4>1, AbsentIsNone
    <3>2. record' = [ranges |-> done'] \/ (record' = Absent /\ done' = {})
      BY <2>0, <2>2 DEF TypeInv, TypeOK, Records
    <3>3. \A s \in Segments : flight'[s] = "saved" <=> s \in done'
      BY <2>2
    <3>4. \A s \in Segments : flight'[s] # "written"
      BY <2>2
    <3>5. \A s \in done' : s \in part'.right
      BY <2>0, <2>2, <3>1 DEF RangesInv, RecordIsOnDisk
    <3>6. FinalIsWhole' /\ RecordIsOnDisk' /\ PartSized' /\ LeftOver'
      BY <2>0, <3>1 DEF RangesInv, FinalIsWhole, RecordIsOnDisk, PartSized, LeftOver
    <3>7. FetchingInv'
      BY <3>1, <3>2, <3>3, <3>4, <3>5 DEF FetchingInv, Fetched
    <3> QED
      BY <2>2, <3>6, <3>7 DEF RangesInv, EndInv
  <2> QED
    BY <1>1, <2>1, <2>2 DEF Load, Truncated
<1>2. ASSUME NEW s \in Segments, Ask(s) PROVE RangesInv'
  <2>1. flight' = [flight EXCEPT ![s] = "asked"] /\ flight[s] = "todo" /\ pc = "fetching"
        /\ UNCHANGED <<disk, pc, server, done>>
    BY <1>2 DEF Ask, Moves
  <2>2. \A t \in Segments : flight'[t] \in {"written", "saved"} <=> flight[t] \in {"written", "saved"}
    BY <2>1 DEF TypeInv, TypeOK
  <2>3. \A t \in Segments : flight'[t] = "saved" <=> flight[t] = "saved"
    BY <2>1 DEF TypeInv, TypeOK
  <2>4. FetchingInv'
    BY <2>1, <2>2, <2>3 DEF RangesInv, FetchingInv, Fetched, disk
  <2> QED
    BY <2>1, <2>4, DiskInv DEF RangesInv, EndInv
<1>3. ASSUME NEW s \in Segments, Arrives(s) PROVE RangesInv'
  <2>0. /\ pc = "fetching" /\ part # Absent /\ part \in Files /\ part.size = Size
        /\ flight[s] = "asked" /\ UNCHANGED <<final, record, pc, server, done>>
    BY <1>3 DEF Arrives, RangesInv, FetchingInv, TypeInv, TypeOK
  <2>1. CASE Moves(s, "written") /\ part' = [size |-> part.size, right |-> part.right \cup {s}]
    <3>1. part' # Absent /\ part'.size = Size /\ part'.right = part.right \cup {s}
      <4>1. part' \in Files
        BY <2>0, <2>1 DEF Files
      <4> QED
        BY <2>0, <2>1, <4>1, AbsentIsNone
    <3>2. \A t \in Segments : t # s => flight'[t] = flight[t]
      BY <2>1 DEF Moves, TypeInv, TypeOK
    <3>3. flight'[s] = "written"
      BY <2>1 DEF Moves, TypeInv, TypeOK
    <3>4. FetchingInv'
      BY <2>0, <3>1, <3>2, <3>3 DEF RangesInv, FetchingInv, Fetched
    <3>5. FinalIsWhole' /\ RecordIsOnDisk' /\ PartSized' /\ LeftOver'
      BY <2>0, <3>1 DEF RangesInv, FinalIsWhole, RecordIsOnDisk, PartSized, LeftOver
    <3> QED
      BY <2>0, <3>4, <3>5 DEF RangesInv, EndInv
  <2>2. CASE Moves(s, "failed") /\ UNCHANGED part
    <3>1. \A t \in Segments : flight'[t] \in {"written", "saved"} <=> flight[t] \in {"written", "saved"}
      BY <2>0, <2>2 DEF Moves, TypeInv, TypeOK
    <3>2. \A t \in Segments : flight'[t] = "saved" <=> flight[t] = "saved"
      BY <2>0, <2>2 DEF Moves, TypeInv, TypeOK
    <3>3. FetchingInv'
      BY <2>0, <2>2, <3>1, <3>2 DEF RangesInv, FetchingInv, Fetched
    <3> QED
      BY <2>0, <2>2, <3>3, DiskInv DEF RangesInv, EndInv, disk
  <2> QED
    BY <1>3, <1>p, <2>1, <2>2 DEF Arrives
<1>4. ASSUME NEW s \in Segments, Save(s) PROVE RangesInv'
  <2>0. /\ pc = "fetching" /\ part # Absent /\ part.size = Size /\ Fetched(s)
        /\ flight[s] = "written" /\ flight' = [flight EXCEPT ![s] = "saved"]
        /\ done' = done \cup {s} /\ record' = [ranges |-> done']
        /\ UNCHANGED <<final, part, pc, server>>
    BY <1>4, <1>p DEF Save, Moves, RangesInv, FetchingInv
  <2>1. \A t \in Segments : t # s => flight'[t] = flight[t]
    BY <2>0 DEF TypeInv, TypeOK
  <2>2. flight'[s] = "saved"
    BY <2>0 DEF TypeInv, TypeOK
  <2>3. \A t \in Segments : flight'[t] = "saved" <=> t \in done'
    BY <2>0, <2>1, <2>2 DEF RangesInv, FetchingInv
  <2>4. \A t \in Segments : flight'[t] \in {"written", "saved"} => t \in part'.right
    BY <2>0, <2>1, <2>2 DEF RangesInv, FetchingInv, Fetched
  <2>5. FetchingInv'
    BY <2>0, <2>3, <2>4 DEF FetchingInv, Fetched
  <2>6. \A t \in done' : t \in part'.right
    BY <2>0, <2>3, <2>4 DEF TypeInv, TypeOK
  <2>7. record' # Absent /\ record'.ranges = done'
    BY <2>0, ConstantsAssumption DEF TypeInv, TypeOK, Records
  <2>8. FinalIsWhole' /\ RecordIsOnDisk' /\ PartSized' /\ LeftOver'
    BY <2>0, <2>6, <2>7 DEF RangesInv, FinalIsWhole, RecordIsOnDisk, PartSized, LeftOver
  <2> QED
    BY <2>0, <2>5, <2>8 DEF RangesInv, EndInv
<1>5. CASE Settle
  <2>0. pc = "fetching" /\ part # Absent /\ part \in Files /\ part.size = Size /\ UNCHANGED disk
    BY <1>5 DEF Settle, RangesInv, FetchingInv, TypeInv, TypeOK
  <2>1. CASE Ends
    BY <2>0, <2>1, DiskInv, EndsInv
  <2>2. CASE At("failed") = {} /\ Goes(Checks)
    <3>1. At("todo") = {}
      <4>1. Working = 0
        <5>1. At("asked") \cup At("written") \cup At("failed") = {}
          BY <1>5, <2>2 DEF Settle
        <5> QED
          BY <5>1, FS_EmptySet DEF Working
      <4> QED
        BY <1>5, <4>1, ConstantsAssumption DEF Settle
    <3>2. \A s \in Segments : flight[s] = "saved"
      BY <1>5, <2>2, <3>1 DEF Settle, At, TypeInv, TypeOK, Stages
    <3>3. Segments \subseteq part.right /\ done = Segments
      BY <2>0, <3>2 DEF RangesInv, FetchingInv, Fetched, TypeInv, TypeOK
    <3>4. part = Good
      BY <2>0, <3>3, WholeIsGood
    <3>5. record = Absent \/ Complete
      BY <2>0, <3>3 DEF RangesInv, FetchingInv, Complete
    <3>6. part.size >= Size
      BY <2>0, ConstantsAssumption
    <3> QED
      BY <2>0, <2>2, <3>4, <3>5, <3>6, DiskInv
      DEF RangesInv, FetchingInv, EndInv, Goes, Checks, disk, call, Complete
  <2> QED
    BY <1>5, <2>1, <2>2 DEF Settle
<1> QED
  BY <1>1, <1>2, <1>3, <1>4, <1>5 DEF Ranges

\* Every step keeps RangesInv.
LEMMA RangesInvStep ==
  ASSUME Plain, TypeInv, RangesInv, [Next]_vars
  PROVE  RangesInv'
<1>1. CASE Start
  BY <1>1, DiskInv DEF Start, Plain, RangesInv, FetchingInv, EndInv
<1>2. CASE Look
  BY <1>2, LookStep
<1>3. CASE Open
  <2>1. CASE Ends /\ UNCHANGED disk
    BY <2>1, DiskInv, EndsInv
  <2>2. CASE /\ pc = "open" /\ Goes("load") /\ UNCHANGED <<final, record>>
             /\ part' = IF part = Absent THEN [size |-> 0, right |-> {}] ELSE part
    <3>1. part' # Absent
      <4>1. [size |-> 0, right |-> {}] \in Files
        BY ConstantsAssumption DEF Files
      <4> QED
        BY <2>2, <4>1, AbsentIsNone
    <3>2. part = Absent => record = Absent
      BY <2>2 DEF RangesInv, EndInv
    <3> QED
      BY <2>2, <3>1, <3>2
      DEF RangesInv, FinalIsWhole, RecordIsOnDisk, PartSized, LeftOver, FetchingInv, EndInv, Goes,
          call, Complete
  <2> QED
    BY <1>3, <2>1, <2>2 DEF Open, RangesInv, disk
<1>4. CASE Ranges
  BY <1>4, RangesStep
<1>5. CASE Single
  BY <1>5 DEF Single, Request, Chunk, BodyEnds, RangesInv, EndInv
<1>6. CASE Verify
  <2>1. CASE Ends /\ UNCHANGED disk
    BY <2>1, DiskInv, EndsInv
  <2>2. CASE part = Good /\ Goes("move") /\ UNCHANGED disk
    <3>1. record = Absent \/ Complete
      BY <1>6 DEF Verify, RangesInv, EndInv
    <3> QED
      BY <2>2, <3>1, DiskInv DEF RangesInv, FetchingInv, EndInv, Goes, disk, call, Complete
  <2>3. CASE part # Good /\ Goes("discard") /\ part' = Absent /\ UNCHANGED <<final, record>>
    <3>1. record = Absent
      BY <1>6, <2>3 DEF Verify, RangesInv, EndInv
    <3> QED
      BY <2>3, <3>1
      DEF RangesInv, FinalIsWhole, RecordIsOnDisk, PartSized, LeftOver, FetchingInv, EndInv, Goes, call
  <2> QED
    BY <1>6, <2>1, <2>2, <2>3 DEF Verify, disk
<1>7. CASE Discard
  <2>1. record' = Absent /\ UNCHANGED <<final, part>>
    BY <1>7 DEF Discard, Cleared, Plain, RecordMayFail
  <2>2. FinalIsWhole' /\ RecordIsOnDisk' /\ PartSized' /\ LeftOver'
    BY <2>1 DEF RangesInv, FinalIsWhole, RecordIsOnDisk, PartSized, LeftOver
  <2>3. CASE Ends
    BY <2>2, <2>3, EndsInv
  <2>4. CASE pc' = "look" /\ server' \in Servers
    BY <2>2, <2>4 DEF Plain, RangesInv, FetchingInv, EndInv
  <2> QED
    BY <1>7, <2>3, <2>4 DEF Discard
<1>8. CASE Move
  <2>0. pc = "move" /\ part = Good /\ (record = Absent \/ Complete) /\ UNCHANGED record
    BY <1>8 DEF Move, RangesInv, EndInv
  <2>1. CASE Ends /\ UNCHANGED disk
    BY <2>1, DiskInv, EndsInv
  <2>2. CASE /\ Goes(IF CrossFs THEN "remove" ELSE "clear")
             /\ final' = part
             /\ part' = IF CrossFs THEN part ELSE Absent
    BY <2>0, <2>2
    DEF RangesInv, FinalIsWhole, RecordIsOnDisk, PartSized, LeftOver, FetchingInv, EndInv, Goes,
        call, Complete
  <2> QED
    BY <1>8, <2>1, <2>2 DEF Move, disk
<1>9. CASE Remove
  <2>0. final = Good /\ (record = Absent \/ Complete)
    BY <1>9 DEF Remove, RangesInv, EndInv
  <2>1. CASE Ends /\ UNCHANGED disk
    BY <2>1, DiskInv, EndsInv
  <2>2. CASE Goes("clear") /\ part' = Absent /\ UNCHANGED <<final, record>>
    BY <2>0, <2>2
    DEF RangesInv, FinalIsWhole, RecordIsOnDisk, PartSized, LeftOver, FetchingInv, EndInv, Goes,
        call, Complete
  <2> QED
    BY <1>9, <2>1, <2>2 DEF Remove, disk
<1>10. CASE Clear
  <2>1. record' = Absent /\ UNCHANGED <<final, part>> /\ Ends
    BY <1>10 DEF Clear, Cleared, Plain, RecordMayFail
  <2> QED
    BY <2>1, EndsInv DEF RangesInv, FinalIsWhole, RecordIsOnDisk, PartSized, LeftOver
<1>11. CASE Delete
  BY <1>11 DEF Delete, Plain
<1>12. CASE Crash
  BY <1>12, DiskInv, EndsInv DEF Crash
<1>13. CASE UNCHANGED vars
  <2>1. UNCHANGED disk /\ UNCHANGED <<pc, server, done, flight>>
    BY <1>13 DEF vars, call
  <2>2. FetchingInv'
    BY <2>1 DEF RangesInv, FetchingInv, Fetched, disk
  <2>3. EndInv'
    BY <2>1 DEF RangesInv, EndInv, disk, Complete
  <2> QED
    BY <2>1, <2>2, <2>3, DiskInv DEF RangesInv
<1> QED
  BY <1>1, <1>2, <1>3, <1>4, <1>5, <1>6, <1>7, <1>8, <1>9, <1>10, <1>11, <1>12, <1>13 DEF Next, Call

\* RangesInv holds from the start, of any number of calls, connections and ranges.
LEMMA RangesInvHolds ==
  ASSUME Plain
  PROVE  Spec => []RangesInv
<1>1. Init => RangesInv
  BY DEF Init, RangesInv, FinalIsWhole, RecordIsOnDisk, PartSized, LeftOver, FetchingInv, EndInv
<1>2. TypeInv /\ RangesInv /\ [Next]_vars => RangesInv'
  BY RangesInvStep
<1> QED
  BY TypeInit, TypeStep, <1>1, <1>2, PTL DEF Spec

\* Without a hash, too, a model file under its own name is whole, whatever died or failed in the
\* calls before: the record, and not the length, says what is finished (downloadFile).
THEOREM FinalIsWholeUnchecked ==
  ASSUME Plain
  PROVE  Spec => []FinalIsWhole
<1>1. RangesInv => FinalIsWhole
  BY DEF RangesInv
<1> QED
  BY <1>1, RangesInvHolds, PTL

\* A range on record is in the .part file beside it, in every crash (recordRange).
THEOREM RecordIsOnDiskCorrect ==
  ASSUME Plain
  PROVE  Spec => []RecordIsOnDisk
<1>1. RangesInv => RecordIsOnDisk
  BY DEF RangesInv
<1> QED
  BY <1>1, RangesInvHolds, PTL

\* No call fetches a range that is on record (partitionRanges).
THEOREM NoRangeTwiceCorrect ==
  ASSUME Plain
  PROVE  Spec => NoRangeTwice
<1> DEFINE Fresh == \A s \in Segments :
             flight'[s] = "asked" /\ flight[s] # "asked" /\ record # Absent => s \notin record.ranges
<1>1. TypeInv /\ RangesInv /\ [Next]_vars => [Fresh]_vars
  <2> SUFFICES ASSUME TypeInv, RangesInv, Next, NEW s \in Segments,
                      flight'[s] = "asked", flight[s] # "asked", record # Absent
               PROVE  s \notin record.ranges
    OBVIOUS
  <2>e. ~Ends
    BY DEF Ends, NoFlight
  <2>f. ~UNCHANGED flight
    OBVIOUS
  <2>r. Ranges
    <3>1. CASE Start \/ Delete \/ Crash
      BY <3>1, <2>e, <2>f DEF Start, Delete, Crash, call
    <3>2. CASE Look \/ Open \/ Verify \/ Move \/ Remove \/ Clear
      BY <3>2, <2>e, <2>f DEF Look, Open, Verify, Move, Remove, Clear, Goes, call
    <3>3. CASE Single
      BY <3>3, <2>e, <2>f DEF Single, Request, Chunk, BodyEnds, Goes, call
    <3>4. CASE Discard
      BY <3>4, <2>e DEF Discard, NoFlight
    <3> QED
      BY <3>1, <3>2, <3>3, <3>4 DEF Next, Call
  <2>1. ~Load
    BY <2>e DEF Load
  <2>2. ~Settle
    BY <2>e, <2>f DEF Settle, Goes, call
  <2>3. PICK t \in Segments : Ask(t) \/ Arrives(t) \/ Save(t)
    BY <2>r, <2>1, <2>2 DEF Ranges
  <2>4. Ask(s)
    BY <2>3 DEF Ask, Arrives, Save, Moves, TypeInv, TypeOK
  <2>5. s \notin done
    BY <2>4 DEF Ask, RangesInv, FetchingInv
  <2> QED
    BY <2>4, <2>5 DEF Ask, RangesInv, FetchingInv
<1> QED
  BY <1>1, TypeInit, TypeStep, RangesInvHolds, PTL DEF Spec, NoRangeTwice

=============================================================================
