------------------------------- MODULE Download -------------------------------
(***************************************************************************)
(* The download of one model file: downloadFile and downloadRanges of      *)
(* src/src/setup/download.ts with the record of finished ranges of         *)
(* src/src/setup/downloadProgress.ts.                                      *)
(*                                                                         *)
(* A call may be killed at any point and is made again at a later start.   *)
(* A step is one request or one file operation; the ranges of one call are *)
(* fetched by several workers at once.  The file is cut into the ranges    *)
(* planRanges cuts it into, and a partial file is abstracted to its length *)
(* in ranges and the ranges whose bytes are the right ones: a range that   *)
(* was never written is a hole of zeros, a longer file is one too long.    *)
(* Progress reports are left out.                                          *)
(***************************************************************************)
EXTENDS Naturals, FiniteSets

CONSTANTS
  Size,        \* the length of the file, in ranges
  Connections, \* how many ranges are fetched at once
  Servers,     \* what a probe may find, a subset of AllServers
  Hashed,      \* whether the caller knows the file's sha256
  CrossFs,     \* whether the staging folder is on another filesystem
  Deletes,     \* whether callers remove the file again
  Faults,      \* a subset of AllFaults
  Absent       \* no such file

\* ranges: honours ranges and tells the size; stream: tells the size only; unsized: neither.
AllServers == {"ranges", "stream", "unsized"}
\* crash: the process dies; io: a request or a file operation fails, and the call with it;
\* record: an operation on the record of ranges fails, which nobody notices; short: a body
\* ends early and the request succeeds.
AllFaults == {"crash", "io", "record", "short"}

Segments == 1..Size
Files    == [size : 0..Size + 1, right : SUBSET Segments]
Records  == [ranges : SUBSET Segments]
Good     == [size |-> Size, right |-> Segments]

ASSUME ConstantsAssumption ==
  /\ Size \in Nat \ {0}
  /\ Connections \in Nat \ {0}
  /\ Servers \subseteq AllServers
  /\ Hashed \in BOOLEAN /\ CrossFs \in BOOLEAN /\ Deletes \in BOOLEAN
  /\ Faults \subseteq AllFaults
  /\ Absent \notin Files /\ Absent \notin Records

VARIABLES
  final,    \* the file under its own name
  part,     \* the .part file
  record,   \* its .progress.json
  pc,       \* where the call is
  server,   \* what its probe found
  retried,  \* _verifyRetry
  done,     \* progress.ranges in memory
  flight,   \* each range of the plan
  received  \* ranges of a single stream that have arrived

disk == <<final, part, record>>
call == <<server, retried, done, flight, received>>
vars == <<disk, pc, call>>

PCs == {"idle", "look", "open", "load", "fetching", "request", "streaming", "verify", "discard",
        "move", "remove", "clear"}
Stages == {"todo", "asked", "written", "saved", "failed"}

\* Every variable has its type.
TypeOK ==
  /\ final \in Files \cup {Absent}
  /\ part \in Files \cup {Absent}
  /\ record \in Records \cup {Absent}
  /\ pc \in PCs
  /\ server \in AllServers
  /\ retried \in BOOLEAN
  /\ done \in SUBSET Segments
  /\ flight \in [Segments -> Stages]
  /\ received \in 0..Size

-----------------------------------------------------------------------------
NoFlight == [s \in Segments |-> "todo"]
\* With the hash in hand a finished .part is verified before it is moved.
Checks == IF Hashed THEN "verify" ELSE "move"
Goes(label) == pc' = label /\ UNCHANGED call
\* The call has returned or thrown, and its locals are gone.
Ends ==
  /\ pc' = "idle"
  /\ server' = "ranges"
  /\ retried' = FALSE
  /\ done' = {}
  /\ flight' = NoFlight
  /\ received' = 0
IoMayFail == "io" \in Faults
RecordMayFail == "record" \in Faults

Sized == server # "unsized"
SizeOf(file) == IF file = Absent THEN 0 ELSE file.size
\* loadProgress: no state without a size to compare it with.
Known == Sized /\ record # Absent
Complete == record = [ranges |-> Segments]

-----------------------------------------------------------------------------
(* What a call finds.                                                      *)

Start ==
  /\ pc = "idle"
  /\ pc' = "look"
  /\ server' \in Servers
  /\ UNCHANGED <<disk, retried, done, flight, received>>

HashVouches == Hashed /\ Sized /\ ~Known /\ SizeOf(part) >= Size
Finished == (Known /\ Complete /\ SizeOf(part) >= Size) \/ HashVouches
FinalIsDone ==
  /\ SizeOf(final) >= Size
  /\ Known => Complete
  /\ Hashed => final = Good

\* What is on disk decides: nothing to do, a finished .part to move, or a download.
Look ==
  /\ pc = "look"
  /\ \/ Sized /\ FinalIsDone /\ Ends
     \/ Sized /\ ~FinalIsDone /\ Finished /\ Goes(Checks)
     \/ ~(Sized /\ (FinalIsDone \/ Finished)) /\ Goes("open")
     \/ IoMayFail /\ Ends
  /\ UNCHANGED disk

\* Mutant of Open: creates the file anew.
OpenAnew ==
  /\ pc = "open"
  /\ Goes(IF server = "ranges" THEN "load" ELSE "request")
  /\ part' = [size |-> 0, right |-> {}]
  /\ UNCHANGED <<final, record>>

Open ==
  /\ pc = "open"
  /\ \/ /\ Goes(IF server = "ranges" THEN "load" ELSE "request")
        /\ part' = IF part = Absent THEN [size |-> 0, right |-> {}] ELSE part
     \/ IoMayFail /\ Ends /\ UNCHANGED part
  /\ UNCHANGED <<final, record>>

-----------------------------------------------------------------------------
(* downloadRanges.                                                         *)

Truncated(file) == [size |-> Size, right |-> file.right]

\* The ranges on record are skipped, and the file gets its full length.
Load ==
  /\ pc = "load"
  /\ \/ /\ pc' = "fetching"
        /\ done' = IF record = Absent THEN {} ELSE record.ranges
        /\ flight' = [s \in Segments |-> IF s \in done' THEN "saved" ELSE "todo"]
        /\ part' = Truncated(part)
        /\ UNCHANGED <<server, retried, received>>
     \/ IoMayFail /\ Ends /\ UNCHANGED part
  /\ UNCHANGED <<final, record>>

At(stage) == {s \in Segments : flight[s] = stage}
Moves(s, stage) == flight' = [flight EXCEPT ![s] = stage]
\* A worker that met a failure takes no further range.
Working == Cardinality(At("asked") \cup At("written") \cup At("failed"))

Ask(s) ==
  /\ pc = "fetching"
  /\ flight[s] = "todo" /\ \A t \in At("todo") : s <= t
  /\ Working < Connections
  /\ Moves(s, "asked")
  /\ UNCHANGED <<disk, pc, server, retried, done, received>>

\* The answer is written at its own offset; one that ended early leaves a hole.
Arrives(s) ==
  /\ pc = "fetching"
  /\ flight[s] = "asked"
  /\ \/ Moves(s, "written") /\ part' = [size |-> part.size, right |-> part.right \cup {s}]
     \/ "short" \in Faults /\ Moves(s, "written") /\ UNCHANGED part
     \/ IoMayFail /\ Moves(s, "failed") /\ UNCHANGED part
  /\ UNCHANGED <<final, record, pc, server, retried, done, received>>

\* One save at a time, each of all ranges so far; a save that fails is not noticed.
Save(s) ==
  /\ pc = "fetching"
  /\ flight[s] = "written"
  /\ Moves(s, "saved")
  /\ done' = done \cup {s}
  /\ record' = [ranges |-> done'] \/ (RecordMayFail /\ UNCHANGED record)
  /\ UNCHANGED <<final, part, pc, server, retried, received>>

\* Promise.allSettled: every worker has stopped; the first failure is thrown.
Settle ==
  /\ pc = "fetching"
  /\ At("asked") \cup At("written") = {}
  /\ At("todo") = {} \/ Working >= Connections
  /\ IF At("failed") = {} THEN Goes(Checks) ELSE Ends
  /\ UNCHANGED disk

-----------------------------------------------------------------------------
(* downloadSingle: no range is asked for, and the body is written after    *)
(* whatever the .part file holds.                                          *)

Request ==
  /\ pc = "request"
  /\ Goes("streaming") \/ (IoMayFail /\ Ends)
  /\ UNCHANGED disk

\* The next range of the body lands at the end of the file.
Appended(file, s) ==
  LET at == file.size + 1
  IN  [size  |-> IF at > Size THEN Size + 1 ELSE at,
       right |-> IF at = s THEN file.right \cup {s} ELSE file.right]

Chunk ==
  /\ pc = "streaming"
  /\ received < Size
  /\ \/ /\ part' = Appended(part, received + 1)
        /\ received' = received + 1
        /\ UNCHANGED <<pc, server, retried, done, flight>>
     \/ IoMayFail /\ Ends /\ UNCHANGED part
  /\ UNCHANGED <<final, record>>

\* Nothing compares what arrived with what was promised.
BodyEnds ==
  /\ pc = "streaming"
  /\ received = Size \/ "short" \in Faults
  /\ Goes(Checks)
  /\ UNCHANGED disk

-----------------------------------------------------------------------------
(* verifyOrDiscard, the one retry, and moveIntoPlace.                      *)

\* Mutant of Verify: looks at the length only.
VerifySize ==
  /\ pc = "verify"
  /\ IF part.size = Size
     THEN Goes("move") /\ UNCHANGED part
     ELSE Goes("discard") /\ part' = Absent
  /\ UNCHANGED <<final, record>>

Verify ==
  /\ pc = "verify"
  /\ \/ part = Good /\ Goes("move") /\ UNCHANGED part
     \/ part # Good /\ Goes("discard") /\ part' = Absent
     \/ IoMayFail /\ Ends /\ UNCHANGED part
  /\ UNCHANGED <<final, record>>

Cleared == record' = Absent \/ (RecordMayFail /\ UNCHANGED record)

\* Mutant of Discard: every mismatch is retried.
DiscardAlways ==
  /\ pc = "discard"
  /\ Cleared
  /\ pc' = "look" /\ server' \in Servers
  /\ UNCHANGED <<final, part, retried, done, flight, received>>

\* After a mismatch the call is made once more from the start, with a probe of its own.
Discard ==
  /\ pc = "discard"
  /\ Cleared
  /\ IF retried
     THEN Ends
     ELSE /\ pc' = "look" /\ retried' = TRUE
          /\ server' \in Servers
          /\ done' = {} /\ flight' = NoFlight /\ received' = 0
  /\ UNCHANGED <<final, part>>

\* A rename; across filesystems a copy that is renamed, and then the removal of the .part.
Move ==
  /\ pc = "move"
  /\ \/ /\ Goes(IF CrossFs THEN "remove" ELSE "clear")
        /\ final' = part
        /\ part' = IF CrossFs THEN part ELSE Absent
     \/ IoMayFail /\ Ends /\ UNCHANGED <<final, part>>
  /\ UNCHANGED record

Remove ==
  /\ pc = "remove"
  /\ \/ Goes("clear") /\ part' = Absent
     \/ IoMayFail /\ Ends /\ UNCHANGED part
  /\ UNCHANGED <<final, record>>

Clear ==
  /\ pc = "clear"
  /\ Cleared
  /\ Ends
  /\ UNCHANGED <<final, part>>

-----------------------------------------------------------------------------
\* installStockRung removes the archive it has unpacked, and a user a model.
Delete ==
  /\ Deletes
  /\ pc = "idle"
  /\ final' = Absent
  /\ UNCHANGED <<part, record, pc, call>>

Crash ==
  /\ "crash" \in Faults
  /\ pc # "idle"
  /\ Ends
  /\ UNCHANGED disk

Init ==
  /\ final = Absent
  /\ part = Absent
  /\ record = Absent
  /\ pc = "idle"
  /\ server = "ranges"
  /\ retried = FALSE
  /\ done = {}
  /\ flight = NoFlight
  /\ received = 0

Ranges == Load \/ (\E s \in Segments : Ask(s) \/ Arrives(s) \/ Save(s)) \/ Settle
Single == Request \/ Chunk \/ BodyEnds
Call == Look \/ Open \/ Ranges \/ Single \/ Verify \/ Discard \/ Move \/ Remove \/ Clear

Next == Start \/ Call \/ Delete \/ Crash

Spec == Init /\ [][Next]_vars
\* The steps of a call come to an end: requests are answered, or time out in the runtime.
FairSpec == Spec /\ WF_vars(Call)

-----------------------------------------------------------------------------
(* Properties.                                                             *)

\* What is under the file's own name is the whole file, never a file of the right length with
\* holes in it, whatever died and was resumed before (downloadFile, "SIZE IS NOT THE COMPLETION
\* SIGNAL").
FinalIsWhole == final # Absent => final = Good

\* A range on record is on disk, so that the next call may skip it (recordRange, "record it
\* durably BEFORE moving on").
RecordIsOnDisk == record # Absent /\ part # Absent => record.ranges \subseteq part.right

\* No call fetches a range that is on record (partitionRanges, "only re-fetches the ranges the
\* first run did not finish").
NoRangeTwice ==
  [][\A s \in Segments : flight'[s] = "asked" /\ flight[s] # "asked" /\ record # Absent
        => s \notin record.ranges]_vars

\* A call returns or throws: a mismatch is retried once (_verifyRetry).
CallEnds == pc # "idle" ~> pc = "idle"

-----------------------------------------------------------------------------
(* What makes them inductive.                                              *)

\* TypeOK: a call that uses the .part file has one.
PartInUse ==
  pc \in {"load", "fetching", "request", "streaming", "verify", "move", "remove"} => part # Absent
TypeInv == TypeOK /\ PartInUse

\* FinalIsWhole with the publisher's hash, on any server and with any fault.
CheckedInv == FinalIsWhole /\ (pc \in {"move", "remove"} => part = Good)

\* The properties without the hash: a server that honours ranges, and a record that can be
\* saved and is not left behind by a file that was removed.
Plain == Servers = {"ranges"} /\ Faults \cap {"record", "short"} = {} /\ ~Deletes

\* A record without a .part is left by a call that moved the file and did not clear it.
LeftOver == record # Absent /\ part = Absent => Complete /\ final = Good

\* A .part file is new or has its full length.
PartSized == part # Absent => part.size = Size \/ (part.size = 0 /\ part.right = {})

\* While ranges are fetched the record, the memory and the file agree.
Fetched(s) == s \in part.right
FetchingInv ==
  pc = "fetching" =>
    /\ part # Absent /\ part.size = Size
    /\ record = [ranges |-> done] \/ (record = Absent /\ done = {})
    /\ \A s \in Segments : flight[s] \in {"written", "saved"} => Fetched(s)
    /\ \A s \in Segments : flight[s] = "saved" <=> s \in done

\* What a call knows at each of its later steps.
EndInv ==
  /\ pc \in {"open", "load"} /\ record # Absent => part # Absent /\ ~Complete
  /\ pc = "load" => part # Absent
  /\ pc = "verify" => part # Absent /\ part.size >= Size /\ (record = Absent \/ (Complete /\ part = Good))
  /\ pc = "discard" => record = Absent
  /\ pc \in {"move", "remove"} => part = Good /\ (record = Absent \/ Complete)
  /\ pc \in {"remove", "clear"} => final = Good /\ (record = Absent \/ Complete)
  /\ pc = "clear" => part = Absent
  /\ pc \in {"request", "streaming"} => FALSE

RangesInv ==
  /\ server = "ranges"
  /\ FinalIsWhole
  /\ RecordIsOnDisk
  /\ PartSized
  /\ LeftOver
  /\ FetchingInv
  /\ EndInv

=============================================================================
