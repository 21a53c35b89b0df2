------------------------------- MODULE History -------------------------------
(***************************************************************************)
(* What the agent sends the model: the message history of one session, how *)
(* a compaction cuts and repairs it (compaction/compactor.ts), when the    *)
(* loop compacts (maybeCompact, maybeWarmCompact and the overflow branch   *)
(* of agent/loop.ts), the memo of its token count, and the snapshot that   *)
(* brings it back after a restart (sessionSnapshot.ts).                    *)
(*                                                                         *)
(* Sizes are in a coarse unit of tokens.  Tools, plans and the checkpoint's *)
(* content are in AgentLoop; here the checkpoint is only "pending" or not. *)
(***************************************************************************)
EXTENDS Naturals, Sequences, SequencesExt

CONSTANTS
  Window,       \* thresholds.contextWindowTokens
  Trigger,      \* Window times autoTriggerRatio
  Warm,         \* Window times warmTriggerRatio, or 0 without one
  MinGrowth,    \* Window times minGrowthFraction
  Target,       \* Trigger times postCompactionTargetRatio
  Overhead,     \* the base system prompt and the tool definitions
  MinRoom,      \* the 256 tokens postCompactionBudget counts on in any case
  SummaryCap,   \* thresholds.summaryMaxTokens
  MaxTail,      \* the tail at DEFAULT_TAIL_BUDGET_FRACTION
  Halvings,     \* from there down to MIN_TAIL_BUDGET_FRACTION
  MaxOverflow,  \* MAX_OVERFLOW_RETRIES
  MaxSnapshot,  \* MAX_SNAPSHOT_MESSAGES
  Lengths,      \* of what the user types: 0 stands for one character, 1 for more
  Sizes,        \* of a tool result
  MaxNotes,     \* of the working notes
  MaxCalls,     \* bound: the calls of one answer
  MaxLen        \* bound: the messages of a history

ASSUME HistoryAssumption ==
  /\ {Window, Trigger, Warm, MinGrowth, Target, Overhead, MinRoom, SummaryCap, MaxTail,
      Halvings, MaxOverflow, MaxNotes, MaxLen} \subseteq Nat
  /\ {MaxSnapshot, MaxCalls} \subseteq Nat \ {0}
  /\ Lengths \subseteq 0 .. 1 /\ Sizes \subseteq Nat

VARIABLES
  sys,      \* messages[0] beyond the base prompt: the summaries and the notes it holds
  msgs,     \* the other messages
  memo,     \* lastEstimate
  lastUsed, \* this.lastCompactionUsed: no number while null
  pc,       \* where the turn is
  batch,    \* the calls of the last answer not handled yet
  job,      \* the compaction in progress, or the next one
  pending,  \* a checkpoint is on disk
  notes,    \* the size of .llamacli/state/notes.md
  saved,    \* .llamacli/state/session.json: no snapshot while there is no file
  trimmed   \* the history came from a snapshot that had lost its start, and no compaction since

vars == <<sys, msgs, memo, lastUsed, pc, batch, job, pending, notes, saved, trimmed>>
turn == <<pc, batch, job>>
disk == <<pending, notes, saved>>

Message  == [role : {"user", "resuming", "assistant", "tool"}, size : Nat, calls : 0 .. MaxCalls]
User(n)  == [role |-> "user", size |-> n, calls |-> 0]
Resuming == [role |-> "resuming", size |-> 1, calls |-> 0]
Answer(k) == [role |-> "assistant", size |-> 1, calls |-> k]
Result(n) == [role |-> "tool", size |-> n, calls |-> 0]
IsUser(m) == m.role \in {"user", "resuming"}

\* summaries: how often the summary header stands in it; size: what those summaries hold.
Prompt   == [summaries |-> 0, size |-> 0, notes |-> 0]
FirstJob == [after |-> "chat", halved |-> 0, tries |-> 0, before |-> 0]

Smaller(a, b) == IF a < b THEN a ELSE b
Larger(a, b)  == IF a > b THEN a ELSE b
From(s, i)    == SubSeq(s, i, Len(s))
Least(S)      == CHOOSE i \in S : \A j \in S : i <= j
Greatest(S)   == CHOOSE i \in S : \A j \in S : i >= j

\* The sizes of the first messages, one after the other; the last of them is that of them all.
Sums(s)  == LET sum[i \in 0 .. Len(s)] == IF i = 0 THEN 0 ELSE sum[i - 1] + s[i].size IN sum
Total(s) == Sums(s)[Len(s)]

-----------------------------------------------------------------------------
(* The token count and its memo. *)

Tokens(p, s) == Overhead + p.size + p.notes + Total(s)

\* What identifies a conversation: its length and the shape of its last message.  The two
\* kinds of user message are one role on the wire.
Key(s) == IF s = <<>> THEN <<1, "system", 0, 0>>
          ELSE <<1 + Len(s), IF IsUser(Last(s)) THEN "user" ELSE Last(s).role,
                 Last(s).size, Last(s).calls>>

NoMemo == [key |-> <<0, "none", 0, 0>>, tokens |-> 0]
Measured(p, s) == [key |-> Key(s), tokens |-> Tokens(p, s)]
Estimate(p, s) == IF memo.key = Key(s) THEN memo ELSE Measured(p, s)

\* postCompactionBudget measures the base prompt with one "." of the user, through the same
\* memo: a history with one message, of one character, has the same key, and the one is taken
\* for the other.
Probe == <<User(0)>>

\* Mutant of ProbeMemo: the probe is measured past the memo, and remembered.
ProbeMeasured == [key |-> Key(Probe), tokens |-> Overhead]

ProbeMemo == IF memo.key = Key(Probe) THEN memo
             ELSE [key |-> Key(Probe), tokens |-> Overhead]

-----------------------------------------------------------------------------
(* What a compaction makes of the history. *)

Room           == LET overhead == ProbeMemo.tokens
                  IN  Larger(MinRoom, IF Target > overhead THEN Target - overhead ELSE 0)
SummaryMax     == Smaller(SummaryCap, Room \div 2)
TailBudget(h)  == Larger(1, Smaller(MaxTail \div 2 ^ h, Room - SummaryMax))

\* selectKeptTail: as many of the newest messages as fit, the last one whatever its size.
\* The cut then moves forward to a user message, if there is one after it.
FitsFrom(budget) ==
  Least({Len(msgs)} \cup {i \in 1 .. Len(msgs) : Total(From(msgs, i)) <= budget})

Cut(budget) ==
  LET fit == FitsFrom(budget)
      later == {i \in fit + 1 .. Len(msgs) : IsUser(msgs[i])}
  IN  IF fit = 1 \/ IsUser(msgs[fit]) \/ later = {} THEN fit ELSE Least(later)

\* Mutant of Repaired: the call message of a batch cut in two is not pulled back.
RepairedByDropping(cut) ==
  From(msgs, Least({Len(msgs) + 1} \cup {i \in cut .. Len(msgs) : msgs[i].role # "tool"}))

\* Mutant of Repaired: a tail that starts inside a batch is kept as it is.
NotRepaired(cut) == From(msgs, cut)

\* A tail that starts inside a batch gets the rest of the batch back, or loses its results
\* when nothing in the history asked for them.
Repaired(cut) ==
  LET before == {i \in 1 .. cut - 1 : msgs[i].role # "tool"}
      owned  == before # {} /\ msgs[Greatest(before)].calls > 0
  IN  IF msgs[cut].role = "tool" /\ owned
        THEN From(msgs, Greatest(before))
        ELSE From(msgs, Least({Len(msgs) + 1} \cup
                              {i \in cut .. Len(msgs) : msgs[i].role # "tool"}))

\* CONTINUE_AFTER_COMPACTION in front of a tail without a user message.
WithUser(tail) == IF \E i \in 1 .. Len(tail) : IsUser(tail[i]) THEN tail ELSE <<User(1)>> \o tail

KeptTail(h) == WithUser(IF msgs = <<>> THEN <<>> ELSE Repaired(Cut(TailBudget(h))))

\* composeSystemMessage: everything from the old header on, the notes included, gives way.
Composed(n) == [summaries |-> 1, size |-> n, notes |-> 0]

Resumes(s) == IF s # <<>> /\ Last(s).role = "resuming"
                THEN [s EXCEPT ![Len(s)] = Resuming] ELSE Append(s, Resuming)

-----------------------------------------------------------------------------
(* The turn. *)

Fits(k) == Len(msgs) + k <= MaxLen

\* send: the resume prompt of a checkpoint left on disk, then the message.
Send(n) ==
  /\ pc = "idle" /\ Fits(2)
  /\ msgs' = Append(IF pending THEN Resumes(msgs) ELSE msgs, User(n))
  /\ memo' = IF pending /\ msgs # <<>> /\ Last(msgs).role = "resuming" THEN NoMemo ELSE memo
  /\ pending' = FALSE
  /\ pc' = "top" /\ job' = FirstJob
  /\ UNCHANGED <<sys, lastUsed, batch, notes, saved, trimmed>>

\* queueMessage, or the message of the progress guard: it is pushed at the top of the turn.
Queued(n) ==
  /\ pc = "top" /\ Fits(1)
  /\ msgs' = Append(msgs, User(n))
  /\ UNCHANGED <<sys, memo, lastUsed, pc, batch, job, pending, notes, saved, trimmed>>

\* Mutant of Guarded: every measurement over the trigger compacts.
GuardedNever(used) == FALSE

\* The minimum growth since the last compaction, which counts only if that one got below
\* the trigger.
Guarded(used) ==
  \E last \in lastUsed : last < Trigger /\ used < last + MinGrowth

\* maybeCompact, in front of a request or of a tool call.
Measure ==
  /\ pc \in {"top", "call"}
  /\ LET used == Estimate(sys, msgs).tokens IN
       IF used >= Trigger /\ ~Guarded(used)
         THEN /\ pc' = "compact"
              /\ job' = [job EXCEPT !.after = IF pc = "top" THEN "chat" ELSE "batch"]
         ELSE /\ pc' = IF pc = "top" THEN "chat" ELSE "tool"
              /\ UNCHANGED job
  /\ memo' = Estimate(sys, msgs)
  /\ UNCHANGED <<sys, msgs, lastUsed, batch, disk, trimmed>>

\* maybeWarmCompact, while the user reads: without a warm ratio below the trigger it is
\* maybeCompact.
WarmMeasure ==
  /\ pc = "warm"
  /\ LET used == Estimate(sys, msgs).tokens
         ripe == IF 0 < Warm /\ Warm < Trigger THEN used >= Warm
                 ELSE used >= Trigger /\ ~Guarded(used)
     IN  /\ pc' = IF ripe THEN "compact" ELSE "idle"
         /\ job' = [FirstJob EXCEPT !.after = "idle"]
  /\ memo' = Estimate(sys, msgs)
  /\ UNCHANGED <<sys, msgs, lastUsed, batch, disk, trimmed>>

\* An answer without calls ends the turn.  If it ended a plan, the checkpoint and the notes go.
AnswerText(clears) ==
  /\ pc = "chat" /\ Tokens(sys, msgs) <= Window /\ Fits(1)
  /\ msgs' = Append(msgs, Answer(0))
  /\ pending' = (pending /\ ~clears) /\ notes' = IF clears THEN 0 ELSE notes
  /\ pc' = "warm" /\ job' = FirstJob
  /\ UNCHANGED <<sys, memo, lastUsed, batch, saved, trimmed>>

AnswerCalls(k) ==
  /\ pc = "chat" /\ Tokens(sys, msgs) <= Window /\ Fits(1 + k)
  /\ msgs' = Append(msgs, Answer(k))
  /\ batch' = k /\ pc' = "call"
  /\ UNCHANGED <<sys, memo, lastUsed, job, disk, trimmed>>

\* The tool runs, and may write a note.
ToolRuns(n, m) ==
  /\ pc = "tool" /\ m >= notes
  /\ msgs' = Append(msgs, Result(n))
  /\ notes' = m
  /\ batch' = batch - 1
  /\ pc' = IF batch = 1 THEN "top" ELSE "call"
  /\ UNCHANGED <<sys, memo, lastUsed, job, pending, saved, trimmed>>

\* A request over the window is refused: compact, then compare.
Overflows ==
  /\ pc = "chat" /\ Tokens(sys, msgs) > Window
  /\ IF job.tries = MaxOverflow
       THEN pc' = "warm" /\ UNCHANGED <<job, memo>>
       ELSE /\ pc' = "compact"
            /\ job' = [job EXCEPT !.after = "overflow", !.tries = @ + 1,
                                  !.before = Estimate(sys, msgs).tokens]
            /\ memo' = Estimate(sys, msgs)
  /\ UNCHANGED <<sys, msgs, lastUsed, batch, disk, trimmed>>

\* A cancel, a stop of the circuit breaker or the progress guard, or an error: the turn ends
\* with the history as it is.
Stops ==
  /\ pc \in {"top", "chat", "call", "tool"}
  /\ batch' = 0 /\ pc' = "warm" /\ job' = FirstJob
  /\ UNCHANGED <<sys, msgs, memo, lastUsed, disk, trimmed>>

-----------------------------------------------------------------------------
(* The compaction. *)

\* The request that was too large is tried again, with a smaller tail if nothing shrank, or
\* given up.
AfterOverflow(after) ==
  LET shrunk == after < job.before
      halves == ~shrunk /\ job.halved < Halvings
  IN  /\ pc' = IF shrunk \/ halves THEN "top" ELSE "warm"
      /\ job' = [job EXCEPT !.before = 0, !.halved = IF halves THEN @ + 1 ELSE @]

\* The rest of the batch is abandoned and the checkpoint's prompt pushed, which consumes the
\* checkpoint.
AfterBatch(s) ==
  /\ msgs' = Resumes(s)
  /\ pending' = FALSE
  /\ batch' = 0 /\ pc' = "top"
  /\ UNCHANGED job

\* compact: the summary, the tail, the new baseline, and only then the notes.
Compacted(n) ==
  LET tail == KeptTail(IF job.after = "overflow" THEN job.halved ELSE 0)
  IN  /\ pc = "compact" /\ Len(tail) < MaxLen
      /\ sys' = [Composed(n) EXCEPT !.notes = @ + notes]
      /\ memo' = Measured(Composed(n), tail)
      /\ lastUsed' = {Tokens(Composed(n), tail)}
      /\ trimmed' = FALSE
      /\ CASE job.after = "batch" -> AfterBatch(tail)
           [] job.after = "overflow" ->
                AfterOverflow(memo'.tokens) /\ msgs' = tail /\ pending' = TRUE /\ UNCHANGED batch
           [] OTHER -> /\ pc' = job.after /\ msgs' = tail /\ pending' = TRUE
                       /\ UNCHANGED <<job, batch>>
      /\ UNCHANGED <<notes, saved>>

\* The summary never came: the history stays, the first write of the checkpoint does too, and
\* the memo is left to the probe, or to the measurement after an overflow.  The callers go on
\* as after a compaction.
CompactionFails ==
  /\ pc = "compact" /\ Fits(1)
  /\ memo' = IF job.after # "overflow" \/ ProbeMemo.key = Key(msgs) THEN ProbeMemo
             ELSE Measured(sys, msgs)
  /\ CASE job.after = "batch" -> AfterBatch(msgs)
       [] job.after = "overflow" ->
            AfterOverflow(memo'.tokens) /\ pending' = TRUE /\ UNCHANGED <<msgs, batch>>
       [] OTHER -> pc' = job.after /\ pending' = TRUE /\ UNCHANGED <<msgs, job, batch>>
  /\ UNCHANGED <<sys, lastUsed, notes, saved, trimmed>>

-----------------------------------------------------------------------------
(* The user, the snapshot and a restart. *)

\* /compact, and the save of a quit.
Manual ==
  /\ pc = "idle" /\ msgs # <<>>
  /\ pc' = "compact" /\ job' = [FirstJob EXCEPT !.after = "idle"]
  /\ UNCHANGED <<sys, msgs, memo, lastUsed, batch, disk, trimmed>>

\* trimSnapshotMessages: the system message and the newest of the others.
Snapshot ==
  /\ pc = "idle"
  /\ saved' = {[sys |-> sys, lost |-> trimmed \/ 1 + Len(msgs) > MaxSnapshot,
                msgs |-> IF 1 + Len(msgs) <= MaxSnapshot THEN msgs
                         ELSE From(msgs, Len(msgs) - MaxSnapshot + 2)]}
  /\ UNCHANGED <<sys, msgs, memo, lastUsed, turn, pending, notes, trimmed>>

\* The process ends, whatever it was doing, and starts again with an empty history.
StartsOver ==
  /\ sys' = Prompt /\ msgs' = <<>> /\ memo' = NoMemo /\ lastUsed' = {}
  /\ pc' = "idle" /\ batch' = 0 /\ job' = FirstJob /\ trimmed' = FALSE

\* Without a checkpoint nothing is asked: the notes and the snapshot stay on disk.
Restart == ~pending /\ StartsOver /\ UNCHANGED disk

\* The resume is declined.
RestartAfresh ==
  /\ pending /\ StartsOver
  /\ pending' = FALSE /\ notes' = 0 /\ saved' = {}

\* The resume is accepted: the snapshot comes back, and the checkpoint's prompt on top of it.
RestartAndResume ==
  \E old \in IF saved = {} THEN {[sys |-> Prompt, msgs |-> <<>>, lost |-> FALSE]} ELSE saved :
    /\ pending /\ Len(Resumes(old.msgs)) <= MaxLen
    /\ sys' = old.sys /\ msgs' = Resumes(old.msgs) /\ trimmed' = old.lost
    /\ memo' = NoMemo /\ lastUsed' = {}
    /\ pc' = "top" /\ batch' = 0 /\ job' = FirstJob
    /\ pending' = FALSE
    /\ UNCHANGED <<notes, saved>>

-----------------------------------------------------------------------------
Init ==
  /\ sys = Prompt /\ msgs = <<>> /\ memo = NoMemo /\ lastUsed = {}
  /\ pc = "idle" /\ batch = 0 /\ job = FirstJob
  /\ pending = FALSE /\ notes = 0 /\ saved = {} /\ trimmed = FALSE

Turn ==
  \/ \E n \in Lengths : Send(n) \/ Queued(n)
  \/ Measure \/ WarmMeasure
  \/ \E clears \in BOOLEAN : AnswerText(clears)
  \/ \E k \in 1 .. MaxCalls : AnswerCalls(k)
  \/ \E n \in Sizes, m \in 0 .. MaxNotes : ToolRuns(n, m)
  \/ Overflows \/ Stops

Next ==
  \/ Turn
  \/ \E n \in 0 .. SummaryMax : Compacted(n)
  \/ CompactionFails
  \/ Manual \/ Snapshot
  \/ Restart \/ RestartAfresh \/ RestartAndResume

Spec == Init /\ [][Next]_vars

-----------------------------------------------------------------------------
(* What makes the history one the model can be sent. *)

\* The type of every variable.  The system message holds at most one summary and one copy of
\* the notes, however often the history is compacted.
TypeOK ==
  /\ sys \in [summaries : 0 .. 1, size : 0 .. SummaryCap, notes : 0 .. MaxNotes]
  /\ msgs \in Seq(Message)
  /\ memo.tokens \in Nat
  /\ lastUsed \subseteq Nat
  /\ pc \in {"idle", "top", "compact", "chat", "call", "tool", "warm"}
  /\ batch \in 0 .. MaxCalls /\ (pc \in {"call", "tool"} => batch > 0)
  /\ job \in [after : {"chat", "batch", "overflow", "idle"}, halved : 0 .. Halvings,
              tries : 0 .. MaxOverflow, before : Nat]
  /\ {pending, trimmed} \subseteq BOOLEAN
  /\ notes \in 0 .. MaxNotes

\* The results no call of an assistant message right before them asked for.
Orphans ==
  {i \in 1 .. Len(msgs) : msgs[i].role = "tool" /\
     ~\E j \in 1 .. i - 1 : i - j <= msgs[j].calls /\ \A k \in j + 1 .. i : msgs[k].role = "tool"}

\* Every tool result follows the message that called the tool, with nothing but results of the
\* same batch in between: wherever the cut of a compaction falls (compactor.ts:923-952).  Only a
\* snapshot that was cut to MAX_SNAPSHOT_MESSAGES can start with results nothing asked for, and
\* only until the next compaction.
ResultsHaveOwners ==
  \A i \in Orphans : trimmed /\ \A j \in 1 .. i : msgs[j].role = "tool"

\* No request goes out without a message of the user, however little the compactions have left
\* (compactor.ts:954-962) and however much the snapshot has lost: some chat templates reject it.
RequestsHaveUser ==
  pc = "chat" => \E i \in 1 .. Len(msgs) : IsUser(msgs[i])

\* A compaction keeps the newest message, unless it is a result nothing asked for: a result that
\* was summarised before the model saw it had the model run the same command for ever
\* (compactor.ts:932-940).
NewestSurvives ==
  [][pc = "compact" /\ lastUsed' # {} /\ msgs # <<>> /\ Len(msgs) \notin Orphans
       => Last(msgs) \in {msgs'[i] : i \in Larger(1, Len(msgs') - 1) .. Len(msgs')}]_vars

\* The count served for a history is its own, or short of the notes that a compaction appends
\* after it has measured (loop.ts:2047-2069): so far it does go stale, whatever the comment at
\* compactor.ts:212-216 says.  It is never the count of the budget's probe, although a history
\* of one message of one character has its key: such a history has been measured before any
\* compaction of it begins, and the probe then reads that measurement instead of its own.
MemoIsCurrent ==
  memo.key = Key(msgs) => memo.tokens \in {Tokens(sys, msgs), Tokens(sys, msgs) - sys.notes}

\* Two automatic compactions in one turn have growth between them, unless the first did not get
\* below the trigger (loop.ts:1805-1823).
CompactionsNeedGrowth ==
  [][pc' = "compact" /\ pc \in {"top", "call"}
       => \A last \in lastUsed : last >= Trigger \/ Tokens(sys, msgs) >= last + MinGrowth]_vars

\* In every state: the types, a call for every result, and a user message in what is sent.
HistoryInv == TypeOK /\ ResultsHaveOwners /\ RequestsHaveUser
=============================================================================
