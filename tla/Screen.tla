-------------------------------- MODULE Screen --------------------------------
(***************************************************************************)
(* The log area of the terminal UI (src/tui/App.tsx): the rows the agent's *)
(* callbacks, the slash commands and the user append to it, the text that  *)
(* streams into one of them, the progress bar that is redrawn in place,    *)
(* the folding of finished blocks, and the window of the log that is drawn *)
(* and that the wheel, the page keys and a mouse selection work on.        *)
(*                                                                         *)
(* A streamed delta goes into a buffer; the tick of the screen, and the    *)
(* end of the reply, move the buffer into the row that is streaming.  Each *)
(* handler runs to its end and the screen is rendered before the next one  *)
(* starts, so a handler is one step.                                       *)
(*                                                                         *)
(* The text of a line is the sequence of the deltas in it, numbered as     *)
(* they arrive.  An open diff is two terminal rows and the hint that folds *)
(* it, a running call is two rows, any other line is one.  Of the fold     *)
(* sets, one per kind of block, the diffs' stands for the others.          *)
(***************************************************************************)
EXTENDS Integers, Sequences, FiniteSets, SequencesExt

CONSTANTS MaxLogEntries,   \* the cap of the log (5000 in the program)
          LogHeight,       \* rows of the log box
          MaxId,           \* bound: lines appended
          MaxDeltas,       \* bound: deltas of each stream
          MaxReplies,      \* bound: requests to the model
          MaxUpdates       \* bound: updates of the progress bar

ConstantsAssumption ==
    /\ MaxLogEntries \in Nat \ {0}
    /\ LogHeight \in Nat /\ LogHeight >= 2
    /\ {MaxId, MaxDeltas, MaxReplies, MaxUpdates} \subseteq Nat

ASSUME ConstantsAssumption

VARIABLES log,          \* the lines, oldest first
          nextId,       \* logIdCounter
          phase,        \* what the agent is doing: idle, reply or tool
          reply,        \* number of the request in flight or last made
          turnStarted,  \* onTurnStart was called for this request
          said,         \* deltas of the answers so far
          thought,      \* deltas of the reasoning so far
          asBuf, reBuf, \* the two delta buffers
          asId, reId,   \* streamingIdRef and reasoningStreamingIdRef, 0 is null
          toolId,       \* activeToolLineIdRef
          doneTools,    \* completedToolIds
          closed,       \* collapsedDiffIds
          barId,        \* transientId of the bar, 0 is null
          updates,      \* updates of the bar so far
          offset,       \* scrollOffset
          drag          \* dragRef: none, a press that has not moved, or rows; pressed
                        \* says that it began with a press over the log

streamVars == <<asBuf, reBuf, asId, reId, said, thought>>
agentVars == <<phase, reply, turnStarted>>
barVars == <<barId, updates>>
toolVars == <<toolId, doneTools>>
viewVars == <<offset, drag>>
screenVars == <<log, nextId, streamVars, agentVars, barVars, toolVars, closed, viewVars>>

Kinds == {"user", "assistant", "reasoning", "status", "tool", "diff", "bar"}
Line == [id : 1..MaxId, kind : Kinds, text : Seq(Nat)]
NoDrag == [kind |-> "none", pressed |-> FALSE, anchor |-> 0, head |-> 0]

MinOf(a, b) == IF a < b THEN a ELSE b
MaxOf(a, b) == IF a > b THEN a ELSE b

-----------------------------------------------------------------------------
(* The log. *)

\* Keeps the newest lines: .slice(-MAX_LOG_ENTRIES).
Capped(lines) == SubSeq(lines, MaxOf(1, Len(lines) - MaxLogEntries + 1), Len(lines))

Ids(kind) == {log[i].id : i \in {j \in DOMAIN log : log[j].kind = kind}}

NewLine(id, kind, text) == [id |-> id, kind |-> kind, text |-> text]

\* Lines the buffered text will need, and whether n more stay within MaxId.
Owes(buf, id) == IF buf # <<>> /\ id = 0 THEN 1 ELSE 0
Owed == Owes(asBuf, asId) + Owes(reBuf, reId)
HasRoom(n) == nextId + Owed + n <= MaxId + 1

\* One line appended under the next id: pushLine and the callbacks like it.
Push(lines, id, kind, text) == Capped(Append(lines, NewLine(id, kind, text)))

\* The lines after `text` was added to the line `id`.  Nothing happens when
\* the line is no longer there.
Extended(lines, id, text) ==
    [i \in DOMAIN lines |-> IF lines[i].id = id
                            THEN [lines[i] EXCEPT !.text = @ \o text]
                            ELSE lines[i]]

\* What a flush makes of <<lines, next id, streaming id>>: the batch goes into
\* the streaming line, or into a new line that becomes the streaming one.
Flushed(state, kind, batch) ==
    LET lines == state[1] IN
    IF batch = <<>> THEN state
    ELSE IF state[3] # 0
         THEN <<Extended(lines, state[3], batch), state[2], state[3]>>
         ELSE <<Push(lines, state[2], kind, batch), state[2] + 1, state[2]>>

AnswerFlushed(lines, id) == Flushed(<<lines, id, asId>>, "assistant", asBuf)
ReasoningFlushed(lines, id) == Flushed(<<lines, id, reId>>, "reasoning", reBuf)

-----------------------------------------------------------------------------
(* The window.  One entry of AllRows per terminal row of the whole log. *)

\* The rows a line takes: a folded block is one row, an open one is its text
\* and the hint that folds it.  A call folds when it is done.
RowsOf(line) ==
    LET text == <<<<line.id, 1>>, <<line.id, 2>>>> IN
    CASE line.kind = "diff" /\ line.id \notin closed    -> Append(text, <<line.id, 3>>)
      [] line.kind = "tool" /\ line.id \notin doneTools -> text
      [] OTHER                                          -> <<<<line.id, 0>>>>

AllRows == FlattenSeq([i \in DOMAIN log |-> RowsOf(log[i])])

\* Rows of the box that are there to scroll through: one is kept for the
\* banner of a scrolled log.
Scrollable == LogHeight - 1

\* What the render leaves for the handlers: the rows of the whole log, how far the log can
\* be scrolled, the slice that is drawn and the terminal row it starts on.  The box is
\* filled from its bottom.
Window ==
    LET rows == AllRows
        maxScroll == MaxOf(0, Len(rows) - Scrollable)
        clamped == MinOf(offset, maxScroll)
        banner == IF clamped > 0 THEN 1 ELSE 0
        end == Len(rows) - clamped
        start == MaxOf(0, end - (LogHeight - banner))
        gap == MaxOf(0, LogHeight - (banner + (end - start))) IN
    [rows |-> rows, maxScroll |-> maxScroll, clamped |-> clamped, banner |-> banner,
     start |-> start, end |-> end, firstRow |-> 1 + gap + banner]

\* The entry of the rows drawn on a terminal row (0-based, as in the code).
LogRow(w, terminalRow) == w.start + (terminalRow - w.firstRow)
IsLogBodyRow(w, terminalRow) ==
    terminalRow >= w.firstRow /\ terminalRow < w.firstRow + (w.end - w.start)

-----------------------------------------------------------------------------
ScreenTypeOK ==
    /\ log \in Seq(Line) /\ Len(log) <= MaxLogEntries
    /\ \A i, j \in DOMAIN log : log[i].id = log[j].id => i = j
    /\ nextId \in 1..(MaxId + 1)
    /\ phase \in {"idle", "reply", "tool"} /\ reply \in 0..MaxReplies
    /\ turnStarted \in BOOLEAN
    /\ {said, thought} \subseteq 0..MaxDeltas
    /\ asBuf \in Seq(Nat) /\ reBuf \in Seq(Nat)
    /\ {asId, reId, toolId, barId} \subseteq 0..MaxId
    /\ doneTools \subseteq 1..MaxId /\ closed \subseteq 1..MaxId
    /\ updates \in 0..MaxUpdates
    /\ offset \in 0..(3 * MaxLogEntries)
    /\ drag \in [kind : {"none", "still", "rows", "stray"}, pressed : BOOLEAN,
                  anchor : 0..(3 * MaxLogEntries), head : Int]

ScreenInit ==
    /\ log = <<>> /\ nextId = 1
    /\ phase = "idle" /\ reply = 0 /\ turnStarted = FALSE
    /\ said = 0 /\ thought = 0 /\ asBuf = <<>> /\ reBuf = <<>>
    /\ asId = 0 /\ reId = 0
    /\ toolId = 0 /\ doneTools = {} /\ closed = {}
    /\ barId = 0 /\ updates = 0
    /\ offset = 0 /\ drag = NoDrag

-----------------------------------------------------------------------------
(* The agent's callbacks. *)

\* Return in the prompt: the message becomes a line and the turn starts.
SubmitMessage ==
    /\ phase = "idle" /\ reply < MaxReplies /\ HasRoom(1)
    /\ log' = Push(log, nextId, "user", <<>>) /\ nextId' = nextId + 1
    /\ phase' = "reply" /\ reply' = reply + 1 /\ turnStarted' = FALSE
    /\ UNCHANGED <<streamVars, barVars, toolVars, closed, viewVars>>

\* The first delta of a request starts the turn: every diff in the log folds.
TurnStarts ==
    /\ turnStarted' = TRUE
    /\ closed' = IF turnStarted THEN closed
                 ELSE closed \cup Ids("diff")

\* A delta of the reasoning.
Think ==
    /\ phase = "reply" /\ thought < MaxDeltas /\ HasRoom(1)
    /\ thought' = thought + 1 /\ reBuf' = Append(reBuf, thought + 1)
    /\ TurnStarts
    /\ UNCHANGED <<log, nextId, said, asBuf, asId, reId, phase, reply,
                   barVars, toolVars, viewVars>>

\* A delta of the answer.
Say ==
    /\ phase = "reply" /\ said < MaxDeltas /\ HasRoom(1)
    /\ said' = said + 1 /\ asBuf' = Append(asBuf, said + 1)
    /\ TurnStarts
    /\ UNCHANGED <<log, nextId, thought, reBuf, asId, reId, phase, reply,
                   barVars, toolVars, viewVars>>

\* The log, the next id and the streaming ids after both buffers are flushed,
\* the answer first.
BothFlushed ==
    LET a == AnswerFlushed(log, nextId)
        r == ReasoningFlushed(a[1], a[2]) IN
    [log |-> r[1], next |-> r[2], as |-> a[3], re |-> r[3]]

\* Mutant of Finalized: the lines are released, the buffers are thrown away.
FinalizedUnflushed == [log |-> log, next |-> nextId, as |-> 0, re |-> 0]

\* onAssistantDone: the answer and the reasoning are flushed and released.
Finalized == [BothFlushed EXCEPT !.as = 0, !.re = 0]

Streams(f) == /\ log' = f.log /\ nextId' = f.next
              /\ asId' = f.as /\ reId' = f.re
              /\ asBuf' = <<>> /\ reBuf' = <<>>
              /\ UNCHANGED <<said, thought>>

\* The reply is complete and the turn is over.
AnswerEnds ==
    /\ phase = "reply" /\ turnStarted
    /\ Streams(Finalized)
    /\ phase' = "idle"
    /\ UNCHANGED <<reply, turnStarted, barVars, toolVars, closed, viewVars>>

\* The reply is complete and calls a tool: the streams are released, then the
\* call is a line of its own.
ToolStarts ==
    /\ phase = "reply" /\ HasRoom(1)
    /\ LET f == Finalized IN
       /\ Streams([f EXCEPT !.log = Push(@, f.next, "tool", <<>>), !.next = @ + 1])
       /\ toolId' = f.next
    /\ phase' = "tool"
    /\ TurnStarts
    /\ UNCHANGED <<reply, doneTools, barVars, viewVars>>

\* The call is done: a file it changed is shown as a diff, its line may fold,
\* and the next request is made.
ToolEnds ==
    /\ phase = "tool" /\ reply < MaxReplies
    /\ \/ UNCHANGED <<log, nextId>>
       \/ /\ HasRoom(1)
          /\ log' = Push(log, nextId, "diff", <<>>) /\ nextId' = nextId + 1
    /\ doneTools' = doneTools \cup {toolId} /\ toolId' = 0
    /\ phase' = "reply" /\ reply' = reply + 1 /\ turnStarted' = FALSE
    /\ UNCHANGED <<streamVars, barVars, closed, viewVars>>

\* The request fails or is cancelled: a line says so, and the turn ends or the
\* request is made again.  Nothing releases the streaming lines.
ReplyFails ==
    /\ phase = "reply" /\ HasRoom(1)
    /\ log' = Push(log, nextId, "status", <<>>) /\ nextId' = nextId + 1
    /\ \/ phase' = "idle" /\ UNCHANGED <<reply, turnStarted>>
       \/ /\ reply < MaxReplies /\ reply' = reply + 1
          /\ turnStarted' = FALSE /\ UNCHANGED phase
    /\ UNCHANGED <<streamVars, barVars, toolVars, closed, viewVars>>

-----------------------------------------------------------------------------
(* The tick and the slash commands. *)

\* Mutant of Ticking: only for a line that is already streaming.
TickingForALine == asId # 0 \/ reId # 0

\* The tick runs while a turn is busy or a line is streaming.
Ticking == phase # "idle" \/ asId # 0 \/ reId # 0

Tick ==
    /\ Ticking /\ (asBuf # <<>> \/ reBuf # <<>>)
    /\ Streams(BothFlushed)
    /\ UNCHANGED <<agentVars, barVars, toolVars, closed, viewVars>>

\* A line from a slash command or a notice.
Notice ==
    /\ HasRoom(1)
    /\ log' = Push(log, nextId, "status", <<>>) /\ nextId' = nextId + 1
    /\ UNCHANGED <<streamVars, agentVars, barVars, toolVars, closed, viewVars>>

\* Mutant of Redrawn: a line the cap has dropped is not added again.
RedrawnOnly(id, text) ==
    [i \in DOMAIN log |-> IF log[i].id = id THEN [log[i] EXCEPT !.text = text] ELSE log[i]]

\* The log and the id after an update of the bar: the line is rewritten in
\* place, and added again under its id when the cap has dropped it.
Redrawn(id, text) ==
    IF \E i \in DOMAIN log : log[i].id = id
    THEN [i \in DOMAIN log |-> IF log[i].id = id THEN [log[i] EXCEPT !.text = text] ELSE log[i]]
    ELSE Push(log, id, "bar", text)

\* An update of a running transfer; the first one takes a new id.
BarUpdate ==
    /\ updates < MaxUpdates /\ updates' = updates + 1
    /\ IF barId = 0
       THEN /\ HasRoom(1) /\ barId' = nextId /\ nextId' = nextId + 1
            /\ log' = Push(log, nextId, "bar", <<updates + 1>>)
       ELSE /\ log' = Redrawn(barId, <<updates + 1>>)
            /\ UNCHANGED <<barId, nextId>>
    /\ UNCHANGED <<streamVars, agentVars, toolVars, closed, viewVars>>

\* The transfer is over: the line stays, the next transfer takes another.
BarEnd ==
    /\ barId # 0 /\ barId' = 0
    /\ UNCHANGED <<log, nextId, updates, streamVars, agentVars, toolVars, closed, viewVars>>

-----------------------------------------------------------------------------
(* The user's view. *)

\* The wheel (three rows, one here) and the page keys move the offset within
\* what the last render allowed.
ScrolledBy(w, n) == MaxOf(0, MinOf(w.maxScroll, offset + n))

Scroll ==
    /\ LET w == Window IN
       \E n \in {-(LogHeight - 1), -1, 1, LogHeight - 1} : offset' = ScrolledBy(w, n)
    /\ offset' # offset
    /\ UNCHANGED <<log, nextId, streamVars, agentVars, barVars, toolVars, closed, drag>>

\* Shift+T: back to the newest line, said in a line of its own.
JumpToTail ==
    /\ Window.clamped > 0 /\ HasRoom(1)
    /\ offset' = 0
    /\ log' = Push(log, nextId, "status", <<>>) /\ nextId' = nextId + 1
    /\ UNCHANGED <<streamVars, agentVars, barVars, toolVars, closed, drag>>

\* A press over the log starts a selection, anchored in rows of the log; a
\* press elsewhere starts nothing.
Anchor(w, terminalRow) == LogRow(w, terminalRow)

PressLog ==
    /\ drag.kind = "none"
    /\ LET w == Window IN
       \E r \in 1..LogHeight :
         /\ IsLogBodyRow(w, r)
         /\ drag' = [kind |-> "still", pressed |-> TRUE,
                     anchor |-> Anchor(w, r), head |-> Anchor(w, r)]
    /\ UNCHANGED <<log, nextId, streamVars, agentVars, barVars, toolVars, closed, offset>>

\* Motion with the button held moves the head to the row under the pointer,
\* in the log or below it.  With no press tracked, an empty drag starts on
\* the first row drawn.
Motion ==
    /\ LET w == Window IN
       \E r \in 1..(LogHeight + 1) :
         drag' = IF drag.kind = "none"
                 THEN [kind |-> "stray", pressed |-> FALSE, anchor |-> w.start, head |-> w.start]
                 ELSE [drag EXCEPT !.kind = "rows", !.head = LogRow(w, r)]
    /\ UNCHANGED <<log, nextId, streamVars, agentVars, barVars, toolVars, closed, offset>>

Toggled(set, id) == IF id \in set THEN set \ {id} ELSE set \cup {id}

\* The release of a press that never moved is a click: it folds or opens the
\* diff under the pointer.
Click ==
    /\ drag.kind = "still" /\ drag' = NoDrag
    /\ LET w == Window IN
       \E r \in 1..LogHeight :
         LET id == w.rows[LogRow(w, r) + 1][1] IN
         IF IsLogBodyRow(w, r) /\ id \in Ids("diff")
         THEN closed' = Toggled(closed, id)
         ELSE UNCHANGED closed
    /\ UNCHANGED <<log, nextId, streamVars, agentVars, barVars, toolVars, offset>>

\* The rows a drag covers, read upwards or downwards.
Between(a, x, b) == a <= x /\ x <= b
Covered == {i \in DOMAIN AllRows : \/ Between(drag.anchor, i - 1, drag.head)
                                  \/ Between(drag.head, i - 1, drag.anchor)}

\* The release of a drag copies the rows it covers and says where the copy
\* went; a drag that covers nothing just ends.
Copy ==
    /\ drag.kind = "rows" /\ Covered # {} /\ drag' = NoDrag
    /\ HasRoom(1)
    /\ log' = Push(log, nextId, "status", <<>>) /\ nextId' = nextId + 1
    /\ UNCHANGED <<streamVars, agentVars, barVars, toolVars, closed, offset>>

NothingCopied ==
    /\ drag.kind = "stray" \/ (drag.kind = "rows" /\ Covered = {})
    /\ drag' = NoDrag
    /\ UNCHANGED <<log, nextId, streamVars, agentVars, barVars, toolVars, closed, offset>>

\* Ctrl+O flips the folds of the blocks drawn, once for each row of a block,
\* and says so.
Flipped ==
    LET w == Window
        drawn(id) == {i \in (w.start + 1)..w.end : w.rows[i][1] = id} IN
    {id \in Ids("diff") : Cardinality(drawn(id)) % 2 = 1}

FoldAll ==
    /\ HasRoom(1)
    /\ closed' = (closed \ Flipped) \cup (Flipped \ closed)
    /\ log' = Push(log, nextId, "status", <<>>) /\ nextId' = nextId + 1
    /\ UNCHANGED <<streamVars, agentVars, barVars, toolVars, viewVars>>

-----------------------------------------------------------------------------
ScreenNext ==
    \/ SubmitMessage \/ Think \/ Say \/ AnswerEnds \/ ToolStarts \/ ToolEnds \/ ReplyFails
    \/ Tick \/ Notice \/ BarUpdate \/ BarEnd
    \/ Scroll \/ JumpToTail \/ PressLog \/ Motion \/ Click
    \/ Copy \/ NothingCopied \/ FoldAll

ScreenSpec == ScreenInit /\ [][ScreenNext]_screenVars /\ WF_screenVars(Tick)

-----------------------------------------------------------------------------
(* Properties. *)

\* The deltas of a kind that the log holds, in the order it shows them.
Streamed(kind) == FlattenSeq([i \in DOMAIN log |-> IF log[i].kind = kind THEN log[i].text ELSE <<>>])
IsTailOf(text, n) == IsSuffix(text, [i \in 1..n |-> i])

\* What the log and the buffer hold of a stream is its end, every delta once
\* and in order, whatever was appended in between and whichever replies broke
\* off: only lines the cap dropped are missing.
StreamedTextIsKept ==
    /\ IsTailOf(Streamed("assistant") \o asBuf, said)
    /\ IsTailOf(Streamed("reasoning") \o reBuf, thought)
    /\ nextId <= MaxLogEntries + 1 =>
           /\ Len(Streamed("assistant") \o asBuf) = said
           /\ Len(Streamed("reasoning") \o reBuf) = thought

\* The rows drawn fit the box and end on its last row, and scrolled back as
\* far as it goes the first row of the log is drawn.
WindowFits ==
    LET w == Window IN
    /\ w.banner + (w.end - w.start) <= LogHeight
    /\ w.end > w.start => w.firstRow + (w.end - w.start) - 1 = LogHeight
    /\ offset >= w.maxScroll => w.start = 0
    /\ offset = 0 => w.end = Len(w.rows)

\* After an update the bar is one line of the log, with the newest text, even
\* when the cap had dropped it.
ProgressIsShown ==
    [][updates' # updates =>
         /\ \E i \in DOMAIN log' : log'[i].id = barId' /\ log'[i].text = <<updates'>>
         /\ \A i, j \in DOMAIN log' : log'[i].id = log'[j].id => i = j
         /\ barId # 0 => Len(log') <= Len(log) + (IF \E i \in DOMAIN log : log[i].id = barId
                                                 THEN 0 ELSE 1)]_screenVars

\* While a turn runs, streamed text does not stay in the buffer.
TextAppears == (phase # "idle" /\ asBuf # <<>>) ~> (asBuf = <<>> \/ phase = "idle")

\* In every state: the types, every streamed delta once and in order, and rows that fit.
ScreenInv == ScreenTypeOK /\ StreamedTextIsKept /\ WindowFits
=============================================================================
