-------------------------------- MODULE Prompt --------------------------------
(***************************************************************************)
(* The input box of the terminal UI (tui/App.tsx): what a read of stdin    *)
(* hands to the key handler, which of the questions on screen the key      *)
(* answers, and what it does to the message being typed, with its pasted   *)
(* blocks (tui/pasteChip.ts) and its history (tui/promptHistory.ts).       *)
(*                                                                         *)
(* A text is a sequence of cells.  A typed character is one cell; a label  *)
(* of a pasted block is two, so that the cursor can stand inside it; the   *)
(* content of a block is one.  The keys that only move the log are in      *)
(* Screen.                                                                 *)
(***************************************************************************)
EXTENDS Naturals, Sequences, FiniteSets, SequencesExt

CONSTANTS
  MaxHistory,  \* MAX_PROMPT_HISTORY
  MaxHeld,     \* the 64 characters bufferMouseChunk holds at most, in pieces
  MaxText,     \* bound: the cells of a message and its draft
  MaxSent,     \* bound: the cells of a message in the history
  MaxPastes,   \* bound: the pastes of a session
  Letters      \* the letters the user types: "y", "n" and "/" mean something, "space" and "c" do not

ASSUME PromptAssumption ==
  /\ {MaxHistory, MaxHeld, MaxText, MaxSent, MaxPastes} \subseteq Nat
  /\ MaxHistory > 0
  /\ Letters \subseteq {"c", "space", "/", "y", "n"}

VARIABLES
  stdin,     \* the pieces the terminal has sent and the program has not read
  held,      \* mouseBufferRef
  input, cursor,
  blocks,    \* pastedBlocks: from the number on a label to the paste it stands for
  pasted,    \* the pastes so far; pasteCounterRef is one more
  history, index, draft,  \* historyIndex counts back from the newest; 0 is -1 in the code
  menu,      \* menuOpen
  asked      \* the questions waiting for a key: approvalPending, resumeConfirmPending, ...

vars  == <<stdin, held, input, cursor, blocks, pasted, history, index, draft, menu, asked>>
text  == <<input, cursor>>
past  == <<history, index, draft>>
typed == <<text, blocks, pasted, past, menu>>

-----------------------------------------------------------------------------
(* Pieces of input.  A mouse report is ESC[<b;c (lead and body) and ;rM (end); *)
(* an arrow is ESC and its letter.  A read may end between any two pieces.   *)

Arrows   == {"up", "down", "left", "right", "word left", "word right"}
Controls == {"return", "backspace", "^A", "^E", "^K", "^U", "^W", "^C"}

Report  == <<"esc", "body", "end">>
Strokes == {Report, <<"esc">>, <<"paste">>} \cup {<<"esc", a>> : a \in Arrows}
             \cup {<<k>> : k \in Controls \cup Letters}
Bursts  == {Report, <<"y">> \o Report, <<"esc", "up">>}

Holds(s, a, b) == \E i \in 1 .. Len(s) - 1 : s[i] = a /\ s[i + 1] = b
HasReport(s)   == Holds(s, "body", "end")
HasLead(s)     == Holds(s, "esc", "body")

\* What Ink makes of one read: the key it names, and the text without its first ESC.
KeyOf(chunk) ==
  IF chunk = <<"esc">> THEN "esc"
  ELSE IF Len(chunk) = 2 /\ chunk[1] = "esc" /\ chunk[2] \in Arrows THEN chunk[2]
  ELSE IF Len(chunk) = 1 /\ chunk[1] \in Controls \cup Letters \cup {"paste"} THEN chunk[1]
  ELSE "text"
Stripped(chunk) == IF Head(chunk) = "esc" THEN Tail(chunk) ELSE chunk

\* The text of a key: what is printed of the pieces, in their order.
Printed(pieces) ==
  FlattenSeq([i \in 1 .. Len(pieces) |-> IF pieces[i] = "esc" THEN <<>> ELSE <<pieces[i]>>])

\* Mutant of Buffered: the earlier entry check, for whatever could be the start of a report.
BufferedFromBracket(chunk) ==
  held # <<>> \/ HasLead(Stripped(chunk))
    \/ (Stripped(chunk) # <<>> /\ Head(Stripped(chunk)) \in {"body"} \cup Arrows /\ KeyOf(chunk) = "text")

\* Does the chunk go through bufferMouseChunk?
Buffered(chunk) == held # <<>> \/ HasLead(Stripped(chunk))

-----------------------------------------------------------------------------
(* Texts. *)

Cells         == [kind : {"char", "space", "open", "close", "content"}, n : Nat]
Cell(kind, n) == [kind |-> kind, n |-> n]
Label(n)      == <<Cell("open", n), Cell("close", n)>>
Words(pieces) == [i \in 1 .. Len(pieces) |-> Cell(IF pieces[i] = "space" THEN "space" ELSE "char", 0)]

Before == SubSeq(input, 1, cursor)
After  == SubSeq(input, cursor + 1, Len(input))
Blank(t) == \A i \in 1 .. Len(t) : t[i].kind = "space"

Greatest(S) == CHOOSE i \in S : \A j \in S : i >= j
Least(S)    == CHOOSE i \in S : \A j \in S : i <= j

\* wordLeft and wordRight: over spaces, then over a word.  A label holds a space, between its
\* two cells.
WordLeft(t, p) ==
  Greatest({0} \cup {q \in 1 .. p - 1 : /\ t[q].kind \in {"space", "open"}
                                        /\ \E r \in q + 1 .. p : t[r].kind # "space"})
WordRight(t, p) ==
  Least({Len(t)} \cup {q \in p + 1 .. Len(t) - 1 : /\ t[q].kind # "space"
                                                   /\ t[q].kind = "open" \/ t[q + 1].kind = "space"})

LabelAt(t, i) == i \in 1 .. Len(t) - 1 /\ t[i].kind = "open" /\ t[i + 1] = Cell("close", t[i].n)
LabelsOf(t)   == {t[i].n : i \in {j \in 1 .. Len(t) : LabelAt(t, j)}}

\* Mutant of Trailing: any block whose label is in the text.
Contained(t) == DOMAIN blocks \cap LabelsOf(t)

\* findTrailingPlaceholder: the block whose label ends the text.
Trailing(t) == {n \in DOMAIN blocks : IsSuffix(Label(n), t)}

\* substitutePlaceholders: every label of a known block gives way to the block.
Resolved(t) ==
  LET Known(i) == LabelAt(t, i) /\ t[i].n \in DOMAIN blocks
  IN  FlattenSeq([i \in 1 .. Len(t) |->
        IF Known(i) THEN <<Cell("content", blocks[t[i].n])>>
        ELSE IF i > 1 /\ Known(i - 1) THEN <<>> ELSE <<t[i]>>])

Without(n) == [m \in DOMAIN blocks \ {n} |-> blocks[m]]

\* appendHistory: not the same text twice in a row, and the oldest falls off.
Remembered(t) ==
  IF history # <<>> /\ Last(history) = t THEN history
  ELSE LET all == Append(history, t) IN SubSeq(all, 1 + IF Len(all) > MaxHistory THEN 1 ELSE 0, Len(all))

-----------------------------------------------------------------------------
(* Questions.  All of them can wait at once; the status line shows one. *)

Questions == {"quitting", "approval", "resume", "quit"}

\* singleLineStatus: what the user sees instead of the message.
Shown ==
  IF "quitting" \in asked THEN "quitting" ELSE IF "approval" \in asked THEN "approval"
  ELSE IF "resume" \in asked THEN "resume" ELSE IF "quit" \in asked THEN "quit" ELSE "none"

\* Mutant of Answering: the question about leaving comes before the approval.
AnsweringQuitFirst ==
  IF "quitting" \in asked THEN "quitting" ELSE IF "quit" \in asked THEN "quit"
  ELSE IF "approval" \in asked THEN "approval" ELSE IF "resume" \in asked THEN "resume" ELSE "none"

\* The question a key goes to, in the order of the key handler.
Answering ==
  IF "quitting" \in asked THEN "quitting"
  ELSE IF "approval" \in asked THEN "approval"
  ELSE IF "resume" \in asked THEN "resume"
  ELSE IF "quit" \in asked THEN "quit" ELSE "none"

\* "y" stands for the "a" of an approval too.  Leaving saves first, and waits for it.
Answer(key) ==
  asked' = IF Answering \in {"approval", "resume", "quit"} /\ key \in {"y", "n", "esc"}
             THEN (asked \ {Answering}) \cup
                  IF Answering = "quit" /\ key = "y" THEN {"quitting"} ELSE {}
             ELSE asked

-----------------------------------------------------------------------------
(* Keys. *)

Becomes(t, p) == input' = t /\ cursor' = p

\* The slash menu: what is typed filters its items, and a chosen item is a command.
MenuKey(key, chars) ==
  /\ CASE key = "return" ->
            \/ Becomes(<<>>, 0) /\ menu' = FALSE
            \/ Len(input) > 1 /\ UNCHANGED <<text, menu>>
       [] key = "esc" \/ (key = "backspace" /\ Len(input) <= 1) ->
            Becomes(<<>>, 0) /\ menu' = FALSE
       [] key = "backspace" /\ Len(input) > 1 ->
            Becomes(Front(input), IF cursor = 0 THEN 0 ELSE cursor - 1) /\ UNCHANGED menu
       [] key \in Arrows \cup (Controls \ {"return", "backspace"}) -> UNCHANGED <<text, menu>>
       [] OTHER -> Becomes(input \o Words(chars), cursor + Len(chars)) /\ UNCHANGED menu
  /\ UNCHANGED <<blocks, pasted, past>>

\* Ctrl-K drops the rest of the line, and the block whose label is all it drops.
CutToEnd ==
  /\ blocks' = IF Trailing(After) # {} /\ LabelAt(After, 1) THEN Without(After[1].n) ELSE blocks
  /\ Becomes(Before, cursor)
  /\ UNCHANGED <<pasted, past, menu>>

Edit(key) ==
  /\ CASE key = "^A" -> Becomes(input, 0)
       [] key = "^E" -> Becomes(input, Len(input))
       [] key = "^U" -> Becomes(After, 0)
       [] key = "^W" -> LET p == WordLeft(input, cursor) IN Becomes(SubSeq(input, 1, p) \o After, p)
       [] key = "left" -> Becomes(input, IF cursor = 0 THEN 0 ELSE cursor - 1)
       [] key = "right" -> Becomes(input, IF cursor < Len(input) THEN cursor + 1 ELSE cursor)
       [] key = "word left" -> Becomes(input, WordLeft(input, cursor))
       [] key = "word right" -> Becomes(input, WordRight(input, cursor))
  /\ UNCHANGED <<blocks, pasted, past, menu>>

\* Recalled text: cursor to the end.
AtEnd(t) == Len(t)

\* Up and Down go through the history; what was being typed waits below its newest entry.  (The
\* code keeps the draft after that, but never reads it again.)
Recall(key) ==
  LET to == IF key = "up" THEN index + 1 ELSE index - 1
      t  == IF to = 0 THEN draft ELSE history[Len(history) + 1 - to]
  IN  IF history # <<>> /\ to \in 0 .. Len(history)
        THEN /\ index' = to
             /\ draft' = IF index = 0 THEN input ELSE IF to = 0 THEN <<>> ELSE draft
             /\ Becomes(t, AtEnd(t))
             /\ UNCHANGED <<history, blocks, pasted, menu>>
        ELSE UNCHANGED typed

\* Enter: the message goes to the loop, or into its queue, with its blocks in full.
Submit ==
  IF Blank(input) THEN UNCHANGED typed
  ELSE /\ Len(Resolved(input)) <= MaxSent
       /\ history' = Remembered(Resolved(input))
       /\ index' = 0 /\ draft' = <<>>
       /\ Becomes(<<>>, 0)
       /\ UNCHANGED <<blocks, pasted, menu>>

\* A label at the end of the text goes as a whole, and its block with it.
Backspace ==
  LET whole == cursor = Len(input) /\ Trailing(input) # {}
      width == IF whole THEN 2 ELSE IF cursor > 0 THEN 1 ELSE 0
  IN  /\ Becomes(SubSeq(input, 1, cursor - width) \o After, cursor - width)
      /\ blocks' = IF whole THEN Without(CHOOSE n \in Trailing(input) : TRUE) ELSE blocks
      /\ UNCHANGED <<pasted, past, menu>>

\* pasteCounterRef
NextNumber == 1 + pasted

Paste ==
  /\ pasted < MaxPastes
  /\ pasted' = pasted + 1
  /\ blocks' = [n \in DOMAIN blocks \cup {NextNumber} |->
                  IF n = NextNumber THEN 1 + pasted ELSE blocks[n]]
  /\ Becomes(Before \o Label(NextNumber) \o After, cursor + 2)
  /\ UNCHANGED <<past, menu>>

OpenMenu ==
  /\ Becomes(Words(<<"/">>), 1)
  /\ menu' = TRUE
  /\ UNCHANGED <<blocks, pasted, past>>

Type(chars) ==
  /\ Becomes(Before \o Words(chars) \o After, cursor + Len(chars))
  /\ UNCHANGED <<blocks, pasted, past, menu>>

MessageKey(key, chars) ==
  CASE key = "^K" -> CutToEnd
    [] key \in {"^A", "^E", "^U", "^W", "left", "right", "word left", "word right"} -> Edit(key)
    [] key \in {"up", "down"} -> Recall(key)
    [] key = "return" -> Submit
    [] key = "backspace" -> Backspace
    [] key = "/" /\ input = <<>> -> OpenMenu
    [] key = "paste" -> Paste
    [] OTHER -> Type(chars)

-----------------------------------------------------------------------------
(* The handler. *)

\* One call of the key handler, with the text that is left when the mouse reports are out.
\* While the session is being saved, Esc and Ctrl-C end it: Restart.
Key(key, chars) ==
  CASE "quitting" \in asked -> UNCHANGED <<typed, asked>>
    [] key = "^C" /\ "quitting" \notin asked -> UNCHANGED <<typed, asked>>
    [] asked # {} /\ "quitting" \notin asked /\ key # "^C" -> Answer(key) /\ UNCHANGED typed
    [] asked = {} /\ menu /\ key # "^C" -> MenuKey(key, chars) /\ UNCHANGED asked
    [] asked = {} /\ ~menu /\ key = "esc" -> asked' = {"quit"} /\ UNCHANGED typed
    [] OTHER -> MessageKey(key, chars) /\ UNCHANGED asked

\* What one read hands to the handler: a chunk with a whole report is that report and nothing
\* else, one whose report is not whole yet is kept, one that grew too long is dropped.
Handle(chunk) ==
  LET char     == Stripped(chunk)
      combined == held \o char
  IN  /\ IF Buffered(chunk)
           THEN /\ held' = IF HasReport(combined) \/ Len(combined) >= MaxHeld THEN <<>> ELSE combined
                /\ UNCHANGED <<typed, asked>>
           ELSE /\ UNCHANGED held
                /\ IF HasReport(char) THEN UNCHANGED <<typed, asked>>
                   ELSE Key(KeyOf(chunk), Printed(char))
      /\ Len(input') + Len(draft') <= MaxText

\* A stroke is read as it comes, or what the terminal sends is read in other portions.
Press(s) ==
  /\ stdin = <<>>
  /\ Handle(s)
  /\ UNCHANGED stdin

Burst(s) ==
  /\ stdin = <<>>
  /\ stdin' = s
  /\ UNCHANGED <<held, typed, asked>>

Read(k) ==
  /\ Handle(SubSeq(stdin, 1, k))
  /\ stdin' = SubSeq(stdin, k + 1, Len(stdin))

\* The questions the rest of the program asks.
AskApproval ==
  /\ {"approval", "quitting"} \cap asked = {}
  /\ asked' = asked \cup {"approval"}
  /\ UNCHANGED <<stdin, held, typed>>

\* /quit, and the signals.
BeginQuitting ==
  /\ "quitting" \notin asked
  /\ asked' = asked \cup {"quitting"}
  /\ UNCHANGED <<stdin, held, typed>>

\* The session ends and the next begins: the history is on disk, unless its last write was cut
\* short.
Restart ==
  /\ "quitting" \in asked
  /\ \E asks \in {{}, {"resume"}}, kept \in {history, <<>>} :
       asked' = asks /\ history' = kept
  /\ stdin' = <<>> /\ held' = <<>>
  /\ Becomes(<<>>, 0) /\ blocks' = <<>> /\ pasted' = 0
  /\ index' = 0 /\ draft' = <<>> /\ menu' = FALSE

Init ==
  /\ stdin = <<>> /\ held = <<>>
  /\ input = <<>> /\ cursor = 0 /\ blocks = <<>> /\ pasted = 0
  /\ history = <<>> /\ index = 0 /\ draft = <<>>
  /\ menu = FALSE /\ asked = {}

Next ==
  \/ \E s \in Strokes : Press(s)
  \/ \E s \in Bursts : Burst(s)
  \/ \E k \in 1 .. Len(stdin) : Read(k)
  \/ AskApproval \/ BeginQuitting
  \/ Restart

Spec == Init /\ [][Next]_vars

-----------------------------------------------------------------------------
Pieces == {"esc", "body", "end", "paste", "y"} \cup Arrows \cup Controls \cup Letters

\* The type of every variable; the cursor stands inside the message after every key.
TypeOK ==
  /\ stdin \in Seq(Pieces) /\ held \in Seq(Pieces)
  /\ input \in Seq(Cells) /\ cursor \in 0 .. Len(input)
  /\ pasted \in 0 .. MaxPastes
  /\ DOMAIN blocks \subseteq 1 .. pasted /\ \A n \in DOMAIN blocks : blocks[n] \in Nat
  /\ history \in Seq(Seq(Cells)) /\ Len(history) <= MaxHistory
  /\ index \in 0 .. Len(history) /\ draft \in Seq(Cells)
  /\ menu \in BOOLEAN /\ asked \subseteq Questions

\* The labels of the message being typed, and of the draft that waits while the history is
\* read.
Attached == LabelsOf(input) \cup IF index > 0 THEN LabelsOf(draft) ELSE {}

\* The numbers on the labels, or on parts of them, that the history has kept: a label somebody
\* wrote into is not replaced when it is sent, and the next session counts from 1 again.
Opened(t) == {t[i].n : i \in {j \in 1 .. Len(t) : t[j].kind = "open"}}
Recorded  == UNION {Opened(history[i]) : i \in 1 .. Len(history)}

\* A label that stays in the message, or in its draft, keeps the block it was made for, whatever
\* is pasted, cut, recalled or sent around it (App.tsx:1856-1966): the block is sent in its place.
\* Only a label that the history can bring back a second time may lose it to its double.
PastesStayAttached ==
  [][\A n \in (Attached \cap Attached' \cap DOMAIN blocks) \ Recorded :
       n \in DOMAIN blocks' /\ blocks'[n] = blocks[n]]_vars

\* The keyboard is never swallowed by the reassembly of mouse reports: what is held back is the
\* start of a report whose end is the very next input (App.tsx:612-631).
KeyboardIsNeverHeld ==
  held # <<>> => stdin # <<>> /\ Head(stdin) = "end"

\* A key answers the question the status line shows, and no other (App.tsx:1561-1636 and
\* 2051-2059 order them each on their own), and changes nothing of the message below it.
AnswersGoToTheQuestionShown ==
  [][Shown \notin {"none", "quitting"} =>
       asked \ asked' \subseteq {Shown} /\ typed' = typed]_vars

\* In every state: the types, a cursor inside the message, and a keyboard that is heard.
PromptInv == TypeOK /\ KeyboardIsNeverHeld
=============================================================================
