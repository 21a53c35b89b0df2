------------------------------ MODULE ChatClient ------------------------------
(***************************************************************************)
(* The client of the model server (src/src/backend/openaiClient.ts) with   *)
(* what shares its one AbortController field: the requests of the agent    *)
(* loop's task chain and the warm prefill, which runs outside the chain    *)
(* (src/src/agent/loop.ts), and the summary request of a compaction        *)
(* (src/src/compaction/compactor.ts).                                      *)
(*                                                                         *)
(* A step is one callback: a chunk, a header, a timer, a key of the user,  *)
(* or a stretch of the running task between two awaits.  An abort rejects  *)
(* its request in the microtasks that follow, before the next I/O event:   *)
(* an aborted request that is not rejected yet holds back the task's next  *)
(* request, which every path reaches only after an I/O of its own.  A body *)
(* that is streaming may still hand out a chunk it had buffered.           *)
(*                                                                         *)
(* Abstracted: text, token counts other than the number of deltas, and     *)
(* the loop's reasons to retry, compact or stop, which are choices.        *)
(***************************************************************************)
EXTENDS Naturals

CONSTANTS
  MaxTokens,      \* req.max_tokens, in deltas
  DeltasPerChunk, \* bound: deltas one read of the body brings
  Deadline,       \* whether thresholds.summaryDeadlineMs is set
  WarmPrefill     \* thresholds.warmPrefill

ASSUME ConstantsAssumption ==
  /\ MaxTokens \in Nat \ {0} /\ DeltasPerChunk \in Nat \ {0}
  /\ Deadline \in BOOLEAN /\ WarmPrefill \in BOOLEAN

\* main: the request of the running task; warm: the warm prefill.
Requests == {"main", "warm"}
Phases   == {"none", "connecting", "errorBody", "jsonBody", "streaming"}
\* The reason of the request's AbortController, "no" while it is not aborted.
Reasons  == {"no", "user", "timer"}
Tasks    == {"idle", "send", "compact", "warm"}
Asking   == {"nothing", "compaction", "summary", "turn"}
Answers  == {"whole", "length"}
\* The tool calls streamed so far.  bare: of one only the name has come, and the arguments of
\* the others parse; cut: some arguments have begun and do not parse.
Calls    == {"none", "whole", "bare", "cut"}
Outcomes == Answers \cup {"none", "cancelled", "timeout", "idle", "error", "broken", "aborted"}

VARIABLES
  chain,         \* the task the chain runs
  asking,        \* what it awaits: the I/O before a summary, a summary, a turn's answer
  phase,         \* where each request is
  why,           \* its controller.signal.reason
  current,       \* currentChatController
  warmPrefill,   \* loop.warmPrefill # null
  deltas,        \* deltaCount
  toolCalls,     \* toolCalls, a member of Calls
  idleTimedOut,
  deadlineHit,
  silent,        \* the server sends nothing more on this stream
  outcome        \* how the task's last request ended

stream     == <<deltas, toolCalls, idleTimedOut, deadlineHit, silent>>
client     == <<phase, why, current, stream, outcome>>
clientVars == <<chain, asking, warmPrefill, client>>

InFlight(r) == phase[r] # "none"
Aborted(r)  == why[r] # "no"

-----------------------------------------------------------------------------
(* The client *)

\* controller.abort(reason): the first reason stays.
AbortedFor(r, reason) == [why EXCEPT ![r] = IF InFlight(r) /\ @ = "no" THEN reason ELSE @]

\* cancel(): the controller of whatever request is current.
CancelCurrent ==
  why' = IF current = "nobody" THEN why ELSE AbortedFor(current, "user")

\* The request r is over; its finally block clears the field where there is one.
Ended(r, clears) ==
  /\ phase' = [phase EXCEPT ![r] = "none"]
  /\ why' = [why EXCEPT ![r] = "no"]
  /\ current' = IF clears THEN "nobody" ELSE current

\* The mutant trusts a stream that ended by itself.
ReportedUnlessCapped(how, cs) == IF how = "length" /\ cs = "cut" THEN "broken" ELSE how
\* What streamChat makes of an ending once the body is over: arguments that have begun and do
\* not parse are an error, however the body ended; a call without any passes.
Reported(how, cs) == IF how \in Answers /\ cs = "cut" THEN "broken" ELSE how

\* The task's request ends as how; the task goes on.
Answered(how, clears) ==
  /\ Ended("main", clears)
  /\ outcome' = Reported(how, toolCalls')
  /\ asking' = "nothing"
  /\ UNCHANGED <<chain, warmPrefill, deltas, idleTimedOut, deadlineHit, silent>>

\* streamChat from its start to the connection.
Ask(what) ==
  /\ asking' = what
  /\ phase' = [phase EXCEPT !["main"] = "connecting"]
  /\ why' = [why EXCEPT !["main"] = "no"]
  /\ current' = "main"
  /\ deltas' = 0 /\ toolCalls' = "none"
  /\ idleTimedOut' = FALSE /\ deadlineHit' = FALSE /\ silent' = FALSE
  /\ outcome' = "none"
  /\ UNCHANGED <<chain, warmPrefill>>

\* The response's head arrives in time: a stream, or a status that is not ok.
Connects ==
  /\ phase["main"] = "connecting" /\ ~Aborted("main")
  /\ \E p \in {"streaming", "errorBody"} : phase' = [phase EXCEPT !["main"] = p]
  /\ UNCHANGED <<chain, asking, warmPrefill, why, current, stream, outcome>>

\* connectTimer; fetchWithTimeout's timer for the prefill.
ConnectTimerFires(r) ==
  /\ phase[r] = "connecting" /\ ~Aborted(r)
  /\ why' = AbortedFor(r, "timer")
  /\ UNCHANGED <<chain, asking, warmPrefill, phase, current, stream, outcome>>

\* The body of an error status has been read: the request fails and the field stays set.
ErrorBodyRead ==
  /\ phase["main"] = "errorBody" /\ ~Aborted("main")
  /\ UNCHANGED toolCalls
  /\ Answered("error", FALSE)

\* The connection breaks.
ConnectionBreaks ==
  /\ InFlight("main") /\ ~Aborted("main")
  /\ UNCHANGED toolCalls
  /\ Answered("error", phase["main"] = "streaming")

\* The cap on what a server that ignores max_tokens may send.
Capped(n) == n >= MaxTokens

\* A chunk with deltas of text, of reasoning or of tool calls.  Its lines are all taken before
\* the cap is looked at; the chunk that reaches it ends the request.
Delta ==
  /\ phase["main"] = "streaming" /\ ~silent
  /\ toolCalls' \in {toolCalls, "whole", "bare", "cut"}
  /\ \E n \in 1..DeltasPerChunk : deltas' = deltas + n
  /\ IF Capped(deltas')
     THEN /\ Ended("main", TRUE)
          /\ outcome' = Reported("length", toolCalls')
          /\ asking' = "nothing"
     ELSE UNCHANGED <<phase, why, current, outcome, asking>>
  /\ UNCHANGED <<chain, warmPrefill, idleTimedOut, deadlineHit, silent>>

\* An error object in a data line of a stream whose status was ok.
ErrorChunk ==
  /\ phase["main"] = "streaming" /\ ~silent
  /\ UNCHANGED toolCalls
  /\ Answered("error", TRUE)

\* The body ends by itself.
StreamEnds ==
  /\ phase["main"] = "streaming" /\ ~silent /\ ~Aborted("main")
  /\ UNCHANGED toolCalls
  /\ Answered("whole", TRUE)

\* The server stops sending without closing the connection.
GoesSilent ==
  /\ phase["main"] = "streaming" /\ ~silent
  /\ silent' = TRUE
  /\ UNCHANGED <<chain, asking, warmPrefill, phase, why, current, deltas, toolCalls,
                 idleTimedOut, deadlineHit, outcome>>

\* The mutant arms it only when a chunk has come.
IdleTimerArmedByChunk == deltas > 0
\* The idle timer is armed before the first chunk and again by each.
IdleTimerArmed == TRUE
IdleTimerFires ==
  /\ phase["main"] = "streaming" /\ silent /\ ~idleTimedOut /\ IdleTimerArmed
  /\ idleTimedOut' = TRUE
  /\ why' = AbortedFor("main", "timer")
  /\ UNCHANGED <<chain, asking, warmPrefill, phase, current, deltas, toolCalls, deadlineHit,
                 silent, outcome>>

\* The absolute ceiling of a summary, counted from the connection.
DeadlineFires ==
  /\ Deadline /\ asking = "summary" /\ phase["main"] = "streaming" /\ ~deadlineHit
  /\ deadlineHit' = TRUE
  /\ why' = AbortedFor("main", "timer")
  /\ UNCHANGED <<chain, asking, warmPrefill, phase, current, deltas, toolCalls, idleTimedOut,
                 silent, outcome>>

\* The mutant looks at the idle flag first.
AbortMeaningIdleFirst(reason) ==
  IF idleTimedOut THEN "idle" ELSE IF reason = "user" THEN "cancelled" ELSE "length"
\* What the catch around the stream makes of the AbortError; a deadline is an answer.
AbortMeaning(reason) ==
  IF reason = "user" THEN "cancelled" ELSE IF idleTimedOut THEN "idle" ELSE "length"

\* The AbortError reaches the task's request.  In the body of an error status nothing tells a
\* cancel from a timer.
MainRejected ==
  /\ InFlight("main") /\ Aborted("main")
  /\ UNCHANGED toolCalls
  /\ \/ /\ phase["main"] = "connecting"
        /\ Answered(IF why["main"] = "user" THEN "cancelled" ELSE "timeout", FALSE)
     \/ /\ phase["main"] = "errorBody"
        /\ Answered("aborted", FALSE)
     \/ /\ phase["main"] = "streaming"
        /\ Answered(AbortMeaning(why["main"]), TRUE)

-----------------------------------------------------------------------------
(* The warm prefill *)

\* compact() has returned: its request has ended or, when a file failed, was never made.  It
\* returns the same way when it failed.
CompactReturned == asking = "compaction" \/ (asking = "nothing" /\ outcome # "none")

\* startWarmPrefill, the last thing a warm compaction does: chat() without streaming.
StartWarmPrefill ==
  /\ chain = "warm" /\ CompactReturned /\ ~Aborted("warm")
  /\ WarmPrefill /\ ~warmPrefill
  /\ chain' = "idle" /\ asking' = "nothing"
  /\ warmPrefill' = TRUE
  /\ phase' = [phase EXCEPT !["warm"] = "connecting"]
  /\ why' = [why EXCEPT !["warm"] = "no"]
  /\ current' = "warm"
  /\ UNCHANGED <<stream, outcome>>

\* The mutant forgets the prefill without aborting it.
ForgetWarmPrefill ==
  /\ warmPrefill' = FALSE
  /\ UNCHANGED why
\* stopWarmPrefill: a no-op without a prefill.
StopWarmPrefill ==
  /\ warmPrefill' = FALSE
  /\ IF warmPrefill THEN CancelCurrent ELSE UNCHANGED why

WarmConnects ==
  /\ phase["warm"] = "connecting" /\ ~Aborted("warm")
  /\ \E p \in {"jsonBody", "errorBody"} : phase' = [phase EXCEPT !["warm"] = p]
  /\ UNCHANGED <<chain, asking, warmPrefill, why, current, stream, outcome>>

\* The prefill answers, fails or is aborted: its finally clears the field, run.finally forgets it.
WarmEnds ==
  /\ InFlight("warm")
  /\ Ended("warm", TRUE)
  /\ warmPrefill' = FALSE
  /\ UNCHANGED <<chain, asking, stream, outcome>>

-----------------------------------------------------------------------------
(* The task chain *)

\* send() and /compact by the user, a warm compaction after a turn; send stops the prefill first.
BeginTask ==
  /\ chain = "idle"
  /\ chain' \in Tasks \ {"idle"}
  /\ outcome' = "none"
  /\ IF chain' = "send" THEN StopWarmPrefill ELSE UNCHANGED <<warmPrefill, why>>
  /\ UNCHANGED <<asking, phase, current, stream>>

\* compact(): from its start, or from a failed attempt, to the I/O before its request.
Compact ==
  /\ chain # "idle" /\ asking = "nothing"
  /\ asking' = "compaction"
  /\ StopWarmPrefill
  /\ UNCHANGED <<chain, phase, current, stream, outcome>>

AskSummary == asking = "compaction" /\ ~Aborted("warm") /\ Ask("summary")
AskTurn    == chain = "send" /\ asking = "nothing" /\ ~Aborted("warm") /\ Ask("turn")

\* The task has what it wanted, or gives up.
EndTask ==
  /\ chain # "idle" /\ asking \in {"nothing", "compaction"}
  /\ chain' = "idle" /\ asking' = "nothing"
  /\ UNCHANGED <<warmPrefill, client>>

\* cancelCurrentTurn: at any time.
Cancel ==
  /\ CancelCurrent
  /\ UNCHANGED <<chain, asking, warmPrefill, phase, current, stream, outcome>>

-----------------------------------------------------------------------------
ClientInit ==
  /\ chain = "idle" /\ asking = "nothing"
  /\ phase = [r \in Requests |-> "none"]
  /\ why = [r \in Requests |-> "no"]
  /\ current = "nobody" /\ warmPrefill = FALSE
  /\ deltas = 0 /\ toolCalls = "none"
  /\ idleTimedOut = FALSE /\ deadlineHit = FALSE /\ silent = FALSE
  /\ outcome = "none"

ClientNext ==
  \/ Connects \/ (\E r \in Requests : ConnectTimerFires(r)) \/ ErrorBodyRead
  \/ ConnectionBreaks \/ Delta \/ ErrorChunk \/ StreamEnds \/ GoesSilent
  \/ IdleTimerFires \/ DeadlineFires \/ MainRejected
  \/ StartWarmPrefill \/ WarmConnects \/ WarmEnds
  \/ BeginTask \/ Compact \/ AskSummary \/ AskTurn \/ EndTask \/ Cancel

\* Timers fire, rejections are delivered, a started error body is sent or its connection closed
\* (no timer of the code bounds it), and a stream that lives does not consist of keep-alive
\* lines alone (they re-arm the idle timer).
Fairness ==
  /\ WF_clientVars(ConnectTimerFires("main"))
  /\ WF_clientVars(IdleTimerFires)
  /\ WF_clientVars(MainRejected)
  /\ WF_clientVars(ErrorBodyRead)
  /\ WF_clientVars(Delta \/ StreamEnds \/ GoesSilent)

ClientSpec == ClientInit /\ [][ClientNext]_clientVars
FairSpec == ClientSpec /\ Fairness

-----------------------------------------------------------------------------
(* Properties *)

\* Every variable keeps its type, and the deltas taken exceed max_tokens by less than a chunk.
ClientTypeOK ==
  /\ chain \in Tasks /\ asking \in Asking
  /\ phase \in [Requests -> Phases]
  /\ why \in [Requests -> Reasons]
  /\ current \in Requests \cup {"nobody"}
  /\ warmPrefill \in BOOLEAN
  /\ deltas \in 0..(MaxTokens + DeltasPerChunk - 1)
  /\ toolCalls \in Calls
  /\ idleTimedOut \in BOOLEAN /\ deadlineHit \in BOOLEAN /\ silent \in BOOLEAN
  /\ outcome \in Outcomes

\* A request in flight is the one cancel() reaches: the prefill, which runs outside the chain,
\* and a request of the chain are never in flight together (loop.ts:785-789), and the end of
\* the one never clears the field under the other.
OneController == \A r \in Requests : InFlight(r) => current = r

\* No tool call whose arguments were cut off is handed to the loop as an answer, however the
\* stream ended: the server would reject every later request that carries it.  A call cut off
\* before its arguments began is handed over: the check skips empty arguments, which a tool
\* without parameters may have (streamChat, executeTool).
BrokenCallIsNoAnswer == ~InFlight("main") /\ outcome \in Answers => toolCalls # "cut"

\* A request the user cancelled is never reported as a time-out, which the loop would retry.
CancelIsReported ==
  [][InFlight("main") /\ ~InFlight("main")' /\ why["main"] = "user"
       => outcome' \notin {"timeout", "idle"}]_clientVars

\* Every request ends, whether the server connects, answers, ends, goes silent or sends for ever.
RequestsEnd == InFlight("main") ~> ~InFlight("main")
=============================================================================
