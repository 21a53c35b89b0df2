------------------------------ MODULE TaskChain ------------------------------
(***************************************************************************)
(* What AgentLoop.enqueue (src/src/agent/loop.ts) promises its callers: a  *)
(* serial queue.  Tasks run one at a time, in the order they were added;   *)
(* a task that settles, resolved or rejected, leaves the queue and lets    *)
(* the next one start; a caller may add follow-ups when its task settles.  *)
(***************************************************************************)
EXTENDS Naturals, Sequences

CONSTANTS
  Tasks,          \* the kinds of task
  FollowUps(_),   \* what the caller of a task adds when it settles
  Restarts        \* what a new process may start with, a set of sequences of Tasks

VARIABLES
  chain,          \* tasks added and not settled
  running         \* has the task at the head started?

vars == <<chain, running>>

Init == chain = <<>> /\ running = FALSE

Add(task) == chain' = Append(chain, task) /\ UNCHANGED running

Start == ~running /\ chain # <<>> /\ running' = TRUE /\ UNCHANGED chain

\* A task without an await of its own starts and settles in one step.
Settle ==
  /\ chain # <<>>
  /\ running' = FALSE
  /\ chain' = Tail(chain) \o FollowUps(Head(chain))

Reset == chain' \in Restarts /\ running' = FALSE

Next == (\E task \in Tasks : Add(task)) \/ Start \/ Settle \/ Reset

Spec == Init /\ [][Next]_vars /\ WF_vars(Start)
=============================================================================
