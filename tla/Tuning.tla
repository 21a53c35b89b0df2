------------------------------- MODULE Tuning -------------------------------
(* The arithmetic that sizes a llama-server for a machine: tuneForHardware and  *)
(* threadPlan (src/setup/tuning.ts).  Memory is counted in units of 64 MiB, a    *)
(* context in blocks of 4096 tokens.                                           *)
(*                                                                             *)
(* A machine is [total, ram, cores, unified]: VRAM (0: no card), system memory,  *)
(* cores and whether the two memories are one.  A model is [moe, layers, per,    *)
(* real, kv, trained, header]: "per" is what the code takes a layer to cost, 90 %*)
(* of the file over its layers, "real" what it does cost; "kv" is the cache of a *)
(* block at four bits; "header" says whether the header of the file can be read. *)
EXTENDS Integers

CONSTANTS Machines, Models

All == 999        \* -ngl: every layer, and more than any model has

ASSUME TuningAssumption ==
    /\ Machines \subseteq [total : Nat, ram : Nat, cores : Nat \ {0}, unified : BOOLEAN]
    /\ Models \subseteq [moe : BOOLEAN, layers : Nat \ {0}, per : Nat \ {0}, real : Nat,
                         kv : Nat \ {0}, trained : Nat \ {0}, header : BOOLEAN]
    /\ \A m \in Models : m.real <= m.per /\ m.layers < All

MinBlocks == 1
GuessedMax == 8      \* 32768 tokens
ExactMax == 24       \* 98304 tokens

QuarterGiB == 4
HalfGiB == 8
OneGiB == 16
Q8Budget == 48       \* 3 GiB

Least(a, b) == IF a < b THEN a ELSE b
Most(a, b) == IF a > b THEN a ELSE b
CeilDiv(a, b) == -((-a) \div b)

\* The types of the cache: q4_0 and q8_0 (any other is taken to be f16).
Q4 == 4
Q8 == 8

\* The bytes of one element of the cache, as multiples of q4_0.
Factor(cache) == CASE cache = Q4 -> 1 [] cache = Q8 -> 2 [] OTHER -> 4

Size(m) == (m.per * m.layers * 10) \div 9

(***************************************************************************)
(* Threads: half the cores to generate and all but one to read a prompt when *)
(* a card does the arithmetic; all but one for both when it does not.         *)
(***************************************************************************)
ThreadPlan(cores, gpu) ==
    LET spare == cores - 1
    IN  IF gpu THEN [thr |-> Least(cores, Most(2, cores \div 2)),
                     tb |-> Least(cores, Most(2, spare))]
               ELSE [thr |-> Least(cores, Most(1, spare)),
                     tb |-> Least(cores, Most(1, spare))]

(***************************************************************************)
(* What may be spent: the card less a GiB for the desktop and the loading; on *)
(* a machine without a card a share of its memory.                            *)
(***************************************************************************)
BudgetOnPaper(machine, usable) == Most(HalfGiB, machine.total - OneGiB)
Budget(machine, usable) ==
    IF machine.total = 0 THEN Most(HalfGiB, (machine.ram * 6) \div 10)
    ELSE Most(HalfGiB, usable - OneGiB)

RamBudget(machine, m) == Most(0, machine.ram - (Size(m) * 115) \div 100)

CacheFor(budget) == IF budget >= Q8Budget THEN Q8 ELSE Q4

\* Without a header a block is taken to cost what its size class does.
GuessedBlock(m) ==
    CASE Size(m) <= 96 -> 5 [] Size(m) <= 192 -> 8 [] OTHER -> 19

BlockCost(m, cache) == IF m.header THEN m.kv * Factor(cache) ELSE GuessedBlock(m)

\* Kept for the weights: a quarter, or all of them when none can leave the card.
Reserve(machine, m, budget) ==
    LET share == Most(HalfGiB, budget \div 4)
    IN  CASE machine.total = 0 -> 0
          [] machine.total > 0 /\ m.header /\ ~m.moe ->
               Most(share, Least(Size(m) + HalfGiB, (budget * 9) \div 10))
          [] OTHER -> share

KvBudget(machine, m, budget) ==
    LET left == Most(QuarterGiB, budget - Reserve(machine, m, budget))
    IN  IF machine.total = 0
        THEN Least(left, Most(QuarterGiB, RamBudget(machine, m) - OneGiB)) ELSE left

Ceiling(m) == IF m.header THEN Least(ExactMax, m.trained) ELSE GuessedMax

\* A context the user raised is kept; a reset keeps one the budget still holds.
ContextFor(machine, m, budget, raised, again) ==
    LET room == KvBudget(machine, m, budget) \div BlockCost(m, CacheFor(budget))
        fits == Most(MinBlocks, Least(Ceiling(m), room))
        kept == Most(fits, raised)
    IN  IF again > kept /\ again <= room THEN again ELSE kept

\* A dense model puts on the card the share of its layers that fits beside the
\* cache.
LayersFor(machine, m, budget, ctx) ==
    LET room == budget - HalfGiB - ctx * BlockCost(m, CacheFor(budget))
    IN  CASE machine.total = 0 -> 0
          [] /\ machine.total > 0 /\ ~machine.unified /\ ~m.moe /\ m.header
             /\ room < Size(m) -> (m.layers * Most(0, room)) \div Size(m)
          [] OTHER -> All

\* Of a mixture of experts, layers whose experts stay in system memory: what was
\* measured, or a share of the layers a model of this kind is taken to have.
EstimatedLayers == 16
ExpertsAside(machine, m, ctx, cache, measured) ==
    LET block == IF m.header THEN BlockCost(m, cache) ELSE 19
        over == Size(m) + ctx * block - machine.total
    IN  CASE ~m.moe -> 0
          [] m.moe /\ measured > 0 -> measured
          [] /\ m.moe /\ measured = 0 /\ machine.total > 0 /\ ~machine.unified
             /\ over > 0 ->
               Most(1, Least((4 * EstimatedLayers) \div 10,
                             (2 * over * EstimatedLayers + Size(m)) \div (2 * Size(m))))
          [] OTHER -> 0

Tuned(machine, m, usable, raised, again, measured) ==
    LET budget == Budget(machine, usable)
        cache == CacheFor(budget)
        ctx == ContextFor(machine, m, budget, raised, again)
        threads == ThreadPlan(machine.cores, machine.total > 0)
    IN  [ngl |-> LayersFor(machine, m, budget, ctx), ctx |-> ctx,
         moe |-> ExpertsAside(machine, m, ctx, cache, measured),
         thr |-> threads.thr, tb |-> threads.tb, cache |-> cache, flash |-> 1]
=============================================================================
