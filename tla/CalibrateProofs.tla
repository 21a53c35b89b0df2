-------------------------- MODULE CalibrateProofs --------------------------
(***************************************************************************)
(* What sizing and calibration promise for every machine, model, load of   *)
(* other programs and history of restarts.  The arithmetic is that of      *)
(* shares: a number of layers times their price never exceeds the memory   *)
(* it was divided from (Share), whatever the rounding.                     *)
(***************************************************************************)
EXTENDS Calibrate, TLAPS

Fields == {"ngl", "ctx", "moe", "thr", "tb", "cache", "flash"}

-----------------------------------------------------------------------------
(* Arithmetic. *)

LEMMA DivFacts ==
  ASSUME NEW x \in Int, NEW y \in Nat \ {0}
  PROVE  /\ x \div y \in Int /\ y * (x \div y) <= x /\ x < y * (x \div y) + y
         /\ x >= 0 => x \div y >= 0
  <1>1. x \div y \in Int /\ y * (x \div y) <= x /\ x < y * (x \div y) + y
    OBVIOUS
  <1>2. x >= 0 => x \div y >= 0
    OBVIOUS
  <1> QED BY <1>1, <1>2

LEMMA TimesKeepsOrder ==
  ASSUME NEW a \in Int, NEW b \in Int, NEW c \in Nat, a <= b
  PROVE  a * c <= b * c
  <1>1. (b - a) * c >= 0
    OBVIOUS
  <1> QED BY <1>1

LEMMA Cancel ==
  ASSUME NEW a \in Int, NEW b \in Int, NEW c \in Nat \ {0}, a * c <= b * c
  PROVE  a <= b
  OBVIOUS

\* A share of a budget, in whole parts, costs no more than the budget.
LEMMA Share ==
  ASSUME NEW budget \in Int, NEW price \in Nat \ {0}, NEW n \in Int, n <= budget \div price,
         NEW real \in Nat, real <= price, n >= 0
  PROVE  n * real <= budget
  <1>1. budget \div price \in Int /\ (budget \div price) * price <= budget
    BY DivFacts
  <1>2. n * price <= (budget \div price) * price
    BY <1>1, TimesKeepsOrder
  <1>3. real * n <= price * n
    BY TimesKeepsOrder
  <1> QED BY <1>1, <1>2, <1>3

\* The numbers of layers a tuning may name.
LEMMA Ranges ==
  /\ All \in Nat
  /\ \A x \in 0 .. All : x \in Nat /\ x \in Int /\ 0 <= x /\ x <= All
  /\ \A x \in -1 .. All : x \in Int /\ -1 <= x /\ x <= All
  <1>1. All \in Nat
    BY DEF All
  <1> QED BY <1>1

\* The machine and the model.
AnyMachine == [total : Nat, ram : Nat, cores : Nat \ {0}, unified : BOOLEAN]

LEMMA MachineFacts == Machines \subseteq AnyMachine
  BY TuningAssumption DEF TuningAssumption, AnyMachine

LEMMA ModelFacts ==
  ASSUME NEW m \in Models
  PROVE  /\ m.moe \in BOOLEAN /\ m.header \in BOOLEAN
         /\ m.layers \in Nat \ {0} /\ m.layers < All
         /\ m.per \in Nat \ {0} /\ m.real \in Nat /\ m.real <= m.per
         /\ m.kv \in Nat \ {0} /\ m.trained \in Nat \ {0}
  BY TuningAssumption DEF TuningAssumption

\* The file is at least its layers.
LEMMA SizeFacts ==
  ASSUME NEW m \in Models
  PROVE  Size(m) \in Nat \ {0} /\ m.per * m.layers <= Size(m) /\ m.layers * m.real <= Size(m)
  <1> DEFINE w == m.per * m.layers
  <1>1. w \in Nat \ {0}
    BY ModelFacts
  <1>2. m.layers * m.real <= w
    <2>1. m.real * m.layers <= m.per * m.layers
      BY ModelFacts, TimesKeepsOrder
    <2> QED BY <2>1, ModelFacts
  <1>3. Size(m) = (w * 10) \div 9
    BY DEF Size
  <1> HIDE DEF w
  <1>4. (w * 10) \div 9 \in Nat \ {0} /\ w <= (w * 10) \div 9
    BY <1>1
  <1>5. m.layers * m.real \in Int
    BY ModelFacts
  <1> QED BY <1>1, <1>2, <1>3, <1>4, <1>5 DEF w

LEMMA FactorFacts == \A c : Factor(c) \in 1 .. 4
  BY DEF Factor

LEMMA CostFacts ==
  ASSUME NEW m \in Models, NEW cache
  PROVE  BlockCost(m, cache) \in Nat \ {0}
  <1>1. Factor(cache) \in Nat \ {0}
    BY FactorFacts
  <1>2. m.kv * Factor(cache) \in Nat \ {0}
    BY <1>1, ModelFacts
  <1> QED BY <1>2 DEF BlockCost, GuessedBlock

LEMMA ThreadFacts ==
  ASSUME NEW cores \in Nat \ {0}, NEW gpu \in BOOLEAN
  PROVE  ThreadPlan(cores, gpu).thr \in Nat \ {0} /\ ThreadPlan(cores, gpu).tb \in Nat \ {0}
  BY DEF ThreadPlan, Least, Most

LEMMA BudgetFacts ==
  ASSUME NEW mc \in AnyMachine, NEW usable \in Int
  PROVE  /\ Budget(mc, usable) \in Int /\ Budget(mc, usable) >= HalfGiB
         /\ mc.total # 0 => Budget(mc, usable) \in {HalfGiB, usable - OneGiB}
  BY DEF Budget, Most, HalfGiB, OneGiB, AnyMachine

LEMMA ContextFacts ==
  ASSUME NEW mc \in AnyMachine, NEW m \in Models, NEW budget \in Int,
         NEW raised \in Int, raised <= ExactMax, NEW again \in Int, again <= ExactMax
  PROVE  ContextFor(mc, m, budget, raised, again) \in MinBlocks .. ExactMax
  <1>1. Ceiling(m) \in MinBlocks .. ExactMax
    BY ModelFacts DEF Ceiling, MinBlocks, ExactMax, GuessedMax, Least
  <1>2. KvBudget(mc, m, budget) \in Int
    <2>1. Size(m) \in Int
      BY SizeFacts
    <2>2. RamBudget(mc, m) \in Int
      BY <2>1 DEF RamBudget, Most, AnyMachine
    <2>3. Reserve(mc, m, budget) \in Int
      BY <2>1 DEF Reserve, Most, Least, HalfGiB, AnyMachine
    <2> QED BY <2>2, <2>3 DEF KvBudget, Most, Least, QuarterGiB, OneGiB, AnyMachine
  <1> DEFINE room == KvBudget(mc, m, budget) \div BlockCost(m, CacheFor(budget))
  <1>3. room \in Int
    BY <1>2, CostFacts, DivFacts
  <1>4. ContextFor(mc, m, budget, raised, again) =
          LET fits == Most(MinBlocks, Least(Ceiling(m), room))
              kept == Most(fits, raised)
          IN  IF again > kept /\ again <= room THEN again ELSE kept
    BY DEF ContextFor
  <1> HIDE DEF room
  <1> QED BY <1>1, <1>3, <1>4 DEF MinBlocks, ExactMax, Most, Least

LEMMA LayersFacts ==
  ASSUME NEW mc \in AnyMachine, NEW m \in Models, NEW budget \in Int, NEW ctx \in Int
  PROVE  LayersFor(mc, m, budget, ctx) \in 0 .. All
  <1> DEFINE room == budget - HalfGiB - ctx * BlockCost(m, CacheFor(budget))
             share == (m.layers * Most(0, room)) \div Size(m)
  <1>1. room \in Int
    BY CostFacts DEF HalfGiB
  <1>2. LayersFor(mc, m, budget, ctx) \in {0, All} \cup (IF room < Size(m) THEN {share} ELSE {})
    BY DEF LayersFor
  <1> HIDE DEF room
  <1>3. room < Size(m) => share \in 0 .. All
    <2> SUFFICES ASSUME room < Size(m) PROVE share \in 0 .. All
      OBVIOUS
    <2>1. Most(0, room) \in Nat /\ Most(0, room) < Size(m)
      BY <1>1, SizeFacts DEF Most
    <2>2. m.layers * Most(0, room) \in Nat
      BY <2>1, ModelFacts
    <2>3. share \in Int /\ share >= 0 /\ share * Size(m) <= m.layers * Most(0, room)
      BY <2>2, SizeFacts, DivFacts
    <2>4. Most(0, room) * m.layers <= Size(m) * m.layers
      BY <2>1, SizeFacts, ModelFacts, TimesKeepsOrder
    <2>5. share * Size(m) <= m.layers * Size(m)
      BY <2>1, <2>3, <2>4, SizeFacts, ModelFacts
    <2>6. share <= m.layers
      BY <2>3, <2>5, Cancel, SizeFacts, ModelFacts
    <2> QED BY <2>3, <2>6, ModelFacts DEF All
  <1> QED BY <1>2, <1>3 DEF All

LEMMA ExpertsFacts ==
  ASSUME NEW mc \in AnyMachine, NEW m \in Models, NEW ctx \in Int, NEW cache
  PROVE  ExpertsAside(mc, m, ctx, cache, 0) \in 0 .. All
  <1> DEFINE block == IF m.header THEN BlockCost(m, cache) ELSE 19
             over == Size(m) + ctx * block - mc.total
             share == (2 * over * EstimatedLayers + Size(m)) \div (2 * Size(m))
  <1>1. over \in Int
    BY CostFacts, SizeFacts DEF AnyMachine
  <1>2. ExpertsAside(mc, m, ctx, cache, 0) \in
          {0, Most(1, Least((4 * EstimatedLayers) \div 10, share))}
    BY DEF ExpertsAside
  <1> HIDE DEF over
  <1>3. share \in Int
    BY <1>1, SizeFacts, DivFacts DEF EstimatedLayers
  <1> HIDE DEF share
  <1> QED BY <1>2, <1>3 DEF Most, Least, EstimatedLayers, All

\* A derived tuning is one, with no field undecided.
LEMMA TunedFacts ==
  ASSUME NEW mc \in AnyMachine, NEW m \in Models, NEW usable \in Int,
         NEW raised \in Int, raised <= ExactMax, NEW again \in Int, again <= ExactMax
  PROVE  /\ Tuned(mc, m, usable, raised, again, 0) \in Tunings
         /\ Tuned(mc, m, usable, raised, again, 0).ngl =
              LayersFor(mc, m, Budget(mc, usable), Tuned(mc, m, usable, raised, again, 0).ctx)
         /\ Tuned(mc, m, usable, raised, again, 0).cache = CacheFor(Budget(mc, usable))
         /\ Tuned(mc, m, usable, raised, again, 0).ctx \in MinBlocks .. ExactMax
  <1> DEFINE budget == Budget(mc, usable)
             cache == CacheFor(budget)
             ctx == ContextFor(mc, m, budget, raised, again)
             ngl == LayersFor(mc, m, budget, ctx)
             moe == ExpertsAside(mc, m, ctx, cache, 0)
             thr == ThreadPlan(mc.cores, mc.total > 0).thr
             tb == ThreadPlan(mc.cores, mc.total > 0).tb
  <1>1. Tuned(mc, m, usable, raised, again, 0) =
          [ngl |-> ngl, ctx |-> ctx, moe |-> moe, thr |-> thr, tb |-> tb,
           cache |-> cache, flash |-> 1]
    BY DEF Tuned
  <1>2. budget \in Int
    BY BudgetFacts
  <1>3. ctx \in MinBlocks .. ExactMax /\ ctx \in Int
    <2>1. ctx \in MinBlocks .. ExactMax
      BY <1>2, ContextFacts
    <2>2. \A x \in MinBlocks .. ExactMax : x \in Int
      BY DEF MinBlocks, ExactMax
    <2> QED BY <2>1, <2>2
  <1>4. ngl \in 0 .. All /\ moe \in 0 .. All
    BY <1>2, <1>3, LayersFacts, ExpertsFacts
  <1>5. thr \in Nat \ {0} /\ tb \in Nat \ {0}
    <2>1. mc.cores \in Nat \ {0} /\ (mc.total > 0) \in BOOLEAN
      BY DEF AnyMachine
    <2> QED BY <2>1, ThreadFacts
  <1>6. cache \in {Q4, Q8}
    BY DEF CacheFor
  <1>7. /\ Tuned(mc, m, usable, raised, again, 0).ngl = ngl
        /\ Tuned(mc, m, usable, raised, again, 0).ctx = ctx
        /\ Tuned(mc, m, usable, raised, again, 0).cache = cache
    BY <1>1
  <1> HIDE DEF budget, cache, ctx, ngl, moe, thr, tb
  <1>8. Tuned(mc, m, usable, raised, again, 0) \in Tunings
    BY <1>1, <1>3, <1>4, <1>5, <1>6 DEF Tunings
  <1> QED BY <1>3, <1>7, <1>8 DEF ngl, cache, budget

-----------------------------------------------------------------------------
(* The card. *)

Serving(t) == t \in Tunings /\ t.ngl # Unset /\ t.ctx # Unset

LEMMA TuningFacts ==
  ASSUME NEW t \in Tunings
  PROVE  /\ t.ngl \in -1 .. All /\ t.ctx \in -1 .. ExactMax /\ t.moe \in -1 .. All
         /\ t.ctx # Unset => t.ctx \in MinBlocks .. ExactMax
         /\ t.ngl # Unset => t.ngl \in 0 .. All
         /\ t.thr \in Int /\ t.tb \in Int
         /\ t.cache \in {Unset, Q4, Q8} /\ t.flash \in {Unset, 0, 1}
         /\ DOMAIN t = Fields
  BY DEF Tunings, Unset, MinBlocks, ExactMax, All, Fields

LEMMA NothingFacts ==
  /\ Nothing \in Tunings /\ Down = Nothing /\ \A f \in Fields : Nothing[f] = Unset
  /\ Defaults \in Tunings /\ Defaults.ctx = 2 /\ Defaults.ngl = 0 /\ Defaults.moe = Unset
  <1>1. Nothing \in Tunings /\ Down = Nothing /\ \A f \in Fields : Nothing[f] = Unset
    BY DEF Nothing, Tunings, Unset, Down, Fields
  <1>2. Defaults \in Tunings /\ Defaults.ctx = 2 /\ Defaults.ngl = 0 /\ Defaults.moe = Unset
    <2>1. 0 \in {Unset} \cup 0 .. All /\ 2 \in {Unset} \cup MinBlocks .. ExactMax
          /\ 4 \in {Unset} \cup (Nat \ {0})
      BY DEF MinBlocks, ExactMax, All
    <2>2. Defaults \in Tunings
      BY <1>1, <2>1 DEF Defaults, Tunings
    <2>3. Defaults.ctx = 2 /\ Defaults.ngl = 0
      BY <1>1 DEF Defaults, Tunings
    <2>4. Defaults.moe = Nothing.moe
      BY <1>1 DEF Defaults, Tunings
    <2> QED BY <1>1, <2>2, <2>3, <2>4 DEF Fields
  <1> QED BY <1>1, <1>2

LEMMA OffloadedFacts ==
  ASSUME NEW m \in Models, NEW t, t.ngl \in 0 .. All
  PROVE  /\ Offloaded(m, t) \in 0 .. m.layers /\ Offloaded(m, t) <= t.ngl
         /\ t.ngl > 0 => Offloaded(m, t) > 0
  <1>1. m.layers \in Nat \ {0} /\ m.layers < All
    BY ModelFacts
  <1>2. t.ngl \in Int /\ 0 <= t.ngl /\ t.ngl <= All
    BY Ranges
  <1>3. Offloaded(m, t) = IF t.ngl >= All THEN m.layers ELSE IF t.ngl < m.layers THEN t.ngl ELSE m.layers
    BY DEF Offloaded, Least
  <1> QED BY <1>1, <1>2, <1>3 DEF All

LEMMA ResidentFacts ==
  ASSUME NEW m \in Models, NEW t, t.ngl \in 0 .. All, t.moe \in -1 .. All
  PROVE  Resident(m, t) \in 0 .. m.layers
  <1> DEFINE off == Offloaded(m, t)
             least == Least(t.moe, m.layers)
             most == Most(m.layers - off, least)
  <1>1. m.layers \in Nat \ {0} /\ off \in 0 .. m.layers
    BY ModelFacts, OffloadedFacts
  <1>2. t.moe \in Int
    BY Ranges
  <1>3. Resident(m, t) = IF m.moe /\ t.moe > 0 THEN m.layers - most ELSE off
    BY DEF Resident
  <1> HIDE DEF off
  <1>4. t.moe > 0 => most \in 0 .. m.layers
    BY <1>1, <1>2 DEF Most, Least
  <1> HIDE DEF most
  <1> QED BY <1>1, <1>2, <1>3, <1>4

\* What a server holds of the card, by its fields.
LEMMA UsedFacts ==
  ASSUME NEW m \in Models, NEW t, Serving(t)
  PROVE  /\ Used(m, t) = IF Offloaded(m, t) = 0 THEN 0
                         ELSE Resident(m, t) * m.real + t.ctx * m.kv * Factor(t.cache) + t.ctx \div 3
         /\ Used(m, t) \in Nat
  <1>1. t # Down
    BY NothingFacts DEF Serving, Fields
  <1>2. t.ngl \in 0 .. All /\ t.ctx \in MinBlocks .. ExactMax /\ t.moe \in -1 .. All
    BY TuningFacts DEF Serving
  <1>3. Resident(m, t) \in Nat
    BY <1>2, ResidentFacts, ModelFacts
  <1>4. Resident(m, t) * m.real \in Nat
    BY <1>3, ModelFacts
  <1>5. t.ctx \in Nat /\ t.ctx \div 3 \in Nat
    BY <1>2 DEF MinBlocks, ExactMax
  <1>6. t.ctx * m.kv * Factor(t.cache) \in Nat
    <2>1. t.ctx * m.kv \in Nat
      BY <1>5, ModelFacts
    <2>2. Factor(t.cache) \in Nat
      BY FactorFacts
    <2> QED BY <2>1, <2>2
  <1> QED BY <1>1, <1>4, <1>5, <1>6 DEF Used

LEMMA FreeFacts ==
  ASSUME machine \in Machines, model \in Models, others \in Int, NEW t, Serving(t) \/ t = Down
  PROVE  FreeWith(t) \in Int /\ Used(model, t) \in Nat
  <1>1. Used(model, t) \in Nat
    <2>1. CASE Serving(t)
      BY <2>1, UsedFacts
    <2>2. CASE t = Down
      BY <2>2 DEF Used
    <2> QED BY <2>1, <2>2
  <1> QED BY <1>1, MachineFacts DEF FreeWith, AnyMachine

\* The tuning derived for a dense model on a card loads there.
LEMMA SizedLoads ==
  ASSUME machine \in Machines, model \in Models, others \in Nat, others <= machine.total,
         ~model.moe, model.header, machine.total > 0,
         NEW again \in Int, again <= ExactMax
  PROVE  Loads(Tuned(machine, model, machine.total - others, 0, again, 0))
  <1> DEFINE usable == machine.total - others
             t == Tuned(machine, model, usable, 0, again, 0)
             budget == Budget(machine, usable)
             kv == BlockCost(model, CacheFor(budget))
             room == budget - HalfGiB - t.ctx * kv
  <1>1. machine \in AnyMachine /\ usable \in Nat /\ machine.total \in Nat
    BY MachineFacts DEF AnyMachine
  <1>2. /\ t \in Tunings /\ t.ngl = LayersFor(machine, model, budget, t.ctx)
        /\ t.cache = CacheFor(budget) /\ t.ctx \in MinBlocks .. ExactMax
    <2>1. 0 <= ExactMax /\ usable \in Int
      BY <1>1 DEF ExactMax
    <2> QED BY <1>1, <2>1, TunedFacts
  <1>3. budget \in Int /\ budget \in {HalfGiB, usable - OneGiB}
    BY <1>1, BudgetFacts
  <1>4. t.ctx \in Nat /\ t.ctx <= 24 /\ kv \in Nat \ {0}
    BY <1>2, CostFacts DEF MinBlocks, ExactMax
  <1>5. t.ctx * model.kv * Factor(t.cache) = t.ctx * kv
    <2>1. kv = model.kv * Factor(t.cache)
      BY <1>2 DEF BlockCost
    <2>2. Factor(t.cache) \in Int
      BY FactorFacts
    <2> QED BY <1>4, <2>1, <2>2, ModelFacts
  <1>6. LayersFor(machine, model, budget, t.ctx) =
          IF ~machine.unified /\ room < Size(model)
          THEN (model.layers * Most(0, room)) \div Size(model) ELSE All
    BY <1>1 DEF LayersFor, AnyMachine
  <1>7. t.ctx * kv \in Nat
    BY <1>4
  <1>8. room \in Int
    BY <1>3, <1>7 DEF HalfGiB
  <1>9. t.ngl \in 0 .. All
    BY <1>1, <1>2, <1>3, <1>4, LayersFacts
  <1> HIDE DEF t, kv
  <1>10. Serving(t)
    BY <1>2, <1>9 DEF Serving, Unset, All, MinBlocks, ExactMax
  <1>11. Resident(model, t) = Offloaded(model, t)
    BY DEF Resident
  <1>12. Loads(t) <=> machine.unified \/ usable - Used(model, t) >= 0
    BY <1>1 DEF Loads, FreeWith
  <1>13. CASE Offloaded(model, t) = 0 \/ machine.unified
    <2>1. Used(model, t) = 0 \/ machine.unified
      BY <1>10, <1>13, UsedFacts
    <2> QED BY <1>1, <1>12, <2>1 DEF t
  <1>14. CASE Offloaded(model, t) # 0 /\ ~machine.unified
    <2>1. t.ngl > 0
      BY <1>9, <1>14, OffloadedFacts
    <2>2. Offloaded(model, t) \in Nat
      BY <1>9, OffloadedFacts, ModelFacts
    <2>3. Offloaded(model, t) * model.real <= room /\ room > 0
      <3>1. CASE room >= Size(model)
        <4>1. model.real * Offloaded(model, t) <= model.real * model.layers
          BY <1>9, <2>2, OffloadedFacts, ModelFacts, TimesKeepsOrder
        <4>2. model.layers * model.real <= Size(model) /\ Size(model) \in Nat \ {0}
          BY SizeFacts
        <4> HIDE DEF room
        <4> QED BY <1>8, <2>2, <3>1, <4>1, <4>2, ModelFacts
      <3>2. CASE room < Size(model)
        <4> DEFINE spare == Most(0, room)
        <4>1. t.ngl = (model.layers * spare) \div Size(model)
          BY <1>2, <1>6, <1>14, <3>2
        <4>2. spare \in Nat /\ (spare > 0 => spare = room)
          BY <1>8 DEF Most
        <4> HIDE DEF spare, room
        <4>3. model.layers * spare \in Nat
          BY <4>2, ModelFacts
        <4>4. Size(model) * t.ngl <= model.layers * spare
          BY <4>1, <4>3, SizeFacts, DivFacts
        <4>5. t.ngl \in Nat /\ model.per \in Nat \ {0} /\ model.layers \in Nat \ {0}
              /\ model.real \in Nat /\ model.real <= model.per
          BY <1>9, ModelFacts, Ranges
        <4>6. (model.per * model.layers) * t.ngl <= Size(model) * t.ngl
          <5>1. model.per * model.layers <= Size(model) /\ Size(model) \in Int
                /\ model.per * model.layers \in Int
            BY <4>5, SizeFacts
          <5> QED BY <4>5, <5>1, TimesKeepsOrder
        <4>7. (model.per * t.ngl) * model.layers <= spare * model.layers
          <5>1. (model.per * t.ngl) * model.layers = (model.per * model.layers) * t.ngl
            BY <4>5
          <5>2. /\ (model.per * model.layers) * t.ngl \in Int /\ Size(model) * t.ngl \in Int
                /\ model.layers * spare \in Int /\ model.layers * spare = spare * model.layers
            <6>1. Size(model) \in Nat /\ model.per * model.layers \in Nat
              BY <4>5, SizeFacts
            <6> QED BY <4>2, <4>5, <6>1
          <5> QED BY <4>4, <4>6, <5>1, <5>2
        <4>8. model.per * t.ngl <= spare
          <5>1. model.per * t.ngl \in Int
            BY <4>5
          <5> QED BY <4>2, <4>5, <4>7, <5>1, Cancel
        <4>9. model.real * t.ngl <= model.per * t.ngl
          BY <4>5, TimesKeepsOrder
        <4>10. Offloaded(model, t) * model.real <= t.ngl * model.real
          BY <1>9, <2>2, <4>5, OffloadedFacts, TimesKeepsOrder
        <4>11. model.per * t.ngl > 0 /\ model.per * t.ngl \in Int /\ model.real * t.ngl \in Int
          BY <2>1, <4>5
        <4>12. Offloaded(model, t) * model.real \in Int /\ t.ngl * model.real = model.real * t.ngl
          BY <2>2, <4>5
        <4> QED BY <1>8, <4>2, <4>8, <4>9, <4>10, <4>11, <4>12
      <3> QED BY <1>8, <3>1, <3>2, SizeFacts
    <2>4. Used(model, t) = Offloaded(model, t) * model.real + t.ctx * kv + t.ctx \div 3
      BY <1>5, <1>10, <1>11, <1>14, UsedFacts
    <2>5. t.ctx \div 3 <= 8 /\ t.ctx \div 3 \in Nat
      BY <1>4
    <2>6. budget = usable - OneGiB
      BY <1>3, <1>7, <2>3 DEF HalfGiB
    <2>7. Offloaded(model, t) * model.real \in Int
      BY <2>2, ModelFacts
    <2> QED BY <1>1, <1>7, <1>12, <2>3, <2>4, <2>5, <2>6, <2>7 DEF HalfGiB, OneGiB, t
  <1> QED BY <1>13, <1>14 DEF t

-----------------------------------------------------------------------------
(* The plan. *)

Planned(b, free) ==
  Tuned([machine EXCEPT !.ram = 0], model, Least(machine.total, free + Used(model, b)), 0, 0, 0)
After(b, free) == Slack(free) - LayerCost(b, free)
Cost(b, free) == model.kv * Factor(IF IsSet(b.cache) THEN b.cache ELSE Planned(b, free).cache)

LEMMA PlannedFacts ==
  ASSUME machine \in Machines, model \in Models, NEW b \in Tunings, NEW free \in Int,
         Used(model, b) \in Nat
  PROVE  /\ Planned(b, free) \in Tunings /\ Planned(b, free).ctx \in MinBlocks .. ExactMax
         /\ Planned(b, free).cache \in {Q4, Q8}
  <1> DEFINE mc == [machine EXCEPT !.ram = 0]
             usable == Least(machine.total, free + Used(model, b))
  <1>1. machine \in AnyMachine
    BY MachineFacts
  <1>2. mc \in AnyMachine
    BY <1>1 DEF AnyMachine
  <1>3. usable \in Int
    BY <1>1 DEF AnyMachine, Least
  <1>4. 0 <= ExactMax
    BY DEF ExactMax
  <1> HIDE DEF mc, usable
  <1>5. /\ Tuned(mc, model, usable, 0, 0, 0) \in Tunings
        /\ Tuned(mc, model, usable, 0, 0, 0).ctx \in MinBlocks .. ExactMax
        /\ Tuned(mc, model, usable, 0, 0, 0).cache = CacheFor(Budget(mc, usable))
    BY <1>2, <1>3, <1>4, TunedFacts
  <1> QED BY <1>5 DEF Planned, mc, usable, CacheFor

\* The layers a plan wants, and what they cost.
LEMMA LayerPlan ==
  ASSUME model \in Models, NEW b \in Tunings, NEW free \in Int
  PROVE  /\ PlannedLayers(b, free) \in {Unset} \cup 0 .. All
         /\ TargetLayers(b, free) \in 0 .. model.layers
         /\ LayerCost(b, free) \in Nat /\ Room(free) \in Int
         /\ PlannedLayers(b, free) # Unset =>
               /\ PlannedLayers(b, free) = Wanted(b, free) /\ KnowsLayers(b)
  <1>1. PerLayer \in Nat /\ Slack(free) \in Int
    BY ModelFacts DEF PerLayer, Slack, Margin
  <1>2. Room(free) \in Int
    BY <1>1, DivFacts DEF Room
  <1>3. model.layers \in Nat \ {0} /\ model.layers < All /\ b.ngl \in Int
    <2>1. b.ngl \in -1 .. All
      BY TuningFacts
    <2> QED BY <2>1, ModelFacts, Ranges
  <1>4. Offloaded(model, b) \in Int
    BY <1>3 DEF Offloaded, Least
  <1>5. TargetLayers(b, free) \in 0 .. model.layers
    BY <1>2, <1>3, <1>4 DEF TargetLayers, Most, Least
  <1>6. Wanted(b, free) \in 0 .. All
    BY <1>3, <1>5 DEF Wanted, All
  <1>7. PlannedLayers(b, free) \in {Unset, Wanted(b, free)}
        /\ (PlannedLayers(b, free) # Unset => KnowsLayers(b))
    BY DEF PlannedLayers
  <1>8. Most(0, TargetLayers(b, free) - Offloaded(model, b)) \in Nat
    BY <1>4, <1>5 DEF Most
  <1>9. LayerCost(b, free) \in Nat
    BY <1>1, <1>8 DEF LayerCost
  <1> QED BY <1>2, <1>5, <1>6, <1>7, <1>9

\* The context a plan wants: with the margin kept it only grows, and by what it is given.
LEMMA ContextPlan ==
  ASSUME machine \in Machines, model \in Models, NEW b \in Tunings, NEW free \in Int,
         Used(model, b) \in Nat
  PROVE  LET new == PlannedContext(b, free, Planned(b, free)) IN
         /\ new \in {Unset} \cup MinBlocks .. ExactMax
         /\ Cost(b, free) \in Nat \ {0}
         /\ model.header /\ After(b, free) >= 0 /\ b.ctx # Unset /\ new # Unset =>
               /\ new > b.ctx /\ After(b, free) >= Growth
               /\ new - b.ctx <= (After(b, free) - Growth) \div Cost(b, free)
  <1> DEFINE cost == Cost(b, free)
             after == After(b, free)
             spare == after - Growth
             tuned == Planned(b, free)
             Aligned(n) == Most(MinBlocks, Least(Ceiling(model), n))
             target == CASE ~model.header -> tuned.ctx
                         [] model.header /\ after < 0 ->
                              Least(b.ctx, Aligned(b.ctx - CeilDiv(-after, cost)))
                         [] model.header /\ spare >= 0 ->
                              Most(b.ctx, Aligned(b.ctx + spare \div cost))
                         [] OTHER -> b.ctx
             new == PlannedContext(b, free, tuned)
  <1>1. new = IF b.ctx # Unset /\ target # b.ctx THEN target ELSE Unset
    BY DEF PlannedContext, Cost, After
  <1>2. cost \in Nat \ {0}
    <2>1. \A c : Factor(c) \in Nat \ {0}
      BY FactorFacts
    <2>2. \A k \in Nat \ {0}, f \in Nat \ {0} : k * f \in Nat \ {0}
      OBVIOUS
    <2> QED BY <2>1, <2>2, ModelFacts DEF Cost
  <1>3. after \in Int
    BY LayerPlan DEF After, Slack, Margin
  <1>4. tuned.ctx \in MinBlocks .. ExactMax
    BY PlannedFacts
  <1> HIDE DEF cost, after, tuned
  <1>5. spare \in Int /\ spare \div cost \in Int
    BY <1>2, <1>3, DivFacts DEF Growth
  <1>6. CeilDiv(-after, cost) \in Int
    <2>1. -(-after) \in Int
      BY <1>3
    <2>2. (-(-after)) \div cost \in Int
      BY <1>2, <2>1, DivFacts
    <2> QED BY <2>2 DEF CeilDiv
  <1>7. Ceiling(model) \in MinBlocks .. ExactMax
    BY ModelFacts DEF Ceiling, MinBlocks, ExactMax, GuessedMax, Least
  <1>8. \A n \in Int : /\ Aligned(n) \in MinBlocks .. ExactMax
                       /\ n >= MinBlocks => Aligned(n) <= n
    BY <1>7 DEF Most, Least, MinBlocks, ExactMax
  <1> HIDE DEF Aligned
  <1>9. b.ctx # Unset => b.ctx \in MinBlocks .. ExactMax
    BY TuningFacts
  <1> DEFINE low == Aligned(b.ctx - CeilDiv(-after, cost))
             high == Aligned(b.ctx + spare \div cost)
  <1>10. b.ctx # Unset => low \in MinBlocks .. ExactMax /\ high \in MinBlocks .. ExactMax
    BY <1>5, <1>6, <1>8, <1>9 DEF MinBlocks, ExactMax
  <1>11. b.ctx # Unset /\ spare >= 0 => high <= b.ctx + spare \div cost
    <2>1. spare >= 0 => spare \div cost >= 0
      BY <1>2, <1>5, DivFacts
    <2> QED BY <1>5, <1>8, <1>9, <2>1 DEF MinBlocks, ExactMax
  <1>12. target = CASE ~model.header -> tuned.ctx
                    [] model.header /\ after < 0 -> Least(b.ctx, low)
                    [] model.header /\ spare >= 0 -> Most(b.ctx, high)
                    [] OTHER -> b.ctx
    OBVIOUS
  <1> HIDE DEF low, high, target
  <1>13. b.ctx # Unset /\ target # b.ctx => target \in MinBlocks .. ExactMax
    BY <1>4, <1>9, <1>10, <1>12 DEF Most, Least, MinBlocks, ExactMax
  <1>14. new \in {Unset} \cup MinBlocks .. ExactMax
    BY <1>1, <1>13
  <1>15. ASSUME model.header, after >= 0, b.ctx # Unset, new # Unset
         PROVE  new > b.ctx /\ after >= Growth /\ new - b.ctx <= spare \div cost
    <2>1. target # b.ctx /\ new = target
      BY <1>1, <1>15
    <2>2. spare >= 0
      BY <1>3, <1>12, <1>15, <2>1 DEF Growth
    <2>3. target = Most(b.ctx, high)
      BY <1>3, <1>12, <1>15, <2>2
    <2>4. target > b.ctx /\ target <= b.ctx + spare \div cost
      BY <1>5, <1>9, <1>10, <1>11, <1>15, <2>1, <2>2, <2>3 DEF Most, MinBlocks, ExactMax
    <2>5. target \in Int /\ b.ctx \in Int
      BY <1>9, <1>13, <1>15, <2>1 DEF MinBlocks, ExactMax
    <2> QED BY <1>3, <1>5, <2>1, <2>2, <2>4, <2>5 DEF Growth
  <1> QED BY <1>2, <1>14, <1>15 DEF cost, after, tuned

LEMMA ExpertsPlan ==
  ASSUME model \in Models, NEW b \in Tunings, NEW free \in Int
  PROVE  PlannedExperts(b, free) \in {Unset} \cup 0 .. All
  <1> DEFINE have == Most(0, b.moe)
             most == IF PerLayer > 0 THEN model.layers ELSE have
             target == Most(0, Least(most, have - Room(free)))
  <1>1. b.moe \in -1 .. All
    BY TuningFacts
  <1>2. have \in 0 .. All
    BY <1>1 DEF Most, All
  <1>3. most \in 0 .. All
    BY <1>2, ModelFacts, Ranges
  <1>4. have - Room(free) \in Int
    <2>1. Room(free) \in Int
      BY LayerPlan
    <2>2. have \in Int
      BY <1>2 DEF All
    <2> HIDE DEF have
    <2> QED BY <2>1, <2>2
  <1> HIDE DEF have, most
  <1> DEFINE less == have - Room(free)
  <1>5. target \in 0 .. All
    <2> HIDE DEF less
    <2>1. \A n \in Int, k \in 0 .. All : Most(0, Least(k, n)) \in 0 .. All
      BY DEF Most, Least, All
    <2> QED BY <1>3, <1>4, <2>1 DEF less
  <1>6. PlannedExperts(b, free) \in {target, 0, Unset}
    BY DEF PlannedExperts, have, most
  <1> QED BY <1>5, <1>6 DEF All

LEMMA WithThreadsFacts ==
  ASSUME machine \in Machines, NEW plan \in Tunings, NEW b \in Tunings, NEW gpu \in BOOLEAN
  PROVE  /\ WithThreads(plan, b, gpu) \in Tunings
         /\ \A f \in Fields \ {"thr", "tb"} : WithThreads(plan, b, gpu)[f] = plan[f]
  <1> DEFINE thr == Changed(b.thr, ThreadPlan(machine.cores, gpu).thr, TRUE)
             tb == Changed(b.tb, ThreadPlan(machine.cores, gpu).tb, b.tb # Unset)
  <1>1. machine.cores \in Nat \ {0}
    BY MachineFacts DEF AnyMachine
  <1>2. thr \in {Unset} \cup (Nat \ {0}) /\ tb \in {Unset} \cup (Nat \ {0})
    BY <1>1, ThreadFacts DEF Changed
  <1>3. WithThreads(plan, b, gpu) = [plan EXCEPT !.thr = thr, !.tb = tb]
    BY DEF WithThreads
  <1> HIDE DEF thr, tb
  <1>4. WithThreads(plan, b, gpu) \in Tunings
    BY <1>2, <1>3 DEF Tunings
  <1>5. \A f \in Fields \ {"thr", "tb"} : WithThreads(plan, b, gpu)[f] = plan[f]
    BY <1>3, TuningFacts DEF Fields
  <1> QED BY <1>4, <1>5

\* A plan is a tuning, and on a card of its own it names these.
LEMMA PlanFacts ==
  ASSUME machine \in Machines, model \in Models, NEW b \in Tunings, NEW free \in Int,
         Used(model, b) \in Nat
  PROVE  /\ Plan(b, free) \in Tunings
         /\ ~machine.unified =>
               /\ Plan(b, free).ngl = PlannedLayers(b, free)
               /\ Plan(b, free).ctx = PlannedContext(b, free, Planned(b, free))
  <1> DEFINE ngl == PlannedLayers(b, free)
             moe == PlannedExperts(b, free)
             ctx == PlannedContext(b, free, Planned(b, free))
             cache == PlannedCache(b, Planned(b, free))
             flash == IF b.flash = 0 THEN 1 ELSE Unset
             sized == [Nothing EXCEPT !.ngl = ngl, !.moe = moe, !.ctx = ctx,
                                      !.cache = cache, !.flash = flash]
             onCard == IF ngl # Unset THEN ngl > 0 ELSE b.ngl > 0
  <1>1. Plan(b, free) = IF machine.unified THEN WithThreads(Nothing, b, TRUE)
                        ELSE WithThreads(sized, b, onCard)
    BY DEF Plan, Planned
  <1>2. ngl \in {Unset} \cup 0 .. All /\ moe \in {Unset} \cup 0 .. All
    BY LayerPlan, ExpertsPlan
  <1>3. ctx \in {Unset} \cup MinBlocks .. ExactMax
    BY ContextPlan
  <1>4. cache \in {Unset, Q4, Q8} /\ flash \in {Unset, 0, 1}
    BY PlannedFacts DEF PlannedCache
  <1>5. onCard \in BOOLEAN
    <2>1. (ngl > 0) \in BOOLEAN /\ (b.ngl > 0) \in BOOLEAN
      OBVIOUS
    <2> QED BY <2>1
  <1> HIDE DEF ngl, moe, ctx, cache, flash, onCard
  <1>6. sized \in Tunings
    <2>1. \A t \in Tunings : [t EXCEPT !.ngl = ngl, !.moe = moe, !.ctx = ctx] \in Tunings
      BY <1>2, <1>3 DEF Tunings
    <2>2. \A t \in Tunings : [t EXCEPT !.cache = cache, !.flash = flash] \in Tunings
      BY <1>4 DEF Tunings
    <2>3. sized = [[Nothing EXCEPT !.ngl = ngl, !.moe = moe, !.ctx = ctx]
                     EXCEPT !.cache = cache, !.flash = flash]
      OBVIOUS
    <2> QED BY <2>1, <2>2, <2>3, NothingFacts
  <1>7. sized.ngl = ngl /\ sized.ctx = ctx
    BY NothingFacts DEF Tunings
  <1> HIDE DEF sized
  <1>8. CASE machine.unified
    BY <1>1, <1>8, NothingFacts, WithThreadsFacts
  <1>9. CASE ~machine.unified
    <2>1. /\ WithThreads(sized, b, onCard) \in Tunings
          /\ \A f \in Fields \ {"thr", "tb"} : WithThreads(sized, b, onCard)[f] = sized[f]
      BY <1>5, <1>6, WithThreadsFacts
    <2>2. Plan(b, free) = WithThreads(sized, b, onCard)
      BY <1>1, <1>9
    <2> QED BY <1>7, <2>1, <2>2 DEF Fields, ngl, ctx
  <1> QED BY <1>8, <1>9

LEMMA OverlayFacts ==
  ASSUME NEW base \in Tunings, NEW top \in Tunings
  PROVE  /\ Overlay(base, top) \in Tunings
         /\ \A f \in Fields : Overlay(base, top)[f] = IF top[f] # Unset THEN top[f] ELSE base[f]
  <1>1. DOMAIN base = Fields
    BY TuningFacts
  <1>2. \A f \in Fields : Overlay(base, top)[f] = IF top[f] # Unset THEN top[f] ELSE base[f]
    BY <1>1 DEF Overlay, IsSet
  <1>3. Overlay(base, top) = [f \in Fields |-> IF top[f] # Unset THEN top[f] ELSE base[f]]
    BY <1>1 DEF Overlay, IsSet
  <1>4. Overlay(base, top) \in Tunings
    BY <1>3 DEF Tunings, Fields
  <1> QED BY <1>2, <1>4

\* A plan taken whole keeps a margin that was kept: the layers cost what was set aside
\* for them, and the context grows into the rest.
LEMMA PlanKeeps ==
  ASSUME machine \in Machines, model \in Models, others \in Nat, NEW b, Serving(b),
         NEW plan \in {Nothing, Plan(b, FreeWith(b))},
         ~model.moe, ~machine.unified, model.header, b.ngl > 0, IsSet(b.cache),
         plan.cache = Unset, FreeWith(b) >= Margin, Overlay(b, plan).ctx <= b.ctx + Span
  PROVE  FreeWith(Overlay(b, plan)) >= Margin
  <1> DEFINE free == FreeWith(b)
             t == Overlay(b, plan)
             offB == Offloaded(model, b)
             offT == Offloaded(model, t)
             cost == Cost(b, free)
             after == After(b, free)
             layerCost == LayerCost(b, free)
  <1>1. /\ b \in Tunings /\ free \in Int /\ Used(model, b) \in Nat
        /\ b.ngl \in 0 .. All /\ b.ctx \in MinBlocks .. ExactMax
    BY FreeFacts, TuningFacts DEF Serving
  <1>2. plan \in Tunings
    BY <1>1, PlanFacts, NothingFacts
  <1>3. /\ t \in Tunings
        /\ t.ngl = IF plan.ngl # Unset THEN plan.ngl ELSE b.ngl
        /\ t.ctx = IF plan.ctx # Unset THEN plan.ctx ELSE b.ctx
        /\ t.cache = b.cache
        /\ t.ctx <= b.ctx + Span
    BY <1>1, <1>2, OverlayFacts DEF Fields
  <1>4. plan.ngl # Unset => plan.ngl = Wanted(b, free) /\ Wanted(b, free) \in 0 .. All
    <2> SUFFICES ASSUME plan.ngl # Unset
                 PROVE  plan.ngl = Wanted(b, free) /\ Wanted(b, free) \in 0 .. All
      OBVIOUS
    <2>1. Nothing.ngl = Unset
      BY NothingFacts DEF Fields
    <2>2. plan = Plan(b, free)
      BY <2>1
    <2>3. plan.ngl = PlannedLayers(b, free)
      BY <1>1, <2>2, PlanFacts
    <2>4. PlannedLayers(b, free) = Wanted(b, free) /\ PlannedLayers(b, free) \in {Unset} \cup 0 .. All
      BY <1>1, <2>3, LayerPlan
    <2> QED BY <2>3, <2>4
  <1>5. /\ plan.ctx # Unset => /\ plan.ctx = PlannedContext(b, free, Planned(b, free))
                               /\ plan.ctx \in MinBlocks .. ExactMax
    <2>1. plan.ctx # Unset => plan.ctx \in MinBlocks .. ExactMax
      BY <1>2, TuningFacts
    <2>2. plan # Nothing => plan.ctx = PlannedContext(b, free, Planned(b, free))
      BY <1>1, PlanFacts
    <2> QED BY <2>1, <2>2, NothingFacts DEF Fields
  <1>6. cost \in Nat \ {0} /\ after \in Int /\ layerCost \in Nat
    BY <1>1, ContextPlan, LayerPlan DEF After, Slack, Margin
  <1>7. cost = model.kv * Factor(b.cache) /\ Factor(b.cache) \in Nat /\ model.kv \in Nat
    BY FactorFacts, ModelFacts DEF Cost
  <1>8. after = free - Margin - layerCost
    BY DEF After, Slack
  <1> HIDE DEF cost, after, t
  <1>9. Serving(t)
    BY <1>1, <1>3, <1>4, <1>5 DEF Serving, Unset, MinBlocks, ExactMax, All
  <1>10. offB \in 1 .. model.layers /\ offT \in 0 .. model.layers /\ model.layers \in Nat \ {0}
         /\ model.layers < All /\ model.per \in Nat \ {0} /\ model.real \in Nat
         /\ model.real <= model.per
    <2>1. t.ngl \in 0 .. All
      BY <1>9, TuningFacts DEF Serving
    <2> QED BY <1>1, <2>1, OffloadedFacts, ModelFacts
  <1>11. /\ layerCost = (TargetLayers(b, free) - offB) * model.per
         /\ TargetLayers(b, free) \in offB .. model.layers
         /\ after >= 0
    <2>1. PerLayer = model.per /\ KnowsLayers(b)
      BY <1>1, <1>10 DEF PerLayer, KnowsLayers, Unset
    <2>2. Room(free) = (free - Margin) \div model.per /\ free - Margin >= 0 /\ free - Margin \in Int
      BY <1>1, <1>10, <2>1 DEF Room, Slack, Margin
    <2>3. Room(free) \in Int /\ Room(free) >= 0
      BY <1>10, <2>2, DivFacts
    <2>4. TargetLayers(b, free) \in offB .. model.layers /\ TargetLayers(b, free) <= offB + Room(free)
      <3>1. TargetLayers(b, free) = Most(0, Least(model.layers, offB + Room(free)))
        BY DEF TargetLayers
      <3> HIDE DEF offB
      <3> QED BY <1>10, <2>3, <3>1 DEF Most, Least
    <2>5. layerCost = (TargetLayers(b, free) - offB) * model.per
      <3>1. Most(0, TargetLayers(b, free) - offB) = TargetLayers(b, free) - offB
        BY <1>10, <2>4 DEF Most
      <3> QED BY <2>1, <3>1 DEF LayerCost
    <2>6. layerCost <= free - Margin
      <3> DEFINE n == TargetLayers(b, free) - offB
      <3>1. n \in Int /\ n >= 0 /\ n <= (free - Margin) \div model.per
        BY <1>10, <2>2, <2>3, <2>4
      <3> HIDE DEF n
      <3>2. model.per \in Nat /\ model.per <= model.per
        BY <1>10
      <3> DEFINE spare == free - Margin
      <3>3. spare \in Int /\ n <= spare \div model.per
        BY <2>2, <3>1
      <3> HIDE DEF spare
      <3>4. n * model.per <= spare
        BY <1>10, <3>1, <3>2, <3>3, Share
      <3> QED BY <2>5, <3>4 DEF n, spare
    <2> QED BY <1>1, <1>6, <1>8, <2>4, <2>5, <2>6 DEF Margin
  <1>12. offT * model.real <= offB * model.real + layerCost
    <2>1. CASE plan.ngl = Unset
      <3>1. offT = offB
        BY <1>3, <2>1 DEF Offloaded
      <3> QED BY <1>6, <1>10, <3>1
    <2>2. CASE plan.ngl # Unset
      <3>1. t.ngl = IF TargetLayers(b, free) >= model.layers THEN All ELSE TargetLayers(b, free)
        BY <1>3, <1>4, <2>2 DEF Wanted
      <3>2. offT = TargetLayers(b, free)
        BY <1>10, <1>11, <3>1 DEF Offloaded, Least, All
      <3> DEFINE n == offT - offB
      <3>3. n \in Nat /\ layerCost = n * model.per
        BY <1>10, <1>11, <3>2
      <3>4. model.real * n <= model.per * n
        BY <1>10, <3>3, TimesKeepsOrder
      <3>5. offT * model.real = offB * model.real + model.real * n
        BY <1>10
      <3>6. offB * model.real \in Int /\ model.real * n \in Int /\ model.per * n = n * model.per
            /\ model.per * n \in Int
        BY <1>10, <3>3
      <3> HIDE DEF n
      <3> QED BY <3>3, <3>4, <3>5, <3>6
    <2> QED BY <2>1, <2>2
  <1>13. t.ctx * cost + t.ctx \div 3 <= b.ctx * cost + b.ctx \div 3 + after
    <2>1. CASE plan.ctx = Unset
      <3>1. t.ctx = b.ctx /\ b.ctx \in Nat /\ b.ctx * cost \in Nat
        BY <1>1, <1>3, <1>6, <2>1 DEF MinBlocks, ExactMax
      <3> QED BY <1>6, <1>11, <3>1
    <2>2. CASE plan.ctx # Unset
      <3> DEFINE g == t.ctx - b.ctx
                 q == (after - Growth) \div cost
      <3>1. b.ctx # Unset
        BY <1>1 DEF MinBlocks, Unset
      <3>2. g > 0 /\ after >= Growth /\ g <= q
        BY <1>1, <1>3, <1>5, <1>11, <2>2, <3>1, ContextPlan DEF after, cost
      <3>3. t.ctx \in Nat /\ b.ctx \in Nat /\ g \in Nat /\ g <= 15
        <4>1. t.ctx \in Nat /\ b.ctx \in Nat
          BY <1>1, <1>3, <1>5, <2>2 DEF MinBlocks, ExactMax
        <4> QED BY <1>3, <3>2, <4>1 DEF Span
      <3>4. g * cost <= after - Growth
        <4>1. after - Growth \in Int
          BY <1>6 DEF Growth
        <4>2. cost \in Nat \ {0} /\ cost \in Nat /\ cost <= cost
          BY <1>6
        <4>3. g <= (after - Growth) \div cost /\ g \in Int /\ g >= 0
          BY <3>2, <3>3
        <4> HIDE DEF g, q, cost, after
        <4> QED BY <4>1, <4>2, <4>3, Share
      <3>5. t.ctx * cost = b.ctx * cost + g * cost
        BY <1>6, <3>3
      <3>6. t.ctx \div 3 <= b.ctx \div 3 + 5 /\ t.ctx \div 3 \in Int /\ b.ctx \div 3 \in Int
        BY <3>3
      <3>7. b.ctx * cost \in Int /\ g * cost \in Int
        BY <1>6, <3>3
      <3> HIDE DEF g
      <3> QED BY <1>6, <3>4, <3>5, <3>6, <3>7 DEF Growth
    <2> QED BY <2>1, <2>2
  <1>14. /\ Used(model, b) = offB * model.real + b.ctx * cost + b.ctx \div 3
         /\ offT # 0 => Used(model, t) = offT * model.real + t.ctx * cost + t.ctx \div 3
         /\ offT = 0 => Used(model, t) = 0
    <2>1. \A c \in Int : c * model.kv * Factor(b.cache) = c * cost
      BY <1>7
    <2>2. b.ctx \in Int /\ t.ctx \in Int
      BY <1>1, <1>3, <1>5 DEF MinBlocks, ExactMax
    <2>3. Resident(model, b) = offB /\ Resident(model, t) = offT /\ offB # 0
      BY <1>10 DEF Resident
    <2> QED BY <1>3, <1>9, <2>1, <2>2, <2>3, UsedFacts
  <1>15. Used(model, t) <= Used(model, b) + layerCost + after
    <2>1. b.ctx \in Nat /\ t.ctx \in Nat
      BY <1>1, <1>3, <1>5 DEF MinBlocks, ExactMax
    <2>2. /\ offT * model.real \in Int /\ offB * model.real \in Int
          /\ t.ctx * cost \in Int /\ b.ctx * cost \in Int
          /\ t.ctx \div 3 \in Int /\ b.ctx \div 3 \in Int
      BY <1>6, <1>10, <2>1
    <2>3. CASE offT = 0
      BY <1>1, <1>6, <1>11, <1>14, <2>3
    <2>4. CASE offT # 0
      <3> HIDE DEF offB, offT, layerCost
      <3> QED BY <1>6, <1>12, <1>13, <1>14, <2>2, <2>4
    <2> QED BY <2>3, <2>4
  <1>16. /\ free = machine.total - others - Used(model, b)
         /\ FreeWith(t) = machine.total - others - Used(model, t)
         /\ machine.total \in Nat /\ Used(model, t) \in Nat
    BY <1>9, MachineFacts, UsedFacts DEF FreeWith, AnyMachine
  <1> HIDE DEF free, layerCost
  <1>17. FreeWith(t) >= Margin
    BY <1>1, <1>6, <1>8, <1>15, <1>16 DEF Margin
  <1> QED BY <1>17 DEF t

-----------------------------------------------------------------------------
(* A launch. *)

LEMMA ExceptExperts ==
  ASSUME NEW t \in Tunings, NEW n \in {Unset} \cup 0 .. All
  PROVE  /\ [t EXCEPT !.moe = n] \in Tunings /\ [t EXCEPT !.moe = n].moe = n
         /\ \A f \in Fields \ {"moe"} : [t EXCEPT !.moe = n][f] = t[f]
  <1>1. [t EXCEPT !.moe = n] \in Tunings
    BY DEF Tunings
  <1>2. [t EXCEPT !.moe = n].moe = n
    BY DEF Tunings
  <1>3. \A f \in Fields \ {"moe"} : [t EXCEPT !.moe = n][f] = t[f]
    BY TuningFacts
  <1> QED BY <1>1, <1>2, <1>3

LEMMA ExpertsType ==
  ASSUME NEW t \in Tunings
  PROVE  /\ Experts(t) \in 0 .. All /\ (t.moe # Unset => Experts(t) = t.moe)
         /\ t.moe = Unset => Experts(t) = 0
  <1>1. t.moe \in -1 .. All
    BY TuningFacts
  <1> QED BY <1>1 DEF Experts, Most, Unset, All

LEMMA FilledFacts ==
  ASSUME NEW t \in Tunings
  PROVE  /\ Serving(Filled(t)) /\ Experts(Filled(t)) = Experts(t)
         /\ \A f \in Fields \ {"moe"} : t[f] # Unset => Filled(t)[f] = t[f]
  <1> DEFINE o == Overlay(Defaults, t)
             n == IF o.moe = 0 THEN Unset ELSE o.moe
  <1>1. /\ o \in Tunings
        /\ \A f \in Fields : o[f] = IF t[f] # Unset THEN t[f] ELSE Defaults[f]
    BY NothingFacts, OverlayFacts
  <1>2. Filled(t) = [o EXCEPT !.moe = n]
    <2> DEFINE g(x) == IF x = 0 THEN Unset ELSE x
    <2>1. Filled(t) = [o EXCEPT !.moe = g(@)]
      BY DEF Filled
    <2>2. DOMAIN o = Fields
      BY <1>1, TuningFacts
    <2> QED BY <2>1, <2>2 DEF Fields
  <1> HIDE DEF o
  <1>3. o.moe \in -1 .. All
    BY <1>1, TuningFacts
  <1>4. n \in {Unset} \cup 0 .. All
    BY <1>3 DEF Unset, All
  <1> HIDE DEF n
  <1>5. /\ Filled(t) \in Tunings /\ Filled(t).moe = n
        /\ \A f \in Fields \ {"moe"} : Filled(t)[f] = o[f]
    BY <1>1, <1>2, <1>4, ExceptExperts
  <1>6. o.moe = t.moe /\ o.ngl # Unset /\ o.ctx # Unset
    BY <1>1, NothingFacts DEF Fields, Unset
  <1>7. Serving(Filled(t))
    BY <1>5, <1>6 DEF Serving, Fields
  <1>8. Experts(Filled(t)) = Experts(t)
    <2>1. t.moe \in -1 .. All
      BY TuningFacts
    <2>2. n = IF t.moe = 0 THEN -1 ELSE t.moe
      BY <1>6 DEF n, Unset
    <2> QED BY <1>5, <2>1, <2>2 DEF Experts, Most, All
  <1> QED BY <1>1, <1>5, <1>7, <1>8

LEMMA MovedFacts ==
  ASSUME model \in Models, NEW t \in Tunings, NEW free \in Int
  PROVE  /\ MovedBy(t, free) \in Int /\ Experts(t) + MovedBy(t, free) \in 0 .. All
         /\ MovedBy(t, free) < 0 =>
               /\ -MovedBy(t, free) \in 1 .. Experts(t)
               /\ -MovedBy(t, free) <= (free - Margin) \div model.per
  <1> DEFINE slack == (free - Margin) \div model.per
             short == CeilDiv(Margin - free, model.per)
             drop == Least(Experts(t), slack)
             add == Least(model.layers - Experts(t), short)
  <1>1. model.per \in Nat \ {0} /\ model.layers \in Nat /\ model.layers < All
        /\ Experts(t) \in 0 .. All
    BY ModelFacts, ExpertsType
  <1>2. slack \in Int
    <2>1. free - Margin \in Int
      BY DEF Margin
    <2> QED BY <1>1, <2>1, DivFacts
  <1>3. short \in Int
    <2>1. -(Margin - free) \in Int
      BY DEF Margin
    <2>2. (-(Margin - free)) \div model.per \in Int
      BY <1>1, <2>1, DivFacts
    <2> QED BY <2>2 DEF CeilDiv
  <1>4. MovedBy(t, free) = CASE drop >= 1 -> -drop [] drop < 1 /\ add >= 1 -> add [] OTHER -> 0
    BY DEF MovedBy
  <1> HIDE DEF slack, short
  <1>5. Experts(t) \in Int /\ 0 <= Experts(t) /\ Experts(t) <= All
    BY <1>1 DEF All
  <1>6. drop \in Int /\ drop <= slack /\ drop <= Experts(t)
    BY <1>2, <1>5 DEF Least
  <1>7. add \in Int /\ add <= model.layers - Experts(t)
    BY <1>1, <1>3, <1>5 DEF Least
  <1> HIDE DEF drop, add
  <1>8. CASE drop >= 1
    <2>1. MovedBy(t, free) = -drop
      BY <1>4, <1>6, <1>8
    <2>2. /\ Experts(t) + MovedBy(t, free) \in 0 .. All
          /\ -MovedBy(t, free) = drop /\ drop \in 1 .. Experts(t) /\ drop <= slack
      BY <1>5, <1>6, <1>8, <2>1 DEF All
    <2>3. MovedBy(t, free) \in Int
      BY <1>6, <2>1
    <2>4. -MovedBy(t, free) \in 1 .. Experts(t) /\ -MovedBy(t, free) <= slack
      BY <2>2
    <2> QED BY <2>2, <2>3, <2>4 DEF slack
  <1>9. CASE ~(drop >= 1)
    <2>1. MovedBy(t, free) = 0 \/ (MovedBy(t, free) = add /\ add >= 1)
      BY <1>4, <1>6, <1>7, <1>9
    <2>2. model.layers \in Nat /\ model.layers < All
      BY <1>1
    <2>3. /\ MovedBy(t, free) \in Int /\ ~(MovedBy(t, free) < 0)
          /\ Experts(t) + MovedBy(t, free) \in 0 .. All
      <3>1. CASE MovedBy(t, free) = 0
        BY <1>5, <3>1 DEF All
      <3>2. CASE MovedBy(t, free) = add /\ add >= 1
        <4>1. Experts(t) + add \in Int /\ Experts(t) + add >= 0
          BY <1>5, <1>7, <3>2
        <4>2. Experts(t) + add <= model.layers
          BY <1>5, <1>7, <2>2
        <4>3. Experts(t) + add \in 0 .. All
          BY <2>2, <4>1, <4>2 DEF All
        <4>4. add \in Int /\ ~(add < 0)
          BY <1>7, <3>2
        <4> QED BY <3>2, <4>3, <4>4
      <3> QED BY <2>1, <3>1, <3>2
    <2> QED BY <2>3
  <1> QED BY <1>8, <1>9

\* A raise changes the experts, to a number of layers there can be.
LEMMA RaiseFacts ==
  ASSUME model \in Models, NEW t \in Tunings
  PROVE  /\ Raised(t) \in Tunings /\ Raised(t).moe \in Int
         /\ \A f \in Fields \ {"moe"} : Raised(t)[f] = t[f]
  <1> DEFINE have == Experts(t)
             step == Step(have)
             n == Least(model.layers, have + step)
  <1>1. model.layers \in Nat /\ model.layers < All /\ have \in Nat
    BY ModelFacts, ExpertsType DEF All
  <1>2. step \in Nat
    <2> HIDE DEF have
    <2>1. 15 * Most(have, 8) \in Nat
      BY <1>1 DEF Most
    <2> DEFINE x == 15 * Most(have, 8)
    <2>2. x \in Nat
      BY <2>1
    <2>3. step = Most(2, CeilDiv(x, 100))
      BY DEF Step
    <2> HIDE DEF x, step
    <2>4. CeilDiv(x, 100) \in Int
      BY <2>2 DEF CeilDiv
    <2> QED BY <2>3, <2>4 DEF Most
  <1> HIDE DEF have, step
  <1>3. n \in {Unset} \cup 0 .. All /\ n \in Int
    BY <1>1, <1>2 DEF Least, All
  <1>4. Raised(t) = [t EXCEPT !.moe = n]
    BY DEF Raised, have, step
  <1> HIDE DEF n
  <1> QED BY <1>3, <1>4, ExceptExperts

LEMMA RaisesFacts ==
  ASSUME model \in Models, NEW t \in Tunings, NEW u \in Raises(t)
  PROVE  /\ u \in Tunings /\ u.moe \in Int
         /\ \A f \in Fields \ {"moe"} : u[f] = t[f]
  <1> DEFINE once == Raised(t)
             twice == Raised(once)
             thrice == Raised(twice)
  <1>1. u \in {once, twice, thrice}
    BY DEF Raises
  <1>2. once \in Tunings /\ once.moe \in Int /\ \A f \in Fields \ {"moe"} : once[f] = t[f]
    BY RaiseFacts
  <1> HIDE DEF once
  <1>3. twice \in Tunings /\ twice.moe \in Int /\ \A f \in Fields \ {"moe"} : twice[f] = once[f]
    BY <1>2, RaiseFacts
  <1> HIDE DEF twice
  <1>4. thrice \in Tunings /\ thrice.moe \in Int /\ \A f \in Fields \ {"moe"} : thrice[f] = twice[f]
    BY <1>3, RaiseFacts
  <1> HIDE DEF thrice
  <1> QED BY <1>1, <1>2, <1>3, <1>4

\* Of the raises that load the first is one of them.
LEMMA FirstFacts ==
  ASSUME model \in Models, NEW t \in Tunings, NEW raised \in SUBSET Raises(t), raised # {}
  PROVE  FirstOf(raised) \in raised
  <1> DEFINE once == Raised(t)
             twice == Raised(once)
             thrice == Raised(twice)
  <1>1. Raises(t) = {once, twice, thrice}
    BY DEF Raises
  <1> HIDE DEF once, twice, thrice
  <1>2. once.moe \in Int /\ twice.moe \in Int /\ thrice.moe \in Int
    BY <1>1, RaisesFacts
  <1>3. \E x \in raised : \A u \in raised : x.moe <= u.moe
    BY <1>1, <1>2
  <1> QED BY <1>3 DEF FirstOf

\* What a launch brings up has the fields it was asked for, but for the experts.
LEMMA LaunchedFacts ==
  ASSUME machine \in Machines, model \in Models, others \in Nat, NEW t, Serving(t),
         NEW got \in Launched(t)
  PROVE  /\ got.how \in {"kept", "tried", "raised", "failed"}
         /\ got.how = "failed" => got.tune = Down
         /\ got.how # "failed" => /\ Serving(got.tune)
                                  /\ \A f \in Fields \ {"moe"} : got.tune[f] = t[f]
         /\ got.how = "tried" => got.tune = Trial(t) /\ MayRetune(t)
  <1> DEFINE raised == {u \in Raises(t) : Loads(u)}
  <1>1. \/ got.how = "tried" /\ got.tune = Trial(t) /\ MayRetune(t)
        \/ got.how = "kept" /\ got.tune = t
        \/ got.how = "raised" /\ got.tune = FirstOf(raised) /\ raised # {}
        \/ got.how = "failed" /\ got.tune = Down
    BY DEF Launched, EndsIn, MayTry
  <1>2. t \in Tunings /\ FreeWith(t) \in Int
    BY FreeFacts DEF Serving
  <1> DEFINE Same(u) == u \in Tunings /\ \A f \in Fields \ {"moe"} : u[f] = t[f]
  <1>3. Same(Trial(t))
    <2>1. Experts(t) + MovedBy(t, FreeWith(t)) \in {Unset} \cup 0 .. All
      BY <1>2, MovedFacts
    <2> QED BY <1>2, <2>1, ExceptExperts DEF Trial
  <1>4. raised # {} => Same(FirstOf(raised))
    <2> SUFFICES ASSUME raised # {} PROVE Same(FirstOf(raised))
      OBVIOUS
    <2>1. FirstOf(raised) \in Raises(t)
      BY <1>2, FirstFacts
    <2> QED BY <1>2, <2>1, RaisesFacts
  <1>5. \A u : Same(u) => Serving(u)
    BY DEF Serving, Fields
  <1>6. Same(t)
    BY <1>2
  <1> HIDE DEF raised
  <1>7. got.how # "failed" => Same(got.tune)
    BY <1>1, <1>3, <1>4, <1>6
  <1> QED BY <1>1, <1>5, <1>7

\* Experts that come back to the card leave the margin there.
LEMMA TrialKeeps ==
  ASSUME machine \in Machines, model \in Models, others \in Nat, NEW t, Serving(t), MayRetune(t),
         Experts(Trial(t)) < Experts(t)
  PROVE  FreeWith(Trial(t)) >= Margin
  <1> DEFINE free == FreeWith(t)
             n == Experts(t) + MovedBy(t, free)
             u == Trial(t)
             drop == -MovedBy(t, free)
  <1>1. t \in Tunings /\ free \in Int /\ t.ngl \in 0 .. All /\ t.moe \in -1 .. All
        /\ t.ctx \in MinBlocks .. ExactMax
    BY FreeFacts, TuningFacts DEF Serving
  <1>2. n \in 0 .. All
    BY <1>1, MovedFacts
  <1>3. u = [t EXCEPT !.moe = n]
    BY DEF Trial
  <1>4. u \in Tunings /\ u.moe = n /\ u.ngl = t.ngl /\ u.ctx = t.ctx /\ u.cache = t.cache
    BY <1>1, <1>2, <1>3, ExceptExperts DEF Fields
  <1>5. Serving(u)
    BY <1>4 DEF Serving
  <1>6. Experts(u) = n
    BY <1>2, <1>4, ExpertsType DEF Unset, All
  <1>7. /\ Experts(t) \in 0 .. All
        /\ t.moe # Unset => Experts(t) = t.moe
        /\ t.moe = Unset => Experts(t) = 0
    BY <1>1, ExpertsType
  <1>8. drop \in 1 .. Experts(t) /\ drop <= (free - Margin) \div model.per
    <2>1. MovedBy(t, free) \in Int
      BY <1>1, MovedFacts
    <2>2. MovedBy(t, free) < 0
      BY <1>6, <1>7, <2>1 DEF All
    <2> QED BY <1>1, <2>2, MovedFacts
  <1> HIDE DEF u, n
  <1>9. n = Experts(t) - drop /\ t.moe = Experts(t)
    <2>1. t.moe = Experts(t)
      BY <1>7, <1>8
    <2>2. MovedBy(t, free) \in Int /\ Experts(t) \in Int
      <3>1. MovedBy(t, free) \in Int
        BY <1>1, MovedFacts
      <3> QED BY <1>7, <3>1 DEF All
    <2>3. n = Experts(t) - drop
      BY <2>2 DEF n, drop
    <2> QED BY <2>1, <2>3
  <1> HIDE DEF drop
  <1>10. model.moe /\ model.layers \in Nat \ {0} /\ model.real \in Nat /\ model.real <= model.per
         /\ model.per \in Nat \ {0}
    BY ModelFacts DEF MayRetune
  <1>11. drop * model.real <= free - Margin /\ drop * model.real \in Nat
    <2>1. free - Margin \in Int /\ drop \in Nat
      BY <1>1, <1>7, <1>8 DEF Margin, All
    <2> DEFINE spare == free - Margin
    <2>2. drop <= spare \div model.per /\ spare \in Int
      BY <1>8, <2>1
    <2> HIDE DEF spare
    <2>3. model.per \in Nat \ {0} /\ model.real \in Nat /\ model.real <= model.per
          /\ drop \in Int /\ drop >= 0
      BY <1>10, <2>1
    <2>4. drop * model.real <= spare
      BY <2>2, <2>3, Share
    <2> QED BY <2>1, <2>3, <2>4 DEF spare
  <1> DEFINE off == Offloaded(model, t)
  <1>12. Offloaded(model, u) = off /\ off \in 0 .. model.layers
    BY <1>1, <1>4, OffloadedFacts DEF Offloaded
  <1>13. Resident(model, u) <= Resident(model, t) + drop
         /\ Resident(model, u) \in Nat /\ Resident(model, t) \in Nat
    <2>1. Resident(model, u) \in Nat /\ Resident(model, t) \in Nat
      BY <1>1, <1>2, <1>4, <1>10, ResidentFacts, Ranges DEF Unset
    <2>2. Resident(model, t) = model.layers - Most(model.layers - off, Least(t.moe, model.layers))
      BY <1>7, <1>8, <1>9, <1>10 DEF Resident, All
    <2>3. Resident(model, u) = IF n > 0
                               THEN model.layers - Most(model.layers - off, Least(n, model.layers))
                               ELSE off
      BY <1>4, <1>10, <1>12 DEF Resident
    <2> HIDE DEF off
    <2>4. t.moe \in Nat /\ n \in Nat /\ drop \in Nat
      BY <1>2, <1>7, <1>8, <1>9 DEF All
    <2> QED BY <1>9, <1>10, <1>12, <2>1, <2>2, <2>3, <2>4 DEF Most, Least
  <1>14. Resident(model, u) * model.real <= Resident(model, t) * model.real + drop * model.real
    <2>1. drop \in Nat
      BY <1>7, <1>8 DEF All
    <2>2. Resident(model, u) * model.real <= (Resident(model, t) + drop) * model.real
      BY <1>10, <1>13, <2>1, TimesKeepsOrder
    <2> QED BY <1>10, <1>13, <2>1, <2>2
  <1>15. Used(model, u) <= Used(model, t) + drop * model.real
    <2> DEFINE rest == t.ctx * model.kv * Factor(t.cache) + t.ctx \div 3
    <2>1. /\ Used(model, t) = IF off = 0 THEN 0
                              ELSE Resident(model, t) * model.real + t.ctx * model.kv * Factor(t.cache)
                                   + t.ctx \div 3
          /\ Used(model, t) \in Nat
      BY UsedFacts
    <2>2. /\ Used(model, u) = IF off = 0 THEN 0
                              ELSE Resident(model, u) * model.real + t.ctx * model.kv * Factor(t.cache)
                                   + t.ctx \div 3
          /\ Used(model, u) \in Nat
      BY <1>4, <1>5, <1>12, UsedFacts
    <2>3. t.ctx * model.kv * Factor(t.cache) \in Int /\ t.ctx \div 3 \in Int
      <3>1. t.ctx \in Int
        BY <1>1 DEF MinBlocks, ExactMax
      <3>2. t.ctx * model.kv \in Int /\ Factor(t.cache) \in Int
        BY <3>1, ModelFacts, FactorFacts
      <3> QED BY <3>1, <3>2
    <2>4. Resident(model, u) * model.real \in Int /\ Resident(model, t) * model.real \in Int
      BY <1>10, <1>13
    <2> HIDE DEF off
    <2> QED BY <1>11, <1>14, <2>1, <2>2, <2>3, <2>4
  <1>16. /\ free = machine.total - others - Used(model, t)
         /\ FreeWith(u) = machine.total - others - Used(model, u)
         /\ machine.total \in Int /\ Used(model, t) \in Int /\ Used(model, u) \in Int
    BY <1>5, MachineFacts, UsedFacts DEF FreeWith, AnyMachine
  <1> HIDE DEF free
  <1>17. FreeWith(u) >= Margin
    BY <1>1, <1>11, <1>15, <1>16 DEF Margin
  <1> QED BY <1>17 DEF u

\* What is recorded of a launch: the fields asked for, and the experts that came up.
LEMMA RecordFacts ==
  ASSUME NEW file \in Tunings, NEW asked \in Tunings, NEW got \in Tunings
  PROVE  /\ RecordedIn(file, asked, got) \in Tunings
         /\ \A f \in Fields : RecordedIn(file, asked, got)[f] # file[f] =>
               IF f = "moe" THEN RecordedIn(file, asked, got)[f] = Experts(got)
               ELSE asked[f] # Unset /\ RecordedIn(file, asked, got)[f] = asked[f]
  <1> DEFINE top == [asked EXCEPT !.moe = Experts(got)]
  <1>1. Experts(got) \in {Unset} \cup 0 .. All
    BY ExpertsType
  <1>2. top \in Tunings /\ top.moe = Experts(got) /\ \A f \in Fields \ {"moe"} : top[f] = asked[f]
    BY <1>1, ExceptExperts
  <1>3. RecordedIn(file, asked, got) = IF MayRetune(got) THEN Overlay(file, top) ELSE file
    BY DEF RecordedIn
  <1> HIDE DEF top
  <1>4. /\ Overlay(file, top) \in Tunings
        /\ \A f \in Fields : Overlay(file, top)[f] = IF top[f] # Unset THEN top[f] ELSE file[f]
    BY <1>2, OverlayFacts
  <1> QED BY <1>2, <1>3, <1>4

-----------------------------------------------------------------------------
(* The invariant. *)

Commands == [at : Stages, from : Tunings, plan : Tunings, how : Hows]

\* The margin is promised from the moment a plan is made; what it needs of the rest is that
\* a server that runs has its layers and its context decided.
Inv ==
  /\ TypeOK
  /\ others \in Nat /\ others <= machine.total
  /\ cmd \in Commands
  /\ run # Down => Serving(run)
  /\ PlanKeepsMargin

LEMMA InvTypes ==
  ASSUME Inv
  PROVE  /\ machine \in Machines /\ model \in Models /\ others \in Nat
         /\ others \in OthersUse
         /\ run \in Tunings /\ memory \in Tunings /\ disk \in Tunings
         /\ cmd \in Commands /\ left \in 0 .. MaxRestarts
         /\ run # Down => Serving(run)
  BY DEF Inv, TypeOK

LEMMA IdleFacts ==
  /\ Idle \in Commands /\ Idle.at = "idle"
  /\ \A how \in Hows : /\ [Idle EXCEPT !.how = how] \in Commands
                       /\ [Idle EXCEPT !.how = how].at = "idle"
                       /\ [Idle EXCEPT !.how = how].how = how
  <1>1. Idle \in Commands /\ Idle.at = "idle"
    BY NothingFacts DEF Idle, Commands, Stages, Hows
  <1>2. \A how \in Hows : /\ [Idle EXCEPT !.how = how] \in Commands
                         /\ [Idle EXCEPT !.how = how].at = "idle"
                         /\ [Idle EXCEPT !.how = how].how = how
    BY <1>1 DEF Commands
  <1> QED BY <1>1, <1>2

\* A step that shows no plan.
LEMMA NoPlan ==
  ASSUME Inv, UNCHANGED <<machine, model>>, others' \in OthersUse, others' <= machine.total,
         run' \in Tunings, memory' \in Tunings, disk' \in Tunings, cmd' \in Commands,
         left' \in 0 .. MaxRestarts, run' # Down => Serving(run'),
         cmd'.at \notin {"shown", "restarting"}
  PROVE  Inv'
  <1>1. others' \in Nat
    BY CalibrateAssumption DEF CalibrateAssumption
  <1>2. TypeOK'
    <2>1. cmd'.at \in Stages /\ cmd'.how \in Hows /\ cmd'.from \in Tunings /\ cmd'.plan \in Tunings
      BY DEF Commands
    <2> QED BY <2>1 DEF Inv, TypeOK, Hows
  <1>3. PlanKeepsMargin'
    BY DEF PlanKeepsMargin
  <1>4. (run # Down => Serving(run))'
    BY DEF Down, Nothing, Serving, Tunings
  <1> QED BY <1>1, <1>2, <1>3, <1>4 DEF Inv

\* What the launches of a restart and of a replacement come to.
LEMMA LaunchInv ==
  ASSUME Inv, NEW asked \in Tunings, NEW got \in Launched(Filled(asked))
  PROVE  /\ got.how \in Hows
         /\ got.tune \in Tunings /\ (got.tune # Down => Serving(got.tune))
         /\ RecordedIn(disk, asked, got.tune) \in Tunings
         /\ got.how # "failed" => got.tune # Down
         /\ got.how = "failed" => got.tune = Down
         /\ got.how # "failed" => \A f \in Fields :
               RecordedIn(disk, asked, got.tune)[f] # disk[f] =>
                 Most(0, RecordedIn(disk, asked, got.tune)[f]) = Most(0, got.tune[f])
         /\ got.how = "tried" /\ Experts(got.tune) < Experts(asked) => FreeWith(got.tune) >= Margin
  <1>1. /\ machine \in Machines /\ model \in Models /\ others \in Nat /\ disk \in Tunings
    BY InvTypes
  <1> DEFINE t == Filled(asked)
  <1>2. /\ Serving(t) /\ Experts(t) = Experts(asked) /\ got \in Launched(t)
        /\ \A f \in Fields \ {"moe"} : asked[f] # Unset => t[f] = asked[f]
    BY FilledFacts
  <1> HIDE DEF t
  <1>3. /\ got.how \in {"kept", "tried", "raised", "failed"}
        /\ got.how = "failed" => got.tune = Down
        /\ got.how # "failed" => /\ Serving(got.tune)
                                 /\ \A f \in Fields \ {"moe"} : got.tune[f] = t[f]
        /\ got.how = "tried" => got.tune = Trial(t) /\ MayRetune(t)
    BY <1>1, <1>2, LaunchedFacts
  <1>4. got.how # "failed" => got.tune # Down
    BY <1>3, NothingFacts DEF Serving, Fields
  <1>5. got.tune \in Tunings
    BY <1>3, NothingFacts DEF Serving
  <1>6. RecordedIn(disk, asked, got.tune) \in Tunings
    BY <1>1, <1>5, RecordFacts
  <1>7. ASSUME got.how # "failed", NEW f \in Fields,
               RecordedIn(disk, asked, got.tune)[f] # disk[f]
        PROVE  Most(0, RecordedIn(disk, asked, got.tune)[f]) = Most(0, got.tune[f])
    <2>1. CASE f = "moe"
      <3>1. RecordedIn(disk, asked, got.tune)[f] = Most(0, got.tune.moe)
        <4> DEFINE now == RecordedIn(disk, asked, got.tune)
        <4>1. now[f] # disk[f]
          BY <1>7
        <4>2. ASSUME NEW tune \in Tunings, RecordedIn(disk, asked, tune)[f] # disk[f]
              PROVE  RecordedIn(disk, asked, tune)[f] = Experts(tune)
          BY <1>1, <2>1, <4>2, RecordFacts
        <4>3. now[f] = Experts(got.tune)
          BY <1>5, <4>1, <4>2
        <4> QED BY <4>3 DEF Experts, now
      <3>2. got.tune.moe \in -1 .. All
        BY <1>5, TuningFacts
      <3>3. \A x \in Int : Most(0, Most(0, x)) = Most(0, x)
        BY DEF Most
      <3>4. got.tune.moe \in Int
        <4>1. All \in Int
          BY DEF All
        <4>2. \A x \in -1 .. All : x \in Int
          BY <4>1
        <4> QED BY <3>2, <4>2
      <3>5. Most(0, Most(0, got.tune.moe)) = Most(0, got.tune.moe)
        BY <3>3, <3>4
      <3>6. got.tune[f] = got.tune.moe
        BY <2>1
      <3> QED BY <3>1, <3>5, <3>6
    <2>2. CASE f # "moe"
      <3>1. asked[f] # Unset /\ RecordedIn(disk, asked, got.tune)[f] = asked[f]
        BY <1>1, <1>5, <1>7, <2>2, RecordFacts
      <3>2. f \in Fields \ {"moe"}
        BY <1>7, <2>2
      <3>3. got.tune[f] = t[f]
        BY <1>3, <1>7, <3>2
      <3>4. t[f] = asked[f]
        BY <1>2, <3>1, <3>2
      <3> QED BY <3>1, <3>3, <3>4
    <2> QED BY <2>1, <2>2
  <1>8. got.how = "tried" /\ Experts(got.tune) < Experts(asked) => FreeWith(got.tune) >= Margin
    BY <1>1, <1>2, <1>3, TrialKeeps
  <1> QED BY <1>3, <1>4, <1>5, <1>6, <1>7, <1>8 DEF Hows

\* The types of what a step leaves alone.
LEMMA SameNext ==
  ASSUME Inv, UNCHANGED <<machine, model, others>>
  PROVE  others' \in OthersUse /\ others' <= machine.total
  BY DEF Inv, TypeOK

LEMMA LaunchesFacts ==
  ASSUME Inv, Launches
  PROVE  left' \in 0 .. MaxRestarts /\ left' # left
  <1>1. left \in 0 .. MaxRestarts /\ MaxRestarts \in Nat
    BY InvTypes, CalibrateAssumption DEF CalibrateAssumption
  <1> QED BY <1>1 DEF Launches

\* A restart or a replacement: what was asked for, and what came of it.
LEMMA AskedFacts ==
  ASSUME Inv
  PROVE  Asked \in Tunings /\ memory \in Tunings
  BY InvTypes DEF Asked, Commands

-----------------------------------------------------------------------------
(* One lemma for each action. *)

LEMMA RestartInv == ASSUME Inv, Restart PROVE Inv'
  <1>1. PICK got \in Launched(Filled(memory)) :
          /\ run' = got.tune
          /\ disk' = IF got.how = "failed" THEN disk ELSE RecordedIn(disk, memory, got.tune)
          /\ cmd' = [Idle EXCEPT !.how = got.how]
          /\ UNCHANGED <<machine, model, others, memory>>
    BY DEF Restart
  <1>2. /\ got.how \in Hows
        /\ got.tune \in Tunings /\ (got.tune # Down => Serving(got.tune))
        /\ RecordedIn(disk, memory, got.tune) \in Tunings
    BY LaunchInv, InvTypes
  <1>3. cmd' \in Commands /\ cmd'.at = "idle"
    BY <1>1, <1>2, IdleFacts
  <1>4. left' \in 0 .. MaxRestarts
    BY LaunchesFacts DEF Restart
  <1> QED BY <1>1, <1>2, <1>3, <1>4, SameNext, InvTypes, NoPlan

LEMMA ResetInv == ASSUME Inv, Reset PROVE Inv'
  <1> DEFINE usable == FreeWith(run) + Used(model, run)
  <1>1. usable \in Int
    BY InvTypes, FreeFacts
  <1>2. disk.ctx \in Int /\ disk.ctx <= ExactMax /\ 0 <= ExactMax
    BY InvTypes, TuningFacts DEF ExactMax
  <1>3. machine \in AnyMachine /\ model \in Models
    BY InvTypes, MachineFacts
  <1> HIDE DEF usable
  <1>4. Tuned(machine, model, usable, 0, disk.ctx, 0) \in Tunings
    BY <1>1, <1>2, <1>3, TunedFacts
  <1>5. disk' \in Tunings
    BY <1>4 DEF Reset, usable
  <1>6. cmd' \in Commands /\ cmd'.at = "idle" /\ UNCHANGED <<machine, model, others, run, memory, left>>
    BY IdleFacts DEF Reset
  <1> QED BY <1>5, <1>6, SameNext, InvTypes, NoPlan DEF Down, Nothing

LEMMA CalibrateKeeps == ASSUME Inv, NEW confirmed \in BOOLEAN, NEW read \in BOOLEAN,
                               Calibrate(confirmed, read)
                        PROVE  Inv'
  <1> DEFINE plan == PlanOf(run, read)
  <1>1. /\ machine \in Machines /\ model \in Models /\ others \in Nat /\ run \in Tunings
        /\ run # Down => Serving(run)
    BY InvTypes
  <1>2. UNCHANGED <<machine, model, others, run, memory, disk, left>>
    BY DEF Calibrate
  <1>3. FreeWith(run) \in Int /\ Used(model, run) \in Nat
    BY <1>1, FreeFacts
  <1>4. plan \in {Nothing, Plan(run, FreeWith(run))}
    BY DEF PlanOf
  <1>5. plan \in Tunings
    BY <1>1, <1>3, <1>4, PlanFacts, NothingFacts
  <1>6. /\ cmd'.at \in {"shown", "restarting"} /\ cmd'.from = run /\ cmd'.plan = plan
        /\ cmd'.how = "none"
        /\ cmd' = [at |-> cmd'.at, from |-> run, plan |-> plan, how |-> "none"]
    BY DEF Calibrate
  <1> HIDE DEF plan
  <1>7. cmd' \in Commands
    BY <1>1, <1>5, <1>6 DEF Commands, Stages, Hows
  <1>8. TypeOK'
    <2>1. cmd'.at \in Stages /\ cmd'.how \in Hows /\ cmd'.from \in Tunings /\ cmd'.plan \in Tunings
      BY <1>7 DEF Commands
    <2> QED BY <1>2, <2>1 DEF Inv, TypeOK, Hows
  <1>9. PlanKeepsMargin'
    <2>1. \A t : FreeWith(t)' = FreeWith(t)
      BY <1>2 DEF FreeWith
    <2>2. SUFFICES ASSUME ~model.moe, ~machine.unified, model.header, run.ngl > 0,
                          IsSet(run.cache), plan.cache = Unset, FreeWith(run) >= Margin,
                          Overlay(run, plan).ctx <= run.ctx + Span
                   PROVE  FreeWith(Overlay(run, plan)) >= Margin
      BY <1>2, <1>6, <2>1 DEF PlanKeepsMargin, FreeWith
    <2>3. Serving(run)
      <3>1. Down.ngl = -1
        BY DEF Down, Nothing, Unset
      <3> QED BY <1>1, <2>2, <3>1
    <2> QED BY <1>1, <1>4, <2>2, <2>3, PlanKeeps
  <1>10. (others \in Nat /\ others <= machine.total)' /\ (run # Down => Serving(run))'
    BY <1>1, <1>2 DEF Inv, Down, Nothing, Serving, Tunings
  <1> QED BY <1>7, <1>8, <1>9, <1>10 DEF Inv

LEMMA RefusedInv == ASSUME Inv, Refused PROVE Inv'
  <1>1. cmd \in Commands
    BY InvTypes
  <1> DEFINE at == IF cmd.at = "restarting" THEN "restoring" ELSE "lost"
  <1>2. cmd' = [cmd EXCEPT !.at = at] /\ UNCHANGED <<machine, model, others, run, memory, disk, left>>
    BY <1>1 DEF Refused, Commands
  <1>3. at \in {"restoring", "lost"}
    OBVIOUS
  <1> HIDE DEF at
  <1>4. cmd' \in Commands /\ cmd'.at = at
    BY <1>1, <1>2, <1>3 DEF Commands, Stages
  <1> QED BY <1>2, <1>3, <1>4, SameNext, InvTypes, NoPlan DEF Down, Nothing

LEMMA ReplaceInv == ASSUME Inv, NEW got \in Launched(Filled(Asked)), Replace(got) PROVE Inv'
  <1> DEFINE up == got.how # "failed"
             next == CASE cmd.at = "restarting" /\ up -> "applied"
                       [] cmd.at = "restarting" /\ ~up -> "restoring"
                       [] cmd.at = "restoring" /\ up -> "restored"
                       [] OTHER -> "lost"
  <1>1. /\ run' = got.tune
        /\ disk' = IF up THEN RecordedIn(disk, Asked, got.tune) ELSE disk
        /\ cmd' = [cmd EXCEPT !.at = next, !.how = got.how]
        /\ UNCHANGED <<machine, model, others, memory>>
    BY DEF Replace
  <1>2. next \in {"applied", "restoring", "restored", "lost"}
    OBVIOUS
  <1> HIDE DEF next
  <1>4. /\ got.how \in Hows
        /\ got.tune \in Tunings /\ (got.tune # Down => Serving(got.tune))
        /\ RecordedIn(disk, Asked, got.tune) \in Tunings
    BY AskedFacts, LaunchInv
  <1>5. cmd' \in Commands /\ cmd'.at = next
    BY <1>1, <1>2, <1>4, InvTypes DEF Commands, Stages
  <1>6. left' \in 0 .. MaxRestarts
    BY LaunchesFacts DEF Replace
  <1>7. disk' \in Tunings
    BY <1>1, <1>4, InvTypes
  <1> QED BY <1>1, <1>2, <1>4, <1>5, <1>6, <1>7, SameNext, InvTypes, NoPlan

LEMMA OthersChangeInv == ASSUME Inv, OthersChange PROVE Inv'
  <1>1. PICK use \in OthersUse : use + Used(model, run) <= machine.total /\ others' = use
    BY DEF OthersChange
  <1>2. UNCHANGED <<machine, model, run, memory, disk, left>> /\ cmd' = Idle
    BY DEF OthersChange
  <1>3. Used(model, run) \in Nat
    BY InvTypes, FreeFacts
  <1>4. use \in Nat /\ machine.total \in Nat
    BY InvTypes, MachineFacts, CalibrateAssumption DEF CalibrateAssumption, AnyMachine
  <1>5. others' \in OthersUse /\ others' <= machine.total
    BY <1>1, <1>3, <1>4
  <1> QED BY <1>2, <1>5, IdleFacts, InvTypes, NoPlan DEF Down, Nothing

LEMMA ServerDiesInv == ASSUME Inv, ServerDies PROVE Inv'
  <1>1. run' = Down /\ UNCHANGED <<machine, model, others, memory, disk, cmd, left>>
    BY DEF ServerDies
  <1>2. PlanKeepsMargin'
    <2>1. PlanKeepsMargin
      BY DEF Inv
    <2> QED BY <1>1, <2>1 DEF PlanKeepsMargin, FreeWith
  <1>3. TypeOK'
    BY <1>1, NothingFacts DEF Inv, TypeOK
  <1>4. (run # Down => Serving(run))'
    BY <1>1 DEF Down, Nothing
  <1> QED BY <1>1, <1>2, <1>3, <1>4 DEF Inv

LEMMA NewSessionInv == ASSUME Inv, NewSession PROVE Inv'
  <1>1. /\ run' = Down /\ memory' = disk /\ cmd' = Idle
        /\ UNCHANGED <<machine, model, others, disk, left>>
    BY DEF NewSession
  <1>2. run' \in Tunings /\ cmd' \in Commands /\ cmd'.at = "idle"
    BY <1>1, NothingFacts, IdleFacts
  <1>3. run' # Down => Serving(run')
    BY <1>1
  <1> QED BY <1>1, <1>2, <1>3, SameNext, InvTypes, NoPlan

LEMMA InitInv == ASSUME Init PROVE Inv
  <1>1. /\ machine \in Machines /\ model \in Models /\ others \in OthersUse
        /\ others <= machine.total /\ others \in Nat
        /\ disk = memory /\ run = Down /\ cmd = Idle /\ left = MaxRestarts
    BY CalibrateAssumption DEF Init, CalibrateAssumption
  <1>2. memory \in Tunings
    <2>1. PICK raised \in RaisedTo, flash \in 0 .. 1 :
            memory = [Tuned(machine, model, machine.total - others, raised, 0, 0)
                        EXCEPT !.flash = flash]
      BY DEF Init
    <2> DEFINE t == Tuned(machine, model, machine.total - others, raised, 0, 0)
    <2>2. raised \in Int /\ raised <= ExactMax /\ 0 <= ExactMax
      BY CalibrateAssumption DEF CalibrateAssumption, ExactMax
    <2>3. machine \in AnyMachine /\ machine.total - others \in Int
      BY <1>1, MachineFacts DEF AnyMachine
    <2>4. t \in Tunings
      BY <1>1, <2>2, <2>3, TunedFacts
    <2>5. flash \in {Unset, 0, 1}
      OBVIOUS
    <2> HIDE DEF t
    <2>6. [t EXCEPT !.flash = flash] \in Tunings
      BY <2>4, <2>5 DEF Tunings
    <2> QED BY <2>1, <2>6 DEF t
  <1>3. cmd \in Commands /\ cmd.at = "idle" /\ run \in Tunings
    BY <1>1, IdleFacts, NothingFacts
  <1>4. left \in 0 .. MaxRestarts
    BY <1>1, CalibrateAssumption DEF CalibrateAssumption
  <1>5. TypeOK
    <2>1. cmd.at \in Stages /\ cmd.how \in Hows /\ cmd.from \in Tunings /\ cmd.plan \in Tunings
      BY <1>3 DEF Commands
    <2> QED BY <1>1, <1>2, <1>3, <1>4, <2>1 DEF TypeOK, Hows
  <1>6. PlanKeepsMargin
    BY <1>3 DEF PlanKeepsMargin
  <1> QED BY <1>1, <1>3, <1>5, <1>6 DEF Inv

LEMMA NextInv == ASSUME Inv, [Next]_vars PROVE Inv'
  <1>1. CASE Restart
    BY <1>1, RestartInv
  <1>2. CASE Reset
    BY <1>2, ResetInv
  <1>3. CASE Refused
    BY <1>3, RefusedInv
  <1>4. CASE OthersChange
    BY <1>4, OthersChangeInv
  <1>5. CASE ServerDies
    BY <1>5, ServerDiesInv
  <1>6. CASE NewSession
    BY <1>6, NewSessionInv
  <1>7. CASE \E confirmed, read \in BOOLEAN : Calibrate(confirmed, read)
    BY <1>7, CalibrateKeeps
  <1>8. CASE \E got \in Launched(Filled(Asked)) : Replace(got)
    BY <1>8, ReplaceInv
  <1>9. CASE UNCHANGED vars
    BY <1>9 DEF vars, Inv, TypeOK, PlanKeepsMargin, FreeWith, Serving
  <1> QED BY <1>1, <1>2, <1>3, <1>4, <1>5, <1>6, <1>7, <1>8, <1>9 DEF Next

-----------------------------------------------------------------------------
(* The theorems. *)

\* The invariant holds of every machine and model, whatever is restarted, reset,
\* calibrated or taken back.
THEOREM Invariance == Spec => []Inv
  <1>1. Init => Inv
    BY InitInv
  <1>2. Inv /\ [Next]_vars => Inv'
    BY NextInv
  <1> QED BY <1>1, <1>2, PTL DEF Spec

\* A plan taken whole keeps the safety margin, and the tuning that setup or /reset derives
\* for a dense model on a card loads there (planCalibration, tuneForHardware).
THEOREM CalibrateCorrect == Spec => []CalibrateInv
  <1>1. Inv => CalibrateInv
    <2> SUFFICES ASSUME Inv PROVE CalibrateInv
      OBVIOUS
    <2>1. TypeOK /\ PlanKeepsMargin
      BY DEF Inv
    <2>2. SizedServerLoads
      <3> SUFFICES ASSUME ~model.moe, model.header, machine.total > 0,
                          NEW again \in {0, disk.ctx}
                   PROVE  Loads(Tuned(machine, model, machine.total - others, 0, again, 0))
        BY DEF SizedServerLoads
      <3>1. again \in Int /\ again <= ExactMax
        BY InvTypes, TuningFacts DEF ExactMax
      <3>2. others <= machine.total
        BY DEF Inv
      <3> QED BY <3>1, <3>2, InvTypes, SizedLoads
    <2> QED BY <2>1, <2>2 DEF CalibrateInv
  <1> QED BY <1>1, Invariance, PTL

\* A step that launches is a restart or a replacement.
LEMMA LaunchSteps ==
  ASSUME Inv, [Next]_vars, left' # left
  PROVE  \/ Restart /\ ~Busy
         \/ Busy /\ \E got \in Launched(Filled(Asked)) : Replace(got)
  <1>1. ~(Reset \/ Refused \/ OthersChange \/ ServerDies \/ NewSession)
    BY DEF Reset, Refused, OthersChange, ServerDies, NewSession
  <1>2. ~\E confirmed, read \in BOOLEAN : Calibrate(confirmed, read)
    BY DEF Calibrate
  <1>3. Next
    BY DEF vars
  <1>4. CASE Restart
    BY <1>4 DEF Restart
  <1>5. CASE \E got \in Launched(Filled(Asked)) : Replace(got)
    BY <1>5 DEF Replace
  <1> QED BY <1>1, <1>2, <1>3, <1>4, <1>5 DEF Next

\* Experts come back to the card, on the way up of a server, only where the margin stays
\* (retuneExperts after a launch that fits).
THEOREM ComingBackKeepsMarginCorrect == Spec => ComingBackKeepsMargin
  <1> DEFINE A == /\ left' # left /\ cmd'.how = "tried"
                  /\ Experts(run') < Experts(IF Busy THEN Asked ELSE memory)
                  => FreeWith(run') >= Margin
  <1>1. Inv /\ [Next]_vars => [A]_vars
    <2> SUFFICES ASSUME Inv, [Next]_vars, left' # left, cmd'.how = "tried",
                        Experts(run') < Experts(IF Busy THEN Asked ELSE memory)
                 PROVE  FreeWith(run') >= Margin
      BY DEF A
    <2>1. CASE Restart /\ ~Busy
      <3>1. PICK got \in Launched(Filled(memory)) :
              run' = got.tune /\ cmd' = [Idle EXCEPT !.how = got.how]
        BY <2>1 DEF Restart
      <3>2. got.how \in Hows
        BY LaunchInv, InvTypes
      <3>3. got.how = "tried"
        BY <3>1, <3>2, IdleFacts
      <3>4. Experts(got.tune) < Experts(memory)
        BY <2>1, <3>1
      <3>5. FreeWith(got.tune) >= Margin
        BY <3>3, <3>4, LaunchInv, InvTypes
      <3> QED BY <3>1, <3>5
    <2>2. ASSUME Busy, NEW got \in Launched(Filled(Asked)), Replace(got)
          PROVE  FreeWith(run') >= Margin
      <3>1. run' = got.tune /\ cmd'.how = got.how
        <4>1. cmd \in Commands
          BY InvTypes
        <4> QED BY <2>2, <4>1 DEF Replace, Commands
      <3>2. Experts(got.tune) < Experts(Asked) /\ got.how = "tried"
        BY <2>2, <3>1
      <3>3. FreeWith(got.tune) >= Margin
        BY <3>2, AskedFacts, LaunchInv
      <3> QED BY <3>1, <3>3
    <2> QED BY <2>1, <2>2, LaunchSteps
  <1> QED BY <1>1, Invariance, PTL DEF Spec, ComingBackKeepsMargin, A

\* What is written of a launch is what the server that came up runs with
\* (startCalibrated's record, runCalibration's).
THEOREM RecordsWhatServesCorrect == Spec => RecordsWhatServes
  <1> DEFINE A == left' # left =>
                    /\ disk' # disk => run' # Down
                    /\ \A f \in DOMAIN disk : disk'[f] # disk[f] =>
                         Most(0, disk'[f]) = Most(0, run'[f])
  <1>1. Inv /\ [Next]_vars => [A]_vars
    <2> SUFFICES ASSUME Inv, [Next]_vars, left' # left
                 PROVE  A
      BY DEF A
    <2>1. DOMAIN disk = Fields
      BY InvTypes, TuningFacts
    <2>2. ASSUME NEW asked \in Tunings, NEW got \in Launched(Filled(asked)),
                 run' = got.tune,
                 disk' = IF got.how # "failed" THEN RecordedIn(disk, asked, got.tune) ELSE disk
          PROVE  A
      <3>1. CASE got.how = "failed"
        BY <2>2, <3>1 DEF A
      <3>2. CASE got.how # "failed"
        <4>1. got.tune # Down
          BY <2>2, <3>2, LaunchInv
        <4>2. \A f \in Fields : RecordedIn(disk, asked, got.tune)[f] # disk[f] =>
                 Most(0, RecordedIn(disk, asked, got.tune)[f]) = Most(0, got.tune[f])
          BY <2>2, <3>2, LaunchInv
        <4> QED BY <2>1, <2>2, <3>2, <4>1, <4>2 DEF A
      <3> QED BY <3>1, <3>2
    <2> HIDE DEF A
    <2>3. CASE Restart /\ ~Busy
      <3>1. PICK got \in Launched(Filled(memory)) :
              /\ run' = got.tune
              /\ disk' = IF got.how # "failed" THEN RecordedIn(disk, memory, got.tune) ELSE disk
        BY <2>3 DEF Restart
      <3> QED BY <2>2, <3>1, InvTypes
    <2>4. ASSUME NEW got \in Launched(Filled(Asked)), Replace(got) PROVE A
      <3>1. /\ run' = got.tune
            /\ disk' = IF got.how # "failed" THEN RecordedIn(disk, Asked, got.tune) ELSE disk
        BY <2>4 DEF Replace
      <3> QED BY <2>2, <3>1, AskedFacts
    <2> QED BY <2>3, <2>4, LaunchSteps
  <1> QED BY <1>1, Invariance, PTL DEF Spec, RecordsWhatServes, A

============================================================================
