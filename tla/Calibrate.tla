----------------------------- MODULE Calibrate -----------------------------
(* /server calibrate: what is read off the running server and its card          *)
(* (measureCalibration), the plan made of it (planCalibration), and the restart  *)
(* with that plan, taken back when the server does not come up (runCalibration,  *)
(* src/setup/calibrateCommand.ts, calibrateTuning.ts); with it the trial a       *)
(* restart makes of the experts (startCalibrated, src/setup/calibrate.ts).       *)
(*                                                                             *)
(* A tuning is [ngl, ctx, moe, thr, tb, cache, flash] (flash: 1 is on); Unset is  *)
(* a field nobody decided.  Which pid holds the port is ServerLife's matter: here  *)
(* a replacement is refused, fails, or brings a server up.                      *)
EXTENDS Tuning

CONSTANTS
    OthersUse,     \* what the other programs may hold of the card
    RaisedTo,      \* contexts the user may have asked for; 0 is none
    MaxRestarts    \* bound: servers launched in one behaviour

ASSUME CalibrateAssumption ==
    /\ OthersUse \subseteq Nat
    /\ RaisedTo \subseteq 0 .. ExactMax
    /\ MaxRestarts \in Nat

VARIABLES
    machine, model,   \* what there is
    others,           \* the share of the card other programs hold
    run,              \* the tuning of the running server; Down when none runs
    memory,           \* the tuning in the configuration this session loaded
    disk,             \* the tuning in the configuration file
    cmd,              \* the command in progress or last done
    left              \* launches left of the bound

vars == <<machine, model, others, run, memory, disk, cmd, left>>

Unset == -1
Nothing == [ngl |-> Unset, ctx |-> Unset, moe |-> Unset, thr |-> Unset,
            tb |-> Unset, cache |-> Unset, flash |-> Unset]
Down == Nothing

Margin == 10      \* the safety margin, 600 MiB
Growth == 6       \* what a growing context keeps back, 384 MiB
FewLayers == 4    \* below this calibrating is noise
Span == 15        \* the blocks of context over which the growth was measured

IsSet(v) == v # Unset
Overlay(base, top) == [f \in DOMAIN base |-> IF IsSet(top[f]) THEN top[f] ELSE base[f]]

\* The flags a launch adds of its own accord, and those it leaves out.
Defaults == [Nothing EXCEPT !.ctx = 2, !.thr = 4, !.ngl = 0]
Filled(t) == [Overlay(Defaults, t) EXCEPT !.moe = IF @ = 0 THEN Unset ELSE @]

(***************************************************************************)
(* The card. Resident layers and the cache of every block are on it, and a    *)
(* buffer that grows with the context: 300 MiB over the span measured.         *)
(***************************************************************************)
Offloaded(m, t) == IF t.ngl >= All THEN m.layers ELSE Least(t.ngl, m.layers)

Resident(m, t) == IF m.moe /\ t.moe > 0
                  THEN m.layers - Most(m.layers - Offloaded(m, t), Least(t.moe, m.layers))
                  ELSE Offloaded(m, t)

Used(m, t) == IF t = Down \/ Offloaded(m, t) = 0 THEN 0
              ELSE Resident(m, t) * m.real + t.ctx * m.kv * Factor(t.cache) + t.ctx \div 3

FreeWith(t) == machine.total - others - Used(model, t)
Loads(t) == machine.total = 0 \/ machine.unified \/ FreeWith(t) >= 0

(***************************************************************************)
(* planCalibration. "b" is the tuning of the running server, "free" what it    *)
(* leaves of the card. Each operator gives one field, or Unset to leave it.    *)
(***************************************************************************)
PerLayer == IF model.header THEN model.per ELSE 0
Slack(free) == free - Margin
Room(free) == IF PerLayer > 0 THEN Slack(free) \div PerLayer ELSE 0
TargetLayers(b, free) ==
    Most(0, Least(model.layers, Offloaded(model, b) + Room(free)))
Wanted(b, free) == IF TargetLayers(b, free) >= model.layers THEN All
                   ELSE TargetLayers(b, free)

KnowsLayers(b) == b.ngl # Unset /\ PerLayer > 0

PlannedLayers(b, free) ==
    LET have == IF b.ngl >= All THEN model.layers ELSE b.ngl
        noise == have > 0 /\ have < FewLayers /\ TargetLayers(b, free) < FewLayers
    IN  IF KnowsLayers(b) /\ Wanted(b, free) # b.ngl /\ ~noise
        THEN Wanted(b, free) ELSE Unset

\* What the layers take of the card, so the context does not spend it again.
LayerCost(b, free) ==
    IF KnowsLayers(b)
    THEN Most(0, TargetLayers(b, free) - Offloaded(model, b)) * PerLayer ELSE 0

PlannedExperts(b, free) ==
    LET have == Most(0, b.moe)
        most == IF PerLayer > 0 THEN model.layers ELSE have
        target == Most(0, Least(most, have - Room(free)))
    IN  CASE model.moe /\ b.moe # Unset /\ b.moe # target -> target
          [] ~model.moe /\ b.moe > 0 -> 0
          [] OTHER -> Unset

\* A deficit is given back, room above the margin and the buffer is grown into,
\* and between the two the context stays.
PlannedContext(b, free, tuned) ==
    LET cost == model.kv * Factor(IF IsSet(b.cache) THEN b.cache ELSE tuned.cache)
        after == Slack(free) - LayerCost(b, free)
        spare == after - Growth
        Aligned(n) == Most(MinBlocks, Least(Ceiling(model), n))
        target == CASE ~model.header -> tuned.ctx
                    [] model.header /\ after < 0 ->
                         Least(b.ctx, Aligned(b.ctx - CeilDiv(-after, cost)))
                    [] model.header /\ spare >= 0 ->
                         Most(b.ctx, Aligned(b.ctx + spare \div cost))
                    [] OTHER -> b.ctx
    IN  IF b.ctx # Unset /\ target # b.ctx THEN target ELSE Unset

PlannedCache(b, tuned) ==
    IF IsSet(b.cache) /\ b.cache # tuned.cache THEN tuned.cache ELSE Unset

Changed(old, new, known) == IF known /\ old # new THEN new ELSE Unset
WithThreads(plan, b, gpu) ==
    LET threads == ThreadPlan(machine.cores, gpu)
    IN  [plan EXCEPT !.thr = Changed(b.thr, threads.thr, TRUE),
                     !.tb = Changed(b.tb, threads.tb, b.tb # Unset)]

Plan(b, free) ==
    LET usable == Least(machine.total, free + Used(model, b))
        tuned == Tuned([machine EXCEPT !.ram = 0], model, usable, 0, 0, 0)
        ngl == PlannedLayers(b, free)
        sized == [Nothing EXCEPT
                    !.ngl = ngl, !.moe = PlannedExperts(b, free),
                    !.ctx = PlannedContext(b, free, tuned),
                    !.cache = PlannedCache(b, tuned),
                    !.flash = IF b.flash = 0 THEN 1 ELSE Unset]
        onCard == IF ngl # Unset THEN ngl > 0 ELSE b.ngl > 0
    IN  IF machine.unified THEN WithThreads(Nothing, b, TRUE)
        ELSE WithThreads(sized, b, onCard)

\* A card that cannot be read gives no plan.
PlanOf(b, read) == IF read /\ machine.total > 0 THEN Plan(b, FreeWith(b)) ELSE Nothing

(***************************************************************************)
(* A launch. A mixture of experts that does not fit is tried again with more  *)
(* experts aside; one that fits at once is moved to where the margin allows.   *)
(***************************************************************************)
Experts(t) == Most(0, t.moe)
MayRetune(t) == model.moe /\ model.header /\ t.ngl # 0

\* The three retries, each of 15 % more experts and two at least.
Step(have) == Most(2, CeilDiv(15 * Most(have, 8), 100))
Raised(t) == [t EXCEPT !.moe = Least(model.layers, Experts(t) + Step(Experts(t)))]
Raises(t) == {Raised(t), Raised(Raised(t)), Raised(Raised(Raised(t)))}
FirstOf(ts) == CHOOSE t \in ts : \A u \in ts : t.moe <= u.moe

MovedByAll(t, free) == -Least(Experts(t), Most(0, free \div model.per))
MovedBy(t, free) ==
    LET slack == (free - Margin) \div model.per
        short == CeilDiv(Margin - free, model.per)
        drop == Least(Experts(t), slack)
        add == Least(model.layers - Experts(t), short)
    IN  CASE drop >= 1 -> -drop [] drop < 1 /\ add >= 1 -> add [] OTHER -> 0
Trial(t) == [t EXCEPT !.moe = Experts(t) + MovedBy(t, FreeWith(t))]

\* A trial: no raise before it, a card that is read, and something to move.
MayTry(t) ==
    /\ Loads(t) /\ MayRetune(t) /\ machine.total > 0
    /\ Experts(t) > 0 \/ FreeWith(t) < Margin
    /\ MovedBy(t, FreeWith(t)) # 0

\* What runs in the end, and how it was found. The trial is left out when this model was
\* calibrated before at this context on this card, or the card cannot be read just then;
\* after a trial that did not come up the first launch is brought back, which may fail, as
\* every launch may for a reason of its own.
EndsIn(t, how, u) ==
    LET raised == {v \in Raises(t) : Loads(v)}
    IN  \/ how = "kept" /\ u = t /\ Loads(t)
        \/ how = "tried" /\ u = Trial(t) /\ MayTry(t) /\ Loads(u)
        \/ /\ how = "raised" /\ ~Loads(t) /\ MayRetune(t) /\ Experts(t) < model.layers
           /\ raised # {} /\ u = FirstOf(raised)
        \/ how = "failed" /\ u = Down
Hows == {"none", "kept", "tried", "raised", "failed"}
Launched(t) ==
    {got \in [how : Hows, tune : {t, Trial(t), Down} \cup Raises(t)] :
        EndsIn(t, got.how, got.tune)}

\* A measured launch is recorded: the fields that were asked for and the experts.
RecordedAsAsked(file, asked, got) ==
    IF MayRetune(got) THEN Overlay(file, asked) ELSE file
RecordedIn(file, asked, got) ==
    IF MayRetune(got) THEN Overlay(file, [asked EXCEPT !.moe = Experts(got)]) ELSE file

(***************************************************************************)
(* Behaviour                                                                 *)
(***************************************************************************)
Idle == [at |-> "idle", from |-> Down, plan |-> Nothing, how |-> "none"]
Stages == {"idle", "shown", "restarting", "restoring", "restored", "applied", "lost"}
Busy == cmd.at \in {"restarting", "restoring"}

Launches ==
    /\ left > 0
    /\ left' = left - 1

\* Setup sized a server for this machine; the user may have edited the result.
Init ==
    /\ machine \in Machines /\ model \in Models /\ others \in OthersUse
    /\ others <= machine.total
    /\ \E raised \in RaisedTo, flash \in 0 .. 1 :
         memory = [Tuned(machine, model, machine.total - others, raised, 0, 0)
                     EXCEPT !.flash = flash]
    /\ disk = memory /\ run = Down
    /\ cmd = Idle /\ left = MaxRestarts

\* /server restart: the tuning this session loaded.
Restart ==
    /\ ~Busy /\ Launches
    /\ \E got \in Launched(Filled(memory)) :
           /\ run' = got.tune
           /\ disk' = IF got.how = "failed" THEN disk ELSE RecordedIn(disk, memory, got.tune)
           /\ cmd' = [Idle EXCEPT !.how = got.how]
    /\ UNCHANGED <<machine, model, others, memory>>

\* /reset confirm: setup's step on the machine as it is, the memory of our own
\* server counted as free; a context that still fits stays. Only the file changes.
Reset ==
    /\ ~Busy
    /\ disk' = Tuned(machine, model, FreeWith(run) + Used(model, run), 0, disk.ctx, 0)
    /\ cmd' = Idle
    /\ UNCHANGED <<machine, model, others, run, memory, left>>

\* /server calibrate and /server calibrate confirm.
Calibrate(confirmed, read) ==
    /\ ~Busy
    /\ LET plan == PlanOf(run, read)
       IN  cmd' = [at |-> IF confirmed /\ plan # Nothing THEN "restarting" ELSE "shown",
                   from |-> run, plan |-> plan, how |-> "none"]
    /\ UNCHANGED <<machine, model, others, run, memory, disk, left>>

\* The gate does not let the server go, so nothing was touched.
Refused ==
    /\ Busy
    /\ cmd' = [cmd EXCEPT !.at = IF @ = "restarting" THEN "restoring" ELSE "lost"]
    /\ UNCHANGED <<machine, model, others, run, memory, disk, left>>

Asked == IF cmd.at = "restarting" THEN cmd.plan ELSE memory

\* The server is stopped and another is launched; the first failure asks for the
\* tuning of the configuration instead.
Replace(got) ==
    /\ Busy /\ Launches
    /\ LET up == got.how # "failed"
           next == CASE cmd.at = "restarting" /\ up -> "applied"
                     [] cmd.at = "restarting" /\ ~up -> "restoring"
                     [] cmd.at = "restoring" /\ up -> "restored"
                     [] OTHER -> "lost"
       IN  /\ run' = got.tune
           /\ disk' = IF up THEN RecordedIn(disk, Asked, got.tune) ELSE disk
           /\ cmd' = [cmd EXCEPT !.at = next, !.how = got.how]
    /\ UNCHANGED <<machine, model, others, memory>>

\* Other programs come and go.
OthersChange ==
    /\ ~Busy
    /\ \E use \in OthersUse : use # others /\ use + Used(model, run) <= machine.total
                              /\ others' = use
    /\ cmd' = Idle
    /\ UNCHANGED <<machine, model, run, memory, disk, left>>

ServerDies ==
    /\ run # Down /\ run' = Down
    /\ UNCHANGED <<machine, model, others, memory, disk, cmd, left>>

\* The session ends, its server with it; the next one loads the file.
NewSession ==
    /\ run' = Down /\ memory' = disk /\ cmd' = Idle
    /\ UNCHANGED <<machine, model, others, disk, left>>

Next ==
    \/ Restart \/ Reset \/ Refused \/ OthersChange \/ ServerDies \/ NewSession
    \/ \E confirmed, read \in BOOLEAN : Calibrate(confirmed, read)
    \/ \E got \in Launched(Filled(Asked)) : Replace(got)

Spec == Init /\ [][Next]_vars

(***************************************************************************)
(* Properties                                                                *)
(***************************************************************************)
Tunings == [ngl : {Unset} \cup 0 .. All, ctx : {Unset} \cup MinBlocks .. ExactMax,
            moe : {Unset} \cup 0 .. All, thr : {Unset} \cup (Nat \ {0}),
            tb : {Unset} \cup (Nat \ {0}), cache : {Unset, Q4, Q8},
            flash : {Unset, 0, 1}]

\* Types: no flag leaves its range; a server never has fewer than one block of
\* context, nor more than was ever benchmarked.
TypeOK ==
    /\ machine \in Machines /\ model \in Models /\ others \in OthersUse
    /\ {run, memory, disk, cmd.from, cmd.plan} \subseteq Tunings
    /\ cmd.at \in Stages
    /\ cmd.how \in Hows
    /\ left \in 0 .. MaxRestarts

\* A plan for a dense server that keeps the safety margin, taken whole, keeps it
\* too: the layers and the context never spend the same memory, and a margin that
\* is intact is not eaten. (The type of the cache stays: a change of it is not
\* paid for. The server uses its card: the cache of one that does not is not on
\* it, so planning does not see it. What is kept back for the buffer was measured
\* over Span blocks, calibrateTuning.ts:120-127, and is promised for no more.)
PlanKeepsMargin ==
    LET b == cmd.from
        taken == Overlay(b, cmd.plan)
    IN  /\ cmd.at \in {"shown", "restarting"} /\ ~model.moe /\ ~machine.unified
        /\ model.header /\ b.ngl > 0 /\ IsSet(b.cache) /\ cmd.plan.cache = Unset
        /\ FreeWith(b) >= Margin /\ taken.ctx <= b.ctx + Span
        => FreeWith(taken) >= Margin

\* The tuning setup and /reset derive for a dense model on a card loads there, with
\* whatever other programs hold of it and a context that was kept.
SizedServerLoads ==
    /\ ~model.moe /\ model.header /\ machine.total > 0
    => \A again \in {0, disk.ctx} :
         Loads(Tuned(machine, model, machine.total - others, 0, again, 0))

\* Experts are brought back to the card only as far as the margin allows.
ComingBackKeepsMargin ==
    [][/\ left' # left /\ cmd'.how = "tried"
       /\ Experts(run') < Experts(IF Busy THEN Asked ELSE memory)
       => FreeWith(run') >= Margin]_vars

\* What a restart writes in the configuration is what the server it started runs
\* with, also when the number of experts was changed on the way up.
RecordsWhatServes ==
    [][left' # left =>
        /\ disk' # disk => run' # Down
        /\ \A f \in DOMAIN disk : disk'[f] # disk[f] =>
             Most(0, disk'[f]) = Most(0, run'[f])]_vars

\* calibrateTuning.ts:80-84 and the lines it prints: a field the plan does not name
\* is left alone. The restart fills it with the defaults of a launch instead.
CalibrationLeavesTheRest ==
    [][/\ cmd.at = "restarting" /\ cmd'.at = "applied" /\ cmd.from # Down
       => \A f \in DOMAIN run \ {"moe"} :
            cmd.plan[f] = Unset => run'[f] = cmd.from[f]]_vars

\* In every state: the types, a plan that spends no memory twice, and a derived tuning
\* that loads.
CalibrateInv == TypeOK /\ PlanKeepsMargin /\ SizedServerLoads
=============================================================================
