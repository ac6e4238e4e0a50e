--------------------------- MODULE Effectiveness ---------------------------
(***************************************************************************)
(* The EffectivenessIntegrator and CapabilityMatrix of spec sections 4.2  *)
(* and 4.3.  Their code is not in the repository (internal/assign holds   *)
(* only effectiveness_test.go), so every definition here follows the spec *)
(* and the expectations of that test.                                      *)
(*                                                                         *)
(* The integrator's config is read and written under a lock: SetMode is   *)
(* one step, and so is each GetEffectivenessBonus, which reads the config *)
(* once and computes from that copy.  RankAgentsForTask asks for one       *)
(* capability score and then one bonus per agent type, in the fixed     *)
(* order of AgentTypes, each a separate read under the smallest lock      *)
(* (spec section 5), so a SetMode, SetLearned or ClearLearned can fall    *)
(* between any two of them, even between an agent's score and its bonus;  *)
(* it then sorts and ranks.                                                *)
(*                                                                         *)
(* Scores are integers: capability and historical scores in percent,      *)
(* mode weights in tenths, and composite scores in thousandths, so that   *)
(* (score - 0.5) * 2 * weight is exact.                                    *)
(***************************************************************************)
EXTENDS Integers, FiniteSets, SequencesExt

CONSTANTS
    AgentTypes,   \* the known agent types, in their fixed order
    BaseTable,    \* the base capability scores of the task: a partial map
    History,      \* agent type -> [score, samples] for the task, or NoData
    NoData,       \* no historical record
    MinSamples,   \* EffectivenessConfig.MinSamples
    Modes,        \* the mode values SetMode may be given, "unknown" among them
    LearnedValues \* scores SetLearned may be given, some outside [0, 100]

VARIABLES
    config,       \* the integrator's EffectivenessConfig: [enabled, mode]
    base,         \* the matrix's base table
    learned,      \* the matrix's learned-override table
    rpc,          \* the ranking call: "idle" or "rank"
    entries,      \* the entries it has built so far, in agent-type order
    capability,   \* the capability score read for the next entry, or NoScore
    ranking       \* the last ranking it returned, <<>> before the first

vars == <<config, base, learned, rpc, entries, capability, ranking>>

\* No capability score has been read for the next entry.
NoScore == -1

DefaultScore == 50

\* Mutant: the base table is consulted before the learned override.
GetScoreBaseFirst(a) ==
    CASE a \in DOMAIN base     -> base[a]
      [] a \in DOMAIN learned  -> learned[a]
      [] OTHER                 -> DefaultScore

\* GetScore: the learned override, else the base value, else 0.5.
GetScore(a) ==
    CASE a \in DOMAIN learned  -> learned[a]
      [] a \in DOMAIN base     -> base[a]
      [] OTHER                 -> DefaultScore

\* EffectivenessWeight, in tenths: 0 when disabled, and the Balanced weight
\* for a mode it does not know.
EffectivenessWeight(cfg) ==
    CASE ~cfg.enabled                 -> 0
      [] cfg.mode = "exploitation"    -> 6
      [] cfg.mode = "learning"        -> 2
      [] OTHER                        -> 4

\* GetEffectivenessBonus, in thousandths: zero when disabled or without
\* MinSamples samples, else (score - 0.5) * 2 * EffectivenessWeight.
GetEffectivenessBonus(a, cfg) ==
    IF \/ ~cfg.enabled
       \/ History[a] = NoData
       \/ History[a].samples < MinSamples
    THEN 0
    ELSE 2 * (History[a].score - 50) * EffectivenessWeight(cfg)

\* Mutant: only the upper bound is clamped.
ClampUpperOnly(s) == IF s > 100 THEN 100 ELSE s

\* SetLearned clamps the score to [0, 100].
Clamp(s) == IF s < 0 THEN 0 ELSE IF s > 100 THEN 100 ELSE s

Init ==
    /\ config \in [enabled : BOOLEAN, mode : {"balanced"}]
    /\ base = BaseTable
    /\ learned = [a \in {} |-> 0]
    /\ rpc = "idle"
    /\ entries = <<>>
    /\ capability = NoScore
    /\ ranking = <<>>

\* SetMode, under the config lock.
SetMode(m) ==
    /\ config' = [config EXCEPT !.mode = m]
    /\ UNCHANGED <<base, learned, rpc, entries, capability, ranking>>

\* SetLearned inserts or overwrites the override.
SetLearned(a, s) ==
    /\ learned' = [x \in DOMAIN learned \cup {a} |-> IF x = a THEN Clamp(s) ELSE learned[x]]
    /\ UNCHANGED <<config, base, rpc, entries, capability, ranking>>

\* ClearLearned empties the override table only.
ClearLearned ==
    /\ learned # [a \in {} |-> 0]
    /\ learned' = [a \in {} |-> 0]
    /\ UNCHANGED <<config, base, rpc, entries, capability, ranking>>

RankStart ==
    /\ rpc = "idle"
    /\ rpc' = "rank"
    /\ entries' = <<>>
    /\ ranking' = <<>>
    /\ UNCHANGED <<config, base, learned, capability>>

\* One agent type: its capability score, read now.
RankCapability ==
    /\ rpc = "rank"
    /\ Len(entries) < Len(AgentTypes)
    /\ capability = NoScore
    /\ capability' = GetScore(AgentTypes[Len(entries) + 1])
    /\ UNCHANGED <<config, base, learned, rpc, entries, ranking>>

\* The same agent type: its bonus, read now under the config lock, added
\* to the capability score read before it.
RankBonus ==
    /\ rpc = "rank"
    /\ capability # NoScore
    /\ LET i == Len(entries) + 1
           a == AgentTypes[i]
       IN entries' = Append(entries, [agent |-> a, idx |-> i,
                                      score |-> 10 * capability + GetEffectivenessBonus(a, config)])
    /\ capability' = NoScore
    /\ UNCHANGED <<config, base, learned, rpc, ranking>>

\* Mutant: equal scores come out in reverse agent-type order.
SortRankingUnstable(es) ==
    SortSeq(es, LAMBDA x, y : x.score > y.score \/ (x.score = y.score /\ x.idx > y.idx))

\* A stable sort by descending score.
SortRanking(es) ==
    SortSeq(es, LAMBDA x, y : x.score > y.score \/ (x.score = y.score /\ x.idx < y.idx))

\* Mutant: agents with equal scores share a rank.
AssignRanksSharedOnTies(sorted) ==
    [i \in DOMAIN sorted |->
        [agent |-> sorted[i].agent, score |-> sorted[i].score,
         rank |-> 1 + Cardinality({j \in DOMAIN sorted : sorted[j].score > sorted[i].score})]]

\* Ranks 1..N in the sorted order.
AssignRanks(sorted) ==
    [i \in DOMAIN sorted |-> [agent |-> sorted[i].agent, score |-> sorted[i].score, rank |-> i]]

RankFinish ==
    /\ rpc = "rank"
    /\ Len(entries) = Len(AgentTypes)
    /\ ranking' = AssignRanks(SortRanking(entries))
    /\ rpc' = "idle"
    /\ UNCHANGED <<config, base, learned, entries, capability>>

Next ==
    \/ \E m \in Modes : SetMode(m)
    \/ \E i \in DOMAIN AgentTypes, s \in LearnedValues : SetLearned(AgentTypes[i], s)
    \/ ClearLearned
    \/ RankStart \/ RankCapability \/ RankBonus \/ RankFinish

\* Only safety is checked: a ranking call is a loop over a fixed list, and
\* that it returns follows from the loop alone.
Spec == Init /\ [][Next]_vars

=============================================================================
