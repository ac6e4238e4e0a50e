-------------------------- MODULE RankingAbstract --------------------------
(***************************************************************************)
(* What RankAgentsForTask promises (spec sections 4.2, 4.3 and 8), with   *)
(* the matrix and mode writers running concurrently: a call returns, in  *)
(* one step, a ranking of every known agent type, ordered by descending   *)
(* composite score with ties in agent-type order, in which each agent's   *)
(* score is its capability score at one instant of the call plus its     *)
(* bonus at a later instant (ReadCapability, then ReadBonus), the agents  *)
(* taken in any order.                                                    *)
(*                                                                         *)
(* The writers are one action, Write, which may set any mode and any      *)
(* learned table within [0, 100]; the base table never changes.           *)
(***************************************************************************)
EXTENDS Integers, Sequences, FiniteSets

CONSTANTS AgentTypes, BaseTable, History, NoData, MinSamples, Modes, LearnedValues

VARIABLES
    config,      \* [enabled, mode]
    base,        \* the base capability table
    learned,     \* the learned overrides
    rpc,         \* "idle" or "rank"
    pending,     \* agent type -> the capability read for it, bonus not yet read
    taken,       \* agent type -> the score read for it during the call
    returned     \* the last ranking returned

avars == <<config, base, learned, rpc, pending, taken, returned>>

Agents == {AgentTypes[i] : i \in DOMAIN AgentTypes}

Pos(a) == CHOOSE i \in DOMAIN AgentTypes : AgentTypes[i] = a

\* Spec 4.3: learned override, else base table, else 0.5 (in percent).
Capability(a, lrn) ==
    IF a \in DOMAIN lrn THEN lrn[a]
    ELSE IF a \in DOMAIN base THEN base[a] ELSE 50

\* Spec 4.2: the mode weights in tenths; an unknown mode weighs as balanced.
ModeWeight == [exploitation |-> 6, learning |-> 2, balanced |-> 4]

Weight(cfg) ==
    IF cfg.mode \in DOMAIN ModeWeight THEN ModeWeight[cfg.mode] ELSE ModeWeight.balanced

\* Spec 4.2: a bonus only when enabled and with MinSamples samples or more.
Bonus(a, cfg) ==
    IF cfg.enabled /\ History[a] # NoData /\ History[a].samples >= MinSamples
    THEN 2 * (History[a].score - 50) * Weight(cfg)
    ELSE 0

\* f extended by, or updated at, key k.
Extend(f, k, v) == [x \in DOMAIN f \cup {k} |-> IF x = k THEN v ELSE f[x]]

\* r ranks every agent type once, ranks 1..N in order, scores descending
\* with ties in agent-type order, each score the one read for the agent.
IsRanking(r) ==
    /\ Len(r) = Cardinality(Agents)
    /\ {r[i].agent : i \in DOMAIN r} = Agents
    /\ \A i \in DOMAIN r : r[i].rank = i /\ r[i].score = taken[r[i].agent]
    /\ \A i \in 1..Len(r) - 1 :
          \/ r[i].score > r[i + 1].score
          \/ r[i].score = r[i + 1].score /\ Pos(r[i].agent) < Pos(r[i + 1].agent)

AInit ==
    /\ config \in [enabled : BOOLEAN, mode : {"balanced"}]
    /\ base = BaseTable
    /\ learned = [a \in {} |-> 0]
    /\ rpc = "idle"
    /\ pending = [a \in {} |-> 0]
    /\ taken = [a \in {} |-> 0]
    /\ returned = <<>>

\* A mode or matrix write.
Write ==
    /\ config' \in [enabled : {config.enabled}, mode : Modes]
    /\ \E D \in SUBSET Agents : learned' \in [D -> 0..100]
    /\ UNCHANGED <<base, rpc, pending, taken, returned>>

Start ==
    /\ rpc = "idle"
    /\ rpc' = "rank"
    /\ taken' = [a \in {} |-> 0]
    /\ returned' = <<>>
    /\ UNCHANGED <<config, base, learned, pending>>

\* The agent's capability score, read at this instant.
ReadCapability(a) ==
    /\ rpc = "rank"
    /\ a \notin DOMAIN taken \cup DOMAIN pending
    /\ pending' = Extend(pending, a, Capability(a, learned))
    /\ UNCHANGED <<config, base, learned, rpc, taken, returned>>

\* Its bonus, read at this instant: the score, in thousandths, is complete.
ReadBonus(a) ==
    /\ a \in DOMAIN pending
    /\ taken' = Extend(taken, a, 10 * pending[a] + Bonus(a, config))
    /\ pending' = [x \in DOMAIN pending \ {a} |-> pending[x]]
    /\ UNCHANGED <<config, base, learned, rpc, returned>>

Return ==
    /\ rpc = "rank"
    /\ DOMAIN taken = Agents
    /\ rpc' = "idle"
    /\ IsRanking(returned')
    /\ UNCHANGED <<config, base, learned, pending, taken>>

ANext ==
    \/ Write \/ Start \/ Return
    \/ \E a \in Agents : ReadCapability(a) \/ ReadBonus(a)

ASpec == AInit /\ [][ANext]_avars

=============================================================================
