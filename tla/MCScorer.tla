------------------------------ MODULE MCScorer ------------------------------
(***************************************************************************)
(* Checks the routing core in one run: the per-agent rules of            *)
(* MCScorerRules, the list views of MCScorerViews, and the effectiveness  *)
(* ranking of MCEffectiveness.  The three share no state, so a behaviour  *)
(* exercises one of them, chosen at the start (part), while the others    *)
(* keep their first state; the state spaces add rather than multiply.     *)
(* The views never read AffinityEnabled, so the rules' setting serves.    *)
(***************************************************************************)
EXTENDS AgentScorer

CONSTANTS ContextUsages, Ages, Prompts, MaxAgents, ScoreValues,
          AgentTypes, BaseTable, History, NoData, MinSamples, Modes, LearnedValues

VARIABLES probe, prompt, agents, indices,
          config, base, learned, rpc, entries, capability, ranking, part

Rules == INSTANCE MCScorerRules
Views == INSTANCE MCScorerViews
Eff   == INSTANCE MCEffectiveness

ruleVars == <<probe, prompt>>
viewVars == <<agents, indices>>
effVars  == <<config, base, learned, rpc, entries, capability, ranking>>
vars == <<ruleVars, viewVars, effVars, part>>

Init ==
    /\ Rules!Init
    /\ Views!Init
    /\ Eff!Init
    /\ part \in {"rules", "views", "effectiveness"}
    /\ part # "effectiveness" => config.enabled

\* A step A of the effectiveness half.
EffStep(A) == part = "effectiveness" /\ A /\ UNCHANGED <<ruleVars, viewVars, part>>

EffNext == EffStep(Eff!Next)

Next ==
    \/ part = "rules" /\ Rules!Next /\ UNCHANGED <<viewVars, effVars, part>>
    \/ part = "views" /\ Views!Next /\ UNCHANGED <<ruleVars, effVars, part>>
    \/ EffNext

Spec == Init /\ [][Next]_vars

\* The history and tables of MCEffectiveness, written out: a constant
\* overridden by a definition taken through Eff would refer to itself.
MCAgentTypes == <<"claude", "codex", "gemini">>

MCBaseTable == [a \in {"claude", "codex"} |-> 80]

MCHistory == [claude |-> [score |-> 90, samples |-> 3],
              codex  |-> [score |-> 20, samples |-> 2],
              gemini |-> NoData]

MCLearnedValues == {-5, 95, 120}

-----------------------------------------------------------------------------
\* The best agent GetBestAgent returns is the first non-excluded agent of
\* highest score (MCScorerViews!BestAgentIsFirstMax).
BestAgentIsFirstMax == Views!BestAgentIsFirstMax

\* GetAvailableAgents returns exactly the non-excluded agents, sorted by
\* descending score (MCScorerViews!AvailableSortedPermutation).
AvailableSortedPermutation == Views!AvailableSortedPermutation

\* FilterByPanes and ExcludePanes split the list by the index list
\* (MCScorerViews!PaneFiltersPartition).
PaneFiltersPartition == Views!PaneFiltersPartition

\* ScoreAgents excludes an agent exactly when a RoutingConfig rule says so
\* (MCScorerRules!ExclusionVerdict).
ExclusionVerdict == Rules!ExclusionVerdict

\* The weighted score stays within the range its weights allow
\* (MCScorerRules!WeightedSumWithinRange).
WeightedSumWithinRange == Rules!WeightedSumWithinRange

\* Every state of the integrator and the matrix is well formed
\* (MCEffectiveness!TypeOK).
TypeOK == Eff!TypeOK

\* RankAgentsForTask, racing the matrix and mode writers, implements
\* RankingAbstract: a complete, ordered, stable ranking of scores the agents
\* really had during the call (MCEffectiveness!RankingRefinesAbstract).
RankingRefinesAbstract == Eff!RankingRefinesAbstract

=============================================================================
