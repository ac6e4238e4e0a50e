---------------------------- MODULE AgentScorer ----------------------------
(***************************************************************************)
(* The scoring functions of internal/robot/routing.go: the per-agent score *)
(* breakdown, the exclusion rules, the final score, and the views a caller *)
(* takes of a scored list (best agent, available agents, filters).         *)
(*                                                                         *)
(* Scores are kept as integers.  A component score is held in tenths of a *)
(* point (StateScore of Unknown is 62.5), a weight in tenths (0.4 -> 4),   *)
(* so a contribution and the final score are in hundredths of a point:    *)
(* 100.00 is 10000.  With weights that are multiples of 0.1 every sum is  *)
(* a multiple of 0.01, so math.Round(score*100)/100 leaves it unchanged   *)
(* and is modelled as the identity on hundredths.                         *)
(***************************************************************************)
EXTENDS Integers, Sequences, FiniteSets

CONSTANTS
    ContextWeight,        \* RoutingConfig.ContextWeight, in tenths
    StateWeight,          \* RoutingConfig.StateWeight, in tenths
    RecencyWeight,        \* RoutingConfig.RecencyWeight, in tenths
    AffinityEnabled,      \* RoutingConfig.AffinityEnabled
    ExcludeContextAbove,  \* RoutingConfig.ExcludeContextAbove, percent
    ExcludeIfGenerating,  \* RoutingConfig.ExcludeIfGenerating
    ExcludeIfRateLimited, \* RoutingConfig.ExcludeIfRateLimited
    NoOutput              \* model value: a zero LastActivity time

ASSUME /\ {ContextWeight, StateWeight, RecencyWeight} \subseteq Nat
       /\ {AffinityEnabled, ExcludeIfGenerating, ExcludeIfRateLimited} \subseteq BOOLEAN
       /\ ExcludeContextAbove \in Nat

\* DefaultRoutingConfig, the configuration NewAgentScorerFromConfig uses,
\* weights in tenths.  ExcludeIfErrorState is never read by checkExclusion.
DefaultRoutingConfig ==
    [ContextWeight |-> 4, StateWeight |-> 4, RecencyWeight |-> 2,
     AffinityEnabled |-> FALSE, AffinityBonus |-> 20, ExcludeContextAbove |-> 85,
     ExcludeIfGenerating |-> TRUE, ExcludeIfRateLimited |-> TRUE, ExcludeIfErrorState |-> TRUE]

\* AgentState values produced by the activity classifier.
AgentStates == {"WAITING", "THINKING", "GENERATING", "STALLED", "ERROR", "UNKNOWN"}

\* The exclusion reasons of checkExclusion, and "" for an eligible agent.
Reasons == {"agent in ERROR state", "agent is rate limited", "agent is unhealthy",
            "context usage above threshold", "agent is currently generating", ""}

-----------------------------------------------------------------------------
(* Score components.                                                       *)

\* stateToScore: the raw score of a state, -100..100.
stateToScore(state) ==
    CASE state = "WAITING"    -> 100
      [] state = "THINKING"   -> 50
      [] state = "GENERATING" -> 0
      [] state = "STALLED"    -> -50
      [] state = "ERROR"      -> -100
      [] state = "UNKNOWN"    -> 25
      [] OTHER                -> 0

\* recencyToScore: the score of the time since the last output.  An age is
\* a whole number of minutes since LastActivity, or NoOutput for a zero time.
recencyToScore(age) ==
    CASE age = NoOutput -> 50
      [] age < 1        -> 20
      [] age < 5        -> 50
      [] age < 30       -> 80
      [] OTHER          -> 70

\* calculateAffinity is a stub that returns 0.
calculateAffinity(agent, prompt) == 0

\* Mutant: the raw state score is shifted but not halved (0..200).
calculateScoreComponentsUnhalved(agent, prompt) ==
    LET ctx == IF 1000 - 10 * agent.ContextUsage < 0 THEN 0 ELSE 1000 - 10 * agent.ContextUsage
        st  == 10 * stateToScore(agent.State) + 1000
        rec == 10 * recencyToScore(agent.LastActivity)
    IN [ContextScore |-> ctx, StateScore |-> st, RecencyScore |-> rec, AffinityBonus |-> 0,
        ContextContrib |-> ctx * ContextWeight, StateContrib |-> st * StateWeight,
        RecencyContrib |-> rec * RecencyWeight]

\* calculateScoreComponents: the breakdown, components in tenths of a point,
\* contributions in hundredths.  The context score is clamped at 0; the raw
\* state score is moved from -100..100 to 0..100.
calculateScoreComponents(agent, prompt) ==
    LET ctx   == IF 1000 - 10 * agent.ContextUsage < 0 THEN 0
                 ELSE 1000 - 10 * agent.ContextUsage
        st    == (10 * stateToScore(agent.State) + 1000) \div 2
        rec   == 10 * recencyToScore(agent.LastActivity)
        aff   == IF AffinityEnabled /\ prompt # "" THEN 100 * calculateAffinity(agent, prompt)
                 ELSE 0
    IN [ContextScore   |-> ctx,
        StateScore     |-> st,
        RecencyScore   |-> rec,
        AffinityBonus  |-> aff,
        ContextContrib |-> ctx * ContextWeight,
        StateContrib   |-> st * StateWeight,
        RecencyContrib |-> rec * RecencyWeight]

\* deriveHealthState: health is a function of the activity state alone.
deriveHealthState(state) ==
    CASE state \in {"WAITING", "THINKING", "GENERATING"} -> "healthy"
      [] state = "STALLED"                                -> "degraded"
      [] state = "ERROR"                                  -> "unhealthy"
      [] OTHER                                            -> "healthy"

\* Mutant: the rate-limit rule is checked before the ERROR rule.
checkExclusionRateLimitFirst(agent) ==
    CASE ExcludeIfRateLimited /\ agent.RateLimited -> <<TRUE, "agent is rate limited">>
      [] agent.State = "ERROR"                     -> <<TRUE, "agent in ERROR state">>
      [] agent.HealthState = "unhealthy"           -> <<TRUE, "agent is unhealthy">>
      [] agent.ContextUsage > ExcludeContextAbove  -> <<TRUE, "context usage above threshold">>
      [] ExcludeIfGenerating /\ agent.State = "GENERATING" -> <<TRUE, "agent is currently generating">>
      [] OTHER                                     -> <<FALSE, "">>

\* checkExclusion: the first rule that matches decides, in this order.
checkExclusion(agent) ==
    CASE agent.State = "ERROR"
            -> <<TRUE, "agent in ERROR state">>
      [] ExcludeIfRateLimited /\ agent.RateLimited
            -> <<TRUE, "agent is rate limited">>
      [] agent.HealthState = "unhealthy"
            -> <<TRUE, "agent is unhealthy">>
      [] agent.ContextUsage > ExcludeContextAbove
            -> <<TRUE, "context usage above threshold">>
      [] ExcludeIfGenerating /\ agent.State = "GENERATING"
            -> <<TRUE, "agent is currently generating">>
      [] OTHER
            -> <<FALSE, "">>

\* calculateFinalScore: the weighted sum plus the affinity bonus, clamped to
\* 0..100 points (0..10000 hundredths).
calculateFinalScore(agent) ==
    LET d     == agent.ScoreDetail
        score == d.ContextContrib + d.StateContrib + d.RecencyContrib + d.AffinityBonus
    IN IF score > 10000 THEN 10000 ELSE IF score < 0 THEN 0 ELSE score

\* The scoring half of the ScoreAgents loop body: the breakdown is computed
\* first, then the exclusion check, then the score of an eligible agent.
ScoreAgent(agent, prompt) ==
    LET withDetail == [agent EXCEPT !.ScoreDetail = calculateScoreComponents(agent, prompt)]
        excl       == checkExclusion(withDetail)
    IN IF excl[1]
       THEN [withDetail EXCEPT !.Excluded = TRUE, !.ExcludeReason = excl[2], !.Score = 0]
       ELSE [withDetail EXCEPT !.Excluded = FALSE, !.ExcludeReason = "",
                               !.Score = calculateFinalScore(withDetail)]

-----------------------------------------------------------------------------
(* Views of a scored list.  A list is a sequence of ScoredAgent records;  *)
(* only the fields an operator reads matter to it.                        *)

\* Mutant: ties go to the later agent (>= for >).
GetBestAgentLastOfTies(scored) ==
    LET RECURSIVE Scan(_, _)
        Scan(i, best) ==
            IF i > Len(scored) THEN best
            ELSE IF scored[i].Excluded THEN Scan(i + 1, best)
            ELSE IF best = 0 \/ scored[i].Score >= scored[best].Score THEN Scan(i + 1, i)
            ELSE Scan(i + 1, best)
    IN Scan(1, 0)

\* GetBestAgent: the index of the best agent, 0 for nil.  An agent replaces
\* the current best only with a strictly greater score.
GetBestAgent(scored) ==
    LET RECURSIVE Scan(_, _)
        Scan(i, best) ==
            IF i > Len(scored) THEN best
            ELSE IF scored[i].Excluded THEN Scan(i + 1, best)
            ELSE IF best = 0 \/ scored[i].Score > scored[best].Score THEN Scan(i + 1, i)
            ELSE Scan(i + 1, best)
    IN Scan(1, 0)

\* The swap of two positions of a sequence.
Swap(s, i, j) == [s EXCEPT ![i] = s[j], ![j] = s[i]]

\* Mutant: the swap test is reversed (ascending order).
GetAvailableAgentsAscending(scored) ==
    LET available == SelectSeq(scored, LAMBDA a : ~a.Excluded)
        RECURSIVE Inner(_, _, _), Outer(_, _)
        Inner(s, i, j) ==
            IF j > Len(s) THEN s
            ELSE Inner(IF s[i].Score > s[j].Score THEN Swap(s, i, j) ELSE s, i, j + 1)
        Outer(s, i) == IF i > Len(s) THEN s ELSE Outer(Inner(s, i, i + 1), i + 1)
    IN Outer(available, 1)

\* GetAvailableAgents: the non-excluded agents, then the nested exchange
\* loop of the code: for each i, every later j with a greater score is
\* swapped into position i.
GetAvailableAgents(scored) ==
    LET available == SelectSeq(scored, LAMBDA a : ~a.Excluded)
        RECURSIVE Inner(_, _, _), Outer(_, _)
        Inner(s, i, j) ==
            IF j > Len(s) THEN s
            ELSE Inner(IF s[j].Score > s[i].Score THEN Swap(s, i, j) ELSE s, i, j + 1)
        Outer(s, i) == IF i > Len(s) THEN s ELSE Outer(Inner(s, i, i + 1), i + 1)
    IN Outer(available, 1)

\* FilterByPanes: an empty index list keeps every agent.
FilterByPanes(agents, paneIndices) ==
    IF paneIndices = <<>> THEN agents
    ELSE SelectSeq(agents, LAMBDA a : \E k \in DOMAIN paneIndices : paneIndices[k] = a.PaneIndex)

\* Mutant: the negation of the membership test is lost.
ExcludePanesKeepsListed(agents, excludeIndices) ==
    IF excludeIndices = <<>> THEN agents
    ELSE SelectSeq(agents, LAMBDA a : \E k \in DOMAIN excludeIndices : excludeIndices[k] = a.PaneIndex)

\* ExcludePanes: an empty index list keeps every agent.
ExcludePanes(agents, excludeIndices) ==
    IF excludeIndices = <<>> THEN agents
    ELSE SelectSeq(agents, LAMBDA a : \A k \in DOMAIN excludeIndices : excludeIndices[k] # a.PaneIndex)

=============================================================================
