--------------------------- MODULE MCScorerRules ---------------------------
(***************************************************************************)
(* Checks the per-agent half of ScoreAgents (the breakdown, the exclusion *)
(* rules and the final score) against the rules of the spec, for every    *)
(* observed agent over small sets of states, context usages, ages, rate   *)
(* limit flags, health states and prompts.  Each step changes one field   *)
(* of the observation, as a new classification would.                     *)
(***************************************************************************)
EXTENDS AgentScorer

CONSTANTS
    ContextUsages, \* context usage percentages an agent may report
    Ages,          \* minutes since the last output, and NoOutput
    Prompts        \* prompts a caller may pass, "" among them

VARIABLES
    probe,         \* the ScoredAgent as built before scoring
    prompt         \* the prompt passed to ScoreAgents

vars == <<probe, prompt>>

HealthStates == {"healthy", "degraded", "unhealthy", "rate_limited"}

ZeroBreakdown == [ContextScore |-> 0, StateScore |-> 0, RecencyScore |-> 0, AffinityBonus |-> 0,
                  ContextContrib |-> 0, StateContrib |-> 0, RecencyContrib |-> 0]

Init ==
    /\ probe = [PaneIndex |-> 1, AgentType |-> "cc", State |-> "WAITING", ContextUsage |-> 0,
                LastActivity |-> NoOutput, HealthState |-> "healthy", RateLimited |-> FALSE,
                Score |-> 0, Excluded |-> FALSE, ExcludeReason |-> "", ScoreDetail |-> ZeroBreakdown]
    /\ prompt = ""

\* The classifier reports a new state; ScoreAgents derives health from it.
ClassifyState ==
    /\ \E s \in AgentStates :
          probe' = [probe EXCEPT !.State = s, !.HealthState = deriveHealthState(s)]
    /\ UNCHANGED prompt

\* checkExclusion is also called with a health state set independently
\* (routing_test.go builds such agents).
SetHealth ==
    /\ \E h \in HealthStates : probe' = [probe EXCEPT !.HealthState = h]
    /\ UNCHANGED prompt

SetContextUsage ==
    /\ \E c \in ContextUsages : probe' = [probe EXCEPT !.ContextUsage = c]
    /\ UNCHANGED prompt

SetLastActivity ==
    /\ \E a \in Ages : probe' = [probe EXCEPT !.LastActivity = a]
    /\ UNCHANGED prompt

SetRateLimited ==
    /\ probe' = [probe EXCEPT !.RateLimited = ~probe.RateLimited]
    /\ UNCHANGED prompt

SetPrompt ==
    /\ prompt' \in Prompts \ {prompt}
    /\ UNCHANGED probe

Next == ClassifyState \/ SetHealth \/ SetContextUsage \/ SetLastActivity
     \/ SetRateLimited \/ SetPrompt

Spec == Init /\ [][Next]_vars

-----------------------------------------------------------------------------
\* The exclusion rules of spec 4.1 step 4, in their order of precedence.
SpecRules(a) ==
    << <<a.State = "ERROR", "agent in ERROR state">>,
       <<a.RateLimited /\ ExcludeIfRateLimited, "agent is rate limited">>,
       <<a.HealthState = "unhealthy", "agent is unhealthy">>,
       <<a.ContextUsage > ExcludeContextAbove, "context usage above threshold">>,
       <<a.State = "GENERATING" /\ ExcludeIfGenerating, "agent is currently generating">> >>

\* A scored agent is excluded exactly when some rule matches, carries the
\* reason of the FIRST matching rule and a score of 0, and keeps the full
\* pre-exclusion breakdown for diagnostics; an eligible agent has no reason.
ExclusionVerdict ==
    LET r        == ScoreAgent(probe, prompt)
        rules    == SpecRules(probe)
        matching == { k \in DOMAIN rules : rules[k][1] }
    IN /\ r.Excluded = (matching # {})
       /\ r.ScoreDetail = calculateScoreComponents(probe, prompt)
       /\ IF matching = {}
          THEN r.ExcludeReason = ""
          ELSE /\ r.ExcludeReason = rules[CHOOSE k \in matching : \A m \in matching : k <= m][2]
               /\ r.Score = 0

\* With weights summing to 1.0 (ten tenths), every component lies in 0..100
\* and the weighted sum in 0..100 before the clamp of calculateFinalScore:
\* the clamp never changes a score (spec 8, first property).
WeightedSumWithinRange ==
    LET d == calculateScoreComponents(probe, prompt)
        s == d.ContextContrib + d.StateContrib + d.RecencyContrib + d.AffinityBonus
    IN (ContextWeight + StateWeight + RecencyWeight = 10) =>
          /\ \A c \in {d.ContextScore, d.StateScore, d.RecencyScore} : 0 <= c /\ c <= 1000
          /\ 0 <= s /\ s <= 10000
          /\ ~ScoreAgent(probe, prompt).Excluded => ScoreAgent(probe, prompt).Score = s

=============================================================================
