---------------------------- MODULE MCAgentHealth ----------------------------
(***************************************************************************)
(* One AgentHealth call over up to three panes of two agent types with a  *)
(* provider and one without, two supported providers, and scores on both  *)
(* sides of the 50 and 70 thresholds.                                     *)
(***************************************************************************)
EXTENDS AgentHealth, FiniteSetsExt, Functions

MCProviders == <<"anthropic", "openai">>

MCProviderOf == [t \in {"claude", "codex", "user"} |->
                    CASE t = "claude" -> "anthropic"
                      [] t = "codex"  -> "openai"
                      [] OTHER        -> ""]

TypeOK ==
    /\ phase \in {"start", "fetch", "panes", "done", "error"}
    /\ DOMAIN work \subseteq PaneIds /\ Range(work) \subseteq AgentTypes
    /\ DOMAIN cache \subseteq Range(Providers) /\ Range(cache) \subseteq Pcts \cup {NoPct}
    /\ todo \subseteq DOMAIN work
    /\ DOMAIN panes = DOMAIN work \ todo
    /\ Range(summary) \subseteq ProviderStats
    /\ fleet.healthy + fleet.warning + fleet.critical = Cardinality(DOMAIN panes)

\* The panes whose status carries the usage of provider pr.
UsingPanes(pr) ==
    { p \in DOMAIN panes : panes[p].usage /\ ProviderOf[work[p]] = pr }

\* When AgentHealth returns, the fleet health agrees with the pane statuses
\* whatever order the map gave them in: every pane IsWorking reported is
\* counted once, in the band its score falls in, and the total is the sum
\* of the scores.
FleetMatchesPanes ==
    phase = "done" =>
        /\ DOMAIN panes = DOMAIN work
        /\ fleet.total = Cardinality(DOMAIN work)
        /\ fleet.healthy  = Quantify(DOMAIN panes, LAMBDA p : panes[p].score >= 70)
        /\ fleet.warning  = Quantify(DOMAIN panes, LAMBDA p : panes[p].score \in 50..69)
        /\ fleet.critical = Quantify(DOMAIN panes, LAMBDA p : panes[p].score < 50)
        /\ totalScore = MapThenSumSet(LAMBDA p : panes[p].score, DOMAIN panes)

\* When AgentHealth returns, the overall grade is taken from a value between
\* the lowest and the highest pane score (0 with no pane), so a fleet whose
\* panes are all healthy, or all critical, is graded so as a whole.  This
\* depends on the order of step 4: TotalPanes must be set before the
\* average divides by it.
OverallGradeFollowsPanes ==
    phase = "done" =>
        IF DOMAIN panes = {} THEN fleet.avg = 0
        ELSE /\ \E p \in DOMAIN panes : panes[p].score <= fleet.avg
             /\ \E p \in DOMAIN panes : fleet.avg <= panes[p].score

\* When AgentHealth returns, the provider summary is exactly what the
\* pre-fetch obtained, seen through the panes: a pane carries usage iff
\* caut was available and its provider's fetch succeeded before the
\* deadline; a provider is summarised iff some pane uses it, lists each
\* such pane once, and Accounts counts them only when the payload has a
\* used percentage, whose average is then that percentage.
SummaryMatchesFetch ==
    phase = "done" =>
        /\ \A p \in DOMAIN panes :
              panes[p].usage <=> (cautAvailable /\ ProviderOf[work[p]] \in DOMAIN cache)
        /\ DOMAIN summary = { pr \in DOMAIN cache : UsingPanes(pr) # {} }
        /\ \A pr \in DOMAIN summary :
              /\ Range(summary[pr].panesUsing) = UsingPanes(pr)
              /\ Len(summary[pr].panesUsing) = Cardinality(UsingPanes(pr))
              /\ summary[pr].accounts = IF cache[pr] = NoPct THEN 0 ELSE Cardinality(UsingPanes(pr))
              /\ summary[pr].total = summary[pr].accounts * (IF cache[pr] = NoPct THEN 0 ELSE cache[pr])

=============================================================================
