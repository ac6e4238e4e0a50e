---------------------------- MODULE AgentHealth ----------------------------
(***************************************************************************)
(* AgentHealth of internal/robot/agent_health.go: IsWorking's pane states, *)
(* a caut pre-fetch of every supported provider under one shared deadline,*)
(* then one pass over the panes (Go map order, so any order) building the *)
(* pane statuses, the provider summary and the fleet counts.              *)
(*                                                                         *)
(* IsWorking, caut, AgentTypeToProvider and CalculateHealthScore are not  *)
(* in the repository: their results are inputs chosen from small sets.    *)
(* A payload is its UsedPercent(), or NoPct when that is nil.  The running *)
(* average is kept as its exact total (AvgUsedPercent * Accounts).        *)
(***************************************************************************)
EXTENDS Integers, Sequences, FiniteSets

CONSTANTS
    PaneIds,       \* pane numbers IsWorking may report
    AgentTypes,    \* agent types of those panes
    Providers,     \* caut.SupportedProviders(), in order
    ProviderOf,    \* caut.AgentTypeToProvider: agent type -> provider or ""
    Scores,        \* values CalculateHealthScore may return
    Pcts,          \* values UsedPercent() may return
    NoPct          \* UsedPercent() is nil

VARIABLES
    phase,         \* "start", "fetch", "panes", "done" or "error"
    work,          \* IsWorking's result: pane -> agent type
    cautAvailable, \* output.CautAvailable
    expired,       \* the pre-fetch context's deadline has passed
    fi,            \* the next index into Providers
    cache,         \* providerCache: provider -> payload
    todo,          \* panes the loop has not reached yet
    panes,         \* output.Panes: pane -> [score, usage]
    summary,       \* output.ProviderSummary: provider -> ProviderStats
    totalScore,
    fleet          \* output.FleetHealth: the counts

vars == <<phase, work, cautAvailable, expired, fi, cache, todo, panes, summary, totalScore, fleet>>

HealthyMin == 70   \* HealthScore >= 70 is healthy
WarningMin == 50   \* HealthScore >= 50 is warning, below is critical

\* FleetHealthSummary{}: the counts, TotalPanes, and int(AvgHealthScore),
\* the value OverallGrade is graded from.
NoFleet == [healthy |-> 0, warning |-> 0, critical |-> 0, total |-> 0, avg |-> 0]

\* ProviderStats, with AvgUsedPercent kept as its exact total.
ProviderStats == [accounts : 0..Cardinality(PaneIds), total : Nat, panesUsing : Seq(PaneIds)]

\* A function with a domain given as a set, extended or updated at one key.
Put(f, k, v) == [x \in DOMAIN f \cup {k} |-> IF x = k THEN v ELSE f[x]]

Init ==
    /\ phase = "start"
    /\ work = <<>>
    /\ cautAvailable = FALSE
    /\ expired = FALSE
    /\ fi = 1
    /\ cache = <<>>
    /\ todo = {}
    /\ panes = <<>>
    /\ summary = <<>>
    /\ totalScore = 0
    /\ fleet = NoFleet

-----------------------------------------------------------------------------
(* Steps 1 and 2: IsWorking, then caut.                                   *)

\* IsWorking fails: the error is returned with an empty report.
IsWorkingFails ==
    /\ phase = "start"
    /\ phase' = "error"
    /\ UNCHANGED <<work, cautAvailable, expired, fi, cache, todo, panes, summary, totalScore, fleet>>

\* IsWorking succeeds.  With IncludeCaut and caut installed the pre-fetch
\* starts under a fresh deadline; otherwise the pane loop starts at once.
IsWorkingReturns ==
    /\ phase = "start"
    /\ \E ids \in SUBSET PaneIds, useCaut \in BOOLEAN :
          /\ \E types \in [ids -> AgentTypes] : work' = types
          /\ todo' = ids
          /\ cautAvailable' = useCaut
          /\ phase' = IF useCaut THEN "fetch" ELSE "panes"
    /\ UNCHANGED <<expired, fi, cache, panes, summary, totalScore, fleet>>

\* One GetProviderUsage under the shared context: a payload is cached only
\* when the call succeeds, and past the deadline every call fails.
FetchProvider ==
    /\ phase = "fetch"
    /\ fi <= Len(Providers)
    /\ \/ /\ ~expired
          /\ \E pct \in Pcts \cup {NoPct} : cache' = Put(cache, Providers[fi], pct)
       \/ UNCHANGED cache
    /\ fi' = fi + 1
    /\ UNCHANGED <<phase, work, cautAvailable, expired, todo, panes, summary, totalScore, fleet>>

FetchDone ==
    /\ phase = "fetch"
    /\ fi > Len(Providers)
    /\ phase' = "panes"
    /\ UNCHANGED <<work, cautAvailable, expired, fi, cache, todo, panes, summary, totalScore, fleet>>

\* The pre-fetch deadline passes while providers remain to be fetched.
DeadlinePasses ==
    /\ phase = "fetch"
    /\ ~expired
    /\ expired' = TRUE
    /\ UNCHANGED <<phase, work, cautAvailable, fi, cache, todo, panes, summary, totalScore, fleet>>

-----------------------------------------------------------------------------
(* Step 3: the pane loop.                                                 *)

\* Mutant: Accounts counts every pane, with usage or without.
updateProviderSummaryCountAll(s, provider, payload, paneNum) ==
    LET stats == IF provider \in DOMAIN s THEN s[provider]
                 ELSE [accounts |-> 0, total |-> 0, panesUsing |-> <<>>]
        using == IF \E i \in DOMAIN stats.panesUsing : stats.panesUsing[i] = paneNum
                 THEN stats.panesUsing ELSE Append(stats.panesUsing, paneNum)
    IN Put(s, provider,
           [accounts   |-> stats.accounts + 1,
            total      |-> IF payload = NoPct THEN stats.total ELSE stats.total + payload,
            panesUsing |-> using])

\* updateProviderSummary: the pane is added to PanesUsing once; a payload
\* with a used percentage adds one to Accounts and folds the percentage
\* into the running average.
updateProviderSummary(s, provider, payload, paneNum) ==
    LET stats == IF provider \in DOMAIN s THEN s[provider]
                 ELSE [accounts |-> 0, total |-> 0, panesUsing |-> <<>>]
        using == IF \E i \in DOMAIN stats.panesUsing : stats.panesUsing[i] = paneNum
                 THEN stats.panesUsing ELSE Append(stats.panesUsing, paneNum)
    IN Put(s, provider,
           IF payload = NoPct THEN [stats EXCEPT !.panesUsing = using]
           ELSE [accounts   |-> stats.accounts + 1,
                 total      |-> stats.total + payload,
                 panesUsing |-> using])

\* Mutant: the switch has no default, so a critical pane is not counted.
FleetCountNoDefault(f, score) ==
    CASE score >= HealthyMin -> [f EXCEPT !.healthy = @ + 1]
      [] score >= WarningMin -> [f EXCEPT !.warning = @ + 1]
      [] OTHER               -> f

\* Mutant: a score of exactly 70 is counted as a warning.
FleetCountStrict(f, score) ==
    CASE score > HealthyMin  -> [f EXCEPT !.healthy = @ + 1]
      [] score >= WarningMin -> [f EXCEPT !.warning = @ + 1]
      [] OTHER               -> [f EXCEPT !.critical = @ + 1]

\* The switch on the pane's HealthScore.
FleetCount(f, score) ==
    CASE score >= HealthyMin -> [f EXCEPT !.healthy = @ + 1]
      [] score >= WarningMin -> [f EXCEPT !.warning = @ + 1]
      [] OTHER               -> [f EXCEPT !.critical = @ + 1]

\* One iteration: the provider's cached payload, if caut is available and
\* the agent type has a provider, goes into the pane and the summary; the
\* score (CalculateHealthScore) is added to the total and counted.
ScorePane ==
    /\ phase = "panes"
    /\ \E p \in todo, score \in Scores :
          LET provider == ProviderOf[work[p]]
              usage    == cautAvailable /\ provider # "" /\ provider \in DOMAIN cache
          IN /\ summary' = IF usage THEN updateProviderSummary(summary, provider, cache[provider], p)
                           ELSE summary
             /\ panes' = Put(panes, p, [score |-> score, usage |-> usage])
             /\ totalScore' = totalScore + score
             /\ fleet' = FleetCount(fleet, score)
             /\ todo' = todo \ {p}
    /\ UNCHANGED <<phase, work, cautAvailable, expired, fi, cache>>

\* Mutant: the average is taken before TotalPanes is set, so it divides by
\* the zero of FleetHealthSummary{} and is left at 0.
SummariseAvgBeforeTotal ==
    /\ phase = "panes"
    /\ todo = {}
    /\ phase' = "done"
    /\ fleet' = [fleet EXCEPT !.total = Cardinality(DOMAIN panes),
                              !.avg = IF fleet.total > 0 THEN totalScore \div fleet.total ELSE 0]
    /\ UNCHANGED <<work, cautAvailable, expired, fi, cache, todo, panes, summary, totalScore>>

\* Step 4: TotalPanes is the number of pane statuses written; with at least
\* one pane, AvgHealthScore is the total over it, and OverallGrade grades
\* int(AvgHealthScore).  For scores this small the float quotient lies
\* within an ulp of the exact one and never reaches the next integer, so
\* int() of it is the integer quotient.
Summarise ==
    /\ phase = "panes"
    /\ todo = {}
    /\ phase' = "done"
    /\ LET total == Cardinality(DOMAIN panes)
       IN fleet' = [fleet EXCEPT !.total = total,
                                 !.avg = IF total > 0 THEN totalScore \div total ELSE 0]
    /\ UNCHANGED <<work, cautAvailable, expired, fi, cache, todo, panes, summary, totalScore>>

Next ==
    \/ IsWorkingFails \/ IsWorkingReturns
    \/ FetchProvider \/ FetchDone \/ DeadlinePasses
    \/ ScorePane \/ Summarise

\* One call: it stops once it has returned.
Spec == Init /\ [][Next]_vars

=============================================================================
