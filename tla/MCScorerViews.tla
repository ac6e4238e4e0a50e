--------------------------- MODULE MCScorerViews ---------------------------
(***************************************************************************)
(* Checks the views a caller takes of a ScoreAgents result (GetBestAgent, *)
(* GetAvailableAgents, FilterByPanes / ExcludePanes) against reference    *)
(* definitions, over every scored list of up to MaxAgents agents whose    *)
(* scores come from a small set with ties.  Each step extends the list     *)
(* or the index list, so every reachable state is one input.               *)
(***************************************************************************)
EXTENDS AgentScorer

CONSTANTS
    MaxAgents,   \* longest scored list
    ScoreValues  \* scores an agent may carry, in hundredths

VARIABLES
    agents,      \* the []ScoredAgent a caller holds
    indices      \* the pane index list given to FilterByPanes / ExcludePanes

vars == <<agents, indices>>

\* A list position doubles as the pane index, so entries are distinct.
Lists ==
    UNION { { [i \in 1..n |-> [PaneIndex |-> i, AgentType |-> "cc",
                               Score |-> sc[i], Excluded |-> ex[i]]]
              : sc \in [1..n -> ScoreValues], ex \in [1..n -> BOOLEAN] }
            : n \in 0..MaxAgents }

IndexLists == UNION { [1..n -> 1..MaxAgents] : n \in 0..2 }

Init ==
    /\ agents = <<>>
    /\ indices = <<>>

\* ScoreAgents appends one more scored agent to the list.
AddAgent ==
    /\ Len(agents) < MaxAgents
    /\ \E sc \in ScoreValues, ex \in BOOLEAN :
          agents' = Append(agents, [PaneIndex |-> Len(agents) + 1, AgentType |-> "cc",
                                    Score |-> sc, Excluded |-> ex])
    /\ UNCHANGED indices

\* The caller names one more pane index.
AddIndex ==
    /\ Len(indices) < 2
    /\ \E k \in 1..MaxAgents : indices' = Append(indices, k)
    /\ UNCHANGED agents

\* The caller starts over with a fresh list and no indices.
Restart ==
    /\ agents # <<>>
    /\ agents' = <<>>
    /\ indices' = <<>>

Next == AddAgent \/ AddIndex \/ Restart

Spec == Init /\ [][Next]_vars

-----------------------------------------------------------------------------
Eligible == { i \in DOMAIN agents : ~agents[i].Excluded }

Positions(s) == { s[k].PaneIndex : k \in DOMAIN s }

\* GetBestAgent returns nil exactly when every agent is excluded, and
\* otherwise the FIRST of the eligible agents with the greatest score (the
\* tie-break the spec promises: input order, no randomisation).
BestAgentIsFirstMax ==
    LET top == { i \in Eligible : \A j \in Eligible : agents[j].Score <= agents[i].Score }
    IN IF Eligible = {} THEN GetBestAgent(agents) = 0
       ELSE GetBestAgent(agents) = CHOOSE i \in top : \A j \in top : i <= j

\* GetAvailableAgents returns every eligible agent exactly once, no excluded
\* one, in non-increasing score order.
AvailableSortedPermutation ==
    LET av == GetAvailableAgents(agents)
    IN /\ Len(av) = Cardinality(Eligible)
       /\ Positions(av) = Eligible
       /\ \A i, j \in DOMAIN av : i < j => av[i].Score >= av[j].Score

\* The spec (4.1): among equal scores GetAvailableAgents keeps the relative
\* input order.  The code sorts with an exchange loop that swaps over the
\* elements in between.
AvailableStable ==
    LET av == GetAvailableAgents(agents)
    IN \A i, j \in DOMAIN av :
          (i < j /\ av[i].Score = av[j].Score) => av[i].PaneIndex < av[j].PaneIndex

\* With a non-empty index list, FilterByPanes and ExcludePanes split the
\* list: each agent is kept by exactly one of them, in input order.  With an
\* empty list both keep every agent.
PaneFiltersPartition ==
    LET kept    == FilterByPanes(agents, indices)
        dropped == ExcludePanes(agents, indices)
        chosen  == { indices[k] : k \in DOMAIN indices }
    IN IF indices = <<>>
       THEN kept = agents /\ dropped = agents
       ELSE /\ Positions(kept) = Positions(agents) \cap chosen
            /\ Positions(dropped) = Positions(agents) \ chosen
            /\ Len(kept) + Len(dropped) = Len(agents)
            /\ \A i, j \in DOMAIN kept : i < j => kept[i].PaneIndex < kept[j].PaneIndex

=============================================================================
