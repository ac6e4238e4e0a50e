--------------------------- MODULE MCRoutingScan ---------------------------
(***************************************************************************)
(* A session of three panes (a user pane and two agent panes) whose panes *)
(* open, close and change state while ScoreAgents runs.                   *)
(***************************************************************************)
EXTENDS RoutingScan, TLC

\* ScoreAgents runs on the scorer NewAgentScorerFromConfig builds, whose
\* configuration is DefaultRoutingConfig.
ASSUME /\ ContextWeight = DefaultRoutingConfig.ContextWeight
       /\ StateWeight = DefaultRoutingConfig.StateWeight
       /\ RecencyWeight = DefaultRoutingConfig.RecencyWeight
       /\ AffinityEnabled = DefaultRoutingConfig.AffinityEnabled
       /\ ExcludeContextAbove = DefaultRoutingConfig.ExcludeContextAbove
       /\ ExcludeIfGenerating = DefaultRoutingConfig.ExcludeIfGenerating
       /\ ExcludeIfRateLimited = DefaultRoutingConfig.ExcludeIfRateLimited

MCPaneType == (0 :> "" @@ 1 :> "cc" @@ 2 :> "cod")

\* A ready agent with room or with a full context, a busy one, a failed one.
MCObservations ==
    { [State |-> "WAITING",    LastActivity |-> NoOutput, Context |-> 0],
      [State |-> "WAITING",    LastActivity |-> 10,       Context |-> 90],
      [State |-> "GENERATING", LastActivity |-> 0,        Context |-> 0],
      [State |-> "ERROR",      LastActivity |-> 10,       Context |-> 0] }

\* Per-pane isolation (spec 5, 7): once the pane list has been read, a pane
\* that closes or fails to classify is dropped and the call still returns
\* the agents it did score; only the listing itself fails the call.
BatchErrorOnlyFromListing ==
    [][pc = "scanning" /\ pc' = "idle" => result' = scored /\ result' # ListError]_vars

\* Spec 4.1 step 2 and the ScoredAgent field comment: the agent carries the
\* pane's context usage, so rule (d) excludes an agent whose pane reports a
\* usage above ExcludeContextAbove.
ContextExclusionHonoured ==
    result # ListError =>
        \A i \in DOMAIN result :
            result[i].PaneContext > ExcludeContextAbove => result[i].Excluded
=============================================================================
