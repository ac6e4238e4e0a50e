----------------------------- MODULE MCCommands -----------------------------
(***************************************************************************)
(* Checks three independent parts in one run: the DCG adapter of MCDCG,  *)
(* the dashboard command of MCDashboard and the robot agent-health call  *)
(* of MCAgentHealth.  They share no state, so a behaviour exercises one   *)
(* of them, chosen at the start (part), while the others keep one state.  *)
(* Names they share are renamed: the dashboard's outcome is dashOutcome,  *)
(* agent health's phase and expired are healthPhase and healthExpired.    *)
(***************************************************************************)
CONSTANTS PaneIds, AgentTypes, Providers, ProviderOf, Scores, Pcts, NoPct

VARIABLES installed, kind, phase, dangerous, exit, stdout, expired, outcome,
          pc, flags, mode, debug, watcher, dashOutcome,
          healthPhase, work, cautAvailable, healthExpired, fi, cache, todo,
          panes, summary, totalScore, fleet,
          part

DCGMC    == INSTANCE MCDCG
DashMC   == INSTANCE MCDashboard WITH outcome <- dashOutcome
HealthMC == INSTANCE MCAgentHealth WITH phase <- healthPhase, expired <- healthExpired

dcgVars    == <<installed, kind, phase, dangerous, exit, stdout, expired, outcome>>
dashVars   == <<pc, flags, mode, debug, watcher, dashOutcome>>
healthVars == <<healthPhase, work, cautAvailable, healthExpired, fi, cache, todo,
                panes, summary, totalScore, fleet>>
vars       == <<dcgVars, dashVars, healthVars, part>>

\* The halves that do not move keep one state (agent health has only one).
Init ==
    /\ DCGMC!Init
    /\ DashMC!Init
    /\ HealthMC!Init
    /\ part \in {"dcg", "dashboard", "health"}
    /\ part # "dcg" => installed
    /\ part # "dashboard" => flags = CHOOSE f \in DashMC!Flags : TRUE

\* A step A of the adapter.
DCGStep(A) == part = "dcg" /\ A /\ UNCHANGED <<dashVars, healthVars, part>>

Next ==
    \/ DCGStep(DCGMC!Next)
    \/ part = "dashboard" /\ DashMC!Next /\ UNCHANGED <<dcgVars, healthVars, part>>
    \/ part = "health" /\ HealthMC!Next /\ UNCHANGED <<dcgVars, dashVars, part>>

\* The fairness of DCG's Spec, on the adapter's half.
Spec ==
    /\ Init /\ [][Next]_vars
    /\ WF_vars(DCGStep(DCGMC!DeadlinePasses))
    /\ WF_vars(DCGStep(DCGMC!Returns))
    /\ WF_vars(DCGStep(DCGMC!StartFails))

\* The providers of MCAgentHealth, written out: a constant overridden by a
\* definition taken through HealthMC would refer to itself.
MCProviders == <<"anthropic", "openai">>

MCProviderOf == [t \in {"claude", "codex", "user"} |->
                    CASE t = "claude" -> "anthropic"
                      [] t = "codex"  -> "openai"
                      [] OTHER        -> ""]

-----------------------------------------------------------------------------
\* CheckCommand never allows a command dcg blocks, whatever dcg does and
\* whenever the deadline passes (MCDCG!DangerousNeverAllowed).
DangerousNeverAllowed == DCGMC!DangerousNeverAllowed

\* Every adapter call returns, a hung dcg being killed at the deadline
\* (MCDCG!CallsReturn).
CallsReturn == DCGMC!CallsReturn

\* The output mode and debug setting follow the flags and environment
\* (MCDashboard!ModeFollowsFlags).
ModeFollowsFlags == DashMC!ModeFollowsFlags

\* The reservation watcher runs only inside the interactive dashboard and is
\* stopped however the command returns (MCDashboard!WatcherBoundToDashboard).
WatcherBoundToDashboard == DashMC!WatcherBoundToDashboard

\* AgentHealth's state is well formed, its fleet bands summing to the panes
\* written (MCAgentHealth!TypeOK).
AgentHealthTypeOK == HealthMC!TypeOK

\* The fleet counts every reported pane once, in its band, whatever the map
\* order (MCAgentHealth!FleetMatchesPanes).
FleetMatchesPanes == HealthMC!FleetMatchesPanes

\* The provider summary is what the pre-fetch obtained before the deadline
\* (MCAgentHealth!SummaryMatchesFetch).
SummaryMatchesFetch == HealthMC!SummaryMatchesFetch

\* The overall grade comes from an average between the lowest and highest
\* pane score (MCAgentHealth!OverallGradeFollowsPanes).
OverallGradeFollowsPanes == HealthMC!OverallGradeFollowsPanes

=============================================================================
