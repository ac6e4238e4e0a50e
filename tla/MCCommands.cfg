CONSTANTS
    PaneIds = {1, 2, 3}
    AgentTypes = {"claude", "codex", "user"}
    Providers <- MCProviders
    ProviderOf <- MCProviderOf
    Scores = {49, 50, 69, 70}
    Pcts = {40, 90}
    NoPct = NoPct
SPECIFICATION Spec
\* The dashboard command and the agent-health call stop once they have
\* returned; the adapter's progress is CallsReturn.
CHECK_DEADLOCK FALSE
INVARIANTS
    DangerousNeverAllowed
    ModeFollowsFlags
    WatcherBoundToDashboard
    AgentHealthTypeOK
    FleetMatchesPanes
    SummaryMatchesFetch
    OverallGradeFollowsPanes
PROPERTIES
    CallsReturn
