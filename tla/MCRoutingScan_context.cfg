CONSTANTS
    ContextWeight = 4
    StateWeight = 4
    RecencyWeight = 2
    AffinityEnabled = FALSE
    ExcludeContextAbove = 85
    ExcludeIfGenerating = TRUE
    ExcludeIfRateLimited = TRUE
    NoOutput = NoOutput
    Panes = {0, 1, 2}
    PaneType <- MCPaneType
    Observations <- MCObservations
    Prompt = ""
    ListError = ListError
SPECIFICATION Spec
INVARIANTS
    ContextExclusionHonoured
