CONSTANTS
    ContextWeight = 4
    StateWeight = 4
    RecencyWeight = 2
    AffinityEnabled = FALSE
    ExcludeContextAbove = 85
    ExcludeIfGenerating = TRUE
    ExcludeIfRateLimited = TRUE
    NoOutput = NoOutput
    MaxAgents = 4
    ScoreValues = {5000, 6000, 8000}
SPECIFICATION Spec
INVARIANTS
    AvailableStable
