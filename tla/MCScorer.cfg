CONSTANTS
    ContextWeight = 4
    StateWeight = 4
    RecencyWeight = 2
    AffinityEnabled = TRUE
    ExcludeContextAbove = 85
    ExcludeIfGenerating = TRUE
    ExcludeIfRateLimited = TRUE
    NoOutput = NoOutput
    ContextUsages = {0, 85, 86, 100}
    Ages = {NoOutput, 0, 1, 4, 5, 29, 30, 60}
    Prompts = {"", "fix the login bug"}
    MaxAgents = 4
    ScoreValues = {5000, 6000, 8000}
    AgentTypes <- MCAgentTypes
    BaseTable <- MCBaseTable
    History <- MCHistory
    NoData = NoData
    MinSamples = 3
    Modes = {"exploitation", "learning", "balanced", "unknown"}
    LearnedValues <- MCLearnedValues
SPECIFICATION Spec
INVARIANTS
    BestAgentIsFirstMax
    AvailableSortedPermutation
    PaneFiltersPartition
    ExclusionVerdict
    WeightedSumWithinRange
    TypeOK
PROPERTIES
    RankingRefinesAbstract
