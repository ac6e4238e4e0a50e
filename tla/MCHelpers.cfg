CONSTANTS
    FileModified = "modified"
    MaxChanges = 3
    Paths = {"a.go", "b.go"}
    Types = {"modified", "created"}
    Attributions = {{}, {"cc_1"}, {"cod_1"}, {"cc_1", "cc_2"}}
    Sessions = {"s1", "s2"}
    Times = {1, 3, 12}
    MaxWidth = 300
    MaxRunes = 4
    Glyphs = {"a", "wide"}
    Maxes <- MCMaxes
    Suffixes <- MCSuffixes
SPECIFICATION Spec
INVARIANTS
    ConflictsMatchReference
    CriticalWhereDocSaysCritical
    TruncateWithinMax
    SplitMatchesTier
