CONSTANTS
    Names = {a, b}
    Procs = {p1, p2}
    Nil = Nil
    MaxTime = 2
    MaxRev = 1
    MaxCalls = 2
SYMMETRY Symmetry
SPECIFICATION Spec
INVARIANTS
    TypeOK
    LoadReturnsLastSave
    SavedStateComplete
