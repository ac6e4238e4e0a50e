SPECIFICATION Spec
INVARIANTS
    StatusDefaultOnlyWhenRan
