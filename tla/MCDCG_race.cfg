SPECIFICATION Spec
INVARIANTS
    BlockedVerdictDelivered
