CONSTANTS
    Budgets <- TwoMessages
    HostRing = 20
SPECIFICATION Spec
INVARIANTS ReconnectLosesNothing
CHECK_DEADLOCK FALSE
