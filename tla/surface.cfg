CONSTANTS
    Budgets <- Mixed
    HostRing = 20
SPECIFICATION LiveSpec
INVARIANTS RingOfOneSpawn VisibleShowsRing RetryIsSafe
PROPERTIES CatchesUp
CHECK_DEADLOCK FALSE
