CONSTANTS
    Surfaces = {"p", "q"}
    Sizes = {1, 2, 3}
    FirstSize <- Fitted
    Budgets <- Watched
SPECIFICATION LiveSpec
INVARIANTS ScreenAgrees ChannelsPaired SizeFollowsOwner
PROPERTIES ExitResolves SurfacesCatchUp
CHECK_DEADLOCK FALSE
