SPECIFICATION RestoreSpec
CONSTANTS
    Paths = {"a", "b"}
    Volatile = {"a"}
    MaxVersion = 2
    Tiers <- Day
    MaxPoints <- OneKept
    Period <- EveryTick
    MaxTime = 1
    AutoMode = FALSE
    Budgets <- Together
    None = None
    Torn = Torn
    Unreadable = Unreadable
    Precious = Precious
INVARIANT PointsRestorable
CHECK_DEADLOCK FALSE
