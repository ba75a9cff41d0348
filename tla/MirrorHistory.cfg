SPECIFICATION RestoreSpec
CONSTANTS
    Paths = {"a", "b"}
    Volatile = {"a"}
    MaxVersion = 2
    Tiers <- Day
    MaxPoints <- OneKept
    Period <- EveryTick
    MaxTime = 1
    AutoMode = FALSE
    Budgets <- Separate
    None = None
    Torn = Torn
    Unreadable = Unreadable
    Precious = Precious
CHECK_DEADLOCK FALSE
INVARIANTS
    MirrorInv
    PointsRestorable
PROPERTIES
    PointsTrue
    RestoreSafe
    ManifestCatchesUp
