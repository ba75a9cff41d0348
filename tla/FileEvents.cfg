SPECIFICATION FairSpec
CONSTANTS
    Files = {f1, f2}
    Excluded = {f2}
    MaxRuns = 2
    MaxNotes = 2
    MaxChanges = 2
    MaxFaults = 1
    MaxEvents = 2
CHECK_DEADLOCK FALSE
INVARIANTS
    WatcherInv
    NothingStranded
    IndexFollowsDisk
PROPERTIES
    EventsDispatched
    ShutdownEnds
