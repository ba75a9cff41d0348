SPECIFICATION FairSpec
CONSTANTS
    Files = {f1}
    Words = {a}
    Watchers = {w1, w2}
    Updater = upd
    Strand = strand
    Nobody = nobody
    Threshold = 101
    MaxWrites = 1
    MaxUpdates = 1
    MaxTimeouts = 1
    MaxFaults = 1
    MaxStops = 1
CHECK_DEADLOCK FALSE
INVARIANTS
    StopIsFinal
    PublishedIsMirrored
    FullUpdateAlone
PROPERTIES
    EternalTrace
    OperationsEnd
