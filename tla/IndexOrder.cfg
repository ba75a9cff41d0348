SPECIFICATION Spec
CONSTANTS
    Files = {f1}
    Words = {a}
    Watchers = {w1}
    Updater = upd
    Strand = strand
    Nobody = nobody
    Threshold = 101
    MaxWrites = 2
    MaxUpdates = 0
    MaxTimeouts = 0
    MaxFaults = 0
    MaxStops = 0
CHECK_DEADLOCK FALSE
INVARIANT
    RefsMatchPostings
