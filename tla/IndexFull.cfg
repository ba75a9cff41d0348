SPECIFICATION Spec
CONSTANTS
    Files = {f1, f2}
    Words = {a, b}
    Watchers = {}
    Updater = upd
    Strand = strand
    Nobody = nobody
    Threshold = 5
    MaxWrites = 3
    MaxUpdates = 3
    MaxTimeouts = 0
    MaxFaults = 0
    MaxStops = 0
SYMMETRY Symmetry
CHECK_DEADLOCK FALSE
INVARIANTS
    IndexInv
