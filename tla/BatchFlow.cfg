SPECIFICATION Spec
CONSTANTS
    Readers = {r1, r2}
    Indexers = {i1, i2}
    Main = main
    NoWorker = none
    NumFiles = 3
    LaneCapacity = 2
    ReadBlock = 3
    FileSizes = {0, 4}
    Faults = {"open", "read"}
SYMMETRY Symmetry
INVARIANTS
    ByteBudget
    NothingLost
