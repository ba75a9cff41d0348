SPECIFICATION FairSpec
CONSTANTS
    Readers = {r1, r2}
    Indexers = {i1}
    Main = main
    NoWorker = none
    NumFiles = 2
    LaneCapacity = 1
    ReadBlock = 2
    FileSizes = {1, 2}
    Faults = {"open", "read", "readerThrow", "indexerThrow", "spawn"}
INVARIANTS
    NoProtocolError
    ExclusiveWorkers
PROPERTIES
    BuildEnds
    ImplementsBatchBuild
