SPECIFICATION FairSpec
CONSTANTS
    Files = {f1, f2}
    Words = {"a"}
    Contents <- Bodies
    NoFile = none
    MaxPendingOps = 2
    MaxOps = 3
    MaxJobs = 1
    MaxLate = 1
    MaxFaults = 1
    MaxCrashes = 1
CHECK_DEADLOCK FALSE
INVARIANTS
    CallInv
    Loadable
    MirrorCurrent
PROPERTIES
    BatchIsSequential
    CallsReturn
