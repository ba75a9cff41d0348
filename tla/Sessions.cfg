SPECIFICATION FairSpec
CONSTANTS
    MaxSessions = 1
    MaxRequests = 3
    MaxAhead = 2
    Capacity = 1
    Sizes = {2}
    MaxFaults = 1
CHECK_DEADLOCK FALSE
INVARIANTS
    ActivityInv
    InStep
    AuthFirst
    UploadInv
PROPERTIES
    ShutdownEnds
    RequestsAnswered
