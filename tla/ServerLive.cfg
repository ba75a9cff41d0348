SPECIFICATION FairSpec
CONSTANTS
    Searches = {s1, s2}
    Periodic = {u1}
    Commands = {c1}
    Nobody = nobody
    PoolThreads = 5
    MaxFaults = 1
CHECK_DEADLOCK FALSE
INVARIANTS
    TypeOK
    NoSearchDuringUpdate
    OneUpdate
PROPERTIES
    TasksEnd
