SPECIFICATION Spec
CONSTANTS
    Transactions <- Kinds
    MaxFaults = 4
    Old = Old
    New = New
    Torn = Torn
    None = None
CHECK_DEADLOCK FALSE
INVARIANTS
    TransactionInv
    RolledBackIsOld
PROPERTIES
    RecoveryEnds
