SPECIFICATION Spec
CONSTANTS
    W = 3
    MaxSync = 3
    MaxRetries = 3
    MaxSize = 5
    Sizes <- AllSizes
    MaxFaults = 3
INVARIANTS
    TypeOK
    BlocksInOrder
    CleanLineDelivers
    AbortGivesNothing
PROPERTIES
    TransferEnds
CHECK_DEADLOCK FALSE
