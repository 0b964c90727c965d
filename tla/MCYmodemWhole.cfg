SPECIFICATION Spec
CONSTANTS
    W = 3
    MaxSync = 3
    MaxRetries = 3
    MaxSize = 4
    Sizes <- AllSizes
    MaxFaults = 1
INVARIANTS
    WholeFileOrNothing
CHECK_DEADLOCK FALSE
