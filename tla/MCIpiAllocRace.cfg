SPECIFICATION Spec
CONSTANTS
    NumU54 = 2
    K = 4
    N = 2
    MaxHeld = 2
    MaxReq = 2
    Rproc = TRUE
INVARIANT FreeAssertHolds
CHECK_DEADLOCK FALSE
