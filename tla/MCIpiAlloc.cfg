SPECIFICATION Spec
CONSTANTS
    NumU54 = 2
    K = 4
    N = 2
    MaxHeld = 2
    MaxReq = 2
    Rproc = FALSE
INVARIANTS TypeOK HeldStaysUsed ExhaustedOnlyByLeaks
CHECK_DEADLOCK FALSE
