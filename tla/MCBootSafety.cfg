SPECIFICATION Spec
CONSTANTS
    NumU54 = 2
    N = 2
    K = 6
    Scenarios <- SafetyScenarios
INVARIANTS
    TypeOK
    AssertsHold
    LaunchAfterPmp
    EntriesExclusive
    DomainUpTogether
    PmpRequestFits
CHECK_DEADLOCK FALSE
