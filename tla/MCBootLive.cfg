SPECIFICATION FairSpec
CONSTANTS
    NumU54 = 2
    N = 2
    K = 4
    Scenarios <- LiveScenarios
PROPERTIES
    BootCompletes
    
