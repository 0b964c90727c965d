SPECIFICATION FairSpec
CONSTANTS
    NumU54 = 2
    N = 2
    K = 6
    Scenarios <- OneReboot
PROPERTIES
    RebootComesBack
