SPECIFICATION FairSpec
CONSTANTS
    NumU54 = 2
    Sub = 2
    Top = 24
    Images <- Apart
INVARIANTS
    TypeOK
    PayloadLoaded
PROPERTIES
    DownloadEnds
