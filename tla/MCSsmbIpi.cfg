SPECIFICATION FairSpec
CONSTANTS
    NumU54 = 1
    N = 2
    K = 2
    MaxTx = 3
    IpiDev = FALSE
INVARIANTS
    TypeOK
    CompletionImpliesHandled
    CountNeverOverstates
    NoStrandedRequest
    MailboxInv
PROPERTIES
    HandledOnce
    RequestsTaken
    ImplementsRequestService
