SPECIFICATION Spec
CONSTANTS
    Harts = {1, 4}
    NumInit = 5
    QueuesAt = 0
    Blocks <- TransferBlocks
    MaxResets = 1
    MaxTransfers = 2
INVARIANTS TypeOK TrainRequestKept ImageSurvives
PROPERTIES   RestartEnds TransferEnds HealthMonitored
