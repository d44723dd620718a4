SPECIFICATION BatchesSpec
CONSTANTS
    r1 = r1
    q1 = q1
    Items <- TwoItems
    Batches <- FourBatches
    Runners <- OneRunner
    Requests <- OneRequest
    NoOwner = NoOwner
    NoObject = NoObject
    Kind <- Kinds
    Targets <- TargetSets
    Window <- Windows
    MaxStart = 1
    MaxClock = 1
    MaxFaults = 0
INVARIANTS
    NoChangeReplaced
CHECK_DEADLOCK FALSE
