SPECIFICATION OperationsSpec
CONSTANTS
    a = a
    b = b
    w1 = w1
    w2 = w2
    i1 = i1
    i2 = i2
    Jobs <- TwoJobs
    Workers <- TwoWorkers
    Items <- TwoItems
    Targets <- SharedTargets
    PromotionSets <- First
    MaxChanges = 1
    MaxAttempts = 2
    LeaseSeconds = 1
    ClockSkew = 0
    MaxDelay = 0
    RetryDelay = 1
    MaxCrashes = 1
    MaxNow = 1
SYMMETRY Symmetry
INVARIANTS
    StateTellsOutcome
    AppliedOnce
CHECK_DEADLOCK FALSE
