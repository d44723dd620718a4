SPECIFICATION OperationsSpec
CONSTANTS
    a = a
    b = b
    w1 = w1
    w2 = w2
    i1 = i1
    i2 = i2
    Jobs <- OneJob
    Workers <- TwoWorkers
    Items <- OneItem
    Targets <- OneTarget
    PromotionSets <- None
    MaxChanges = 1
    MaxAttempts = 2
    LeaseSeconds = 1
    ClockSkew = 0
    MaxDelay = 0
    RetryDelay = 1
    MaxCrashes = 0
    MaxNow = 3
SYMMETRY Symmetry
PROPERTIES
    DuplicateGetsResult
CHECK_DEADLOCK FALSE
