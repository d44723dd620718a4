SPECIFICATION RecurringSpec
CONSTANTS
    a = a
    w1 = w1
    w2 = w2
    r1 = r1
    r2 = r2
    q1 = q1
    s1 = s1
    s2 = s2
    o1 = o1
    Jobs <- OneJob
    Workers <- TwoWorkers
    MaxAttempts = 2
    LeaseSeconds = 3
    ClockSkew = 1
    MaxDelay = 1
    RetryDelay = 1
    MaxCrashes = 1
    MaxNow = 20
    NoOwner = NoOwner
    NoObject = NoObject
    Items <- TwoItems
    Batches <- ThreeBatches
    Runners <- TwoRunners
    Requests <- OneRequest
    Kind <- Kinds
    Targets <- TargetSets
    Window <- Windows
    MaxStart = 1
    MaxClock = 1
    MaxFaults = 1
    RuleCount = 2
    Broken <- FirstRule
    Schedulers <- TwoSchedulers
    Restarted <- SecondScheduler
    Actors <- OneActor
    Nobody = Nobody
    MaxOccurrences = 2
    MaxPresses = 2
    MaxEdits = 1
    MaxVersion = 2
    NoId = NoId
INVARIANTS
    SingleHolder
    OutboxTruthful
    AllOrNone
    VersionChain
    OneOpenOccurrence
    OneOperationPerDecision
PROPERTIES
    LeaseHonoured
    KeepsLifecycle
    WorkersEndJobs
    BatchesRunTheirCourse
    AlertsFollow
CHECK_DEADLOCK FALSE
