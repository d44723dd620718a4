SPECIFICATION SettlingSpec
CONSTANTS
    s1 = s1
    s2 = s2
    w1 = w1
    w2 = w2
    t1 = t1
    t2 = t2
    m = m
    NoBatch = NoBatch
    Slots <- TwoSlots
    Events <- TwoEvents
    Mismatched = {}
    Batches <- OneBatch
    MaxFaults = 1
    Capacity = 2
    MaxBatchSize = 2
    Trainings <- TwoTrainings
    Trainers <- TwoWorkers
    MaxTries = 2
    Versions <- OneVersion
    NoModel = NoModel
INVARIANTS
    ModelInPlace
PROPERTIES
    CallsSettle
    TrainingKeepsLifecycle
    TrainingEnds
CHECK_DEADLOCK FALSE
