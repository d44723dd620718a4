SPECIFICATION EventsSpec
CONSTANTS
    s1 = s1
    s2 = s2
    w1 = w1
    w2 = w2
    p1 = p1
    p2 = p2
    n1 = n1
    n2 = n2
    NoBatch = NoBatch
    Slots <- TwoSlots
    Events <- ThreeEvents
    Mismatched <- LastEvent
    Batches <- OneBatch
    MaxFaults = 1
    Capacity = 2
    MaxBatchSize = 2
    NoExport = NoExport
    Writers <- TwoWriters
    Exporters <- TwoExporters
    Names <- TwoNames
    MaxId = 3
SYMMETRY Alike
INVARIANTS
    CountedOnce
    SettledIsTrue
    NothingMissed
    RecordedStands
CHECK_DEADLOCK FALSE
