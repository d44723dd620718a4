SPECIFICATION Spec
CONSTANTS
    w1 = w1
    w2 = w2
    Writers <- TwoWriters
    MaxId = 3
    MaxExports = 2
INVARIANTS
    LateArrivalsFollow
CHECK_DEADLOCK FALSE
