SPECIFICATION Spec
CONSTANTS
    m1 = m1
    m2 = m2
    m3 = m3
    q1 = q1
    q2 = q2
    q3 = q3
    NoModel = NoModel
    Models <- MCModels
    Requests <- MCRequests
    MaxCrashes = 0
SYMMETRY Symmetry
CHECK_DEADLOCK FALSE
INVARIANTS
    SlotFollowsActive
