SPECIFICATION MCSpec
CONSTANTS
    w1 = w1
    w2 = w2
    o1 = o1
    o2 = o2
    k1 = k1
    Events = {1, 2}
    Kind <- OneOfEither
    Workers = {w1, w2}
    Operators = {o1, o2}
    Keys = {k1}
    LeaseDuration = 2
    MaxDelay = 1
    MaxEventAge = 4
    MaterialUploadRetryBudget = 2
    MaxRedriveCount = 2
    MaxTime = 6
SYMMETRY Symmetry
INVARIANTS TypeOK LeaseExclusive UploadPendingTruthful WakesInTime
PROPERTIES RedrivesSound
CHECK_DEADLOCK FALSE
