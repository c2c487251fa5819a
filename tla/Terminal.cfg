SPECIFICATION Spec
CONSTANTS
    w1 = w1
    w2 = w2
    d1 = d1
    r1 = r1
    Workers = {w1, w2}
    Deliveries = {d1}
    Results = {r1}
    Failures = {"failed"}
    NoOne = NoOne
    NoResult = NoResult
    MaxRedrives = 1
    MaxCrashes = 0
SYMMETRY Symmetry
INVARIANTS TypeOK GraphConsistent RefundNotLost
PROPERTIES ImplementsCharge FirstAnswerStands
CHECK_DEADLOCK FALSE
