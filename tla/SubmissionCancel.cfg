SPECIFICATION Spec
CONSTANTS
    w1 = w1
    w2 = w2
    User = User
    NoOne = NoOne
    Workers = {w1}
    Providers = {"b2b"}
INVARIANTS CancelScheduled
CHECK_DEADLOCK FALSE
