SPECIFICATION FairSpec
CONSTANTS
    w1 = w1
    w2 = w2
    User = User
    NoOne = NoOne
    Workers = {w1}
    Providers = {"local", "b2b"}
PROPERTIES JobEventuallyBound NeverStrandedBeforePermission
CHECK_DEADLOCK FALSE
