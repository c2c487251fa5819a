SPECIFICATION Spec
CONSTANTS
    w1 = w1
    w2 = w2
    User = User
    NoOne = NoOne
    Workers = {w1, w2}
    Providers = {"local", "b2b"}
SYMMETRY Symmetry
INVARIANTS TypeOK AtMostOnePost SettledWithoutJob StoryAgrees
PROPERTIES NoPermissionOnceCancelling ImplementsCharge
CHECK_DEADLOCK FALSE
