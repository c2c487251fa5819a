SPECIFICATION Spec
CONSTANTS
    u1 = u1
    u2 = u2
    r1 = r1
    r2 = r2
    t1 = t1
    t2 = t2
    c1 = c1
    c2 = c2
    Users = {u1, u2}
    Keys = {k1}
    Tickets = {i1}
    Refs = {r1, r2}
    PayCoresTxns = {t1, t2}
    StoreTxns = {s1}
    Nonces = {n1}
    Calls = {c1, c2}
    NoKey = NoKey
    NoId = NoId
    NoRef = NoRef
    NoTxn = NoTxn
    NoUser = NoUser
    MaxVersion = 2
    MaxTxns = 2
SYMMETRY Symmetry
INVARIANTS TypeOK CreditedOnce BalanceOfPaidOrders AcksTruthful
PROPERTIES CheckoutsConverge
