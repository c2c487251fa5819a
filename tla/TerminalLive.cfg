SPECIFICATION FairSpec
CONSTANTS
    w1 = w1
    w2 = w2
    d1 = d1
    r1 = r1
    Workers = {w1}
    Deliveries = {d1}
    Results = {r1}
    Failures = {"failed"}
    NoOne = NoOne
    NoResult = NoResult
    MaxRedrives = 0
    MaxCrashes = 1
PROPERTIES DeliveryConsumed AnswerLeadsOn
CHECK_DEADLOCK FALSE
