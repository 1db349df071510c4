SPECIFICATION Spec
CONSTANTS
    None = None
    i1 = i1
    i2 = i2
    p1 = p1
    text = text
    bad = bad
    u0 = u0
    u1 = u1
    u2 = u2
    Malformed = {bad}
    Requests <- MCRequests
    SomeEvents <- MCEvents
    Workers = {w1, w2}
    UserValue <- MCUserValue
    MaxAttempts = 3
    MaxEdits = 2
    MaxFaults = 1
INVARIANTS EffectOnce ReceiptIsTrue AcceptedRuleHasTarget
PROPERTIES WritesOnlyItsFields
SYMMETRY AnyWorker
CHECK_DEADLOCK FALSE
