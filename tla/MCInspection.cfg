SPECIFICATION InspectionSpec

CONSTANTS
    Executions <- MCExecutions
    ActionCount <- MCActionCount
    MAX_RULE_ACTIONS = 2
    Workers = {w1, w2}
    CallerOf <- MCCallerOf
    Limit = 2
    MaxAttempts = 2
    MaxFaults = 2
    NoOwner = NoOwner
    AttemptLimit = 1
    NoCursor = NoCursor
    Targets = {1}

CHECK_DEADLOCK FALSE
INVARIANT TypeOK
INVARIANT SucceededMeansApplied
INVARIANT AppliedInOrder
INVARIANT AttemptLedgerAgrees
INVARIANT SoleCompleter
PROPERTY AttemptHistoryFrozen
INVARIANT PagesComplete
INVARIANT InspectionAgrees
SYMMETRY AnyWorker
