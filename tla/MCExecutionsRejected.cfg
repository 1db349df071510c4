SPECIFICATION Spec

CONSTANTS
    Executions <- MCOneExecution
    ActionCount <- MCOneActionCount
    MAX_RULE_ACTIONS = 2
    Workers <- MCWorkers
    CallerOf <- MCCallerOf
    Limit = 2
    MaxAttempts = 2
    MaxFaults = 1
    NoOwner = NoOwner

CHECK_DEADLOCK FALSE
PROPERTY FailedActionStays
