SPECIFICATION FairSpec

CONSTANTS
    Executions <- MCExecutions
    ActionCount <- MCActionCount
    MAX_RULE_ACTIONS = 2
    Workers <- MCWorkers
    CallerOf <- MCTwoCallers
    Limit = 2
    MaxAttempts = 3
    MaxFaults = 2
    NoOwner = NoOwner

CHECK_DEADLOCK FALSE
PROPERTY EveryExecutionEnds
PROPERTY ImplementsContract
