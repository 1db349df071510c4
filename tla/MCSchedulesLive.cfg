SPECIFICATION FairSpec

CONSTANTS
    Second = 1
    Micro = 1
    NoTime = NoTime
    Rules <- MCTwoRules
    Triggers <- MCFloating
    Processes = {p, q}
    Limit = 1
    Horizon = 2
    MaxTime = 4
    MaxCommands = 2
    MaxFaults = 1

CHECK_DEADLOCK FALSE
PROPERTY ScheduleAdvances
