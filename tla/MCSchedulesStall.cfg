SPECIFICATION FairSpec

CONSTANTS
    Second = 1
    Micro = 1
    NoTime = NoTime
    Rules <- MCOneRule
    Triggers <- MCTwoIntervals
    Processes = {p, q}
    Limit = 2
    Horizon = 2
    MaxTime = 4
    MaxCommands = 2
    MaxFaults = 0

CHECK_DEADLOCK FALSE
PROPERTY ScheduleAdvances
