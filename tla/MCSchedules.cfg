SPECIFICATION Spec

CONSTANTS
    Second = 2
    Micro = 2
    NoTime = NoTime
    Rules <- MCOneRule
    Triggers <- MCAnchored
    Processes = {p, q}
    Limit = 2
    Horizon = 6
    MaxTime = 8
    MaxCommands = 3
    MaxFaults = 1

CHECK_DEADLOCK FALSE
INVARIANT TypeOK
INVARIANT ScheduleAlive
INVARIANT PendingIsNext
INVARIANT EndedMeansPast
INVARIANT TimerKeyVerifies
PROPERTY CancelledStays
PROPERTY NeverBackwards
PROPERTY ImplementsContract
