SPECIFICATION Spec

CONSTANTS
    Second = 2
    Micro = 2
    NoTime = NoTime
    Rules <- MCOneRule
    Triggers <- MCFloating
    Processes = {p, q}
    Limit = 2
    Horizon = 3
    MaxTime = 7
    MaxCommands = 1
    MaxFaults = 0

CHECK_DEADLOCK FALSE
INVARIANT TimerKeyVerifies
