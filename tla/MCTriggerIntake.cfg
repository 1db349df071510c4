SPECIFICATION Spec
CONSTANTS
    None = None
    r1 = r1
    r2 = r2
    label = label
    id = id
    k1 = k1
    k2 = k2
    t1 = t1
    t2 = t2
    caller = caller
    other = other
    Malformed = {}
    Deliveries <- MCDeliveries
    RuleIds = {r1, r2}
    Definitions <- MCDefinitions
    InitialRules <- MCInitialRules
    Times = {t1, t2}
    ScheduleKey <- MCScheduleKey
    EventCallers = {caller}
    TimerCallers = {caller}
    Processes = {p1, p2}
    MaxCalls = 3
    MaxCommands = 1
    MaxFaults = 1
INVARIANTS TypeOK OneExecutionPerRule AnswerNamesExecutions
PROPERTIES StableRuleFires ImplementsContract
SYMMETRY AnyProcess
CHECK_DEADLOCK FALSE
