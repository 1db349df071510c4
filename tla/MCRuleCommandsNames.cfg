SPECIFICATION FairSpec

CONSTANTS
    Requests <- MCTwoRules
    Keys <- MCTwoKeys
    RuleIds <- MCRuleIds
    Processes = {p, q, s}
    NoName = NoName
    MaxCalls = 4
    MaxFaults = 0

CHECK_DEADLOCK FALSE
INVARIANT NamesUnique
INVARIANT OnlyRenamesDeadlock
PROPERTY EveryCallReturns
