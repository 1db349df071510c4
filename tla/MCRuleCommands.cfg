SPECIFICATION Spec

CONSTANTS
    Requests <- MCOneRule
    Keys <- MCOneKeys
    RuleIds <- MCRuleIds
    Processes = {p, q, s}
    NoName = NoName
    MaxCalls = 5
    MaxFaults = 1

CHECK_DEADLOCK FALSE
INVARIANT TypeOK
INVARIANT AnswerIsDurable
PROPERTY RetryFindsResponse
PROPERTY ImplementsRegister
