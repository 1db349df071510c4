SPECIFICATION Spec
CONSTANTS
    None = None
    bad = bad
    Malformed = {bad}
    Configs <- MCConfigs
    Calls <- MCCalls
    FirstRules = {1, 2}
    Clients = {c1, c2}
    PageLimit = 1
    MaxCalls = 3
    MaxRules = 4
    MaxGrants = 1
    MaxFaults = 1
INVARIANTS TypeOK StorageIsAuthorized RejectionHasNoEffect StableRulesListed
PROPERTIES QuietAfterDeactivate
SYMMETRY AnyClient
CHECK_DEADLOCK FALSE
