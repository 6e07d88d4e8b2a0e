SPECIFICATION FairSpec
CONSTANTS
    r1 = r1
    r2 = r2
    n1 = n1
    n2 = n2
    d1 = d1
    d2 = d2
    Requests = {r1, r2}
    Ui = Ui
    Nodes = {n1, n2}
    TagsOf <- NodeTags
    MaxNodes = 1
    ExpiresAfter = 0
    MaxCacheSize = 1
    MaxTries = 2
    MaxClock = 2
    Periods <- MCPeriods
    KeyConfigs <- MCKeyConfigs
    DefaultTags <- OneTag
    TagChoices <- BothTags
    HeaderTags <- AnyTags
    PingAttempts = 2
    Destroyers = {d1, d2}
    Scenarios <- MCScenarios
    HonestRouter = TRUE
INVARIANTS RequestFits PaymentsAccounted
PROPERTIES CallsReturn
CHECK_DEADLOCK FALSE
