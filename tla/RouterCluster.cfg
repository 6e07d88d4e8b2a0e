SPECIFICATION FairSpec
CONSTANTS
    Routers = {r1, r2}
    Nodes = {n1}
    MinChecks = 1
    MinSuccessRate = 50
    MaxStreak = 2
    MaxAge = 1
    Reachable = {r1}
    MaxEvents = 2
    MaxPulls = 1
    LastEvent = 1
    MaxTime = 3
INVARIANTS RoutingFollows MergesAgree
PROPERTIES NeverGoesBack GoneIsForgotten
CHECK_DEADLOCK FALSE
