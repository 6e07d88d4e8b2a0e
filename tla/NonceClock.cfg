SPECIFICATION Spec
CONSTANTS
    Quantum = 6
    SafeTime = 2
    Skew = 1
    Lifespan = 36
    MaxExpiry = 4
    MaxTime = 60
INVARIANTS StampIsSafe AcceptedInItsPeriod
CHECK_DEADLOCK FALSE
