SPECIFICATION FairSpec
CONSTANTS
    i1 = i1
    i2 = i2
    i3 = i3
    Items = {i1, i2, i3}
    DelayOf <- MixedDelays
    Capacity = 1
    MaxClock = 2
    CloseModes = {"graceful", "immediate"}
    MayCancel = {i3}
INVARIANTS CapacityShared CloseIsClean
PROPERTIES NeverEarly ItemsPass CloseReturns
