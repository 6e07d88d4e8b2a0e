SPECIFICATION Spec
CONSTANTS
    MaxExponent = 17
    Grid = 8
    Amounts <- Boundaries
INVARIANTS FormatFaithful RoundedFairly
CHECK_DEADLOCK FALSE
