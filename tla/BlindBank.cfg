SPECIFICATION Spec
CONSTANTS
    a1 = a1
    a2 = a2
    c1 = c1
    c2 = c2
    c3 = c3
    c4 = c4
    Accounts = {a1, a2}
    Calls = {c1, c2, c3, c4}
    OpOf <- Racing
    Opening = 5
    Existing = {a1}
    MaxReqs = 2
    Representable <- TwoBits
    MaxTries = 2
    Lossy = TRUE
INVARIANTS AccountsSound NothingForFree
CHECK_DEADLOCK FALSE
