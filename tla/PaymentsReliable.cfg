SPECIFICATION FairSpec
CONSTANTS
    c1 = c1
    c2 = c2
    c3 = c3
    c4 = c4
    n1 = n1
    n2 = n2
    NoTicket = NoTicket
    Calls = {c1, c2, c3, c4}
    Tickets = {c1, c2, c3, c4}
    Nonces = {n1, n2}
    KindOf <- WebAndBank
    CreditOf <- TwoCredits
    MaxTries = 1
    Lossy = FALSE
    MayCancel = {c1}
    MayExpire = {}
INVARIANTS LockFollowsCall ServedOnce DepositsSettle
PROPERTIES EveryCallEnds
