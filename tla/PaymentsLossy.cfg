SPECIFICATION Spec
CONSTANTS
    c1 = c1
    c2 = c2
    c3 = c3
    c4 = c4
    n1 = n1
    n2 = n2
    NoTicket = NoTicket
    Calls = {c1, c2}
    Tickets = {c1, c2}
    Nonces = {n1}
    KindOf <- MixedKinds
    CreditOf <- OneCredit
    MaxTries = 2
    Lossy = TRUE
    MayCancel = {c2}
    MayExpire = {n1}
INVARIANTS TypeOK NoDoubleSpend
PROPERTIES ConsumedIsFinal LedgerSpec
