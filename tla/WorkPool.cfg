SPECIFICATION FairSpec
CONSTANTS
    j1 = j1
    j2 = j2
    w1 = w1
    w2 = w2
    w3 = w3
    s1 = s1
    s2 = s2
    s3 = s3
    Jobs = {j1, j2}
    Workers = {w1, w2, w3}
    Starting = {w1, w2}
    QueueLen = 1
    Scalers = {s1, s2, s3}
    TargetOf <- UpAndDown
    MayCancel = {j2}
INVARIANTS JobsAccounted
PROPERTIES CloseReturns PoolGoesOn
CHECK_DEADLOCK FALSE
