SPECIFICATION Spec
CONSTANTS
    c1 = c1
    c2 = c2
    small = small
    Callers <- MCCallers
    AmountOf <- MCAmountOf
    Batches <- MCBatches
    Steps <- MCSteps
    OutputsOf <- WalletOutputs
    Root = "root"
    Funds = 5
    SourceAmount = 5
    PrefetchAmount = 2
    MaxParallel = 2
    Scenarios <- MCScenarios
INVARIANTS NothingLost ChannelsSound
PROPERTIES CloseReturns
CHECK_DEADLOCK FALSE
