SPECIFICATION CardSpec
CONSTANTS
    w1 = w1
    w2 = w2
    Last = 2
    Handlers <- MCTwoWorkers
    CardMayFail = TRUE
    ProviderMayFail = FALSE
    MaxOrders = 2
    MaxWorkersLost = 0
INVARIANTS OneOrderPerInvoice
CHECK_DEADLOCK FALSE
