SPECIFICATION OrdersSpec
CONSTANTS
    a1 = a1
    a2 = a2
    b1 = b1
    ann = ann
    bob = bob
    NoOne = NoOne
    Orders <- MCTabs
    CardOrders <- MCBob
    Person <- MCPerson
    Cap = 1
    OncePerCustomer = TRUE
    FirstOrderOnly = TRUE
    OperatorEdits = FALSE
    MaxCrashes = 0
    o1 = o1
    o2 = o2
    i1 = i1
    i2 = i2
    w1 = w1
    Cron = Cron
    None = None
    Sales <- MCSales
    TopUpOrders <- MCNone
    Orphans <- MCNone
    Iccids <- MCIccids
    Workers <- MCWorker
    Limit = 1
    AnswerMayBeLost = TRUE
    IccidMayRepeat = TRUE
    OperatorActs = TRUE
    MaxActs = 2
    MaxDeaths = 1
    Last = 2
    Handlers <- MCWorker
    CardMayFail = TRUE
    ProviderMayFail = TRUE
    MaxOrders = 2
    MaxWorkersLost = 1
INVARIANTS CounterIsSeats NeverOverClaimed InvoicesSettle OneOrderPerInvoice
PROPERTIES LinesStayPut PaidStaysPaid CollectedIsDelivered
CHECK_DEADLOCK FALSE
