SPECIFICATION BuyingSpec
CONSTANTS
    x1 = x1
    x2 = x2
    x3 = x3
    g1 = g1
    g2 = g2
    NoPost = NoPost
    Posts <- MCPosts
    Tap <- MCTap
    InApp <- MCInApp
    Total = 1
    Funds = 2
    Cap = 2
    Windows <- MCWindows
    MaxKilled = 1
    o1 = o1
    t1 = t1
    t2 = t2
    i1 = i1
    i2 = i2
    w1 = w1
    w2 = w2
    Cron = Cron
    None = None
    Sales <- MCSales
    TopUpOrders <- MCTopUps
    Orphans <- MCOrphan
    Iccids <- MCIccids
    Workers <- MCWorkers
    Limit = 2
    AnswerMayBeLost = FALSE
    IccidMayRepeat = FALSE
    OperatorActs = FALSE
    MaxActs = 2
    MaxDeaths = 0
INVARIANTS SpentIsSold NoDoubleProvision
PROPERTIES PaidIsDelivered
CHECK_DEADLOCK FALSE
