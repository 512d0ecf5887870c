SPECIFICATION FulfilSpec
CONSTANTS
    o1 = o1
    o2 = o2
    t1 = t1
    t2 = t2
    i1 = i1
    i2 = i2
    w1 = w1
    w2 = w2
    Cron = Cron
    None = None
    Sales <- MCOneOrder
    TopUpOrders <- MCNone
    Orphans <- MCNone
    Iccids <- MCIccids
    Workers <- MCOneWorker
    Limit = 1
    AnswerMayBeLost = FALSE
    IccidMayRepeat = FALSE
    OperatorActs = TRUE
    MaxActs = 2
    MaxDeaths = 0
INVARIANTS NoDoubleProvision
CHECK_DEADLOCK FALSE
