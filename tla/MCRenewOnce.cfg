SPECIFICATION FairSpec
CONSTANTS
    s1 = s1
    s2 = s2
    r1 = r1
    r2 = r2
    w1 = w1
    w2 = w2
    Subs <- MCTwoSubs
    Runs <- MCOneRun
    Workers <- MCOneWorker
    Period = 2
    Grace = 1
    Funds = 2
    MaxTopUps = 1
    MaxNow = 6
    MaxCrashes = 1
    CustomerCancels = TRUE
INVARIANT TilesUnlessKilled
PROPERTIES PaidPeriodKept NotHeldOpen
CHECK_DEADLOCK FALSE
