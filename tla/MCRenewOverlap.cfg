SPECIFICATION Spec
CONSTANTS
    s1 = s1
    s2 = s2
    r1 = r1
    r2 = r2
    w1 = w1
    w2 = w2
    Subs <- MCOneSub
    Runs <- MCTwoRuns
    Workers <- MCOneWorker
    Period = 2
    Grace = 1
    Funds = 3
    MaxTopUps = 0
    MaxNow = 3
    MaxCrashes = 0
    CustomerCancels = FALSE
INVARIANTS PeriodsTile
CHECK_DEADLOCK FALSE
