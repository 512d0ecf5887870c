SPECIFICATION Spec
CONSTANTS
    s1 = s1
    s2 = s2
    r1 = r1
    r2 = r2
    w1 = w1
    w2 = w2
    Subs <- MCOneSub
    Runs <- MCOneRun
    Workers <- MCOneWorker
    Period = 2
    Grace = 1
    Funds = 2
    MaxTopUps = 0
    MaxNow = 3
    MaxCrashes = 0
    CustomerCancels = TRUE
PROPERTIES CancelStopsDebits
CHECK_DEADLOCK FALSE
