SPECIFICATION AccountSpec
CONSTANTS
    u1 = u1
    w1 = w1
    w2 = w2
    NoOne = NoOne
    MaxRows = 4
    Wallets <- MCWallets
    Workers <- MCWorkers
    Sums <- MCSums
    c1 = c1
    tab1 = tab1
    tab2 = tab2
    op1 = op1
    op2 = op2
    Convs <- MCConvs
    Tabs <- MCTabs
    Staff <- MCOneStaff
    StalePages = FALSE
    MaxPosts = 1
    MaxWords = 2
    k1 = k1
    k2 = k2
    k3 = k3
    f1 = f1
    f2 = f2
    p1 = p1
    Tickets <- MCTickets
    Forms <- MCForms
    Pages <- MCPages
    MAX_OPEN_TICKETS = 1
    MaxNotes = 3
    MaxDeaths = 1
    r1 = r1
    r2 = r2
    s1 = s1
    s2 = s2
    Rows <- MCRows
    Sessions <- MCSessions
    MaxFaults = 1
    MaxBills = 1
    Nothing = Nothing
SYMMETRY MCSymmetry
INVARIANTS LedgerIsBalance NeverOverdrawn BadgeForUnseen OpenCap MoneyStopsFirst PaidAttemptKept EndIsShown
PROPERTIES TakenStaysTaken
CHECK_DEADLOCK FALSE
