SPECIFICATION Spec
CONSTANTS
    order1 = order1
    topup1 = topup1
    w1 = w1
    w2 = w2
    NoOne = NoOne
    Unreported = Unreported
    Payments <- MCBoth
    OrderPayments <- MCOrder
    Discounted <- MCNone
    CryptoPayments <- MCBoth
    Workers <- MCWorkers
    Invoice = 50
    Bonus = 5
    Reports <- MCReports2
    MaxNotices = 2
    MaxCredits = 2
    MaxCrashes = 0
    ByHand <- MCNone
SYMMETRY WorkerSymmetry
INVARIANTS NothingUnfunded
CHECK_DEADLOCK FALSE
