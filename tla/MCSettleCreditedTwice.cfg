SPECIFICATION Spec
CONSTANTS
    order1 = order1
    topup1 = topup1
    w1 = w1
    w2 = w2
    NoOne = NoOne
    Unreported = Unreported
    Payments <- MCTopUp
    OrderPayments <- MCNone
    Discounted <- MCNone
    CryptoPayments <- MCTopUp
    Workers <- MCWorkers
    Invoice = 50
    Bonus = 5
    Reports <- MCReports
    MaxNotices = 3
    MaxCredits = 2
    MaxCrashes = 0
    ByHand <- MCNone
SYMMETRY WorkerSymmetry
INVARIANTS CreditedOnce
CHECK_DEADLOCK FALSE
