SPECIFICATION FairSpec
CONSTANTS
    order1 = order1
    topup1 = topup1
    w1 = w1
    w2 = w2
    NoOne = NoOne
    Unreported = Unreported
    Payments <- MCBoth
    OrderPayments <- MCOrder
    Discounted <- MCOrder
    CryptoPayments <- MCNone
    Workers <- MCWorkers
    Invoice = 50
    Bonus = 5
    Reports <- MCNone
    MaxNotices = 3
    MaxCredits = 2
    MaxCrashes = 1
    ByHand <- MCTopUp
INVARIANTS SaleNeverLost CreditedOnce
PROPERTIES PromiseKept ChargedIsDelivered
CHECK_DEADLOCK FALSE
