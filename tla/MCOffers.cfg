SPECIFICATION OffersSpec
CONSTANTS
    ann = ann
    bob = bob
    t1 = t1
    t2 = t2
    t3 = t3
    w1 = w1
    w2 = w2
    NoOne = NoOne
    Users <- MCUsers
    Workers <- MCWorkers
    TopUps <- MCTopUps
    Owner <- MCOwner
    Amount <- MCAmount
    Payable <- MCPayable
    Extra <- MCExtra
    Reward = 1
    Threshold = 5
    MaxRows = 5
    MaxCrashes = 1
    EUR_USD_RATE = 110
    PRICING_MARKUP = 235
    PRICING_MIN_MARGIN_USD = 60
    PRICING_MIN_PRICE_USD = 149
    PRICING_COMPARE_MULTIPLIER = 400
    SUBSCRIPTION_DISCOUNT_PCT = 10
    MIN_CHARGE_USD = 50
    WALLET_BONUS_TIERS <- MCTiers
    NoPrice = NoPrice
    NoRow = NoRow
    Plans <- MCPlans
    Wholesale <- MCWholesale
    Overrides <- MCOverrides
    Agreed <- MCAgreed
    r1 = r1
    r2 = r2
    op1 = op1
    Runs <- MCRuns
    Admins <- MCAdmins
    RepriceAlone = TRUE
    MaxMoves = 1
    MaxPages = 1
    MaxFaults = 1
INVARIANTS EveryCentExplained DueIsPaid MarginKept SubscriberGains
PROPERTIES ListingSettles
CHECK_DEADLOCK FALSE
