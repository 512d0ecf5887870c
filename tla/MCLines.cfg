SPECIFICATION PhoneSpec
CONSTANTS
    ann = ann
    bob = bob
    gift = gift
    guest = guest
    NoOne = NoOne
    Users <- MCUsers
    Orders <- MCOrders
    Buyer <- MCBuyer
    Address <- MCAddress
    Gifts <- MCGifts
    OnDevice <- MCOrders
    MaxChanges = 1
    MaxRequests = 2
    d1 = d1
    q1 = q1
    q2 = q2
    v1 = v1
    v2 = v2
    n1 = n1
    Nobody = Nobody
    Accounts <- MCUsers
    Devices <- MCDevices
    Customers <- MCCustomers
    CardNumbers <- MCCards
    Calls <- MCCalls
    LookupMayFail = TRUE
    Impatient = FALSE
    MaxTorn = 1
INVARIANTS GiftGoesToItsAddress ErasedOwnsNothing OneHolder CardsInReach
CHECK_DEADLOCK FALSE
