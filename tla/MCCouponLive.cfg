SPECIFICATION FairSpec
CONSTANTS
    a1 = a1
    a2 = a2
    b1 = b1
    ann = ann
    bob = bob
    NoOne = NoOne
    Orders <- MCTabs
    CardOrders <- MCFirst
    Person <- MCPerson
    Cap = 2
    OncePerCustomer = TRUE
    FirstOrderOnly = FALSE
    OperatorEdits = TRUE
    MaxCrashes = 1
INVARIANTS SeatPerCustomer
PROPERTIES SeatComesBack
CHECK_DEADLOCK FALSE
