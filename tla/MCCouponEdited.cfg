SPECIFICATION Spec
CONSTANTS
    a1 = a1
    a2 = a2
    b1 = b1
    ann = ann
    bob = bob
    NoOne = NoOne
    Orders <- MCTwo
    CardOrders <- MCTwo
    Person <- MCPerson
    Cap = 2
    OncePerCustomer = TRUE
    FirstOrderOnly = FALSE
    OperatorEdits = TRUE
    MaxCrashes = 0
INVARIANTS CounterIsSeats
CHECK_DEADLOCK FALSE
