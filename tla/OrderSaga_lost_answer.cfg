CONSTANTS
    p1 = p1
    p2 = p2
    Products <- MCProducts
    SeededProducts <- MCSeededProducts
    SeedQuantity <- MCSeedQuantity
    Amounts = {1}
    Deltas = {}
    Orders = {o1}
    Baskets <- MCTwoItems
    Calls = {c1}
    PutStatuses = {"confirmed"}
    MaxFaults = 1
SPECIFICATION Spec
INVARIANT
    FailedOrdersHoldNothing
CHECK_DEADLOCK FALSE
