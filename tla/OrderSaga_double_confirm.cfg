CONSTANTS
    p1 = p1
    p2 = p2
    Products <- MCProducts
    SeededProducts <- MCSeededProducts
    SeedQuantity <- MCSeedQuantity
    Amounts = {1}
    Deltas = {}
    Orders = {o1, o2}
    Baskets <- MCOneItem
    Calls = {c1, c2}
    PutStatuses = {"confirmed"}
    MaxFaults = 0
SPECIFICATION Spec
INVARIANT
    PendingOrdersAreReserved
CHECK_DEADLOCK FALSE
