CONSTANTS
    p1 = p1
    p2 = p2
    Products <- MCProducts
    SeededProducts <- MCSeededProducts
    SeedQuantity <- MCSeedQuantity
    Amounts = {1}
    Deltas = {}
    Orders = {o1, o2}
    Baskets <- MCTwoItems
    Calls = {c1}
    PutStatuses = {"confirmed", "cancelled"}
    MaxFaults = 1
SPECIFICATION FairSpec
PROPERTIES
    HandlersFinish
CHECK_DEADLOCK FALSE
