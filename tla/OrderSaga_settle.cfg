CONSTANTS
    p1 = p1
    p2 = p2
    Products <- MCProducts
    SeededProducts <- MCSeededProducts
    SeedQuantity <- MCSeedQuantity
    Amounts = {1}
    Deltas = {}
    Orders = {o1, o2}
    Baskets <- MCBaskets
    Calls = {c1, c2}
    PutStatuses = {"pending", "confirmed", "cancelled", "shipped"}
    MaxFaults = 2
SPECIFICATION Spec
SYMMETRY OrderSymmetry
INVARIANTS
    TypeOK
    HeldStockIsReserved
    StockExplained
CHECK_DEADLOCK FALSE
