CONSTANTS
    p1 = p1
    p2 = p2
    Products <- MCProducts
    SeededProducts <- MCSeededProducts
    SeedQuantity <- MCSeedQuantity
    Sessions = {s1}
    Amounts = {1, 2}
    Deltas <- MCDeltas
    MaxStock = 3
    MaxMoved = 2
SPECIFICATION Spec
PROPERTIES
    ImplementsLedger
