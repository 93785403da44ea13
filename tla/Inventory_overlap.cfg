CONSTANTS
    p1 = p1
    p2 = p2
    Products <- MCOneProduct
    SeededProducts = {}
    SeedQuantity <- MCSeedQuantity
    Sessions = {s1, s2}
    Amounts = {1, 2}
    Deltas <- MCDeltas
    MaxStock = 3
    MaxMoved = 2
SPECIFICATION Spec
SYMMETRY SessionSymmetry
INVARIANTS
    TypeOK
    NonNegative
    LogExplainsRow
    ReservedWithinStock
    OneRowPerProduct
PROPERTIES
    FreshStepsAreAtomic
