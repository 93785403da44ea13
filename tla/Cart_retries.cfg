CONSTANTS
    Products = {p1, p2}
    Quantities = {1}
    Requests = {r1, r2, r3}
    Attempts = 2
    MaxFaults = 2
SPECIFICATION Spec
SYMMETRY CartSymmetry
INVARIANTS
    TypeOK
    OneLinePerProduct
PROPERTIES
    ImplementsPromise
CHECK_DEADLOCK FALSE
