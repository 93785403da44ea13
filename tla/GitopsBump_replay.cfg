CONSTANTS
    Builds = {b1, b2}
    Services = {cart, order, gateway}
    Malformed = {gateway}
    MaxRevision = 3
    MaxRollbacks = 2
    MaxFaults = 1
SPECIFICATION Spec
SYMMETRY BumpSymmetry
INVARIANTS
    TypeOK
    PushedBumpsStay
    RerunsAddNothing
PROPERTY NothingUnseenIsReplaced
CHECK_DEADLOCK FALSE
