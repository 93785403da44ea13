CONSTANTS
    Orders = {o1}
    Creates = {s1, s2}
    Updates = {u1, u2, u3}
    Cancels = {d1}
    UpdateStatuses = {"shipped", "out_for_delivery", "delivered"}
    MaxFaults = 1
SPECIFICATION Spec
SYMMETRY ShippingSymmetry
INVARIANTS
    TypeOK
    OneShipmentPerOrder
    EventsAreCommits
    FreshHistoryIsComplete
    OrderFollowsShipment
CHECK_DEADLOCK FALSE
