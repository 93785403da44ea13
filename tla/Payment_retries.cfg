CONSTANTS
    Handlers = {h1, h2, h3, h4, h5}
    Keys = {k1}
    Orders = {o1}
    WebhookStatuses = {"success", "failed", "other"}
    MaxFaults = 1
SPECIFICATION Spec
SYMMETRY HandlerSymmetry
INVARIANTS
    TypeOK
    RetriesAreSafe
    FreshPaymentsSettleOnce
    OutcomeIsTold
CHECK_DEADLOCK FALSE
