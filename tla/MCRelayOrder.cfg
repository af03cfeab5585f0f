CONSTANTS
    Users = {u1, u2}
    Conns = {c1, c2}
    None = None
    MaxMail = 2
    MaxCrashes = 1
SPECIFICATION Spec
INVARIANTS
    DeliveredWasPushed
    NoGaps
PROPERTIES
    KeepsPromise
    OnlineMailIsDelivered
CHECK_DEADLOCK FALSE
