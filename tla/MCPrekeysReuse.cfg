CONSTANTS
    Peers = {p1, p2, p3}
    NoKey = NoKey
    Target = 1
    MaxLogins = 2
SYMMETRY Symmetry
SPECIFICATION Spec
INVARIANT HandedOutOnce
CHECK_DEADLOCK FALSE
