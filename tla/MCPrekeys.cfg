CONSTANTS
    Peers = {p1, p2, p3}
    NoKey = NoKey
    Target = 2
    MaxLogins = 3
SYMMETRY Symmetry
SPECIFICATION Spec
INVARIANTS
    TypeOK
    OfferedKeysAreKept
    SessionKeysAreGone
    RejectedOnlyWhenShared
CHECK_DEADLOCK FALSE
