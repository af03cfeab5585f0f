CONSTANTS
    Users = {u1, u2}
    Conns = {c1, c2, c3}
    None = None
    MaxMail = 1
    MaxCrashes = 1
SYMMETRY Symmetry
SPECIFICATION Spec
INVARIANTS
    TypeOK
    OnlyToRecipient
    NoMailForgotten
    PresenceExactBeforeDepartures
CHECK_DEADLOCK FALSE
