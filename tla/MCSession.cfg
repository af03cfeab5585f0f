CONSTANTS
    Users = {a, b}
    Tasks = {t1, t2}
    Null = Null
    MaxSkip = 1
    MaxSends = 4
    MaxCuts = 2
    MaxRepeats = 1
SYMMETRY Symmetry
SPECIFICATION Spec
INVARIANTS
    TypeOK
    UnreadOnlyIfDisturbed
    ForwardSecrecy
    ReadOnce
    OwnKeyUnlessDisturbed
CHECK_DEADLOCK FALSE
