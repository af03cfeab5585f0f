CONSTANTS
    Users = {a, b}
    Tasks = {t1, t2}
    Null = Null
    MaxSkip = 1
    MaxSends = 3
    MaxCuts = 1
    MaxRepeats = 0
SYMMETRY Symmetry
SPECIFICATION Spec
INVARIANT EachMessageHasItsOwnKey
CHECK_DEADLOCK FALSE
