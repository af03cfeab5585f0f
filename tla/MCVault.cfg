CONSTANTS
    Passwords = {p, q}
    Tasks = {t1, t2}
    Null = Null
    MaxFlows = 3
    MaxFaults = 2
SYMMETRY Symmetry
SPECIFICATION Spec
INVARIANTS
    TypeOK
    PhraseUnlocks
    PasswordUnlocks
    AccountIsKept
    MainIsLoggedIn
    PhraseWasShown
    RememberedUnlocks
CHECK_DEADLOCK FALSE
