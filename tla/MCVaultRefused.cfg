CONSTANTS
    Passwords = {p}
    Tasks = {t1}
    Null = Null
    MaxFlows = 1
    MaxFaults = 0
SPECIFICATION Spec
INVARIANT LogInIsPossible
CHECK_DEADLOCK FALSE
