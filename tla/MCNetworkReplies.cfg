CONSTANTS
    Callers = {s1}
    Boot = Boot
    Peers = {}
    MaxRequests = 5
    MaxPushes = 0
    MaxStrays = 1
SPECIFICATION Spec
INVARIANT SentMeansStored
CHECK_DEADLOCK FALSE
