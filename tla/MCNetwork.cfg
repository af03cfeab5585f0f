CONSTANTS
    Callers = {s1, s2}
    Boot = Boot
    Peers = {bob}
    MaxRequests = 4
    MaxPushes = 2
    MaxStrays = 2
SPECIFICATION Spec
INVARIANTS
    TypeOK
    AnswersLagByStrays
    NothingPushedIsDropped
    DotsFollowTheRelay
PROPERTIES
    RequestsAreAnswered
CHECK_DEADLOCK FALSE
