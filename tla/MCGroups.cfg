CONSTANTS
    Users = {a, b, c}
    Contacts <- Everybody
    MaxOps = 2
    MaxTexts = 1
    MaxInHand = 2
    MaxFails = 1
SYMMETRY Symmetry
SPECIFICATION Spec
INVARIANTS
    TypeOK
    RostersInSync
    NameKnownAfterFounding
    DeletedForEveryMember
    LastPictureArrives
CHECK_DEADLOCK FALSE
