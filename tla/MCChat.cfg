CONSTANTS
    Chats = {bob,eve}
    Groups = {club}
    Known = {bob}
    Null = Null
    MaxSelects = 2
    MaxChanges = 2
    MaxTyped = 2
    MaxFaults = 1
SPECIFICATION Spec
INVARIANTS
    TypeOK
    ChatShowsTheStore
    SidebarShowsTheStore
    ChatStaysOpen
    SentOnce
    NothingTypedIsLost
CHECK_DEADLOCK FALSE
