CONSTANTS
    w1 = w1
    w2 = w2
    chat1 = chat1
    chat2 = chat2
    tab1 = tab1
    Workspaces = {w1}
    Names = {chat1, tab1}
    Owner <- MCOwner
    Chat <- MCChat
    MaxClock = 2
    MaxSpawns = 2
    MaxFaults = 1
    Nobody = Nobody
    NoName = NoName
SPECIFICATION FairSpec
INVARIANTS TypeOK ForcedWasAsked FiresJustified
PROPERTIES ReapIsJustified DormantReaped
