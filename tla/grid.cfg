CONSTANTS
    Rows = 2
    Viewers = {v1, v2}
    FramesCap = 1
    EventsCap = 1
    MaxChanges = 3
SPECIFICATION FairSpec
INVARIANTS TypeOK NoRowMissed
PROPERTIES NeverBack Converges
