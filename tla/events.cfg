CONSTANTS
    Names = {t1, t2}
    Windows = {win}
    Apps = {app}
    Cap = 2
    MaxOps = 3
    MaxDrops = 1
SPECIFICATION FairSpec
INVARIANTS TypeOK NoSessionMissed
PROPERTIES SessionsSurface
