CONSTANTS
    Viewers = {v1, v2}
    Requests = {r1, r2}
    Sizes = {1, 2}
    Unclaimed = Unclaimed
SPECIFICATION Spec
SYMMETRY ViewerSymmetry
INVARIANTS TypeOK ClaimIsLive ActiveDrives
PROPERTIES ClaimIsKept
CHECK_DEADLOCK FALSE
