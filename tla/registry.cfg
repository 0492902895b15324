CONSTANTS
    Keys = {w1, t1}
    Workspaces = {w1}
    Sessions = {s1, s2}
    Callers = {c1, c2}
    Viewers = {}
    Requests = {"spawn", "canonical", "respawn"}
    NoSession = NoSession
    NoKey = NoKey
SPECIFICATION Spec
SYMMETRY Symmetry
INVARIANTS TypeOK NoOrphanChild OneSlotPerSession RegisteredNotKilled
