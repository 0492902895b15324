CONSTANTS
    Keys = {w1}
    Workspaces = {w1}
    Sessions = {s1, s2}
    Callers = {c1, c2}
    Viewers = {}
    Requests = {"respawn"}
    NoSession = NoSession
    NoKey = NoKey
SPECIFICATION Spec
INVARIANT ObserverSparesTheLiving
