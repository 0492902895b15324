CONSTANTS
    Keys = {t1}
    Workspaces = {}
    Sessions = {s1, s2}
    Callers = {c1, c2}
    Viewers = {v1}
    Requests = {"spawn", "close", "reap"}
    NoSession = NoSession
    NoKey = NoKey
SPECIFICATION Spec
SYMMETRY Symmetry
INVARIANTS OneReaper
