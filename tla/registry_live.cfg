CONSTANTS
    Keys = {w1}
    Workspaces = {w1}
    Sessions = {s1, s2}
    Callers = {c1, c2}
    Viewers = {}
    Requests = {"pinned"}
    NoSession = NoSession
    NoKey = NoKey
SPECIFICATION FairSpec
PROPERTIES LeftRegistryDies ObservedExitLeavesMap RequestsReturn ImplementsLife
