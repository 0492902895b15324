CONSTANTS
    Signals = {g1, g2}
    Keys = {k1}
    Sessions = {s1, s2}
    Endpoints = {e1}
    Ensures = {}
    MaxCrashes = 2
    NoSession = NoSession
    NoKey = NoKey
    Nobody = Nobody
SPECIFICATION FairSpec
INVARIANTS TypeOK CounterIsDisk OneCopy DrainedInOrder
PROPERTIES LostOnlyByCrash ImplementsMailbox
