CONSTANTS
    Names = {h1, h2}
    Configured = {h1}
    Launches = {l1, l2}
    Tab = tab
    MaxSpawns = 2
    MaxUpsets = 1
SPECIFICATION Spec
SYMMETRY LaunchSymmetry
INVARIANTS TypeOK LeaseOwned OneInFlight LanesApart
CHECK_DEADLOCK FALSE
