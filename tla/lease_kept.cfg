CONSTANTS
    Names = {h1}
    Configured = {h1}
    Launches = {l1, l2}
    Tab = tab
    MaxSpawns = 2
    MaxUpsets = 1
SPECIFICATION FairSpec
PROPERTIES NeverDark
CHECK_DEADLOCK FALSE
