SPECIFICATION FairSpec
CONSTANTS
    Meetings = {m1}
    Windows = {w1}
    Routing = "hosted"
    MaxFaults = 2
    MaxReloads = 1
INVARIANTS
    CleanupInv
PROPERTIES
    DeletionRetried
CHECK_DEADLOCK FALSE
