SPECIFICATION FairSpec
CONSTANTS
    d1 = d1
    d2 = d2
    o1 = o1
    o2 = o2
    Drivers = {d1}
    Operators = {o1}
    None = None
    MaxUid <- OneReused
    MaxFaults = 2
PROPERTIES
    DeletionCompletes
    HolderDeploys
CHECK_DEADLOCK FALSE
