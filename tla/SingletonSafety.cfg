SPECIFICATION Spec
CONSTANTS
    d1 = d1
    d2 = d2
    o1 = o1
    o2 = o2
    Drivers = {d1, d2}
    Operators = {o1}
    None = None
    MaxUid <- OneReused
    MaxFaults = 1
VIEW SafetyView
INVARIANTS
    TypeOK
    DeployedHasFinalizer
    JudgedEntryIsFree
CHECK_DEADLOCK FALSE
