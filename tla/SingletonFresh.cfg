\* The behaviours in which every read of the entry is fresh.
SPECIFICATION Spec
CONSTANTS
    d1 = d1
    d2 = d2
    o1 = o1
    o2 = o2
    Drivers = {d1, d2}
    Operators = {o1}
    None = None
    MaxUid <- OneReused
    MaxFaults = 1
CONSTRAINT ReadsAreFresh
VIEW SafetyView
INVARIANT SingleManager
PROPERTY KeepsSingleton
CHECK_DEADLOCK FALSE
