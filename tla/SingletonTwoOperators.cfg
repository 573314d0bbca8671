SPECIFICATION Spec
CONSTANTS
    d1 = d1
    d2 = d2
    o1 = o1
    o2 = o2
    Drivers = {d1}
    Operators = {o1, o2}
    None = None
    MaxUid <- OneReused
    MaxFaults = 0
SYMMETRY Symmetry
VIEW SafetyView
INVARIANT DeployedHasFinalizer
CHECK_DEADLOCK FALSE
