SPECIFICATION ResyncSpec
CONSTANTS
    d1 = d1
    d2 = d2
    o1 = o1
    o2 = o2
    Drivers = {d1, d2}
    Operators = {o1}
    None = None
    MaxUid <- NoneReused
    MaxFaults = 0
PROPERTIES
    SingletonIsServed
    OthersAreReported
CHECK_DEADLOCK FALSE
