SPECIFICATION FairSpec
CONSTANTS
    cxi0 = cxi0
    cxi1 = cxi1
    cxi2 = cxi2
    Devices = {cxi0, cxi1}
    MaxExits = 2
INVARIANTS
    TypeOK
    LateLaunchOnce
    StopLeavesNothing
PROPERTIES
    KeepsPromise
    KeepsTrying
    StopCompletesUnlessLate
CHECK_DEADLOCK FALSE
