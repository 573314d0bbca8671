SPECIFICATION FairSpec
CONSTANTS
    cxi0 = cxi0
    cxi1 = cxi1
    cxi2 = cxi2
    Devices = {cxi0}
    MaxExits = 1
PROPERTY StopCompletes
CHECK_DEADLOCK FALSE
