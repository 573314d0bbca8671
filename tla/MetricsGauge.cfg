SPECIFICATION MetricsFairSpec
CONSTANTS
    cxi0 = cxi0
    cxi1 = cxi1
    Devices = {cxi0}
    MaxExits = 1
    MaxRestarts = 0
    MaxLost = 1
PROPERTY GaugeFalls
CHECK_DEADLOCK FALSE
