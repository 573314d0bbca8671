SPECIFICATION MetricsSpec
CONSTANTS
    cxi0 = cxi0
    cxi1 = cxi1
    Devices = {cxi0}
    MaxExits = 2
    MaxRestarts = 0
    MaxLost = 0
INVARIANT MetricIsTotal
CHECK_DEADLOCK FALSE
