SPECIFICATION MetricsFairSpec
CONSTANTS
    cxi0 = cxi0
    cxi1 = cxi1
    Devices = {cxi0}
    MaxExits = 2
    MaxRestarts = 1
    MaxLost = 1
INVARIANTS
    MetricsTypeOK
    MetricIsBehind
PROPERTIES
    MetricOnlyGrows
    ScrapesCatchUp
CHECK_DEADLOCK FALSE
