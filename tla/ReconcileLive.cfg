SPECIFICATION FairSpec
CONSTANTS
    Components = {"agent", "retry"}
    PodReports = {"unavailable", "ready"}
    Specs <- SidecarOrFull
    Seconds = {0, 1}
    Now = 2
    MaxUid = 1
    MaxGen = 1
    MaxFaults = 1
PROPERTIES
    DeletionCompletes
    Converges
CHECK_DEADLOCK FALSE
