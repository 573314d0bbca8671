SPECIFICATION Spec
CONSTANTS
    Components = {"agent", "plugin"}
    PodReports = {"ready"}
    Specs <- WithDisabled
    Seconds = {0}
    Now = 2
    MaxUid = 2
    MaxGen = 2
    MaxFaults = 1
VIEW SafetyView
INVARIANTS
    TypeOK
    PassIsOnLiveDriver
    SettledIsDeployed
    SettledIsReported
CHECK_DEADLOCK FALSE
