SPECIFICATION Spec
CONSTANTS
    Components = {"agent", "retry"}
    PodReports = {"ready"}
    Specs <- WithSidecar
    Seconds = {0}
    Now = 2
    MaxUid = 1
    MaxGen = 2
    MaxFaults = 0
VIEW SafetyView
INVARIANT WebhookIsCleanedUp
CHECK_DEADLOCK FALSE
