\* Each of these properties is refuted; check them one at a time.
SPECIFICATION FairSpec
CONSTANTS
    Components = {"agent", "plugin"}
    PodReports = {"ready"}
    Specs <- WithDisabled
    Seconds = {0, 1}
    Now = 2
    MaxUid = 1
    MaxGen = 2
    MaxFaults = 0
INVARIANT SpecIsAsked
\* INVARIANT NothingLeftOver
\* PROPERTY ComesToRest
CHECK_DEADLOCK FALSE
