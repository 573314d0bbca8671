\* Each of these properties is refuted; check them one at a time.
SPECIFICATION FairSpec
CONSTANTS
    r1 = r1
    r2 = r2
    Releases = {r1, r2}
    None = None
    Archives <- AllArchives
    Sources = {"dkms", "legacy"}
    MaxFailures = 1
    MaxEdits = 1
    MaxCrashes = 0
PROPERTY DriverComesUp
\* INVARIANT ReadyIsConfigured
\* INVARIANT AddedSourceIsWhole
CHECK_DEADLOCK FALSE
