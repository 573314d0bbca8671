SPECIFICATION FairSpec
CONSTANTS
    r1 = r1
    r2 = r2
    Releases = {r1, r2}
    None = None
    Archives <- GoodArchives
    Sources = {"dkms", "legacy", "prebuilt", "preinstalled"}
    MaxFailures = 1
    MaxEdits = 1
    MaxCrashes = 2
INVARIANTS
    TypeOK
    ReadyMeansLoaded
    AddedSourceIsWhole
PROPERTY DriverComesUpUnlessAStepFails
CHECK_DEADLOCK FALSE
