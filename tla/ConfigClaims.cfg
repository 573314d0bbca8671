\* Each of these properties is refuted; check them one at a time.
SPECIFICATION FairSpec
CONSTANTS
    v1 = v1
    v2 = v2
    t1 = t1
    t2 = t2
    Versions = {v1}
    Tags = {t1, t2}
    Ports = {9090, 9100}
    NoVersion = NoVersion
    NoTag = NoTag
    Components = {"agent", "plugin", "handler"}
    Manifests <- EveryManifest
    PodSpecs <- EveryPod
    Labels = {"true", "enabled"}
    MaxEdits = 0
PROPERTY SourceArrives
\* PROPERTY SharingArrives
\* PROPERTY HandlerRuns
\* PROPERTY AdmittedIsServedAlways
\* INVARIANT VersionIsDeployed
\* INVARIANT PodsAreAdmitted
\* INVARIANT SidecarServes
CHECK_DEADLOCK FALSE
