SPECIFICATION FairSpec
CONSTANTS
    v1 = v1
    v2 = v2
    t1 = t1
    t2 = t2
    Versions = {v1}
    Tags = {t1, t2}
    Ports = {9090, 9100}
    NoVersion = NoVersion
    NoTag = NoTag
    Components = {"agent", "exporter"}
    Manifests <- ModesAndGaps
    PodSpecs <- AskingAndHandWritten
    Labels = {"true"}
    MaxEdits = 2
INVARIANT OneSidecar
PROPERTIES
    AdmittedIsServed
    ReleaseArrives
    ExporterAsksItsHandler
CHECK_DEADLOCK FALSE
