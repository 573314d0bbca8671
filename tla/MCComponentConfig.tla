------------------------- MODULE MCComponentConfig -------------------------
(***************************************************************************)
(* Instances of ComponentConfig for TLC.                                   *)
(***************************************************************************)
EXTENDS ComponentConfig

CONSTANTS v1, v2, t1, t2

\* A complete manifest: DKMS from a repository, every section present.
Complete ==
    [version |-> v1, source |-> "dkms", repository |-> TRUE, prebuiltCache |-> FALSE,
     tag |-> t1, retry |-> TRUE, mode |-> "daemonset",
     plugin |-> TRUE, sharing |-> "shared", sharedCapacity |-> 100,
     exporter |-> TRUE, port |-> 9090, healthCheckTimeout |-> "duration"]

InSidecarMode == [Complete EXCEPT !.tag = t2, !.mode = "sidecar", !.port = 9100]

\* The retry handler switched off, which the operator's first write does not preserve.
SwitchedOff == [InSidecarMode EXCEPT !.retry = FALSE]

\* Only the version and the release: a source section without a repository.
Simple == [Complete EXCEPT !.repository = FALSE]

\* Only the version: every section left out.
Bare ==
    [version |-> v1, source |-> "", repository |-> FALSE, prebuiltCache |-> FALSE,
     tag |-> NoTag, retry |-> FALSE, mode |-> "", plugin |-> FALSE, sharing |-> "",
     sharedCapacity |-> 0, exporter |-> FALSE, port |-> 0, healthCheckTimeout |-> ""]

ModesAndGaps == {Complete, SwitchedOff, Bare}

EveryManifest ==
    {Bare, Simple} \cup
    {[Complete EXCEPT !.source = source, !.prebuiltCache = TRUE, !.mode = mode, !.sharing = sharing] :
        source \in Sources, mode \in Modes, sharing \in Sharing}

\* A pod that asks for a device, one that asks by annotation alone, a copy of an
\* injected pod and one whose author copied the container alone.
Asking == [inject |-> "absent", injected |-> FALSE, limits |-> {"container"},
           sidecars |-> 0, dev |-> "absent", device |-> FALSE]
Annotated == [Asking EXCEPT !.inject = "true", !.limits = {}]
Copied == InjectSidecar(Asking)
HandWritten == [Copied EXCEPT !.injected = FALSE]

AskingAndHandWritten == {Asking, HandWritten}
EveryPod == {Asking, Annotated, Copied, HandWritten}
=============================================================================
