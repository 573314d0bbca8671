---------------------------- MODULE MCReconcile ----------------------------
(***************************************************************************)
(* Instances of CXIDriverReconcile for TLC.                                *)
(***************************************************************************)
EXTENDS CXIDriverReconcile, TLC

Full == [plugin |-> TRUE, retry |-> TRUE, metrics |-> TRUE, mode |-> "daemonset"]
Sidecar == [Full EXCEPT !.mode = "sidecar"]
Bare == [Full EXCEPT !.plugin = FALSE, !.retry = FALSE, !.metrics = FALSE]

WithSidecar == {Full, Sidecar}
\* Adding the finalizer makes another generation of the second.
SidecarOrFull == {Full, [Sidecar EXCEPT !.plugin = FALSE]}
WithDisabled == {Full, Bare}
\* No guard and none of the properties of the safety runs reads asked.
SafetyView == <<obj, ds, wh, cobj, cds, cwh, queued, work, faults>>
=============================================================================
