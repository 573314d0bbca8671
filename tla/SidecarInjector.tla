-------------------------- MODULE SidecarInjector --------------------------
(***************************************************************************)
(* The mutating webhook that adds the retry handler to pods that use CXI   *)
(* devices, as a function of the pod it is asked about, and what the added *)
(* container does when it starts.                                          *)
(*                                                                         *)
(* The operator never asks for a native sidecar, so the container is a     *)
(* regular one.                                                            *)
(***************************************************************************)
EXTENDS Naturals

\* What the webhook looks at or changes.
Pod ==
    [inject : {"absent", "true", "false"},     \* annotation inject-retry-handler
     injected : BOOLEAN,                       \* annotation retry-handler-injected
     limits : SUBSET {"container", "init"},    \* which containers ask for devices
     sidecars : 0..2,                          \* containers named cxi-retry-handler
     dev : {"absent", "host", "other"},        \* the volume named dev
     device : BOOLEAN]                         \* the sidecar has --device=cxi0

RequestsCXIDevice(p) == p.limits # {}

ShouldInject(p) == IF p.inject # "absent" THEN p.inject = "true" ELSE RequestsCXIDevice(p)

\* Slip: only the annotation tells.
AlreadyAnnotated(p) == p.injected

AlreadyInjected(p) == p.injected \/ p.sidecars > 0

\* Devices of init containers are not looked for.
FindCXIDevices(p) == p.limits \cap {"container"}

InjectSidecar(p) ==
    [p EXCEPT !.injected = TRUE,
              !.sidecars = @ + 1,
              !.dev = IF @ = "absent" THEN "host" ELSE @,
              !.device = FindCXIDevices(p) # {}]

Handle(p) == IF ShouldInject(p) /\ ~AlreadyInjected(p) THEN InjectSidecar(p) ELSE p

\* The sidecar is a retry handler of one device, which has to be named and to be there.
SidecarRuns(p) == p.sidecars > 0 /\ p.device /\ p.dev = "host"
=============================================================================
