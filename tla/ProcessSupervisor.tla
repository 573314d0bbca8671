------------------------- MODULE ProcessSupervisor -------------------------
(***************************************************************************)
(* What a supervisor of one process per device promises to those who start *)
(* and stop it and read its status, whatever goroutines it is made of:     *)
(*                                                                         *)
(*   - a device has at most one process, and the next one is started only  *)
(*     when the end of the last one has been taken notice of;              *)
(*   - a device is reported as running only between the start of a process *)
(*     and the notice of its end;                                          *)
(*   - once the supervisor is being closed, at most one more process is    *)
(*     started for a device;                                               *)
(*   - closed, it has no process, reports none and starts none.            *)
(***************************************************************************)
CONSTANT Devices

VARIABLES
    process,   \* each device's process: none, alive, or ended and not noticed yet
    reported,  \* the devices reported as running
    phase,     \* open, closing or closed
    spare      \* the devices that may be started once more when it is closing

vars == <<process, reported, phase, spare>>

Init ==
    /\ process = [d \in Devices |-> "none"]
    /\ reported = {}
    /\ phase = "open"
    /\ spare = Devices

MayStart(d) == phase = "open" \/ (phase = "closing" /\ d \in spare)

Start(d) ==
    /\ process[d] = "none" /\ MayStart(d)
    /\ process' = [process EXCEPT ![d] = "alive"]
    /\ spare' = IF phase = "open" THEN spare ELSE spare \ {d}
    /\ UNCHANGED <<reported, phase>>

\* The process could not be started.
FailToStart(d) ==
    /\ process[d] = "none" /\ phase # "closed"
    /\ process' = [process EXCEPT ![d] = "ended"]
    /\ UNCHANGED <<reported, phase, spare>>

Report(d) ==
    /\ process[d] # "none"
    /\ reported' = reported \cup {d}
    /\ UNCHANGED <<process, phase, spare>>

End(d) ==
    /\ process[d] = "alive"
    /\ process' = [process EXCEPT ![d] = "ended"]
    /\ UNCHANGED <<reported, phase, spare>>

Notice(d) ==
    /\ process[d] = "ended"
    /\ process' = [process EXCEPT ![d] = "none"]
    /\ reported' = reported \ {d}
    /\ UNCHANGED <<phase, spare>>

Close ==
    /\ phase = "open"
    /\ phase' = "closing"
    /\ UNCHANGED <<process, reported, spare>>

Closed ==
    /\ phase = "closing"
    /\ process = [d \in Devices |-> "none"] /\ reported = {}
    /\ phase' = "closed"
    /\ UNCHANGED <<process, reported, spare>>

Next ==
    \/ \E d \in Devices :
          Start(d) \/ FailToStart(d) \/ Report(d) \/ End(d) \/ Notice(d)
    \/ Close \/ Closed

Spec == Init /\ [][Next]_vars
=============================================================================
