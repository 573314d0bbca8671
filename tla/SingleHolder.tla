---------------------------- MODULE SingleHolder ----------------------------
(***************************************************************************)
(* What a singleton promises, however it is kept: there is one holder at   *)
(* most, and another comes after it only when it has let go.               *)
(***************************************************************************)
CONSTANT Drivers

VARIABLE holders  \* the drivers that the operator manages

Init == holders = {}

Acquire(d) == holders = {} /\ holders' = {d}

Release(d) == holders = {d} /\ holders' = {}

Next == \E d \in Drivers : Acquire(d) \/ Release(d)

Spec == Init /\ [][Next]_holders
=============================================================================
