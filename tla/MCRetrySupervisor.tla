------------------------- MODULE MCRetrySupervisor -------------------------
(***************************************************************************)
(* Instances of RetrySupervisor for TLC.                                   *)
(***************************************************************************)
EXTENDS RetrySupervisor, TLC

CONSTANTS cxi0, cxi1, cxi2

Symmetry == Permutations(Devices)
=============================================================================
