----------------------- MODULE MCPreferredAllocation -----------------------
(***************************************************************************)
(* Instances of PreferredAllocation for TLC.                               *)
(***************************************************************************)
EXTENDS PreferredAllocation

CONSTANTS cxi0, cxi1, cxi2, cxi3

Symmetry == Permutations(Devices)
=============================================================================
