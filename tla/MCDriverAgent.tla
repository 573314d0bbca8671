--------------------------- MODULE MCDriverAgent ---------------------------
(***************************************************************************)
(* Instances of DriverAgent for TLC.                                       *)
(***************************************************************************)
EXTENDS DriverAgent, TLC

CONSTANTS cxi0, cxi1, s1, s2, a1, a2

\* The devices are told apart by the choice of the one an idle agent has.
Symmetry == Permutations(Agents)
=============================================================================
