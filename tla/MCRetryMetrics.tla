--------------------------- MODULE MCRetryMetrics ---------------------------
(***************************************************************************)
(* Instances of RetryMetrics for TLC.                                      *)
(***************************************************************************)
EXTENDS RetryMetrics, TLC

CONSTANTS cxi0, cxi1

Symmetry == Permutations(Devices)
=============================================================================
