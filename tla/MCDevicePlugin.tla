-------------------------- MODULE MCDevicePlugin --------------------------
(***************************************************************************)
(* Instances of DevicePlugin for TLC.                                      *)
(***************************************************************************)
EXTENDS DevicePlugin, TLC

CONSTANTS cxi0, cxi1, slot0, slot1, p1, p2, pod1, pod2, pod3

Symmetry == Permutations(Devices) \cup Permutations(Slots) \cup Permutations(Pods)
=============================================================================
