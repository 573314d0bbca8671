---------------------------- MODULE MCSingleton ----------------------------
(***************************************************************************)
(* Instances of CXIDriverSingleton for TLC.                                *)
(***************************************************************************)
EXTENDS CXIDriverSingleton, TLC

CONSTANTS d1, d2, o1, o2

\* d1 is created again under its name, d2 is not.
OneReused == [d \in Drivers |-> IF d = d1 THEN 2 ELSE 1]
NoneReused == [d \in Drivers |-> 1]

Symmetry == Permutations(Operators)

\* No guard and no safety property reads the status: states that differ in it
\* alone are one state to the safety runs.
SafetyView == <<drv, cm, ds, cache, ccm, cds, queue, work, faults>>
=============================================================================
