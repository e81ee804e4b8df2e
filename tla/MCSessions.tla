----------------------------- MODULE MCSessions -----------------------------
(* Instances of Sessions for TLC.                                           *)
EXTENDS Sessions, TLC
CONSTANTS t1, t2, t3
TabSymmetry == Permutations(Tabs)
=============================================================================
