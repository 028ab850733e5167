---------------------------- MODULE MCLocalStore ----------------------------
(* The instance of LocalStore that TLC checks.  Inodes are not symmetric:  *)
(* CreateTemp picks one.                                                   *)
EXTENDS LocalStore, TLC

CONSTANTS p1, p2, i1, i2, v1, v2

MCProcs  == {p1, p2}
MCIds    == {i1, i2}
MCValues == {v1, v2}

MCSymmetry == Permutations(MCProcs) \cup Permutations(MCIds) \cup Permutations(MCValues)
=============================================================================
