--------------------------- MODULE MCSupersession ---------------------------
(* The instances of Supersession that TLC checks.                          *)
EXTENDS Supersession, TLC

CONSTANTS p1, p2, d1, d2, d3

MCProcs  == {p1, p2}
MCIds    == {d1, d2, d3}
MCKindOf == [i \in MCIds |-> "decision"]

MCSymmetry == Permutations(MCProcs) \cup Permutations(MCIds)
=============================================================================
