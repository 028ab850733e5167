---------------------------- MODULE MCIndexSync ----------------------------
(* The instances of IndexSync that TLC checks.                             *)
EXTENDS IndexSync, TLC

CONSTANTS p1, p2, plain, linked, bad

MCProcs == {p1, p2}

\* An entry without edges, one with an edge, and a file that does not parse.
MCContents == {plain, linked, bad}
MCUnreadable == {bad}
MCArity == [c \in MCContents |-> IF c = linked THEN 1 ELSE 0]

\* The progress run needs no more than one content.
MCOneContent == {linked}
MCOneArity == [c \in MCOneContent |-> 1]

MCSymmetry == Permutations(MCProcs)
=============================================================================
