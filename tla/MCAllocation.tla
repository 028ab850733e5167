---------------------------- MODULE MCAllocation ----------------------------
(* The instance of Allocation that TLC checks.                             *)
EXTENDS Allocation

\* Number 1 of a decision may be free below a used 2: a gap, not just a tail.
MCInitialIds == {<<"dec", 2>>, <<"note", 1>>}
=============================================================================
