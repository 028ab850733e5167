------------------------------ MODULE MCDistill ------------------------------
(* The instances of Distill that TLC checks.                               *)
EXTENDS Distill

MCIds == 1..2
=============================================================================
