-------------------------------- MODULE MCApp --------------------------------
(* App with small constants for TLC.                                       *)
EXTENDS App, TLC

CONSTANTS p1, p2

MCPassword == {p1, p2}
Symmetry == Permutations(MCPassword)
=============================================================================
