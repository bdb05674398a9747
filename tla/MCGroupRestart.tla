--------------------------- MODULE MCGroupRestart ---------------------------
(* GroupRestart for TLC: the members can be told apart by nothing.         *)
EXTENDS GroupRestart, TLC

Symmetry == Permutations(Members)
=============================================================================
