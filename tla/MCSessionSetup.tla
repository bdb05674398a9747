--------------------------- MODULE MCSessionSetup ---------------------------
(* SessionSetup for TLC: the initiators can be exchanged.                  *)
EXTENDS SessionSetup, TLC

Symmetry == Permutations(Initiators)
=============================================================================
