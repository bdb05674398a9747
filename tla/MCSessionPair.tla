--------------------------- MODULE MCSessionPair ---------------------------
(* SessionPair for TLC: the ratchet keys that damage puts into headers.    *)
EXTENDS SessionPairInvariant

(* A key the peer has not made yet, and one nobody ever makes.             *)
LikelyKeys == {RatchetKey(Alice, 1), RatchetKey(Bob, 9)}
=============================================================================
