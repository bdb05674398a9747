--------------------------- MODULE MCMessageCodec ---------------------------
(* Keys and ciphertexts that look like fields themselves, one so long that *)
(* its length takes two bytes, the first of them of no more than zeros; and*)
(* fields of later versions: a number, a string, one with a longer tag.    *)
EXTENDS MessageCodec

MCTrailerLength == [message |-> 2, pre_key |-> 0, group |-> 3]
MCStrings == {<<34>>, <<10, 1, 18, 3>>, <<34>> \o [i \in 1 .. 127 |-> 18]}
MCKeys == {<<26, 3>>, <<16, 128>>}
MCUnknownFields == {<<48, 133, 1>>, <<50, 2, 34, 1>>, <<130, 1, 1, 18>>}
=============================================================================
