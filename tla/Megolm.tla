------------------------------- MODULE Megolm -------------------------------
(***************************************************************************)
(* The Megolm ratchet (src/megolm.c): a counter and the parts R(0) ..      *)
(* R(3), of which R(j) is hashed anew whenever digit j of the counter      *)
(* changes, the later ones being derived from it.  Operators on a ratchet  *)
(* value [data, counter].                                                  *)
(*                                                                         *)
(* A part is symbolic: the random part it started from and the seeds it    *)
(* was hashed with since.  A digit of the counter has PART_BASE values     *)
(* (256, one byte), so that the counter wraps at Modulus (2^32).           *)
(***************************************************************************)
EXTENDS Integers, Sequences

CONSTANTS
    MEGOLM_RATCHET_PARTS,       \* parts of the ratchet (4)
    PART_BASE                   \* values of one digit of the counter (256)

ASSUME MegolmAssumption ==
    /\ MEGOLM_RATCHET_PARTS \in Nat \ {0}
    /\ PART_BASE \in Nat \ {0, 1}

Parts == 0 .. MEGOLM_RATCHET_PARTS - 1

(* PART_BASE^n: the values of n digits.                                    *)
Power[n \in 0 .. MEGOLM_RATCHET_PARTS] == IF n = 0 THEN 1 ELSE PART_BASE * Power[n - 1]

(* Steps of the counter between two changes of digit j: 1 << shift.        *)
Unit(j) == Power[MEGOLM_RATCHET_PARTS - 1 - j]
Modulus == Power[MEGOLM_RATCHET_PARTS]

(* The ratchet values there are.                                           *)
PartValues == [random : Parts, hashes : Seq(Int)]
Datas == [Parts -> PartValues]
Megolms == [data : Datas, counter : 0 .. Modulus - 1]

RandomData == [j \in Parts |-> [random |-> j, hashes |-> <<>>]]

MegolmInit(data, counter) == [data |-> data, counter |-> counter]

(* rehash_part(): times applications to the part itself ...                *)
Rehash(part, seed, times) ==
    [part EXCEPT !.hashes = @ \o [i \in 1 .. times |-> seed]]

(* ... and one of part h to itself and every part behind it.               *)
RehashFrom(data, h) ==
    [i \in Parts |-> IF i < h THEN data[i] ELSE Rehash(data[h], i, 1)]

(* Mutant: R(h) itself is not renewed.                                     *)
AdvanceBehind(megolm) ==
    LET counter == (megolm.counter + 1) % Modulus
        h == CHOOSE h \in Parts : /\ counter % Unit(h) = 0
                                  /\ \A i \in 0 .. h - 1 : counter % Unit(i) # 0
    IN  [data |-> [RehashFrom(megolm.data, h) EXCEPT ![h] = megolm.data[h]],
         counter |-> counter]

(* megolm_advance(): R(h) is the first part whose digit changes, that is,  *)
(* behind whose digit the counter is all zero.                             *)
MegolmAdvance(megolm) ==
    LET counter == (megolm.counter + 1) % Modulus
        h == CHOOSE h \in Parts : /\ counter % Unit(h) = 0
                                  /\ \A i \in 0 .. h - 1 : counter % Unit(i) # 0
    IN  [data |-> RehashFrom(megolm.data, h), counter |-> counter]

(* Mutant: a target behind the counter is not seen to have wrapped.        *)
AdvancePartNoWrap(megolm, j, advance_to) ==
    LET steps == (advance_to \div Unit(j) - megolm.counter \div Unit(j)) % PART_BASE
    IN  IF steps = 0 THEN megolm
        ELSE [data |-> RehashFrom([megolm.data EXCEPT ![j] = Rehash(@, j, steps - 1)], j),
              counter |-> advance_to - (advance_to % Unit(j))]

(* One round of megolm_advance_to(): part j is hashed as often as its      *)
(* digit steps, the last time along with the parts behind it.              *)
AdvancePart(megolm, j, advance_to) ==
    LET digits == (advance_to \div Unit(j) - megolm.counter \div Unit(j)) % PART_BASE
        steps == IF digits = 0 /\ advance_to < megolm.counter THEN PART_BASE ELSE digits
    IN  IF steps = 0 THEN megolm
        ELSE [data |-> RehashFrom([megolm.data EXCEPT ![j] = Rehash(@, j, steps - 1)], j),
              counter |-> advance_to - (advance_to % Unit(j))]

MegolmAdvanceTo(megolm, advance_to) ==
    LET after[j \in 0 .. MEGOLM_RATCHET_PARTS] ==
            IF j = 0 THEN megolm ELSE AdvancePart(after[j - 1], j - 1, advance_to)
    IN  after[MEGOLM_RATCHET_PARTS]

(* Whoever holds data can compute target.                                  *)
Derivable(data, target) ==
    \A j \in Parts : \E i \in Parts :
        /\ data[i].random = target[j].random
        /\ Len(data[i].hashes) <= Len(target[j].hashes)
        /\ SubSeq(target[j].hashes, 1, Len(data[i].hashes)) = data[i].hashes
=============================================================================
