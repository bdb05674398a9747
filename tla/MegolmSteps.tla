---------------------------- MODULE MegolmSteps ----------------------------
(***************************************************************************)
(* One Megolm ratchet moved on by megolm_advance() and megolm_advance_to() *)
(* in any mixture, past the point where its counter wraps.                 *)
(***************************************************************************)
EXTENDS Megolm

CONSTANT MaxSteps       \* bound: single steps in all

ASSUME StepsAssumption == MaxSteps \in Nat

VARIABLES
    megolm,             \* the ratchet
    steps               \* the single steps it is away from its start

stepsvars == <<megolm, steps>>

StepsInit ==
    /\ megolm = MegolmInit(RandomData, 0)
    /\ steps = 0

Advance ==
    /\ steps < MaxSteps
    /\ megolm' = MegolmAdvance(megolm)
    /\ steps' = steps + 1

AdvanceTo(advance_to) ==
    /\ steps' = steps + ((advance_to - megolm.counter) % Modulus)
    /\ steps' <= MaxSteps
    /\ megolm' = MegolmAdvanceTo(megolm, advance_to)

StepsNext == Advance \/ \E advance_to \in 0 .. Modulus - 1 : AdvanceTo(advance_to)

StepsSpec == StepsInit /\ [][StepsNext]_stepsvars
-----------------------------------------------------------------------------
(* The ratchet after n steps, in closed form.  Digit j of n counts how     *)
(* often R(j) was hashed since it was last derived from an earlier part,   *)
(* the one with the last nonzero digit before j, as it was one step of     *)
(* that digit ago.  The first digit never wraps.                           *)
Digit(n, j) == IF j = 0 THEN n \div Unit(0) ELSE (n \div Unit(j)) % PART_BASE

Value(n) ==
    LET Source(j) == {h \in 0 .. j - 1 : Digit(n, h) # 0 /\ \A i \in h + 1 .. j - 1 : Digit(n, i) = 0}
        before[j \in Parts] ==    \* R(j) one step of its digit ago
            IF Source(j) = {}
            THEN Rehash(RandomData[j], j, Digit(n, j) - 1)
            ELSE Rehash(before[CHOOSE h \in Source(j) : TRUE], j, Digit(n, j))
    IN  [j \in Parts |->
            IF Source(j) = {}
            THEN Rehash(RandomData[j], j, Digit(n, j))
            ELSE Rehash(before[CHOOSE h \in Source(j) : TRUE], j, Digit(n, j) + 1)]

(* The ratchet's value depends on its index alone: however a member gets   *)
(* there, by single steps or by jumps, across the wrap or not, it gets the *)
(* keys the sender used.                                                   *)
IndexDeterminesValue ==
    megolm = [data |-> Value(steps), counter |-> steps % Modulus]
=============================================================================
