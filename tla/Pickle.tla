------------------------------- MODULE Pickle -------------------------------
(***************************************************************************)
(* The pickle primitives (src/pickle.cpp, include/olm/pickle.hh) and what  *)
(* the C interface adds (src/olm.cpp).  A pickle is the sequence of the    *)
(* items the writer wrote, each a number, a flag, a key or one entry of a  *)
(* list; a pickle that was cut short may end in part of an item.           *)
(*                                                                         *)
(* A reader has a position, counted from 1, in place of the C++ pointer;   *)
(* each read returns the next position, or NULL (nullptr) when what is     *)
(* left is too short, and once NULL the position stays so.                 *)
(***************************************************************************)
EXTENDS Integers, Sequences, OlmList

NULL == 0

Whole(items) == [items |-> items, partial |-> FALSE]

(* What is left of a pickle that is cut behind n items, or within the next.*)
CutAt(pickle, n, partial) == [items |-> SubSeq(pickle.items, 1, n), partial |-> partial]
Cuts(pickle) ==
    {CutAt(pickle, n, partial) : n \in 0 .. Len(pickle.items) - 1, partial \in BOOLEAN}

Extended(pickle, item) == [pickle EXCEPT !.items = Append(@, item)]

(* Where the items end: unpickle()'s end, unless part of an item follows.  *)
End(pickle) == Len(pickle.items) + 1

Available(pickle, pos, count) == pos # NULL /\ pos + count <= End(pickle)

(* unpickle() of count items that are not lists.                           *)
After(pickle, pos, count) == IF Available(pickle, pos, count) THEN pos + count ELSE NULL

-----------------------------------------------------------------------------
(* Lists.                                                                  *)
PickleList(list) == <<Len(list)>> \o list

(* The entries unpickle() reads: as many as the size says, or, when the    *)
(* pickle ends before, those that are there.                               *)
EntriesRead(pickle, pos) == Least(pickle.items[pos], End(pickle) - (pos + 1))

AfterList(pickle, pos) ==
    IF ~Available(pickle, pos, 1) THEN NULL
    ELSE IF EntriesRead(pickle, pos) < pickle.items[pos] /\ pickle.partial THEN NULL
    ELSE pos + 1 + EntriesRead(pickle, pos)

(* The list it reads, by insert(list.end()) into an empty list: of a list  *)
(* that is longer than the array the last place is written again and again.*)
ListAt(pickle, pos, max_size) ==
    LET count == EntriesRead(pickle, pos)
    IN  [i \in 1 .. Least(count, max_size) |->
            pickle.items[pos + (IF i = max_size THEN count ELSE i)]]

-----------------------------------------------------------------------------
(* Mutant: what is left over does not matter.                              *)
UnpickleErrorLenient(pickle, pos) ==
    IF pos = NULL THEN "OLM_CORRUPTED_PICKLE" ELSE "OLM_SUCCESS"

(* olm_unpickle_account() and its like: the error when unpickle() leaves   *)
(* off at pos with no error code of its own.                               *)
UnpickleError(pickle, pos) ==
    IF pos = NULL THEN "OLM_CORRUPTED_PICKLE"
    ELSE IF pos # End(pickle) \/ pickle.partial THEN "OLM_PICKLE_EXTRA_DATA"
    ELSE "OLM_SUCCESS"
=============================================================================
