------------------------------ MODULE OlmList ------------------------------
(***************************************************************************)
(* olm::List<T, max_size> (include/olm/list.hh): the fixed-capacity array  *)
(* in which the library keeps receiver chains, skipped message keys and    *)
(* one-time keys.  Inserting into a full list silently discards its end.   *)
(* A list is a sequence; the position pos of the C++ pointer is the index  *)
(* counted from 1, so begin() is 1 and end() is Len(list) + 1.             *)
(***************************************************************************)
EXTENDS Integers, Sequences

Least(a, b) == IF a < b THEN a ELSE b

(* erase(pos): the items behind pos move one place down.                   *)
ListErase(list, pos) ==
    [i \in 1 .. Len(list) - 1 |-> IF i < pos THEN list[i] ELSE list[i + 1]]

(* Mutant: a full list keeps its end and loses the item at pos.            *)
ListInsertOverFirst(list, pos, value, max_size) ==
    [i \in 1 .. Least(Len(list) + 1, max_size) |->
        IF i = pos THEN value
        ELSE IF i < pos \/ Len(list) = max_size THEN list[i] ELSE list[i - 1]]

(* insert(pos, value): the items from pos on move one place up, the last   *)
(* one falling off a full list; end() of a full list is its last place.    *)
ListInsert(list, pos, value, max_size) ==
    LET at == IF Len(list) = max_size /\ pos = Len(list) + 1 THEN Len(list) ELSE pos
    IN  [i \in 1 .. Least(Len(list) + 1, max_size) |->
            IF i < at THEN list[i] ELSE IF i = at THEN value ELSE list[i - 1]]

(* Mutant: the capacity is not looked at.                                  *)
ListInsertAllUnbounded(news, list, max_size) == news \o list

(* insert() called at begin() once for every item of news, the last item   *)
(* first, so that the list starts with news.                               *)
ListInsertAll(news, list, max_size) ==
    [i \in 1 .. Least(Len(news) + Len(list), max_size) |->
        IF i <= Len(news) THEN news[i] ELSE list[i - Len(news)]]
=============================================================================
