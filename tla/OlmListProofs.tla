--------------------------- MODULE OlmListProofs ---------------------------
(***************************************************************************)
(* What the operations of olm::List return: a list within its capacity,    *)
(* and which item is where; and facts about pickles that are whole, cut    *)
(* short or too long.                                                      *)
(***************************************************************************)
EXTENDS Pickle, SequenceTheorems, TLAPS

(* A function on 1 .. n is a sequence of length n.                         *)
LEMMA FunctionIsSeq ==
    ASSUME NEW S, NEW n \in Nat, NEW f \in [1 .. n -> S]
    PROVE  f \in Seq(S) /\ Len(f) = n /\ DOMAIN f = 1 .. n
<1>1. f \in Seq(S)
    BY SeqDef
<1>2. Len(f) = n
    BY <1>1, LenProperties
<1> QED
    BY <1>1, <1>2

(* List::erase (list.hh): the item at pos is gone, the order is kept.      *)
LEMMA ListEraseItems ==
    ASSUME NEW S, NEW list \in Seq(S), NEW pos \in 1 .. Len(list)
    PROVE  /\ ListErase(list, pos) \in Seq(S)
           /\ Len(ListErase(list, pos)) = Len(list) - 1
           /\ \A i \in 1 .. Len(list) - 1 :
                 ListErase(list, pos)[i] = IF i < pos THEN list[i] ELSE list[i + 1]
<1> DEFINE e == ListErase(list, pos)
<1>1. Len(list) - 1 \in Nat /\ \A i \in 1 .. Len(list) : list[i] \in S
    BY LenProperties, ElementOfSeq
<1>2. e \in [1 .. Len(list) - 1 -> S]
    BY <1>1 DEF ListErase
<1>3. \A i \in 1 .. Len(list) - 1 : e[i] = IF i < pos THEN list[i] ELSE list[i + 1]
    BY DEF ListErase
<1> QED
    BY <1>1, <1>2, <1>3, FunctionIsSeq

(* List::insert() (list.hh): the new item is first; the list does not      *)
(* outgrow its array, and only its end can be discarded.                   *)
LEMMA ListInsertFrontItems ==
    ASSUME NEW S, NEW list \in Seq(S), NEW value \in S, NEW max \in Nat \ {0},
           Len(list) <= max
    PROVE  LET l == ListInsert(list, 1, value, max) IN
           /\ l \in Seq(S)
           /\ Len(l) \in 1 .. max
           /\ Len(l) <= Len(list) + 1
           /\ l[1] = value
           /\ \A i \in 2 .. Len(l) : l[i] = list[i - 1]
<1> DEFINE l == ListInsert(list, 1, value, max)
           n == Least(Len(list) + 1, max)
<1>1. Len(list) \in Nat /\ \A i \in 1 .. Len(list) : list[i] \in S
    BY LenProperties, ElementOfSeq
<1>2. n \in Nat /\ n <= Len(list) + 1 /\ n <= max /\ n >= 1
    BY <1>1 DEF Least
<1>3. l = [i \in 1 .. n |-> IF i = 1 THEN value ELSE list[i - 1]]
    BY <1>1 DEF ListInsert
<1>4. l \in [1 .. n -> S]
    BY <1>1, <1>2, <1>3
<1>5. l \in Seq(S) /\ Len(l) = n
    BY <1>2, <1>4, FunctionIsSeq
<1>6. \A i \in 1 .. n : l[i] = IF i = 1 THEN value ELSE list[i - 1]
    BY <1>3
<1> HIDE DEF l, n
<1>7. l[1] = value /\ \A i \in 2 .. n : l[i] = list[i - 1]
    BY <1>2, <1>6
<1> QED
    BY <1>1, <1>2, <1>5, <1>7 DEF l

(* It gives up an item only when the array is full.                        *)
LEMMA ListInsertFrontLength ==
    ASSUME NEW S, NEW list \in Seq(S), NEW value \in S, NEW max \in Nat \ {0},
           Len(list) <= max
    PROVE  Len(ListInsert(list, 1, value, max)) =
              IF Len(list) < max THEN Len(list) + 1 ELSE max
<1> DEFINE l == ListInsert(list, 1, value, max)
           n == Least(Len(list) + 1, max)
<1>1. Len(list) \in Nat /\ \A i \in 1 .. Len(list) : list[i] \in S
    BY LenProperties, ElementOfSeq
<1>2. n \in Nat /\ n <= Len(list) + 1 /\ n = IF Len(list) < max THEN Len(list) + 1 ELSE max
    BY <1>1 DEF Least
<1>3. l = [i \in 1 .. n |-> IF i = 1 THEN value ELSE list[i - 1]]
    BY <1>1 DEF ListInsert
<1>4. l \in [1 .. n -> S]
    BY <1>1, <1>2, <1>3
<1>5. Len(l) = n
    BY <1>2, <1>4, FunctionIsSeq
<1> QED
    BY <1>2, <1>5

(* Repeated insert(): the new items come first, in their order.            *)
LEMMA ListInsertAllItems ==
    ASSUME NEW S, NEW list \in Seq(S), NEW news \in Seq(S), NEW max \in Nat
    PROVE  LET l == ListInsertAll(news, list, max) IN
           /\ l \in Seq(S)
           /\ Len(l) <= max
           /\ Len(l) <= Len(news) + Len(list)
           /\ \A i \in 1 .. Len(l) :
                 l[i] = IF i <= Len(news) THEN news[i] ELSE list[i - Len(news)]
<1> DEFINE l == ListInsertAll(news, list, max)
           n == Least(Len(news) + Len(list), max)
<1>1. /\ Len(list) \in Nat /\ \A i \in 1 .. Len(list) : list[i] \in S
      /\ Len(news) \in Nat /\ \A i \in 1 .. Len(news) : news[i] \in S
    BY LenProperties, ElementOfSeq
<1>2. n \in Nat /\ n <= Len(news) + Len(list) /\ n <= max
    BY <1>1 DEF Least
<1>3. l = [i \in 1 .. n |-> IF i <= Len(news) THEN news[i] ELSE list[i - Len(news)]]
    BY DEF ListInsertAll
<1>4. l \in [1 .. n -> S]
    BY <1>1, <1>2, <1>3
<1>5. l \in Seq(S) /\ Len(l) = n
    BY <1>2, <1>4, FunctionIsSeq
<1>6. \A i \in 1 .. n : l[i] = IF i <= Len(news) THEN news[i] ELSE list[i - Len(news)]
    BY <1>3
<1> HIDE DEF l, n
<1> QED
    BY <1>2, <1>5, <1>6 DEF l

(* Nothing is cut off while there is room.                                 *)
LEMMA ListInsertAllLength ==
    ASSUME NEW S, NEW list \in Seq(S), NEW news \in Seq(S), NEW max \in Nat,
           Len(news) + Len(list) <= max
    PROVE  Len(ListInsertAll(news, list, max)) = Len(news) + Len(list)
<1> DEFINE l == ListInsertAll(news, list, max)
           n == Len(news) + Len(list)
<1>1. /\ Len(list) \in Nat /\ \A i \in 1 .. Len(list) : list[i] \in S
      /\ Len(news) \in Nat /\ \A i \in 1 .. Len(news) : news[i] \in S
    BY LenProperties, ElementOfSeq
<1>2. n \in Nat /\ Least(n, max) = n
    BY <1>1 DEF Least
<1>3. l = [i \in 1 .. n |-> IF i <= Len(news) THEN news[i] ELSE list[i - Len(news)]]
    BY <1>2 DEF ListInsertAll
<1>4. l \in [1 .. n -> S]
    BY <1>1, <1>2, <1>3
<1>5. Len(l) = n
    BY <1>2, <1>4, FunctionIsSeq
<1> QED
    BY <1>5

-----------------------------------------------------------------------------
(* Pickles.                                                                *)

(* z is v, and w behind it.                                                *)
Join(z, v, w, T) ==
    /\ z \in Seq(T) /\ Len(z) = Len(v) + Len(w)
    /\ \A i \in 1 .. Len(v) : z[i] = v[i]
    /\ \A i \in 1 .. Len(w) : z[Len(v) + i] = w[i]

LEMMA JoinedItems ==
    ASSUME NEW T, NEW v \in Seq(T), NEW w \in Seq(T)
    PROVE  Join(v \o w, v, w, T)
<1> DEFINE z == v \o w
<1>1. Len(v) \in Nat /\ Len(w) \in Nat
    BY LenProperties
<1>2. /\ z \in Seq(T) /\ Len(z) = Len(v) + Len(w)
      /\ \A i \in 1 .. Len(v) + Len(w) : z[i] = IF i <= Len(v) THEN v[i] ELSE w[i - Len(v)]
    BY ConcatProperties
<1> HIDE DEF z
<1>3. ASSUME NEW i \in 1 .. Len(v) PROVE z[i] = v[i]
    BY <1>1, <1>2
<1>4. ASSUME NEW i \in 1 .. Len(w) PROVE z[Len(v) + i] = w[i]
    <2> DEFINE k == Len(v) + i
    <2>1. k \in 1 .. Len(v) + Len(w) /\ ~(k <= Len(v)) /\ k - Len(v) = i
        BY <1>1
    <2> HIDE DEF k
    <2>2. z[k] = w[k - Len(v)]
        BY <1>2, <2>1
    <2> QED
        BY <2>1, <2>2 DEF k
<1> QED
    BY <1>2, <1>3, <1>4 DEF Join, z

LEMMA CutFacts ==
    ASSUME NEW T, NEW p, p.items \in Seq(T), NEW cut \in Cuts(p)
    PROVE  /\ Len(cut.items) \in Nat /\ Len(cut.items) < Len(p.items)
           /\ \A i \in 1 .. Len(cut.items) : cut.items[i] = p.items[i]
<1>1. PICK n \in 0 .. Len(p.items) - 1 : \E partial \in BOOLEAN : cut = CutAt(p, n, partial)
    BY DEF Cuts
<1>2. Len(p.items) \in Nat /\ n \in Nat /\ n < Len(p.items)
    BY LenProperties
<1>3. ASSUME NEW partial PROVE CutAt(p, n, partial).items = SubSeq(p.items, 1, n)
    BY DEF CutAt
<1>4. cut.items = SubSeq(p.items, 1, n)
    BY <1>1, <1>3
<1>5. /\ Len(SubSeq(p.items, 1, n)) = n
      /\ \A i \in 1 .. n : SubSeq(p.items, 1, n)[i] = p.items[i]
    BY <1>2
<1> QED
    BY <1>2, <1>4, <1>5

LEMMA ExtendedFacts ==
    ASSUME NEW T, NEW items \in Seq(T), NEW item \in T
    PROVE  /\ Len(Extended(Whole(items), item).items) = Len(items) + 1
           /\ \A i \in 1 .. Len(items) : Extended(Whole(items), item).items[i] = items[i]
<1> DEFINE more == Append(items, item)
<1>1. Len(more) = Len(items) + 1 /\ \A i \in 1 .. Len(items) : more[i] = items[i]
    BY AppendProperties, LenProperties
<1> HIDE DEF more
<1>2. ASSUME NEW partial
      PROVE  [[items |-> items, partial |-> partial] EXCEPT !.items = more].items = more
    OBVIOUS
<1>3. Extended(Whole(items), item) = [[items |-> items, partial |-> FALSE] EXCEPT !.items = more]
    BY DEF Extended, Whole, more
<1>4. Extended(Whole(items), item).items = more
    BY <1>2, <1>3
<1> QED
    BY <1>1, <1>4

LEMMA ErrorAt ==
    ASSUME NEW p, NEW pos, pos = NULL \/ pos # End(p)
    PROVE  UnpickleError(p, pos) # "OLM_SUCCESS"
BY DEF UnpickleError

LEMMA AfterAt ==
    ASSUME NEW p, NEW n \in Nat, Len(p.items) = n, NEW pos \in Nat \ {0}, NEW count \in Nat
    PROVE  /\ End(p) = n + 1
           /\ pos + count <= n + 1 => After(p, pos, count) = pos + count
           /\ ~(pos + count <= n + 1) => After(p, pos, count) = NULL
BY DEF After, Available, End, NULL
=============================================================================
