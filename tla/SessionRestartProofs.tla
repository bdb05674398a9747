------------------------ MODULE SessionRestartProofs ------------------------
(***************************************************************************)
(* Devices that stop and start again implement the pair of sessions that   *)
(* never stops: SessionRestart implements SessionPair, for every value of  *)
(* the constants; a ratchet key that was not saved is nowhere else; a      *)
(* pickle is read whole or not at all, but for lost skipped keys; and what *)
(* is proved of SessionPair holds of the sessions as they are stored.      *)
(***************************************************************************)
EXTENDS SessionRestart, OlmListProofs

-----------------------------------------------------------------------------
(* What is written is read again.                                          *)

(* A list, of whatever, within its capacity; a ratchet, and a session,     *)
(* that can be stored.                                                     *)
IsList(list, max) == (\E S : list \in Seq(S)) /\ Len(list) <= max

Indexed(chains) == \A i \in 1 .. Len(chains) : chains[i].chain_key.index \in Nat

RatchetOk(r) ==
    /\ r \in [root_key : {r.root_key}, sender_chain : {r.sender_chain},
              receiver_chains : {r.receiver_chains},
              skipped_message_keys : {r.skipped_message_keys}]
    /\ IsList(r.sender_chain, 1) /\ Indexed(r.sender_chain)
    /\ IsList(r.receiver_chains, MAX_RECEIVER_CHAINS) /\ Indexed(r.receiver_chains)
    /\ IsList(r.skipped_message_keys, MAX_SKIPPED_MESSAGE_KEYS)

Storable(s) ==
    /\ s \in [received_message : BOOLEAN, alice_identity_key : {s.alice_identity_key},
              alice_base_key : {s.alice_base_key}, bob_one_time_key : {s.bob_one_time_key},
              bob_prekey : {s.bob_prekey}, ratchet : {s.ratchet}]
    /\ RatchetOk(s.ratchet)

(* Items one behind the other are where they are expected.                 *)
LEMMA Behind ==
    ASSUME NEW T, NEW x \in Seq(T), NEW y \in Seq(T)
    PROVE  /\ x \o y \in Seq(T)
           /\ Len(x \o y) = Len(x) + Len(y)
           /\ \A k \in 1 .. Len(x) + Len(y) :
                 (x \o y)[k] = IF k <= Len(x) THEN x[k] ELSE y[k - Len(x)]
BY ConcatProperties

(* A list is behind what was written before it, its length first.          *)
FollowedBy(z, x, list, T) ==
    /\ z \in Seq(T)
    /\ Len(z) = Len(x) + 1 + Len(list)
    /\ \A k \in 1 .. Len(x) + 1 + Len(list) :
          z[k] = IF k <= Len(x) THEN x[k]
                 ELSE IF k = Len(x) + 1 THEN Len(list) ELSE list[k - (Len(x) + 1)]

LEMMA ListBehind ==
    ASSUME NEW T, Nat \subseteq T, NEW x \in Seq(T), NEW list \in Seq(T)
    PROVE  FollowedBy(x \o PickleList(list), x, list, T)
<1> DEFINE m == Len(x)
           n == Len(list)
           one == <<n>>
           y == one \o list
           z == x \o y
<1>0. m \in Nat /\ n \in Nat
    BY LenProperties
<1>1. one \in Seq(T) /\ Len(one) = 1 /\ one[1] = n
  <2>1. n \in T
    BY <1>0
  <2> HIDE DEF n
  <2> QED
    BY <2>1
<1> HIDE DEF one
<1>2. /\ y \in Seq(T) /\ Len(y) = Len(one) + Len(list)
      /\ \A k \in 1 .. Len(one) + Len(list) :
            y[k] = IF k <= Len(one) THEN one[k] ELSE list[k - Len(one)]
    BY <1>1, Behind
<1> HIDE DEF y
<1>3. /\ z \in Seq(T) /\ Len(z) = Len(x) + Len(y)
      /\ \A k \in 1 .. Len(x) + Len(y) : z[k] = IF k <= Len(x) THEN x[k] ELSE y[k - Len(x)]
  <2>1. y \in Seq(T)
    BY <1>2
  <2> QED
    BY <2>1, Behind
<1>4. x \o PickleList(list) = z
    BY DEF PickleList, y, one
<1> HIDE DEF z
<1>5. /\ \A k \in 1 .. 1 + n : y[k] = IF k <= 1 THEN one[k] ELSE list[k - 1]
      /\ \A k \in 1 .. m + (1 + n) : z[k] = IF k <= m THEN x[k] ELSE y[k - m]
      /\ Len(z) = m + 1 + n
    BY <1>0, <1>1, <1>2, <1>3
<1> HIDE DEF m, n
<1>6. ASSUME NEW k \in 1 .. m + 1 + n
      PROVE  z[k] = IF k <= m THEN x[k] ELSE IF k = m + 1 THEN n ELSE list[k - (m + 1)]
  <2>1. z[k] = IF k <= m THEN x[k] ELSE y[k - m]
    BY <1>0, <1>5
  <2>2. k > m => /\ k - m \in 1 .. 1 + n
                 /\ k - m <= 1 <=> k = m + 1
                 /\ k = m + 1 => k - m = 1
                 /\ (k - m) - 1 = k - (m + 1)
    BY <1>0
  <2>3. k > m => y[k - m] = IF k = m + 1 THEN n ELSE list[k - (m + 1)]
    BY <1>1, <1>5, <2>2
  <2> QED
    BY <1>0, <2>1, <2>3
<1>7. FollowedBy(z, x, list, T)
    BY <1>3, <1>5, <1>6 DEF FollowedBy, m, n
<1> QED
    BY <1>4, <1>7

(* The item that is number k of a pickled session, and how many there are. *)
SessionItem(s, version, k) ==
    LET r == s.ratchet
        a == Len(r.sender_chain)
        b == Len(r.receiver_chains)
    IN  IF k = 1 THEN version
        ELSE IF k = 2 THEN s.received_message
        ELSE IF k = 3 THEN s.alice_identity_key
        ELSE IF k = 4 THEN s.alice_base_key
        ELSE IF k = 5 THEN s.bob_one_time_key
        ELSE IF k = 6 THEN s.bob_prekey
        ELSE IF k = 7 THEN r.root_key
        ELSE IF k = 8 THEN a
        ELSE IF k <= 8 + a THEN r.sender_chain[k - 8]
        ELSE IF k = 9 + a THEN b
        ELSE IF k <= 9 + a + b THEN r.receiver_chains[k - (9 + a)]
        ELSE IF k = 10 + a + b THEN Len(r.skipped_message_keys)
        ELSE r.skipped_message_keys[k - (10 + a + b)]

SessionLength(s) ==
    10 + Len(s.ratchet.sender_chain) + Len(s.ratchet.receiver_chains)
       + Len(s.ratchet.skipped_message_keys)

(* Where the number of its skipped keys is.                                *)
SkippedPlace(s) == 10 + Len(s.ratchet.sender_chain) + Len(s.ratchet.receiver_chains)

LEMMA PickledItems ==
    ASSUME NEW s, Storable(s), NEW version
    PROVE  LET items == PickleFields(s, version) \o PickleRatchet(s.ratchet) IN
           /\ \E T : items \in Seq(T)
           /\ Len(items) = SessionLength(s) /\ SessionLength(s) \in Nat
           /\ \A k \in 1 .. SessionLength(s) : items[k] = SessionItem(s, version, k)
<1> DEFINE r == s.ratchet
           sender == r.sender_chain
           receivers == r.receiver_chains
           skipped == r.skipped_message_keys
           a == Len(sender)
           b == Len(receivers)
           c == Len(skipped)
<1>1. PICK S1, S2, S3 : sender \in Seq(S1) /\ receivers \in Seq(S2) /\ skipped \in Seq(S3)
    BY DEF Storable, RatchetOk, IsList
<1> DEFINE F == {version, s.received_message, s.alice_identity_key,
                 s.alice_base_key, s.bob_one_time_key, s.bob_prekey, r.root_key}
           T == ((S1 \cup S2) \cup S3) \cup (Nat \cup F)
           fields == PickleFields(s, version)
           x1 == <<r.root_key>>
           x2 == x1 \o PickleList(sender)
           x3 == x2 \o PickleList(receivers)
           x4 == x3 \o PickleList(skipped)
           items == fields \o x4
<1>2. sender \in Seq(T) /\ receivers \in Seq(T) /\ skipped \in Seq(T)
  <2>1. S1 \subseteq T /\ S2 \subseteq T /\ S3 \subseteq T
    OBVIOUS
  <2> HIDE DEF T, sender, receivers, skipped
  <2> QED
    BY <1>1, <2>1, SeqMonotonic
<1>3. Nat \subseteq T
    OBVIOUS
<1>4. /\ fields \in Seq(T) /\ Len(fields) = 6
      /\ fields[1] = version
      /\ fields[2] = s.received_message
      /\ fields[3] = s.alice_identity_key
      /\ fields[4] = s.alice_base_key
      /\ fields[5] = s.bob_one_time_key
      /\ fields[6] = s.bob_prekey
  <2>1. F \subseteq T
    OBVIOUS
  <2> HIDE DEF T
  <2>2. version \in T /\ s.received_message \in T /\ s.alice_identity_key \in T
        /\ s.alice_base_key \in T /\ s.bob_one_time_key \in T /\ s.bob_prekey \in T
    BY <2>1 DEF F
  <2> HIDE DEF F
  <2>3. fields = <<version, s.received_message, s.alice_identity_key, s.alice_base_key,
                   s.bob_one_time_key, s.bob_prekey>>
    BY DEF PickleFields
  <2> HIDE DEF fields
  <2> QED
    BY <2>2, <2>3
<1>5. x1 \in Seq(T) /\ Len(x1) = 1 /\ x1[1] = r.root_key
  <2>1. r.root_key \in T
    OBVIOUS
  <2> HIDE DEF T
  <2> QED
    BY <2>1
<1> HIDE DEF T, F, fields, sender, receivers, skipped, x1
<1>6. a \in Nat /\ b \in Nat /\ c \in Nat
    BY <1>2, LenProperties
<1>7. /\ x2 \in Seq(T) /\ Len(x2) = 2 + a
      /\ \A k \in 1 .. 1 + 1 + a :
            x2[k] = IF k <= 1 THEN x1[k] ELSE IF k = 1 + 1 THEN a ELSE sender[k - (1 + 1)]
  <2>1. FollowedBy(x2, x1, sender, T)
    BY <1>2, <1>3, <1>5, ListBehind
  <2> HIDE DEF x2
  <2>2. /\ x2 \in Seq(T) /\ Len(x2) = Len(x1) + 1 + a
        /\ \A k \in 1 .. Len(x1) + 1 + a :
              x2[k] = IF k <= Len(x1) THEN x1[k]
                      ELSE IF k = Len(x1) + 1 THEN a ELSE sender[k - (Len(x1) + 1)]
    BY <2>1 DEF FollowedBy
  <2> HIDE DEF a
  <2> QED
    BY <1>5, <1>6, <2>2
<1> HIDE DEF x2
<1>8. /\ x3 \in Seq(T) /\ Len(x3) = 3 + a + b
      /\ \A k \in 1 .. (2 + a) + 1 + b :
            x3[k] = IF k <= 2 + a THEN x2[k]
                    ELSE IF k = (2 + a) + 1 THEN b ELSE receivers[k - ((2 + a) + 1)]
  <2>0. x2 \in Seq(T)
    BY <1>7
  <2>1. FollowedBy(x3, x2, receivers, T)
    BY <1>2, <1>3, <2>0, ListBehind
  <2> HIDE DEF x3
  <2>2. /\ x3 \in Seq(T) /\ Len(x3) = Len(x2) + 1 + b
        /\ \A k \in 1 .. Len(x2) + 1 + b :
              x3[k] = IF k <= Len(x2) THEN x2[k]
                      ELSE IF k = Len(x2) + 1 THEN b ELSE receivers[k - (Len(x2) + 1)]
    BY <2>1 DEF FollowedBy
  <2> HIDE DEF a, b
  <2> QED
    BY <1>6, <1>7, <2>2
<1> HIDE DEF x3
<1>9. /\ x4 \in Seq(T) /\ Len(x4) = 4 + a + b + c
      /\ \A k \in 1 .. (3 + a + b) + 1 + c :
            x4[k] = IF k <= 3 + a + b THEN x3[k]
                    ELSE IF k = (3 + a + b) + 1 THEN c ELSE skipped[k - ((3 + a + b) + 1)]
  <2>0. x3 \in Seq(T)
    BY <1>8
  <2>1. FollowedBy(x4, x3, skipped, T)
    BY <1>2, <1>3, <2>0, ListBehind
  <2> HIDE DEF x4
  <2>2. /\ x4 \in Seq(T) /\ Len(x4) = Len(x3) + 1 + c
        /\ \A k \in 1 .. Len(x3) + 1 + c :
              x4[k] = IF k <= Len(x3) THEN x3[k]
                      ELSE IF k = Len(x3) + 1 THEN c ELSE skipped[k - (Len(x3) + 1)]
    BY <2>1 DEF FollowedBy
  <2> HIDE DEF a, b, c
  <2> QED
    BY <1>6, <1>8, <2>2
<1> HIDE DEF x4
<1>10. /\ items \in Seq(T) /\ Len(items) = 6 + (4 + a + b + c)
       /\ \A k \in 1 .. 6 + (4 + a + b + c) :
             items[k] = IF k <= 6 THEN fields[k] ELSE x4[k - 6]
  <2>0. fields \in Seq(T) /\ x4 \in Seq(T)
    BY <1>4, <1>9
  <2>1. /\ items \in Seq(T) /\ Len(items) = Len(fields) + Len(x4)
        /\ \A k \in 1 .. Len(fields) + Len(x4) :
              items[k] = IF k <= Len(fields) THEN fields[k] ELSE x4[k - Len(fields)]
    BY <2>0, Behind
  <2> HIDE DEF items, a, b, c
  <2> QED
    BY <1>4, <1>6, <1>9, <2>1
<1>11. PickleFields(s, version) \o PickleRatchet(s.ratchet) = items
    BY DEF PickleRatchet, fields, x4, x3, x2, x1, sender, receivers, skipped
<1> HIDE DEF items, a, b, c
<1>12. ASSUME NEW k \in 7 .. 10 + a + b + c
       PROVE  items[k] = IF k = 7 THEN r.root_key
                         ELSE IF k = 8 THEN a
                         ELSE IF k <= 8 + a THEN sender[k - 8]
                         ELSE IF k = 9 + a THEN b
                         ELSE IF k <= 9 + a + b THEN receivers[k - (9 + a)]
                         ELSE IF k = 10 + a + b THEN c
                         ELSE skipped[k - (10 + a + b)]
  <2> DEFINE j == k - 6
  <2>1. /\ j \in 1 .. 4 + a + b + c
        /\ k \in 1 .. 6 + (4 + a + b + c) /\ ~(k <= 6)
        /\ j <= 1 <=> k = 7
        /\ j = 1 + 1 <=> k = 8
        /\ j <= 2 + a <=> k <= 8 + a
        /\ j = (2 + a) + 1 <=> k = 9 + a
        /\ j <= 3 + a + b <=> k <= 9 + a + b
        /\ j = (3 + a + b) + 1 <=> k = 10 + a + b
        /\ j - (1 + 1) = k - 8
        /\ j - ((2 + a) + 1) = k - (9 + a)
        /\ j - ((3 + a + b) + 1) = k - (10 + a + b)
    BY <1>6
  <2>2. items[k] = x4[j]
    BY <1>10, <2>1
  <2>3. x4[j] = IF k <= 9 + a + b THEN x3[j]
                ELSE IF k = 10 + a + b THEN c ELSE skipped[k - (10 + a + b)]
    <3>1. j \in 1 .. (3 + a + b) + 1 + c
      BY <1>6, <2>1
    <3> QED
      BY <1>9, <2>1, <3>1
  <2>4. k <= 9 + a + b => x3[j] = IF k <= 8 + a THEN x2[j]
                                  ELSE IF k = 9 + a THEN b ELSE receivers[k - (9 + a)]
    <3>1. k <= 9 + a + b => j \in 1 .. (2 + a) + 1 + b
      BY <1>6, <2>1
    <3> QED
      BY <1>8, <2>1, <3>1
  <2>5. k <= 8 + a => x2[j] = IF k = 7 THEN r.root_key ELSE IF k = 8 THEN a ELSE sender[k - 8]
    <3>1. k <= 8 + a => j \in 1 .. 1 + 1 + a
      BY <1>6, <2>1
    <3>2. k = 7 => j = 1
      OBVIOUS
    <3> QED
      BY <1>5, <1>7, <2>1, <3>1, <3>2
  <2>6. /\ k = 7 => k <= 8 + a /\ k <= 9 + a + b
        /\ k = 8 => k <= 8 + a /\ k <= 9 + a + b
        /\ k <= 8 + a => k <= 9 + a + b
        /\ k = 9 + a => k <= 9 + a + b
    BY <1>6
  <2> HIDE DEF j
  <2> QED
    BY <2>2, <2>3, <2>4, <2>5, <2>6
<1>13. Len(items) = 10 + a + b + c
    BY <1>6, <1>10
<1>14. /\ items[1] = version
       /\ items[2] = s.received_message
       /\ items[3] = s.alice_identity_key
       /\ items[4] = s.alice_base_key
       /\ items[5] = s.bob_one_time_key
       /\ items[6] = s.bob_prekey
  <2>1. ASSUME NEW k \in {1, 2, 3, 4, 5, 6} PROVE items[k] = fields[k]
    <3>1. k \in 1 .. 6 + (4 + a + b + c) /\ k <= 6
      BY <1>6
    <3> QED
      BY <1>10, <3>1
  <2> QED
    BY <1>4, <2>1
<1>15. \A k \in 1 .. 10 + a + b + c : items[k] = SessionItem(s, version, k)
  <2> TAKE k \in 1 .. 10 + a + b + c
  <2>1. CASE k \in 7 .. 10 + a + b + c
    <3>1. k # 1 /\ k # 2 /\ k # 3 /\ k # 4 /\ k # 5 /\ k # 6
      BY <1>6, <2>1
    <3> QED
      BY <1>12, <2>1, <3>1 DEF SessionItem, a, b, c, sender, receivers, skipped
  <2>2. CASE k \notin 7 .. 10 + a + b + c
    <3>1. k \in {1, 2, 3, 4, 5, 6}
      BY <1>6, <2>2
    <3> QED
      BY <1>14, <3>1 DEF SessionItem
  <2> QED
    BY <2>1, <2>2
<1>16. SessionLength(s) = 10 + a + b + c /\ SessionLength(s) \in Nat
  <2>1. SessionLength(s) = 10 + a + b + c
    BY DEF SessionLength, a, b, c, sender, receivers, skipped
  <2> QED
    BY <1>6, <2>1
<1> QED
    BY <1>10, <1>11, <1>13, <1>15, <1>16

(* A list is where it is to be read, as a whole.                           *)
ListIsAt(pickle, pos, list) ==
    /\ pos \in Nat \ {0} /\ \E S : list \in Seq(S)
    /\ Len(pickle.items) \in Nat /\ pos + Len(list) <= Len(pickle.items)
    /\ pickle.items[pos] = Len(list)
    /\ \A k \in pos + 1 .. pos + Len(list) : pickle.items[k] = list[k - pos]

(* unpickle() of a list that is there as a whole and fits (pickle.hh).     *)
LEMMA ListRead ==
    ASSUME NEW pickle, NEW pos, NEW list, NEW max \in Nat,
           ListIsAt(pickle, pos, list), Len(list) <= max
    PROVE  /\ ListAt(pickle, pos, max) = list
           /\ AfterList(pickle, pos) = pos + 1 + Len(list)
<1>0. /\ pos \in Nat \ {0} /\ \E S : list \in Seq(S)
      /\ Len(pickle.items) \in Nat /\ pos + Len(list) <= Len(pickle.items)
      /\ pickle.items[pos] = Len(list)
      /\ \A k \in pos + 1 .. pos + Len(list) : pickle.items[k] = list[k - pos]
    BY DEF ListIsAt
<1> DEFINE n == Len(list)
           items == pickle.items
           end == Len(items) + 1
<1>1. n \in Nat /\ list = [i \in 1 .. n |-> list[i]]
    BY <1>0, LenProperties
<1>2. EntriesRead(pickle, pos) = n
  <2> DEFINE left == End(pickle) - (pos + 1)
  <2>1. left \in Int /\ n <= left
    BY <1>0, <1>1 DEF End
  <2> HIDE DEF left, n
  <2>2. Least(n, left) = n
    BY <1>1, <2>1 DEF Least
  <2> QED
    BY <1>0, <2>2 DEF EntriesRead, left, n
<1>3. ListAt(pickle, pos, max) =
          [i \in 1 .. n |-> items[pos + (IF i = max THEN n ELSE i)]]
  <2>1. Least(n, max) = n
    BY <1>1 DEF Least
  <2> QED
    BY <1>2, <2>1 DEF ListAt
<1> HIDE DEF n, items
<1>4. ASSUME NEW i \in 1 .. n PROVE items[pos + (IF i = max THEN n ELSE i)] = list[i]
  <2>1. (IF i = max THEN n ELSE i) = i
    BY <1>1 DEF n
  <2>2. pos + i \in pos + 1 .. pos + n /\ (pos + i) - pos = i
    BY <1>0, <1>1
  <2> QED
    BY <1>0, <2>1, <2>2 DEF items, n
<1>5. ListAt(pickle, pos, max) = list
    BY <1>1, <1>3, <1>4
<1>6. AfterList(pickle, pos) = pos + 1 + n
    BY <1>0, <1>1, <1>2 DEF AfterList, Available, End, NULL, n, items
<1> QED
    BY <1>5, <1>6 DEF n

(* The lists of a session that can be stored.                              *)
LEMMA ListsOf ==
    ASSUME NEW s, Storable(s)
    PROVE  LET r == s.ratchet IN
           /\ Len(r.sender_chain) \in Nat /\ Len(r.receiver_chains) \in Nat
           /\ Len(r.skipped_message_keys) \in Nat
           /\ SkippedPlace(s) = 10 + Len(r.sender_chain) + Len(r.receiver_chains)
           /\ SkippedPlace(s) \in Nat
           /\ SessionLength(s) = SkippedPlace(s) + Len(r.skipped_message_keys)
           /\ Len(r.sender_chain) <= 1
           /\ Len(r.receiver_chains) <= MAX_RECEIVER_CHAINS
           /\ Len(r.skipped_message_keys) <= MAX_SKIPPED_MESSAGE_KEYS
<1>1. PICK S1, S2, S3 : /\ s.ratchet.sender_chain \in Seq(S1)
                        /\ s.ratchet.receiver_chains \in Seq(S2)
                        /\ s.ratchet.skipped_message_keys \in Seq(S3)
    BY DEF Storable, RatchetOk, IsList
<1>2. /\ Len(s.ratchet.sender_chain) <= 1
      /\ Len(s.ratchet.receiver_chains) <= MAX_RECEIVER_CHAINS
      /\ Len(s.ratchet.skipped_message_keys) <= MAX_SKIPPED_MESSAGE_KEYS
    BY DEF Storable, RatchetOk, IsList
<1> DEFINE a == Len(s.ratchet.sender_chain)
           b == Len(s.ratchet.receiver_chains)
           c == Len(s.ratchet.skipped_message_keys)
<1>3. a \in Nat /\ b \in Nat /\ c \in Nat
    BY <1>1, LenProperties
<1>4. SessionLength(s) = 10 + a + b + c /\ SkippedPlace(s) = 10 + a + b
    BY DEF SessionLength, SkippedPlace
<1>5. SessionLength(s) = SkippedPlace(s) + c /\ SkippedPlace(s) \in Nat
  <2> HIDE DEF a, b, c
  <2> QED
    BY <1>3, <1>4
<1> QED
    BY <1>2, <1>3, <1>4, <1>5

(* Where the numbers of entries are.                                       *)
LEMMA SessionSizes ==
    ASSUME NEW s, Storable(s), NEW version
    PROVE  LET r == s.ratchet
               a == Len(r.sender_chain)
               b == Len(r.receiver_chains)
           IN  /\ SessionItem(s, version, 8) = a
               /\ SessionItem(s, version, 9 + a) = b
               /\ SessionItem(s, version, SkippedPlace(s)) = Len(r.skipped_message_keys)
               /\ \A k \in Nat : k > SkippedPlace(s) => SessionItem(s, version, k)
                                     = r.skipped_message_keys[k - SkippedPlace(s)]
<1> DEFINE a == Len(s.ratchet.sender_chain)
           b == Len(s.ratchet.receiver_chains)
<1>1. a \in Nat /\ b \in Nat /\ SkippedPlace(s) = 10 + a + b
    BY ListsOf
<1>2. SessionItem(s, version, 8) = a
    BY DEF SessionItem
<1>3. ASSUME NEW k \in Nat, k > 8
      PROVE  SessionItem(s, version, k) =
                IF k <= 8 + a THEN s.ratchet.sender_chain[k - 8]
                ELSE IF k = 9 + a THEN b
                ELSE IF k <= 9 + a + b THEN s.ratchet.receiver_chains[k - (9 + a)]
                ELSE IF k = 10 + a + b THEN Len(s.ratchet.skipped_message_keys)
                ELSE s.ratchet.skipped_message_keys[k - (10 + a + b)]
  <2>1. k # 1 /\ k # 2 /\ k # 3 /\ k # 4 /\ k # 5 /\ k # 6 /\ k # 7 /\ k # 8
    BY <1>3
  <2> QED
    BY <2>1 DEF SessionItem
<1> HIDE DEF a, b
<1>4. SessionItem(s, version, 9 + a) = b
  <2>1. 9 + a \in Nat /\ 9 + a > 8 /\ ~(9 + a <= 8 + a)
    BY <1>1
  <2> QED
    BY <1>3, <2>1
<1>5. SessionItem(s, version, 10 + a + b) = Len(s.ratchet.skipped_message_keys)
  <2>1. /\ 10 + a + b \in Nat /\ 10 + a + b > 8 /\ ~(10 + a + b <= 8 + a)
        /\ 10 + a + b # 9 + a /\ ~(10 + a + b <= 9 + a + b)
    BY <1>1
  <2> QED
    BY <1>3, <2>1
<1>6. ASSUME NEW k \in Nat, k > 10 + a + b
      PROVE  SessionItem(s, version, k) = s.ratchet.skipped_message_keys[k - (10 + a + b)]
  <2>1. /\ k > 8 /\ ~(k <= 8 + a) /\ k # 9 + a /\ ~(k <= 9 + a + b) /\ k # 10 + a + b
    BY <1>1, <1>6
  <2> QED
    BY <1>3, <2>1
<1> QED
    BY <1>1, <1>2, <1>4, <1>5, <1>6 DEF a, b

(* What comes before the skipped keys is read as it was (session.cpp,      *)
(* ratchet.cpp), whatever version it was written as or follows it.         *)
LEMMA FrontRead ==
    ASSUME NEW s, Storable(s), NEW version, NEW pickle,
           Len(pickle.items) \in Nat, SkippedPlace(s) <= Len(pickle.items),
           \A k \in 1 .. SkippedPlace(s) : pickle.items[k] = SessionItem(s, version, k)
    PROVE  /\ SkippedAt(pickle, 7) = SkippedPlace(s)
           /\ UnpickleSession(pickle) =
                 [s EXCEPT !.ratchet = [@ EXCEPT !.skipped_message_keys =
                               ListAt(pickle, SkippedPlace(s), MAX_SKIPPED_MESSAGE_KEYS)]]
<1> DEFINE r == s.ratchet
           items == pickle.items
           sender == r.sender_chain
           receivers == r.receiver_chains
           a == Len(sender)
           b == Len(receivers)
           second == 9 + a
           third == SkippedPlace(s)
           kept == ListAt(pickle, third, MAX_SKIPPED_MESSAGE_KEYS)
           Item(k) == SessionItem(s, version, k)
<1>1. PICK S1, S2 : sender \in Seq(S1) /\ receivers \in Seq(S2)
    BY DEF Storable, RatchetOk, IsList
<1>2. a \in Nat /\ b \in Nat /\ a <= 1 /\ b <= MAX_RECEIVER_CHAINS
    BY ListsOf
<1>3. third = 10 + a + b /\ Len(items) \in Nat /\ third <= Len(items)
    BY DEF SkippedPlace
<1>4. /\ s \in [received_message : BOOLEAN, alice_identity_key : {s.alice_identity_key},
                alice_base_key : {s.alice_base_key}, bob_one_time_key : {s.bob_one_time_key},
                bob_prekey : {s.bob_prekey}, ratchet : {r}]
      /\ r \in [root_key : {r.root_key}, sender_chain : {sender},
                receiver_chains : {receivers},
                skipped_message_keys : {r.skipped_message_keys}]
    BY DEF Storable, RatchetOk
<1>5. \A k \in 1 .. third : items[k] = Item(k)
    OBVIOUS
<1>6. /\ Item(2) = s.received_message /\ Item(3) = s.alice_identity_key
      /\ Item(4) = s.alice_base_key /\ Item(5) = s.bob_one_time_key
      /\ Item(6) = s.bob_prekey /\ Item(7) = r.root_key /\ Item(8) = a
    BY DEF SessionItem
<1>7. ASSUME NEW k \in 9 .. third
      PROVE  Item(k) = IF k <= 8 + a THEN sender[k - 8]
                       ELSE IF k = 9 + a THEN b
                       ELSE IF k <= 9 + a + b THEN receivers[k - (9 + a)]
                       ELSE IF k = 10 + a + b THEN Len(r.skipped_message_keys)
                       ELSE r.skipped_message_keys[k - (10 + a + b)]
  <2>1. k # 1 /\ k # 2 /\ k # 3 /\ k # 4 /\ k # 5 /\ k # 6 /\ k # 7 /\ k # 8
    BY <1>2, <1>3
  <2> QED
    BY <2>1 DEF SessionItem
<1> HIDE DEF r, items, sender, receivers, a, b, third, kept, Item
<1>8. /\ items[2] = s.received_message /\ items[3] = s.alice_identity_key
      /\ items[4] = s.alice_base_key /\ items[5] = s.bob_one_time_key
      /\ items[6] = s.bob_prekey /\ items[7] = r.root_key /\ items[8] = a
  <2>1. ASSUME NEW k \in {2, 3, 4, 5, 6, 7, 8} PROVE items[k] = Item(k)
    <3>1. k \in 1 .. third
      BY <1>2, <1>3
    <3> QED
      BY <1>5, <3>1
  <2> QED
    BY <1>6, <2>1
<1>9. SenderAt(pickle, 7) = 8
  <2>1. 7 + 1 <= Len(items) + 1
    BY <1>2, <1>3
  <2> QED
    BY <2>1 DEF SenderAt, After, Available, End, NULL, items
<1>10. ListIsAt(pickle, 8, sender)
  <2>1. 8 \in Nat \ {0} /\ 8 + a <= Len(items)
    BY <1>2, <1>3
  <2>2. ASSUME NEW k \in 8 + 1 .. 8 + a PROVE items[k] = sender[k - 8]
    <3>1. k \in 1 .. third /\ k \in 9 .. third /\ k <= 8 + a
      BY <1>2, <1>3
    <3> QED
      BY <1>5, <1>7, <3>1
  <2>3. (\E S : sender \in Seq(S)) /\ Len(items) \in Nat /\ a = Len(sender)
    BY <1>1, <1>3 DEF a
  <2> QED
    BY <1>8, <2>1, <2>2, <2>3 DEF ListIsAt, items
<1>11. ListIsAt(pickle, second, receivers)
  <2>1. second \in Nat \ {0} /\ second + b <= Len(items)
    BY <1>2, <1>3
  <2>2. items[second] = b
    <3>1. second \in 1 .. third /\ second \in 9 .. third /\ ~(second <= 8 + a) /\ second = 9 + a
      BY <1>2, <1>3
    <3> QED
      BY <1>5, <1>7, <3>1
  <2>3. ASSUME NEW k \in second + 1 .. second + b PROVE items[k] = receivers[k - second]
    <3>1. /\ k \in 1 .. third /\ k \in 9 .. third
          /\ ~(k <= 8 + a) /\ k # 9 + a /\ k <= 9 + a + b
      BY <1>2, <1>3
    <3> QED
      BY <1>5, <1>7, <3>1
  <2>4. (\E S : receivers \in Seq(S)) /\ Len(items) \in Nat /\ b = Len(receivers)
    BY <1>1, <1>3 DEF b
  <2> HIDE DEF second
  <2> QED
    BY <2>1, <2>2, <2>3, <2>4 DEF ListIsAt, items
<1>12. ListAt(pickle, 8, 1) = sender /\ AfterList(pickle, 8) = 8 + 1 + a
  <2> DEFINE eight == 8
             one == 1
  <2>1. Len(sender) = a /\ Len(sender) <= one /\ one \in Nat
    BY <1>2 DEF a
  <2>2. ListIsAt(pickle, eight, sender)
    BY <1>10
  <2> HIDE DEF eight, one
  <2>3. ListAt(pickle, eight, one) = sender /\ AfterList(pickle, eight) = eight + 1 + a
    BY <2>1, <2>2, ListRead
  <2> QED
    BY <2>3 DEF eight, one
<1>13. ListAt(pickle, second, MAX_RECEIVER_CHAINS) = receivers
       /\ AfterList(pickle, second) = second + 1 + b
  <2>1. /\ Len(receivers) = b /\ Len(receivers) <= MAX_RECEIVER_CHAINS
        /\ MAX_RECEIVER_CHAINS \in Nat
    BY <1>2, RestartAssumption DEF b
  <2> HIDE DEF second
  <2> QED
    BY <1>11, <2>1, ListRead
<1>14. 8 + 1 + a = second /\ second + 1 + b = third
    BY <1>2, <1>3
<1> HIDE DEF second
<1>15. ReceiversAt(pickle, 7) = second
    BY <1>9, <1>12, <1>14 DEF ReceiversAt
<1>16. SkippedAt(pickle, 7) = third
    BY <1>13, <1>14, <1>15 DEF SkippedAt
<1>17. UnpickleRatchet(pickle, 7) = [root_key |-> r.root_key, sender_chain |-> sender,
                                     receiver_chains |-> receivers,
                                     skipped_message_keys |-> kept]
    BY <1>8, <1>9, <1>12, <1>13, <1>15, <1>16 DEF UnpickleRatchet, items, kept
<1>18. UnpickleRatchet(pickle, 7) = [r EXCEPT !.skipped_message_keys = kept]
    BY <1>4, <1>17
<1>19. UnpickleSession(pickle) = [s EXCEPT !.ratchet = UnpickleRatchet(pickle, 7)]
    BY <1>4, <1>8 DEF UnpickleSession, items
<1> QED
    BY <1>16, <1>18, <1>19 DEF kept, r, third

(* A session whose items are there is read as a whole.                     *)
LEMMA PlaceBeyond == ASSUME NEW s, Storable(s) PROVE SkippedPlace(s) >= 10
<1> DEFINE a == Len(s.ratchet.sender_chain)
           b == Len(s.ratchet.receiver_chains)
<1>1. a \in Nat /\ b \in Nat /\ SkippedPlace(s) = 10 + a + b
    BY ListsOf
<1> HIDE DEF a, b
<1> QED
    BY <1>1

LEMMA SessionRead ==
    ASSUME NEW s, Storable(s), NEW version, NEW pickle,
           Len(pickle.items) \in Nat, SessionLength(s) <= Len(pickle.items),
           \A k \in 1 .. SessionLength(s) : pickle.items[k] = SessionItem(s, version, k)
    PROVE  /\ UnpickleSession(pickle) = s
           /\ AfterList(pickle, SkippedAt(pickle, 7)) = SessionLength(s) + 1
<1> DEFINE items == pickle.items
           skipped == s.ratchet.skipped_message_keys
           c == Len(skipped)
           third == SkippedPlace(s)
<1>1. /\ third \in Nat /\ third >= 10 /\ c \in Nat /\ SessionLength(s) = third + c
      /\ c <= MAX_SKIPPED_MESSAGE_KEYS
    BY ListsOf, PlaceBeyond
<1>2. /\ SessionItem(s, version, third) = c
      /\ \A k \in Nat : k > third => SessionItem(s, version, k) = skipped[k - third]
    BY SessionSizes
<1>3. \E S : skipped \in Seq(S)
    BY DEF Storable, RatchetOk, IsList
<1> HIDE DEF items, c, third
<1>4. /\ third \in Nat \ {0} /\ Len(items) \in Nat /\ third + c <= Len(items)
      /\ \A k \in 1 .. third + c : items[k] = SessionItem(s, version, k)
    BY <1>1 DEF items
<1>5. UnpickleSession(pickle) = [s EXCEPT !.ratchet = [@ EXCEPT !.skipped_message_keys =
                                     ListAt(pickle, third, MAX_SKIPPED_MESSAGE_KEYS)]]
      /\ SkippedAt(pickle, 7) = third
  <2>1. third <= Len(items) /\ \A k \in 1 .. third : items[k] = SessionItem(s, version, k)
    BY <1>1, <1>4
  <2> QED
    BY <1>4, <2>1, FrontRead DEF items, third
<1>6. ListIsAt(pickle, third, skipped)
  <2>1. items[third] = c
    BY <1>1, <1>2, <1>4
  <2>2. ASSUME NEW k \in third + 1 .. third + c PROVE items[k] = skipped[k - third]
    <3>1. k \in Nat /\ k > third /\ k \in 1 .. third + c
      BY <1>1, <1>4
    <3> QED
      BY <1>2, <1>4, <3>1
  <2> QED
    BY <1>3, <1>4, <2>1, <2>2 DEF ListIsAt, items, c
<1>7. ListAt(pickle, third, MAX_SKIPPED_MESSAGE_KEYS) = skipped
      /\ AfterList(pickle, third) = third + 1 + c
  <2>1. MAX_SKIPPED_MESSAGE_KEYS \in Nat
    BY RestartAssumption
  <2> HIDE DEF skipped
  <2>2. Len(skipped) <= MAX_SKIPPED_MESSAGE_KEYS
    BY <1>1 DEF c
  <2> QED
    BY <1>6, <2>1, <2>2, ListRead DEF c
<1>8. UnpickleSession(pickle) = s
    BY <1>5, <1>7 DEF Storable, RatchetOk
<1>9. third + 1 + c = SessionLength(s) + 1
    BY <1>1, <1>4
<1> QED
    BY <1>5, <1>7, <1>8, <1>9

(* A session is read as it was written (src/session.cpp, src/ratchet.cpp). *)
LEMMA RoundTrip ==
    ASSUME NEW s, Storable(s)
    PROVE  UnpickleSession(PickleSession(s)) = s
<1> DEFINE pickle == PickleSession(s)
           v == SESSION_PICKLE_VERSION
<1> HIDE DEF v
<1>1. pickle.items = PickleFields(s, v) \o PickleRatchet(s.ratchet)
    BY DEF PickleSession, Whole, v
<1> HIDE DEF pickle
<1>2. /\ Len(pickle.items) = SessionLength(s) /\ SessionLength(s) \in Nat
      /\ \A k \in 1 .. SessionLength(s) : pickle.items[k] = SessionItem(s, v, k)
    BY <1>1, PickledItems
<1>3. UnpickleSession(pickle) = s
    BY <1>2, SessionRead
<1> QED
    BY <1>3 DEF pickle

-----------------------------------------------------------------------------
(* A ratchet that can be stored stays one.                                 *)

LEMMA NoItems == ASSUME NEW max \in Nat PROVE IsList(<<>>, max) /\ Indexed(<<>>)
<1>1. <<>> \in Seq({}) /\ Len(<<>>) = 0
    OBVIOUS
<1> QED
    BY <1>1 DEF IsList, Indexed

LEMMA OneItem ==
    ASSUME NEW chain, NEW max \in Nat \ {0}, chain.chain_key.index \in Nat
    PROVE  /\ IsList(<<chain>>, max) /\ Indexed(<<chain>>)
           /\ Len(<<chain>>) = 1 /\ <<chain>>[1] = chain
<1> DEFINE one == <<chain>>
<1>1. one \in Seq({chain}) /\ Len(one) = 1 /\ one[1] = chain
    OBVIOUS
<1> HIDE DEF one
<1>2. IsList(one, max)
    BY <1>1 DEF IsList
<1>3. Indexed(one)
    BY <1>1 DEF Indexed
<1> QED
    BY <1>1, <1>2, <1>3 DEF one

(* The ratchet keys of a list are among the given ones and those of the    *)
(* list it was made of.                                                    *)
KeysFrom(list, old, keys) ==
    \A i \in 1 .. Len(list) :
        \/ list[i].ratchet_key \in keys
        \/ \E j \in 1 .. Len(old) : list[i].ratchet_key = old[j].ratchet_key

(* initialise_as_alice(), initialise_as_bob() (ratchet.cpp).               *)
LEMMA InitialRatchets ==
    ASSUME NEW secret, NEW key
    PROVE  /\ RatchetOk(Pair!InitialiseAsAlice(secret, key))
           /\ RatchetOk(Pair!InitialiseAsBob(secret, key))
<1> DEFINE root == Pair!InitialRootKey(secret)
           chain == [ratchet_key |-> key, chain_key |-> Pair!FirstChainKey(root)]
<1>1. chain.chain_key.index \in Nat
    BY DEF Pair!FirstChainKey
<1> HIDE DEF root, chain
<1>2. 1 \in Nat \ {0} /\ MAX_RECEIVER_CHAINS \in Nat \ {0} /\ MAX_SKIPPED_MESSAGE_KEYS \in Nat
    BY RestartAssumption
<1>3. /\ IsList(<<chain>>, 1) /\ IsList(<<chain>>, MAX_RECEIVER_CHAINS) /\ Indexed(<<chain>>)
      /\ IsList(<<>>, 1) /\ IsList(<<>>, MAX_RECEIVER_CHAINS) /\ Indexed(<<>>)
      /\ IsList(<<>>, MAX_SKIPPED_MESSAGE_KEYS)
    BY <1>1, <1>2, OneItem, NoItems
<1> DEFINE none == <<>>
           one == <<chain>>
<1> HIDE DEF none, one
<1>4. RatchetOk([root_key |-> root, sender_chain |-> one, receiver_chains |-> none,
                 skipped_message_keys |-> none])
    BY <1>3 DEF RatchetOk, none, one
<1>5. RatchetOk([root_key |-> root, sender_chain |-> none, receiver_chains |-> one,
                 skipped_message_keys |-> none])
    BY <1>3 DEF RatchetOk, none, one
<1> QED
    BY <1>4, <1>5 DEF Pair!InitialiseAsAlice, Pair!InitialiseAsBob, one, none, chain, root

(* encrypt() makes a sender chain with the fresh key if there is none.     *)
Turned(e, r, key) ==
    /\ e.root_key = Pair!NextRootKey(r.root_key, key, r.receiver_chains[1].ratchet_key)
    /\ e.sender_chain[1].chain_key = Pair!FirstChainKey(e.root_key)
    /\ e.receiver_chains = r.receiver_chains
    /\ e.skipped_message_keys = r.skipped_message_keys

LEMMA EnsureKeeps ==
    ASSUME NEW r, NEW key, RatchetOk(r)
    PROVE  LET e == Pair!EnsureSenderChain(r, key) IN
           /\ RatchetOk(e)
           /\ Len(e.sender_chain) = 1
           /\ r.sender_chain = <<>> => e.sender_chain[1].ratchet_key = key
           /\ r.sender_chain # <<>> => e = r
           /\ r.sender_chain = <<>> => Turned(e, r, key)
<1> DEFINE e == Pair!EnsureSenderChain(r, key)
           root == Pair!NextRootKey(r.root_key, key, r.receiver_chains[1].ratchet_key)
           chain == [ratchet_key |-> key, chain_key |-> Pair!FirstChainKey(root)]
<1>1. CASE r.sender_chain # <<>>
  <2>1. e = r
    BY <1>1 DEF Pair!EnsureSenderChain
  <2>2. PICK S : r.sender_chain \in Seq(S)
    BY DEF RatchetOk, IsList
  <2> DEFINE n == Len(r.sender_chain)
  <2>3. n \in Nat \ {0} /\ n <= 1
    BY <1>1, <2>2, EmptySeq DEF RatchetOk, IsList
  <2> HIDE DEF e, n
  <2>4. n = 1
    BY <2>3
  <2>5. RatchetOk(e)
    BY <2>1, Zenon
  <2>6. Len(e.sender_chain) = 1
    BY <2>1, <2>4, Zenon DEF n
  <2> QED
    BY <1>1, <2>1, <2>5, <2>6 DEF e
<1>2. CASE r.sender_chain = <<>>
  <2>1. chain.chain_key.index \in Nat /\ chain.ratchet_key = key
    BY DEF Pair!FirstChainKey
  <2> DEFINE one == <<chain>>
  <2>2. e = [r EXCEPT !.root_key = root, !.sender_chain = one]
    BY <1>2 DEF Pair!EnsureSenderChain
  <2> HIDE DEF root, chain, e
  <2>3. IsList(one, 1) /\ Indexed(one) /\ Len(one) = 1 /\ one[1] = chain
    BY <2>1, OneItem
  <2> HIDE DEF one
  <2>4. /\ e \in [root_key : {root}, sender_chain : {one}, receiver_chains : {r.receiver_chains},
                  skipped_message_keys : {r.skipped_message_keys}]
    BY <2>2 DEF RatchetOk
  <2>5. /\ e.root_key = root /\ e.sender_chain = one
        /\ e.receiver_chains = r.receiver_chains
        /\ e.skipped_message_keys = r.skipped_message_keys
    BY <2>4
  <2>6. RatchetOk(e)
    BY <2>3, <2>4, <2>5 DEF RatchetOk
  <2>7. e.sender_chain[1].chain_key = Pair!FirstChainKey(root)
    BY <2>3, <2>5 DEF chain
  <2>8. Turned(e, r, key)
    BY <2>5, <2>7 DEF Turned, root
  <2> QED
    BY <1>2, <2>1, <2>3, <2>5, <2>6, <2>8 DEF e
<1> QED
    BY <1>1, <1>2

LEMMA AdvanceSenderKeeps ==
    ASSUME NEW r, RatchetOk(r), Len(r.sender_chain) = 1
    PROVE  LET a == Pair!AdvanceSenderChain(r) IN
           /\ RatchetOk(a)
           /\ Len(a.sender_chain) = 1
           /\ a.sender_chain[1].ratchet_key = r.sender_chain[1].ratchet_key
           /\ a.sender_chain[1].chain_key = Pair!AdvanceChainKey(r.sender_chain[1].chain_key, 1)
           /\ a.root_key = r.root_key /\ a.receiver_chains = r.receiver_chains
           /\ a.skipped_message_keys = r.skipped_message_keys
<1> DEFINE a == Pair!AdvanceSenderChain(r)
           old == r.sender_chain[1]
           chain == [ratchet_key |-> old.ratchet_key,
                     chain_key |-> Pair!AdvanceChainKey(old.chain_key, 1)]
           one == <<chain>>
<1>1. old.chain_key.index \in Nat
    BY DEF RatchetOk, Indexed
<1>2. chain.chain_key.index \in Nat /\ chain.ratchet_key = old.ratchet_key
    BY <1>1 DEF Pair!AdvanceChainKey
<1>3. a = [r EXCEPT !.sender_chain = one]
    BY DEF Pair!AdvanceSenderChain, RatchetOk
<1> HIDE DEF old, chain, a
<1>4. IsList(one, 1) /\ Indexed(one) /\ Len(one) = 1 /\ one[1] = chain
    BY <1>2, OneItem
<1> HIDE DEF one
<1>5. a \in [root_key : {r.root_key}, sender_chain : {one}, receiver_chains : {r.receiver_chains},
             skipped_message_keys : {r.skipped_message_keys}]
    BY <1>3 DEF RatchetOk
<1>6. /\ a.root_key = r.root_key /\ a.sender_chain = one
      /\ a.receiver_chains = r.receiver_chains
      /\ a.skipped_message_keys = r.skipped_message_keys
    BY <1>5
<1>7. RatchetOk(a)
    BY <1>4, <1>5, <1>6 DEF RatchetOk
<1>8. a.sender_chain[1].chain_key = Pair!AdvanceChainKey(old.chain_key, 1)
    BY <1>4, <1>6 DEF chain
<1> QED
    BY <1>2, <1>4, <1>6, <1>7, <1>8 DEF a, old

(* decrypt() adds a chain for a new ratchet key ...                        *)
LEMMA AddReceiverKeeps ==
    ASSUME NEW r, NEW m, RatchetOk(r)
    PROVE  LET a == Pair!AddReceiverChain(r, m) IN
           /\ RatchetOk(a)
           /\ a.sender_chain = <<>>
           /\ 1 \in 1 .. Len(a.receiver_chains)
           /\ a.receiver_chains[1].chain_key.index = 0
           /\ a.root_key = Pair!NewRootFor(r, m)
           /\ KeysFrom(a.receiver_chains, r.receiver_chains, {m.ratchet_key})
           /\ a.skipped_message_keys = r.skipped_message_keys
<1> DEFINE a == Pair!AddReceiverChain(r, m)
           root == Pair!NewRootFor(r, m)
           chain == Pair!NewChainFor(r, m)
           none == <<>>
           old == r.receiver_chains
           new == ListInsert(old, 1, chain, MAX_RECEIVER_CHAINS)
<1>1. chain.chain_key.index = 0 /\ chain.ratchet_key = m.ratchet_key
    BY DEF Pair!NewChainFor, Pair!FirstChainKey
<1>2. Pair!ListInsert(old, 1, chain, MAX_RECEIVER_CHAINS) = new
    BY DEF Pair!ListInsert, ListInsert, Pair!Least, Least
<1>3. a = [r EXCEPT !.root_key = root, !.receiver_chains = new, !.sender_chain = none]
    BY <1>2 DEF Pair!AddReceiverChain, RatchetOk
<1> HIDE DEF root, chain, a
<1>4. PICK S : old \in Seq(S)
    BY DEF RatchetOk, IsList
<1>5. /\ Len(old) <= MAX_RECEIVER_CHAINS /\ MAX_RECEIVER_CHAINS \in Nat \ {0}
      /\ \A i \in 1 .. Len(old) : old[i].chain_key.index \in Nat
    BY RestartAssumption DEF RatchetOk, IsList, Indexed
<1> DEFINE T == S \cup {chain}
<1>6. old \in Seq(T)
  <2>1. S \subseteq T
    OBVIOUS
  <2> HIDE DEF T, old
  <2> QED
    BY <1>4, <2>1, SeqMonotonic
<1>7. chain \in T
    OBVIOUS
<1> HIDE DEF T, old
<1>8. /\ new \in Seq(T) /\ Len(new) \in 1 .. MAX_RECEIVER_CHAINS
      /\ Len(new) <= Len(old) + 1 /\ new[1] = chain
      /\ \A i \in 2 .. Len(new) : new[i] = old[i - 1]
    BY <1>5, <1>6, <1>7, ListInsertFrontItems
<1> HIDE DEF new
<1>9. IsList(new, MAX_RECEIVER_CHAINS)
    BY <1>5, <1>8 DEF IsList
<1>10. Indexed(new)
  <2> SUFFICES ASSUME NEW i \in 1 .. Len(new) PROVE new[i].chain_key.index \in Nat
    BY DEF Indexed
  <2>0. Len(old) \in Nat
    BY <1>6, LenProperties
  <2>1. CASE i = 1
    BY <1>1, <1>8, <2>1
  <2>2. CASE i # 1
    <3>1. i \in 2 .. Len(new) /\ i - 1 \in 1 .. Len(old)
      BY <1>8, <2>0, <2>2
    <3> QED
      BY <1>5, <1>8, <3>1
  <2> QED
    BY <2>1, <2>2
<1>11. IsList(none, 1) /\ Indexed(none)
    BY NoItems
<1> HIDE DEF none
<1>12. a \in [root_key : {root}, sender_chain : {none}, receiver_chains : {new},
              skipped_message_keys : {r.skipped_message_keys}]
    BY <1>3 DEF RatchetOk
<1>13. /\ a.root_key = root /\ a.sender_chain = none /\ a.receiver_chains = new
       /\ a.skipped_message_keys = r.skipped_message_keys
    BY <1>12
<1>14. RatchetOk(a)
    BY <1>9, <1>10, <1>11, <1>12, <1>13 DEF RatchetOk
<1>15. 1 \in 1 .. Len(new)
    BY <1>5, <1>8
<1>16. KeysFrom(new, old, {m.ratchet_key})
  <2> SUFFICES ASSUME NEW i \in 1 .. Len(new)
               PROVE  \/ new[i].ratchet_key \in {m.ratchet_key}
                      \/ \E j \in 1 .. Len(old) : new[i].ratchet_key = old[j].ratchet_key
    BY DEF KeysFrom
  <2>1. CASE i = 1
    BY <1>1, <1>8, <2>1
  <2>2. CASE i # 1
    <3>1. i \in 2 .. Len(new) /\ i - 1 \in 1 .. Len(old)
      BY <1>6, <1>8, <2>2, LenProperties
    <3> QED
      BY <1>8, <3>1
  <2> QED
    BY <2>1, <2>2
<1>17. KeysFrom(a.receiver_chains, r.receiver_chains, {m.ratchet_key})
    BY <1>13, <1>16 DEF old
<1> QED
    BY <1>1, <1>8, <1>13, <1>14, <1>15, <1>17 DEF a, none, root

(* ... and moves a chain beyond the message, keeping the keys it passes.   *)
LEMMA AdvanceReceiverKeeps ==
    ASSUME NEW r, RatchetOk(r), NEW i \in 1 .. Len(r.receiver_chains), NEW counter \in Nat,
           r.receiver_chains[i].chain_key.index <= counter
    PROVE  LET a == Pair!AdvanceReceiverChain(r, i, counter) IN
           /\ RatchetOk(a) /\ a.sender_chain = r.sender_chain /\ a.root_key = r.root_key
           /\ Len(a.receiver_chains) = Len(r.receiver_chains)
           /\ KeysFrom(a.receiver_chains, r.receiver_chains, {})
           /\ KeysFrom(a.skipped_message_keys, r.skipped_message_keys,
                       {r.receiver_chains[i].ratchet_key})
<1> DEFINE a == Pair!AdvanceReceiverChain(r, i, counter)
           chain == r.receiver_chains[i]
           n == counter - chain.chain_key.index
           key(j) == [ratchet_key |-> chain.ratchet_key,
                      message_key |-> Pair!CreateMessageKey(
                          Pair!AdvanceChainKey(chain.chain_key, n - j))]
           passed == [j \in 1 .. n |-> key(j)]
           old == r.receiver_chains
           moved == [ratchet_key |-> chain.ratchet_key,
                     chain_key |-> Pair!AdvanceChainKey(chain.chain_key,
                                      counter + 1 - chain.chain_key.index)]
           new == [old EXCEPT ![i] = moved]
           skipped == r.skipped_message_keys
           kept == ListInsertAll(passed, skipped, MAX_SKIPPED_MESSAGE_KEYS)
<1>1. /\ chain.chain_key.index \in Nat /\ n \in Nat
      /\ MAX_SKIPPED_MESSAGE_KEYS \in Nat
  <2>1. chain.chain_key.index \in Nat /\ chain.chain_key.index <= counter
    BY DEF RatchetOk, Indexed
  <2> HIDE DEF chain
  <2>2. n \in Nat
    BY <2>1
  <2> QED
    BY <2>1, <2>2, RestartAssumption
<1>2. moved.chain_key.index \in Nat /\ moved.ratchet_key = chain.ratchet_key
  <2>1. moved.ratchet_key = chain.ratchet_key
    OBVIOUS
  <2> DEFINE on == counter + 1 - chain.chain_key.index
  <2>2. on \in Nat
    BY <1>1
  <2> HIDE DEF on, chain
  <2>3. Pair!AdvanceChainKey(chain.chain_key, on).index \in Nat
    BY <1>1, <2>2 DEF Pair!AdvanceChainKey
  <2>4. moved.chain_key.index \in Nat
    BY <2>3 DEF on
  <2> QED
    BY <2>1, <2>4
<1>3. a = [r EXCEPT !.skipped_message_keys = kept, !.receiver_chains = new]
  <2>1. Pair!SkippedUpTo(chain, counter) = passed
    BY DEF Pair!SkippedUpTo
  <2>2. Pair!ListInsertAll(passed, skipped, MAX_SKIPPED_MESSAGE_KEYS) = kept
    BY DEF Pair!ListInsertAll, ListInsertAll, Pair!Least, Least
  <2>3. Pair!ListInsertAll(Pair!SkippedUpTo(chain, counter), skipped,
                           MAX_SKIPPED_MESSAGE_KEYS) = kept
    BY <2>1, <2>2
  <2> HIDE DEF passed, kept
  <2> QED
    BY <2>3 DEF Pair!AdvanceReceiverChain
<1>4. PICK S : old \in Seq(S)
    BY DEF RatchetOk, IsList
<1>5. PICK K : skipped \in Seq(K)
    BY DEF RatchetOk, IsList
<1>6. /\ IsList(kept, MAX_SKIPPED_MESSAGE_KEYS)
      /\ KeysFrom(kept, skipped, {chain.ratchet_key})
  <2> DEFINE U == {key(j) : j \in 1 .. n}
             T == U \cup K
  <2>1. passed \in [1 .. n -> U]
    OBVIOUS
  <2>2. \A j \in 1 .. n : passed[j].ratchet_key = chain.ratchet_key
    OBVIOUS
  <2> HIDE DEF passed, U, n
  <2>3. passed \in Seq(U) /\ Len(passed) = n
    BY <1>1, <2>1, FunctionIsSeq
  <2>4. U \subseteq T /\ K \subseteq T
    OBVIOUS
  <2> HIDE DEF T, skipped, chain
  <2>5. passed \in Seq(T) /\ skipped \in Seq(T)
    BY <1>5, <2>3, <2>4, SeqMonotonic
  <2>6. /\ kept \in Seq(T) /\ Len(kept) <= MAX_SKIPPED_MESSAGE_KEYS
        /\ Len(kept) <= Len(passed) + Len(skipped)
        /\ \A k \in 1 .. Len(kept) :
              kept[k] = IF k <= Len(passed) THEN passed[k] ELSE skipped[k - Len(passed)]
    BY <1>1, <2>5, ListInsertAllItems
  <2>7. Len(kept) \in Nat /\ Len(skipped) \in Nat
    BY <2>5, <2>6, LenProperties
  <2> HIDE DEF kept
  <2>8. ASSUME NEW k \in 1 .. Len(kept)
        PROVE  \/ kept[k].ratchet_key \in {chain.ratchet_key}
               \/ \E j \in 1 .. Len(skipped) : kept[k].ratchet_key = skipped[j].ratchet_key
    <3>1. CASE k <= n
      <4>1. k \in 1 .. n /\ kept[k] = passed[k]
        BY <1>1, <2>3, <2>6, <2>7, <3>1
      <4> QED
        BY <2>2, <4>1
    <3>2. CASE ~(k <= n)
      <4>1. k - n \in 1 .. Len(skipped) /\ kept[k] = skipped[k - n]
        BY <1>1, <2>3, <2>6, <2>7, <3>2
      <4> QED
        BY <4>1
    <3> QED
      BY <3>1, <3>2
  <2> QED
    BY <2>6, <2>8 DEF IsList, KeysFrom
<1> HIDE DEF kept, moved, n, passed
<1>7. /\ IsList(new, MAX_RECEIVER_CHAINS) /\ Indexed(new)
      /\ Len(new) = Len(old) /\ KeysFrom(new, old, {})
  <2> DEFINE T == S \cup {moved}
             b == Len(old)
  <2>1. b \in Nat /\ old \in [1 .. b -> S] /\ b <= MAX_RECEIVER_CHAINS
    BY <1>4, LenProperties DEF RatchetOk, IsList
  <2>2. \A k \in 1 .. b : old[k].chain_key.index \in Nat
    BY DEF RatchetOk, Indexed
  <2>3. moved.ratchet_key = old[i].ratchet_key /\ i \in 1 .. Len(old)
    BY <1>2
  <2> HIDE DEF old, b
  <2>4. new \in [1 .. b -> T]
    BY <2>1
  <2>5. \A k \in 1 .. b : new[k] = IF k = i THEN moved ELSE old[k]
    BY <2>1
  <2> HIDE DEF new, T
  <2>6. new \in Seq(T) /\ Len(new) = b
    BY <2>1, <2>4, FunctionIsSeq
  <2>7. IsList(new, MAX_RECEIVER_CHAINS)
    BY <2>1, <2>6 DEF IsList
  <2>8. Indexed(new)
    BY <1>2, <2>2, <2>5, <2>6 DEF Indexed
  <2>9. KeysFrom(new, old, {})
    <3>1. \A k \in 1 .. Len(old) : \E j \in 1 .. Len(old) : new[k].ratchet_key = old[j].ratchet_key
      BY <2>3, <2>5 DEF b
    <3> QED
      BY <2>6, <3>1 DEF KeysFrom, b
  <2> QED
    BY <2>6, <2>7, <2>8, <2>9 DEF b
<1> HIDE DEF new, a
<1>8. a \in [root_key : {r.root_key}, sender_chain : {r.sender_chain}, receiver_chains : {new},
             skipped_message_keys : {kept}]
    BY <1>3 DEF RatchetOk
<1>9. /\ a.root_key = r.root_key /\ a.sender_chain = r.sender_chain
      /\ a.receiver_chains = new /\ a.skipped_message_keys = kept
    BY <1>8
<1>10. RatchetOk(a)
    BY <1>6, <1>7, <1>8, <1>9 DEF RatchetOk
<1>11. /\ Len(a.receiver_chains) = Len(r.receiver_chains)
       /\ KeysFrom(a.receiver_chains, r.receiver_chains, {})
       /\ KeysFrom(a.skipped_message_keys, r.skipped_message_keys,
                   {r.receiver_chains[i].ratchet_key})
    BY <1>6, <1>7, <1>9, Zenon DEF old, skipped, chain
<1> QED
    BY <1>9, <1>10, <1>11 DEF a

(* decrypt() uses a skipped key and erases it.                             *)
LEMMA UseSkippedKeeps ==
    ASSUME NEW r, RatchetOk(r), NEW j \in 1 .. Len(r.skipped_message_keys)
    PROVE  LET a == Pair!UseSkipped(r, j) IN
           /\ RatchetOk(a) /\ a.sender_chain = r.sender_chain /\ a.root_key = r.root_key
           /\ a.receiver_chains = r.receiver_chains
           /\ KeysFrom(a.skipped_message_keys, r.skipped_message_keys, {})
<1> DEFINE a == Pair!UseSkipped(r, j)
           old == r.skipped_message_keys
           new == ListErase(old, j)
<1>1. a = [r EXCEPT !.skipped_message_keys = new]
    BY DEF Pair!UseSkipped, Pair!ListErase, ListErase, RatchetOk
<1>2. PICK S : old \in Seq(S)
    BY DEF RatchetOk, IsList
<1>3. Len(old) \in Nat /\ Len(old) <= MAX_SKIPPED_MESSAGE_KEYS
    BY <1>2, LenProperties DEF RatchetOk, IsList
<1>4. /\ new \in Seq(S) /\ Len(new) = Len(old) - 1
      /\ \A i \in 1 .. Len(old) - 1 : new[i] = IF i < j THEN old[i] ELSE old[i + 1]
    BY <1>2, ListEraseItems
<1> HIDE DEF new, a
<1>5. IsList(new, MAX_SKIPPED_MESSAGE_KEYS)
    BY <1>3, <1>4, RestartAssumption DEF IsList
<1>6. a \in [root_key : {r.root_key}, sender_chain : {r.sender_chain},
             receiver_chains : {r.receiver_chains}, skipped_message_keys : {new}]
    BY <1>1 DEF RatchetOk
<1>7. /\ a.root_key = r.root_key /\ a.sender_chain = r.sender_chain
      /\ a.receiver_chains = r.receiver_chains /\ a.skipped_message_keys = new
    BY <1>6
<1>8. RatchetOk(a)
    BY <1>5, <1>6, <1>7 DEF RatchetOk
<1>9. KeysFrom(new, old, {})
  <2> SUFFICES ASSUME NEW i \in 1 .. Len(new)
               PROVE  \E k \in 1 .. Len(old) : new[i].ratchet_key = old[k].ratchet_key
    BY DEF KeysFrom
  <2>1. i \in 1 .. Len(old) /\ i + 1 \in 1 .. Len(old) /\ i \in 1 .. Len(old) - 1
    BY <1>3, <1>4
  <2> QED
    BY <1>4, <2>1
<1>10. KeysFrom(a.skipped_message_keys, r.skipped_message_keys, {})
    BY <1>7, <1>9, Zenon DEF old
<1> QED
    BY <1>7, <1>8, <1>10 DEF a

-----------------------------------------------------------------------------
(* The invariant: between two calls a session is as its pickle says; while *)
(* a call is pending, it is what that call makes of the session stored.    *)

StoredRatchet(p) == Restored(p).ratchet

(* The fresh ratchet key of a sender chain is one that has been counted.   *)
OwnKey(p, r, count) ==
    r.sender_chain # <<>> => \E n \in 0 .. count - 1 :
        r.sender_chain[1].ratchet_key = Pair!RatchetKey(p, n)

Idle(p) == call[p] = <<>> /\ session[p] = Restored(p)

EncryptPending(p) ==
    LET r == Pair!EnsureSenderChain(StoredRatchet(p), Pair!RatchetKey(p, generated[p])) IN
    /\ call[p] = <<[op |-> "encrypt", message |-> Message(p, Restored(p), r)]>>
    /\ Pair!HasSession(p)
    /\ encrypted[p] < MaxSends
    /\ session[p].ratchet = Pair!AdvanceSenderChain(r)
    /\ session[p].received_message = Restored(p).received_message

(* decrypt() makes r of the stored ratchet.                                *)
Decrypts(p, m, sequential, r) ==
    \/ /\ Pair!AcceptsOnNewChain(StoredRatchet(p), m)
       /\ r = Pair!AdvanceReceiverChain(Pair!AddReceiverChain(StoredRatchet(p), m), 1, m.counter)
    \/ \E i \in 1 .. Len(StoredRatchet(p).receiver_chains) :
          /\ Pair!AcceptsOnChain(StoredRatchet(p), m, i, sequential)
          /\ r = Pair!AdvanceReceiverChain(StoredRatchet(p), i, m.counter)
    \/ \E j \in 1 .. Len(StoredRatchet(p).skipped_message_keys) :
          /\ Pair!AcceptsSkipped(StoredRatchet(p), m, j)
          /\ r = Pair!UseSkipped(StoredRatchet(p), j)

DecryptPending(p) ==
    \E m \in Pair!Frames(p), sequential \in Modes :
        /\ call[p] = <<[op |-> "decrypt", message |-> m]>>
        /\ Decrypts(p, m, sequential, session[p].ratchet)
        /\ session[p].received_message = TRUE

Frame(m) ==
    m \in [from : {m.from}, body : {m.body}, type : {m.type}, ratchet_key : {m.ratchet_key},
           counter : Nat, key : {m.key}]

SharedInv ==
    /\ session = [p \in Party |-> session[p]] /\ stored = [p \in Party |-> stored[p]]
    /\ call = [p \in Party |-> call[p]] /\ generated \in [Party -> Nat]
    /\ encrypted = [p \in Party |-> encrypted[p]]
    /\ \A m \in sent : Frame(m)

PartyInv(p) ==
    /\ Storable(Restored(p)) /\ Storable(session[p])
    /\ OwnKey(p, StoredRatchet(p), generated[p])
    /\ Idle(p) \/ EncryptPending(p) \/ DecryptPending(p)

RInv == SharedInv /\ \A p \in Party : PartyInv(p)

-----------------------------------------------------------------------------
(* One call at a time.                                                     *)

LEMMA StorableWith ==
    ASSUME NEW s, Storable(s), NEW r, RatchetOk(r), NEW b, b \in BOOLEAN, NEW t,
           t \in [received_message : {b}, alice_identity_key : {s.alice_identity_key},
                  alice_base_key : {s.alice_base_key}, bob_one_time_key : {s.bob_one_time_key},
                  bob_prekey : {s.bob_prekey}, ratchet : {r}]
    PROVE  Storable(t) /\ t.ratchet = r /\ t.received_message = b
<1>1. /\ t.received_message = b /\ t.alice_identity_key = s.alice_identity_key
      /\ t.alice_base_key = s.alice_base_key /\ t.bob_one_time_key = s.bob_one_time_key
      /\ t.bob_prekey = s.bob_prekey /\ t.ratchet = r
    OBVIOUS
<1>2. t \in [received_message : BOOLEAN, alice_identity_key : {t.alice_identity_key},
             alice_base_key : {t.alice_base_key}, bob_one_time_key : {t.bob_one_time_key},
             bob_prekey : {t.bob_prekey}, ratchet : {t.ratchet}]
    BY <1>1
<1> QED
    BY <1>1, <1>2 DEF Storable

LEMMA FramesAreFrames ==
    ASSUME SharedInv, NEW p \in Party, NEW m \in Pair!Frames(p)
    PROVE  m.counter \in Nat
<1>1. PICK n \in Pair!SentTo(p) :
          m \in {n} \cup {[n EXCEPT !.counter = c] : c \in DamagedCounters}
                \cup {[n EXCEPT !.ratchet_key = k] : k \in DamagedKeys}
                \cup {[n EXCEPT !.key = [root |-> Pair!InitialRootKey(Noise), steps |-> 0]]}
    BY DEF Pair!Frames
<1>2. n \in [from : {n.from}, body : {n.body}, type : {n.type}, ratchet_key : {n.ratchet_key},
             counter : Nat, key : {n.key}]
    BY DEF Pair!SentTo, SharedInv, Frame
<1>3. CASE m = n
    BY <1>2, <1>3
<1>4. CASE \E c \in DamagedCounters : m = [n EXCEPT !.counter = c]
    BY <1>2, <1>4, RestartAssumption
<1>5. CASE \E k \in DamagedKeys : m = [n EXCEPT !.ratchet_key = k]
    BY <1>2, <1>5
<1>6. CASE m = [n EXCEPT !.key = [root |-> Pair!InitialRootKey(Noise), steps |-> 0]]
    BY <1>2, <1>6
<1> QED
    BY <1>1, <1>3, <1>4, <1>5, <1>6

(* What decrypt() makes of a ratchet that can be stored.                   *)
LEMMA DecryptsKeeps ==
    ASSUME NEW p \in Party, RatchetOk(StoredRatchet(p)), NEW m, m.counter \in Nat,
           NEW sequential, NEW r, Decrypts(p, m, sequential, r),
           OwnKey(p, StoredRatchet(p), generated[p])
    PROVE  RatchetOk(r) /\ OwnKey(p, r, generated[p])
<1> DEFINE old == StoredRatchet(p)
           added == Pair!AddReceiverChain(old, m)
<1>1. CASE /\ Pair!AcceptsOnNewChain(old, m)
           /\ r = Pair!AdvanceReceiverChain(added, 1, m.counter)
  <2>1. /\ RatchetOk(added) /\ added.sender_chain = <<>>
        /\ 1 \in 1 .. Len(added.receiver_chains)
        /\ added.receiver_chains[1].chain_key.index = 0
    BY AddReceiverKeeps
  <2> HIDE DEF added
  <2>2. added.receiver_chains[1].chain_key.index <= m.counter
    BY <2>1
  <2>3. RatchetOk(r) /\ r.sender_chain = added.sender_chain
    BY <1>1, <2>1, <2>2, AdvanceReceiverKeeps
  <2> QED
    BY <2>1, <2>3 DEF OwnKey
<1>2. ASSUME NEW i \in 1 .. Len(old.receiver_chains),
             Pair!AcceptsOnChain(old, m, i, sequential),
             r = Pair!AdvanceReceiverChain(old, i, m.counter)
      PROVE  RatchetOk(r) /\ OwnKey(p, r, generated[p])
  <2>1. old.receiver_chains[i].chain_key.index <= m.counter
    BY <1>2 DEF Pair!AcceptsOnChain, Pair!Opens
  <2>2. RatchetOk(r) /\ r.sender_chain = old.sender_chain
    BY <1>2, <2>1, AdvanceReceiverKeeps
  <2> QED
    BY <2>2 DEF OwnKey
<1>3. ASSUME NEW j \in 1 .. Len(old.skipped_message_keys), r = Pair!UseSkipped(old, j)
      PROVE  RatchetOk(r) /\ OwnKey(p, r, generated[p])
  <2>1. RatchetOk(r) /\ r.sender_chain = old.sender_chain
    BY <1>3, UseSkippedKeeps
  <2> QED
    BY <2>1 DEF OwnKey
<1> QED
    BY <1>1, <1>2, <1>3 DEF Decrypts

(* What is pending at a party is not touched by what the other one does.   *)
LEMMA OtherParty ==
    ASSUME NEW q \in Party, PartyInv(q), sent \subseteq sent',
           session'[q] = session[q], stored'[q] = stored[q], call'[q] = call[q],
           generated'[q] = generated[q], encrypted'[q] = encrypted[q]
    PROVE  PartyInv(q)'
<1>1. Restored(q)' = Restored(q)
    BY DEF Restored
<1>2. StoredRatchet(q)' = StoredRatchet(q)
    BY <1>1 DEF StoredRatchet
<1>3. /\ Storable(Restored(q))' /\ Storable(session[q])'
      /\ OwnKey(q, StoredRatchet(q), generated[q])'
  <2>1. Storable(Restored(q)') /\ Storable(session'[q])
    BY <1>1 DEF PartyInv
  <2>2. OwnKey(q, StoredRatchet(q)', generated'[q])
    BY <1>2 DEF PartyInv
  <2> QED
    BY <2>1, <2>2 DEF Storable, OwnKey
<1>4. CASE Idle(q)
  <2>1. Idle(q)'
    BY <1>1, <1>4 DEF Idle
  <2> QED
    BY <1>3, <2>1 DEF PartyInv
<1>5. Pair!SentTo(q) \subseteq Pair!SentTo(q)'
    BY DEF Pair!SentTo, Pair!Peer
<1>6. CASE EncryptPending(q)
  <2>1. Pair!HasSession(q)'
    BY <1>5, <1>6 DEF EncryptPending, Pair!HasSession
  <2>2. EncryptPending(q)'
    BY <1>1, <1>2, <1>6, <2>1 DEF EncryptPending, Message
  <2> QED
    BY <1>3, <2>2 DEF PartyInv
<1>7. CASE DecryptPending(q)
  <2>1. Pair!Frames(q) \subseteq Pair!Frames(q)'
    BY <1>5 DEF Pair!Frames
  <2>2. PICK m \in Pair!Frames(q), sequential \in Modes :
            /\ call[q] = <<[op |-> "decrypt", message |-> m]>>
            /\ Decrypts(q, m, sequential, session[q].ratchet)
            /\ session[q].received_message = TRUE
    BY <1>7 DEF DecryptPending
  <2>3. Decrypts(q, m, sequential, session[q].ratchet)'
    BY <1>2, <2>2 DEF Decrypts
  <2>4. DecryptPending(q)'
    BY <2>1, <2>2, <2>3 DEF DecryptPending
  <2> QED
    BY <1>3, <2>4 DEF PartyInv
<1> QED
    BY <1>4, <1>6, <1>7 DEF PartyInv

(* The sessions are stored as they were made.                              *)
LEMMA InitRInv == Init => RInv
<1> SUFFICES ASSUME Init PROVE RInv
    OBVIOUS
<1>1. SharedInv
    BY DEF Init, SharedInv, Party
<1>2. ASSUME NEW p \in Party PROVE PartyInv(p)
  <2> DEFINE key == Pair!RatchetKey(Alice, 0)
             r == IF p = Alice THEN Pair!InitialiseAsAlice(Secret, key)
                  ELSE Pair!InitialiseAsBob(Secret, key)
  <2>1. RatchetOk(r)
    BY InitialRatchets
  <2>2. OwnKey(p, r, generated[p])
    <3>1. CASE p = Alice
      <4>1. generated[p] = 1 /\ r = Pair!InitialiseAsAlice(Secret, key)
        BY <3>1 DEF Init
      <4>2. r.sender_chain[1].ratchet_key = key
        BY <4>1 DEF Pair!InitialiseAsAlice
      <4> HIDE DEF r
      <4>3. 0 \in 0 .. generated[p] - 1
        BY <4>1
      <4> QED
        BY <3>1, <4>2, <4>3 DEF OwnKey
    <3>2. CASE p # Alice
      BY <3>2 DEF OwnKey, Pair!InitialiseAsBob
    <3> QED
      BY <3>1, <3>2
  <2>3. session[p] = InitialSession(r)
    BY DEF Init
  <2> HIDE DEF r
  <2>4. Storable(session[p]) /\ session[p].ratchet = r
    BY <2>1, <2>3 DEF InitialSession, Storable
  <2>5. Restored(p) = session[p]
    <3>1. stored[p] = PickleSession(session[p])
      BY DEF Init
    <3> QED
      BY <2>4, <3>1, RoundTrip DEF Restored
  <2>6. Idle(p)
    BY <2>5 DEF Idle, Init
  <2> QED
    BY <2>2, <2>4, <2>5, <2>6 DEF PartyInv, StoredRatchet
<1> QED
    BY <1>1, <1>2 DEF RInv

(* A call that has been made is pending.                                   *)
LEMMA CalledKeeps ==
    ASSUME RInv, NEW p \in Party, NEW op, NEW m, NEW r, Called(p, op, m, r), RatchetOk(r),
           call[p] = <<>>
    PROVE  /\ session[p] = Restored(p) /\ Restored(p)' = Restored(p)
           /\ Storable(session'[p]) /\ session'[p].ratchet = r
           /\ session'[p].received_message = (session[p].received_message \/ op = "decrypt")
           /\ call'[p] = <<[op |-> op, message |-> m]>>
           /\ SharedInv' /\ \A q \in Party \ {p} : PartyInv(q)'
           /\ Storable(Restored(p))' /\ OwnKey(p, StoredRatchet(p), generated[p])'
<1>1. PartyInv(p) /\ SharedInv
    BY DEF RInv
<1>2. session[p] = Restored(p)
  <2>1. ~EncryptPending(p) /\ ~DecryptPending(p)
    BY DEF EncryptPending, DecryptPending
  <2> QED
    BY <1>1, <2>1 DEF PartyInv, Idle
<1>3. stored' = stored /\ generated' = generated /\ encrypted' = encrypted /\ sent' = sent
    BY DEF Called
<1>4. Restored(p)' = Restored(p) /\ StoredRatchet(p)' = StoredRatchet(p)
    BY <1>3 DEF Restored, StoredRatchet
<1>5. PICK b \in BOOLEAN : b = (session[p].received_message \/ op = "decrypt")
    OBVIOUS
<1>6. session' = [session EXCEPT ![p] = [@ EXCEPT !.ratchet = r, !.received_message = b]]
    BY <1>1, <1>5 DEF Called, SharedInv, PartyInv, Storable
<1>7. session'[p] = [session[p] EXCEPT !.ratchet = r, !.received_message = b]
    BY <1>1, <1>6 DEF SharedInv
<1>8. /\ Storable(session'[p]) /\ session'[p].ratchet = r
      /\ session'[p].received_message = b
  <2>1. PICK s, t : s = session[p] /\ t = session'[p]
    OBVIOUS
  <2>2. Storable(s)
    BY <1>1, <2>1 DEF PartyInv
  <2>3. t = [s EXCEPT !.ratchet = r, !.received_message = b]
    BY <1>7, <2>1
  <2>4. t \in [received_message : {b}, alice_identity_key : {s.alice_identity_key},
               alice_base_key : {s.alice_base_key}, bob_one_time_key : {s.bob_one_time_key},
               bob_prekey : {s.bob_prekey}, ratchet : {r}]
    BY <2>2, <2>3 DEF Storable
  <2>5. b \in BOOLEAN
    OBVIOUS
  <2>6. Storable(t) /\ t.ratchet = r /\ t.received_message = b
    BY <2>2, <2>4, <2>5, StorableWith
  <2> QED
    BY <2>1, <2>6
<1>9. call' = [call EXCEPT ![p] = <<[op |-> op, message |-> m]>>]
    BY DEF Called
<1>10. SharedInv'
  <2>1. \A n \in sent : Frame(n)'
    BY <1>1 DEF SharedInv, Frame
  <2> QED
    BY <1>1, <1>3, <1>6, <1>9, <2>1 DEF SharedInv
<1>11. ASSUME NEW q \in Party \ {p} PROVE PartyInv(q)'
  <2>1. session'[q] = session[q] /\ call'[q] = call[q]
    BY <1>1, <1>6, <1>9 DEF SharedInv
  <2>2. PartyInv(q)
    BY DEF RInv
  <2> QED
    BY <1>3, <2>1, <2>2, OtherParty
<1>12. Storable(Restored(p))' /\ OwnKey(p, StoredRatchet(p), generated[p])'
  <2>1. Storable(Restored(p)') /\ OwnKey(p, StoredRatchet(p)', generated'[p])
    BY <1>1, <1>3, <1>4 DEF PartyInv
  <2> QED
    BY <2>1 DEF Storable, OwnKey
<1>13. call'[p] = <<[op |-> op, message |-> m]>>
    BY <1>1, <1>9 DEF SharedInv
<1> QED
    BY <1>2, <1>4, <1>5, <1>8, <1>10, <1>11, <1>12, <1>13

LEMMA EncryptStep ==
    ASSUME RInv, NEW p \in Party, Encrypt(p)
    PROVE  RInv'
<1> DEFINE r == Pair!EnsureSenderChain(session[p].ratchet, Pair!RatchetKey(p, generated[p]))
           a == Pair!AdvanceSenderChain(r)
           m == Message(p, session[p], r)
<1>1. call[p] = <<>> /\ Pair!HasSession(p) /\ encrypted[p] < MaxSends
      /\ Called(p, "encrypt", m, a)
    BY DEF Encrypt
<1>2. RatchetOk(session[p].ratchet)
    BY DEF RInv, PartyInv, Storable
<1>3. RatchetOk(a)
    BY <1>2, EnsureKeeps, AdvanceSenderKeeps
<1> HIDE DEF a, m
<1>4. /\ session[p] = Restored(p) /\ Restored(p)' = Restored(p)
      /\ Storable(session'[p]) /\ session'[p].ratchet = a
      /\ session'[p].received_message = (session[p].received_message \/ "encrypt" = "decrypt")
      /\ call'[p] = <<[op |-> "encrypt", message |-> m]>>
      /\ SharedInv' /\ \A q \in Party \ {p} : PartyInv(q)'
      /\ Storable(Restored(p))' /\ OwnKey(p, StoredRatchet(p), generated[p])'
    BY <1>1, <1>3, CalledKeeps
<1>5. Storable(session[p])'
    BY <1>4 DEF Storable
<1>6. session[p].received_message \in BOOLEAN
    BY DEF RInv, PartyInv, Storable
<1>7. session'[p].received_message = session[p].received_message
    BY <1>4, <1>6
<1>8. /\ generated' = generated /\ sent' = sent /\ encrypted' = encrypted
    BY <1>1 DEF Called
<1>9. StoredRatchet(p)' = session[p].ratchet
    BY <1>4 DEF StoredRatchet
<1>10. Pair!HasSession(p)'
    BY <1>1, <1>8 DEF Pair!HasSession, Pair!SentTo, Pair!Peer
<1>11. EncryptPending(p)'
  <2> DEFINE e == Pair!EnsureSenderChain(StoredRatchet(p), Pair!RatchetKey(p, generated[p]))
  <2>1. e' = r
    BY <1>8, <1>9
  <2>2. Message(p, Restored(p), e)' = m
    BY <1>4, <1>8, <2>1 DEF m, Message
  <2>3. encrypted'[p] < MaxSends /\ session'[p].received_message = Restored(p)'.received_message
    BY <1>1, <1>4, <1>7, <1>8
  <2> HIDE DEF r
  <2>4. session'[p].ratchet = Pair!AdvanceSenderChain(e')
    BY <1>4, <2>1 DEF a
  <2> QED
    BY <1>4, <1>10, <2>2, <2>3, <2>4 DEF EncryptPending
<1> QED
    BY <1>4, <1>5, <1>11 DEF RInv, PartyInv

LEMMA DecryptStep ==
    ASSUME RInv, NEW p \in Party, NEW m \in Pair!Frames(p), NEW sequential \in Modes,
           Decrypt(p, m, sequential)
    PROVE  RInv'
<1>1. call[p] = <<>> /\ PartyInv(p) /\ SharedInv
    BY DEF Decrypt, RInv
<1>2. session[p] = Restored(p)
  <2>1. ~EncryptPending(p) /\ ~DecryptPending(p)
    BY <1>1 DEF EncryptPending, DecryptPending
  <2> QED
    BY <1>1, <2>1 DEF PartyInv, Idle
<1>3. StoredRatchet(p) = session[p].ratchet
    BY <1>2 DEF StoredRatchet
<1>4. PICK a : Decrypts(p, m, sequential, a) /\ Called(p, "decrypt", m, a)
  <2>1. CASE DecryptOnNewChain(p, m)
    BY <1>3, <2>1 DEF DecryptOnNewChain, Decrypts
  <2>2. CASE DecryptOnChain(p, m, sequential)
    BY <1>3, <2>2 DEF DecryptOnChain, Decrypts
  <2>3. CASE DecryptSkipped(p, m)
    BY <1>3, <2>3 DEF DecryptSkipped, Decrypts
  <2> QED
    BY <2>1, <2>2, <2>3 DEF Decrypt
<1>5. RatchetOk(a)
  <2>1. m.counter \in Nat
    BY <1>1, FramesAreFrames
  <2>2. RatchetOk(StoredRatchet(p)) /\ OwnKey(p, StoredRatchet(p), generated[p])
    BY <1>1 DEF PartyInv, Storable, StoredRatchet
  <2> QED
    BY <1>4, <2>1, <2>2, DecryptsKeeps
<1>6. /\ Storable(session'[p]) /\ session'[p].ratchet = a
      /\ session'[p].received_message = (session[p].received_message \/ "decrypt" = "decrypt")
      /\ call'[p] = <<[op |-> "decrypt", message |-> m]>>
      /\ SharedInv' /\ \A q \in Party \ {p} : PartyInv(q)'
      /\ Storable(Restored(p))' /\ OwnKey(p, StoredRatchet(p), generated[p])'
      /\ Restored(p)' = Restored(p)
    BY <1>1, <1>4, <1>5, CalledKeeps
<1>7. Storable(session[p])'
    BY <1>6 DEF Storable
<1>8. DecryptPending(p)'
  <2>1. sent' = sent
    BY <1>4 DEF Called
  <2>2. Pair!Frames(p)' = Pair!Frames(p)
    BY <2>1 DEF Pair!Frames, Pair!SentTo, Pair!Peer
  <2>3. StoredRatchet(p)' = StoredRatchet(p)
    BY <1>6 DEF StoredRatchet
  <2>4. Decrypts(p, m, sequential, session[p].ratchet)'
    BY <1>4, <1>6, <2>3 DEF Decrypts
  <2>5. session'[p].received_message = TRUE
    BY <1>6
  <2> QED
    BY <1>6, <2>2, <2>4, <2>5 DEF DecryptPending
<1> QED
    BY <1>6, <1>7, <1>8 DEF RInv, PartyInv

(* A device that starts again has nothing pending.                         *)
LEMMA RestartStep ==
    ASSUME RInv, NEW p \in Party, Restart(p)
    PROVE  RInv'
<1>1. PartyInv(p) /\ SharedInv
    BY DEF RInv
<1>2. /\ session' = [session EXCEPT ![p] = Restored(p)]
      /\ call' = [call EXCEPT ![p] = <<>>]
      /\ stored' = stored /\ generated' = generated /\ sent' = sent /\ encrypted' = encrypted
    BY DEF Restart
<1>3. Restored(p)' = Restored(p) /\ StoredRatchet(p)' = StoredRatchet(p)
    BY <1>2 DEF Restored, StoredRatchet
<1>4. session'[p] = Restored(p) /\ call'[p] = <<>>
    BY <1>1, <1>2 DEF SharedInv
<1>5. Idle(p)'
    BY <1>3, <1>4 DEF Idle
<1>6. /\ Storable(Restored(p))' /\ Storable(session[p])'
      /\ OwnKey(p, StoredRatchet(p), generated[p])'
  <2>1. /\ Storable(Restored(p)') /\ Storable(session'[p])
        /\ OwnKey(p, StoredRatchet(p)', generated'[p])
    BY <1>1, <1>2, <1>3, <1>4 DEF PartyInv
  <2> QED
    BY <2>1 DEF Storable, OwnKey
<1>7. ASSUME NEW q \in Party \ {p} PROVE PartyInv(q)'
  <2>1. session'[q] = session[q] /\ call'[q] = call[q]
    BY <1>1, <1>2 DEF SharedInv
  <2>2. PartyInv(q)
    BY DEF RInv
  <2> QED
    BY <1>2, <2>1, <2>2, OtherParty
<1>8. SharedInv'
  <2>1. \A n \in sent : Frame(n)'
    BY <1>1 DEF SharedInv, Frame
  <2> QED
    BY <1>1, <1>2, <2>1 DEF SharedInv
<1> QED
    BY <1>5, <1>6, <1>7, <1>8 DEF RInv, PartyInv

-----------------------------------------------------------------------------
(* Saving is the step of the pair of sessions.                             *)

StoredRatchets == [q \in {Alice, Bob} |-> Restored(q).ratchet]

StoredReceived == [q \in {Alice, Bob} |-> Restored(q).received_message]

(* What is saved of one session leaves the other as it was.                *)
LEMMA SavedSession ==
    ASSUME SharedInv, NEW p \in Party, Storable(session[p]),
           stored' = [stored EXCEPT ![p] = PickleSession(session[p])]
    PROVE  /\ Restored(p)' = session[p]
           /\ \A q \in Party \ {p} : stored'[q] = stored[q]
           /\ StoredRatchets' = [StoredRatchets EXCEPT ![p] = session[p].ratchet]
           /\ StoredReceived' = [StoredReceived EXCEPT ![p] = session[p].received_message]
<1>1. stored'[p] = PickleSession(session[p]) /\ \A q \in Party \ {p} : stored'[q] = stored[q]
    BY DEF SharedInv
<1>2. Restored(p)' = session[p]
  <2>1. UnpickleSession(PickleSession(session[p])) = session[p]
    BY RoundTrip
  <2>2. Restored(p)' = UnpickleSession(stored'[p])
    BY DEF Restored
  <2> QED
    BY <1>1, <2>1, <2>2, Zenon
<1>3. \A q \in Party \ {p} : Restored(q)' = Restored(q)
    BY <1>1 DEF Restored
<1>4. StoredRatchets' = [q \in Party |-> IF q = p THEN session[p].ratchet ELSE StoredRatchets[q]]
    BY <1>2, <1>3 DEF StoredRatchets, Party
<1>5. StoredReceived' = [q \in Party |-> IF q = p THEN session[p].received_message
                                         ELSE StoredReceived[q]]
    BY <1>2, <1>3 DEF StoredReceived, Party
<1> QED
    BY <1>1, <1>2, <1>4, <1>5 DEF StoredRatchets, StoredReceived, Party

(* The header of a message is that of the chain it is sent on.             *)
LEMMA MessageParts ==
    ASSUME NEW p, NEW s, NEW r, RatchetOk(r), Len(r.sender_chain) = 1
    PROVE  /\ Frame(Message(p, s, r))
           /\ Message(p, s, r).ratchet_key = r.sender_chain[1].ratchet_key
<1>1. r.sender_chain[1].chain_key.index \in Nat
    BY DEF RatchetOk, Indexed
<1> QED
    BY <1>1 DEF Message, Frame, Pair!EncryptedHeader, Pair!CreateMessageKey

(* The party that saves is idle again.                                     *)
LEMMA SavedKeeps ==
    ASSUME RInv, NEW p \in Party, Save(p),
           OwnKey(p, session[p].ratchet, generated'[p]),
           sent \subseteq sent', \A m \in sent' : Frame(m), generated' \in [Party -> Nat],
           \A q \in Party \ {p} : generated'[q] = generated[q] /\ encrypted'[q] = encrypted[q],
           encrypted' = [q \in Party |-> encrypted'[q]]
    PROVE  RInv'
<1>1. PartyInv(p) /\ SharedInv
    BY DEF RInv
<1>2. /\ stored' = [stored EXCEPT ![p] = PickleSession(session[p])]
      /\ call' = [call EXCEPT ![p] = <<>>] /\ session' = session
    BY DEF Save
<1>3. Storable(session[p])
    BY <1>1 DEF PartyInv
<1>4. Restored(p)' = session[p] /\ \A q \in Party \ {p} : stored'[q] = stored[q]
    BY <1>1, <1>2, <1>3, SavedSession
<1>5. StoredRatchet(p)' = session[p].ratchet
    BY <1>4 DEF StoredRatchet
<1>6. Idle(p)'
    BY <1>1, <1>2, <1>4 DEF Idle, SharedInv
<1>7. /\ Storable(Restored(p))' /\ Storable(session[p])'
      /\ OwnKey(p, StoredRatchet(p), generated[p])'
  <2>1. /\ Storable(Restored(p)') /\ Storable(session'[p])
        /\ OwnKey(p, StoredRatchet(p)', generated'[p])
    BY <1>2, <1>3, <1>4, <1>5
  <2> QED
    BY <2>1 DEF Storable, OwnKey
<1>8. ASSUME NEW q \in Party \ {p} PROVE PartyInv(q)'
  <2>1. /\ session'[q] = session[q] /\ call'[q] = call[q] /\ stored'[q] = stored[q]
        /\ generated'[q] = generated[q] /\ encrypted'[q] = encrypted[q]
    BY <1>1, <1>2, <1>4 DEF SharedInv
  <2>2. PartyInv(q)
    BY DEF RInv
  <2> QED
    BY <2>1, <2>2, OtherParty
<1>9. SharedInv'
  <2>1. \A n \in sent' : Frame(n)'
    BY DEF Frame
  <2> QED
    BY <1>1, <1>2, <2>1 DEF SharedInv
<1> QED
    BY <1>6, <1>7, <1>8, <1>9 DEF RInv, PartyInv

LEMMA SaveEncryptStep ==
    ASSUME RInv, NEW p \in Party, Save(p), EncryptPending(p)
    PROVE  RInv' /\ Pair!Encrypt(p)
<1> DEFINE old == StoredRatchet(p)
           key == Pair!RatchetKey(p, generated[p])
           r == Pair!EnsureSenderChain(old, key)
           a == Pair!AdvanceSenderChain(r)
           m == Message(p, Restored(p), r)
<1>1. PartyInv(p) /\ SharedInv
    BY DEF RInv
<1>2. /\ call[p] = <<[op |-> "encrypt", message |-> m]>>
      /\ Pair!HasSession(p) /\ encrypted[p] < MaxSends
      /\ session[p].ratchet = a
      /\ session[p].received_message = Restored(p).received_message
    BY DEF EncryptPending
<1>3. RatchetOk(old) /\ OwnKey(p, old, generated[p]) /\ Storable(session[p])
    BY <1>1 DEF PartyInv, Storable, StoredRatchet
<1>4. /\ RatchetOk(r) /\ Len(r.sender_chain) = 1
      /\ old.sender_chain = <<>> => r.sender_chain[1].ratchet_key = key
      /\ old.sender_chain # <<>> => r = old
    BY <1>3, EnsureKeeps
<1>5. Frame(m) /\ m.ratchet_key = r.sender_chain[1].ratchet_key
    BY <1>4, MessageParts
<1>6. Len(a.sender_chain) = 1 /\ a.sender_chain[1].ratchet_key = r.sender_chain[1].ratchet_key
    BY <1>4, AdvanceSenderKeeps
<1>7. generated[p] \in Nat
    BY <1>1 DEF SharedInv
<1>8. m.ratchet_key = key <=> old.sender_chain = <<>>
  <2>1. CASE old.sender_chain = <<>>
    BY <1>4, <1>5, <2>1
  <2>2. CASE old.sender_chain # <<>>
    <3>1. PICK n \in 0 .. generated[p] - 1 :
              old.sender_chain[1].ratchet_key = Pair!RatchetKey(p, n)
      BY <1>3, <2>2 DEF OwnKey
    <3>2. Pair!RatchetKey(p, n) # key
      BY <1>7, <3>1 DEF Pair!RatchetKey
    <3> QED
      BY <1>4, <1>5, <2>2, <3>1, <3>2
  <2> QED
    BY <2>1, <2>2
<1> HIDE DEF m, r, a
<1>9. /\ stored' = [stored EXCEPT ![p] = PickleSession(session[p])]
      /\ SaveEncrypted(p, m)
    BY <1>2 DEF Save
<1>10. /\ sent' = sent \cup {m}
       /\ encrypted' = [encrypted EXCEPT ![p] = @ + 1]
       /\ generated' = [generated EXCEPT ![p] = IF old.sender_chain = <<>> THEN @ + 1 ELSE @]
       /\ delivered' = delivered /\ decrypted' = decrypted
    BY <1>1, <1>8, <1>9 DEF SaveEncrypted, SharedInv
<1>11. OwnKey(p, session[p].ratchet, generated'[p])
  <2>1. CASE old.sender_chain = <<>>
    <3>1. a.sender_chain[1].ratchet_key = key
      BY <1>4, <1>6, <2>1
    <3>2. generated'[p] = generated[p] + 1
      BY <1>1, <1>10, <2>1 DEF SharedInv
    <3>3. generated[p] \in 0 .. generated'[p] - 1
      BY <1>7, <3>2
    <3> QED
      BY <1>2, <3>1, <3>3 DEF OwnKey
  <2>2. CASE old.sender_chain # <<>>
    <3>1. PICK n \in 0 .. generated[p] - 1 :
              old.sender_chain[1].ratchet_key = Pair!RatchetKey(p, n)
      BY <1>3, <2>2 DEF OwnKey
    <3>2. a.sender_chain[1].ratchet_key = Pair!RatchetKey(p, n)
      BY <1>4, <1>6, <2>2, <3>1
    <3>3. generated'[p] = generated[p]
      BY <1>1, <1>10, <2>2 DEF SharedInv
    <3> QED
      BY <1>2, <3>2, <3>3 DEF OwnKey
  <2> QED
    BY <2>1, <2>2
<1>12. RInv'
  <2>1. \A n \in sent' : Frame(n)
    BY <1>1, <1>5, <1>10 DEF SharedInv
  <2>2. generated' \in [Party -> Nat]
    BY <1>1, <1>7, <1>10 DEF SharedInv
  <2>3. \A q \in Party \ {p} : generated'[q] = generated[q] /\ encrypted'[q] = encrypted[q]
    BY <1>1, <1>10 DEF SharedInv
  <2>4. encrypted' = [q \in Party |-> encrypted'[q]]
    BY <1>1, <1>10 DEF SharedInv
  <2>5. sent \subseteq sent'
    BY <1>10
  <2> QED
    BY <1>11, <2>1, <2>2, <2>3, <2>4, <2>5, SavedKeeps
<1>13. /\ StoredRatchets' = [StoredRatchets EXCEPT ![p] = a]
       /\ StoredReceived' = StoredReceived
  <2>1. /\ StoredRatchets' = [StoredRatchets EXCEPT ![p] = session[p].ratchet]
        /\ StoredReceived' = [StoredReceived EXCEPT ![p] = session[p].received_message]
    BY <1>1, <1>3, <1>9, SavedSession
  <2>2. StoredReceived[p] = session[p].received_message
    BY <1>2 DEF StoredReceived, Party
  <2>3. StoredReceived = [q \in Party |-> StoredReceived[q]]
    BY DEF StoredReceived, Party
  <2> QED
    BY <1>2, <2>1, <2>2, <2>3
<1>14. StoredRatchets[p] = old /\ StoredReceived[p] = Restored(p).received_message
    BY DEF StoredRatchets, StoredReceived, StoredRatchet, Party
<1>15. Pair!Message(p, r) = m
    BY <1>14 DEF Pair!Message, Pair!EncryptMessageType, Message, m, StoredReceived
<1>16. Pair!Encrypt(p)
    BY <1>2, <1>10, <1>13, <1>14, <1>15 DEF Pair!Encrypt, r, a, StoredRatchets, StoredReceived
<1> QED
    BY <1>12, <1>16

LEMMA SaveDecryptStep ==
    ASSUME RInv, NEW p \in Party, Save(p), DecryptPending(p)
    PROVE  RInv' /\ \E m \in Pair!Frames(p), sequential \in Modes : Pair!Decrypt(p, m, sequential)
<1> DEFINE old == StoredRatchet(p)
           a == session[p].ratchet
<1>1. PartyInv(p) /\ SharedInv
    BY DEF RInv
<1>2. PICK m \in Pair!Frames(p), sequential \in Modes :
          /\ call[p] = <<[op |-> "decrypt", message |-> m]>>
          /\ Decrypts(p, m, sequential, a)
          /\ session[p].received_message = TRUE
    BY DEF DecryptPending
<1>3. RatchetOk(old) /\ OwnKey(p, old, generated[p]) /\ Storable(session[p])
    BY <1>1 DEF PartyInv, Storable, StoredRatchet
<1>4. m.counter \in Nat
    BY <1>1, FramesAreFrames
<1>5. OwnKey(p, a, generated[p])
    BY <1>2, <1>3, <1>4, DecryptsKeeps
<1>6. /\ stored' = [stored EXCEPT ![p] = PickleSession(session[p])]
      /\ SaveDecrypted(p, m)
    BY <1>2 DEF Save
<1>7. /\ generated' = generated /\ sent' = sent /\ encrypted' = encrypted
      /\ delivered' = [delivered EXCEPT ![p] = @ \cup {m}]
      /\ decrypted' = [decrypted EXCEPT ![p] = @ + 1]
    BY <1>6 DEF SaveDecrypted
<1>8. RInv'
  <2>1. /\ OwnKey(p, session[p].ratchet, generated'[p]) /\ sent \subseteq sent'
        /\ \A n \in sent' : Frame(n)
        /\ generated' \in [Party -> Nat]
        /\ \A q \in Party \ {p} : generated'[q] = generated[q] /\ encrypted'[q] = encrypted[q]
        /\ encrypted' = [q \in Party |-> encrypted'[q]]
    BY <1>1, <1>5, <1>7 DEF SharedInv
  <2> QED
    BY <2>1, SavedKeeps
<1>9. /\ StoredRatchets' = [StoredRatchets EXCEPT ![p] = a]
      /\ StoredReceived' = [StoredReceived EXCEPT ![p] = TRUE]
    BY <1>1, <1>2, <1>3, <1>6, SavedSession
<1>10. StoredRatchets[p] = old
    BY DEF StoredRatchets, StoredRatchet, Party
<1>11. Pair!Deliver(p, m)
    BY <1>7, <1>9 DEF Pair!Deliver, StoredReceived
<1>12. Pair!Decrypt(p, m, sequential)
  <2>0. StoredRatchets = [q \in {Alice, Bob} |-> StoredRatchets[q]] /\ p \in {Alice, Bob}
    BY DEF StoredRatchets, Party
  <2>1. CASE /\ Pair!AcceptsOnNewChain(old, m)
             /\ a = Pair!AdvanceReceiverChain(Pair!AddReceiverChain(old, m), 1, m.counter)
    <3>1. Pair!DecryptOnNewChain(p, m)
      BY <1>9, <1>10, <1>11, <2>0, <2>1 DEF Pair!DecryptOnNewChain, StoredRatchets
    <3> QED
      BY <3>1 DEF Pair!Decrypt
  <2>2. ASSUME NEW i \in 1 .. Len(old.receiver_chains),
               Pair!AcceptsOnChain(old, m, i, sequential),
               a = Pair!AdvanceReceiverChain(old, i, m.counter)
        PROVE  Pair!Decrypt(p, m, sequential)
    <3>1. Pair!DecryptOnChain(p, m, sequential)
      BY <1>9, <1>10, <1>11, <2>0, <2>2 DEF Pair!DecryptOnChain, StoredRatchets
    <3> QED
      BY <3>1 DEF Pair!Decrypt
  <2>3. ASSUME NEW j \in 1 .. Len(old.skipped_message_keys),
               Pair!AcceptsSkipped(old, m, j), a = Pair!UseSkipped(old, j)
        PROVE  Pair!Decrypt(p, m, sequential)
    <3>1. Pair!DecryptSkipped(p, m)
      BY <1>9, <1>10, <1>11, <2>0, <2>3 DEF Pair!DecryptSkipped, StoredRatchets
    <3> QED
      BY <3>1 DEF Pair!Decrypt
  <2> QED
    BY <1>2, <2>1, <2>2, <2>3 DEF Decrypts
<1> QED
    BY <1>8, <1>12

(* While nothing is saved, nothing is seen to happen.                      *)
LEMMA NotSaved ==
    ASSUME UNCHANGED <<stored, generated, sent, encrypted, delivered, decrypted>>
    PROVE  UNCHANGED Pair!vars
<1>1. StoredRatchets' = StoredRatchets /\ StoredReceived' = StoredReceived
    BY DEF StoredRatchets, StoredReceived, Restored
<1> QED
    BY <1>1 DEF Pair!vars, StoredRatchets, StoredReceived

LEMMA InitialPair == Init => Pair!Init
<1> SUFFICES ASSUME Init PROVE Pair!Init
    OBVIOUS
<1>1. RInv
    BY InitRInv
<1>2. ASSUME NEW p \in Party PROVE Restored(p) = session[p]
    BY <1>1 DEF RInv, PartyInv, Idle, EncryptPending, DecryptPending, Init
<1> DEFINE initial(p) == IF p = Alice THEN Pair!InitialiseAsAlice(Secret, Pair!RatchetKey(Alice, 0))
                         ELSE Pair!InitialiseAsBob(Secret, Pair!RatchetKey(Alice, 0))
<1>3. ASSUME NEW p \in Party
      PROVE  session[p].ratchet = initial(p) /\ session[p].received_message = FALSE
  <2> HIDE DEF initial
  <2>1. session[p] = InitialSession(initial(p))
    BY DEF Init, initial
  <2> QED
    BY <2>1 DEF InitialSession
<1>4. StoredRatchets = [p \in Party |-> initial(p)]
    BY <1>2, <1>3 DEF StoredRatchets, Party
<1>5. StoredReceived = [p \in Party |-> FALSE]
    BY <1>2, <1>3 DEF StoredReceived, Party
<1> QED
    BY <1>4, <1>5 DEF Init, Pair!Init, Pair!Party, Party, StoredRatchets, StoredReceived

(* A step of the devices keeps the invariant, and is a step of the pair of *)
(* sessions or none.                                                       *)
LEMMA StepOfPair ==
    ASSUME RInv, [Next]_vars
    PROVE  RInv' /\ [Pair!Next]_(Pair!vars)
<1> USE DEF Pair!Party, Party
<1>1. ASSUME NEW p \in Party, Encrypt(p) PROVE RInv' /\ UNCHANGED Pair!vars
  <2>1. UNCHANGED <<stored, generated, sent, encrypted, delivered, decrypted>>
    BY <1>1 DEF Encrypt, Called
  <2> QED
    BY <1>1, <2>1, EncryptStep, NotSaved
<1>2. ASSUME NEW p \in Party, NEW m \in Pair!Frames(p), NEW sequential \in Modes,
             Decrypt(p, m, sequential)
      PROVE  RInv' /\ UNCHANGED Pair!vars
  <2>1. UNCHANGED <<stored, generated, sent, encrypted, delivered, decrypted>>
    BY <1>2 DEF Decrypt, DecryptOnNewChain, DecryptOnChain, DecryptSkipped, Called
  <2> QED
    BY <1>2, <2>1, DecryptStep, NotSaved
<1>3. ASSUME NEW p \in Party, Save(p) PROVE RInv' /\ Pair!Next
  <2>1. PartyInv(p) /\ call[p] # <<>>
    BY <1>3 DEF RInv, Save
  <2>2. CASE EncryptPending(p)
    BY <1>3, <2>2, SaveEncryptStep DEF Pair!Next
  <2>3. CASE DecryptPending(p)
    BY <1>3, <2>3, SaveDecryptStep DEF Pair!Next
  <2> QED
    BY <2>1, <2>2, <2>3 DEF PartyInv, Idle
<1>4. ASSUME NEW p \in Party, Restart(p) PROVE RInv' /\ UNCHANGED Pair!vars
  <2>1. UNCHANGED <<stored, generated, sent, encrypted, delivered, decrypted>>
    BY <1>4 DEF Restart
  <2> QED
    BY <1>4, <2>1, RestartStep, NotSaved
<1>5. CASE UNCHANGED vars
  <2>1. /\ session' = session /\ stored' = stored /\ call' = call /\ generated' = generated
        /\ sent' = sent /\ encrypted' = encrypted
        /\ UNCHANGED <<stored, generated, sent, encrypted, delivered, decrypted>>
    BY <1>5 DEF vars
  <2>2. SharedInv'
    <3>1. SharedInv /\ \A n \in sent : Frame(n)'
      BY DEF RInv, SharedInv, Frame
    <3> QED
      BY <2>1, <3>1 DEF SharedInv
  <2>3. ASSUME NEW p \in Party PROVE PartyInv(p)'
    <3>1. PartyInv(p)
      BY DEF RInv
    <3> QED
      BY <2>1, <3>1, OtherParty
  <2> QED
    BY <2>1, <2>2, <2>3, NotSaved DEF RInv
<1> QED
    BY <1>1, <1>2, <1>3, <1>4, <1>5 DEF Next

(* Devices that stop and start again, as often and whenever they do, are   *)
(* seen to be a pair of sessions that never stops: what is encrypted,      *)
(* delivered and stored behaves as SessionPair says (session.cpp,          *)
(* ratchet.cpp, pickle.cpp), and so does every invariant of it.            *)
THEOREM RestartsUnseen == Spec => PairSpec
<1>1. Init => RInv /\ Pair!Init
    BY InitRInv, InitialPair
<1>2. RInv /\ [Next]_vars => RInv' /\ [Pair!Next]_(Pair!vars)
    BY StepOfPair
<1> QED
    BY <1>1, <1>2, PTL DEF Spec, PairSpec, Pair!Spec

(* A device that stops with nothing unsaved goes on exactly where it was;  *)
(* and every session that a device has, or goes on from, can be stored as  *)
(* it is and read again (olm_pickle_session, olm_unpickle_session).        *)
NothingLost ==
    \A p \in Party :
        /\ call[p] = <<>> => session[p] = Restored(p)
        /\ UnpickleSession(PickleSession(session[p])) = session[p]

THEOREM SavedSessionsWhole == Spec => []NothingLost
<1>1. Init => RInv
    BY InitRInv
<1>2. RInv /\ [Next]_vars => RInv'
    BY StepOfPair
<1>3. RInv => NothingLost
  <2> SUFFICES ASSUME RInv, NEW p \in Party
               PROVE  /\ call[p] = <<>> => session[p] = Restored(p)
                      /\ UnpickleSession(PickleSession(session[p])) = session[p]
    BY DEF NothingLost
  <2>1. PartyInv(p)
    BY DEF RInv
  <2>2. UnpickleSession(PickleSession(session[p])) = session[p]
    BY <2>1, RoundTrip DEF PartyInv
  <2>3. call[p] = <<>> => ~EncryptPending(p) /\ ~DecryptPending(p)
    BY DEF EncryptPending, DecryptPending
  <2>4. call[p] = <<>> => session[p] = Restored(p)
    BY <2>1, <2>3 DEF PartyInv, Idle
  <2> QED
    BY <2>2, <2>4
<1> QED
    BY <1>1, <1>2, <1>3, PTL DEF Spec

-----------------------------------------------------------------------------
(* A ratchet key that was not saved is nowhere but in the object that made *)
(* it.  For that, every key in what is stored or on its way is counted:    *)
(* also those that the root of a message's key was made of, since a        *)
(* damaged header is believed when its ratchet key and its MAC agree.      *)

Counted(k, count) ==
    \E q \in Party : \E n \in 0 .. count[q] - 1 : k = Pair!RatchetKey(q, n)

ListCounted(list, count) == \A i \in 1 .. Len(list) : Counted(list[i].ratchet_key, count)

RootCounted(root, count) ==
    /\ \E S : root.dhs \in Seq(S)
    /\ \A i \in 1 .. Len(root.dhs) : \A k \in root.dhs[i] : Counted(k, count)

ChainCounted(chain_key, count) ==
    /\ chain_key.key \in [root : {chain_key.key.root}, steps : {chain_key.key.steps}]
    /\ RootCounted(chain_key.key.root, count)

RatchetCounted(r, count) ==
    /\ r.sender_chain = <<>> => 1 \in 1 .. Len(r.receiver_chains)
    /\ RootCounted(r.root_key, count)
    /\ ListCounted(r.sender_chain, count)
    /\ \A i \in 1 .. Len(r.sender_chain) : ChainCounted(r.sender_chain[i].chain_key, count)
    /\ ListCounted(r.receiver_chains, count)
    /\ ListCounted(r.skipped_message_keys, count)

MessageCounted(m, count) ==
    Counted(m.ratchet_key, count) /\ RootCounted(m.key.root, count)

CountedInv ==
    /\ \A m \in sent : MessageCounted(m, generated)
    /\ \A p \in Party : RatchetCounted(StoredRatchet(p), generated)

(* The fresh key that olm_encrypt of p would use is counted.               *)
CountWith(p) == [generated EXCEPT ![p] = @ + 1]

(* What was counted stays so.                                              *)
LEMMA CountedLater ==
    ASSUME NEW count \in [Party -> Nat], NEW more \in [Party -> Nat],
           \A q \in Party : count[q] <= more[q]
    PROVE  /\ \A k : Counted(k, count) => Counted(k, more)
           /\ \A m : MessageCounted(m, count) => MessageCounted(m, more)
           /\ \A r : RatchetCounted(r, count) => RatchetCounted(r, more)
<1>1. ASSUME NEW k, Counted(k, count) PROVE Counted(k, more)
  <2>1. PICK q \in Party : \E n \in 0 .. count[q] - 1 : k = Pair!RatchetKey(q, n)
    BY <1>1 DEF Counted
  <2>2. PICK n \in 0 .. count[q] - 1 : k = Pair!RatchetKey(q, n)
    BY <2>1
  <2>3. n \in 0 .. more[q] - 1
    <3>1. count[q] \in Nat /\ more[q] \in Nat /\ count[q] <= more[q]
      OBVIOUS
    <3> QED
      BY <3>1
  <2> QED
    BY <2>2, <2>3 DEF Counted
<1> HIDE DEF Counted
<1>2. ASSUME NEW root, RootCounted(root, count) PROVE RootCounted(root, more)
    BY <1>1, <1>2 DEF RootCounted
<1>3. ASSUME NEW list, ListCounted(list, count) PROVE ListCounted(list, more)
    BY <1>1, <1>3 DEF ListCounted
<1>4. ASSUME NEW chain_key, ChainCounted(chain_key, count) PROVE ChainCounted(chain_key, more)
    BY <1>2, <1>4, Zenon DEF ChainCounted
<1>5. ASSUME NEW m, MessageCounted(m, count) PROVE MessageCounted(m, more)
    BY <1>1, <1>2, <1>5 DEF MessageCounted
<1>6. ASSUME NEW r, RatchetCounted(r, count) PROVE RatchetCounted(r, more)
    BY <1>2, <1>3, <1>4, <1>6 DEF RatchetCounted
<1> QED
    BY <1>1, <1>5, <1>6

LEMMA ListsCounted ==
    ASSUME NEW list, NEW old, NEW keys, NEW count, KeysFrom(list, old, keys),
           ListCounted(old, count), \A k \in keys : Counted(k, count)
    PROVE  ListCounted(list, count)
BY DEF KeysFrom, ListCounted

(* create_chain_key() of a root and two keys that are counted.             *)
LEMMA NextRootCounted ==
    ASSUME NEW root, NEW our_key, NEW their_key, NEW count,
           RootCounted(root, count), Counted(our_key, count), Counted(their_key, count)
    PROVE  RootCounted(Pair!NextRootKey(root, our_key, their_key), count)
<1> DEFINE pair == {our_key, their_key}
           next == Append(root.dhs, pair)
<1>1. PICK S : root.dhs \in Seq(S)
    BY DEF RootCounted
<1> DEFINE T == S \cup {pair}
<1>2. S \subseteq T /\ pair \in T
    OBVIOUS
<1> HIDE DEF T
<1>3. root.dhs \in Seq(T)
    BY <1>1, <1>2, SeqMonotonic
<1>4. /\ next \in Seq(T) /\ Len(root.dhs) \in Nat /\ Len(next) = Len(root.dhs) + 1
      /\ next[Len(root.dhs) + 1] = pair
      /\ \A i \in 1 .. Len(root.dhs) : next[i] = root.dhs[i]
  <2> HIDE DEF pair
  <2> QED
    BY <1>2, <1>3, AppendProperties, LenProperties
<1> HIDE DEF next
<1>5. ASSUME NEW i \in 1 .. Len(next), NEW k \in next[i] PROVE Counted(k, count)
  <2>1. CASE i \in 1 .. Len(root.dhs)
    BY <1>4, <1>5, <2>1 DEF RootCounted
  <2>2. CASE i = Len(root.dhs) + 1
    BY <1>4, <1>5, <2>2
  <2> QED
    BY <1>4, <2>1, <2>2
<1>6. Pair!NextRootKey(root, our_key, their_key).dhs = next
    BY DEF Pair!NextRootKey, Pair!SharedSecret, next
<1> QED
    BY <1>4, <1>5, <1>6 DEF RootCounted

LEMMA FirstChainCounted ==
    ASSUME NEW root, NEW count, RootCounted(root, count)
    PROVE  ChainCounted(Pair!FirstChainKey(root), count)
<1>1. /\ Pair!FirstChainKey(root).key = [root |-> root, steps |-> 0]
      /\ Pair!FirstChainKey(root).key.root = root
    BY DEF Pair!FirstChainKey
<1> QED
    BY <1>1 DEF ChainCounted

LEMMA NextChainCounted ==
    ASSUME NEW chain_key, NEW count, NEW n, ChainCounted(chain_key, count)
    PROVE  ChainCounted(Pair!AdvanceChainKey(chain_key, n), count)
<1> DEFINE next == Pair!AdvanceChainKey(chain_key, n)
<1>1. next.key = [chain_key.key EXCEPT !.steps = @ + n]
    BY DEF Pair!AdvanceChainKey
<1>2. chain_key.key \in [root : {chain_key.key.root}, steps : {chain_key.key.steps}]
    BY DEF ChainCounted
<1> HIDE DEF next
<1>3. next.key \in [root : {chain_key.key.root}, steps : {chain_key.key.steps + n}]
    BY <1>1, <1>2
<1>4. /\ next.key.root = chain_key.key.root
      /\ next.key \in [root : {next.key.root}, steps : {next.key.steps}]
    BY <1>3
<1>5. RootCounted(chain_key.key.root, count)
    BY DEF ChainCounted
<1>6. ChainCounted(next, count)
    BY <1>4, <1>5 DEF ChainCounted
<1> QED
    BY <1>6 DEF next

(* What encrypt() makes of a ratchet, and the message it writes.           *)
LEMMA EncryptCounted ==
    ASSUME NEW r, RatchetOk(r), NEW key, NEW count, RatchetCounted(r, count),
           r.sender_chain = <<>> => Counted(key, count)
    PROVE  LET e == Pair!EnsureSenderChain(r, key) IN
           /\ RatchetCounted(Pair!AdvanceSenderChain(e), count)
           /\ Counted(e.sender_chain[1].ratchet_key, count)
           /\ RootCounted(e.sender_chain[1].chain_key.key.root, count)
<1> DEFINE e == Pair!EnsureSenderChain(r, key)
           a == Pair!AdvanceSenderChain(e)
<1>1. /\ RatchetOk(e) /\ Len(e.sender_chain) = 1
      /\ r.sender_chain = <<>> => e.sender_chain[1].ratchet_key = key
      /\ r.sender_chain # <<>> => e = r
      /\ r.sender_chain = <<>> => Turned(e, r, key)
    BY EnsureKeeps
<1> HIDE DEF e
<1>2. /\ Len(a.sender_chain) = 1
      /\ a.sender_chain[1].ratchet_key = e.sender_chain[1].ratchet_key
      /\ a.sender_chain[1].chain_key = Pair!AdvanceChainKey(e.sender_chain[1].chain_key, 1)
      /\ a.root_key = e.root_key /\ a.receiver_chains = e.receiver_chains
      /\ a.skipped_message_keys = e.skipped_message_keys
    BY <1>1, AdvanceSenderKeeps
<1> HIDE DEF a
<1>3. /\ RootCounted(e.root_key, count) /\ Counted(e.sender_chain[1].ratchet_key, count)
      /\ ChainCounted(e.sender_chain[1].chain_key, count)
      /\ ListCounted(e.receiver_chains, count) /\ ListCounted(e.skipped_message_keys, count)
  <2>1. CASE r.sender_chain # <<>>
    <3>1. e = r /\ 1 \in 1 .. Len(e.sender_chain)
      BY <1>1, <2>1
    <3>2. /\ Counted(e.sender_chain[1].ratchet_key, count)
          /\ ChainCounted(e.sender_chain[1].chain_key, count)
      BY <3>1 DEF RatchetCounted, ListCounted
    <3> QED
      BY <3>1, <3>2 DEF RatchetCounted
  <2>2. CASE r.sender_chain = <<>>
    <3>1. /\ Turned(e, r, key) /\ e.sender_chain[1].ratchet_key = key /\ Counted(key, count)
      BY <1>1, <2>2
    <3>2. Counted(r.receiver_chains[1].ratchet_key, count)
      BY <2>2 DEF RatchetCounted, ListCounted
    <3>3. RootCounted(e.root_key, count)
      BY <3>1, <3>2, NextRootCounted DEF Turned, RatchetCounted
    <3>4. ChainCounted(e.sender_chain[1].chain_key, count)
      BY <3>1, <3>3, FirstChainCounted DEF Turned
    <3> QED
      BY <3>1, <3>3, <3>4 DEF Turned, RatchetCounted
  <2> QED
    BY <2>1, <2>2
<1>4. ChainCounted(a.sender_chain[1].chain_key, count)
    BY <1>2, <1>3, NextChainCounted
<1>5. RatchetCounted(a, count)
  <2>1. \A i \in 1 .. Len(a.sender_chain) : i = 1
    BY <1>2
  <2>2. a.sender_chain # <<>>
    BY <1>2, EmptySeq
  <2> QED
    BY <1>2, <1>3, <1>4, <2>1, <2>2 DEF RatchetCounted, ListCounted
<1>6. RootCounted(e.sender_chain[1].chain_key.key.root, count)
    BY <1>3 DEF ChainCounted
<1> QED
    BY <1>3, <1>5, <1>6 DEF a, e

(* A frame is a message of the peer, or what damage made of one: what its  *)
(* key was derived from is counted unless the key is noise, and then its   *)
(* ratchet key is.                                                         *)
LEMMA FrameCounted ==
    ASSUME SharedInv, CountedInv, NEW p \in Party, NEW m \in Pair!Frames(p)
    PROVE  Counted(m.ratchet_key, generated) \/ RootCounted(m.key.root, generated)
<1>1. PICK n \in Pair!SentTo(p) :
          m \in {n} \cup {[n EXCEPT !.counter = c] : c \in DamagedCounters}
                \cup {[n EXCEPT !.ratchet_key = k] : k \in DamagedKeys}
                \cup {[n EXCEPT !.key = [root |-> Pair!InitialRootKey(Noise), steps |-> 0]]}
    BY DEF Pair!Frames
<1>2. n \in [from : {n.from}, body : {n.body}, type : {n.type}, ratchet_key : {n.ratchet_key},
             counter : Nat, key : {n.key}]
    BY DEF Pair!SentTo, SharedInv, Frame
<1>3. Counted(n.ratchet_key, generated) /\ RootCounted(n.key.root, generated)
    BY DEF Pair!SentTo, CountedInv, MessageCounted
<1>4. m.ratchet_key = n.ratchet_key \/ m.key = n.key
    BY <1>1, <1>2
<1> QED
    BY <1>3, <1>4

(* The MAC of a message on a new chain ties its ratchet key to the root    *)
(* that its key was derived from.                                          *)
LEMMA NewKeyCounted ==
    ASSUME SharedInv, CountedInv, NEW p \in Party, NEW m \in Pair!Frames(p),
           NEW r, RatchetCounted(r, generated), Pair!AcceptsOnNewChain(r, m)
    PROVE  Counted(m.ratchet_key, generated)
<1> DEFINE root == Pair!NewRootFor(r, m)
           pair == {r.sender_chain[1].ratchet_key, m.ratchet_key}
           next == Append(r.root_key.dhs, pair)
<1>1. CASE RootCounted(m.key.root, generated)
  <2>1. m.key.root = root
    <3>1. Pair!MacMatches(Pair!FirstChainKey(root), m)
      BY DEF Pair!AcceptsOnNewChain, Pair!Opens, Pair!NewChainFor
    <3> HIDE DEF root
    <3> QED
      BY <3>1 DEF Pair!MacMatches, Pair!CreateMessageKey, Pair!AdvanceChainKey, Pair!FirstChainKey
  <2>2. root.dhs = next
    BY DEF Pair!NewRootFor, Pair!NextRootKey, Pair!SharedSecret
  <2>3. PICK S : r.root_key.dhs \in Seq(S)
    BY DEF RatchetCounted, RootCounted
  <2> DEFINE T == S \cup {pair}
  <2>4. S \subseteq T /\ pair \in T
    OBVIOUS
  <2> HIDE DEF T
  <2>5. r.root_key.dhs \in Seq(T)
    BY <2>3, <2>4, SeqMonotonic
  <2>6. /\ Len(r.root_key.dhs) \in Nat /\ Len(next) = Len(r.root_key.dhs) + 1
        /\ next[Len(r.root_key.dhs) + 1] = pair
    <3> HIDE DEF pair
    <3> QED
      BY <2>4, <2>5, AppendProperties, LenProperties
  <2> HIDE DEF next
  <2>7. Len(next) \in 1 .. Len(next) /\ m.ratchet_key \in next[Len(next)]
    BY <2>6
  <2> QED
    BY <1>1, <2>1, <2>2, <2>7 DEF RootCounted
<1>2. CASE Counted(m.ratchet_key, generated)
    BY <1>2
<1> QED
    BY <1>1, <1>2, FrameCounted

(* What decrypt() makes of a ratchet.                                      *)
LEMMA DecryptCounted ==
    ASSUME SharedInv, CountedInv, NEW p \in Party, NEW m \in Pair!Frames(p), NEW sequential,
           RatchetOk(StoredRatchet(p)), NEW r, Decrypts(p, m, sequential, r)
    PROVE  RatchetCounted(r, generated)
<1> DEFINE old == StoredRatchet(p)
           added == Pair!AddReceiverChain(old, m)
<1>1. RatchetCounted(old, generated) /\ m.counter \in Nat
    BY FramesAreFrames DEF CountedInv
<1>2. CASE /\ Pair!AcceptsOnNewChain(old, m)
           /\ r = Pair!AdvanceReceiverChain(added, 1, m.counter)
  <2>1. /\ RatchetOk(added) /\ added.sender_chain = <<>>
        /\ 1 \in 1 .. Len(added.receiver_chains)
        /\ added.receiver_chains[1].chain_key.index = 0
        /\ added.root_key = Pair!NewRootFor(old, m)
        /\ KeysFrom(added.receiver_chains, old.receiver_chains, {m.ratchet_key})
        /\ added.skipped_message_keys = old.skipped_message_keys
    BY AddReceiverKeeps
  <2> HIDE DEF added
  <2>2. added.receiver_chains[1].chain_key.index <= m.counter
    BY <1>1, <2>1
  <2>3. /\ r.sender_chain = added.sender_chain /\ r.root_key = added.root_key
        /\ Len(r.receiver_chains) = Len(added.receiver_chains)
        /\ KeysFrom(r.receiver_chains, added.receiver_chains, {})
        /\ KeysFrom(r.skipped_message_keys, added.skipped_message_keys,
                    {added.receiver_chains[1].ratchet_key})
    BY <1>1, <1>2, <2>1, <2>2, AdvanceReceiverKeeps
  <2>4. Counted(m.ratchet_key, generated)
    BY <1>1, <1>2, NewKeyCounted
  <2>5. old.sender_chain # <<>>
    BY <1>2 DEF Pair!AcceptsOnNewChain
  <2>6. Counted(old.sender_chain[1].ratchet_key, generated)
    <3>1. PICK S : old.sender_chain \in Seq(S)
      BY DEF RatchetOk, IsList
    <3>2. 1 \in 1 .. Len(old.sender_chain)
      BY <2>5, <3>1, EmptySeq, LenProperties
    <3> QED
      BY <1>1, <3>2 DEF RatchetCounted, ListCounted
  <2>7. RootCounted(r.root_key, generated)
    BY <1>1, <2>1, <2>3, <2>4, <2>6, NextRootCounted DEF Pair!NewRootFor, RatchetCounted
  <2>8. /\ ListCounted(added.receiver_chains, generated)
        /\ ListCounted(added.skipped_message_keys, generated)
    BY <1>1, <2>1, <2>4, ListsCounted DEF RatchetCounted
  <2>9. Counted(added.receiver_chains[1].ratchet_key, generated)
    BY <2>1, <2>8 DEF ListCounted
  <2>10. /\ ListCounted(r.receiver_chains, generated)
         /\ ListCounted(r.skipped_message_keys, generated)
    BY <2>3, <2>8, <2>9, ListsCounted
  <2>11. Len(r.sender_chain) = 0
    BY <2>1, <2>3
  <2> QED
    BY <2>1, <2>3, <2>7, <2>10, <2>11 DEF RatchetCounted, ListCounted
<1>3. ASSUME NEW i \in 1 .. Len(old.receiver_chains),
             Pair!AcceptsOnChain(old, m, i, sequential),
             r = Pair!AdvanceReceiverChain(old, i, m.counter)
      PROVE  RatchetCounted(r, generated)
  <2>1. old.receiver_chains[i].chain_key.index <= m.counter
    BY <1>3 DEF Pair!AcceptsOnChain, Pair!Opens
  <2>2. /\ r.sender_chain = old.sender_chain /\ r.root_key = old.root_key
        /\ Len(r.receiver_chains) = Len(old.receiver_chains)
        /\ KeysFrom(r.receiver_chains, old.receiver_chains, {})
        /\ KeysFrom(r.skipped_message_keys, old.skipped_message_keys,
                    {old.receiver_chains[i].ratchet_key})
    BY <1>1, <1>3, <2>1, AdvanceReceiverKeeps
  <2>3. Counted(old.receiver_chains[i].ratchet_key, generated)
    BY <1>1 DEF RatchetCounted, ListCounted
  <2>4. /\ ListCounted(r.receiver_chains, generated)
        /\ ListCounted(r.skipped_message_keys, generated)
    BY <1>1, <2>2, <2>3, ListsCounted DEF RatchetCounted
  <2> QED
    BY <1>1, <2>2, <2>4 DEF RatchetCounted
<1>4. ASSUME NEW j \in 1 .. Len(old.skipped_message_keys), r = Pair!UseSkipped(old, j)
      PROVE  RatchetCounted(r, generated)
  <2>1. /\ r.sender_chain = old.sender_chain /\ r.root_key = old.root_key
        /\ r.receiver_chains = old.receiver_chains
        /\ KeysFrom(r.skipped_message_keys, old.skipped_message_keys, {})
    BY <1>4, UseSkippedKeeps
  <2>2. ListCounted(r.skipped_message_keys, generated)
    BY <1>1, <2>1, ListsCounted DEF RatchetCounted
  <2> QED
    BY <1>1, <2>1, <2>2 DEF RatchetCounted
<1> QED
    BY <1>2, <1>3, <1>4 DEF Decrypts

LEMMA CountedWith ==
    ASSUME SharedInv, NEW p \in Party
    PROVE  /\ CountWith(p) \in [Party -> Nat]
           /\ \A q \in Party : generated[q] <= CountWith(p)[q]
           /\ \A q \in Party \ {p} : CountWith(p)[q] = generated[q]
           /\ Counted(Pair!RatchetKey(p, generated[p]), CountWith(p))
<1>1. generated \in [Party -> Nat] /\ generated[p] \in Nat
    BY DEF SharedInv
<1>2. /\ CountWith(p) \in [Party -> Nat] /\ CountWith(p)[p] = generated[p] + 1
      /\ \A q \in Party \ {p} : CountWith(p)[q] = generated[q]
    BY <1>1 DEF CountWith
<1>3. \A q \in Party : generated[q] <= CountWith(p)[q]
    BY <1>1, <1>2
<1>4. generated[p] \in 0 .. CountWith(p)[p] - 1
    BY <1>1, <1>2
<1> QED
    BY <1>2, <1>3, <1>4 DEF Counted

LEMMA InitCounted == Init => CountedInv
<1> SUFFICES ASSUME Init PROVE CountedInv
    OBVIOUS
<1>1. RInv
    BY InitRInv
<1> DEFINE key == Pair!RatchetKey(Alice, 0)
           root == Pair!InitialRootKey(Secret)
           chain == [ratchet_key |-> key, chain_key |-> Pair!FirstChainKey(root)]
           none == <<>>
           one == <<chain>>
           alice == Pair!InitialiseAsAlice(Secret, key)
           bob == Pair!InitialiseAsBob(Secret, key)
<1>2. Counted(key, generated)
  <2>1. generated[Alice] = 1 /\ Alice \in Party
    BY DEF Init, Party
  <2>2. 0 \in 0 .. generated[Alice] - 1
    BY <2>1
  <2> QED
    BY <2>1, <2>2 DEF Counted
<1>3. RootCounted(root, generated)
  <2>1. root.dhs = <<>>
    BY DEF Pair!InitialRootKey
  <2>2. <<>> \in Seq({}) /\ Len(<<>>) = 0
    OBVIOUS
  <2> HIDE DEF root
  <2> QED
    BY <2>1, <2>2 DEF RootCounted
<1>4. /\ chain.ratchet_key = key /\ ChainCounted(chain.chain_key, generated)
  <2>1. ChainCounted(Pair!FirstChainKey(root), generated)
    BY <1>3, FirstChainCounted
  <2> QED
    BY <2>1
<1>5. /\ alice = [root_key |-> root, sender_chain |-> one, receiver_chains |-> none,
                  skipped_message_keys |-> none]
      /\ bob = [root_key |-> root, sender_chain |-> none, receiver_chains |-> one,
                skipped_message_keys |-> none]
    BY DEF Pair!InitialiseAsAlice, Pair!InitialiseAsBob
<1> HIDE DEF key, root, chain
<1>6. Len(one) = 1 /\ one[1] = chain /\ Len(none) = 0 /\ one # none
    OBVIOUS
<1> HIDE DEF none, alice, bob
<1>7. ListCounted(one, generated) /\ ListCounted(none, generated)
  <2>1. \A i \in 1 .. Len(one) : i = 1
    BY <1>6
  <2> HIDE DEF one
  <2> QED
    BY <1>2, <1>4, <1>6, <2>1 DEF ListCounted
<1>8. \A i \in 1 .. Len(one) : ChainCounted(one[i].chain_key, generated)
  <2>1. \A i \in 1 .. Len(one) : i = 1
    BY <1>6
  <2> HIDE DEF one
  <2> QED
    BY <1>4, <1>6, <2>1
<1> HIDE DEF one
<1>9. RatchetCounted(alice, generated) /\ RatchetCounted(bob, generated)
  <2>1. /\ alice.root_key = root /\ alice.sender_chain = one
        /\ alice.receiver_chains = none /\ alice.skipped_message_keys = none
        /\ bob.root_key = root /\ bob.sender_chain = none
        /\ bob.receiver_chains = one /\ bob.skipped_message_keys = none
    BY <1>5
  <2>2. \A i \in 1 .. Len(none) : FALSE
    BY <1>6
  <2>3. alice.sender_chain # <<>> /\ 1 \in 1 .. Len(bob.receiver_chains)
    BY <1>6, <2>1 DEF none
  <2>4. RatchetCounted(alice, generated)
    BY <1>3, <1>7, <1>8, <2>1, <2>3 DEF RatchetCounted
  <2>5. RatchetCounted(bob, generated)
    BY <1>3, <1>7, <1>8, <2>1, <2>2, <2>3 DEF RatchetCounted
  <2> QED
    BY <2>4, <2>5
<1>10. ASSUME NEW p \in Party PROVE RatchetCounted(StoredRatchet(p), generated)
  <2>1. Restored(p) = session[p]
    BY <1>1 DEF RInv, PartyInv, Idle, EncryptPending, DecryptPending, Init
  <2>2. session[p] = InitialSession(IF p = Alice THEN alice ELSE bob)
    BY DEF Init, alice, bob, key
  <2>3. StoredRatchet(p) = IF p = Alice THEN alice ELSE bob
    BY <2>1, <2>2 DEF StoredRatchet, InitialSession
  <2> QED
    BY <1>9, <2>3
<1>11. \A m \in sent : MessageCounted(m, generated)
    BY DEF Init
<1> QED
    BY <1>10, <1>11 DEF CountedInv

(* A saved call of olm_encrypt counts the key it made.                     *)
LEMMA EncryptCountedStep ==
    ASSUME RInv, CountedInv, NEW p \in Party, Pair!Encrypt(p)
    PROVE  CountedInv'
<1> DEFINE old == StoredRatchet(p)
           key == Pair!RatchetKey(p, generated[p])
           e == Pair!EnsureSenderChain(old, key)
           a == Pair!AdvanceSenderChain(e)
           m == Pair!Message(p, e)
           count == IF old.sender_chain = <<>> THEN CountWith(p) ELSE generated
<1>1. SharedInv /\ RatchetOk(old) /\ RatchetCounted(old, generated)
    BY DEF RInv, PartyInv, Storable, StoredRatchet, CountedInv
<1>2. StoredRatchets[p] = old /\ StoredRatchets = [q \in Party |-> StoredRatchet(q)]
    BY DEF StoredRatchets, StoredRatchet, Party
<1>3. /\ sent' = sent \cup {m}
      /\ StoredRatchets' = [StoredRatchets EXCEPT ![p] = a]
      /\ generated' = [generated EXCEPT ![p] = IF old.sender_chain = <<>> THEN @ + 1 ELSE @]
    BY <1>2, Zenon DEF Pair!Encrypt, StoredRatchets, StoredRatchet
<1>4. generated' = count
    BY <1>1, <1>3 DEF SharedInv, CountWith
<1>5. /\ count \in [Party -> Nat] /\ \A q \in Party : generated[q] <= count[q]
      /\ old.sender_chain = <<>> => Counted(key, count)
  <2>1. generated \in [Party -> Nat] /\ \A q \in Party : generated[q] <= generated[q]
    BY <1>1 DEF SharedInv
  <2> QED
    BY <1>1, <2>1, CountedWith
<1> HIDE DEF count
<1>6. /\ generated \in [Party -> Nat]
      /\ \A n : MessageCounted(n, generated) => MessageCounted(n, count)
      /\ \A r : RatchetCounted(r, generated) => RatchetCounted(r, count)
  <2>1. generated \in [Party -> Nat]
    BY <1>1 DEF SharedInv
  <2> QED
    BY <1>5, <2>1, CountedLater
<1>7. /\ RatchetCounted(a, count)
      /\ Counted(e.sender_chain[1].ratchet_key, count)
      /\ RootCounted(e.sender_chain[1].chain_key.key.root, count)
    BY <1>1, <1>5, <1>6, EncryptCounted
<1>8. MessageCounted(m, count)
  <2>1. /\ m.ratchet_key = e.sender_chain[1].ratchet_key
        /\ m.key = e.sender_chain[1].chain_key.key
    BY DEF Pair!Message, Pair!EncryptedHeader, Pair!CreateMessageKey
  <2> QED
    BY <1>7, <2>1 DEF MessageCounted
<1>9. \A n \in sent' : MessageCounted(n, generated')
    BY <1>3, <1>4, <1>6, <1>8 DEF CountedInv
<1>10. ASSUME NEW q \in Party PROVE RatchetCounted(StoredRatchet(q)', generated')
  <2>1. StoredRatchets'[q] = IF q = p THEN a ELSE StoredRatchet(q)
    BY <1>2, <1>3
  <2>2. StoredRatchets'[q] = StoredRatchet(q)'
    BY DEF StoredRatchets, StoredRatchet, Party
  <2>3. RatchetCounted(StoredRatchet(q), generated)
    BY DEF CountedInv
  <2> QED
    BY <1>4, <1>6, <1>7, <2>1, <2>2, <2>3
<1> QED
    BY <1>9, <1>10 DEF CountedInv, MessageCounted, RatchetCounted, Counted, RootCounted,
                       ListCounted, ChainCounted

(* A saved call of olm_decrypt makes no key.                               *)
LEMMA DecryptCountedStep ==
    ASSUME RInv, CountedInv, NEW p \in Party, NEW m \in Pair!Frames(p), NEW sequential \in Modes,
           Pair!Decrypt(p, m, sequential)
    PROVE  CountedInv'
<1>1. SharedInv /\ RatchetOk(StoredRatchet(p))
    BY DEF RInv, PartyInv, Storable, StoredRatchet
<1>2. StoredRatchets[p] = StoredRatchet(p) /\ StoredRatchets = [q \in Party |-> StoredRatchet(q)]
    BY DEF StoredRatchets, StoredRatchet, Party
<1>3. PICK r : /\ Decrypts(p, m, sequential, r)
               /\ StoredRatchets' = [StoredRatchets EXCEPT ![p] = r]
               /\ Pair!Deliver(p, m)
  <2>1. CASE Pair!DecryptOnNewChain(p, m)
    BY <1>2, <2>1 DEF Pair!DecryptOnNewChain, StoredRatchets, Decrypts
  <2>2. CASE Pair!DecryptOnChain(p, m, sequential)
    BY <1>2, <2>2 DEF Pair!DecryptOnChain, StoredRatchets, Decrypts
  <2>3. CASE Pair!DecryptSkipped(p, m)
    BY <1>2, <2>3 DEF Pair!DecryptSkipped, StoredRatchets, Decrypts
  <2> QED
    BY <2>1, <2>2, <2>3 DEF Pair!Decrypt
<1>4. RatchetCounted(r, generated)
    BY <1>1, <1>3, DecryptCounted
<1>5. generated' = generated /\ sent' = sent
    BY <1>3 DEF Pair!Deliver
<1>6. ASSUME NEW q \in Party PROVE RatchetCounted(StoredRatchet(q)', generated')
  <2>1. StoredRatchets'[q] = IF q = p THEN r ELSE StoredRatchet(q)
    BY <1>2, <1>3
  <2>2. StoredRatchets'[q] = StoredRatchet(q)'
    BY DEF StoredRatchets, StoredRatchet, Party
  <2>3. RatchetCounted(StoredRatchet(q), generated)
    BY DEF CountedInv
  <2> QED
    BY <1>4, <1>5, <2>1, <2>2, <2>3
<1>7. \A n \in sent' : MessageCounted(n, generated')
    BY <1>5 DEF CountedInv
<1> QED
    BY <1>6, <1>7 DEF CountedInv, MessageCounted, RatchetCounted, Counted, RootCounted,
                      ListCounted, ChainCounted

LEMMA CountedStep ==
    ASSUME RInv, CountedInv, [Pair!Next]_(Pair!vars)
    PROVE  CountedInv'
<1> USE DEF Pair!Party, Party
<1>1. ASSUME NEW p \in Party, Pair!Encrypt(p) PROVE CountedInv'
    BY <1>1, EncryptCountedStep
<1>2. ASSUME NEW p \in Party, NEW m \in Pair!Frames(p), NEW sequential \in Modes,
             Pair!Decrypt(p, m, sequential)
      PROVE  CountedInv'
    BY <1>2, DecryptCountedStep
<1>3. CASE UNCHANGED Pair!vars
  <2>1. /\ StoredRatchets' = StoredRatchets /\ generated' = generated /\ sent' = sent
    BY <1>3 DEF Pair!vars, StoredRatchets
  <2>2. ASSUME NEW q \in Party PROVE StoredRatchet(q)' = StoredRatchet(q)
    <3>1. StoredRatchets[q] = StoredRatchet(q) /\ StoredRatchets'[q] = StoredRatchet(q)'
      BY DEF StoredRatchets, StoredRatchet
    <3> QED
      BY <2>1, <3>1
  <2>3. /\ \A m \in sent' : MessageCounted(m, generated')
        /\ \A q \in Party : RatchetCounted(StoredRatchet(q)', generated')
    BY <2>1, <2>2 DEF CountedInv
  <2> QED
    BY <2>3 DEF CountedInv, MessageCounted, RatchetCounted, Counted, RootCounted,
                ListCounted, ChainCounted
<1>4. ASSUME NEW p \in Party, NEW m \in Pair!Frames(p), NEW sequential \in Modes,
             Pair!DecryptRejected(p, m, sequential)
      PROVE  CountedInv'
    BY <1>3, <1>4 DEF Pair!DecryptRejected
<1> QED
    BY <1>1, <1>2, <1>3, <1>4 DEF Pair!Next

(* The keys a ratchet holds are those that are counted.                    *)
LEMMA KeysOfCounted ==
    ASSUME NEW r, NEW count, RatchetCounted(r, count), NEW k \in KeysOf(r)
    PROVE  Counted(k, count)
<1>1. CASE k \in {r.sender_chain[i].ratchet_key : i \in 1 .. Len(r.sender_chain)}
    BY <1>1 DEF RatchetCounted, ListCounted
<1>2. CASE k \in {r.receiver_chains[i].ratchet_key : i \in 1 .. Len(r.receiver_chains)}
    BY <1>2 DEF RatchetCounted, ListCounted
<1>3. CASE k \in {r.skipped_message_keys[j].ratchet_key : j \in 1 .. Len(r.skipped_message_keys)}
    BY <1>3 DEF RatchetCounted, ListCounted
<1>4. CASE k \in UNION {r.root_key.dhs[i] : i \in 1 .. Len(r.root_key.dhs)}
    BY <1>4 DEF RatchetCounted, RootCounted
<1> QED
    BY <1>1, <1>2, <1>3, <1>4 DEF KeysOf

LEMMA CountedBelow ==
    ASSUME NEW count \in [Party -> Nat], NEW k, Counted(k, count), k.owner \in Party
    PROVE  k.n < count[k.owner]
<1>1. PICK q \in Party : \E n \in 0 .. count[q] - 1 : k = Pair!RatchetKey(q, n)
    BY DEF Counted
<1>2. PICK n \in 0 .. count[q] - 1 : k = Pair!RatchetKey(q, n)
    BY <1>1
<1>3. k.owner = q /\ k.n = n /\ count[q] \in Nat
    BY <1>2 DEF Pair!RatchetKey
<1> QED
    BY <1>2, <1>3

(* A session in memory holds at most one key that is not counted: its own  *)
(* fresh one, until it is saved.                                           *)
LEMMA SessionCounted ==
    ASSUME RInv, CountedInv, NEW p \in Party
    PROVE  RatchetCounted(session[p].ratchet, CountWith(p))
<1>1. /\ SharedInv /\ PartyInv(p) /\ RatchetOk(StoredRatchet(p))
      /\ RatchetCounted(StoredRatchet(p), generated)
    BY DEF RInv, PartyInv, Storable, StoredRatchet, CountedInv
<1>2. \A r : RatchetCounted(r, generated) => RatchetCounted(r, CountWith(p))
  <2>1. generated \in [Party -> Nat]
    BY <1>1 DEF SharedInv
  <2> QED
    BY <1>1, <2>1, CountedWith, CountedLater
<1>3. CASE Idle(p)
    BY <1>1, <1>2, <1>3 DEF Idle, StoredRatchet
<1>4. CASE EncryptPending(p)
  <2>1. Counted(Pair!RatchetKey(p, generated[p]), CountWith(p))
    BY <1>1, CountedWith
  <2> QED
    BY <1>1, <1>2, <1>4, <2>1, EncryptCounted DEF EncryptPending
<1>5. CASE DecryptPending(p)
  <2>1. PICK m \in Pair!Frames(p), sequential \in Modes :
            Decrypts(p, m, sequential, session[p].ratchet)
    BY <1>5 DEF DecryptPending
  <2> QED
    BY <1>1, <1>2, <2>1, DecryptCounted
<1> QED
    BY <1>1, <1>3, <1>4, <1>5 DEF PartyInv

LEMMA UnseenFollows == RInv /\ CountedInv => UnsavedKeysUnseen
<1> SUFFICES ASSUME RInv, CountedInv, NEW p \in Party,
                    NEW k, k.owner = p,
                    k \in {m.ratchet_key : m \in sent} \cup KeysOf(Restored(p).ratchet)
                          \cup KeysOf(session[Pair!Peer(p)].ratchet)
             PROVE  k.n < generated[p]
    BY DEF UnsavedKeysUnseen
<1>1. SharedInv /\ generated \in [Party -> Nat]
    BY DEF RInv, SharedInv
<1>2. CASE Counted(k, generated)
    BY <1>1, <1>2, CountedBelow
<1>3. CASE k \in {m.ratchet_key : m \in sent}
    BY <1>2, <1>3 DEF CountedInv, MessageCounted
<1>4. CASE k \in KeysOf(Restored(p).ratchet)
    BY <1>2, <1>4, KeysOfCounted DEF CountedInv, StoredRatchet
<1>5. CASE k \in KeysOf(session[Pair!Peer(p)].ratchet)
  <2> DEFINE q == Pair!Peer(p)
  <2>1. q \in Party /\ q # p
    BY RestartAssumption DEF Pair!Peer, Party
  <2> HIDE DEF q
  <2>2. Counted(k, CountWith(q))
    BY <1>5, <2>1, SessionCounted, KeysOfCounted DEF q
  <2>3. CountWith(q) \in [Party -> Nat] /\ CountWith(q)[p] = generated[p]
    BY <1>1, <2>1, CountedWith
  <2> QED
    BY <2>2, <2>3, CountedBelow
<1> QED
    BY <1>3, <1>4, <1>5

(* A ratchet key is on its way, or at the peer, or in the stored session,  *)
(* only if the session that made it was saved: after a restart its name is *)
(* free, and a fresh key takes it (Ratchet::encrypt, ratchet.cpp, over     *)
(* olm_pickle_session and olm_unpickle_session).                           *)
THEOREM UnsavedKeysNowhere == Spec => []UnsavedKeysUnseen
<1>1. Init => RInv /\ CountedInv
    BY InitRInv, InitCounted
<1>2. RInv /\ CountedInv /\ [Next]_vars => (RInv /\ CountedInv)'
    BY StepOfPair, CountedStep
<1> QED
    BY <1>1, <1>2, UnseenFollows, PTL DEF Spec

-----------------------------------------------------------------------------
(* Pickles that were damaged, and those of the logging branch.             *)

(* A list that ends with the pickle, or behind it: unpickle() either gives *)
(* up or has come to the end.                                              *)
LEMMA CutListRead ==
    ASSUME NEW pickle, Len(pickle.items) \in Nat, NEW pos \in Nat,
           pos \in 1 .. Len(pickle.items)
               => /\ pickle.items[pos] \in Nat
                  /\ pos + pickle.items[pos] > Len(pickle.items)
    PROVE  \/ AfterList(pickle, pos) = NULL
           \/ /\ AfterList(pickle, pos) = Len(pickle.items) + 1
              /\ pos \in 1 .. Len(pickle.items) /\ ~pickle.partial
<1> DEFINE n == Len(pickle.items)
           size == pickle.items[pos]
           left == End(pickle) - (pos + 1)
<1> HIDE DEF n
<1>1. CASE pos \in 1 .. n
  <2>1. size \in Nat /\ pos + size > n /\ n \in Nat /\ left = n - pos /\ left \in Nat
    BY <1>1 DEF n, End
  <2> HIDE DEF size, left
  <2>2. Least(size, left) = left /\ left < size
    BY <2>1 DEF Least
  <2>3. EntriesRead(pickle, pos) = left
    BY <2>2 DEF EntriesRead, size, left
  <2>4. Available(pickle, pos, 1)
    BY <1>1, <2>1 DEF Available, End, NULL, n
  <2>5. AfterList(pickle, pos) = IF pickle.partial THEN NULL ELSE pos + 1 + left
    BY <2>2, <2>3, <2>4 DEF AfterList, size
  <2>6. pos + 1 + left = n + 1
    BY <1>1, <2>1
  <2> QED
    BY <1>1, <2>5, <2>6 DEF n
<1>2. CASE pos \notin 1 .. n
  <2>1. n \in Nat
    BY DEF n
  <2>2. ~Available(pickle, pos, 1)
    BY <1>2, <2>1 DEF Available, End, NULL, n
  <2> QED
    BY <2>2 DEF AfterList
<1> QED
    BY <1>1, <1>2

(* A session of which the first items are there, and no others.            *)
Shortened(pickle, s, version) ==
    /\ Len(pickle.items) \in Nat /\ Len(pickle.items) < SessionLength(s)
    /\ \A k \in 1 .. Len(pickle.items) : pickle.items[k] = SessionItem(s, version, k)

(* Reading it, unpickle() comes to the end only within the last list.      *)
LEMMA ShortenedRead ==
    ASSUME NEW s, Storable(s), NEW version, NEW pickle, Shortened(pickle, s, version)
    PROVE  LET n == Len(pickle.items)
               last == AfterList(pickle, SkippedAt(pickle, 7))
               third == SkippedPlace(s)
           IN  \/ last = NULL
               \/ last = n + 1 /\ n >= third /\ ~pickle.partial /\ SkippedAt(pickle, 7) = third
<1> DEFINE r == s.ratchet
           items == pickle.items
           n == Len(items)
           a == Len(r.sender_chain)
           b == Len(r.receiver_chains)
           c == Len(r.skipped_message_keys)
           second == 9 + a
           third == SkippedPlace(s)
           at1 == SenderAt(pickle, 7)
           at2 == ReceiversAt(pickle, 7)
           at3 == SkippedAt(pickle, 7)
           last == AfterList(pickle, at3)
<1>1. /\ a \in Nat /\ b \in Nat /\ c \in Nat /\ SessionLength(s) = third + c
      /\ third = 10 + a + b
      /\ a <= 1 /\ b <= MAX_RECEIVER_CHAINS /\ c <= MAX_SKIPPED_MESSAGE_KEYS
    BY ListsOf
<1>2. /\ n \in Nat /\ n < third + c
      /\ \A k \in 1 .. n : items[k] = SessionItem(s, version, k)
    BY <1>1 DEF Shortened
<1>3. at2 = AfterList(pickle, at1) /\ at3 = AfterList(pickle, at2)
    BY DEF ReceiversAt, SkippedAt
<1>4. /\ 8 <= n => items[8] = a
      /\ second <= n => items[second] = b
      /\ third <= n => items[third] = c
  <2>1. /\ SessionItem(s, version, 8) = a /\ SessionItem(s, version, second) = b
        /\ SessionItem(s, version, third) = c
    BY SessionSizes
  <2> HIDE DEF n, items, a, b, c, third
  <2>2. /\ 8 <= n => 8 \in 1 .. n
        /\ second <= n => second \in 1 .. n
        /\ third <= n => third \in 1 .. n
    BY <1>1, <1>2
  <2> QED
    BY <1>2, <2>1, <2>2
<1>5. at1 = IF 8 <= n + 1 THEN 8 ELSE NULL
  <2>1. 7 + 1 <= n + 1 <=> 8 <= n + 1
    BY <1>2
  <2> QED
    BY <2>1 DEF SenderAt, After, Available, End, NULL
<1> HIDE DEF n, items, a, b, c, third, at1, at2, at3, last
<1>6. \/ at2 = NULL
      \/ at2 = second
      \/ at2 = n + 1
  <2>1. at1 \in Nat
    BY <1>5 DEF NULL
  <2>2. CASE at1 # NULL /\ 8 + a <= n
    <3>1. at1 = 8 /\ items[8] = a /\ 8 <= n
      BY <1>1, <1>2, <1>4, <1>5, <2>2
    <3>2. EntriesRead(pickle, 8) = a
      <4> DEFINE left == End(pickle) - (8 + 1)
      <4>1. left \in Int /\ a <= left
        BY <1>1, <1>2, <2>2 DEF End, n, items
      <4> HIDE DEF left
      <4>2. Least(a, left) = a
        BY <1>1, <4>1 DEF Least
      <4> QED
        BY <3>1, <4>2 DEF EntriesRead, left, items
    <3>3. Available(pickle, 8, 1)
      BY <1>2, <3>1 DEF Available, End, NULL, n, items
    <3>4. AfterList(pickle, 8) = 8 + 1 + a
      BY <1>1, <3>1, <3>2, <3>3 DEF AfterList, items
    <3> QED
      BY <1>1, <1>3, <3>1, <3>4
  <2>3. CASE ~(at1 # NULL /\ 8 + a <= n)
    <3>1. at1 \in 1 .. n => items[at1] \in Nat /\ at1 + items[at1] > n
      BY <1>1, <1>2, <1>4, <1>5, <2>3 DEF NULL
    <3> QED
      BY <1>2, <1>3, <2>1, <3>1, CutListRead DEF n, items
  <2> QED
    BY <2>2, <2>3
<1>7. \/ at3 = NULL
      \/ at3 = third
      \/ at3 = n + 1
  <2>1. at2 \in Nat
    BY <1>1, <1>2, <1>6 DEF NULL
  <2>2. CASE at2 = second /\ second + b <= n
    <3>1. items[second] = b /\ second <= n
      BY <1>1, <1>2, <1>4, <2>2
    <3>2. EntriesRead(pickle, second) = b
      <4> DEFINE left == End(pickle) - (second + 1)
      <4>1. left \in Int /\ b <= left
        BY <1>1, <1>2, <2>2 DEF End, n, items
      <4> HIDE DEF left
      <4>2. Least(b, left) = b
        BY <1>1, <4>1 DEF Least
      <4> QED
        BY <3>1, <4>2 DEF EntriesRead, left, items
    <3>3. Available(pickle, second, 1)
      BY <1>1, <1>2, <3>1 DEF Available, End, NULL, n, items
    <3>4. AfterList(pickle, second) = second + 1 + b
      BY <1>1, <3>1, <3>2, <3>3 DEF AfterList, items
    <3>5. second + 1 + b = third
      BY <1>1
    <3> QED
      BY <1>3, <2>2, <3>4, <3>5
  <2>3. CASE ~(at2 = second /\ second + b <= n)
    <3>1. at2 \in 1 .. n => items[at2] \in Nat /\ at2 + items[at2] > n
      BY <1>1, <1>2, <1>4, <1>6, <2>3 DEF NULL
    <3> QED
      BY <1>2, <1>3, <2>1, <3>1, CutListRead DEF n, items
  <2> QED
    BY <2>2, <2>3
<1>8. \/ last = NULL
      \/ last = n + 1 /\ at3 \in 1 .. n /\ ~pickle.partial
  <2>1. at3 \in Nat
    BY <1>1, <1>2, <1>7 DEF NULL
  <2>2. at3 \in 1 .. n => items[at3] \in Nat /\ at3 + items[at3] > n
    BY <1>1, <1>2, <1>4, <1>7 DEF NULL
  <2> QED
    BY <1>2, <2>1, <2>2, CutListRead DEF n, items, last
<1>9. at3 \in 1 .. n => at3 = third /\ n >= third
    BY <1>1, <1>2, <1>7 DEF NULL
<1> QED
    BY <1>8, <1>9 DEF last, at3, n, items, third

(* The error of a pickle that is read as far as last.                      *)
LEMMA PickleRead ==
    ASSUME NEW pickle, Len(pickle.items) \in Nat, Len(pickle.items) >= 1,
           KnownVersion(pickle.items[1])
    PROVE  LET n == Len(pickle.items)
               last == AfterList(pickle, SkippedAt(pickle, 7))
               end == IF pickle.items[1] = LOGGING_PICKLE_VERSION THEN After(pickle, last, 1)
                      ELSE last
           IN  UnpickleSessionError(pickle) = IF n < 6 THEN "OLM_CORRUPTED_PICKLE"
                                              ELSE UnpickleError(pickle, end)
<1> DEFINE n == Len(pickle.items)
           fields == After(pickle, 1, 6)
           logging == pickle.items[1] = LOGGING_PICKLE_VERSION
<1> HIDE DEF n
<1>1. n \in Nat /\ n >= 1
    BY DEF n
<1>2. fields = IF n < 6 THEN NULL ELSE 7
    BY <1>1 DEF After, Available, End, NULL, n
<1>3. UnpickleSessionError(pickle) =
          UnpickleError(pickle, IF fields = NULL THEN NULL
                                ELSE AfterRatchet(pickle, fields, logging))
    BY DEF UnpickleSessionError
<1> HIDE DEF fields
<1>4. CASE n < 6
    BY <1>2, <1>3, <1>4 DEF UnpickleError, n
<1>5. CASE ~(n < 6)
  <2>1. fields = 7 /\ fields # NULL
    BY <1>2, <1>5 DEF NULL
  <2>2. UnpickleSessionError(pickle) = UnpickleError(pickle, AfterRatchet(pickle, 7, logging))
    BY <1>3, <2>1
  <2> QED
    BY <1>5, <2>2 DEF AfterRatchet, n
<1> QED
    BY <1>4, <1>5

LEMMA NoNumberLeft ==
    ASSUME NEW pickle, Len(pickle.items) \in Nat, NEW pos,
           pos = NULL \/ pos = Len(pickle.items) + 1
    PROVE  After(pickle, pos, 1) = NULL
BY DEF After, Available, End, NULL

(* Such a pickle is refused, but for one that ends with an entry of the    *)
(* last list.                                                              *)
LEMMA ShortenedError ==
    ASSUME NEW s, Storable(s), NEW version, KnownVersion(version),
           NEW pickle, Shortened(pickle, s, version), UnpickleSessionError(pickle) = "OLM_SUCCESS"
    PROVE  LET third == SkippedPlace(s) IN
           /\ version # LOGGING_PICKLE_VERSION
           /\ Len(pickle.items) >= third /\ ~pickle.partial
           /\ SkippedAt(pickle, 7) = third
<1> DEFINE n == Len(pickle.items)
           last == AfterList(pickle, SkippedAt(pickle, 7))
           third == SkippedPlace(s)
<1>1. n \in Nat /\ \A k \in 1 .. n : pickle.items[k] = SessionItem(s, version, k)
    BY DEF Shortened
<1>2. n # 0
  <2> SUFFICES ASSUME n = 0 PROVE FALSE
    OBVIOUS
  <2>1. ~Available(pickle, 1, 1) /\ After(pickle, 1, 6) = NULL
    BY DEF Available, After, End, NULL
  <2>2. UnpickleSessionError(pickle) = UnpickleError(pickle, NULL)
    BY <2>1 DEF UnpickleSessionError
  <2> QED
    BY <2>2 DEF UnpickleError
<1>3. pickle.items[1] = version
  <2>1. SessionItem(s, version, 1) = version
    BY DEF SessionItem
  <2>2. 1 \in 1 .. n
    BY <1>1, <1>2
  <2> HIDE DEF n
  <2> QED
    BY <1>1, <2>1, <2>2
<1>4. \/ last = NULL
      \/ last = n + 1 /\ n >= third /\ ~pickle.partial /\ SkippedAt(pickle, 7) = third
    BY ShortenedRead
<1> DEFINE end == IF version = LOGGING_PICKLE_VERSION THEN After(pickle, last, 1) ELSE last
<1> HIDE DEF last, third
<1>5. UnpickleSessionError(pickle) = IF n < 6 THEN "OLM_CORRUPTED_PICKLE"
                                     ELSE UnpickleError(pickle, end)
    BY <1>1, <1>2, <1>3, PickleRead DEF last
<1>6. end # NULL
    BY <1>5 DEF UnpickleError
<1>7. After(pickle, last, 1) = NULL
    BY <1>1, <1>4, NoNumberLeft
<1>8. version # LOGGING_PICKLE_VERSION /\ last # NULL
    BY <1>6, <1>7
<1> QED
    BY <1>4, <1>8 DEF third

(* A pickle that is whole and has n items behind it.                       *)
LEMMA WholeError ==
    ASSUME NEW s, Storable(s), NEW version, KnownVersion(version), NEW pickle,
           Len(pickle.items) \in Nat, SessionLength(s) <= Len(pickle.items), ~pickle.partial,
           \A k \in 1 .. SessionLength(s) : pickle.items[k] = SessionItem(s, version, k)
    PROVE  UnpickleSessionError(pickle) =
              LET n == IF version = LOGGING_PICKLE_VERSION THEN SessionLength(s) + 1
                       ELSE SessionLength(s)
              IN  IF Len(pickle.items) < n THEN "OLM_CORRUPTED_PICKLE"
                  ELSE IF Len(pickle.items) > n THEN "OLM_PICKLE_EXTRA_DATA"
                  ELSE "OLM_SUCCESS"
<1> DEFINE n == Len(pickle.items)
           m == SessionLength(s)
           last == AfterList(pickle, SkippedAt(pickle, 7))
           end == IF version = LOGGING_PICKLE_VERSION THEN After(pickle, last, 1) ELSE last
<1>1. m \in Nat /\ m >= 10 /\ n \in Nat /\ m <= n
  <2> DEFINE c == Len(s.ratchet.skipped_message_keys)
             third == SkippedPlace(s)
  <2>1. third \in Nat /\ third >= 10 /\ c \in Nat /\ m = third + c
    BY ListsOf, PlaceBeyond
  <2>2. n \in Nat /\ m <= n
    OBVIOUS
  <2> HIDE DEF c, third, m, n
  <2> QED
    BY <2>1, <2>2
<1>2. last = m + 1
    BY SessionRead
<1>3. pickle.items[1] = version
  <2>1. SessionItem(s, version, 1) = version
    BY DEF SessionItem
  <2>2. 1 \in 1 .. m
    BY <1>1
  <2> HIDE DEF m
  <2> QED
    BY <2>1, <2>2 DEF m
<1> HIDE DEF last, m
<1>4. UnpickleSessionError(pickle) = UnpickleError(pickle, end)
  <2>1. UnpickleSessionError(pickle) = IF n < 6 THEN "OLM_CORRUPTED_PICKLE"
                                       ELSE UnpickleError(pickle, end)
    BY <1>1, <1>3, PickleRead DEF last
  <2>2. ~(n < 6)
    BY <1>1
  <2> QED
    BY <2>1, <2>2
<1>5. After(pickle, last, 1) = IF n < m + 1 THEN NULL ELSE m + 2
    BY <1>1, <1>2 DEF After, Available, End, NULL
<1>6. CASE version = LOGGING_PICKLE_VERSION
    BY <1>1, <1>4, <1>5, <1>6 DEF UnpickleError, End, NULL, m
<1>7. CASE version # LOGGING_PICKLE_VERSION
    BY <1>1, <1>2, <1>4, <1>7 DEF UnpickleError, End, NULL, m
<1> QED
    BY <1>6, <1>7

(* The session that is read has lost its oldest skipped keys.              *)
LEMMA ShortenedSession ==
    ASSUME NEW s, Storable(s), NEW version, KnownVersion(version),
           NEW pickle, Shortened(pickle, s, version), UnpickleSessionError(pickle) = "OLM_SUCCESS"
    PROVE  OnlySkippedKeysLost(UnpickleSession(pickle), s)
<1> DEFINE items == pickle.items
           n == Len(items)
           third == SkippedPlace(s)
           skipped == s.ratchet.skipped_message_keys
           c == Len(skipped)
           m == n - third
           kept == ListAt(pickle, third, MAX_SKIPPED_MESSAGE_KEYS)
           cut == SubSeq(skipped, 1, m)
<1>1. /\ third \in Nat /\ third >= 10 /\ c \in Nat /\ SessionLength(s) = third + c
      /\ c <= MAX_SKIPPED_MESSAGE_KEYS /\ MAX_SKIPPED_MESSAGE_KEYS \in Nat
    BY ListsOf, PlaceBeyond, RestartAssumption
<1>2. /\ n \in Nat /\ n < third + c
      /\ \A k \in 1 .. n : items[k] = SessionItem(s, version, k)
    BY <1>1 DEF Shortened
<1>3. n >= third
    BY ShortenedError
<1>4. PICK S : skipped \in Seq(S)
    BY DEF Storable, RatchetOk, IsList
<1>5. /\ SessionItem(s, version, third) = c
      /\ \A k \in Nat : k > third => SessionItem(s, version, k) = skipped[k - third]
    BY SessionSizes
<1> HIDE DEF items, third, c, kept, cut
<1>6. m \in Nat /\ m < c
    BY <1>1, <1>2, <1>3
<1>7. UnpickleSession(pickle) = [s EXCEPT !.ratchet = [@ EXCEPT !.skipped_message_keys = kept]]
  <2>1. third <= n /\ \A k \in 1 .. third : items[k] = SessionItem(s, version, k)
    BY <1>1, <1>2, <1>3
  <2> QED
    BY <1>2, <2>1, FrontRead DEF items, third, kept
<1> HIDE DEF n
<1>8. kept = [i \in 1 .. m |-> items[third + i]]
  <2>1. EntriesRead(pickle, third) = m
    <3> DEFINE left == End(pickle) - (third + 1)
    <3>1. left = m
      BY <1>1, <1>2 DEF End, n, items
    <3>2. items[third] = c
      BY <1>1, <1>2, <1>3, <1>5
    <3> HIDE DEF left, m
    <3>3. Least(c, left) = m
      BY <1>1, <1>6, <3>1 DEF Least
    <3> QED
      BY <3>2, <3>3 DEF EntriesRead, items, left
  <2>2. Least(m, MAX_SKIPPED_MESSAGE_KEYS) = m
    BY <1>1, <1>6 DEF Least
  <2>3. \A i \in 1 .. m : i # MAX_SKIPPED_MESSAGE_KEYS
    BY <1>1, <1>6
  <2> HIDE DEF m
  <2>4. kept = [i \in 1 .. m |->
                   items[third + (IF i = MAX_SKIPPED_MESSAGE_KEYS THEN m ELSE i)]]
    BY <2>1, <2>2 DEF ListAt, kept, items
  <2> QED
    BY <2>3, <2>4
<1>9. ASSUME NEW i \in 1 .. m PROVE items[third + i] = skipped[i]
  <2>1. third + i \in 1 .. n /\ third + i \in Nat /\ third + i > third /\ (third + i) - third = i
    BY <1>1, <1>2, <1>3
  <2> QED
    BY <1>2, <1>5, <2>1
<1>10. kept = cut
  <2>1. /\ cut \in Seq(S) /\ Len(cut) = m
        /\ \A i \in 1 .. m : cut[i] = skipped[i]
    <3>1. m \in Int /\ \A i \in 1 .. m : skipped[i] \in S
      BY <1>1, <1>4, <1>6, ElementOfSeq DEF c
    <3>2. /\ cut \in Seq(S)
          /\ Len(cut) = IF 1 <= m THEN m - 1 + 1 ELSE 0
          /\ \A i \in 1 .. m - 1 + 1 : cut[i] = skipped[1 + i - 1]
      BY <3>1, SubSeqProperties DEF cut
    <3> HIDE DEF m
    <3>3. Len(cut) = m
      BY <1>6, <3>2
    <3>4. ASSUME NEW i \in 1 .. m PROVE cut[i] = skipped[i]
      <4>1. i \in 1 .. m - 1 + 1 /\ 1 + i - 1 = i
        BY <1>6
      <4> QED
        BY <3>2, <4>1
    <3> QED
      BY <3>2, <3>3, <3>4
  <2> HIDE DEF m
  <2>2. cut = [i \in 1 .. m |-> cut[i]]
    BY <2>1, LenProperties
  <2> QED
    BY <1>8, <1>9, <2>1, <2>2
<1>11. /\ UnpickleSession(pickle).ratchet.skipped_message_keys = cut
       /\ UnpickleSession(pickle) = [s EXCEPT !.ratchet = [@ EXCEPT !.skipped_message_keys = cut]]
    BY <1>7, <1>10 DEF Storable, RatchetOk
<1>12. Len(cut) = m
  <2>1. m \in Int /\ \A i \in 1 .. m : skipped[i] \in S
    BY <1>1, <1>4, <1>6, ElementOfSeq DEF c
  <2>2. Len(cut) = IF 1 <= m THEN m - 1 + 1 ELSE 0
    BY <2>1, SubSeqProperties DEF cut
  <2> HIDE DEF m
  <2> QED
    BY <1>6, <2>2
<1> HIDE DEF m
<1> QED
    BY <1>6, <1>11, <1>12 DEF OnlySkippedKeysLost, cut, c

-----------------------------------------------------------------------------
(* The pickles that a session is written to.                               *)

LEMMA WrittenItems ==
    ASSUME NEW s, Storable(s)
    PROVE  LET items == PickleSession(s).items
               v == SESSION_PICKLE_VERSION
           IN  /\ \E T : items \in Seq(T)
               /\ Len(items) = SessionLength(s) /\ SessionLength(s) \in Nat
               /\ \A k \in 1 .. SessionLength(s) : items[k] = SessionItem(s, v, k)
               /\ ~PickleSession(s).partial
<1> DEFINE v == SESSION_PICKLE_VERSION
<1> HIDE DEF v
<1>1. PickleSession(s) = Whole(PickleFields(s, v) \o PickleRatchet(s.ratchet))
    BY DEF PickleSession, v
<1>2. /\ PickleSession(s).items = PickleFields(s, v) \o PickleRatchet(s.ratchet)
      /\ ~PickleSession(s).partial
    BY <1>1 DEF Whole
<1> QED
    BY <1>2, PickledItems DEF v

LEMMA WrittenItemsLogging ==
    ASSUME NEW s, Storable(s)
    PROVE  LET items == PickleSessionLogging(s).items
               v == LOGGING_PICKLE_VERSION
           IN  /\ \E T : items \in Seq(T)
               /\ Len(items) = SessionLength(s) + 1 /\ SessionLength(s) \in Nat
               /\ \A k \in 1 .. SessionLength(s) : items[k] = SessionItem(s, v, k)
               /\ ~PickleSessionLogging(s).partial
<1> DEFINE v == LOGGING_PICKLE_VERSION
           front == PickleFields(s, v) \o PickleRatchet(s.ratchet)
           one == <<0>>
           items == front \o one
<1> HIDE DEF v
<1>1. PickleSessionLogging(s) = Whole(items)
    BY DEF PickleSessionLogging, v
<1>2. PickleSessionLogging(s).items = items /\ ~PickleSessionLogging(s).partial
    BY <1>1 DEF Whole
<1>3. /\ \E T : front \in Seq(T)
      /\ Len(front) = SessionLength(s) /\ SessionLength(s) \in Nat
      /\ \A k \in 1 .. SessionLength(s) : front[k] = SessionItem(s, v, k)
    BY PickledItems
<1> HIDE DEF front
<1>4. PICK T : front \in Seq(T)
    BY <1>3
<1> DEFINE U == T \cup {0}
<1>5. front \in Seq(U) /\ one \in Seq(U) /\ Len(one) = 1
  <2>1. T \subseteq U /\ 0 \in U
    OBVIOUS
  <2> HIDE DEF U
  <2>2. front \in Seq(U)
    BY <1>4, <2>1, SeqMonotonic
  <2> QED
    BY <2>1, <2>2
<1> HIDE DEF U, one
<1>6. /\ items \in Seq(U)
      /\ Len(items) = Len(front) + Len(one)
      /\ \A k \in 1 .. Len(front) + Len(one) :
            items[k] = IF k <= Len(front) THEN front[k] ELSE one[k - Len(front)]
    BY <1>5, Behind
<1> HIDE DEF items
<1>7. \A k \in 1 .. SessionLength(s) : items[k] = SessionItem(s, v, k)
    BY <1>3, <1>5, <1>6
<1>8. Len(items) = SessionLength(s) + 1
    BY <1>3, <1>5, <1>6
<1> QED
    BY <1>2, <1>3, <1>6, <1>7, <1>8 DEF v

(* What is left of a pickle that was cut.                                  *)
LEMMA CutItems ==
    ASSUME NEW pickle, NEW T, pickle.items \in Seq(T), NEW cut \in Cuts(pickle)
    PROVE  /\ Len(cut.items) \in Nat /\ Len(cut.items) < Len(pickle.items)
           /\ \A k \in 1 .. Len(cut.items) : cut.items[k] = pickle.items[k]
<1> DEFINE items == pickle.items
<1>1. PICK n \in 0 .. Len(items) - 1, partial \in BOOLEAN : cut = CutAt(pickle, n, partial)
    BY DEF Cuts
<1>2. cut.items = SubSeq(items, 1, n)
    BY <1>1 DEF CutAt
<1>3. Len(items) \in Nat
    BY LenProperties
<1> HIDE DEF items
<1>4. n \in Nat /\ n < Len(items) /\ \A i \in 1 .. n : items[i] \in T
    BY <1>3, ElementOfSeq DEF items
<1>5. /\ Len(cut.items) = IF 1 <= n THEN n - 1 + 1 ELSE 0
      /\ \A i \in 1 .. n - 1 + 1 : cut.items[i] = items[1 + i - 1]
    BY <1>2, <1>4, SubSeqProperties
<1>6. Len(cut.items) = n
    BY <1>4, <1>5
<1>7. ASSUME NEW k \in 1 .. n PROVE cut.items[k] = items[k]
  <2>1. k \in 1 .. n - 1 + 1 /\ 1 + k - 1 = k
    BY <1>4
  <2> QED
    BY <1>5, <2>1
<1> QED
    BY <1>4, <1>6, <1>7 DEF items

(* Of all the ways to cut a stored session only one is not noticed, and    *)
(* nothing can be put behind it.                                           *)
LEMMA DamageNoticed ==
    ASSUME NEW p \in Party, NEW s, Storable(s), stored[p] = PickleSession(s)
    PROVE  DamagedPicklesRefused(p)
<1> DEFINE pickle == PickleSession(s)
           v == SESSION_PICKLE_VERSION
           m == SessionLength(s)
<1>0. KnownVersion(v) /\ v # LOGGING_PICKLE_VERSION
    BY DEF KnownVersion, SESSION_PICKLE_VERSION, LOGGING_PICKLE_VERSION
<1>1. /\ \E T : pickle.items \in Seq(T)
      /\ Len(pickle.items) = m /\ m \in Nat
      /\ \A k \in 1 .. m : pickle.items[k] = SessionItem(s, v, k)
      /\ ~pickle.partial
    BY WrittenItems
<1>2. Restored(p) = s
    BY RoundTrip DEF Restored
<1>3. pickle = [items |-> pickle.items, partial |-> pickle.partial]
    BY DEF PickleSession, Whole
<1> HIDE DEF pickle, v, m
<1>4. PICK T : pickle.items \in Seq(T)
    BY <1>1
<1>5. ASSUME NEW cut \in Cuts(pickle), UnpickleSessionError(cut) = "OLM_SUCCESS"
      PROVE  OnlySkippedKeysLost(UnpickleSession(cut), s)
  <2>1. /\ Len(cut.items) \in Nat /\ Len(cut.items) < Len(pickle.items)
        /\ \A k \in 1 .. Len(cut.items) : cut.items[k] = pickle.items[k]
    BY <1>4, CutItems
  <2>2. \A k \in 1 .. Len(cut.items) : cut.items[k] = SessionItem(s, v, k)
    BY <1>1, <2>1
  <2>3. Shortened(cut, s, v)
    BY <1>1, <2>1, <2>2 DEF Shortened, m
  <2> QED
    BY <1>0, <1>5, <2>3, ShortenedSession
<1>6. UnpickleSessionError(Extended(pickle, 0)) = "OLM_PICKLE_EXTRA_DATA"
  <2> DEFINE more == Extended(pickle, 0)
             U == T \cup {0}
  <2>1. more.items = Append(pickle.items, 0) /\ ~more.partial
    BY <1>1, <1>3 DEF Extended
  <2> HIDE DEF more
  <2>2. pickle.items \in Seq(U) /\ 0 \in U
    <3>1. T \subseteq U /\ 0 \in U
      OBVIOUS
    <3> HIDE DEF U
    <3> QED
      BY <1>4, <3>1, SeqMonotonic
  <2> HIDE DEF U
  <2>3. /\ Len(more.items) = Len(pickle.items) + 1
        /\ \A k \in 1 .. Len(pickle.items) : more.items[k] = pickle.items[k]
    BY <2>1, <2>2, AppendProperties
  <2>4. \A k \in 1 .. m : more.items[k] = SessionItem(s, v, k)
    BY <1>1, <2>3
  <2>5. Len(more.items) \in Nat /\ m <= Len(more.items) /\ Len(more.items) > m
        /\ ~(Len(more.items) < m)
    BY <1>1, <2>3
  <2>6. UnpickleSessionError(more) =
            LET n == IF v = LOGGING_PICKLE_VERSION THEN m + 1 ELSE m
            IN  IF Len(more.items) < n THEN "OLM_CORRUPTED_PICKLE"
                ELSE IF Len(more.items) > n THEN "OLM_PICKLE_EXTRA_DATA"
                ELSE "OLM_SUCCESS"
    BY <1>0, <2>1, <2>4, <2>5, WholeError DEF m
  <2>7. UnpickleSessionError(more) = "OLM_PICKLE_EXTRA_DATA"
    BY <1>0, <2>5, <2>6
  <2> QED
    BY <2>7 DEF more
<1> QED
    BY <1>2, <1>5, <1>6 DEF DamagedPicklesRefused, pickle

(* A pickle of the logging branch is read as the same session; cut, it is  *)
(* refused.                                                                *)
LEMMA LoggingRead ==
    ASSUME NEW p \in Party, Storable(session[p])
    PROVE  LoggingPickleRead(p)
<1> DEFINE s == session[p]
           pickle == PickleSessionLogging(s)
           v == LOGGING_PICKLE_VERSION
           m == SessionLength(s)
<1>0. KnownVersion(v)
    BY DEF KnownVersion
<1> HIDE DEF s
<1>1. /\ Storable(s)
      /\ \E T : pickle.items \in Seq(T)
      /\ Len(pickle.items) = m + 1 /\ m \in Nat
      /\ \A k \in 1 .. m : pickle.items[k] = SessionItem(s, v, k)
      /\ ~pickle.partial
    BY WrittenItemsLogging DEF s
<1> HIDE DEF pickle, m
<1>2. Len(pickle.items) \in Nat /\ m <= Len(pickle.items)
    BY <1>1
<1>3. UnpickleSession(pickle) = s
    BY <1>1, <1>2, SessionRead DEF m
<1>4. UnpickleSessionError(pickle) =
          LET n == IF v = LOGGING_PICKLE_VERSION THEN m + 1 ELSE m
          IN  IF Len(pickle.items) < n THEN "OLM_CORRUPTED_PICKLE"
              ELSE IF Len(pickle.items) > n THEN "OLM_PICKLE_EXTRA_DATA"
              ELSE "OLM_SUCCESS"
    BY <1>0, <1>1, <1>2, WholeError DEF m
<1>5. UnpickleSessionError(pickle) = "OLM_SUCCESS"
    BY <1>1, <1>2, <1>4
<1>6. ASSUME NEW cut \in Cuts(pickle), UnpickleSessionError(cut) = "OLM_SUCCESS"
      PROVE  FALSE
  <2> DEFINE n == Len(cut.items)
  <2>1. PICK T : pickle.items \in Seq(T)
    BY <1>1
  <2>2. /\ n \in Nat /\ n < m + 1
        /\ \A k \in 1 .. n : cut.items[k] = pickle.items[k]
    BY <1>1, <2>1, CutItems
  <2>3. \A k \in 1 .. n : cut.items[k] = SessionItem(s, v, k)
    BY <1>1, <2>2
  <2>4. CASE n < m
    <3>1. Shortened(cut, s, v)
      BY <2>2, <2>3, <2>4 DEF Shortened, m
    <3> QED
      BY <1>0, <1>1, <1>6, <3>1, ShortenedError
  <2>5. CASE ~(n < m)
    <3>1. n = m /\ m <= n
      BY <1>1, <2>2, <2>5
    <3>2. cut.items[1] = v /\ n >= 6
      <4>1. SessionItem(s, v, 1) = v
        BY DEF SessionItem
      <4>2. m >= 10
        <5> DEFINE third == SkippedPlace(s)
                   c == Len(s.ratchet.skipped_message_keys)
        <5>1. third \in Nat /\ third >= 10 /\ c \in Nat /\ m = third + c
          BY <1>1, ListsOf, PlaceBeyond DEF m
        <5> HIDE DEF third, c
        <5> QED
          BY <5>1
      <4>3. 1 \in 1 .. n
        BY <1>1, <3>1, <4>2
      <4> HIDE DEF n
      <4> QED
        BY <1>1, <2>3, <3>1, <4>1, <4>2, <4>3
    <3> DEFINE last == AfterList(cut, SkippedAt(cut, 7))
    <3>3. last = m + 1
      BY <1>1, <2>2, <2>3, <3>1, SessionRead DEF m
    <3> HIDE DEF last
    <3>4. After(cut, last, 1) = NULL
      BY <2>2, <3>1, <3>3, NoNumberLeft
    <3>5. UnpickleSessionError(cut) = UnpickleError(cut, After(cut, last, 1))
      <4>1. n >= 1 /\ ~(n < 6) /\ KnownVersion(cut.items[1])
        BY <1>0, <2>2, <3>2
      <4> QED
        BY <2>2, <3>2, <4>1, PickleRead DEF last
    <3> QED
      BY <1>6, <3>4, <3>5 DEF UnpickleError
  <2> QED
    BY <2>4, <2>5
<1> QED
    BY <1>3, <1>5, <1>6 DEF LoggingPickleRead, s, pickle

-----------------------------------------------------------------------------
(* What is stored is the pickle of a session.                              *)
StoredWhole ==
    \A p \in Party : \E s : Storable(s) /\ stored[p] = PickleSession(s)

LEMMA StoredWholeStep ==
    ASSUME RInv, StoredWhole, [Next]_vars
    PROVE  StoredWhole'
<1> SUFFICES ASSUME NEW q \in Party
             PROVE  \E s : Storable(s) /\ stored'[q] = PickleSession(s)
    BY DEF StoredWhole, Storable, RatchetOk, IsList, Indexed
<1>1. \E s : Storable(s) /\ stored[q] = PickleSession(s)
    BY DEF StoredWhole
<1>2. CASE UNCHANGED stored
    BY <1>1, <1>2
<1>3. ASSUME NEW p \in Party, Save(p)
      PROVE  \E s : Storable(s) /\ stored'[q] = PickleSession(s)
  <2>1. stored = [r \in Party |-> stored[r]] /\ Storable(session[p])
    BY DEF RInv, SharedInv, PartyInv
  <2>2. stored' = [stored EXCEPT ![p] = PickleSession(session[p])]
    BY <1>3 DEF Save
  <2>3. stored'[q] = IF q = p THEN PickleSession(session[p]) ELSE stored[q]
    BY <2>1, <2>2
  <2> QED
    BY <1>1, <2>1, <2>3
<1>4. ASSUME NEW p \in Party, Encrypt(p) PROVE UNCHANGED stored
    BY <1>4 DEF Encrypt, Called
<1>5. ASSUME NEW p \in Party, NEW m \in Pair!Frames(p), NEW sequential \in Modes,
             Decrypt(p, m, sequential)
      PROVE  UNCHANGED stored
    BY <1>5 DEF Decrypt, DecryptOnNewChain, DecryptOnChain, DecryptSkipped, Called
<1>6. ASSUME NEW p \in Party, Restart(p) PROVE UNCHANGED stored
    BY <1>6 DEF Restart
<1>7. CASE UNCHANGED vars
    BY <1>2, <1>7 DEF vars
<1> QED
    BY <1>2, <1>3, <1>4, <1>5, <1>6, <1>7 DEF Next

(* The pickle of a session holds all of it (session.cpp, ratchet.cpp,      *)
(* pickle.cpp): a device that stops with nothing unsaved goes on where it  *)
(* was; a pickle that ends too soon, or has something behind it, is        *)
(* refused, but for one that ends between two skipped keys, which loses    *)
(* the oldest of those and nothing else; and a pickle of the logging       *)
(* branch is read as the same session.                                     *)
THEOREM SessionsPickledWhole == Spec => []SessionPickledWhole
<1>1. Init => RInv /\ StoredWhole
  <2> SUFFICES ASSUME Init PROVE StoredWhole
    BY InitRInv
  <2>1. ASSUME NEW p \in Party PROVE Storable(session[p]) /\ stored[p] = PickleSession(session[p])
    BY InitRInv DEF RInv, PartyInv, Init
  <2> QED
    BY <2>1 DEF StoredWhole
<1>2. RInv /\ StoredWhole /\ [Next]_vars => (RInv /\ StoredWhole)'
    BY StepOfPair, StoredWholeStep
<1>3. RInv /\ StoredWhole => SessionPickledWhole
  <2> SUFFICES ASSUME RInv, StoredWhole, NEW p \in Party
               PROVE  /\ call[p] = <<>> => session[p] = Restored(p)
                      /\ DamagedPicklesRefused(p)
                      /\ LoggingPickleRead(p)
    BY DEF SessionPickledWhole
  <2>1. PartyInv(p)
    BY DEF RInv
  <2>2. call[p] = <<>> => session[p] = Restored(p)
    BY <2>1 DEF PartyInv, Idle, EncryptPending, DecryptPending
  <2>3. DamagedPicklesRefused(p)
    BY DamageNoticed DEF StoredWhole
  <2>4. LoggingPickleRead(p)
    BY <2>1, LoggingRead DEF PartyInv
  <2> QED
    BY <2>2, <2>3, <2>4
<1> QED
    BY <1>1, <1>2, <1>3, PTL DEF Spec

-----------------------------------------------------------------------------
(* What is proved of SessionPair holds of the sessions as they are stored. *)
(* Proved is Pair again, with its theorems.                                *)
Proved == INSTANCE SessionPairProofs WITH
    ratchet <- [p \in {Alice, Bob} |-> Restored(p).ratchet],
    received_message <- [p \in {Alice, Bob} |-> Restored(p).received_message]

LEMMA SameInit == Pair!Init <=> Proved!Init
BY DEF Pair!Init, Proved!Init, Pair!Party, Proved!Party, Pair!RatchetKey,
       Proved!RatchetKey, Pair!InitialiseAsAlice, Proved!InitialiseAsAlice,
       Pair!InitialiseAsBob, Proved!InitialiseAsBob, Pair!InitialRootKey,
       Proved!InitialRootKey, Pair!FirstChainKey, Proved!FirstChainKey

LEMMA SameAcceptsNew ==
    ASSUME NEW r, NEW m
    PROVE  Pair!AcceptsOnNewChain(r, m) <=> Proved!AcceptsOnNewChain(r, m)
BY DEF Pair!AcceptsOnNewChain, Proved!AcceptsOnNewChain, Pair!HasChainFor,
       Proved!HasChainFor, Pair!Opens, Proved!Opens, Pair!NewChainFor,
       Proved!NewChainFor, Pair!NewRootFor, Proved!NewRootFor,
       Pair!FirstChainKey, Proved!FirstChainKey, Pair!NextRootKey,
       Proved!NextRootKey, Pair!SharedSecret, Proved!SharedSecret,
       Pair!WithinGap, Proved!WithinGap, Pair!MacMatches, Proved!MacMatches,
       Pair!CreateMessageKey, Proved!CreateMessageKey, Pair!AdvanceChainKey,
       Proved!AdvanceChainKey

LEMMA SameAcceptsKnown ==
    ASSUME NEW r, NEW m, NEW i, NEW sequential
    PROVE  Pair!AcceptsOnChain(r, m, i, sequential) <=> Proved!AcceptsOnChain(r, m, i, sequential)
BY DEF Pair!AcceptsOnChain, Proved!AcceptsOnChain, Pair!IsChainFor,
       Proved!IsChainFor, Pair!ChainIndex, Proved!ChainIndex, Pair!Opens,
       Proved!Opens, Pair!WithinGap, Proved!WithinGap, Pair!MacMatches,
       Proved!MacMatches, Pair!CreateMessageKey, Proved!CreateMessageKey,
       Pair!AdvanceChainKey, Proved!AdvanceChainKey

LEMMA SameAccepts ==
    ASSUME NEW r, NEW m, NEW sequential
    PROVE  Pair!Accepts(r, m, sequential) <=> Proved!Accepts(r, m, sequential)
<1>1. ASSUME NEW j
      PROVE  Pair!AcceptsSkipped(r, m, j) <=> Proved!AcceptsSkipped(r, m, j)
    BY DEF Pair!AcceptsSkipped, Proved!AcceptsSkipped, Pair!IsSkippedKeyFor,
           Proved!IsSkippedKeyFor, Pair!IsChainFor, Proved!IsChainFor,
           Pair!ChainIndex, Proved!ChainIndex
<1> QED
    BY <1>1, SameAcceptsNew, SameAcceptsKnown DEF Pair!Accepts, Proved!Accepts

LEMMA SameRejects ==
    ASSUME NEW r, NEW m, NEW sequential, NEW error
    PROVE  Pair!Rejects(r, m, sequential, error)
           <=> Proved!Rejects(r, m, sequential, error)
BY DEF Pair!Rejects, Proved!Rejects,
       Pair!HasChainFor, Proved!HasChainFor, Pair!IsChainFor,
       Proved!IsChainFor, Pair!IsSkippedKeyFor, Proved!IsSkippedKeyFor,
       Pair!NewChainFor, Proved!NewChainFor, Pair!NewRootFor,
       Proved!NewRootFor, Pair!FirstChainKey, Proved!FirstChainKey,
       Pair!NextRootKey, Proved!NextRootKey, Pair!SharedSecret,
       Proved!SharedSecret, Pair!WithinGap, Proved!WithinGap,
       Pair!MacMatches, Proved!MacMatches, Pair!CreateMessageKey,
       Proved!CreateMessageKey, Pair!AdvanceChainKey, Proved!AdvanceChainKey

LEMMA SameEncrypt ==
    ASSUME NEW p
    PROVE  Pair!Encrypt(p) <=> Proved!Encrypt(p)
BY DEF Pair!Encrypt, Proved!Encrypt, Pair!EnsureSenderChain,
       Proved!EnsureSenderChain, Pair!AdvanceSenderChain,
       Proved!AdvanceSenderChain, Pair!EncryptedHeader,
       Proved!EncryptedHeader, Pair!Message, Proved!Message,
       Pair!EncryptMessageType, Proved!EncryptMessageType, Pair!HasSession,
       Proved!HasSession, Pair!SentTo, Proved!SentTo, Pair!Peer, Proved!Peer,
       Pair!RatchetKey, Proved!RatchetKey, Pair!NextRootKey,
       Proved!NextRootKey, Pair!SharedSecret, Proved!SharedSecret,
       Pair!FirstChainKey, Proved!FirstChainKey, Pair!CreateMessageKey,
       Proved!CreateMessageKey, Pair!AdvanceChainKey, Proved!AdvanceChainKey

LEMMA SameAdvance ==
    ASSUME NEW r, NEW i, NEW counter
    PROVE  Pair!AdvanceReceiverChain(r, i, counter) = Proved!AdvanceReceiverChain(r, i, counter)
BY DEF Pair!AdvanceReceiverChain, Proved!AdvanceReceiverChain,
       Pair!SkippedUpTo, Proved!SkippedUpTo, Pair!CreateMessageKey,
       Proved!CreateMessageKey, Pair!AdvanceChainKey, Proved!AdvanceChainKey,
       Pair!ListInsertAll, Proved!ListInsertAll, Pair!Least, Proved!Least

LEMMA SameNewChain ==
    ASSUME NEW p, NEW m
    PROVE  Pair!DecryptOnNewChain(p, m) <=> Proved!DecryptOnNewChain(p, m)
<1>1. ASSUME NEW r
      PROVE  Pair!AddReceiverChain(r, m) = Proved!AddReceiverChain(r, m)
    BY DEF Pair!AddReceiverChain, Proved!AddReceiverChain, Pair!NewChainFor,
           Proved!NewChainFor, Pair!NewRootFor, Proved!NewRootFor,
           Pair!FirstChainKey, Proved!FirstChainKey, Pair!NextRootKey,
           Proved!NextRootKey, Pair!SharedSecret, Proved!SharedSecret,
           Pair!ListInsert, Proved!ListInsert, Pair!Least, Proved!Least
<1>2. Pair!Deliver(p, m) <=> Proved!Deliver(p, m)
    BY DEF Pair!Deliver, Proved!Deliver
<1> QED
    BY <1>1, <1>2, SameAcceptsNew, SameAdvance
    DEF Pair!DecryptOnNewChain, Proved!DecryptOnNewChain

LEMMA SameChain ==
    ASSUME NEW p, NEW m, NEW sequential
    PROVE  Pair!DecryptOnChain(p, m, sequential) <=> Proved!DecryptOnChain(p, m, sequential)
<1>1. Pair!Deliver(p, m) <=> Proved!Deliver(p, m)
    BY DEF Pair!Deliver, Proved!Deliver
<1> QED
    BY <1>1, SameAcceptsKnown, SameAdvance
    DEF Pair!DecryptOnChain, Proved!DecryptOnChain

LEMMA SameSkipped ==
    ASSUME NEW p, NEW m
    PROVE  Pair!DecryptSkipped(p, m) <=> Proved!DecryptSkipped(p, m)
BY DEF Pair!DecryptSkipped, Proved!DecryptSkipped, Pair!Deliver,
       Proved!Deliver, Pair!AcceptsSkipped, Proved!AcceptsSkipped,
       Pair!IsSkippedKeyFor, Proved!IsSkippedKeyFor, Pair!IsChainFor,
       Proved!IsChainFor, Pair!ChainIndex, Proved!ChainIndex,
       Pair!UseSkipped, Proved!UseSkipped, Pair!ListErase, Proved!ListErase

LEMMA SameRejected ==
    ASSUME NEW p, NEW m, NEW sequential
    PROVE  Pair!DecryptRejected(p, m, sequential) <=> Proved!DecryptRejected(p, m, sequential)
BY SameRejects
   DEF Pair!DecryptRejected, Proved!DecryptRejected, Pair!DecryptErrors,
       Proved!DecryptErrors, Pair!vars, Proved!vars

LEMMA SameFrames ==
    ASSUME NEW p
    PROVE  Pair!Frames(p) = Proved!Frames(p)
BY DEF Pair!Frames, Proved!Frames, Pair!SentTo, Proved!SentTo, Pair!Peer,
       Proved!Peer, Pair!InitialRootKey, Proved!InitialRootKey

LEMMA SameNext == Pair!Next <=> Proved!Next
<1>1. Pair!Party = Proved!Party
    BY DEF Pair!Party, Proved!Party
<1>2. ASSUME NEW p, NEW m, NEW sequential
      PROVE  Pair!Decrypt(p, m, sequential) <=> Proved!Decrypt(p, m, sequential)
    BY SameNewChain, SameChain, SameSkipped DEF Pair!Decrypt, Proved!Decrypt
<1>3. ASSUME NEW p
      PROVE  (\E m \in Pair!Frames(p), sequential \in Modes :
                 Pair!Decrypt(p, m, sequential) \/ Pair!DecryptRejected(p, m, sequential))
             <=> (\E m \in Proved!Frames(p), sequential \in Modes :
                 Proved!Decrypt(p, m, sequential) \/ Proved!DecryptRejected(p, m, sequential))
    BY <1>2, SameFrames, SameRejected
<1> QED
    BY <1>1, <1>3, SameEncrypt DEF Pair!Next, Proved!Next

LEMMA SameSpec == Pair!Spec <=> Proved!Spec
<1>1. [Pair!Next]_(Pair!vars) <=> [Proved!Next]_(Proved!vars)
    BY SameNext DEF Pair!vars, Proved!vars
<1> QED
    BY <1>1, SameInit, PTL DEF Pair!Spec, Proved!Spec

LEMMA SessionPairAssumptions ==
    /\ Alice # Bob /\ Noise # Secret
    /\ DamagedCounters \subseteq Nat
    /\ DamagedKeys \subseteq [owner : {Alice, Bob}, n : Nat]
    /\ Modes \subseteq BOOLEAN
    /\ MaxSends \in Nat
    /\ MAX_MESSAGE_GAP \in Nat
    /\ MAX_RECEIVER_CHAINS \in Nat \ {0}
    /\ MAX_SKIPPED_MESSAGE_KEYS \in Nat \ {0}
BY RestartAssumption, PairAssumption

(* With room for the messages that are sent, none is lost to its recipient *)
(* (ratchet.cpp, session.cpp): in whatever order they arrive, and wherever *)
(* the devices are taken back to, what was not decrypted can be, and what  *)
(* was is reported as a duplicate.                                         *)
THEOREM NoMessageLostInRoom ==
    ASSUME MaxSends <= MAX_MESSAGE_GAP + 1,
           MaxSends <= MAX_RECEIVER_CHAINS,
           MaxSends <= MAX_SKIPPED_MESSAGE_KEYS + 1
    PROVE  Spec => []NoMessageLost
<1>1. Proved!Room
    BY DEF Proved!Room
<1>2. Proved!Spec => [](Proved!UndeliveredAccepted /\ Proved!DuplicatesReported)
    BY <1>1, Proved!NothingLostInRoom, SessionPairAssumptions
<1>3. Proved!UndeliveredAccepted /\ Proved!DuplicatesReported => NoMessageLost
    BY SameAccepts, SameRejects
    DEF NoMessageLost, Pair!UndeliveredAccepted, Proved!UndeliveredAccepted,
        Pair!DuplicatesReported, Proved!DuplicatesReported, Pair!Party,
        Proved!Party, Pair!SentTo, Proved!SentTo, Pair!Peer, Proved!Peer
<1> QED
    BY <1>2, <1>3, RestartsUnseen, SameSpec, PTL DEF PairSpec

(* Whatever devices are taken back to, what is stored keeps the safety of  *)
(* a session that never stops (session.cpp, ratchet.cpp): no key left in   *)
(* it derives the key of a message that was read, nothing is opened twice, *)
(* no two messages share a key, the two ratchets stay in step, and keys    *)
(* are given up oldest first.                                              *)
StoredSafely ==
    /\ Pair!UsedKeysErased
    /\ Pair!NoReplay
    /\ Pair!MessageKeysUnique
    /\ Pair!InSync
    /\ Pair!LosesOldestFirst

THEOREM RestartsAreSafe == Spec => []StoredSafely
<1>1. Proved!Spec => [](Proved!UsedKeysErased /\ Proved!NoReplay /\ Proved!MessageKeysUnique
                        /\ Proved!InSync /\ Proved!LosesOldestFirst)
    BY Proved!KeysErased, Proved!Replay, Proved!KeysUnique, Proved!StaysInSync,
       Proved!OldestLostFirst, SessionPairAssumptions, PTL
<1>2. Proved!UsedKeysErased => Pair!UsedKeysErased
    BY DEF Pair!UsedKeysErased, Proved!UsedKeysErased, Pair!Derives,
           Proved!Derives, Pair!Party, Proved!Party, Pair!SentTo,
           Proved!SentTo, Pair!Peer, Proved!Peer
<1>3. Proved!NoReplay => Pair!NoReplay
    BY SameAccepts DEF Pair!NoReplay, Proved!NoReplay, Pair!Party, Proved!Party
<1>4. Proved!MessageKeysUnique => Pair!MessageKeysUnique
    BY DEF Pair!MessageKeysUnique, Proved!MessageKeysUnique
<1>5. Proved!InSync => Pair!InSync
    <2>1. ASSUME NEW r, NEW chain
          PROVE  Proved!KnowsChain(r, chain) => Pair!KnowsChain(r, chain)
        BY DEF Pair!KnowsChain, Proved!KnowsChain, Pair!Derives, Proved!Derives
    <2>2. ASSUME NEW r, NEW chain
          PROVE  Proved!CanFollow(r, chain) => Pair!CanFollow(r, chain)
        BY DEF Pair!CanFollow, Proved!CanFollow, Pair!HasChainFor,
               Proved!HasChainFor, Pair!NewRootFor, Proved!NewRootFor,
               Pair!NextRootKey, Proved!NextRootKey, Pair!SharedSecret,
               Proved!SharedSecret
    <2>3. Pair!Party = Proved!Party /\ \A p \in Pair!Party : Pair!Peer(p) = Proved!Peer(p)
        BY DEF Pair!Party, Proved!Party, Pair!Peer, Proved!Peer
    <2> QED
        BY <2>1, <2>2, <2>3 DEF Pair!InSync, Proved!InSync
<1>6. Proved!LosesOldestFirst => Pair!LosesOldestFirst
    BY SameAccepts DEF Pair!LosesOldestFirst, Proved!LosesOldestFirst,
           Pair!KeepsNewestChains, Proved!KeepsNewestChains,
           Pair!OldestKeyLostFirst, Proved!OldestKeyLostFirst,
           Pair!PassedOver, Proved!PassedOver, Pair!IsChainFor,
           Proved!IsChainFor, Pair!ChainIndex, Proved!ChainIndex,
           Pair!RatchetKey, Proved!RatchetKey, Pair!Party, Proved!Party,
           Pair!SentTo, Proved!SentTo, Pair!Peer, Proved!Peer
<1> QED
    BY <1>1, <1>2, <1>3, <1>4, <1>5, <1>6, RestartsUnseen, SameSpec, PTL
    DEF PairSpec, StoredSafely
=============================================================================
