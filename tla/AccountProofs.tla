---------------------------- MODULE AccountProofs ----------------------------
(***************************************************************************)
(* Proofs about accounts, for every value of the constants: what their     *)
(* operations do to the keys; about SessionSetup, that every key that is   *)
(* handed out is still there when its message comes, a removed key is      *)
(* gone, published keys are on the server, and each outbound session meets *)
(* exactly the inbound session that was made from it; about what is stored *)
(* of an account; and that all of it survives restarts (AccountRestart).   *)
(***************************************************************************)
EXTENDS AccountRestart, OlmListProofs, FiniteSetTheorems

-----------------------------------------------------------------------------
(* The operations of an account, for every capacity of the list of         *)
(* one-time keys: they keep the account well formed, and lose a one-time   *)
(* key only to a full list or to remove_key().                             *)

-----------------------------------------------------------------------------
(* A well formed account: one-time keys are listed newest first, under ids *)
(* that have been given out and that no fallback key has.                  *)
Accounts ==
    [one_time_keys : Seq(Slots), next_one_time_key_id : Nat,
     num_fallback_keys : 0 .. 2, current_fallback_key : Slots, prev_fallback_key : Slots,
     num_prekeys : 0 .. 2, current_prekey : Slots, prev_prekey : Slots, next_prekey_id : Nat]

FallbackIds(a) == {a.current_fallback_key.id, a.prev_fallback_key.id}

OneTimeKeysOk(a) ==
    /\ Len(a.one_time_keys) <= MAX_ONE_TIME_KEYS
    /\ \A i \in 1 .. Len(a.one_time_keys) :
          LET key == a.one_time_keys[i].key
          IN  /\ key.kind = "one_time" /\ key.id \in 1 .. a.next_one_time_key_id
              /\ key.id \notin FallbackIds(a)
    /\ \A i, j \in 1 .. Len(a.one_time_keys) :
          i < j => a.one_time_keys[j].key.id < a.one_time_keys[i].key.id

FallbackKeysOk(a) ==
    /\ FallbackIds(a) \subseteq 0 .. a.next_one_time_key_id
    /\ IF a.num_fallback_keys = 0 THEN a.current_fallback_key.key = NoKey
       ELSE a.current_fallback_key.key.kind = "fallback"
    /\ IF a.num_fallback_keys = 2 THEN a.prev_fallback_key.key.kind = "fallback"
       ELSE a.prev_fallback_key.key = NoKey

PrekeysOk(a) ==
    /\ a.current_prekey.key.kind = "prekey"
    /\ a.num_prekeys \in {1, 2}
    /\ IF a.num_prekeys = 1 THEN a.prev_prekey = Unset ELSE a.prev_prekey.key.kind = "prekey"

AccountOk(a) ==
    a \in Accounts /\ OneTimeKeysOk(a) /\ FallbackKeysOk(a) /\ PrekeysOk(a)

(* The ids given out after id to keys other than fallback keys, and a key  *)
(* behind which that many follow that the list is full without it.         *)
Newer(a, id) ==
    {i \in id + 1 .. a.next_one_time_key_id :
        \A k \in {a.current_fallback_key, a.prev_fallback_key} : k.id # i}
PushedOff(a, key) == Cardinality(Newer(a, key.id)) >= MAX_ONE_TIME_KEYS

(* Account b has come after a: fallback keys have new ids or none.         *)
Follows(b, a) ==
    /\ a.next_one_time_key_id <= b.next_one_time_key_id
    /\ \A id \in FallbackIds(b) :
          id = 0 \/ id > a.next_one_time_key_id \/ id \in FallbackIds(a)

SameOneTimeKeys(b, a) ==
    b.one_time_keys = a.one_time_keys /\ b.next_one_time_key_id = a.next_one_time_key_id
SameFallbackKeys(b, a) ==
    /\ b.num_fallback_keys = a.num_fallback_keys
    /\ b.current_fallback_key = a.current_fallback_key
    /\ b.prev_fallback_key = a.prev_fallback_key
SamePrekeys(b, a) ==
    /\ b.num_prekeys = a.num_prekeys /\ b.current_prekey = a.current_prekey
    /\ b.prev_prekey = a.prev_prekey /\ b.next_prekey_id = a.next_prekey_id

-----------------------------------------------------------------------------
(* Keys and slots.                                                         *)
LEMMA KeysTyped ==
    ASSUME NEW kind \in {"one_time", "fallback", "prekey"}, NEW id \in Nat
    PROVE  /\ Generated(kind, id) \in Slots
           /\ Generated(kind, id).id = id
           /\ Generated(kind, id).published = FALSE
           /\ Generated(kind, id).key.kind = kind
           /\ Generated(kind, id).key.id = id
BY DEF Generated, Slots, Keys

LEMMA UnsetTyped ==
    /\ Unset \in Slots /\ Unset.id = 0 /\ Unset.key = NoKey
    /\ Unset.published = FALSE
    /\ NoKey \in Keys /\ NoKey.kind = "none"
BY DEF Unset, NoKey, Slots, Keys

LEMMA AccountTyped ==
    ASSUME NEW a \in Accounts
    PROVE  /\ a.one_time_keys \in Seq(Slots) /\ Len(a.one_time_keys) \in Nat
           /\ \A i \in 1 .. Len(a.one_time_keys) :
                 /\ a.one_time_keys[i] \in Slots
                 /\ a.one_time_keys[i].published \in BOOLEAN
                 /\ a.one_time_keys[i].key \in Keys /\ a.one_time_keys[i].key.id \in Nat
           /\ a.next_one_time_key_id \in Nat /\ a.next_prekey_id \in Nat
           /\ a.num_fallback_keys \in 0 .. 2 /\ a.num_prekeys \in 0 .. 2
           /\ \A slot \in {a.current_fallback_key, a.prev_fallback_key,
                           a.current_prekey, a.prev_prekey} :
                 /\ slot \in Slots /\ slot.id \in Nat /\ slot.published \in BOOLEAN
                 /\ slot.key \in Keys
<1>1. /\ a.one_time_keys \in Seq(Slots)
      /\ a.next_one_time_key_id \in Nat /\ a.next_prekey_id \in Nat
      /\ a.num_fallback_keys \in 0 .. 2 /\ a.num_prekeys \in 0 .. 2
      /\ a.current_fallback_key \in Slots /\ a.prev_fallback_key \in Slots
      /\ a.current_prekey \in Slots /\ a.prev_prekey \in Slots
    BY DEF Accounts
<1>2. Len(a.one_time_keys) \in Nat
      /\ \A i \in 1 .. Len(a.one_time_keys) : a.one_time_keys[i] \in Slots
    BY <1>1, LenProperties, ElementOfSeq
<1>3. \A slot \in Slots : /\ slot.id \in Nat /\ slot.published \in BOOLEAN
                          /\ slot.key \in Keys /\ slot.key.id \in Nat
    BY DEF Slots, Keys
<1> QED
    BY <1>1, <1>2, <1>3

(* Account::generate_prekey(): the current pre-key becomes the previous    *)
(* one.                                                                    *)
LEMMA GeneratePrekeyFields ==
    ASSUME NEW a \in Accounts
    PROVE  LET b == GeneratePrekey(a) IN
           /\ b \in Accounts
           /\ SameOneTimeKeys(b, a) /\ SameFallbackKeys(b, a)
           /\ b.num_prekeys = IF a.num_prekeys < 2 THEN a.num_prekeys + 1 ELSE 2
           /\ b.prev_prekey = a.current_prekey
           /\ b.current_prekey.key.kind = "prekey" /\ ~b.current_prekey.published
<1> DEFINE k == Generated("prekey", a.next_prekey_id + 1)
           n == IF a.num_prekeys < 2 THEN a.num_prekeys + 1 ELSE a.num_prekeys
           b == [a EXCEPT !.num_prekeys = n, !.prev_prekey = a.current_prekey,
                          !.current_prekey = k, !.next_prekey_id = a.next_prekey_id + 1]
<1>1. a.next_prekey_id + 1 \in Nat /\ n \in 0 .. 2 /\ a.current_prekey \in Slots
      /\ n = IF a.num_prekeys < 2 THEN a.num_prekeys + 1 ELSE 2
    BY AccountTyped
<1>2. k \in Slots /\ k.key.kind = "prekey" /\ k.published = FALSE
    BY <1>1, KeysTyped
<1>3. GeneratePrekey(a) = b
    BY DEF GeneratePrekey
<1> HIDE DEF k, n
<1>4. b \in Accounts
    BY <1>1, <1>2 DEF Accounts
<1>5. SameOneTimeKeys(b, a) /\ SameFallbackKeys(b, a)
    BY DEF SameOneTimeKeys, SameFallbackKeys, Accounts
<1>6. b.num_prekeys = n /\ b.prev_prekey = a.current_prekey /\ b.current_prekey = k
    BY DEF Accounts
<1> QED
    BY <1>1, <1>2, <1>3, <1>4, <1>5, <1>6

(* olm::Account::new_account() makes a well formed account without a       *)
(* published key.                                                          *)
LEMMA NewAccountOk ==
    /\ AccountOk(NewAccount)
    /\ NewAccount.one_time_keys = <<>>
    /\ NewAccount.num_fallback_keys = 0
    /\ ~NewAccount.current_fallback_key.published
    /\ ~NewAccount.current_prekey.published
<1> DEFINE none == <<>>
           base == [one_time_keys |-> none, next_one_time_key_id |-> 0,
                    num_fallback_keys |-> 0, current_fallback_key |-> Unset,
                    prev_fallback_key |-> Unset, num_prekeys |-> 0,
                    current_prekey |-> Unset, prev_prekey |-> Unset, next_prekey_id |-> 0]
           a == GeneratePrekey(base)
<1>1. NewAccount = a
    BY DEF NewAccount
<1>2. none \in Seq(Slots) /\ Len(none) = 0
    OBVIOUS
<1>3. none = <<>>
    OBVIOUS
<1> HIDE DEF none
<1>4. base \in Accounts
    BY <1>2, UnsetTyped DEF Accounts
<1>5. /\ base.one_time_keys = none /\ base.next_one_time_key_id = 0
      /\ base.num_fallback_keys = 0 /\ base.num_prekeys = 0
      /\ base.current_fallback_key = Unset /\ base.prev_fallback_key = Unset
      /\ base.current_prekey = Unset
    OBVIOUS
<1> HIDE DEF base
<1>6. /\ a \in Accounts
      /\ SameOneTimeKeys(a, base) /\ SameFallbackKeys(a, base)
      /\ a.num_prekeys = IF base.num_prekeys < 2 THEN base.num_prekeys + 1 ELSE 2
      /\ a.prev_prekey = base.current_prekey
      /\ a.current_prekey.key.kind = "prekey" /\ ~a.current_prekey.published
    BY <1>4, GeneratePrekeyFields
<1> HIDE DEF a
<1>7. OneTimeKeysOk(a)
    BY <1>2, <1>5, <1>6, AccountAssumption DEF OneTimeKeysOk, SameOneTimeKeys
<1>8. FallbackKeysOk(a)
    BY <1>5, <1>6, UnsetTyped
    DEF FallbackKeysOk, FallbackIds, SameOneTimeKeys, SameFallbackKeys
<1>9. PrekeysOk(a)
    BY <1>5, <1>6 DEF PrekeysOk
<1> QED
    BY <1>1, <1>3, <1>5, <1>6, <1>7, <1>8, <1>9, UnsetTyped
    DEF AccountOk, SameOneTimeKeys, SameFallbackKeys

LEMMA GeneratePrekeyOk ==
    ASSUME NEW a, AccountOk(a)
    PROVE  AccountOk(GeneratePrekey(a)) /\ GeneratePrekey(a).num_prekeys = 2
<1> DEFINE b == GeneratePrekey(a)
<1>1. /\ b \in Accounts
      /\ SameOneTimeKeys(b, a) /\ SameFallbackKeys(b, a)
      /\ b.num_prekeys = IF a.num_prekeys < 2 THEN a.num_prekeys + 1 ELSE 2
      /\ b.prev_prekey = a.current_prekey
      /\ b.current_prekey.key.kind = "prekey"
    BY GeneratePrekeyFields DEF AccountOk
<1> HIDE DEF b
<1>2. OneTimeKeysOk(b) /\ FallbackKeysOk(b)
    BY <1>1 DEF AccountOk, OneTimeKeysOk, FallbackKeysOk, FallbackIds, SameOneTimeKeys,
                SameFallbackKeys
<1>3. b.num_prekeys = 2 /\ PrekeysOk(b)
    BY <1>1 DEF AccountOk, PrekeysOk
<1> QED
    BY <1>1, <1>2, <1>3 DEF AccountOk, b

(* forget_old_prekey() leaves one pre-key.                                 *)
LEMMA ForgetOldPrekeyOk ==
    ASSUME NEW a, AccountOk(a)
    PROVE  LET b == ForgetOldPrekey(a) IN
           /\ AccountOk(b)
           /\ SameOneTimeKeys(b, a) /\ SameFallbackKeys(b, a)
           /\ b.num_prekeys = 1 /\ b.current_prekey = a.current_prekey
<1> DEFINE b == ForgetOldPrekey(a)
<1>1. CASE a.num_prekeys = 2
    <2> DEFINE one == 1
           c == [a EXCEPT !.prev_prekey = Unset, !.num_prekeys = one]
    <2>1. b = c
        BY <1>1 DEF ForgetOldPrekey
    <2>2. a \in Accounts
        BY DEF AccountOk
    <2>3. c \in Accounts /\ SameOneTimeKeys(c, a) /\ SameFallbackKeys(c, a)
        <3>1. Unset \in Slots /\ one \in 0 .. 2
            BY UnsetTyped
        <3> HIDE DEF one
        <3>2. c \in Accounts
            BY <2>2, <3>1 DEF Accounts
        <3> QED
            BY <2>2, <3>2 DEF Accounts, SameOneTimeKeys, SameFallbackKeys
    <2>4. c.num_prekeys = 1 /\ c.prev_prekey = Unset /\ c.current_prekey = a.current_prekey
        BY <2>2 DEF Accounts
    <2> HIDE DEF b, c
    <2>5. OneTimeKeysOk(c) /\ FallbackKeysOk(c)
        BY <2>3 DEF AccountOk, OneTimeKeysOk, FallbackKeysOk, FallbackIds, SameOneTimeKeys,
                    SameFallbackKeys
    <2>6. PrekeysOk(c)
        BY <2>4 DEF AccountOk, PrekeysOk
    <2> QED
        BY <2>1, <2>3, <2>4, <2>5, <2>6 DEF AccountOk, b
<1>2. CASE a.num_prekeys # 2
    BY <1>2 DEF ForgetOldPrekey, AccountOk, PrekeysOk, SameOneTimeKeys, SameFallbackKeys
<1> QED
    BY <1>1, <1>2

(* mark_prekey_as_published() changes a mark.                              *)
LEMMA MarkPrekeyOk ==
    ASSUME NEW a, AccountOk(a)
    PROVE  LET b == MarkPrekeyAsPublished(a) IN
           /\ AccountOk(b)
           /\ SameOneTimeKeys(b, a) /\ SameFallbackKeys(b, a)
           /\ b.num_prekeys = a.num_prekeys /\ b.prev_prekey = a.prev_prekey
           /\ b.current_prekey.key = a.current_prekey.key
<1> DEFINE k == [a.current_prekey EXCEPT !.published = TRUE]
           b == [a EXCEPT !.current_prekey = k]
<1>1. a \in Accounts /\ a.current_prekey \in Slots
    BY AccountTyped DEF AccountOk
<1>2. k \in Slots /\ k.key = a.current_prekey.key
    BY <1>1 DEF Slots
<1>3. MarkPrekeyAsPublished(a) = b
    BY DEF MarkPrekeyAsPublished
<1> HIDE DEF k
<1>4. b \in Accounts /\ SameOneTimeKeys(b, a) /\ SameFallbackKeys(b, a)
    BY <1>1, <1>2 DEF Accounts, SameOneTimeKeys, SameFallbackKeys
<1>5. b.num_prekeys = a.num_prekeys /\ b.prev_prekey = a.prev_prekey /\ b.current_prekey = k
    BY <1>1 DEF Accounts
<1> HIDE DEF b
<1>6. OneTimeKeysOk(b) /\ FallbackKeysOk(b)
    BY <1>4 DEF AccountOk, OneTimeKeysOk, FallbackKeysOk, FallbackIds, SameOneTimeKeys,
                SameFallbackKeys
<1>7. PrekeysOk(b)
    BY <1>2, <1>5 DEF AccountOk, PrekeysOk
<1> QED
    BY <1>2, <1>3, <1>4, <1>5, <1>6, <1>7 DEF AccountOk

(* generate_fallback_key(): the current fallback key becomes the previous  *)
(* one; one-time keys are left alone, and so is the trace of lost ones.    *)
LEMMA GenerateFallbackKeyOk ==
    ASSUME NEW a, AccountOk(a)
    PROVE  LET b == GenerateFallbackKey(a) IN
           /\ AccountOk(b) /\ Follows(b, a)
           /\ b.one_time_keys = a.one_time_keys /\ SamePrekeys(b, a)
           /\ b.num_fallback_keys = IF a.num_fallback_keys = 0 THEN 1 ELSE 2
           /\ b.prev_fallback_key = a.current_fallback_key
           /\ ~b.current_fallback_key.published
<1> DEFINE next == a.next_one_time_key_id + 1
           k == Generated("fallback", next)
           n == IF a.num_fallback_keys < 2 THEN a.num_fallback_keys + 1
                ELSE a.num_fallback_keys
           b == [a EXCEPT !.num_fallback_keys = n,
                          !.prev_fallback_key = a.current_fallback_key,
                          !.current_fallback_key = k, !.next_one_time_key_id = next]
<1>1. /\ a \in Accounts /\ a.next_one_time_key_id \in Nat /\ next \in Nat /\ n \in 0 .. 2
      /\ n = IF a.num_fallback_keys = 0 THEN 1 ELSE 2
      /\ a.current_fallback_key \in Slots
    BY AccountTyped DEF AccountOk
<1>2. k \in Slots /\ k.id = next /\ k.key.kind = "fallback" /\ k.published = FALSE
    BY <1>1, KeysTyped
<1>3. GenerateFallbackKey(a) = b
    BY DEF GenerateFallbackKey
<1>4. next = a.next_one_time_key_id + 1
    OBVIOUS
<1> HIDE DEF k, n, next
<1>5. b \in Accounts /\ b.one_time_keys = a.one_time_keys /\ SamePrekeys(b, a)
    BY <1>1, <1>2 DEF Accounts, SamePrekeys
<1>6. /\ b.num_fallback_keys = n /\ b.prev_fallback_key = a.current_fallback_key
      /\ b.current_fallback_key = k /\ b.next_one_time_key_id = next
    BY <1>1 DEF Accounts
<1> HIDE DEF b
<1>7. PrekeysOk(b)
    BY <1>5 DEF AccountOk, PrekeysOk, SamePrekeys
<1>8. FallbackIds(b) = {next, a.current_fallback_key.id} /\ FallbackIds(a) \subseteq Nat
      /\ a.current_fallback_key.id \in FallbackIds(a)
    BY <1>1, <1>2, <1>6, AccountTyped DEF FallbackIds
<1>9. FallbackKeysOk(b)
    BY <1>1, <1>2, <1>4, <1>6, <1>8 DEF AccountOk, FallbackKeysOk
<1>10. OneTimeKeysOk(b)
    BY <1>1, <1>4, <1>5, <1>6, <1>8, AccountTyped DEF AccountOk, OneTimeKeysOk
<1>11. Follows(b, a)
    BY <1>1, <1>4, <1>6, <1>8 DEF Follows
<1> QED
    BY <1>1, <1>2, <1>3, <1>5, <1>6, <1>7, <1>9, <1>10, <1>11 DEF AccountOk

(* forget_old_fallback_key() leaves one fallback key, if there was one.    *)
LEMMA ForgetOldFallbackKeyOk ==
    ASSUME NEW a, AccountOk(a)
    PROVE  LET b == ForgetOldFallbackKey(a) IN
           /\ AccountOk(b) /\ Follows(b, a)
           /\ SameOneTimeKeys(b, a) /\ SamePrekeys(b, a)
           /\ b.num_fallback_keys = IF a.num_fallback_keys = 0 THEN 0 ELSE 1
           /\ b.current_fallback_key = a.current_fallback_key
<1> DEFINE b == ForgetOldFallbackKey(a)
<1>1. a \in Accounts /\ a.next_one_time_key_id \in Nat /\ a.num_fallback_keys \in 0 .. 2
      /\ FallbackIds(a) \subseteq Nat
    BY AccountTyped DEF AccountOk, FallbackIds
<1>2. CASE a.num_fallback_keys = 2
    <2> DEFINE one == 1
           c == [a EXCEPT !.num_fallback_keys = one, !.prev_fallback_key = Unset]
    <2>1. b = c
        BY <1>2 DEF ForgetOldFallbackKey
    <2>2. c \in Accounts /\ SameOneTimeKeys(c, a) /\ SamePrekeys(c, a)
        <3>1. a \in Accounts /\ Unset \in Slots /\ one \in 0 .. 2
            BY <1>1, UnsetTyped
        <3> HIDE DEF one
        <3>2. c \in Accounts
            BY <3>1 DEF Accounts
        <3> QED
            BY <3>1, <3>2 DEF Accounts, SameOneTimeKeys, SamePrekeys
    <2>3. /\ c.num_fallback_keys = 1 /\ c.prev_fallback_key = Unset
          /\ c.current_fallback_key = a.current_fallback_key
        BY <1>1 DEF Accounts
    <2> HIDE DEF b, c
    <2>4. /\ FallbackIds(c) = {0, a.current_fallback_key.id}
          /\ a.current_fallback_key.id \in FallbackIds(a)
        BY <2>3, UnsetTyped DEF FallbackIds
    <2>5. OneTimeKeysOk(c)
        <3>1. FallbackIds(c) \subseteq {0} \cup FallbackIds(a)
            BY <2>4
        <3>2. /\ Len(a.one_time_keys) <= MAX_ONE_TIME_KEYS
              /\ \A i \in 1 .. Len(a.one_time_keys) :
                    /\ a.one_time_keys[i].key.kind = "one_time"
                    /\ a.one_time_keys[i].key.id \in 1 .. a.next_one_time_key_id
                    /\ a.one_time_keys[i].key.id \notin FallbackIds(a)
              /\ \A i, j \in 1 .. Len(a.one_time_keys) :
                    i < j => a.one_time_keys[j].key.id < a.one_time_keys[i].key.id
            BY DEF AccountOk, OneTimeKeysOk
        <3>3. \A i \in 1 .. Len(a.one_time_keys) :
                 a.one_time_keys[i].key.id \notin FallbackIds(c)
            BY <1>1, <3>1, <3>2
        <3> QED
            BY <2>2, <3>2, <3>3 DEF OneTimeKeysOk, SameOneTimeKeys
    <2>6. FallbackKeysOk(c)
        <3>1. /\ FallbackIds(a) \subseteq 0 .. a.next_one_time_key_id
              /\ a.current_fallback_key.key.kind = "fallback"
            BY <1>2 DEF AccountOk, FallbackKeysOk
        <3>2. FallbackIds(c) \subseteq 0 .. c.next_one_time_key_id
            BY <1>1, <2>2, <2>4, <3>1 DEF SameOneTimeKeys
        <3> QED
            BY <2>3, <3>1, <3>2, UnsetTyped DEF FallbackKeysOk
    <2>7. PrekeysOk(c)
        BY <2>2 DEF AccountOk, PrekeysOk, SamePrekeys
    <2>8. Follows(c, a)
        BY <1>1, <2>2, <2>4 DEF Follows, SameOneTimeKeys
    <2> QED
        BY <1>2, <2>1, <2>2, <2>3, <2>5, <2>6, <2>7, <2>8 DEF AccountOk, b
<1>3. CASE a.num_fallback_keys # 2
    <2>1. b = a
        BY <1>1, <1>3 DEF ForgetOldFallbackKey
    <2> HIDE DEF b
    <2> QED
        BY <1>1, <1>3, <2>1 DEF AccountOk, Follows, SameOneTimeKeys, SamePrekeys, b
<1> QED
    BY <1>2, <1>3

-----------------------------------------------------------------------------
(* The list of one-time keys.                                              *)

(* mark_keys_as_published() changes marks.                                 *)
LEMMA MarkKeysOk ==
    ASSUME NEW a, AccountOk(a)
    PROVE  LET b == MarkKeysAsPublished(a) IN
           /\ AccountOk(b) /\ Follows(b, a)
           /\ Len(b.one_time_keys) = Len(a.one_time_keys)
           /\ \A i \in 1 .. Len(a.one_time_keys) :
                 b.one_time_keys[i].key = a.one_time_keys[i].key
           /\ b.next_one_time_key_id = a.next_one_time_key_id
           /\ SamePrekeys(b, a)
           /\ b.num_fallback_keys = a.num_fallback_keys
           /\ b.prev_fallback_key = a.prev_fallback_key
           /\ b.current_fallback_key.key = a.current_fallback_key.key
<1> DEFINE list == a.one_time_keys
           marked == [i \in 1 .. Len(list) |-> [list[i] EXCEPT !.published = TRUE]]
           k == [a.current_fallback_key EXCEPT !.published = TRUE]
           b == [a EXCEPT !.one_time_keys = marked, !.current_fallback_key = k]
<1>1. /\ a \in Accounts /\ a.current_fallback_key \in Slots
      /\ Len(list) \in Nat /\ \A i \in 1 .. Len(list) : list[i] \in Slots
      /\ FallbackIds(a) \subseteq Nat /\ a.next_one_time_key_id \in Nat
    BY AccountTyped DEF AccountOk, FallbackIds
<1>2. k \in Slots /\ k.key = a.current_fallback_key.key /\ k.id = a.current_fallback_key.id
    BY <1>1 DEF Slots
<1>3. \A i \in 1 .. Len(list) : marked[i] \in Slots /\ marked[i].key = list[i].key
    BY <1>1 DEF Slots
<1>4. marked \in [1 .. Len(list) -> Slots]
    BY <1>3
<1>5. marked \in Seq(Slots) /\ Len(marked) = Len(list)
    BY <1>1, <1>4, FunctionIsSeq
<1>6. MarkKeysAsPublished(a) = b
    BY DEF MarkKeysAsPublished
<1> HIDE DEF marked, k, list
<1>7. b \in Accounts /\ SamePrekeys(b, a)
    BY <1>1, <1>2, <1>5 DEF Accounts, SamePrekeys
<1>8. /\ b.one_time_keys = marked /\ b.next_one_time_key_id = a.next_one_time_key_id
      /\ b.num_fallback_keys = a.num_fallback_keys
      /\ b.prev_fallback_key = a.prev_fallback_key /\ b.current_fallback_key = k
    BY <1>1 DEF Accounts
<1> HIDE DEF b
<1>9. FallbackIds(b) = FallbackIds(a)
    BY <1>2, <1>8 DEF FallbackIds
<1>10. OneTimeKeysOk(b)
    BY <1>1, <1>3, <1>5, <1>8, <1>9 DEF AccountOk, OneTimeKeysOk, list
<1>11. FallbackKeysOk(b)
    BY <1>2, <1>8, <1>9 DEF AccountOk, FallbackKeysOk
<1>12. PrekeysOk(b)
    BY <1>7 DEF AccountOk, PrekeysOk, SamePrekeys
<1>13. Follows(b, a)
    BY <1>1, <1>8, <1>9 DEF Follows
<1> QED
    BY <1>2, <1>3, <1>5, <1>6, <1>7, <1>8, <1>10, <1>11, <1>12, <1>13 DEF AccountOk, list

(* remove_key() removes the key and no other.                              *)
LEMMA RemoveKeyOk ==
    ASSUME NEW a, AccountOk(a), NEW key
    PROVE  LET b == RemoveKey(a, key) IN
           /\ AccountOk(b) /\ Follows(b, a)
           /\ \A i \in 1 .. Len(b.one_time_keys) : \E j \in 1 .. Len(a.one_time_keys) :
                 b.one_time_keys[i] = a.one_time_keys[j]
           /\ \A other : other # key /\ HasOneTimeKey(a, other) => HasOneTimeKey(b, other)
           /\ ~HasOneTimeKey(b, key)
           /\ b.next_one_time_key_id = a.next_one_time_key_id
           /\ SamePrekeys(b, a) /\ SameFallbackKeys(b, a)
<1> DEFINE list == a.one_time_keys
           b == RemoveKey(a, key)
<1>1. /\ a \in Accounts /\ list \in Seq(Slots) /\ Len(list) \in Nat
      /\ \A i \in 1 .. Len(list) : list[i].key.id \in Nat
      /\ FallbackIds(a) \subseteq Nat /\ a.next_one_time_key_id \in Nat
    BY AccountTyped DEF AccountOk, FallbackIds
<1>2. CASE ~HasOneTimeKey(a, key)
    <2>1. b = a
        BY <1>2 DEF RemoveKey
    <2> HIDE DEF b
    <2> QED
        BY <1>1, <1>2, <2>1 DEF Follows, SamePrekeys, SameFallbackKeys, b
<1>3. CASE HasOneTimeKey(a, key)
    <2> DEFINE First(i) == list[i].key = key /\ \A j \in 1 .. i - 1 : list[j].key # key
               at == CHOOSE i \in 1 .. Len(list) : First(i)
               erased == ListErase(list, at)
               c == [a EXCEPT !.one_time_keys = erased]
    <2>1. PICK i \in 1 .. Len(list) : list[i].key = key
        BY <1>3 DEF HasOneTimeKey
    <2>2. ASSUME NEW j \in 1 .. Len(list), list[j].key = key
          PROVE  j = i
        <3>1. \A m, l \in 1 .. Len(list) : m < l => list[l].key.id < list[m].key.id
            BY DEF AccountOk, OneTimeKeysOk
        <3>2. ~(i < j) /\ ~(j < i)
            BY <1>1, <2>1, <2>2, <3>1
        <3> QED
            BY <1>1, <3>2
    <2>3. First(i)
        BY <1>1, <2>1, <2>2
    <2>4. at \in 1 .. Len(list) /\ First(at)
        BY <2>3
    <2>5. at = i
        BY <2>2, <2>4
    <2>6. b = c
        BY <1>3 DEF RemoveKey
    <2> HIDE DEF at, First
    <2>7. /\ erased \in Seq(Slots) /\ Len(erased) = Len(list) - 1
          /\ \A j \in 1 .. Len(list) - 1 :
                erased[j] = IF j < i THEN list[j] ELSE list[j + 1]
        BY <1>1, <2>5, ListEraseItems
    <2> HIDE DEF erased
    <2> DEFINE place(j) == IF j < i THEN j ELSE j + 1
    <2>a. \A j \in 1 .. Len(erased) : j < i \/ j + 1 \in 1 .. Len(list)
        BY <1>1, <2>7
    <2>b. /\ \A j \in 1 .. Len(erased) : place(j) \in 1 .. Len(list) /\ place(j) # i
                                            /\ erased[j] = list[place(j)]
          /\ \A j, l \in 1 .. Len(erased) : j < l => place(j) < place(l)
        <3>1. ASSUME NEW j \in 1 .. Len(erased)
              PROVE  /\ place(j) \in 1 .. Len(list) /\ place(j) # i
                     /\ erased[j] = list[place(j)]
            BY <1>1, <2>7, <2>a
        <3>2. \A j, l \in 1 .. Len(erased) : j < l => place(j) < place(l)
            BY <1>1, <2>7
        <3> QED
            BY <3>1, <3>2
    <2> HIDE DEF place
    <2>8. c \in Accounts /\ SamePrekeys(c, a) /\ SameFallbackKeys(c, a)
        BY <1>1, <2>7 DEF Accounts, SamePrekeys, SameFallbackKeys
    <2>9. c.one_time_keys = erased /\ c.next_one_time_key_id = a.next_one_time_key_id
        BY <1>1 DEF Accounts
    <2> HIDE DEF b, c
    <2>10. FallbackIds(c) = FallbackIds(a)
        BY <2>8 DEF FallbackIds, SameFallbackKeys
    <2>11. OneTimeKeysOk(c)
        <3>1. /\ Len(list) <= MAX_ONE_TIME_KEYS
              /\ \A j \in 1 .. Len(list) :
                    /\ list[j].key.kind = "one_time"
                    /\ list[j].key.id \in 1 .. a.next_one_time_key_id
                    /\ list[j].key.id \notin FallbackIds(a)
              /\ \A j, l \in 1 .. Len(list) : j < l => list[l].key.id < list[j].key.id
            BY DEF AccountOk, OneTimeKeysOk
        <3>2. Len(erased) <= MAX_ONE_TIME_KEYS
            BY <1>1, <2>7, <3>1, AccountAssumption
        <3>3. \A j \in 1 .. Len(erased) :
                 /\ erased[j].key.kind = "one_time"
                 /\ erased[j].key.id \in 1 .. a.next_one_time_key_id
                 /\ erased[j].key.id \notin FallbackIds(a)
            BY <2>b, <3>1
        <3>4. ASSUME NEW j \in 1 .. Len(erased), NEW l \in 1 .. Len(erased), j < l
              PROVE  erased[l].key.id < erased[j].key.id
            <4>1. /\ place(j) \in 1 .. Len(list) /\ erased[j] = list[place(j)]
                  /\ place(l) \in 1 .. Len(list) /\ erased[l] = list[place(l)]
                  /\ place(j) < place(l)
                BY <2>b, <3>4
            <4> QED
                BY <3>1, <4>1
        <3> HIDE DEF list
        <3> QED
            BY <2>9, <2>10, <3>2, <3>3, <3>4 DEF OneTimeKeysOk
    <2>12. FallbackKeysOk(c)
        BY <2>8, <2>9, <2>10 DEF AccountOk, FallbackKeysOk, SameFallbackKeys
    <2>13. PrekeysOk(c)
        BY <2>8 DEF AccountOk, PrekeysOk, SamePrekeys
    <2>14. Follows(c, a)
        BY <1>1, <2>9, <2>10 DEF Follows
    <2>15. \A j \in 1 .. Len(erased) : \E l \in 1 .. Len(list) : erased[j] = list[l] /\ l # i
        BY <2>b
    <2>16. \A l \in 1 .. Len(list) : l # i => \E j \in 1 .. Len(erased) : erased[j] = list[l]
        <3> SUFFICES ASSUME NEW l \in 1 .. Len(list), l # i
                     PROVE  \E j \in 1 .. Len(erased) : erased[j] = list[l]
            OBVIOUS
        <3>1. CASE l < i
            <4>1. l \in 1 .. Len(list) - 1
                BY <1>1, <2>1, <3>1
            <4> QED
                BY <2>7, <3>1, <4>1
        <3>2. CASE l > i
            <4>1. l - 1 \in 1 .. Len(list) - 1 /\ ~(l - 1 < i) /\ (l - 1) + 1 = l
                BY <1>1, <2>1, <3>2
            <4> QED
                BY <2>7, <4>1
        <3> QED
            BY <1>1, <2>1, <3>1, <3>2
    <2>17. \A other : other # key /\ HasOneTimeKey(a, other) => HasOneTimeKey(c, other)
        BY <2>1, <2>9, <2>16 DEF HasOneTimeKey
    <2>18. ~HasOneTimeKey(c, key)
        BY <2>2, <2>9, <2>15 DEF HasOneTimeKey
    <2> QED
        BY <2>6, <2>8, <2>9, <2>11, <2>12, <2>13, <2>14, <2>15, <2>17, <2>18
        DEF AccountOk, b
<1> QED
    BY <1>2, <1>3

-----------------------------------------------------------------------------
(* One-time keys that are lost to a full list.                             *)
LEMMA NewerFinite ==
    ASSUME NEW a \in Accounts, NEW id \in Nat
    PROVE  IsFiniteSet(Newer(a, id)) /\ Cardinality(Newer(a, id)) \in Nat
<1>1. IsFiniteSet(id + 1 .. a.next_one_time_key_id)
    BY AccountTyped, FS_Interval
<1>2. Newer(a, id) \subseteq id + 1 .. a.next_one_time_key_id
    BY DEF Newer
<1> QED
    BY <1>1, <1>2, FS_Subset, FS_CardinalityType

LEMMA PushedOffStays ==
    ASSUME NEW a \in Accounts, NEW b \in Accounts, Follows(b, a),
           NEW key, key.id \in Nat, PushedOff(a, key)
    PROVE  PushedOff(b, key)
<1>1. a.next_one_time_key_id \in Nat /\ b.next_one_time_key_id \in Nat
    BY AccountTyped
<1>2. Newer(a, key.id) \subseteq Newer(b, key.id)
    BY <1>1 DEF Newer, Follows, FallbackIds
<1>3. IsFiniteSet(Newer(b, key.id)) /\ Cardinality(Newer(b, key.id)) \in Nat
      /\ Cardinality(Newer(a, key.id)) \in Nat
    BY NewerFinite
<1>4. Cardinality(Newer(a, key.id)) <= Cardinality(Newer(b, key.id))
    BY <1>2, <1>3, FS_Subset
<1> QED
    BY <1>3, <1>4, AccountAssumption DEF PushedOff

(* generate_one_time_keys(): a key leaves the list only with a full list   *)
(* of newer ones in front of it.                                           *)
LEMMA GenerateOneTimeKeysOk ==
    ASSUME NEW a, AccountOk(a), NEW n \in Nat
    PROVE  LET b == GenerateOneTimeKeys(a, n) IN
           /\ AccountOk(b) /\ Follows(b, a)
           /\ \A i \in 1 .. Len(b.one_time_keys) :
                 \/ ~b.one_time_keys[i].published
                    /\ b.one_time_keys[i].key.id > a.next_one_time_key_id
                 \/ \E j \in 1 .. Len(a.one_time_keys) :
                       b.one_time_keys[i] = a.one_time_keys[j]
           /\ \A key : HasOneTimeKey(a, key) => HasOneTimeKey(b, key) \/ PushedOff(b, key)
           /\ SamePrekeys(b, a) /\ SameFallbackKeys(b, a)
<1> DEFINE list == a.one_time_keys
           next == a.next_one_time_key_id
           Item(i) == Generated("one_time", next + n + 1 - i)
           news == [i \in 1 .. n |-> Item(i)]
           all == ListInsertAll(news, list, MAX_ONE_TIME_KEYS)
           b == [a EXCEPT !.one_time_keys = all, !.next_one_time_key_id = next + n]
<1>1. /\ a \in Accounts /\ list \in Seq(Slots) /\ Len(list) \in Nat
      /\ \A i \in 1 .. Len(list) : list[i].key.id \in Nat
      /\ FallbackIds(a) \subseteq 0 .. next /\ next \in Nat /\ next + n \in Nat
    BY AccountTyped DEF AccountOk, FallbackKeysOk
<1>2. /\ Len(list) <= MAX_ONE_TIME_KEYS
      /\ \A i \in 1 .. Len(list) :
            /\ list[i].key.kind = "one_time"
            /\ list[i].key.id \in 1 .. next /\ list[i].key.id \notin FallbackIds(a)
      /\ \A i, j \in 1 .. Len(list) : i < j => list[j].key.id < list[i].key.id
    BY DEF AccountOk, OneTimeKeysOk
<1>3. \A i \in 1 .. n :
         /\ Item(i) \in Slots /\ Item(i).published = FALSE
         /\ Item(i).key.kind = "one_time" /\ Item(i).key.id = next + n + 1 - i
    <2> TAKE i \in 1 .. n
    <2>1. next + n + 1 - i \in Nat
        BY <1>1
    <2> QED
        BY <2>1, KeysTyped
<1>4. GenerateOneTimeKeys(a, n) = b
    BY DEF GenerateOneTimeKeys
<1> HIDE DEF Item, list, next
<1>5. news \in [1 .. n -> Slots] /\ \A i \in 1 .. n : news[i] = Item(i)
    BY <1>3
<1>6. news \in Seq(Slots) /\ Len(news) = n
    BY <1>5, FunctionIsSeq
<1> HIDE DEF news
<1>7. /\ all \in Seq(Slots) /\ Len(all) \in Nat /\ Len(all) <= n + Len(list)
      /\ Len(all) <= MAX_ONE_TIME_KEYS
      /\ \A i \in 1 .. Len(all) : all[i] = IF i <= n THEN Item(i) ELSE list[i - n]
    <2>1. /\ all \in Seq(Slots) /\ Len(all) <= n + Len(list)
          /\ Len(all) <= MAX_ONE_TIME_KEYS
          /\ \A i \in 1 .. Len(all) : all[i] = IF i <= n THEN news[i] ELSE list[i - n]
        BY <1>1, <1>6, AccountAssumption, ListInsertAllItems
    <2>2. Len(all) \in Nat
        BY <2>1, LenProperties
    <2>3. \A i \in 1 .. Len(all) : i <= n => news[i] = Item(i)
        BY <1>5, <2>2
    <2> HIDE DEF all
    <2> QED
        BY <2>1, <2>2, <2>3
<1>8. Len(all) = IF n + Len(list) <= MAX_ONE_TIME_KEYS THEN n + Len(list)
                 ELSE MAX_ONE_TIME_KEYS
    <2> DEFINE m == Least(Len(news) + Len(list), MAX_ONE_TIME_KEYS)
               Place(i) == IF i <= Len(news) THEN news[i] ELSE list[i - Len(news)]
    <2>1. m \in Nat
          /\ m = IF n + Len(list) <= MAX_ONE_TIME_KEYS THEN n + Len(list)
                 ELSE MAX_ONE_TIME_KEYS
        BY <1>1, <1>6, AccountAssumption DEF Least
    <2>2. all = [i \in 1 .. m |-> Place(i)]
        BY DEF ListInsertAll
    <2>3. DOMAIN all = 1 .. m
        BY <2>2
    <2> HIDE DEF all, m
    <2>4. DOMAIN all = 1 .. Len(all) /\ Len(all) \in Nat
        BY <1>7, LenProperties
    <2>5. Len(all) = m
        BY <2>1, <2>3, <2>4
    <2> QED
        BY <2>1, <2>5
<1> HIDE DEF all
<1>9. b \in Accounts /\ SamePrekeys(b, a) /\ SameFallbackKeys(b, a)
    BY <1>1, <1>7 DEF Accounts, SamePrekeys, SameFallbackKeys
<1>10. b.one_time_keys = all /\ b.next_one_time_key_id = next + n
    BY <1>1 DEF Accounts
<1> HIDE DEF b
<1>11. FallbackIds(b) = FallbackIds(a)
    BY <1>9 DEF FallbackIds, SameFallbackKeys
<1>12. \A i \in 1 .. Len(all) :
          \/ i <= n /\ all[i] = Item(i) /\ i \in 1 .. n
          \/ i > n /\ i - n \in 1 .. Len(list) /\ all[i] = list[i - n]
    BY <1>1, <1>7
<1>13. \A i \in 1 .. Len(all) :
          /\ all[i].key.kind = "one_time" /\ all[i].key.id \in 1 .. next + n
          /\ all[i].key.id \notin FallbackIds(b)
    <2> TAKE i \in 1 .. Len(all)
    <2>1. CASE i <= n /\ all[i] = Item(i) /\ i \in 1 .. n
        BY <1>1, <1>3, <1>11, <2>1
    <2>2. CASE i > n /\ i - n \in 1 .. Len(list) /\ all[i] = list[i - n]
        BY <1>1, <1>2, <1>11, <2>2
    <2> QED
        BY <1>12, <2>1, <2>2
<1>14. \A i, j \in 1 .. Len(all) : i < j => all[j].key.id < all[i].key.id
    <2> SUFFICES ASSUME NEW i \in 1 .. Len(all), NEW j \in 1 .. Len(all), i < j
                 PROVE  all[j].key.id < all[i].key.id
        OBVIOUS
    <2>1. CASE j <= n
        <3>1. i \in 1 .. n /\ j \in 1 .. n /\ all[i] = Item(i) /\ all[j] = Item(j)
            BY <1>7, <1>12, <2>1
        <3>2. all[i].key.id = next + n + 1 - i /\ all[j].key.id = next + n + 1 - j
            BY <1>3, <3>1
        <3> QED
            BY <1>1, <3>1, <3>2
    <2>2. CASE i <= n /\ j > n
        <3>1. /\ i \in 1 .. n /\ all[i] = Item(i)
              /\ j - n \in 1 .. Len(list) /\ all[j] = list[j - n]
            BY <1>7, <1>12, <2>2
        <3>2. all[i].key.id = next + n + 1 - i /\ all[j].key.id \in 1 .. next
            BY <1>2, <1>3, <3>1
        <3> QED
            BY <1>1, <3>1, <3>2
    <2>3. CASE i > n
        <3>1. /\ i - n \in 1 .. Len(list) /\ all[i] = list[i - n]
              /\ j - n \in 1 .. Len(list) /\ all[j] = list[j - n]
              /\ i - n < j - n
            BY <1>1, <1>7, <1>12, <2>3
        <3> QED
            BY <1>2, <3>1
    <2> QED
        BY <1>7, <2>1, <2>2, <2>3
<1>15. OneTimeKeysOk(b)
    BY <1>7, <1>10, <1>13, <1>14 DEF OneTimeKeysOk
<1>16. FallbackKeysOk(b)
    BY <1>1, <1>9, <1>10, <1>11 DEF AccountOk, FallbackKeysOk, SameFallbackKeys
<1>17. PrekeysOk(b)
    BY <1>9 DEF AccountOk, PrekeysOk, SamePrekeys
<1>18. Follows(b, a)
    BY <1>1, <1>10, <1>11 DEF Follows, next
<1>19. \A i \in 1 .. Len(all) :
          \/ ~all[i].published /\ all[i].key.id > next
          \/ \E j \in 1 .. Len(list) : all[i] = list[j]
    <2> SUFFICES ASSUME NEW i \in 1 .. Len(all)
                 PROVE  \/ ~all[i].published /\ all[i].key.id > next
                        \/ \E j \in 1 .. Len(list) : all[i] = list[j]
        OBVIOUS
    <2>1. CASE i <= n
        <3>1. i \in 1 .. n /\ all[i] = Item(i)
            BY <1>7, <2>1
        <3>2. all[i].published = FALSE /\ all[i].key.id = next + n + 1 - i
            BY <1>3, <3>1
        <3>3. next + n + 1 - i > next
            BY <1>1, <3>1
        <3> QED
            BY <3>2, <3>3
    <2>2. CASE i > n
        <3>1. i - n \in 1 .. Len(list) /\ all[i] = list[i - n]
            BY <1>1, <1>7, <1>12, <2>2
        <3> QED
            BY <3>1
    <2> QED
        BY <1>1, <1>7, <2>1, <2>2
<1>20. ASSUME NEW key, HasOneTimeKey(a, key)
       PROVE  HasOneTimeKey(b, key) \/ PushedOff(b, key)
    <2>1. PICK j \in 1 .. Len(list) : list[j].key = key
        BY <1>20 DEF HasOneTimeKey, list
    <2>2. CASE j + n <= Len(all)
        <3>1. j + n \in 1 .. Len(all) /\ all[j + n] = list[j]
            BY <1>1, <1>7, <2>2
        <3> QED
            BY <1>10, <2>1, <3>1 DEF HasOneTimeKey
    <2>3. CASE j + n > Len(all)
        <3>1. Len(all) = MAX_ONE_TIME_KEYS
            BY <1>1, <1>8, <2>3
        <3>2. \A i \in 1 .. Len(all) : all[i].key.id > key.id
            <4> TAKE i \in 1 .. Len(all)
            <4>1. CASE i <= n /\ all[i] = Item(i) /\ i \in 1 .. n
                <5>1. all[i].key.id = next + n + 1 - i /\ key.id \in 1 .. next
                    BY <1>2, <1>3, <2>1, <4>1
                <5> QED
                    BY <1>1, <4>1, <5>1
            <4>2. CASE i > n /\ i - n \in 1 .. Len(list) /\ all[i] = list[i - n]
                <5>1. i - n < j
                    BY <1>1, <1>7, <2>3, <4>2
                <5> QED
                    BY <1>2, <2>1, <4>2, <5>1
            <4> QED
                BY <1>12, <4>1, <4>2
        <3> DEFINE f == [i \in 1 .. Len(all) |-> all[i].key.id]
                   T == Newer(b, key.id)
        <3>3. key.id \in Nat
            BY <1>1, <2>1
        <3>4. \A i \in 1 .. Len(all) : all[i].key.id \in T
            <4> TAKE i \in 1 .. Len(all)
            <4> DEFINE id == all[i].key.id
            <4>1. id \in 1 .. next + n /\ id > key.id /\ id \notin FallbackIds(b)
                BY <1>13, <3>2
            <4> HIDE DEF id
            <4>2. id \in key.id + 1 .. b.next_one_time_key_id
                BY <1>1, <1>10, <3>3, <4>1
            <4>3. id \in T
                BY <4>1, <4>2 DEF Newer, FallbackIds
            <4> QED
                BY <4>3 DEF id
        <3>5. f \in [1 .. Len(all) -> T]
            BY <3>4
        <3> HIDE DEF T
        <3>6. \A i, k \in 1 .. Len(all) : i # k => all[i].key.id # all[k].key.id
            BY <1>1, <1>7, <1>13, <1>14
        <3>7. f \in Injection(1 .. Len(all), T)
            BY <3>5, <3>6 DEF Injection, IsInjective
        <3>8. IsFiniteSet(T) /\ Cardinality(T) \in Nat
            BY <1>9, <3>3, NewerFinite DEF T
        <3>9. Cardinality(1 .. Len(all)) <= Cardinality(T)
            BY <3>7, <3>8, FS_Injection
        <3>10. Cardinality(1 .. Len(all)) = MAX_ONE_TIME_KEYS
            BY <3>1, AccountAssumption, FS_Interval
        <3> QED
            BY <3>8, <3>9, <3>10, AccountAssumption DEF PushedOff, T
    <2> QED
        BY <1>1, <1>7, <2>2, <2>3
<1> QED
    BY <1>4, <1>9, <1>10, <1>15, <1>16, <1>17, <1>18, <1>19, <1>20
    DEF AccountOk, list, next

-----------------------------------------------------------------------------
(* The inductive invariant.                                                *)

(* Account a, the keys of an upload under way, what the server hands out   *)
(* (srv), the outbound sessions there are (out), and the sessions that Bob *)
(* has made of them.                                                       *)

(* An upload under way holds what is not published; of the fallback and    *)
(* pre-keys, only the current ones.                                        *)
UploadOk(a, keys) ==
    /\ keys \subseteq Keys
    /\ keys # {} => UnpublishedKeys(a) \subseteq keys
    /\ \A key \in keys :
          /\ key.kind = "fallback" => /\ a.num_fallback_keys >= 1
                                      /\ ~a.current_fallback_key.published
                                      /\ a.current_fallback_key.key = key
          /\ key.kind = "prekey" => /\ ~a.current_prekey.published
                                    /\ a.current_prekey.key = key

(* The server hands out the current fallback and pre-key, or the one       *)
(* before while the current one is not published.                          *)
PrekeyServed(a, key) ==
    \/ key \in {NoKey, a.current_prekey.key}
    \/ /\ key = a.prev_prekey.key
       /\ a.num_prekeys = 2 /\ ~a.current_prekey.published
FallbackServed(a, key) ==
    \/ key = NoKey
    \/ a.num_fallback_keys >= 1 /\ key = a.current_fallback_key.key
    \/ /\ a.num_fallback_keys = 2 /\ key = a.prev_fallback_key.key
       /\ ~a.current_fallback_key.published

(* What has become of a one-time key.                                      *)
Traced(a, sessions, key) ==
    \/ HasOneTimeKey(a, key)
    \/ PushedOff(a, key)
    \/ \E t \in sessions : t.one_time = key

GivenOut(a) == [kind : {"one_time"}, id : 1 .. a.next_one_time_key_id]
ServerOk(a, keys, srv, sessions) ==
    /\ srv \in [prekey : Keys, fallback : Keys, one_time : SUBSET GivenOut(a),
                claimed : SUBSET GivenOut(a)]
    /\ srv.prekey.kind \in {"none", "prekey"} /\ srv.fallback.kind \in {"none", "fallback"}
    /\ srv.one_time \cap srv.claimed = {}
    /\ PrekeyServed(a, srv.prekey) /\ FallbackServed(a, srv.fallback)
    /\ \A key \in keys \cup srv.one_time \cup srv.claimed :
          key.kind = "one_time" => key \in GivenOut(a) /\ Traced(a, sessions, key)

(* PublishedKeysUploaded.                                                  *)
PublishedOk(a, srv) ==
    /\ \A i \in 1 .. Len(a.one_time_keys) :
          a.one_time_keys[i].published
          => a.one_time_keys[i].key \in srv.one_time \cup srv.claimed
    /\ a.current_fallback_key.published /\ a.num_fallback_keys > 0
          => a.current_fallback_key.key = srv.fallback
    /\ a.current_prekey.published => a.current_prekey.key = srv.prekey

(* The fallback and pre-keys of sessions on their way are kept.            *)
Unanswered(out, sessions) == {s \in out : \A t \in sessions : t.origin # s.origin}
AwaitedOk(a, out, sessions) ==
    \A s \in Unanswered(out, sessions) :
        /\ KnowsPrekey(a, s.prekey)
        /\ s.one_time.kind = "fallback" => KnowsKey(a, s.one_time)

(* The account serves everybody who has, or gets, a key of it.             *)
Serves(a, keys, srv, out, sessions) ==
    /\ AccountOk(a) /\ UploadOk(a, keys)
    /\ ServerOk(a, keys, srv, sessions) /\ PublishedOk(a, srv)
    /\ AwaitedOk(a, out, sessions)

(* Outbound sessions are numbered, and share no one-time key.              *)
OutboundSession(s) ==
    /\ s = [origin |-> s.origin, identity |-> s.identity, base |-> s.base,
            one_time |-> s.one_time, prekey |-> s.prekey, secret |-> s.secret]
    /\ s.origin \in 1 .. Cardinality(outbound)
    /\ s.identity.kind = "identity"
    /\ s.base = Key("base", s.origin)
    /\ s.secret = OutboundSecret(s.identity, s.base, s.one_time, s.prekey)
    /\ s.prekey.kind = "prekey"
    /\ s.one_time.kind \in {"one_time", "fallback"} \/ s.one_time = s.prekey
    /\ s.one_time.kind = "one_time" => s.one_time \in server.claimed
OutboundOk ==
    /\ IsFiniteSet(outbound)
    /\ \A s \in outbound : OutboundSession(s)
    /\ \A s, t \in outbound : s.origin = t.origin => s = t
    /\ \A s, t \in outbound : s.one_time = t.one_time /\ s.one_time.kind = "one_time" => s = t

(* Bob's sessions have the keys of Bob that their outbound sessions have.  *)
MadeFrom(t, s) ==
    t.origin = s.origin /\ t.one_time = s.one_time /\ t.prekey = s.prekey
InboundOk ==
    /\ inbound \in Seq(Inbound)
    /\ \A t \in Inbound : \E s \in outbound : MadeFrom(t, s)
    /\ \A p \in pending : \E s \in outbound : MadeFrom(p.session, s)

RemovedOk ==
    \A key \in removed :
        /\ ~HasOneTimeKey(account, key)
        /\ key.kind = "one_time" => /\ key \in server.claimed
                                    /\ \E t \in Inbound : t.one_time = key

IInv ==
    /\ Serves(account, uploading, server, outbound, Inbound)
    /\ OutboundOk /\ InboundOk /\ RemovedOk

(* Which inbound session is made from which outbound session.              *)
MatchOk ==
    /\ \A t \in Inbound : \E s \in outbound :
          MadeFrom(t, s) /\ t.base = s.base /\ t.identity = s.identity
    /\ \A p \in pending : \E s \in outbound :
          /\ MadeFrom(p.session, s) /\ p.session.base = s.base
          /\ p.session.identity \in {s.identity, Garbage}
          /\ p.secret = s.secret /\ p.session.secret = InboundSecret(p.session)
          /\ p.session.identity = s.identity => \A t \in Inbound : t.origin # s.origin
    /\ OneSessionEach

-----------------------------------------------------------------------------
LEMMA KeyTyped ==
    ASSUME NEW key \in Keys
    PROVE  key.id \in Nat /\ key.kind \in {"none", "prekey", "fallback", "one_time"}
BY DEF Keys

(* What an upload that begins contains.                                    *)
LEMMA UnpublishedFacts ==
    ASSUME NEW a, AccountOk(a)
    PROVE  /\ UnpublishedKeys(a) \subseteq Keys
           /\ \A key \in UnpublishedKeys(a) :
                 /\ key.kind = "one_time" => HasOneTimeKey(a, key)
                 /\ key.kind = "fallback" => /\ a.num_fallback_keys >= 1
                                             /\ ~a.current_fallback_key.published
                                             /\ a.current_fallback_key.key = key
                 /\ key.kind = "prekey" => /\ ~a.current_prekey.published
                                           /\ a.current_prekey.key = key
           /\ \A i \in 1 .. Len(a.one_time_keys) :
                 a.one_time_keys[i].published
                 \/ a.one_time_keys[i].key \in UnpublishedKeys(a)
           /\ a.num_fallback_keys >= 1 /\ ~a.current_fallback_key.published
                 => a.current_fallback_key.key \in UnpublishedKeys(a)
           /\ ~a.current_prekey.published => a.current_prekey.key \in UnpublishedKeys(a)
<1>1. /\ \A i \in 1 .. Len(a.one_time_keys) :
            /\ a.one_time_keys[i].key \in Keys
            /\ a.one_time_keys[i].key.kind = "one_time"
      /\ a.current_fallback_key.key \in Keys /\ a.current_prekey.key \in Keys
      /\ a.current_prekey.key.kind = "prekey"
    BY AccountTyped DEF AccountOk, OneTimeKeysOk, PrekeysOk
<1>2. a.num_fallback_keys >= 1 => a.current_fallback_key.key.kind = "fallback"
    BY AccountTyped DEF AccountOk, FallbackKeysOk
<1>3. \A key : key \in UnpublishedKeys(a) <=>
         \/ \E i \in 1 .. Len(a.one_time_keys) :
               ~a.one_time_keys[i].published /\ key = a.one_time_keys[i].key
         \/ /\ a.num_fallback_keys >= 1 /\ ~a.current_fallback_key.published
            /\ key = a.current_fallback_key.key
         \/ ~a.current_prekey.published /\ key = a.current_prekey.key
    BY DEF UnpublishedKeys
<1> QED
    BY <1>1, <1>2, <1>3 DEF HasOneTimeKey

(* What is listed was generated as a one-time key.                         *)
LEMMA ListedFacts ==
    ASSUME NEW a, AccountOk(a), NEW key, HasOneTimeKey(a, key)
    PROVE  /\ key \in Keys /\ key.kind = "one_time"
           /\ key.id \in 1 .. a.next_one_time_key_id
BY AccountTyped DEF AccountOk, OneTimeKeysOk, HasOneTimeKey

LEMMA GivenOutFacts ==
    ASSUME NEW a, AccountOk(a), NEW key
    PROVE  key \in GivenOut(a) <=> /\ key \in Keys /\ key.kind = "one_time"
                                   /\ key.id \in 1 .. a.next_one_time_key_id
<1>1. a.next_one_time_key_id \in Nat
    BY AccountTyped DEF AccountOk
<1> QED
    BY <1>1 DEF GivenOut, Keys

(* Account b has come after a, and has lost one-time keys only as Traced   *)
(* says.                                                                   *)
Succeeds(b, a, sessions) ==
    /\ AccountOk(b) /\ Follows(b, a)
    /\ \A key : HasOneTimeKey(a, key) =>
          HasOneTimeKey(b, key) \/ PushedOff(b, key) \/ \E t \in sessions : t.one_time = key
    /\ \A key : HasOneTimeKey(b, key) =>
          HasOneTimeKey(a, key) \/ key.id > a.next_one_time_key_id

LEMMA TracedStays ==
    ASSUME NEW a, NEW b, NEW sessions, AccountOk(a), Succeeds(b, a, sessions),
           NEW key \in GivenOut(a), Traced(a, sessions, key)
    PROVE  key \in GivenOut(b) /\ Traced(b, sessions, key)
<1>1. /\ a \in Accounts /\ b \in Accounts
      /\ a.next_one_time_key_id \in Nat /\ b.next_one_time_key_id \in Nat
      /\ a.next_one_time_key_id <= b.next_one_time_key_id
    BY AccountTyped DEF AccountOk, Succeeds, Follows
<1>2. key.id \in 1 .. a.next_one_time_key_id /\ key.id \in Nat
      /\ key = [kind |-> "one_time", id |-> key.id]
    BY <1>1 DEF GivenOut
<1>3. key \in GivenOut(b)
    BY <1>1, <1>2 DEF GivenOut
<1>4. PushedOff(a, key) => PushedOff(b, key)
    BY <1>1, <1>2, PushedOffStays DEF Succeeds
<1> QED
    BY <1>3, <1>4 DEF Traced, Succeeds

LEMMA GivenOutGrows ==
    ASSUME NEW a, NEW b, NEW sessions, AccountOk(a), Succeeds(b, a, sessions)
    PROVE  GivenOut(a) \subseteq GivenOut(b)
<1>1. a.next_one_time_key_id <= b.next_one_time_key_id
      /\ a.next_one_time_key_id \in Nat /\ b.next_one_time_key_id \in Nat
    BY AccountTyped DEF Succeeds, Follows, AccountOk
<1> QED
    BY <1>1 DEF GivenOut

(* A change of the account alone.                                          *)
LEMMA ServesStill ==
    ASSUME NEW a, NEW b, NEW keys, NEW srv, NEW out, NEW sessions,
           Serves(a, keys, srv, out, sessions), Succeeds(b, a, sessions),
           UploadOk(b, keys), PrekeyServed(b, srv.prekey), FallbackServed(b, srv.fallback),
           PublishedOk(b, srv), AwaitedOk(b, out, sessions)
    PROVE  Serves(b, keys, srv, out, sessions)
<1>1. AccountOk(a) /\ AccountOk(b) /\ ServerOk(a, keys, srv, sessions)
    BY DEF Succeeds, Serves
<1>2. \A key \in GivenOut(a) : Traced(a, sessions, key) =>
         key \in GivenOut(b) /\ Traced(b, sessions, key)
    BY <1>1, TracedStays
<1>3. GivenOut(a) \subseteq GivenOut(b)
    BY <1>1, GivenOutGrows
<1>4. ServerOk(b, keys, srv, sessions)
    BY <1>1, <1>2, <1>3 DEF ServerOk
<1> QED
    BY <1>1, <1>4 DEF Serves

LEMMA AccountChanges ==
    ASSUME IInv, Succeeds(account', account, Inbound),
           UNCHANGED <<uploading, server, outbound, pending, inbound, removed>>,
           UploadOk(account, uploading)', PrekeyServed(account, server.prekey)',
           FallbackServed(account, server.fallback)', PublishedOk(account, server)',
           AwaitedOk(account, outbound, Inbound)'
    PROVE  IInv'
<1>1. AccountOk(account)' /\ AccountOk(account) /\ Inbound' = Inbound
    BY DEF Succeeds, IInv, Serves, Inbound
<1>2. Serves(account', uploading, server, outbound, Inbound)
    BY <1>1, ServesStill DEF IInv
<1>3. RemovedOk'
    <2> SUFFICES ASSUME NEW key \in removed
                 PROVE  /\ ~HasOneTimeKey(account', key)
                        /\ key.kind = "one_time" => /\ key \in server.claimed
                                                    /\ \E t \in Inbound : t.one_time = key
        BY <1>1 DEF RemovedOk
    <2>1. /\ ~HasOneTimeKey(account, key)
          /\ key.kind = "one_time" => /\ key \in server.claimed
                                      /\ \E t \in Inbound : t.one_time = key
        BY DEF IInv, RemovedOk
    <2>2. key \in server.claimed => key.id \in 1 .. account.next_one_time_key_id
        BY DEF IInv, Serves, ServerOk, GivenOut
    <2>3. HasOneTimeKey(account', key) =>
             key.kind = "one_time" /\ key.id > account.next_one_time_key_id
        BY <1>1, <2>1, ListedFacts DEF Succeeds
    <2>4. account.next_one_time_key_id \in Nat
        BY <1>1, AccountTyped DEF AccountOk
    <2> QED
        BY <2>1, <2>2, <2>3, <2>4
<1>4. OutboundOk' /\ InboundOk'
    BY <1>1 DEF IInv, OutboundOk, OutboundSession, InboundOk
<1> QED
    BY <1>1, <1>2, <1>3, <1>4 DEF IInv

-----------------------------------------------------------------------------
(* Initially.                                                              *)
LEMMA InitOk == Init => IInv
<1> SUFFICES ASSUME Init PROVE IInv
    OBVIOUS
<1>1. AccountOk(account) /\ account \in Accounts
    BY NewAccountOk DEF Init, AccountOk
<1>2. Inbound = {}
    <2>1. Len(inbound) = 0
        BY DEF Init
    <2> QED
        BY <2>1 DEF Inbound
<1>3. UploadOk(account, uploading)
    BY DEF Init, UploadOk
<1>4. ServerOk(account, uploading, server, Inbound)
    <2> DEFINE new == [prekey |-> NoKey, fallback |-> NoKey, one_time |-> {}, claimed |-> {}]
    <2>1. server = new /\ new.prekey = NoKey /\ new.fallback = NoKey
          /\ new.one_time = {} /\ new.claimed = {} /\ uploading = {}
        BY DEF Init
    <2>2. new \in [prekey : Keys, fallback : Keys, one_time : SUBSET GivenOut(account),
                   claimed : SUBSET GivenOut(account)]
        BY UnsetTyped
    <2> HIDE DEF new
    <2> QED
        BY <2>1, <2>2, UnsetTyped DEF ServerOk, PrekeyServed, FallbackServed
<1>5. PublishedOk(account, server)
    <2>1. /\ Len(account.one_time_keys) = 0
          /\ ~account.current_fallback_key.published /\ ~account.current_prekey.published
        BY NewAccountOk DEF Init
    <2> QED
        BY <2>1 DEF PublishedOk
<1>6. OutboundOk
    BY FS_EmptySet DEF Init, OutboundOk
<1>7. InboundOk
    BY <1>2 DEF Init, InboundOk
<1>8. AwaitedOk(account, outbound, Inbound) /\ RemovedOk
    BY DEF Init, AwaitedOk, Unanswered, RemovedOk
<1> QED
    BY <1>1, <1>3, <1>4, <1>5, <1>6, <1>7, <1>8 DEF IInv, Serves

-----------------------------------------------------------------------------
(* The application generates and forgets keys.                             *)
LEMMA SameList ==
    ASSUME AccountOk(account), AccountOk(account'),
           account'.one_time_keys = account.one_time_keys,
           Follows(account', account), removed \subseteq removed'
    PROVE  Succeeds(account', account, Inbound)
BY DEF Succeeds, HasOneTimeKey

LEMMA SameFallbackFollows ==
    ASSUME NEW a, NEW b, AccountOk(a), AccountOk(b), SameFallbackKeys(b, a),
           a.next_one_time_key_id <= b.next_one_time_key_id
    PROVE  Follows(b, a)
BY DEF Follows, SameFallbackKeys, FallbackIds

LEMMA OneTimeKeysKeep == ASSUME IInv, Maintain, OneTimeKeys PROVE IInv'
<1>1. PICK n \in 1 .. MaxIds - account.next_one_time_key_id :
         account' = GenerateOneTimeKeys(account, n)
    BY DEF OneTimeKeys
<1>2. AccountOk(account) /\ n \in Nat
    BY <1>1 DEF IInv, Serves
<1>3. /\ AccountOk(account') /\ Follows(account', account)
      /\ \A i \in 1 .. Len(account'.one_time_keys) :
            \/ ~account'.one_time_keys[i].published
               /\ account'.one_time_keys[i].key.id > account.next_one_time_key_id
            \/ \E j \in 1 .. Len(account.one_time_keys) :
                  account'.one_time_keys[i] = account.one_time_keys[j]
      /\ \A key : HasOneTimeKey(account, key)
                  => HasOneTimeKey(account', key) \/ PushedOff(account', key)
      /\ SamePrekeys(account', account) /\ SameFallbackKeys(account', account)
    BY <1>1, <1>2, GenerateOneTimeKeysOk
<1>4. uploading = {} /\ UNCHANGED <<uploading, server, outbound, pending, inbound, removed>>
    BY DEF Maintain
<1>5. Succeeds(account', account, Inbound)
    BY <1>3, <1>4 DEF Succeeds, HasOneTimeKey
<1>6. UploadOk(account, uploading)'
    BY <1>4 DEF UploadOk
<1>7. PrekeyServed(account, server.prekey)' /\ FallbackServed(account, server.fallback)'
    BY <1>3, <1>4 DEF IInv, Serves, ServerOk, PrekeyServed, FallbackServed, SamePrekeys,
                      SameFallbackKeys
<1>8. PublishedOk(account, server)'
    BY <1>3, <1>4 DEF IInv, Serves, PublishedOk, SamePrekeys, SameFallbackKeys
<1>9. AwaitedOk(account, outbound, Inbound)'
    <2> SUFFICES ASSUME NEW s \in Unanswered(outbound, Inbound)
                 PROVE  /\ KnowsPrekey(account', s.prekey)
                        /\ s.one_time.kind = "fallback" => KnowsKey(account', s.one_time)
        BY <1>4 DEF AwaitedOk, Unanswered, Inbound
    <2>1. /\ KnowsPrekey(account, s.prekey)
          /\ s.one_time.kind = "fallback" => KnowsKey(account, s.one_time)
        BY DEF IInv, Serves, AwaitedOk
    <2>2. s.one_time.kind = "fallback" => ~HasOneTimeKey(account, s.one_time)
        BY <1>2, ListedFacts
    <2> QED
        BY <1>3, <2>1, <2>2 DEF KnowsPrekey, KnowsKey, SamePrekeys, SameFallbackKeys
<1> QED
    BY <1>4, <1>5, <1>6, <1>7, <1>8, <1>9, AccountChanges

LEMMA FallbackKeyKeeps == ASSUME IInv, Maintain, FallbackKey PROVE IInv'
<1>1. AccountOk(account)
    BY DEF IInv, Serves
<1>2. /\ AccountOk(account') /\ Follows(account', account)
      /\ account'.one_time_keys = account.one_time_keys /\ SamePrekeys(account', account)
      /\ account'.num_fallback_keys = IF account.num_fallback_keys = 0 THEN 1 ELSE 2
      /\ account'.prev_fallback_key = account.current_fallback_key
      /\ ~account'.current_fallback_key.published
    BY <1>1, GenerateFallbackKeyOk DEF FallbackKey
<1>3. uploading = {} /\ UNCHANGED <<uploading, server, outbound, pending, inbound, removed>>
    BY DEF Maintain
<1>4. Succeeds(account', account, Inbound)
    BY <1>1, <1>2, <1>3, SameList
<1>5. UploadOk(account, uploading)'
    BY <1>3 DEF UploadOk
<1>6. account.num_fallback_keys \in 0 .. 2
    BY <1>1, AccountTyped DEF AccountOk
<1>7. \/ server.fallback = NoKey
      \/ /\ account.num_fallback_keys >= 1
         /\ server.fallback = account.current_fallback_key.key
    BY <1>6 DEF IInv, Serves, ServerOk, FallbackServed, FallbackKey
<1>8. PrekeyServed(account, server.prekey)' /\ FallbackServed(account, server.fallback)'
    BY <1>2, <1>3, <1>6, <1>7
    DEF IInv, Serves, ServerOk, PrekeyServed, FallbackServed, SamePrekeys
<1>9. PublishedOk(account, server)'
    BY <1>2, <1>3 DEF IInv, Serves, PublishedOk, SamePrekeys
<1>10. AwaitedOk(account, outbound, Inbound)'
    <2> SUFFICES ASSUME NEW s \in Unanswered(outbound, Inbound)
                 PROVE  /\ KnowsPrekey(account', s.prekey)
                        /\ s.one_time.kind = "fallback" => KnowsKey(account', s.one_time)
        BY <1>3 DEF AwaitedOk, Unanswered, Inbound
    <2>1. /\ KnowsPrekey(account, s.prekey)
          /\ s.one_time.kind = "fallback" => KnowsKey(account, s.one_time)
        BY DEF IInv, Serves, AwaitedOk
    <2>2. s.one_time # account.prev_fallback_key.key
        BY DEF FallbackKey, Unused, Awaited, Unanswered
    <2>3. KnowsKey(account, s.one_time) => KnowsKey(account', s.one_time)
        BY <1>2, <1>6, <2>2 DEF KnowsKey, HasOneTimeKey
    <2> QED
        BY <1>2, <2>1, <2>3 DEF KnowsPrekey, SamePrekeys
<1> QED
    BY <1>3, <1>4, <1>5, <1>8, <1>9, <1>10, AccountChanges

LEMMA ForgetFallbackKeeps == ASSUME IInv, Maintain, ForgetFallback PROVE IInv'
<1>1. AccountOk(account)
    BY DEF IInv, Serves
<1>2. /\ AccountOk(account') /\ Follows(account', account)
      /\ SameOneTimeKeys(account', account) /\ SamePrekeys(account', account)
      /\ account'.num_fallback_keys = IF account.num_fallback_keys = 0 THEN 0 ELSE 1
      /\ account'.current_fallback_key = account.current_fallback_key
    BY <1>1, ForgetOldFallbackKeyOk DEF ForgetFallback
<1>3. uploading = {} /\ UNCHANGED <<uploading, server, outbound, pending, inbound, removed>>
    BY DEF Maintain
<1>4. Succeeds(account', account, Inbound)
    BY <1>1, <1>2, <1>3, SameList DEF SameOneTimeKeys
<1>5. UploadOk(account, uploading)'
    BY <1>3 DEF UploadOk
<1>6. account.num_fallback_keys \in 0 .. 2
    BY <1>1, AccountTyped DEF AccountOk
<1>7. PrekeyServed(account, server.prekey)' /\ FallbackServed(account, server.fallback)'
    BY <1>2, <1>3, <1>6
    DEF IInv, Serves, ServerOk, PrekeyServed, FallbackServed, SamePrekeys, ForgetFallback
<1>8. PublishedOk(account, server)'
    BY <1>2, <1>3, <1>6 DEF IInv, Serves, PublishedOk, SamePrekeys, SameOneTimeKeys
<1>9. AwaitedOk(account, outbound, Inbound)'
    <2> SUFFICES ASSUME NEW s \in Unanswered(outbound, Inbound)
                 PROVE  /\ KnowsPrekey(account', s.prekey)
                        /\ s.one_time.kind = "fallback" => KnowsKey(account', s.one_time)
        BY <1>3 DEF AwaitedOk, Unanswered, Inbound
    <2>1. /\ KnowsPrekey(account, s.prekey)
          /\ s.one_time.kind = "fallback" => KnowsKey(account, s.one_time)
        BY DEF IInv, Serves, AwaitedOk
    <2>2. s.one_time # account.prev_fallback_key.key
        BY DEF ForgetFallback, Unused, Awaited, Unanswered
    <2>3. KnowsKey(account, s.one_time) => KnowsKey(account', s.one_time)
        BY <1>2, <1>6, <2>2 DEF KnowsKey, HasOneTimeKey, SameOneTimeKeys
    <2> QED
        BY <1>2, <2>1, <2>3 DEF KnowsPrekey, SamePrekeys
<1> QED
    BY <1>3, <1>4, <1>5, <1>7, <1>8, <1>9, AccountChanges

LEMMA PrekeyKeeps == ASSUME IInv, Maintain, Prekey PROVE IInv'
<1>1. AccountOk(account) /\ account \in Accounts
    BY DEF IInv, Serves, AccountOk
<1>2. /\ AccountOk(account')
      /\ SameOneTimeKeys(account', account) /\ SameFallbackKeys(account', account)
      /\ account'.num_prekeys = 2 /\ account'.prev_prekey = account.current_prekey
      /\ ~account'.current_prekey.published
    BY <1>1, GeneratePrekeyOk, GeneratePrekeyFields DEF Prekey
<1>3. uploading = {} /\ UNCHANGED <<uploading, server, outbound, pending, inbound, removed>>
    BY DEF Maintain
<1>4. Succeeds(account', account, Inbound)
    <2>1. account.next_one_time_key_id <= account'.next_one_time_key_id
        BY <1>1, <1>2, AccountTyped DEF SameOneTimeKeys
    <2> QED
        BY <1>1, <1>2, <1>3, <2>1, SameList, SameFallbackFollows DEF SameOneTimeKeys
<1>5. UploadOk(account, uploading)'
    BY <1>3 DEF UploadOk
<1>6. PrekeyServed(account, server.prekey)' /\ FallbackServed(account, server.fallback)'
    BY <1>2, <1>3
    DEF IInv, Serves, ServerOk, PrekeyServed, FallbackServed, SameFallbackKeys, Prekey
<1>7. PublishedOk(account, server)'
    BY <1>2, <1>3 DEF IInv, Serves, PublishedOk, SameFallbackKeys, SameOneTimeKeys
<1>8. AwaitedOk(account, outbound, Inbound)'
    <2> SUFFICES ASSUME NEW s \in Unanswered(outbound, Inbound)
                 PROVE  /\ KnowsPrekey(account', s.prekey)
                        /\ s.one_time.kind = "fallback" => KnowsKey(account', s.one_time)
        BY <1>3 DEF AwaitedOk, Unanswered, Inbound
    <2>1. /\ KnowsPrekey(account, s.prekey)
          /\ s.one_time.kind = "fallback" => KnowsKey(account, s.one_time)
        BY DEF IInv, Serves, AwaitedOk
    <2>2. s.prekey # account.prev_prekey.key
        BY DEF Prekey, Unused, Awaited, Unanswered
    <2>3. KnowsKey(account, s.one_time) => KnowsKey(account', s.one_time)
        BY <1>2 DEF KnowsKey, HasOneTimeKey, SameOneTimeKeys, SameFallbackKeys
    <2> QED
        BY <1>2, <2>1, <2>2, <2>3 DEF KnowsPrekey
<1> QED
    BY <1>3, <1>4, <1>5, <1>6, <1>7, <1>8, AccountChanges

LEMMA ForgetPrekeyKeeps == ASSUME IInv, Maintain, ForgetPrekey PROVE IInv'
<1>1. AccountOk(account) /\ account \in Accounts
    BY DEF IInv, Serves, AccountOk
<1>2. /\ AccountOk(account')
      /\ SameOneTimeKeys(account', account) /\ SameFallbackKeys(account', account)
      /\ account'.num_prekeys = 1 /\ account'.current_prekey = account.current_prekey
    BY <1>1, ForgetOldPrekeyOk DEF ForgetPrekey
<1>3. uploading = {} /\ UNCHANGED <<uploading, server, outbound, pending, inbound, removed>>
    BY DEF Maintain
<1>4. Succeeds(account', account, Inbound)
    <2>1. account.next_one_time_key_id <= account'.next_one_time_key_id
        BY <1>1, <1>2, AccountTyped DEF SameOneTimeKeys
    <2> QED
        BY <1>1, <1>2, <1>3, <2>1, SameList, SameFallbackFollows DEF SameOneTimeKeys
<1>5. UploadOk(account, uploading)'
    BY <1>3 DEF UploadOk
<1>6. PrekeyServed(account, server.prekey)' /\ FallbackServed(account, server.fallback)'
    BY <1>2, <1>3
    DEF IInv, Serves, ServerOk, PrekeyServed, FallbackServed, SameFallbackKeys, ForgetPrekey
<1>7. PublishedOk(account, server)'
    BY <1>2, <1>3 DEF IInv, Serves, PublishedOk, SameFallbackKeys, SameOneTimeKeys
<1>8. AwaitedOk(account, outbound, Inbound)'
    <2> SUFFICES ASSUME NEW s \in Unanswered(outbound, Inbound)
                 PROVE  /\ KnowsPrekey(account', s.prekey)
                        /\ s.one_time.kind = "fallback" => KnowsKey(account', s.one_time)
        BY <1>3 DEF AwaitedOk, Unanswered, Inbound
    <2>1. /\ KnowsPrekey(account, s.prekey)
          /\ s.one_time.kind = "fallback" => KnowsKey(account, s.one_time)
        BY DEF IInv, Serves, AwaitedOk
    <2>2. s.prekey # account.prev_prekey.key
        BY DEF ForgetPrekey, Unused, Awaited, Unanswered
    <2>3. KnowsKey(account, s.one_time) => KnowsKey(account', s.one_time)
        BY <1>2 DEF KnowsKey, HasOneTimeKey, SameOneTimeKeys, SameFallbackKeys
    <2> QED
        BY <1>2, <2>1, <2>2, <2>3 DEF KnowsPrekey
<1> QED
    BY <1>3, <1>4, <1>5, <1>6, <1>7, <1>8, AccountChanges

LEMMA MaintainKeeps == ASSUME IInv, Maintain PROVE IInv'
BY OneTimeKeysKeep, FallbackKeyKeeps, PrekeyKeeps, ForgetFallbackKeeps, ForgetPrekeyKeeps
DEF Maintain

-----------------------------------------------------------------------------
(* An upload begins and ends.                                              *)
LEMMA BeginUploadServes ==
    ASSUME NEW a, NEW keys, NEW srv, NEW out, NEW sessions, NEW new,
           Serves(a, keys, srv, out, sessions), new = UnpublishedKeys(a)
    PROVE  Serves(a, new, srv, out, sessions)
<1>1. AccountOk(a) /\ ServerOk(a, keys, srv, sessions)
    BY DEF Serves
<1>2. UploadOk(a, new)
    BY <1>1, UnpublishedFacts DEF UploadOk
<1>3. \A key \in new : key.kind = "one_time" => key \in GivenOut(a) /\ Traced(a, sessions, key)
    BY <1>1, UnpublishedFacts, ListedFacts, GivenOutFacts DEF Traced
<1>4. ServerOk(a, new, srv, sessions)
    BY <1>1, <1>3 DEF ServerOk
<1> QED
    BY <1>2, <1>4 DEF Serves

LEMMA BeginUploadKeeps == ASSUME IInv, BeginUpload PROVE IInv'
<1>1. /\ uploading' = UnpublishedKeys(account) /\ Inbound' = Inbound
      /\ UNCHANGED <<account, server, outbound, pending, inbound, removed>>
    BY DEF BeginUpload, Inbound
<1>2. Serves(account, uploading', server, outbound, Inbound)
    BY <1>1, BeginUploadServes DEF IInv
<1>3. RemovedOk' /\ OutboundOk' /\ InboundOk'
    BY <1>1 DEF IInv, RemovedOk, OutboundOk, OutboundSession, InboundOk
<1> QED
    BY <1>1, <1>2, <1>3 DEF IInv

LEMMA OfKindFacts ==
    ASSUME NEW keys, NEW kind, NEW default
    PROVE  \/ /\ OfKind(keys, kind, default) \in keys
              /\ OfKind(keys, kind, default).kind = kind
           \/ /\ OfKind(keys, kind, default) = default
              /\ \A key \in keys : key.kind # kind
BY DEF OfKind

(* What marking leaves of an account.                                      *)
Marked(a) == MarkPrekeyAsPublished(MarkKeysAsPublished(a))

SameButMarks(b, a) ==
    /\ Len(b.one_time_keys) = Len(a.one_time_keys)
    /\ \A i \in 1 .. Len(a.one_time_keys) : b.one_time_keys[i].key = a.one_time_keys[i].key
    /\ b.next_one_time_key_id = a.next_one_time_key_id
    /\ b.num_fallback_keys = a.num_fallback_keys
    /\ b.prev_fallback_key = a.prev_fallback_key
    /\ b.current_fallback_key.key = a.current_fallback_key.key
    /\ b.num_prekeys = a.num_prekeys
    /\ b.prev_prekey = a.prev_prekey
    /\ b.current_prekey.key = a.current_prekey.key

LEMMA MarkedAccount ==
    ASSUME NEW a, NEW b, NEW sessions, AccountOk(a), b = a \/ b = Marked(a)
    PROVE  AccountOk(b) /\ Succeeds(b, a, sessions) /\ SameButMarks(b, a)
<1>1. /\ a.next_one_time_key_id \in Nat /\ FallbackIds(a) \subseteq Nat
    BY AccountTyped DEF AccountOk, FallbackIds
<1>2. CASE b = a
    BY <1>1, <1>2 DEF Succeeds, Follows, SameButMarks
<1>3. CASE b = Marked(a)
    <2> DEFINE m == MarkKeysAsPublished(a)
    <2>1. b = MarkPrekeyAsPublished(m)
        BY <1>3 DEF Marked
    <2>2. /\ AccountOk(m) /\ Follows(m, a)
          /\ Len(m.one_time_keys) = Len(a.one_time_keys)
          /\ \A i \in 1 .. Len(a.one_time_keys) :
                m.one_time_keys[i].key = a.one_time_keys[i].key
          /\ m.next_one_time_key_id = a.next_one_time_key_id
          /\ SamePrekeys(m, a)
          /\ m.num_fallback_keys = a.num_fallback_keys
          /\ m.prev_fallback_key = a.prev_fallback_key
          /\ m.current_fallback_key.key = a.current_fallback_key.key
        BY MarkKeysOk
    <2> HIDE DEF m
    <2>3. /\ AccountOk(b)
          /\ SameOneTimeKeys(b, m) /\ SameFallbackKeys(b, m)
          /\ b.num_prekeys = m.num_prekeys /\ b.prev_prekey = m.prev_prekey
          /\ b.current_prekey.key = m.current_prekey.key
        BY <2>1, <2>2, MarkPrekeyOk
    <2>4. Follows(b, a)
        BY <2>2, <2>3 DEF Follows, FallbackIds, SameOneTimeKeys, SameFallbackKeys
    <2>5. \A key : HasOneTimeKey(b, key) <=> HasOneTimeKey(a, key)
        BY <2>2, <2>3 DEF HasOneTimeKey, SameOneTimeKeys
    <2>6. Succeeds(b, a, sessions)
        BY <2>3, <2>4, <2>5 DEF Succeeds
    <2>7. SameButMarks(b, a)
        BY <2>2, <2>3 DEF SameButMarks, SameOneTimeKeys, SameFallbackKeys, SamePrekeys
    <2> QED
        BY <2>3, <2>6, <2>7
<1> QED
    BY <1>2, <1>3

(* What the server hands out after an upload.                              *)
Taken(srv, keys) ==
    [prekey |-> OfKind(keys, "prekey", srv.prekey),
     fallback |-> OfKind(keys, "fallback", srv.fallback),
     one_time |-> srv.one_time \cup
                  {k \in keys : k.kind = "one_time" /\ k \notin srv.claimed},
     claimed |-> srv.claimed]

LEMMA EndUploadServes ==
    ASSUME NEW a, NEW b, NEW keys, NEW srv, NEW out, NEW sessions,
           Serves(a, keys, srv, out, sessions), keys # {}, b = a \/ b = Marked(a)
    PROVE  Serves(b, {}, Taken(srv, keys), out, sessions)
<1> DEFINE new == {k \in keys : k.kind = "one_time" /\ k \notin srv.claimed}
           none == {}
<1>1. PICK s : s = Taken(srv, keys)
    OBVIOUS
<1>2. /\ s = [prekey |-> s.prekey, fallback |-> s.fallback,
              one_time |-> s.one_time, claimed |-> s.claimed]
      /\ s.prekey = OfKind(keys, "prekey", srv.prekey)
      /\ s.fallback = OfKind(keys, "fallback", srv.fallback)
      /\ s.one_time = srv.one_time \cup new
      /\ s.claimed = srv.claimed
    BY <1>1 DEF Taken
<1> HIDE DEF new
<1>3. /\ AccountOk(a) /\ AccountOk(b) /\ Succeeds(b, a, sessions) /\ SameButMarks(b, a)
    BY MarkedAccount DEF Serves
<1>4. /\ srv.prekey \in Keys /\ srv.fallback \in Keys
      /\ srv.prekey.kind \in {"none", "prekey"}
      /\ srv.fallback.kind \in {"none", "fallback"}
      /\ srv.one_time \subseteq GivenOut(a) /\ srv.claimed \subseteq GivenOut(a)
      /\ srv.one_time \cap srv.claimed = {}
      /\ PrekeyServed(a, srv.prekey) /\ FallbackServed(a, srv.fallback)
    BY DEF Serves, ServerOk
<1>5. /\ keys \subseteq Keys /\ UnpublishedKeys(a) \subseteq keys
      /\ \A key \in keys :
            /\ key.kind = "fallback" => /\ a.num_fallback_keys >= 1
                                        /\ ~a.current_fallback_key.published
                                        /\ a.current_fallback_key.key = key
            /\ key.kind = "prekey" => /\ ~a.current_prekey.published
                                      /\ a.current_prekey.key = key
    BY DEF Serves, UploadOk
<1>6. \/ /\ s.prekey \in keys /\ s.prekey.kind = "prekey"
         /\ s.prekey = a.current_prekey.key
      \/ /\ s.prekey = srv.prekey
         /\ a.current_prekey.published
    <2>1. ~a.current_prekey.published => a.current_prekey.key \in keys
        BY <1>3, <1>5, UnpublishedFacts
    <2>2. a.current_prekey.key.kind = "prekey" /\ a.current_prekey.published \in BOOLEAN
        BY <1>3, AccountTyped DEF AccountOk, PrekeysOk
    <2> QED
        BY <1>2, <1>5, <2>1, <2>2, OfKindFacts
<1>7. \/ /\ s.fallback \in keys /\ s.fallback.kind = "fallback"
         /\ a.num_fallback_keys >= 1
         /\ s.fallback = a.current_fallback_key.key
      \/ /\ s.fallback = srv.fallback
         /\ a.num_fallback_keys >= 1 => a.current_fallback_key.published
    <2>1. a.num_fallback_keys >= 1 /\ ~a.current_fallback_key.published
             => a.current_fallback_key.key \in keys
        BY <1>3, <1>5, UnpublishedFacts
    <2>2. a.num_fallback_keys >= 1 => a.current_fallback_key.key.kind = "fallback"
        BY <1>3, AccountTyped DEF AccountOk, FallbackKeysOk
    <2>3. a.current_fallback_key.published \in BOOLEAN
        BY <1>3, AccountTyped DEF AccountOk
    <2> QED
        BY <1>2, <1>5, <2>1, <2>2, <2>3, OfKindFacts
<1>8. a.num_fallback_keys \in 0 .. 2 /\ a.num_prekeys \in 0 .. 2
    BY <1>3, AccountTyped DEF AccountOk
<1>9. /\ a.current_prekey.published => srv.prekey \in {NoKey, a.current_prekey.key}
      /\ a.current_fallback_key.published =>
            \/ srv.fallback = NoKey
            \/ a.num_fallback_keys >= 1 /\ srv.fallback = a.current_fallback_key.key
    BY <1>4 DEF PrekeyServed, FallbackServed
<1>10. PrekeyServed(b, s.prekey)
    BY <1>3, <1>6, <1>9 DEF PrekeyServed, SameButMarks
<1>11. FallbackServed(b, s.fallback)
    <2>1. CASE s.fallback = NoKey
        BY <2>1 DEF FallbackServed
    <2>2. CASE a.num_fallback_keys >= 1 /\ s.fallback = a.current_fallback_key.key
        BY <1>3, <2>2 DEF FallbackServed, SameButMarks
    <2>3. CASE s.fallback = srv.fallback /\ a.num_fallback_keys = 0
        BY <1>4, <1>8, <2>1, <2>3 DEF FallbackServed
    <2> QED
        BY <1>7, <1>8, <1>9, <2>1, <2>2, <2>3
<1>12. \A key \in keys \cup srv.one_time \cup srv.claimed :
          key.kind = "one_time" => key \in GivenOut(b) /\ Traced(b, sessions, key)
    BY <1>3, TracedStays DEF Serves, ServerOk
<1>13. new \subseteq GivenOut(b) /\ new \cap srv.claimed = {}
    BY <1>12 DEF new
<1>14. GivenOut(b) = GivenOut(a)
    BY <1>3 DEF GivenOut, SameButMarks
<1>15. ServerOk(b, none, s, sessions)
    <2>1. s.prekey \in Keys /\ s.prekey.kind \in {"none", "prekey"}
        BY <1>4, <1>5, <1>6
    <2>2. s.fallback \in Keys /\ s.fallback.kind \in {"none", "fallback"}
        BY <1>4, <1>5, <1>7
    <2>3. s \in [prekey : Keys, fallback : Keys, one_time : SUBSET GivenOut(b),
                 claimed : SUBSET GivenOut(b)]
        <3>1. s.one_time \in SUBSET GivenOut(b) /\ s.claimed \in SUBSET GivenOut(b)
            BY <1>2, <1>4, <1>13, <1>14
        <3> QED
            BY <1>2, <2>1, <2>2, <3>1
    <2>4. \A key \in none \cup s.one_time \cup s.claimed :
             key.kind = "one_time" => key \in GivenOut(b) /\ Traced(b, sessions, key)
        BY <1>2, <1>12 DEF new
    <2>5. s.one_time \cap s.claimed = {}
        BY <1>2, <1>4, <1>13
    <2> QED
        BY <1>10, <1>11, <2>1, <2>2, <2>3, <2>4, <2>5 DEF ServerOk
<1>16. UploadOk(b, none)
    BY DEF UploadOk
<1>17. PublishedOk(b, s)
    <2>1. \A i \in 1 .. Len(a.one_time_keys) : a.one_time_keys[i].key \in s.one_time \cup s.claimed
        <3> TAKE i \in 1 .. Len(a.one_time_keys)
        <3>1. CASE a.one_time_keys[i].published
            BY <1>2, <3>1 DEF Serves, PublishedOk
        <3>2. CASE ~a.one_time_keys[i].published
            <4>1. a.one_time_keys[i].key \in keys
                BY <1>3, <1>5, <3>2, UnpublishedFacts
            <4>2. a.one_time_keys[i].key.kind = "one_time"
                BY <1>3 DEF AccountOk, OneTimeKeysOk
            <4> QED
                BY <1>2, <4>1, <4>2 DEF new
        <3> QED
            BY <3>1, <3>2
    <2>2. a.current_prekey.key = s.prekey
        BY <1>6 DEF Serves, PublishedOk
    <2>3. a.num_fallback_keys > 0 => a.current_fallback_key.key = s.fallback
        BY <1>7, <1>8 DEF Serves, PublishedOk
    <2> QED
        BY <1>3, <2>1, <2>2, <2>3 DEF PublishedOk, SameButMarks
<1>18. \A key : KnowsKey(a, key) => KnowsKey(b, key)
    BY <1>3 DEF HasOneTimeKey, KnowsKey, SameButMarks
<1>19. \A key : KnowsPrekey(a, key) => KnowsPrekey(b, key)
    BY <1>3 DEF KnowsPrekey, SameButMarks
<1>20. AwaitedOk(b, out, sessions)
    BY <1>18, <1>19 DEF Serves, AwaitedOk
<1> QED
    BY <1>1, <1>3, <1>15, <1>16, <1>17, <1>20 DEF Serves

LEMMA EndUploadKeeps ==
    ASSUME IInv, NEW answered \in BOOLEAN, EndUpload(answered)
    PROVE  IInv'
<1>1. /\ uploading # {} /\ uploading' = {} /\ server' = Taken(server, uploading)
      /\ account' = account \/ account' = Marked(account)
      /\ Inbound' = Inbound /\ UNCHANGED <<outbound, pending, inbound, removed>>
    BY DEF EndUpload, Taken, Marked, Inbound
<1>2. Serves(account', uploading', server', outbound, Inbound)
    BY <1>1, EndUploadServes DEF IInv
<1>3. SameButMarks(account', account)
    BY <1>1, MarkedAccount DEF IInv, Serves
<1>4. \A key : HasOneTimeKey(account', key) <=> HasOneTimeKey(account, key)
    BY <1>3 DEF HasOneTimeKey, SameButMarks
<1>5. server'.claimed = server.claimed
    BY <1>1 DEF Taken
<1>6. RemovedOk' /\ OutboundOk' /\ InboundOk'
    BY <1>1, <1>4, <1>5 DEF IInv, RemovedOk, OutboundOk, OutboundSession, InboundOk
<1> QED
    BY <1>1, <1>2, <1>6 DEF IInv

-----------------------------------------------------------------------------
(* An initiator creates a session.                                         *)

(* A key that can be claimed, and what the server hands out after it was.  *)
Claimable(srv) == (srv.one_time \cup {srv.fallback, srv.prekey}) \ {NoKey}
Claimed(srv, one_time) ==
    [srv EXCEPT !.one_time = @ \ {one_time},
                !.claimed = @ \cup ({one_time} \cap srv.one_time)]

LEMMA ClaimedFacts ==
    ASSUME NEW a, NEW keys, NEW srv, NEW sessions, NEW one_time, ServerOk(a, keys, srv, sessions)
    PROVE  LET s == Claimed(srv, one_time) IN
           /\ s \in [prekey : Keys, fallback : Keys, one_time : SUBSET GivenOut(a),
                     claimed : SUBSET GivenOut(a)]
           /\ s.prekey = srv.prekey /\ s.fallback = srv.fallback
           /\ s.one_time = srv.one_time \ {one_time}
           /\ s.claimed = srv.claimed \cup ({one_time} \cap srv.one_time)
<1> DEFINE less == srv.one_time \ {one_time}
           more == srv.claimed \cup ({one_time} \cap srv.one_time)
<1>1. srv \in [prekey : Keys, fallback : Keys, one_time : SUBSET GivenOut(a),
               claimed : SUBSET GivenOut(a)]
    BY DEF ServerOk
<1>2. Claimed(srv, one_time) = [srv EXCEPT !.one_time = less, !.claimed = more]
    BY DEF Claimed
<1>3. less \in SUBSET GivenOut(a) /\ more \in SUBSET GivenOut(a)
    BY <1>1
<1> HIDE DEF less, more
<1>4. LET s == Claimed(srv, one_time) IN
      /\ s \in [prekey : Keys, fallback : Keys, one_time : SUBSET GivenOut(a),
                claimed : SUBSET GivenOut(a)]
      /\ s.prekey = srv.prekey /\ s.fallback = srv.fallback
      /\ s.one_time = less /\ s.claimed = more
    BY <1>1, <1>2, <1>3
<1> QED
    BY <1>4 DEF less, more

LEMMA ClaimServes ==
    ASSUME NEW a, NEW keys, NEW srv, NEW out, NEW sessions,
           Serves(a, keys, srv, out, sessions), srv.prekey # NoKey,
           NEW one_time \in Claimable(srv),
           NEW session, session.one_time = one_time, session.prekey = srv.prekey,
           NEW more, more \subseteq out \cup {session}
    PROVE  /\ Serves(a, keys, Claimed(srv, one_time), more, sessions)
           /\ srv.prekey.kind = "prekey"
           /\ one_time.kind \in {"one_time", "fallback"} \/ one_time = srv.prekey
           /\ one_time.kind = "one_time" => one_time \in srv.one_time
<1>1. PICK s : s = Claimed(srv, one_time)
    OBVIOUS
<1>2. AccountOk(a) /\ ServerOk(a, keys, srv, sessions) /\ a.num_fallback_keys \in 0 .. 2
    BY AccountTyped DEF Serves, AccountOk
<1>3. /\ srv.one_time \subseteq GivenOut(a) /\ srv.claimed \subseteq GivenOut(a)
      /\ srv.prekey \in Keys /\ srv.fallback \in Keys
      /\ srv.prekey.kind \in {"none", "prekey"}
      /\ srv.fallback.kind \in {"none", "fallback"}
      /\ srv.one_time \cap srv.claimed = {}
      /\ PrekeyServed(a, srv.prekey) /\ FallbackServed(a, srv.fallback)
    BY <1>2 DEF ServerOk
<1>4. /\ s \in [prekey : Keys, fallback : Keys, one_time : SUBSET GivenOut(a),
                claimed : SUBSET GivenOut(a)]
      /\ s.prekey = srv.prekey /\ s.fallback = srv.fallback
      /\ s.one_time = srv.one_time \ {one_time}
      /\ s.claimed = srv.claimed \cup ({one_time} \cap srv.one_time)
    BY <1>1, <1>2, ClaimedFacts
<1>5. /\ s.one_time \cap s.claimed = {}
      /\ s.one_time \cup s.claimed = srv.one_time \cup srv.claimed
    BY <1>3, <1>4
<1>6. ServerOk(a, keys, s, sessions)
    BY <1>2, <1>3, <1>4, <1>5 DEF ServerOk
<1>7. PublishedOk(a, s)
    BY <1>4, <1>5 DEF Serves, PublishedOk
<1>8. srv.prekey.kind = "prekey" /\ KnowsPrekey(a, srv.prekey)
    <2>1. srv.prekey \in {a.current_prekey.key, a.prev_prekey.key}
        BY <1>3 DEF PrekeyServed
    <2>2. \A key \in Keys : key.kind = "none" =>
             key # a.current_prekey.key /\ (a.num_prekeys = 2 => key # a.prev_prekey.key)
        BY <1>2 DEF AccountOk, PrekeysOk
    <2> QED
        BY <1>3, <2>1, <2>2 DEF KnowsPrekey, PrekeyServed
<1>9. \/ one_time \in srv.one_time /\ one_time.kind = "one_time"
      \/ one_time = srv.prekey
      \/ one_time = srv.fallback /\ one_time # NoKey
    BY <1>3 DEF GivenOut, Claimable
<1>10. one_time = srv.fallback /\ one_time # NoKey =>
          one_time.kind = "fallback" /\ KnowsKey(a, one_time)
    BY <1>2, <1>3 DEF FallbackServed, KnowsKey, AccountOk, FallbackKeysOk
<1>11. /\ one_time.kind \in {"one_time", "fallback"} \/ one_time = srv.prekey
       /\ one_time.kind = "one_time" => one_time \in srv.one_time
       /\ one_time.kind = "fallback" => KnowsKey(a, one_time)
    BY <1>3, <1>8, <1>9, <1>10
<1>12. AwaitedOk(a, more, sessions)
    BY <1>8, <1>11 DEF Serves, AwaitedOk, Unanswered
<1> QED
    BY <1>1, <1>2, <1>6, <1>7, <1>8, <1>11, <1>12 DEF Serves

LEMMA NewOutboundKeeps ==
    ASSUME IInv, NEW i \in Initiators, NEW verified \in BOOLEAN,
           NewOutboundSession(i, verified)
    PROVE  IInv'
<1> DEFINE n == Cardinality(outbound)
           Session(one_time) ==
              [origin |-> n + 1, identity |-> Identity(i), base |-> Key("base", n + 1),
               one_time |-> one_time, prekey |-> server.prekey,
               secret |-> OutboundSecret(Identity(i), Key("base", n + 1), one_time,
                                         server.prekey)]
<1>1. PICK one_time \in Claimable(server) :
         /\ server' = Claimed(server, one_time)
         /\ outbound' = IF verified THEN outbound \cup {Session(one_time)} ELSE outbound
    BY DEF NewOutboundSession, Claimable, Claimed
<1>s. PICK session : session = Session(one_time)
    OBVIOUS
<1>2. /\ server.prekey # NoKey /\ Inbound' = Inbound
      /\ UNCHANGED <<account, uploading, pending, inbound, removed>>
    BY DEF NewOutboundSession, Inbound
<1>3. IsFiniteSet(outbound) /\ n \in Nat /\ Cardinality(outbound) = n
    BY FS_CardinalityType DEF IInv, OutboundOk
<1>4. /\ session = [origin |-> session.origin, identity |-> session.identity,
                    base |-> session.base, one_time |-> session.one_time,
                    prekey |-> session.prekey, secret |-> session.secret]
      /\ session.origin = n + 1 /\ session.base = Key("base", n + 1)
      /\ session.identity = Identity(i) /\ session.identity.kind = "identity"
      /\ session.one_time = one_time /\ session.prekey = server.prekey
      /\ session.secret = OutboundSecret(session.identity, session.base, session.one_time,
                                         session.prekey)
    BY <1>s DEF Identity, Key
<1> HIDE DEF n, Session
<1>5. outbound' = IF verified THEN outbound \cup {session} ELSE outbound
    BY <1>1, <1>s
<1>6. outbound' \subseteq outbound \cup {session} /\ outbound \subseteq outbound'
    BY <1>5
<1>7. /\ Serves(account, uploading, server', outbound', Inbound)
      /\ server.prekey.kind = "prekey"
      /\ one_time.kind \in {"one_time", "fallback"} \/ one_time = server.prekey
      /\ one_time.kind = "one_time" => one_time \in server.one_time
    BY <1>1, <1>2, <1>4, <1>6, ClaimServes DEF IInv
<1>8. /\ server'.claimed = server.claimed \cup ({one_time} \cap server.one_time)
      /\ server.one_time \cap server.claimed = {}
    <2>1. ServerOk(account, uploading, server, Inbound)
        BY DEF IInv, Serves
    <2>2. server'.claimed = server.claimed \cup ({one_time} \cap server.one_time)
        BY <1>1, <2>1, ClaimedFacts
    <2> QED
        BY <2>1, <2>2 DEF ServerOk
<1>9. \A s \in outbound : s.origin \in 1 .. n
    BY <1>3 DEF IInv, OutboundOk, OutboundSession
<1>10. session \notin outbound
    BY <1>3, <1>4, <1>9
<1>11. IsFiniteSet(outbound') /\ Cardinality(outbound') = IF verified THEN n + 1 ELSE n
    BY <1>3, <1>5, <1>10, FS_AddElement
<1>12. \A s \in outbound : OutboundSession(s)'
    BY <1>3, <1>8, <1>11 DEF IInv, OutboundOk, OutboundSession
<1>13. verified => OutboundSession(session)'
    BY <1>3, <1>4, <1>7, <1>8, <1>11 DEF OutboundSession
<1>14. OutboundOk'
    <2>1. \A s \in outbound' : OutboundSession(s)'
        BY <1>5, <1>12, <1>13
    <2>2. \A s \in outbound : s.origin # session.origin
        BY <1>3, <1>4, <1>9
    <2>3. \A s \in outbound : s.one_time.kind = "one_time" => s.one_time # session.one_time
        BY <1>4, <1>7, <1>8 DEF IInv, OutboundOk, OutboundSession
    <2>4. /\ \A s, t \in outbound : s.origin = t.origin => s = t
          /\ \A s, t \in outbound : s.one_time = t.one_time /\ s.one_time.kind = "one_time"
                                    => s = t
        BY DEF IInv, OutboundOk
    <2>5. \A s, t \in outbound' : s.origin = t.origin => s = t
        BY <1>5, <2>2, <2>4
    <2>6. \A s, t \in outbound' : s.one_time = t.one_time /\ s.one_time.kind = "one_time"
                                  => s = t
        BY <1>5, <2>3, <2>4
    <2> QED
        BY <1>11, <2>1, <2>5, <2>6 DEF OutboundOk
<1>15. InboundOk'
    BY <1>2, <1>6 DEF IInv, InboundOk
<1>16. RemovedOk'
    BY <1>2, <1>8 DEF IInv, RemovedOk
<1> QED
    BY <1>2, <1>7, <1>14, <1>15, <1>16 DEF IInv

-----------------------------------------------------------------------------
(* Bob creates a session from a message, and it decrypts the message.      *)

(* Garbage is no key of an account.                                        *)
LEMMA GarbageUnknown ==
    ASSUME NEW a, AccountOk(a)
    PROVE  /\ ~KnowsKey(a, Garbage) /\ ~KnowsPrekey(a, Garbage)
           /\ Garbage.kind = "garbage"
<1>1. Garbage.kind = "garbage"
    BY DEF Garbage, Key
<1>2. a.num_fallback_keys \in 0 .. 2
    BY AccountTyped DEF AccountOk
<1>3. ~HasOneTimeKey(a, Garbage)
    BY <1>1, ListedFacts
<1>4. NoKey.kind # "garbage" /\ Unset.key = NoKey
    BY UnsetTyped
<1>5. a.current_prekey.key # Garbage /\ a.prev_prekey.key # Garbage
    BY <1>1, <1>4 DEF AccountOk, PrekeysOk
<1>6. /\ a.num_fallback_keys >= 1 => a.current_fallback_key.key # Garbage
      /\ a.num_fallback_keys >= 2 => a.prev_fallback_key.key # Garbage
    BY <1>1, <1>2 DEF AccountOk, FallbackKeysOk
<1> QED
    BY <1>1, <1>3, <1>5, <1>6 DEF KnowsKey, KnowsPrekey

(* A message that new_inbound_session() accepts is damaged at most where   *)
(* Bob has nothing to compare it with.                                     *)
LEMMA AcceptedMessage ==
    ASSUME AccountOk(account), NEW s, OutboundSession(s),
           NEW message \in PreKeyMessages(s), NEW their_identity,
           Answers(message, their_identity)
    PROVE  /\ message = [origin |-> message.origin, identity |-> message.identity,
                         base |-> message.base, one_time |-> message.one_time,
                         prekey |-> message.prekey, secret |-> message.secret]
           /\ MadeFrom(message, s)
           /\ message.identity \in {s.identity, Garbage}
           /\ "base" \notin DamagedParts => message.base = s.base
<1>1. PICK origin, identity, base, one_time, prekey, secret :
         /\ s = [origin |-> origin, identity |-> identity, base |-> base,
                 one_time |-> one_time, prekey |-> prekey, secret |-> secret]
         /\ prekey.kind = "prekey"
    BY DEF OutboundSession
<1>2. /\ KnowsKey(account, message.one_time) \/ message.one_time = message.prekey
      /\ KnowsPrekey(account, message.prekey)
    BY DEF Answers
<1>3. Garbage.kind = "garbage" /\ ~KnowsKey(account, Garbage) /\ ~KnowsPrekey(account, Garbage)
    BY GarbageUnknown
<1>4. CASE message = s
    BY <1>1, <1>4 DEF MadeFrom
<1>5. ASSUME NEW part \in DamagedParts, message = [s EXCEPT ![part] = Garbage]
      PROVE  /\ message = [origin |-> message.origin, identity |-> message.identity,
                           base |-> message.base, one_time |-> message.one_time,
                           prekey |-> message.prekey, secret |-> message.secret]
             /\ MadeFrom(message, s)
             /\ message.identity \in {s.identity, Garbage}
             /\ "base" \notin DamagedParts => message.base = s.base
    <2>1. CASE part = "identity"
        <3>1. message = [origin |-> origin, identity |-> Garbage, base |-> base,
                         one_time |-> one_time, prekey |-> prekey, secret |-> secret]
            BY <1>1, <1>5, <2>1
        <3> QED
            BY <1>1, <3>1 DEF MadeFrom
    <2>2. CASE part = "base"
        <3>1. message = [origin |-> origin, identity |-> identity, base |-> Garbage,
                         one_time |-> one_time, prekey |-> prekey, secret |-> secret]
            BY <1>1, <1>5, <2>2
        <3> QED
            BY <1>1, <1>5, <2>2, <3>1 DEF MadeFrom
    <2>3. CASE part = "one_time"
        <3>1. message = [origin |-> origin, identity |-> identity, base |-> base,
                         one_time |-> Garbage, prekey |-> prekey, secret |-> secret]
            BY <1>1, <1>5, <2>3
        <3> QED
            BY <1>1, <1>2, <1>3, <3>1
    <2>4. CASE part = "prekey"
        <3>1. message = [origin |-> origin, identity |-> identity, base |-> base,
                         one_time |-> one_time, prekey |-> Garbage, secret |-> secret]
            BY <1>1, <1>5, <2>4
        <3> QED
            BY <1>1, <1>2, <1>3, <3>1
    <2> QED
        BY <2>1, <2>2, <2>3, <2>4, SetupAssumption
<1> QED
    BY <1>4, <1>5 DEF PreKeyMessages

LEMMA SessionFromFacts ==
    ASSUME NEW message,
           message = [origin |-> message.origin, identity |-> message.identity,
                      base |-> message.base, one_time |-> message.one_time,
                      prekey |-> message.prekey, secret |-> message.secret]
    PROVE  LET t == SessionFrom(message) IN
           /\ t.origin = message.origin /\ t.identity = message.identity
           /\ t.base = message.base /\ t.one_time = message.one_time
           /\ t.prekey = message.prekey
           /\ t.secret = InboundSecret(message)
           /\ InboundSecret(t) = InboundSecret(message)
<1> DEFINE t == SessionFrom(message)
<1>1. /\ t.origin = message.origin /\ t.identity = message.identity
      /\ t.base = message.base /\ t.one_time = message.one_time
      /\ t.prekey = message.prekey
      /\ t.secret = InboundSecret(message)
    BY DEF SessionFrom
<1> HIDE DEF t
<1>2. InboundSecret(t) = InboundSecret(message)
    BY <1>1 DEF InboundSecret
<1> QED
    BY <1>1, <1>2 DEF t

LEMMA NewInboundKeeps ==
    ASSUME IInv, NEW s \in outbound, NEW message \in PreKeyMessages(s), NEW their_identity,
           NewInboundSession(s, message, their_identity)
    PROVE  IInv'
<1>1. /\ AccountOk(account) /\ OutboundSession(s) /\ Answers(message, their_identity)
      /\ pending' = {[session |-> SessionFrom(message), secret |-> s.secret]}
      /\ UNCHANGED <<account, uploading, server, outbound, inbound, removed>>
    BY DEF IInv, Serves, OutboundOk, NewInboundSession
<1>2. MadeFrom(SessionFrom(message), s)
    BY <1>1, AcceptedMessage, SessionFromFacts DEF MadeFrom
<1>3. Inbound' = Inbound
    BY <1>1 DEF Inbound
<1>4. InboundOk'
    BY <1>1, <1>2, <1>3 DEF IInv, InboundOk
<1>5. RemovedOk' /\ OutboundOk'
    BY <1>1, <1>3 DEF IInv, RemovedOk, OutboundOk, OutboundSession
<1> QED
    BY <1>1, <1>3, <1>4, <1>5 DEF IInv

(* Append() adds one item at the end.                                      *)
LEMMA AppendFacts ==
    ASSUME NEW S, NEW seq \in Seq(S), NEW e
    PROVE  /\ Append(seq, e) \in Seq(S \cup {e})
           /\ Len(seq) \in Nat /\ Len(Append(seq, e)) = Len(seq) + 1
           /\ Append(seq, e)[Len(seq) + 1] = e
           /\ \A i \in 1 .. Len(seq) : Append(seq, e)[i] = seq[i]
<1>1. seq \in Seq(S \cup {e}) /\ e \in S \cup {e}
    <2>1. Len(seq) \in Nat /\ seq \in [1 .. Len(seq) -> S]
        BY LenProperties
    <2>2. seq \in [1 .. Len(seq) -> S \cup {e}]
        BY <2>1
    <2> QED
        BY <2>1, <2>2, FunctionIsSeq
<1> QED
    BY <1>1, AppendProperties, LenProperties

LEMMA InboundGrows ==
    ASSUME InboundOk, NEW t, inbound' = Append(inbound, t)
    PROVE  /\ Inbound' = Inbound \cup {t} /\ inbound' \in Seq(Inbound')
           /\ Len(inbound) \in Nat /\ Len(inbound') = Len(inbound) + 1
           /\ inbound'[Len(inbound) + 1] = t
           /\ \A i \in 1 .. Len(inbound) : inbound'[i] = inbound[i]
<1>1. /\ inbound' \in Seq(Inbound \cup {t})
      /\ Len(inbound) \in Nat /\ Len(inbound') = Len(inbound) + 1
      /\ inbound'[Len(inbound) + 1] = t
      /\ \A i \in 1 .. Len(inbound) : inbound'[i] = inbound[i]
    BY AppendFacts DEF InboundOk
<1>2. Inbound' = Inbound \cup {t}
    <2>1. \A u : u \in Inbound' <=> \E i \in 1 .. Len(inbound) + 1 : u = inbound'[i]
        BY <1>1 DEF Inbound
    <2>2. \A u : u \in Inbound <=> \E i \in 1 .. Len(inbound) : u = inbound[i]
        BY DEF Inbound
    <2>3. \A u : u \in Inbound' => u \in Inbound \cup {t}
        BY <1>1, <2>1, <2>2
    <2>4. \A u : u \in Inbound \cup {t} => u \in Inbound'
        BY <1>1, <2>1, <2>2
    <2> QED
        BY <2>3, <2>4
<1> QED
    BY <1>1, <1>2

(* One more session has arrived.                                           *)
LEMMA SessionsGrow ==
    ASSUME NEW a, NEW keys, NEW srv, NEW out, NEW sessions, NEW more,
           Serves(a, keys, srv, out, sessions), sessions \subseteq more
    PROVE  Serves(a, keys, srv, out, more)
<1>1. \A key : Traced(a, sessions, key) => Traced(a, more, key)
    BY DEF Traced
<1>2. ServerOk(a, keys, srv, more)
    BY <1>1 DEF Serves, ServerOk
<1>3. AwaitedOk(a, out, more)
    BY DEF Serves, AwaitedOk, Unanswered
<1> QED
    BY <1>2, <1>3 DEF Serves

LEMMA DecryptFirstKeeps == ASSUME IInv, DecryptFirst PROVE IInv'
<1>1. PICK p \in pending :
         /\ pending' = {}
         /\ inbound' = IF p.session.secret = p.secret THEN Append(inbound, p.session)
                       ELSE inbound
         /\ UNCHANGED <<account, uploading, server, outbound, removed>>
    BY DEF DecryptFirst
<1>2. PICK s \in outbound : MadeFrom(p.session, s)
    BY DEF IInv, InboundOk
<1>3. /\ inbound' \in Seq(Inbound') /\ Inbound \subseteq Inbound'
      /\ Inbound' \subseteq Inbound \cup {p.session}
    BY <1>1, InboundGrows DEF IInv, InboundOk, Inbound
<1>4. InboundOk'
    BY <1>1, <1>2, <1>3 DEF IInv, InboundOk
<1>5. Serves(account, uploading, server, outbound, Inbound')
    BY <1>3, SessionsGrow DEF IInv
<1>6. RemovedOk' /\ OutboundOk'
    BY <1>1, <1>3 DEF IInv, RemovedOk, OutboundOk, OutboundSession
<1> QED
    BY <1>1, <1>4, <1>5, <1>6 DEF IInv

-----------------------------------------------------------------------------
(* The application removes the one-time key of a session.                  *)
LEMMA RemoveKeeps ==
    ASSUME IInv, NEW session \in Inbound, RemoveOneTimeKeys(session)
    PROVE  IInv'
<1> DEFINE key == session.one_time
<1>1. /\ AccountOk(account) /\ removed' = removed \cup {key}
      /\ UNCHANGED <<uploading, server, outbound, pending, inbound>>
      /\ account' = IF key = session.prekey THEN account ELSE RemoveKey(account, key)
    BY DEF IInv, Serves, RemoveOneTimeKeys
<1>2. PICK s \in outbound : MadeFrom(session, s) /\ OutboundSession(s)
    BY DEF IInv, Serves, InboundOk, OutboundOk
<1>3. /\ key = session.prekey => key.kind = "prekey"
      /\ key.kind = "one_time" => key \in server.claimed
    BY <1>2 DEF MadeFrom, OutboundSession
<1>4. /\ AccountOk(account') /\ Follows(account', account)
      /\ \A i \in 1 .. Len(account'.one_time_keys) : \E j \in 1 .. Len(account.one_time_keys) :
            account'.one_time_keys[i] = account.one_time_keys[j]
      /\ \A other : other # key /\ HasOneTimeKey(account, other)
                    => HasOneTimeKey(account', other)
      /\ ~HasOneTimeKey(account', key)
      /\ account'.next_one_time_key_id = account.next_one_time_key_id
      /\ SamePrekeys(account', account) /\ SameFallbackKeys(account', account)
    <2>1. CASE key = session.prekey
        <3>1. account' = account /\ ~HasOneTimeKey(account, key)
            BY <1>1, <1>3, <2>1, ListedFacts
        <3>2. Follows(account, account)
            BY <1>1, AccountTyped DEF Follows, AccountOk
        <3> QED
            BY <1>1, <3>1, <3>2 DEF SamePrekeys, SameFallbackKeys
    <2>2. CASE key # session.prekey
        BY <1>1, <2>2, RemoveKeyOk
    <2> QED
        BY <2>1, <2>2
<1> HIDE DEF key
<1>5. \A other : HasOneTimeKey(account', other) => HasOneTimeKey(account, other)
    BY <1>4 DEF HasOneTimeKey
<1>6. Succeeds(account', account, Inbound)
    <2>1. \A other : HasOneTimeKey(account, other) =>
             HasOneTimeKey(account', other) \/ \E t \in Inbound : t.one_time = other
        BY <1>4 DEF key
    <2> QED
        BY <1>4, <1>5, <2>1 DEF Succeeds
<1>7. UnpublishedKeys(account') \subseteq UnpublishedKeys(account)
    BY <1>4 DEF UnpublishedKeys, SamePrekeys, SameFallbackKeys
<1>8. UploadOk(account', uploading)
    BY <1>4, <1>7 DEF IInv, Serves, UploadOk, SamePrekeys, SameFallbackKeys
<1>9. PublishedOk(account', server)
    BY <1>4 DEF IInv, Serves, PublishedOk, SamePrekeys, SameFallbackKeys
<1>10. PrekeyServed(account', server.prekey) /\ FallbackServed(account', server.fallback)
    BY <1>4 DEF IInv, Serves, ServerOk, PrekeyServed, FallbackServed, SamePrekeys,
                SameFallbackKeys
<1>11. AwaitedOk(account', outbound, Inbound)
    <2> SUFFICES ASSUME NEW t \in Unanswered(outbound, Inbound)
                 PROVE  /\ KnowsPrekey(account', t.prekey)
                        /\ t.one_time.kind = "fallback" => KnowsKey(account', t.one_time)
        BY DEF AwaitedOk
    <2>1. /\ KnowsPrekey(account, t.prekey)
          /\ t.one_time.kind = "fallback" => KnowsKey(account, t.one_time)
        BY DEF IInv, Serves, AwaitedOk
    <2>2. t.one_time.kind = "fallback" => ~HasOneTimeKey(account, t.one_time)
        BY <1>1, ListedFacts
    <2> QED
        BY <1>4, <2>1, <2>2 DEF KnowsPrekey, KnowsKey, SamePrekeys, SameFallbackKeys
<1>12. Serves(account', uploading, server, outbound, Inbound) /\ Inbound' = Inbound
    BY <1>1, <1>6, <1>8, <1>9, <1>10, <1>11, ServesStill DEF IInv, Inbound
<1>13. RemovedOk'
    <2> SUFFICES ASSUME NEW k \in removed'
                 PROVE  /\ ~HasOneTimeKey(account', k)
                        /\ k.kind = "one_time" => /\ k \in server.claimed
                                                  /\ \E t \in Inbound : t.one_time = k
        BY <1>1, <1>12 DEF RemovedOk
    <2>1. CASE k = key
        BY <1>3, <1>4, <2>1 DEF key
    <2>2. CASE k \in removed
        BY <1>5, <2>2 DEF IInv, RemovedOk
    <2> QED
        BY <1>1, <2>1, <2>2
<1>14. InboundOk' /\ OutboundOk'
    BY <1>1, <1>12 DEF IInv, InboundOk, OutboundOk, OutboundSession
<1> QED
    BY <1>1, <1>12, <1>13, <1>14 DEF IInv

-----------------------------------------------------------------------------
(* What follows from the invariant.                                        *)

(* Every state of the account, the server and the sessions satisfies IInv. *)
LEMMA StepOk == IInv /\ [Next]_vars => IInv'
<1> SUFFICES ASSUME IInv, [Next]_vars PROVE IInv'
    OBVIOUS
<1>1. CASE UNCHANGED vars
    <2>1. /\ UNCHANGED <<account, uploading, server, outbound, pending, inbound, removed>>
          /\ Inbound' = Inbound
        BY <1>1 DEF vars, Inbound
    <2>2. RemovedOk' /\ InboundOk' /\ OutboundOk'
        BY <2>1 DEF IInv, RemovedOk, InboundOk, OutboundOk, OutboundSession
    <2> QED
        BY <2>1, <2>2 DEF IInv
<1>2. CASE Maintain
    BY <1>2, MaintainKeeps
<1>3. CASE BeginUpload
    BY <1>3, BeginUploadKeeps
<1>4. CASE \E answered \in BOOLEAN : EndUpload(answered)
    BY <1>4, EndUploadKeeps
<1>5. CASE \E i \in Initiators, verified \in BOOLEAN : NewOutboundSession(i, verified)
    BY <1>5, NewOutboundKeeps
<1>6. CASE \E s \in outbound : \E message \in PreKeyMessages(s), id \in {NoKey, s.identity} :
              NewInboundSession(s, message, id) \/ NewInboundSessionFails(message, id)
    <2>1. PICK s \in outbound : \E message \in PreKeyMessages(s), id \in {NoKey, s.identity} :
             NewInboundSession(s, message, id) \/ NewInboundSessionFails(message, id)
        BY <1>6
    <2>2. PICK message \in PreKeyMessages(s), id \in {NoKey, s.identity} :
             NewInboundSession(s, message, id) \/ NewInboundSessionFails(message, id)
        BY <2>1
    <2> QED
        BY <1>1, <2>2, NewInboundKeeps DEF NewInboundSessionFails
<1>7. CASE DecryptFirst
    BY <1>7, DecryptFirstKeeps
<1>8. CASE \E session \in Inbound : RemoveOneTimeKeys(session)
    BY <1>8, RemoveKeeps
<1> QED
    BY <1>1, <1>2, <1>3, <1>4, <1>5, <1>6, <1>7, <1>8 DEF Next

THEOREM SetupInvariance == Spec => []IInv
BY InitOk, StepOk, PTL DEF Spec

(* The account keeps its shape, and the lists and numbers of keys agree    *)
(* (olm::Account).                                                         *)
THEOREM AccountTypeCorrect == Spec => []TypeOK
<1>1. IInv => TypeOK
    <2> SUFFICES ASSUME IInv PROVE TypeOK
        OBVIOUS
    <2>1. AccountOk(account) /\ account \in Accounts /\ account.num_prekeys \in {1, 2}
        BY DEF IInv, Serves, AccountOk, PrekeysOk
    <2>2. /\ account.one_time_keys \in Seq(Slots)
          /\ Len(account.one_time_keys) <= MAX_ONE_TIME_KEYS
          /\ account.num_fallback_keys \in 0 .. 2
        BY <2>1, AccountTyped DEF AccountOk, OneTimeKeysOk
    <2>3. account.num_prekeys = 1 <=> account.prev_prekey = Unset
        BY <2>1, UnsetTyped DEF AccountOk, PrekeysOk
    <2>4. /\ account.num_fallback_keys = 0 <=> account.current_fallback_key.key = NoKey
          /\ account.num_fallback_keys = 2 <=> account.prev_fallback_key.key # NoKey
        BY <2>1, UnsetTyped DEF AccountOk, FallbackKeysOk
    <2>5. uploading \subseteq Keys /\ server.one_time \subseteq GivenOut(account)
        BY DEF IInv, Serves, UploadOk, ServerOk
    <2>6. GivenOut(account) \subseteq Keys
        BY <2>1, GivenOutFacts
    <2> QED
        BY <2>1, <2>2, <2>3, <2>4, <2>5, <2>6 DEF TypeOK
<1> QED
    BY <1>1, SetupInvariance, PTL

LEMMA KeysKnown == IInv => HandedOutKeysKnown
<1> SUFFICES ASSUME IInv PROVE HandedOutKeysKnown
    OBVIOUS
<1>1. /\ AccountOk(account) /\ account.num_fallback_keys \in 0 .. 2
      /\ PrekeyServed(account, server.prekey) /\ FallbackServed(account, server.fallback)
    BY AccountTyped DEF IInv, Serves, ServerOk, AccountOk
<1>2. server.prekey # NoKey => KnowsPrekey(account, server.prekey)
    BY <1>1 DEF PrekeyServed, KnowsPrekey
<1>3. server.fallback # NoKey => KnowsKey(account, server.fallback)
    BY <1>1 DEF FallbackServed, KnowsKey
<1>4. \A key : key.kind = "one_time" /\ PushedOff(account, key) => PushedOut(key)
    BY DEF PushedOff, PushedOut, Newer
<1>5. \A key \in server.one_time : KnowsKey(account, key) \/ PushedOut(key)
    <2> TAKE key \in server.one_time
    <2>1. /\ key.kind = "one_time" /\ Traced(account, Inbound, key)
          /\ key \notin server.claimed
        BY DEF IInv, Serves, ServerOk, GivenOut
    <2>2. \A t \in Inbound : t.one_time # key
        BY <2>1 DEF IInv, InboundOk, OutboundOk, OutboundSession, MadeFrom
    <2> QED
        BY <1>4, <2>1, <2>2 DEF Traced, KnowsKey
<1>6. \A s \in Awaited : Answers(s, s.identity) \/ PushedOut(s.one_time)
    <2> TAKE s \in Awaited
    <2>1. /\ s \in outbound /\ OutboundSession(s)
          /\ \A t \in Inbound : t.origin # s.origin
        BY DEF Awaited, IInv, OutboundOk
    <2>2. /\ KnowsPrekey(account, s.prekey)
          /\ s.one_time.kind = "fallback" => KnowsKey(account, s.one_time)
        BY DEF IInv, Serves, AwaitedOk, Awaited, Unanswered
    <2>3. CASE s.one_time.kind # "one_time"
        BY <2>1, <2>2, <2>3 DEF OutboundSession, Answers
    <2>4. CASE s.one_time.kind = "one_time"
        <3>1. Traced(account, Inbound, s.one_time)
            BY <2>1, <2>4 DEF OutboundSession, IInv, Serves, ServerOk
        <3>2. \A t \in Inbound : t.one_time # s.one_time
            <4> SUFFICES ASSUME NEW t \in Inbound, t.one_time = s.one_time PROVE FALSE
                OBVIOUS
            <4>1. PICK u \in outbound : MadeFrom(t, u)
                BY DEF IInv, InboundOk
            <4>2. u = s
                BY <2>1, <2>4, <4>1 DEF IInv, OutboundOk, MadeFrom
            <4> QED
                BY <2>1, <4>1, <4>2 DEF MadeFrom
        <3> QED
            BY <1>4, <2>2, <2>4, <3>1, <3>2 DEF Traced, Answers, KnowsKey
    <2> QED
        BY <2>3, <2>4
<1> QED
    BY <1>2, <1>3, <1>5, <1>6 DEF HandedOutKeysKnown

(* A key that the server hands out, or that a session on its way was made  *)
(* with, is there when a message needs it (lookup_key, lookup_prekey),     *)
(* unless it was a one-time key that a full list of newer ones pushed out. *)
THEOREM KeysKept == Spec => []HandedOutKeysKnown
BY KeysKnown, SetupInvariance, PTL

(* Both ends of a session derive one secret (new_outbound_session,         *)
(* new_inbound_session), though they pass the keys the other way round.    *)
THEOREM SameSecret == Spec => []SecretsAgree
<1>1. IInv => SecretsAgree
    <2> SUFFICES ASSUME IInv, NEW s \in outbound PROVE SessionFrom(s).secret = s.secret
        BY DEF SecretsAgree
    <2>1. OutboundSession(s)
        BY DEF IInv, Serves, OutboundOk
    <2>2. SessionFrom(s).secret = InboundSecret(s)
        BY <2>1, SessionFromFacts DEF OutboundSession
    <2>3. \A k, l : ECDH(k, l) = ECDH(l, k)
        BY DEF ECDH
    <2>4. InboundSecret(s) = OutboundSecret(s.identity, s.base, s.one_time, s.prekey)
        BY <2>3 DEF InboundSecret, OutboundSecret
    <2> QED
        BY <2>1, <2>2, <2>4 DEF OutboundSession
<1> QED
    BY <1>1, SetupInvariance, PTL

(* remove_key() removes a one-time key for good: none that was generated   *)
(* later is the same.                                                      *)
THEOREM RemovedForGood == Spec => []RemovedKeysGone
<1>1. IInv => RemovedKeysGone
    BY DEF IInv, Serves, RemovedOk, RemovedKeysGone
<1> QED
    BY <1>1, SetupInvariance, PTL

(* mark_keys_as_published() and mark_prekey_as_published() mark no key     *)
(* that the server has not had, if no key is generated during an upload.   *)
THEOREM MarkedMeansUploaded == Spec => []PublishedKeysUploaded
<1>1. IInv => PublishedKeysUploaded
    BY DEF IInv, Serves, PublishedOk, PublishedKeysUploaded
<1> QED
    BY <1>1, SetupInvariance, PTL

-----------------------------------------------------------------------------
(* Which sessions match.                                                   *)

(* The first ECDH result is among those that the secret is derived from:   *)
(* a secret tells the identity of the sender from another.                 *)
LEMMA SecretStarts ==
    ASSUME NEW r, NEW q, Len(r) \in {3, 4}, Len(q) \in {3, 4}, SecretOf(r) = SecretOf(q)
    PROVE  r[1] = q[1]
<1> DEFINE Of(m) == (1 * m + SHARED_SECRET_LENGTH - 1) \div SHARED_SECRET_LENGTH
<1>1. \A m \in {3, 4} : Of(m) \in Nat /\ Of(m) >= 1
    <2> TAKE m \in {3, 4}
    <2>1. 1 * m = m /\ m \in Nat
        OBVIOUS
    <2>2. (m + SHARED_SECRET_LENGTH - 1) \div SHARED_SECRET_LENGTH \in Nat
          /\ (m + SHARED_SECRET_LENGTH - 1) \div SHARED_SECRET_LENGTH >= 1
        BY SetupAssumption
    <2> QED
        BY <2>1, <2>2
<1>2. SubSeq(r, 1, Of(Len(r))) = SubSeq(q, 1, Of(Len(q)))
    BY DEF SecretOf
<1> HIDE DEF Of
<1>3. PICK n \in Nat, k \in Nat : /\ n >= 1 /\ k >= 1
                                  /\ SubSeq(r, 1, n) = SubSeq(q, 1, k)
    BY <1>1, <1>2
<1> QED
    BY <1>3

LEMMA SecretTellsIdentity ==
    ASSUME NEW s, OutboundSession(s), NEW t, MadeFrom(t, s),
           t.identity \in {s.identity, Garbage}, InboundSecret(t) = s.secret
    PROVE  t.identity = s.identity
<1> DEFINE r == <<ECDH(t.one_time, t.identity), ECDH(BobIdentity, t.base),
                  ECDH(t.one_time, t.base)>>
                \o (IF t.one_time # t.prekey THEN <<ECDH(t.prekey, t.base)>> ELSE <<>>)
           q == <<ECDH(s.identity, s.one_time), ECDH(s.base, BobIdentity),
                  ECDH(s.base, s.one_time)>>
                \o (IF s.one_time # s.prekey THEN <<ECDH(s.base, s.prekey)>> ELSE <<>>)
<1>1. SecretOf(r) = SecretOf(q)
    BY DEF OutboundSession, InboundSecret, OutboundSecret
<1>2. \A a, b, c, d : /\ Len(<<a, b, c>> \o <<d>>) = 4 /\ Len(<<a, b, c>> \o <<>>) = 3
                      /\ (<<a, b, c>> \o <<d>>)[1] = a /\ (<<a, b, c>> \o <<>>)[1] = a
    OBVIOUS
<1>3. /\ Len(r) \in {3, 4} /\ r[1] = ECDH(t.one_time, t.identity)
      /\ Len(q) \in {3, 4} /\ q[1] = ECDH(s.identity, s.one_time)
    BY <1>2
<1> HIDE DEF r, q
<1>4. ECDH(t.one_time, t.identity) = ECDH(s.identity, s.one_time)
    BY <1>1, <1>3, SecretStarts
<1>5. t.one_time = s.one_time
    BY DEF MadeFrom
<1>6. Garbage.kind = "garbage" /\ s.identity.kind = "identity"
      /\ s.one_time.kind \in {"one_time", "fallback", "prekey"}
    BY DEF Garbage, Key, OutboundSession
<1> QED
    BY <1>4, <1>5, <1>6 DEF ECDH

LEMMA MatchInit == Init => MatchOk
<1> SUFFICES ASSUME Init PROVE MatchOk
    OBVIOUS
<1>1. Len(inbound) = 0 /\ pending = {}
    BY DEF Init
<1>2. Inbound = {}
    BY <1>1 DEF Inbound
<1> QED
    BY <1>1, <1>2 DEF MatchOk, OneSessionEach

(* A step that creates no inbound session.                                 *)
LEMMA MatchStays ==
    ASSUME MatchOk, UNCHANGED <<pending, inbound>>, outbound \subseteq outbound'
    PROVE  MatchOk'
<1>1. Inbound' = Inbound
    BY DEF Inbound
<1> QED
    BY <1>1 DEF MatchOk, OneSessionEach

LEMMA MatchNewInbound ==
    ASSUME IInv, MatchOk, "base" \notin DamagedParts, NEW s \in outbound,
           NEW message \in PreKeyMessages(s), NEW their_identity,
           NewInboundSession(s, message, their_identity)
    PROVE  MatchOk'
<1>1. /\ AccountOk(account) /\ OutboundSession(s) /\ Answers(message, their_identity)
      /\ pending' = {[session |-> SessionFrom(message), secret |-> s.secret]}
      /\ outbound' = outbound /\ inbound' = inbound
      /\ \A t \in Inbound : ~MatchesInboundSession(t, message)
    BY DEF IInv, Serves, OutboundOk, NewInboundSession
<1>2. PICK t : t = SessionFrom(message)
    OBVIOUS
<1>3. /\ MadeFrom(message, s) /\ message.base = s.base
      /\ message.identity \in {s.identity, Garbage}
    BY <1>1, AcceptedMessage
<1>4. /\ MadeFrom(t, s) /\ t.base = s.base /\ t.identity = message.identity
      /\ t.identity \in {s.identity, Garbage}
      /\ t.secret = InboundSecret(t)
    BY <1>1, <1>2, <1>3, AcceptedMessage, SessionFromFacts DEF MadeFrom
<1>5. ASSUME t.identity = s.identity, NEW u \in Inbound PROVE u.origin # s.origin
    <2>1. PICK v \in outbound : MadeFrom(u, v) /\ u.base = v.base /\ u.identity = v.identity
        BY DEF MatchOk
    <2>2. u.origin = s.origin => v = s
        BY <2>1 DEF IInv, OutboundOk, MadeFrom
    <2> QED
        BY <1>1, <1>3, <1>4, <1>5, <2>1, <2>2 DEF MatchesInboundSession, MadeFrom
<1>6. Inbound' = Inbound
    BY <1>1 DEF Inbound
<1>7. PICK p : p = [session |-> t, secret |-> s.secret]
    OBVIOUS
<1>8. pending' = {p} /\ p.session = t /\ p.secret = s.secret
    BY <1>1, <1>2, <1>7
<1>9. /\ MadeFrom(p.session, s) /\ p.session.base = s.base
      /\ p.session.identity \in {s.identity, Garbage}
      /\ p.secret = s.secret /\ p.session.secret = InboundSecret(p.session)
      /\ p.session.identity = s.identity => \A u \in Inbound : u.origin # s.origin
    BY <1>4, <1>5, <1>8
<1>10. OneSessionEach'
    BY <1>1 DEF MatchOk, OneSessionEach
<1> QED
    BY <1>1, <1>6, <1>8, <1>9, <1>10 DEF MatchOk

LEMMA MatchDecryptFirst == ASSUME IInv, MatchOk, DecryptFirst PROVE MatchOk'
<1>1. PICK p \in pending :
         /\ pending' = {}
         /\ inbound' = IF p.session.secret = p.secret THEN Append(inbound, p.session)
                       ELSE inbound
         /\ outbound' = outbound
    BY DEF DecryptFirst
<1>2. CASE p.session.secret # p.secret
    <2>1. inbound' = inbound /\ Inbound' = Inbound
        BY <1>1, <1>2 DEF Inbound
    <2> QED
        BY <1>1, <2>1 DEF MatchOk, OneSessionEach
<1>3. CASE p.session.secret = p.secret
    <2>1. PICK s \in outbound :
             /\ MadeFrom(p.session, s) /\ p.session.base = s.base
             /\ p.session.identity \in {s.identity, Garbage}
             /\ p.secret = s.secret /\ p.session.secret = InboundSecret(p.session)
             /\ p.session.identity = s.identity => \A t \in Inbound : t.origin # s.origin
        BY DEF MatchOk
    <2>2. p.session.identity = s.identity
        BY <1>3, <2>1, SecretTellsIdentity DEF IInv, OutboundOk
    <2>3. \A t \in Inbound : t.origin # p.session.origin
        BY <2>1, <2>2 DEF MadeFrom
    <2>4. /\ Inbound' = Inbound \cup {p.session}
          /\ Len(inbound) \in Nat /\ Len(inbound') = Len(inbound) + 1
          /\ inbound'[Len(inbound) + 1] = p.session
          /\ \A i \in 1 .. Len(inbound) : inbound'[i] = inbound[i]
        BY <1>1, <1>3, InboundGrows DEF IInv
    <2>5. \A i \in 1 .. Len(inbound) : inbound[i].origin # p.session.origin
        BY <2>3 DEF Inbound
    <2>6. \A i, j \in 1 .. Len(inbound) : inbound[i].origin = inbound[j].origin => i = j
        BY DEF MatchOk, OneSessionEach
    <2>7. OneSessionEach'
        <3> SUFFICES ASSUME NEW i \in 1 .. Len(inbound) + 1, NEW j \in 1 .. Len(inbound) + 1,
                            inbound'[i].origin = inbound'[j].origin
                     PROVE  i = j
            BY <2>4 DEF OneSessionEach
        <3>1. /\ i \in 1 .. Len(inbound) \/ i = Len(inbound) + 1
              /\ j \in 1 .. Len(inbound) \/ j = Len(inbound) + 1
            BY <2>4
        <3> QED
            BY <2>4, <2>5, <2>6, <3>1
    <2>8. \A t \in Inbound' : \E u \in outbound' :
             MadeFrom(t, u) /\ t.base = u.base /\ t.identity = u.identity
        BY <1>1, <2>1, <2>2, <2>4 DEF MatchOk
    <2> QED
        BY <1>1, <2>7, <2>8 DEF MatchOk
<1> QED
    BY <1>2, <1>3

LEMMA MatchStep ==
    ASSUME IInv, MatchOk, "base" \notin DamagedParts, [Next]_vars
    PROVE  MatchOk'
<1>1. CASE UNCHANGED vars
    BY <1>1, MatchStays DEF vars
<1>2. CASE Maintain
    BY <1>2, MatchStays DEF Maintain
<1>3. CASE BeginUpload
    BY <1>3, MatchStays DEF BeginUpload
<1>4. CASE \E answered \in BOOLEAN : EndUpload(answered)
    BY <1>4, MatchStays DEF EndUpload
<1>5. ASSUME NEW i \in Initiators, NEW verified \in BOOLEAN, NewOutboundSession(i, verified)
      PROVE  MatchOk'
    <2>1. UNCHANGED <<pending, inbound>> /\ outbound \subseteq outbound'
        BY <1>5 DEF NewOutboundSession
    <2> QED
        BY <2>1, MatchStays
<1>6. CASE \E s \in outbound : \E message \in PreKeyMessages(s), id \in {NoKey, s.identity} :
              NewInboundSession(s, message, id) \/ NewInboundSessionFails(message, id)
    <2>1. PICK s \in outbound : \E message \in PreKeyMessages(s), id \in {NoKey, s.identity} :
             NewInboundSession(s, message, id) \/ NewInboundSessionFails(message, id)
        BY <1>6
    <2>2. PICK message \in PreKeyMessages(s), id \in {NoKey, s.identity} :
             NewInboundSession(s, message, id) \/ NewInboundSessionFails(message, id)
        BY <2>1
    <2> QED
        BY <1>1, <2>2, MatchNewInbound DEF NewInboundSessionFails
<1>7. CASE DecryptFirst
    BY <1>7, MatchDecryptFirst
<1>8. CASE \E session \in Inbound : RemoveOneTimeKeys(session)
    BY <1>8, MatchStays DEF RemoveOneTimeKeys
<1> QED
    BY <1>1, <1>2, <1>3, <1>4, <1>5, <1>6, <1>7, <1>8 DEF Next

LEMMA MatchedFacts == IInv /\ MatchOk => MatchesExactly /\ OneSessionEach
<1> SUFFICES ASSUME IInv, MatchOk, NEW s \in outbound, NEW t \in Inbound
             PROVE  MatchesInboundSession(t, s) <=> s.origin = t.origin
    BY DEF MatchesExactly, MatchOk
<1>1. PICK u \in outbound : MadeFrom(t, u) /\ t.base = u.base /\ t.identity = u.identity
    BY DEF MatchOk
<1>2. s.base = Key("base", s.origin) /\ u.base = Key("base", u.origin)
    BY DEF IInv, OutboundOk, OutboundSession
<1>3. s.base = u.base => s.origin = u.origin
    BY <1>2 DEF Key
<1>4. s.origin = u.origin => s = u
    BY DEF IInv, OutboundOk
<1> QED
    BY <1>1, <1>3, <1>4 DEF MatchesInboundSession, MadeFrom

(* A pre-key message matches (matches_inbound_session) the session made    *)
(* from it and no other, and no message makes a second session, unless     *)
(* the damage hits the base key, which the secret does not tell.           *)
THEOREM MessagesMatch ==
    ASSUME "base" \notin DamagedParts
    PROVE  Spec => [](MatchesExactly /\ OneSessionEach)
<1>1. IInv /\ MatchOk => MatchesExactly /\ OneSessionEach
    BY MatchedFacts
<1>2. Init => IInv /\ MatchOk
    BY InitOk, MatchInit
<1>3. IInv /\ MatchOk /\ [Next]_vars => (IInv /\ MatchOk)'
    BY StepOk, MatchStep
<1> QED
    BY <1>1, <1>2, <1>3, PTL DEF Spec

-----------------------------------------------------------------------------
(* What is stored of an account: a pickle, item by item.                   *)

(* A list between what is written before and behind it, and a last item.   *)
Around(z, x, list, y, e, T) ==
    /\ z \in Seq(T) /\ Len(z) = Len(x) + 1 + Len(list) + Len(y) + 1
    /\ \A k \in 1 .. Len(x) : z[k] = x[k]
    /\ z[Len(x) + 1] = Len(list)
    /\ \A k \in 1 .. Len(list) : z[Len(x) + 1 + k] = list[k]
    /\ \A k \in 1 .. Len(y) : z[Len(x) + 1 + Len(list) + k] = y[k]
    /\ z[Len(x) + 1 + Len(list) + Len(y) + 1] = e

LEMMA JoinedAround ==
    ASSUME NEW T, Nat \subseteq T, NEW x \in Seq(T), NEW list \in Seq(T), NEW y \in Seq(T),
           NEW e \in T
    PROVE  Around(((x \o PickleList(list)) \o y) \o <<e>>, x, list, y, e, T)
<1> DEFINE m == Len(x)
           n == Len(list)
           w == Len(y)
           one == <<n>>
           end == <<e>>
           l == one \o list
           x1 == x \o l
           x2 == x1 \o y
           z == x2 \o end
<1>0. m \in Nat /\ n \in Nat /\ w \in Nat
    BY LenProperties
<1>1. one \in Seq(T) /\ Len(one) = 1 /\ one[1] = n
    <2>1. n \in T
        BY <1>0
    <2> HIDE DEF n
    <2> QED
        BY <2>1
<1>2. end \in Seq(T) /\ Len(end) = 1 /\ end[1] = e
    OBVIOUS
<1>3. z = ((x \o PickleList(list)) \o y) \o <<e>>
    BY DEF PickleList
<1> HIDE DEF one, end
<1>4. Join(l, one, list, T)
    BY <1>1, JoinedItems
<1> HIDE DEF l
<1>5. Join(x1, x, l, T)
    <2>1. l \in Seq(T)
        BY <1>4 DEF Join
    <2> QED
        BY <2>1, JoinedItems
<1> HIDE DEF x1
<1>6. Join(x2, x1, y, T)
    <2>1. x1 \in Seq(T)
        BY <1>5 DEF Join
    <2> QED
        BY <2>1, JoinedItems
<1> HIDE DEF x2
<1>7. Join(z, x2, end, T)
    <2>1. x2 \in Seq(T)
        BY <1>6 DEF Join
    <2> QED
        BY <1>2, <2>1, JoinedItems
<1> HIDE DEF z
<1>8. /\ Len(l) = 1 + n /\ l[1] = n
      /\ \A k \in 1 .. n : l[1 + k] = list[k]
    BY <1>1, <1>4 DEF Join
<1>9. /\ Len(x1) = m + (1 + n)
      /\ \A k \in 1 .. m : x1[k] = x[k]
      /\ \A k \in 1 .. 1 + n : x1[m + k] = l[k]
    BY <1>5, <1>8 DEF Join
<1>10. /\ Len(x2) = (m + (1 + n)) + w
       /\ \A k \in 1 .. m + (1 + n) : x2[k] = x1[k]
       /\ \A k \in 1 .. w : x2[(m + (1 + n)) + k] = y[k]
    BY <1>6, <1>9 DEF Join
<1>11. /\ Len(z) = ((m + (1 + n)) + w) + 1 /\ z \in Seq(T)
       /\ \A k \in 1 .. (m + (1 + n)) + w : z[k] = x2[k]
       /\ z[((m + (1 + n)) + w) + 1] = e
    BY <1>2, <1>7, <1>10 DEF Join
<1> HIDE DEF m, n, w
<1>12. \A k \in 1 .. m : z[k] = x[k]
    BY <1>0, <1>9, <1>10, <1>11
<1>13. \A k \in 1 .. 1 + n : z[m + k] = l[k]
    BY <1>0, <1>9, <1>10, <1>11
<1>14. z[m + 1] = n
    BY <1>0, <1>8, <1>13
<1>15. \A k \in 1 .. n : z[m + 1 + k] = list[k]
    <2> TAKE k \in 1 .. n
    <2>1. 1 + k \in 1 .. 1 + n /\ m + 1 + k = m + (1 + k)
        BY <1>0
    <2> QED
        BY <1>8, <1>13, <2>1
<1>16. \A k \in 1 .. w : z[m + 1 + n + k] = y[k]
    <2> TAKE k \in 1 .. w
    <2>1. /\ (m + (1 + n)) + k \in 1 .. (m + (1 + n)) + w
          /\ m + 1 + n + k = (m + (1 + n)) + k
        BY <1>0
    <2> QED
        BY <1>10, <1>11, <2>1
<1>17. /\ Len(z) = m + 1 + n + w + 1
       /\ z[m + 1 + n + w + 1] = e
    <2>1. ((m + (1 + n)) + w) + 1 = m + 1 + n + w + 1
        BY <1>0
    <2> QED
        BY <1>11, <2>1
<1>18. Around(z, x, list, y, e, T)
    BY <1>11, <1>12, <1>14, <1>15, <1>16, <1>17 DEF Around, m, n, w
<1> QED
    BY <1>3, <1>18

(* As many keys as their number says.                                      *)
CountedItems(c, number, current, prev, T) ==
    /\ c \in Seq(T) /\ Len(c) = 1 + number /\ c[1] = number
    /\ number >= 1 => c[2] = current
    /\ number >= 2 => c[3] = prev

LEMMA CountedFacts ==
    ASSUME NEW T, NEW number \in T, number \in 0 .. 2, NEW current \in T, NEW prev \in T
    PROVE  CountedItems(Counted(number, current, prev), number, current, prev, T)
<1> DEFINE c == Counted(number, current, prev)
           a == <<number>>
           b == <<current>>
           d == <<prev>>
           ab == a \o b
           abd == ab \o d
           none == << >>
<1>1. /\ a \in Seq(T) /\ Len(a) = 1 /\ a[1] = number
      /\ b \in Seq(T) /\ Len(b) = 1 /\ b[1] = current
      /\ d \in Seq(T) /\ Len(d) = 1 /\ d[1] = prev
      /\ none \in Seq(T) /\ Len(none) = 0
    OBVIOUS
<1>2. c = (a \o (IF number >= 1 THEN b ELSE none)) \o (IF number >= 2 THEN d ELSE none)
    BY DEF Counted
<1> HIDE DEF c, a, b, d, none
<1>3. \A v \in Seq(T) : v \o none = v
    <2> TAKE v \in Seq(T)
    <2> QED
        BY ConcatEmptySeq DEF none
<1>4. Join(ab, a, b, T)
    BY <1>1, JoinedItems
<1> HIDE DEF ab
<1>5. Join(abd, ab, d, T)
    <2>1. ab \in Seq(T)
        BY <1>4 DEF Join
    <2> QED
        BY <1>1, <2>1, JoinedItems
<1> HIDE DEF abd
<1>6. ab[1] = number /\ ab[1 + 1] = current /\ Len(ab) = 1 + 1 /\ ab \in Seq(T)
    BY <1>1, <1>4 DEF Join
<1>7. abd[1] = number /\ abd[2] = current /\ abd[(1 + 1) + 1] = prev
      /\ Len(abd) = (1 + 1) + 1 /\ abd \in Seq(T)
    BY <1>1, <1>5, <1>6 DEF Join
<1>8. CASE number = 0
    <2>1. c = (a \o none) \o none
        BY <1>2, <1>8
    <2>2. a \o none = a
        BY <1>1, <1>3
    <2>3. c = a
        BY <2>1, <2>2
    <2> QED
        BY <1>1, <1>8, <2>3 DEF CountedItems, c
<1>9. CASE number = 1
    <2>1. c = ab
        BY <1>2, <1>3, <1>6, <1>9 DEF ab
    <2> QED
        BY <1>6, <1>9, <2>1 DEF CountedItems, c
<1>10. CASE number = 2
    <2>1. c = abd
        BY <1>2, <1>10 DEF ab, abd
    <2> QED
        BY <1>7, <1>10, <2>1 DEF CountedItems, c
<1> QED
    BY <1>8, <1>9, <1>10

(* The items of an account's pickle: the number of its one-time keys is    *)
(* number at1, that of its fallback keys number at2, and the last id given *)
(* out number at3, the last.                                               *)
Items == Nat \cup Slots \cup {"identity_keys", "last_prekey_publish_time"}

PlacesOf(at1, at2, at3, np, n, nf) ==
    at1 = 6 + np /\ at2 = (at1 + 1) + n /\ at3 = (at2 + 1) + nf

ItemsAt(items, a, at1, at2, at3) ==
    /\ items \in Seq(Items) /\ Len(items) = at3
    /\ items[1] = 10005
    /\ items[3] = a.num_prekeys /\ items[4] = a.current_prekey
    /\ a.num_prekeys = 2 => items[5] = a.prev_prekey
    /\ items[4 + a.num_prekeys] = a.next_prekey_id
    /\ items[at1] = Len(a.one_time_keys)
    /\ \A k \in 1 .. Len(a.one_time_keys) : items[at1 + k] = a.one_time_keys[k]
    /\ items[at2] = a.num_fallback_keys
    /\ a.num_fallback_keys >= 1 => items[at2 + 1] = a.current_fallback_key
    /\ a.num_fallback_keys >= 2 => items[at2 + 2] = a.prev_fallback_key
    /\ items[at3] = a.next_one_time_key_id

(* What is in front of the one-time keys.                                  *)
Front(x, version, np, current, prev, next) ==
    /\ x \in Seq(Items) /\ Len(x) = 5 + np
    /\ x[1] = version /\ x[3] = np /\ x[4] = current
    /\ np = 2 => x[5] = prev
    /\ x[4 + np] = next

LEMMA PrekeyItems ==
    ASSUME NEW version \in Nat, NEW np \in Nat, np \in {1, 2}, NEW current \in Slots,
           NEW prev \in Slots, NEW next \in Nat
    PROVE  Front((<<version, "identity_keys">> \o Counted(np, current, prev))
                 \o <<next, "last_prekey_publish_time">>, version, np, current, prev, next)
<1> DEFINE c == Counted(np, current, prev)
           b == <<version, "identity_keys">>
           d == <<next, "last_prekey_publish_time">>
           bc == b \o c
           x == bc \o d
<1>1. CountedItems(c, np, current, prev, Items)
    <2>1. np \in Items /\ current \in Items /\ prev \in Items /\ np \in 0 .. 2
        BY DEF Items
    <2> QED
        BY <2>1, CountedFacts
<1>2. /\ b \in Seq(Items) /\ Len(b) = 2 /\ b[1] = version
      /\ d \in Seq(Items) /\ Len(d) = 2 /\ d[1] = next
    <2>1. /\ version \in Items /\ next \in Items /\ "identity_keys" \in Items
          /\ "last_prekey_publish_time" \in Items
        BY DEF Items
    <2> QED
        BY <2>1
<1> HIDE DEF b, c, d
<1>3. Join(bc, b, c, Items)
    BY <1>1, <1>2, JoinedItems DEF CountedItems
<1> HIDE DEF bc
<1>4. Join(x, bc, d, Items)
    <2>1. bc \in Seq(Items)
        BY <1>3 DEF Join
    <2> QED
        BY <1>2, <2>1, JoinedItems
<1> HIDE DEF x
<1>5. CASE np = 1
    <2>1. /\ Len(c) = 2 /\ c[1] = np /\ c[2] = current
        BY <1>1, <1>5 DEF CountedItems
    <2>2. /\ Len(bc) = 4 /\ bc[1] = version /\ bc[2 + 1] = np /\ bc[2 + 2] = current
        BY <1>2, <1>3, <2>1 DEF Join
    <2>3. /\ Len(x) = 6 /\ x[1] = version /\ x[3] = np /\ x[4] = current /\ x[4 + 1] = next
        BY <1>2, <1>4, <2>2 DEF Join
    <2>4. x \in Seq(Items)
        BY <1>4 DEF Join
    <2> QED
        BY <1>5, <2>3, <2>4 DEF Front, x, bc, b, c, d
<1>6. CASE np = 2
    <2>1. /\ Len(c) = 3 /\ c[1] = np /\ c[2] = current /\ c[3] = prev
        BY <1>1, <1>6 DEF CountedItems
    <2>2. /\ Len(bc) = 5 /\ bc[1] = version /\ bc[2 + 1] = np /\ bc[2 + 2] = current
          /\ bc[2 + 3] = prev
        BY <1>2, <1>3, <2>1 DEF Join
    <2>3. /\ Len(x) = 7 /\ x[1] = version /\ x[3] = np /\ x[4] = current /\ x[5] = prev
          /\ x[5 + 1] = next
        BY <1>2, <1>4, <2>2 DEF Join
    <2>4. x \in Seq(Items)
        BY <1>4 DEF Join
    <2> QED
        BY <1>6, <2>3, <2>4 DEF Front, x, bc, b, c, d
<1> QED
    BY <1>5, <1>6

LEMMA AccountPickle ==
    ASSUME NEW a, AccountOk(a)
    PROVE  \E items : \E at1, at2, at3 \in Nat :
              /\ PickleAccount(a) = Whole(items)
              /\ PlacesOf(at1, at2, at3, a.num_prekeys, Len(a.one_time_keys),
                          a.num_fallback_keys)
              /\ ItemsAt(items, a, at1, at2, at3)
<1> DEFINE np == a.num_prekeys
           list == a.one_time_keys
           n == Len(list)
           nf == a.num_fallback_keys
           x == (<<10005, "identity_keys">> \o Counted(np, a.current_prekey, a.prev_prekey))
                \o <<a.next_prekey_id, "last_prekey_publish_time">>
           y == Counted(nf, a.current_fallback_key, a.prev_fallback_key)
           z == ((x \o PickleList(list)) \o y) \o <<a.next_one_time_key_id>>
<1>1. /\ np \in {1, 2} /\ np \in Nat /\ nf \in 0 .. 2 /\ nf \in Nat /\ n \in Nat
      /\ a.current_prekey \in Slots /\ a.prev_prekey \in Slots /\ a.next_prekey_id \in Nat
      /\ a.current_fallback_key \in Slots /\ a.prev_fallback_key \in Slots
      /\ list \in Seq(Slots) /\ a.next_one_time_key_id \in Nat
    BY AccountTyped, LenProperties DEF AccountOk, PrekeysOk
<1>2. PickleAccount(a) = Whole(z)
    BY DEF PickleAccount, ACCOUNT_PICKLE_VERSION
<1>3. /\ Nat \subseteq Items /\ Slots \subseteq Items /\ list \in Seq(Items)
      /\ a.next_one_time_key_id \in Items
    <2>1. Nat \subseteq Items /\ Slots \subseteq Items
        BY DEF Items
    <2> QED
        BY <1>1, <2>1, SeqMonotonic
<1>4. /\ x \in Seq(Items) /\ Len(x) = 5 + np
      /\ x[1] = 10005 /\ x[3] = np /\ x[4] = a.current_prekey
      /\ np = 2 => x[5] = a.prev_prekey
      /\ x[4 + np] = a.next_prekey_id
    <2> DEFINE version == 10005
    <2>1. version \in Nat /\ version = 10005
        OBVIOUS
    <2>2. x = (<<version, "identity_keys">> \o Counted(np, a.current_prekey, a.prev_prekey))
              \o <<a.next_prekey_id, "last_prekey_publish_time">>
        OBVIOUS
    <2> HIDE DEF version, x, np
    <2>3. Front(x, version, np, a.current_prekey, a.prev_prekey, a.next_prekey_id)
        BY <1>1, <2>1, <2>2, PrekeyItems
    <2> QED
        BY <2>1, <2>3 DEF Front
<1>5. CountedItems(y, nf, a.current_fallback_key, a.prev_fallback_key, Items)
    <2>1. nf \in Items /\ a.current_fallback_key \in Items /\ a.prev_fallback_key \in Items
        BY <1>1 DEF Items
    <2> HIDE DEF nf
    <2> QED
        BY <1>1, <2>1, CountedFacts
<1> HIDE DEF x, y, np, nf, list
<1>6. Around(z, x, list, y, a.next_one_time_key_id, Items)
    BY <1>3, <1>4, <1>5, JoinedAround DEF CountedItems
<1> HIDE DEF z, n
<1> DEFINE m == 5 + np
           w == 1 + nf
<1>7. /\ z \in Seq(Items) /\ Len(z) = m + 1 + n + w + 1
      /\ \A k \in 1 .. m : z[k] = x[k]
      /\ z[m + 1] = n
      /\ \A k \in 1 .. n : z[m + 1 + k] = list[k]
      /\ \A k \in 1 .. w : z[m + 1 + n + k] = y[k]
      /\ z[m + 1 + n + w + 1] = a.next_one_time_key_id
    BY <1>4, <1>5, <1>6 DEF Around, CountedItems, n
<1>8. m \in Nat /\ w \in Nat /\ m = 5 + np /\ w = 1 + nf
    BY <1>1
<1>9. /\ z[1] = 10005 /\ z[3] = np /\ z[4] = a.current_prekey
      /\ np = 2 => z[5] = a.prev_prekey
      /\ z[4 + np] = a.next_prekey_id
    BY <1>1, <1>4, <1>7, <1>8
<1> HIDE DEF m, w
<1>10. PICK at1, at2, at3 \in Nat :
          /\ PlacesOf(at1, at2, at3, np, n, nf)
          /\ at1 = m + 1 /\ at2 = m + 1 + n + 1 /\ at3 = m + 1 + n + w + 1
    <2> DEFINE b1 == m + 1
               b2 == m + 1 + n + 1
               b3 == m + 1 + n + w + 1
    <2>1. b1 \in Nat /\ b2 \in Nat /\ b3 \in Nat
        BY <1>1, <1>8
    <2>2. b1 = 6 + np /\ b2 = (b1 + 1) + n /\ b3 = (b2 + 1) + nf
        BY <1>1, <1>8
    <2> HIDE DEF b1, b2, b3
    <2>3. PlacesOf(b1, b2, b3, np, n, nf)
        BY <2>2 DEF PlacesOf
    <2> QED
        BY <2>1, <2>3 DEF b1, b2, b3
<1>11. /\ Len(z) = at3 /\ z[at1] = n /\ z[at3] = a.next_one_time_key_id
       /\ \A k \in 1 .. n : z[at1 + k] = list[k]
    BY <1>7, <1>10
<1>12. /\ z[at2] = nf
       /\ nf >= 1 => z[at2 + 1] = a.current_fallback_key
       /\ nf >= 2 => z[at2 + 2] = a.prev_fallback_key
    <2>1. /\ y[1] = nf
          /\ nf >= 1 => y[2] = a.current_fallback_key
          /\ nf >= 2 => y[3] = a.prev_fallback_key
        BY <1>5 DEF CountedItems
    <2>2. /\ at2 = m + 1 + n + 1 /\ at2 + 1 = m + 1 + n + 2 /\ at2 + 2 = m + 1 + n + 3
          /\ 1 \in 1 .. w
          /\ nf >= 1 => 2 \in 1 .. w
          /\ nf >= 2 => 3 \in 1 .. w
        BY <1>1, <1>8, <1>10
    <2>3. /\ z[m + 1 + n + 1] = y[1]
          /\ nf >= 1 => z[m + 1 + n + 2] = y[2]
          /\ nf >= 2 => z[m + 1 + n + 3] = y[3]
        BY <1>7, <2>2
    <2> QED
        BY <2>1, <2>2, <2>3
<1>13. ItemsAt(z, a, at1, at2, at3)
    BY <1>7, <1>9, <1>11, <1>12 DEF ItemsAt, n, np, nf, list
<1> QED
    BY <1>2, <1>10, <1>13 DEF n, np, nf, list

(* One step of reading.                                                    *)
ReadTo(p, len, pos, count) ==
    /\ pos # 0 /\ pos + count <= len + 1 => After(p, pos, count) = pos + count
    /\ ~(pos # 0 /\ pos + count <= len + 1) => After(p, pos, count) = 0

LEMMA ReadOn ==
    ASSUME NEW p, NEW len, NEW pos, NEW count, Len(p.items) = len
    PROVE  ReadTo(p, len, pos, count)
BY DEF ReadTo, After, Available, End, NULL

(* Where a pickle of an account is read that may be cut short or go on.    *)
Reads(p, len, np, n, nf, at1, at2) ==
    /\ Len(p.items) = len /\ len >= 1 /\ p.items[1] = 10005
    /\ len >= 3 => p.items[3] = np
    /\ len >= at1 => p.items[at1] = n
    /\ len >= at2 => p.items[at2] = nf

LEMMA AccountPlaces ==
    ASSUME NEW p, NEW len \in Nat, NEW np \in Nat, NEW n \in Nat, NEW nf \in Nat,
           NEW at1 \in Nat, NEW at2 \in Nat, NEW at3 \in Nat, np \in {1, 2}, nf \in 0 .. 2,
           Reads(p, len, np, n, nf, at1, at2), PlacesOf(at1, at2, at3, np, n, nf)
    PROVE  /\ len + 1 >= at3 => /\ OneTimeKeysAt(p) = at1
                                /\ EntriesRead(p, at1) = n
                                /\ FallbackKeysAt(p) = at2
                                /\ LastIdAt(p) = at3
           /\ len + 1 < at3 => LastIdAt(p) = NULL
<1>0. Len(p.items) = len
    BY DEF Reads
<1>1. HasPrekeys(p) /\ Version(p) = 10005
    BY DEF HasPrekeys, Version, Reads
<1>2. /\ OneTimeKeysAt(p) = After(p, AfterCounted(p, After(p, 1, 2)), 2)
      /\ LastIdAt(p) = AfterCounted(p, FallbackKeysAt(p))
      /\ FallbackKeysAt(p) = AfterList(p, OneTimeKeysAt(p))
    BY <1>1 DEF OneTimeKeysAt, LastIdAt, FallbackKeysAt
<1>3. End(p) = len + 1
    BY <1>0 DEF End
<1>p. at1 = 6 + np /\ at2 = (at1 + 1) + n /\ at3 = (at2 + 1) + nf
    BY DEF PlacesOf
<1>5. After(p, 1, 2) = IF len >= 2 THEN 3 ELSE 0
    BY <1>3 DEF Available, After, NULL
<1>6. /\ len >= 3 + np => AfterCounted(p, After(p, 1, 2)) = 4 + np
      /\ len < 3 + np => AfterCounted(p, After(p, 1, 2)) = 0
    <2>1. CASE len < 3
        <3>1. ~Available(p, After(p, 1, 2), 1)
            BY <1>3, <1>5, <2>1 DEF Available, NULL
        <3>2. AfterCounted(p, After(p, 1, 2)) = 0
            BY <3>1 DEF AfterCounted, NULL
        <3> QED
            BY <2>1, <3>2
    <2>2. CASE len >= 3
        <3>1. After(p, 1, 2) = 3 /\ p.items[3] = np /\ ~(np >= 3)
            BY <1>5, <2>2 DEF Reads
        <3>2. Available(p, 3, 1)
            BY <1>3, <2>2 DEF Available, NULL
        <3>3. AfterCounted(p, 3) = After(p, 3 + 1, np)
            BY <3>1, <3>2 DEF AfterCounted
        <3> DEFINE four == 3 + 1
        <3>4. four = 4
            OBVIOUS
        <3> HIDE DEF four
        <3>5. ReadTo(p, len, four, np)
            BY <1>0, ReadOn
        <3>6. AfterCounted(p, After(p, 1, 2)) = After(p, four, np)
            BY <3>1, <3>3 DEF four
        <3> QED
            BY <3>4, <3>5, <3>6 DEF ReadTo
    <2> QED
        BY <2>1, <2>2
<1>7. /\ len + 1 >= at1 => OneTimeKeysAt(p) = at1
      /\ len + 1 < at1 => OneTimeKeysAt(p) = 0
    <2> DEFINE pos == AfterCounted(p, After(p, 1, 2))
               two == 2
    <2>1. /\ len >= 3 + np => pos = 4 + np
          /\ len < 3 + np => pos = 0
          /\ pos \in Nat
        BY <1>6
    <2>2. two = 2
        OBVIOUS
    <2>3. OneTimeKeysAt(p) = After(p, pos, two)
        BY <1>2
    <2> HIDE DEF pos, two
    <2>4. ReadTo(p, len, pos, two)
        BY <1>0, ReadOn
    <2> QED
        BY <1>p, <2>1, <2>2, <2>3, <2>4 DEF ReadTo
<1>8. \/ len + 1 >= at2 /\ FallbackKeysAt(p) = at2 /\ EntriesRead(p, at1) = n
      \/ len + 1 < at2 /\ FallbackKeysAt(p) \in {0, len + 1}
    <2>1. CASE len < at1
        <3>1. ~Available(p, OneTimeKeysAt(p), 1)
            BY <1>3, <1>7, <2>1 DEF Available, NULL
        <3> QED
            BY <1>2, <1>p, <2>1, <3>1 DEF AfterList, NULL
    <2>2. CASE len >= at1
        <3>1. OneTimeKeysAt(p) = at1 /\ Available(p, at1, 1) /\ p.items[at1] = n
            <4>1. len + 1 >= at1 /\ at1 # 0 /\ at1 + 1 <= len + 1
                BY <1>p, <2>2
            <4>2. OneTimeKeysAt(p) = at1
                BY <1>7, <4>1
            <4>3. Available(p, at1, 1)
                BY <1>3, <4>1 DEF Available, NULL
            <4>4. p.items[at1] = n
                BY <2>2 DEF Reads
            <4> QED
                BY <4>2, <4>3, <4>4
        <3>2. EntriesRead(p, at1) = IF n < (len + 1) - (at1 + 1) THEN n
                                    ELSE (len + 1) - (at1 + 1)
            BY <1>3, <3>1 DEF EntriesRead, Least
        <3>3. /\ FallbackKeysAt(p) = 0 \/ FallbackKeysAt(p) = at1 + 1 + EntriesRead(p, at1)
              /\ ~(EntriesRead(p, at1) < n) =>
                    FallbackKeysAt(p) = at1 + 1 + EntriesRead(p, at1)
            BY <1>2, <3>1 DEF AfterList, NULL
        <3> DEFINE read == EntriesRead(p, at1)
        <3>4. CASE n <= (len + 1) - (at1 + 1)
            <4>1. read = n
                BY <3>2, <3>4
            <4> HIDE DEF read
            <4> QED
                BY <1>p, <3>3, <3>4, <4>1 DEF read
        <3>5. CASE ~(n <= (len + 1) - (at1 + 1))
            <4>1. read = (len + 1) - (at1 + 1)
                BY <3>2, <3>5
            <4> HIDE DEF read
            <4> QED
                BY <1>p, <2>2, <3>3, <3>5, <4>1 DEF read
        <3> QED
            BY <3>4, <3>5
    <2> QED
        BY <2>1, <2>2
<1>9. CASE len < at2
    <2>1. FallbackKeysAt(p) \in {0, len + 1}
        BY <1>8, <1>9
    <2>2. ~Available(p, FallbackKeysAt(p), 1)
        BY <1>3, <2>1 DEF Available, NULL
    <2>3. LastIdAt(p) = NULL
        BY <1>2, <2>2 DEF AfterCounted
    <2>4. len + 1 < at3
        BY <1>9, <1>p
    <2> QED
        BY <2>3, <2>4
<1>10. CASE len >= at2
    <2>1. /\ FallbackKeysAt(p) = at2 /\ EntriesRead(p, at1) = n
          /\ OneTimeKeysAt(p) = at1
        BY <1>7, <1>8, <1>10, <1>p
    <2>2. Available(p, at2, 1) /\ p.items[at2] = nf /\ ~(nf >= 3)
        <3>1. at2 # 0 /\ at2 + 1 <= len + 1 /\ ~(nf >= 3)
            BY <1>10, <1>p
        <3>2. p.items[at2] = nf
            BY <1>10 DEF Reads
        <3> QED
            BY <1>3, <3>1, <3>2 DEF Available, NULL
    <2> DEFINE pos == at2 + 1
    <2>3. LastIdAt(p) = After(p, pos, nf)
        BY <1>2, <2>1, <2>2 DEF AfterCounted
    <2>4. pos = at2 + 1
        OBVIOUS
    <2> HIDE DEF pos
    <2>5. ReadTo(p, len, pos, nf)
        BY <1>0, ReadOn
    <2> QED
        BY <1>p, <2>1, <2>3, <2>4, <2>5 DEF ReadTo, NULL
<1> QED
    BY <1>9, <1>10

LEMMA ListRead ==
    ASSUME NEW p, NEW pos, NEW list \in Seq(Slots), Len(list) <= MAX_ONE_TIME_KEYS,
           EntriesRead(p, pos) = Len(list),
           \A k \in 1 .. Len(list) : p.items[pos + k] = list[k]
    PROVE  ListAt(p, pos, MAX_ONE_TIME_KEYS) = list
<1>1. Len(list) \in Nat /\ MAX_ONE_TIME_KEYS \in Nat
    BY LenProperties, AccountAssumption
<1>2. Least(Len(list), MAX_ONE_TIME_KEYS) = Len(list)
    BY <1>1 DEF Least
<1>3. ListAt(p, pos, MAX_ONE_TIME_KEYS) =
         [i \in 1 .. Len(list) |->
             p.items[pos + (IF i = MAX_ONE_TIME_KEYS THEN Len(list) ELSE i)]]
    BY <1>2 DEF ListAt
<1>4. \A i \in 1 .. Len(list) : (IF i = MAX_ONE_TIME_KEYS THEN Len(list) ELSE i) = i
    BY <1>1
<1>5. ListAt(p, pos, MAX_ONE_TIME_KEYS) = [i \in 1 .. Len(list) |-> list[i]]
    BY <1>3, <1>4
<1>6. list = [i \in 1 .. Len(list) |-> list[i]]
    BY LenProperties
<1> QED
    BY <1>5, <1>6

LEMMA AccountFields ==
    ASSUME NEW a \in Accounts
    PROVE  a = [num_prekeys |-> a.num_prekeys, current_prekey |-> a.current_prekey,
                prev_prekey |-> a.prev_prekey, next_prekey_id |-> a.next_prekey_id,
                one_time_keys |-> a.one_time_keys, num_fallback_keys |-> a.num_fallback_keys,
                current_fallback_key |-> a.current_fallback_key,
                prev_fallback_key |-> a.prev_fallback_key,
                next_one_time_key_id |-> a.next_one_time_key_id]
BY DEF Accounts

LEMMA InUseFields ==
    ASSUME NEW a \in Accounts
    PROVE  /\ InUse(a) \in Accounts
           /\ SameOneTimeKeys(InUse(a), a) /\ SamePrekeys(InUse(a), a)
           /\ InUse(a).num_fallback_keys = a.num_fallback_keys
           /\ InUse(a).current_fallback_key =
                 IF a.num_fallback_keys >= 1 THEN a.current_fallback_key ELSE Unset
           /\ InUse(a).prev_fallback_key =
                 IF a.num_fallback_keys >= 2 THEN a.prev_fallback_key ELSE Unset
<1> DEFINE c == IF a.num_fallback_keys >= 1 THEN a.current_fallback_key ELSE Unset
           d == IF a.num_fallback_keys >= 2 THEN a.prev_fallback_key ELSE Unset
           b == [a EXCEPT !.current_fallback_key = c, !.prev_fallback_key = d]
<1>1. InUse(a) = b
    BY DEF InUse
<1>2. c \in Slots /\ d \in Slots
    BY AccountTyped, UnsetTyped
<1> HIDE DEF c, d
<1>3. b \in Accounts
    BY <1>2 DEF Accounts
<1>4. /\ SameOneTimeKeys(b, a) /\ SamePrekeys(b, a)
      /\ b.num_fallback_keys = a.num_fallback_keys
    BY DEF SameOneTimeKeys, SamePrekeys, Accounts
<1>5. b.current_fallback_key = c /\ b.prev_fallback_key = d
    BY DEF Accounts
<1> QED
    BY <1>1, <1>3, <1>4, <1>5 DEF c, d

(* The whole pickle is read, and gives what is in use of the account.      *)
LEMMA AccountReadBack ==
    ASSUME NEW a, AccountOk(a)
    PROVE  /\ UnpickleAccountError(PickleAccount(a)) = "OLM_SUCCESS"
           /\ UnpickleAccount(PickleAccount(a)) = InUse(a)
<1> DEFINE np == a.num_prekeys
           list == a.one_time_keys
           n == Len(list)
           nf == a.num_fallback_keys
           p == PickleAccount(a)
<1>1. /\ np \in {1, 2} /\ np \in Nat /\ nf \in 0 .. 2 /\ nf \in Nat /\ n \in Nat
      /\ a \in Accounts /\ list \in Seq(Slots) /\ n <= MAX_ONE_TIME_KEYS /\ nf <= 2
      /\ np = 1 => a.prev_prekey = Unset
    BY AccountTyped, LenProperties DEF AccountOk, PrekeysOk, OneTimeKeysOk
<1>2. PICK items : \E at1, at2, at3 \in Nat :
              /\ PickleAccount(a) = Whole(items)
              /\ PlacesOf(at1, at2, at3, np, n, nf)
              /\ ItemsAt(items, a, at1, at2, at3)
    BY AccountPickle
<1>3. PICK at1, at2, at3 \in Nat :
              /\ p = Whole(items)
              /\ PlacesOf(at1, at2, at3, np, n, nf)
              /\ ItemsAt(items, a, at1, at2, at3)
    BY <1>2
<1> HIDE DEF p
<1>4. p.items = items /\ p.partial = FALSE
    BY <1>3 DEF Whole
<1>5. /\ Len(p.items) = at3
      /\ p.items[1] = 10005
      /\ p.items[3] = np /\ p.items[4] = a.current_prekey
      /\ np = 2 => p.items[5] = a.prev_prekey
      /\ p.items[4 + np] = a.next_prekey_id
      /\ p.items[at1] = n
      /\ \A k \in 1 .. n : p.items[at1 + k] = list[k]
      /\ p.items[at2] = nf
      /\ nf >= 1 => p.items[at2 + 1] = a.current_fallback_key
      /\ nf >= 2 => p.items[at2 + 2] = a.prev_fallback_key
      /\ p.items[at3] = a.next_one_time_key_id
    BY <1>3, <1>4 DEF ItemsAt
<1> HIDE DEF np, list, nf, n
<1>p. at1 = 6 + np /\ at2 = (at1 + 1) + n /\ at3 = (at2 + 1) + nf
    BY <1>3 DEF PlacesOf
<1>6. /\ OneTimeKeysAt(p) = at1 /\ EntriesRead(p, at1) = n
      /\ FallbackKeysAt(p) = at2 /\ LastIdAt(p) = at3
    <2>1. Reads(p, at3, np, n, nf, at1, at2)
        <3>1. at3 >= 1
            BY <1>1, <1>p
        <3> QED
            BY <1>5, <3>1 DEF Reads
    <2>2. at3 + 1 >= at3
        OBVIOUS
    <2> QED
        BY <1>1, <1>3, <2>1, <2>2, AccountPlaces
<1>7. ListAt(p, at1, MAX_ONE_TIME_KEYS) = list
    <2>1. /\ list \in Seq(Slots) /\ Len(list) <= MAX_ONE_TIME_KEYS
          /\ EntriesRead(p, at1) = Len(list)
          /\ \A k \in 1 .. Len(list) : p.items[at1 + k] = list[k]
        BY <1>1, <1>5, <1>6 DEF n
    <2> QED
        BY <2>1, ListRead
<1>8. UnpickleAccountError(p) = "OLM_SUCCESS"
    <2>1. Available(p, 1, 1) /\ Version(p) = 10005 /\ End(p) = at3 + 1
        BY <1>1, <1>5, <1>p DEF Available, NULL, Version, End
    <2>2. After(p, LastIdAt(p), 1) = at3 + 1
        BY <1>1, <1>6, <1>p, <2>1 DEF After, Available, NULL
    <2>3. UnpickleError(p, at3 + 1) = "OLM_SUCCESS"
        BY <1>4, <2>1 DEF UnpickleError, NULL
    <2> QED
        BY <2>1, <2>2, <2>3 DEF UnpickleAccountError, ACCOUNT_PICKLE_VERSION
<1>9. HasPrekeys(p) /\ Version(p) = 10005
    BY <1>5 DEF HasPrekeys, Version
<1>10. NumFallbackKeys(p, at2) = nf
    BY <1>5, <1>9 DEF NumFallbackKeys
<1>11. UnpickleAccount(p) =
        [num_prekeys |-> np,
         current_prekey |-> IF np >= 1 THEN p.items[4] ELSE Unset,
         prev_prekey |-> IF np >= 2 THEN p.items[5] ELSE Unset,
         next_prekey_id |-> p.items[4 + np],
         one_time_keys |-> list,
         num_fallback_keys |-> nf,
         current_fallback_key |-> IF nf >= 1 THEN p.items[at2 + 1] ELSE Unset,
         prev_fallback_key |-> IF nf >= 2 THEN p.items[(at2 + 1) + 1] ELSE Unset,
         next_one_time_key_id |-> p.items[at3]]
    BY <1>5, <1>6, <1>7, <1>9, <1>10 DEF UnpickleAccount
<1>12. /\ (IF np >= 1 THEN p.items[4] ELSE Unset) = a.current_prekey
       /\ (IF np >= 2 THEN p.items[5] ELSE Unset) = a.prev_prekey
    BY <1>1, <1>5
<1>13. /\ (IF nf >= 1 THEN p.items[at2 + 1] ELSE Unset) =
             (IF nf >= 1 THEN a.current_fallback_key ELSE Unset)
       /\ (IF nf >= 2 THEN p.items[(at2 + 1) + 1] ELSE Unset) =
             (IF nf >= 2 THEN a.prev_fallback_key ELSE Unset)
       /\ p.items[4 + np] = a.next_prekey_id /\ p.items[at3] = a.next_one_time_key_id
    <2>1. (at2 + 1) + 1 = at2 + 2
        OBVIOUS
    <2> QED
        BY <1>5, <2>1
<1>14. UnpickleAccount(p) =
        [num_prekeys |-> np, current_prekey |-> a.current_prekey,
         prev_prekey |-> a.prev_prekey, next_prekey_id |-> a.next_prekey_id,
         one_time_keys |-> list, num_fallback_keys |-> nf,
         current_fallback_key |-> IF nf >= 1 THEN a.current_fallback_key ELSE Unset,
         prev_fallback_key |-> IF nf >= 2 THEN a.prev_fallback_key ELSE Unset,
         next_one_time_key_id |-> a.next_one_time_key_id]
    BY <1>11, <1>12, <1>13
<1>15. InUse(a) =
        [num_prekeys |-> np, current_prekey |-> a.current_prekey,
         prev_prekey |-> a.prev_prekey, next_prekey_id |-> a.next_prekey_id,
         one_time_keys |-> list, num_fallback_keys |-> nf,
         current_fallback_key |-> IF nf >= 1 THEN a.current_fallback_key ELSE Unset,
         prev_fallback_key |-> IF nf >= 2 THEN a.prev_fallback_key ELSE Unset,
         next_one_time_key_id |-> a.next_one_time_key_id]
    <2> DEFINE b == InUse(a)
    <2>1. /\ b \in Accounts /\ SameOneTimeKeys(b, a) /\ SamePrekeys(b, a)
          /\ b.num_fallback_keys = nf
          /\ b.current_fallback_key = IF nf >= 1 THEN a.current_fallback_key ELSE Unset
          /\ b.prev_fallback_key = IF nf >= 2 THEN a.prev_fallback_key ELSE Unset
        BY <1>1, InUseFields DEF nf
    <2> HIDE DEF b
    <2>2. b = [num_prekeys |-> b.num_prekeys, current_prekey |-> b.current_prekey,
               prev_prekey |-> b.prev_prekey, next_prekey_id |-> b.next_prekey_id,
               one_time_keys |-> b.one_time_keys, num_fallback_keys |-> b.num_fallback_keys,
               current_fallback_key |-> b.current_fallback_key,
               prev_fallback_key |-> b.prev_fallback_key,
               next_one_time_key_id |-> b.next_one_time_key_id]
        BY <2>1, AccountFields
    <2>3. /\ b.num_prekeys = np /\ b.current_prekey = a.current_prekey
          /\ b.prev_prekey = a.prev_prekey /\ b.next_prekey_id = a.next_prekey_id
          /\ b.one_time_keys = list /\ b.next_one_time_key_id = a.next_one_time_key_id
        BY <2>1 DEF SameOneTimeKeys, SamePrekeys, np, list
    <2>4. b =
        [num_prekeys |-> np, current_prekey |-> a.current_prekey,
         prev_prekey |-> a.prev_prekey, next_prekey_id |-> a.next_prekey_id,
         one_time_keys |-> list, num_fallback_keys |-> nf,
         current_fallback_key |-> IF nf >= 1 THEN a.current_fallback_key ELSE Unset,
         prev_fallback_key |-> IF nf >= 2 THEN a.prev_fallback_key ELSE Unset,
         next_one_time_key_id |-> a.next_one_time_key_id]
        BY <2>1, <2>2, <2>3
    <2> QED
        BY <2>4 DEF b
<1> QED
    BY <1>8, <1>14, <1>15 DEF p

(* A pickle that is cut short, or that something follows, is refused.      *)
LEMMA AccountRefused ==
    ASSUME NEW a, AccountOk(a)
    PROVE  /\ \A cut \in Cuts(PickleAccount(a)) : UnpickleAccountError(cut) # "OLM_SUCCESS"
           /\ UnpickleAccountError(Extended(PickleAccount(a), 0)) = "OLM_PICKLE_EXTRA_DATA"
<1> DEFINE np == a.num_prekeys
           n == Len(a.one_time_keys)
           nf == a.num_fallback_keys
           p == PickleAccount(a)
           zero == 0
           longer == Extended(p, zero)
<1>1. np \in {1, 2} /\ np \in Nat /\ nf \in 0 .. 2 /\ nf \in Nat /\ n \in Nat
    BY AccountTyped, LenProperties DEF AccountOk, PrekeysOk
<1>2. PICK items : \E at1, at2, at3 \in Nat :
              /\ PickleAccount(a) = Whole(items)
              /\ PlacesOf(at1, at2, at3, np, n, nf)
              /\ ItemsAt(items, a, at1, at2, at3)
    BY AccountPickle
<1>3. PICK at1, at2, at3 \in Nat :
              /\ p = Whole(items)
              /\ PlacesOf(at1, at2, at3, np, n, nf)
              /\ ItemsAt(items, a, at1, at2, at3)
    BY <1>2
<1> HIDE DEF p
<1>4. p.items = items /\ p.partial = FALSE
    BY <1>3 DEF Whole
<1>5. /\ items \in Seq(Items) /\ Len(items) = at3
      /\ items[1] = 10005 /\ items[3] = np /\ items[at1] = n /\ items[at2] = nf
    BY <1>3 DEF ItemsAt
<1> HIDE DEF np, n, nf, zero, longer
<1>q. PlacesOf(at1, at2, at3, np, n, nf)
    BY <1>3
<1>p. at1 = 6 + np /\ at2 = (at1 + 1) + n /\ at3 = (at2 + 1) + nf
    BY <1>3 DEF PlacesOf
<1>6. ASSUME NEW cut \in Cuts(p) PROVE UnpickleAccountError(cut) # "OLM_SUCCESS"
    <2> DEFINE len == Len(cut.items)
    <2>1. /\ len \in Nat /\ len < at3
          /\ \A i \in 1 .. len : cut.items[i] = items[i]
        BY <1>4, <1>5, CutFacts
    <2>2. Len(cut.items) = len
        OBVIOUS
    <2> HIDE DEF len
    <2>3. CASE len = 0
        <3>1. ~Available(cut, 1, 1)
            BY <2>2, <2>3 DEF Available, End, NULL
        <3> QED
            BY <3>1 DEF UnpickleAccountError
    <2>4. CASE len >= 1
        <3>1. Reads(cut, len, np, n, nf, at1, at2)
            <4>1. 1 \in 1 .. len /\ cut.items[1] = 10005
                BY <1>5, <2>1, <2>4
            <4>2. len >= 3 => cut.items[3] = np
                BY <1>5, <2>1
            <4>3. len >= at1 => cut.items[at1] = n
                BY <1>1, <1>5, <1>p, <2>1
            <4>4. len >= at2 => cut.items[at2] = nf
                BY <1>1, <1>5, <1>p, <2>1
            <4> QED
                BY <2>2, <2>4, <4>1, <4>2, <4>3, <4>4 DEF Reads
        <3>2. LastIdAt(cut) \in {at3, 0}
            <4>1. len \in Nat
                BY <2>1
            <4>2. /\ len + 1 >= at3 => LastIdAt(cut) = at3
                  /\ len + 1 < at3 => LastIdAt(cut) = 0
                BY <1>1, <1>q, <3>1, <4>1, AccountPlaces DEF NULL
            <4> QED
                BY <4>1, <4>2
        <3> DEFINE pos == LastIdAt(cut)
                   one == 1
        <3>3. pos \in {at3, 0} /\ one = 1
            BY <3>2
        <3> HIDE DEF pos, one
        <3>4. ReadTo(cut, len, pos, one)
            BY <2>2, ReadOn
        <3>5. After(cut, pos, one) = NULL
            BY <1>p, <2>1, <3>3, <3>4 DEF ReadTo, NULL
        <3>6. UnpickleError(cut, After(cut, pos, one)) # "OLM_SUCCESS"
            BY <3>5, ErrorAt
        <3> QED
            BY <3>6 DEF UnpickleAccountError, pos, one
    <2> QED
        BY <2>1, <2>3, <2>4
<1>7. UnpickleAccountError(longer) = "OLM_PICKLE_EXTRA_DATA"
    <2> DEFINE len == at3 + 1
    <2>1. /\ Len(longer.items) = len
          /\ \A i \in 1 .. at3 : longer.items[i] = items[i]
        <3>1. zero \in Items
            BY DEF zero, Items
        <3> QED
            BY <1>3, <1>5, <3>1, ExtendedFacts DEF longer
    <2>2. len \in Nat /\ len = at3 + 1
        OBVIOUS
    <2> HIDE DEF len
    <2>3. 1 \in 1 .. at3 /\ 3 \in 1 .. at3 /\ at1 \in 1 .. at3 /\ at2 \in 1 .. at3
        BY <1>1, <1>p
    <2>4. /\ longer.items[1] = 10005 /\ longer.items[3] = np
          /\ longer.items[at1] = n /\ longer.items[at2] = nf
        BY <1>5, <2>1, <2>3
    <2>5. Reads(longer, len, np, n, nf, at1, at2)
        BY <2>1, <2>2, <2>4 DEF Reads
    <2>6. len + 1 >= at3
        BY <2>2
    <2>7. LastIdAt(longer) = at3
        BY <1>1, <1>3, <2>2, <2>5, <2>6, AccountPlaces
    <2> DEFINE one == 1
               end == at3 + 1
    <2>8. one = 1 /\ end = at3 + 1 /\ at3 # 0
        BY <1>p, <1>1
    <2> HIDE DEF one, end
    <2>9. ReadTo(longer, len, at3, one)
        BY <2>1, ReadOn
    <2>10. After(longer, at3, one) = end
        BY <2>2, <2>8, <2>9 DEF ReadTo
    <2>11. end # NULL /\ end # End(longer)
        BY <2>1, <2>2, <2>8 DEF End, NULL
    <2>12. UnpickleError(longer, end) = "OLM_PICKLE_EXTRA_DATA"
        BY <2>11 DEF UnpickleError
    <2>13. Available(longer, 1, 1) /\ Version(longer) = 10005
        BY <2>1, <2>2, <2>4 DEF Available, End, NULL, Version
    <2>14. After(longer, LastIdAt(longer), 1) = end
        BY <2>7, <2>10 DEF one
    <2> QED
        BY <2>12, <2>13, <2>14 DEF UnpickleAccountError, ACCOUNT_PICKLE_VERSION
<1> QED
    BY <1>6, <1>7 DEF p, longer, zero

-----------------------------------------------------------------------------
(* Accounts that earlier releases stored.                                  *)

(* A pickle of an earlier release: y is what it wrote of fallback keys.    *)
OldItems(p, version, list, n, y, w, e) ==
    /\ p.partial = FALSE
    /\ Len(p.items) = 4 + n + w
    /\ p.items[1] = version /\ p.items[3] = n
    /\ \A k \in 1 .. n : p.items[3 + k] = list[k]
    /\ \A k \in 1 .. w : p.items[3 + n + k] = y[k]
    /\ p.items[4 + n + w] = e

LEMMA OldPickle ==
    ASSUME NEW version \in Nat, NEW list \in Seq(Slots), NEW y \in Seq(Items), NEW e \in Nat,
           NEW p, p = Whole(((<<version, "identity_keys">> \o PickleList(list)) \o y) \o <<e>>)
    PROVE  OldItems(p, version, list, Len(list), y, Len(y), e)
<1> DEFINE x == <<version, "identity_keys">>
           z == ((x \o PickleList(list)) \o y) \o <<e>>
           n == Len(list)
           w == Len(y)
<1>1. Nat \subseteq Items /\ Slots \subseteq Items /\ e \in Items /\ list \in Seq(Items)
    <2>1. Nat \subseteq Items /\ Slots \subseteq Items
        BY DEF Items
    <2> QED
        BY <2>1, SeqMonotonic
<1>2. x \in Seq(Items) /\ Len(x) = 2 /\ x[1] = version
    <2>1. version \in Items /\ "identity_keys" \in Items
        BY DEF Items
    <2> QED
        BY <2>1
<1>3. n \in Nat /\ w \in Nat
    BY LenProperties
<1>4. p.items = z /\ p.partial = FALSE
    BY DEF Whole
<1> HIDE DEF x
<1>5. Around(z, x, list, y, e, Items)
    BY <1>1, <1>2, JoinedAround
<1> HIDE DEF z
<1> DEFINE m == Len(x)
<1>6. /\ Len(z) = m + 1 + n + w + 1
      /\ \A k \in 1 .. m : z[k] = x[k]
      /\ z[m + 1] = n
      /\ \A k \in 1 .. n : z[m + 1 + k] = list[k]
      /\ \A k \in 1 .. w : z[m + 1 + n + k] = y[k]
      /\ z[m + 1 + n + w + 1] = e
    BY <1>5 DEF Around
<1>7. m = 2
    BY <1>2
<1> HIDE DEF n, w, m
<1>8. OldItems(p, version, list, n, y, w, e)
    <2>1. Len(z) = 4 + n + w /\ z[4 + n + w] = e
        <3>1. m + 1 + n + w + 1 = 4 + n + w
            BY <1>3, <1>7
        <3> QED
            BY <1>6, <3>1
    <2>2. z[1] = version /\ z[3] = n
        <3>1. 1 \in 1 .. m /\ m + 1 = 3
            BY <1>7
        <3> QED
            BY <1>2, <1>6, <3>1
    <2>3. ASSUME NEW k \in 1 .. n PROVE z[3 + k] = list[k]
        <3>1. m + 1 + k = 3 + k
            BY <1>3, <1>7
        <3> QED
            BY <1>6, <3>1
    <2>4. ASSUME NEW k \in 1 .. w PROVE z[3 + n + k] = y[k]
        <3>1. m + 1 + n + k = 3 + n + k
            BY <1>3, <1>7
        <3> QED
            BY <1>6, <3>1
    <2> QED
        BY <1>4, <2>1, <2>2, <2>3, <2>4 DEF OldItems
<1> QED
    BY <1>8 DEF n, w

(* Up to its fallback keys, it is read the same way in every release.      *)
LEMMA OldPlaces ==
    ASSUME NEW p, NEW version \in {2, 3, 4}, NEW list \in Seq(Slots), NEW y, NEW e,
           NEW n \in Nat, NEW w \in Nat, n = Len(list), n <= MAX_ONE_TIME_KEYS,
           OldItems(p, version, list, n, y, w, e)
    PROVE  /\ OneTimeKeysAt(p) = 3 /\ FallbackKeysAt(p) = 4 + n
           /\ ListAt(p, OneTimeKeysAt(p), MAX_ONE_TIME_KEYS) = list
           /\ ~HasPrekeys(p) /\ Version(p) = version
<1> DEFINE len == 4 + n + w
           three == 3
<1>1. /\ Len(p.items) = len /\ p.items[1] = version /\ p.items[3] = n
      /\ \A k \in 1 .. n : p.items[3 + k] = list[k]
    BY DEF OldItems
<1>2. ~HasPrekeys(p) /\ Version(p) = version
    BY <1>1 DEF HasPrekeys, Version
<1>3. len \in Nat /\ len = 4 + n + w /\ End(p) = len + 1
    BY <1>1 DEF End
<1> HIDE DEF len
<1>4. OneTimeKeysAt(p) = 3
    <2>1. Available(p, 1, 2)
        BY <1>3 DEF Available, NULL
    <2> QED
        BY <1>2, <2>1 DEF OneTimeKeysAt, After
<1>5. Available(p, 3, 1)
    BY <1>3 DEF Available, NULL
<1>6. EntriesRead(p, 3) = n
    <2>1. n < (len + 1) - (3 + 1)
        BY <1>3
    <2> QED
        BY <1>1, <1>3, <2>1 DEF EntriesRead, Least
<1>7. FallbackKeysAt(p) = 4 + n
    <2>1. ~(n < n) /\ 3 + 1 + n = 4 + n
        OBVIOUS
    <2>2. AfterList(p, 3) = 3 + 1 + n
        BY <1>1, <1>5, <1>6, <2>1 DEF AfterList
    <2> QED
        BY <1>4, <2>1, <2>2 DEF FallbackKeysAt
<1>8. ListAt(p, three, MAX_ONE_TIME_KEYS) = list
    <2>1. /\ Len(list) <= MAX_ONE_TIME_KEYS /\ EntriesRead(p, three) = Len(list)
          /\ \A k \in 1 .. Len(list) : p.items[three + k] = list[k]
        BY <1>1, <1>6
    <2> HIDE DEF three
    <2> QED
        BY <2>1, ListRead
<1> QED
    BY <1>2, <1>4, <1>7, <1>8

(* What it is read as: an account without pre-keys, with the fallback keys *)
(* that were in use if they were written.                                  *)
OldRead(b, a, version) ==
    /\ b \in Accounts /\ b.num_prekeys = 0 /\ SameOneTimeKeys(b, a)
    /\ b.num_fallback_keys = IF version = 2 THEN 0 ELSE a.num_fallback_keys
    /\ b.num_fallback_keys >= 1 => b.current_fallback_key.key = a.current_fallback_key.key
    /\ b.num_fallback_keys >= 2 => b.prev_fallback_key.key = a.prev_fallback_key.key

LEMMA OldAccount ==
    ASSUME NEW list \in Seq(Slots), NEW number \in 0 .. 2, NEW current \in Slots,
           NEW prev \in Slots, NEW id \in Nat, NEW a \in Accounts,
           NEW b, b = [num_prekeys |-> 0, current_prekey |-> Unset, prev_prekey |-> Unset,
                       next_prekey_id |-> 0, one_time_keys |-> list,
                       num_fallback_keys |-> number, current_fallback_key |-> current,
                       prev_fallback_key |-> prev, next_one_time_key_id |-> id]
    PROVE  /\ b \in Accounts /\ b.num_prekeys = 0 /\ b.one_time_keys = list
           /\ b.num_fallback_keys = number /\ b.current_fallback_key = current
           /\ b.prev_fallback_key = prev /\ b.next_one_time_key_id = id
<1>1. Unset \in Slots /\ 0 \in Nat /\ 0 \in 0 .. 2
    BY UnsetTyped
<1>2. b \in Accounts
    BY <1>1 DEF Accounts
<1>3. /\ b.num_prekeys = 0 /\ b.one_time_keys = list
      /\ b.num_fallback_keys = number /\ b.current_fallback_key = current
      /\ b.prev_fallback_key = prev /\ b.next_one_time_key_id = id
    OBVIOUS
<1> QED
    BY <1>2, <1>3

(* The pickle that each release wrote.                                     *)
LEMMA OldPickleOf ==
    ASSUME NEW a, AccountOk(a), NEW version \in {2, 3, 4}, NEW y \in Seq(Items),
           OldFallbackKeys(a, version) = y
    PROVE  OldItems(PickleAccountOld(a, version), version, a.one_time_keys,
                    Len(a.one_time_keys), y, Len(y), a.next_one_time_key_id)
<1> DEFINE p == PickleAccountOld(a, version)
<1>1. /\ a.one_time_keys \in Seq(Slots) /\ a.next_one_time_key_id \in Nat
      /\ version \in Nat
    BY AccountTyped DEF AccountOk
<1>2. p = Whole(((<<version, "identity_keys">> \o PickleList(a.one_time_keys)) \o y)
                \o <<a.next_one_time_key_id>>)
    BY DEF PickleAccountOld
<1> HIDE DEF p
<1>3. OldItems(p, version, a.one_time_keys, Len(a.one_time_keys), y, Len(y),
               a.next_one_time_key_id)
    BY <1>1, <1>2, OldPickle
<1> QED
    BY <1>3 DEF p

(* What the reader makes of it, once the fallback keys have been read.     *)
OldResult(p, a, number, current, prev) ==
    /\ UnpickleAccountError(p) = "OLM_SUCCESS"
    /\ UnpickleAccount(p) \in Accounts
    /\ UnpickleAccount(p).num_prekeys = 0
    /\ SameOneTimeKeys(UnpickleAccount(p), a)
    /\ UnpickleAccount(p).num_fallback_keys = number
    /\ UnpickleAccount(p).current_fallback_key = current
    /\ UnpickleAccount(p).prev_fallback_key = prev

LEMMA OldEnds ==
    ASSUME NEW p, NEW version \in {2, 3, 4}, NEW n \in Nat, NEW w \in Nat,
           Len(p.items) = 4 + n + w, p.partial = FALSE, p.items[1] = version,
           LastIdAt(p) = 4 + n + w
    PROVE  UnpickleAccountError(p) = "OLM_SUCCESS"
<1> DEFINE len == 4 + n + w
           one == 1
<1>1. len \in Nat /\ len >= 1 /\ Len(p.items) = len /\ LastIdAt(p) = len
    OBVIOUS
<1> HIDE DEF len
<1>2. Available(p, 1, 1)
    BY <1>1 DEF Available, End, NULL
<1>3. After(p, LastIdAt(p), 1) = len + 1
    BY <1>1 DEF After, Available, End, NULL
<1>4. UnpickleError(p, len + 1) = "OLM_SUCCESS"
    BY <1>1 DEF UnpickleError, End, NULL
<1>5. Version(p) # 1 /\ Version(p) \in {2, 3, 4, ACCOUNT_PICKLE_VERSION}
    BY DEF Version
<1> QED
    BY <1>2, <1>3, <1>4, <1>5 DEF UnpickleAccountError

(* How many fallback keys it reads, and where.                             *)
OldReading(p) ==
    CASE Version(p) <= 2 -> 0
      [] Version(p) = 3 -> 2
      [] OTHER -> NumFallbackKeys(p, FallbackKeysAt(p))
OldFirst(p) == IF Version(p) = 3 THEN FallbackKeysAt(p) ELSE FallbackKeysAt(p) + 1

LEMMA OldFields ==
    ASSUME NEW p, NEW a \in Accounts, NEW number \in 0 .. 2,
           NEW current \in Slots, NEW prev \in Slots,
           ~HasPrekeys(p), UnpickleAccountError(p) = "OLM_SUCCESS",
           ListAt(p, OneTimeKeysAt(p), MAX_ONE_TIME_KEYS) = a.one_time_keys,
           p.items[LastIdAt(p)] = a.next_one_time_key_id,
           NumFallbackKeys(p, FallbackKeysAt(p)) = number,
           current = IF OldReading(p) >= 1 THEN p.items[OldFirst(p)] ELSE Unset,
           prev = IF OldReading(p) >= 2 THEN p.items[OldFirst(p) + 1] ELSE Unset
    PROVE  OldResult(p, a, number, current, prev)
<1> DEFINE b == UnpickleAccount(p)
           prekeys == IF HasPrekeys(p) THEN p.items[3] ELSE 0
           next == IF HasPrekeys(p) THEN p.items[4 + prekeys] ELSE 0
           x == IF prekeys >= 1 THEN p.items[4] ELSE Unset
           y == IF prekeys >= 2 THEN p.items[5] ELSE Unset
           c == IF OldReading(p) >= 1 THEN p.items[OldFirst(p)] ELSE Unset
           d == IF OldReading(p) >= 2 THEN p.items[OldFirst(p) + 1] ELSE Unset
<1>1. b = [num_prekeys |-> prekeys, current_prekey |-> x, prev_prekey |-> y,
           next_prekey_id |-> next,
           one_time_keys |-> ListAt(p, OneTimeKeysAt(p), MAX_ONE_TIME_KEYS),
           num_fallback_keys |-> NumFallbackKeys(p, FallbackKeysAt(p)),
           current_fallback_key |-> c, prev_fallback_key |-> d,
           next_one_time_key_id |-> p.items[LastIdAt(p)]]
    BY Zenon DEF UnpickleAccount, OldReading, OldFirst
<1>2. prekeys = 0 /\ next = 0
    OBVIOUS
<1>3. x = Unset /\ y = Unset
    BY <1>2
<1> HIDE DEF b, prekeys, next, x, y
<1>4. b = [num_prekeys |-> 0, current_prekey |-> Unset, prev_prekey |-> Unset,
           next_prekey_id |-> 0, one_time_keys |-> a.one_time_keys,
           num_fallback_keys |-> number, current_fallback_key |-> current,
           prev_fallback_key |-> prev,
           next_one_time_key_id |-> a.next_one_time_key_id]
    BY <1>1, <1>2, <1>3
<1>5. a.one_time_keys \in Seq(Slots) /\ a.next_one_time_key_id \in Nat
    BY AccountTyped
<1>6. /\ b \in Accounts /\ b.num_prekeys = 0 /\ b.one_time_keys = a.one_time_keys
      /\ b.num_fallback_keys = number /\ b.current_fallback_key = current
      /\ b.prev_fallback_key = prev /\ b.next_one_time_key_id = a.next_one_time_key_id
    BY <1>4, <1>5, OldAccount
<1> QED
    BY <1>6 DEF OldResult, SameOneTimeKeys, b

LEMMA OldVersion2 ==
    ASSUME NEW a, AccountOk(a)
    PROVE  OldResult(PickleAccountOld(a, 2), a, 0, Unset, Unset)
<1> DEFINE version == 2
           n == Len(a.one_time_keys)
           w == 0
           e == a.next_one_time_key_id
           p == PickleAccountOld(a, version)
           y == << >>
<1>1. /\ version \in {2, 3, 4} /\ version = 2 /\ w = 0 /\ w \in Nat /\ y \in Seq(Items)
      /\ Len(y) = w /\ OldFallbackKeys(a, version) = y
    BY DEF OldFallbackKeys
<1>2. /\ a \in Accounts /\ a.one_time_keys \in Seq(Slots) /\ e \in Nat
      /\ n \in Nat /\ n <= MAX_ONE_TIME_KEYS
    BY AccountTyped, LenProperties DEF AccountOk, OneTimeKeysOk
<1> HIDE DEF version, y, w
<1>3. OldItems(p, version, a.one_time_keys, n, y, w, e)
    BY <1>1, OldPickleOf
<1> HIDE DEF p
<1>4. /\ FallbackKeysAt(p) = 4 + n
      /\ ListAt(p, OneTimeKeysAt(p), MAX_ONE_TIME_KEYS) = a.one_time_keys
      /\ ~HasPrekeys(p) /\ Version(p) = version
    BY <1>1, <1>2, <1>3, OldPlaces
<1> HIDE DEF n
<1>5. /\ Len(p.items) = 4 + n + w /\ p.partial = FALSE /\ p.items[1] = version
      /\ p.items[4 + n + w] = e
    BY <1>3 DEF OldItems
<1>6. LastIdAt(p) = 4 + n + w
    BY <1>1, <1>2, <1>4 DEF LastIdAt
<1>7. UnpickleAccountError(p) = "OLM_SUCCESS"
    BY <1>1, <1>2, <1>5, <1>6, OldEnds
<1>8. NumFallbackKeys(p, FallbackKeysAt(p)) = 0 /\ OldReading(p) = 0
    BY <1>1, <1>4 DEF NumFallbackKeys, OldReading
<1>9. p.items[LastIdAt(p)] = e
    BY <1>5, <1>6
<1>10. Unset \in Slots /\ 0 \in 0 .. 2
    BY UnsetTyped
<1>11. OldResult(p, a, 0, Unset, Unset)
    BY <1>2, <1>4, <1>7, <1>8, <1>9, <1>10, OldFields
<1> QED
    BY <1>11 DEF p, version

LEMMA OldVersion3 ==
    ASSUME NEW a, AccountOk(a)
    PROVE  OldResult(PickleAccountOld(a, 3), a, a.num_fallback_keys,
                [a.current_fallback_key EXCEPT !.published = a.num_fallback_keys >= 1],
                [a.prev_fallback_key EXCEPT !.published = a.num_fallback_keys >= 2])
<1> DEFINE version == 3
           n == Len(a.one_time_keys)
           nf == a.num_fallback_keys
           w == 2
           e == a.next_one_time_key_id
           p == PickleAccountOld(a, version)
           c == [a.current_fallback_key EXCEPT !.published = nf >= 1]
           d == [a.prev_fallback_key EXCEPT !.published = nf >= 2]
           y == <<c, d>>
<1>2. /\ a \in Accounts /\ a.one_time_keys \in Seq(Slots) /\ e \in Nat
      /\ n \in Nat /\ n <= MAX_ONE_TIME_KEYS /\ nf \in 0 .. 2
      /\ a.current_fallback_key \in Slots /\ a.prev_fallback_key \in Slots
    BY AccountTyped, LenProperties DEF AccountOk, OneTimeKeysOk
<1>c. /\ c \in Slots /\ d \in Slots
      /\ nf = 0 => c.published = FALSE
      /\ nf >= 1 => c.published = TRUE
      /\ nf = 1 => d.published = FALSE
      /\ nf = 2 => d.published = TRUE
    <2> DEFINE f == nf >= 1
               g == nf >= 2
    <2>1. f \in BOOLEAN /\ g \in BOOLEAN
        OBVIOUS
    <2> HIDE DEF f, g, nf
    <2>2. \A s \in Slots, t \in BOOLEAN :
             [s EXCEPT !.published = t] \in Slots /\ [s EXCEPT !.published = t].published = t
        BY DEF Slots
    <2>3. /\ [a.current_fallback_key EXCEPT !.published = f] \in Slots
          /\ [a.current_fallback_key EXCEPT !.published = f].published = f
          /\ [a.prev_fallback_key EXCEPT !.published = g] \in Slots
          /\ [a.prev_fallback_key EXCEPT !.published = g].published = g
        BY <1>2, <2>1, <2>2
    <2>4. /\ nf = 0 => f = FALSE
          /\ nf >= 1 => f = TRUE
          /\ nf = 1 => g = FALSE
          /\ nf = 2 => g = TRUE
        BY DEF f, g
    <2>5. c = [a.current_fallback_key EXCEPT !.published = f]
        BY DEF f
    <2>6. d = [a.prev_fallback_key EXCEPT !.published = g]
        BY DEF g
    <2> HIDE DEF c, d
    <2> QED
        BY <2>3, <2>4, <2>5, <2>6
<1>1. /\ version \in {2, 3, 4} /\ version = 3 /\ w = 2 /\ w \in Nat
      /\ OldFallbackKeys(a, version) = y
    BY DEF OldFallbackKeys
<1> HIDE DEF c, d
<1>y. y \in Seq(Items) /\ Len(y) = w /\ y[1] = c /\ y[2] = d
    <2>1. c \in Items /\ d \in Items
        BY <1>c DEF Items
    <2> QED
        BY <2>1
<1> HIDE DEF version, y, w
<1>3. OldItems(p, version, a.one_time_keys, n, y, w, e)
    BY <1>1, <1>y, OldPickleOf
<1> HIDE DEF p
<1>4. /\ FallbackKeysAt(p) = 4 + n
      /\ ListAt(p, OneTimeKeysAt(p), MAX_ONE_TIME_KEYS) = a.one_time_keys
      /\ ~HasPrekeys(p) /\ Version(p) = version
    BY <1>1, <1>2, <1>3, OldPlaces
<1> HIDE DEF n, nf
<1>5. /\ Len(p.items) = 4 + n + w /\ p.partial = FALSE /\ p.items[1] = version
      /\ p.items[4 + n + w] = e
    BY <1>3 DEF OldItems
<1>k. p.items[4 + n] = c /\ p.items[(4 + n) + 1] = d
    <2>1. \A k \in 1 .. w : p.items[3 + n + k] = y[k]
        BY <1>3 DEF OldItems
    <2>2. /\ 1 \in 1 .. w /\ 2 \in 1 .. w
          /\ 4 + n = 3 + n + 1 /\ (4 + n) + 1 = 3 + n + 2
        BY <1>1, <1>2
    <2> QED
        BY <1>y, <2>1, <2>2
<1>6. LastIdAt(p) = 4 + n + w
    <2> DEFINE at == 4 + n
               two == 2
               len == 4 + n + w
    <2>1. at \in Nat /\ at # 0 /\ two = 2 /\ len = at + 2
        BY <1>1, <1>2
    <2>2. LastIdAt(p) = After(p, at, two)
        BY <1>1, <1>4 DEF LastIdAt
    <2>3. Len(p.items) = len
        BY <1>5
    <2> HIDE DEF at, two, len
    <2>4. ReadTo(p, len, at, two)
        BY <2>3, ReadOn
    <2>5. LastIdAt(p) = len
        BY <2>1, <2>2, <2>4 DEF ReadTo
    <2> QED
        BY <2>5 DEF len
<1>7. UnpickleAccountError(p) = "OLM_SUCCESS"
    BY <1>1, <1>2, <1>5, <1>6, OldEnds
<1>8. NumFallbackKeys(p, FallbackKeysAt(p)) = nf /\ OldReading(p) = 2 /\ OldFirst(p) = 4 + n
    <2>1. OldReading(p) = 2 /\ OldFirst(p) = 4 + n
        BY <1>1, <1>4 DEF OldReading, OldFirst
    <2>2. NumFallbackKeys(p, FallbackKeysAt(p)) =
            IF ~c.published THEN 0 ELSE IF d.published THEN 2 ELSE 1
        BY <1>1, <1>4, <1>k DEF NumFallbackKeys
    <2> QED
        BY <1>2, <1>c, <2>1, <2>2
<1>9. p.items[LastIdAt(p)] = e
    BY <1>5, <1>6
<1>10. /\ c = IF OldReading(p) >= 1 THEN p.items[OldFirst(p)] ELSE Unset
       /\ d = IF OldReading(p) >= 2 THEN p.items[OldFirst(p) + 1] ELSE Unset
    BY <1>8, <1>k
<1>11. OldResult(p, a, nf, c, d)
    <2>1. /\ a \in Accounts /\ ~HasPrekeys(p)
          /\ nf \in 0 .. 2 /\ c \in Slots /\ d \in Slots
          /\ ListAt(p, OneTimeKeysAt(p), MAX_ONE_TIME_KEYS) = a.one_time_keys
          /\ NumFallbackKeys(p, FallbackKeysAt(p)) = nf
        BY <1>2, <1>c, <1>4, <1>8
    <2> QED
        BY <1>7, <1>9, <1>10, <2>1, OldFields
<1> QED
    BY <1>11 DEF p, version, nf, c, d

LEMMA OldVersion4 ==
    ASSUME NEW a, AccountOk(a)
    PROVE  OldResult(PickleAccountOld(a, 4), a, a.num_fallback_keys,
                IF a.num_fallback_keys >= 1 THEN a.current_fallback_key ELSE Unset,
                IF a.num_fallback_keys >= 2 THEN a.prev_fallback_key ELSE Unset)
<1> DEFINE version == 4
           n == Len(a.one_time_keys)
           nf == a.num_fallback_keys
           w == 1 + nf
           e == a.next_one_time_key_id
           p == PickleAccountOld(a, version)
           c == IF a.num_fallback_keys >= 1 THEN a.current_fallback_key ELSE Unset
           d == IF a.num_fallback_keys >= 2 THEN a.prev_fallback_key ELSE Unset
           y == Counted(nf, a.current_fallback_key, a.prev_fallback_key)
<1>2. /\ a \in Accounts /\ a.one_time_keys \in Seq(Slots) /\ e \in Nat
      /\ n \in Nat /\ n <= MAX_ONE_TIME_KEYS /\ nf \in 0 .. 2 /\ nf \in Nat
      /\ a.current_fallback_key \in Slots /\ a.prev_fallback_key \in Slots
    BY AccountTyped, LenProperties DEF AccountOk, OneTimeKeysOk
<1>c. c \in Slots /\ d \in Slots
    BY <1>2, UnsetTyped
<1>1. /\ version \in {2, 3, 4} /\ version = 4 /\ w = 1 + nf /\ w \in Nat
      /\ OldFallbackKeys(a, version) = y
    BY <1>2 DEF OldFallbackKeys
<1> HIDE DEF version, y, nf
<1>y. CountedItems(y, nf, a.current_fallback_key, a.prev_fallback_key, Items)
    <2>1. nf \in Items /\ a.current_fallback_key \in Items /\ a.prev_fallback_key \in Items
        BY <1>2 DEF Items
    <2> QED
        BY <1>2, <2>1, CountedFacts DEF y
<1> HIDE DEF w
<1>3. OldItems(p, version, a.one_time_keys, n, y, w, e)
    <2>1. y \in Seq(Items) /\ Len(y) = w
        BY <1>1, <1>y DEF CountedItems
    <2> QED
        BY <1>1, <2>1, OldPickleOf
<1> HIDE DEF p
<1>4. /\ FallbackKeysAt(p) = 4 + n
      /\ ListAt(p, OneTimeKeysAt(p), MAX_ONE_TIME_KEYS) = a.one_time_keys
      /\ ~HasPrekeys(p) /\ Version(p) = version
    BY <1>1, <1>2, <1>3, OldPlaces
<1> HIDE DEF n
<1>5. /\ Len(p.items) = 4 + n + w /\ p.partial = FALSE /\ p.items[1] = version
      /\ p.items[4 + n + w] = e
    BY <1>3 DEF OldItems
<1>k. /\ p.items[4 + n] = nf
      /\ nf >= 1 => p.items[(4 + n) + 1] = a.current_fallback_key
      /\ nf >= 2 => p.items[((4 + n) + 1) + 1] = a.prev_fallback_key
    <2>1. \A k \in 1 .. w : p.items[3 + n + k] = y[k]
        BY <1>3 DEF OldItems
    <2>2. /\ 1 \in 1 .. w
          /\ nf >= 1 => 2 \in 1 .. w
          /\ nf >= 2 => 3 \in 1 .. w
          /\ 4 + n = 3 + n + 1 /\ (4 + n) + 1 = 3 + n + 2
          /\ ((4 + n) + 1) + 1 = 3 + n + 3
        BY <1>1, <1>2
    <2>3. /\ y[1] = nf
          /\ nf >= 1 => y[2] = a.current_fallback_key
          /\ nf >= 2 => y[3] = a.prev_fallback_key
        BY <1>y DEF CountedItems
    <2>4. /\ p.items[3 + n + 1] = y[1]
          /\ nf >= 1 => p.items[3 + n + 2] = y[2]
          /\ nf >= 2 => p.items[3 + n + 3] = y[3]
        BY <2>1, <2>2
    <2> HIDE DEF c, d
    <2> QED
        BY <2>2, <2>3, <2>4
<1>6. LastIdAt(p) = 4 + n + w
    <2> DEFINE at == (4 + n) + 1
               len == 4 + n + w
    <2>1. at \in Nat /\ at # 0 /\ len = at + nf
        BY <1>1, <1>2
    <2>2. Len(p.items) = len
        BY <1>5
    <2>3. Available(p, 4 + n, 1) /\ ~(p.items[4 + n] >= 3)
        <3>1. 4 + n # 0 /\ (4 + n) + 1 <= len + 1 /\ ~(nf >= 3)
            BY <1>1, <1>2
        <3> HIDE DEF len
        <3> QED
            BY <1>k, <2>2, <3>1 DEF Available, End, NULL
    <2>4. LastIdAt(p) = AfterCounted(p, 4 + n)
        BY <1>1, <1>4 DEF LastIdAt
    <2>5. LastIdAt(p) = After(p, at, nf)
        BY <1>k, <2>3, <2>4 DEF AfterCounted
    <2> HIDE DEF at, len
    <2>6. ReadTo(p, len, at, nf)
        BY <2>2, ReadOn
    <2>7. LastIdAt(p) = len
        BY <2>1, <2>5, <2>6 DEF ReadTo
    <2> QED
        BY <2>7 DEF len
<1>7. UnpickleAccountError(p) = "OLM_SUCCESS"
    BY <1>1, <1>2, <1>5, <1>6, OldEnds
<1>8. /\ NumFallbackKeys(p, FallbackKeysAt(p)) = nf /\ OldReading(p) = nf
      /\ OldFirst(p) = (4 + n) + 1
    BY <1>1, <1>4, <1>k DEF NumFallbackKeys, OldReading, OldFirst
<1>9. p.items[LastIdAt(p)] = e
    BY <1>5, <1>6
<1>10. /\ c = IF OldReading(p) >= 1 THEN p.items[OldFirst(p)] ELSE Unset
       /\ d = IF OldReading(p) >= 2 THEN p.items[OldFirst(p) + 1] ELSE Unset
    BY <1>2, <1>8, <1>k DEF nf
<1> HIDE DEF c, d
<1>11. OldResult(p, a, nf, c, d)
    <2>1. /\ a \in Accounts /\ ~HasPrekeys(p)
          /\ nf \in 0 .. 2 /\ c \in Slots /\ d \in Slots
          /\ ListAt(p, OneTimeKeysAt(p), MAX_ONE_TIME_KEYS) = a.one_time_keys
          /\ NumFallbackKeys(p, FallbackKeysAt(p)) = nf
        BY <1>2, <1>c, <1>4, <1>8
    <2> QED
        BY <1>7, <1>9, <1>10, <2>1, OldFields
<1> QED
    BY <1>11 DEF p, version, nf, c, d

LEMMA OldServes ==
    ASSUME NEW a, AccountOk(a), NEW b \in Accounts, b.num_prekeys = 0, SameOneTimeKeys(b, a),
           b.num_fallback_keys # 0 =>
               b.current_fallback_key.key = a.current_fallback_key.key,
           b.num_fallback_keys \in {0, a.num_fallback_keys}
    PROVE  LET upgraded == GeneratePrekey(b) IN
           /\ NoKey \notin UnpublishedKeys(upgraded)
           /\ upgraded.current_prekey.key \in UnpublishedKeys(upgraded)
           /\ ForgetOldPrekey(upgraded) = upgraded
<1>1. PICK u : u = GeneratePrekey(b)
    OBVIOUS
<1>2. /\ u \in Accounts /\ SameOneTimeKeys(u, b) /\ SameFallbackKeys(u, b)
      /\ u.num_prekeys = 1
      /\ u.current_prekey.key.kind = "prekey" /\ ~u.current_prekey.published
    BY <1>1, GeneratePrekeyFields
<1>3. /\ u.one_time_keys = a.one_time_keys
      /\ \A i \in 1 .. Len(u.one_time_keys) : u.one_time_keys[i].key.kind = "one_time"
    BY <1>2 DEF SameOneTimeKeys, AccountOk, OneTimeKeysOk
<1>4. u.num_fallback_keys >= 1 => u.current_fallback_key.key.kind = "fallback"
    <2>1. u.num_fallback_keys \in {0, a.num_fallback_keys}
        BY <1>2 DEF SameFallbackKeys
    <2>2. u.num_fallback_keys # 0 => u.current_fallback_key.key = a.current_fallback_key.key
        BY <1>2 DEF SameFallbackKeys
    <2>3. a.num_fallback_keys # 0 => a.current_fallback_key.key.kind = "fallback"
        BY DEF AccountOk, FallbackKeysOk
    <2> QED
        BY <2>1, <2>2, <2>3
<1>5. \A key \in UnpublishedKeys(u) : key.kind \in {"one_time", "fallback", "prekey"}
    BY <1>2, <1>3, <1>4 DEF UnpublishedKeys
<1>6. NoKey \notin UnpublishedKeys(u)
    BY <1>5, UnsetTyped
<1>7. u.current_prekey.key \in UnpublishedKeys(u)
    BY <1>2 DEF UnpublishedKeys
<1>8. ForgetOldPrekey(u) = u
    BY <1>2 DEF ForgetOldPrekey
<1> QED
    BY <1>1, <1>6, <1>7, <1>8

(* An account that an earlier release stored is read, has the keys that    *)
(* were stored, and can be used once it has made a pre-key.                *)
OldServed(a, version) ==
    LET pickle == PickleAccountOld(a, version)
        b == UnpickleAccount(pickle)
        upgraded == GeneratePrekey(b)
    IN  /\ UnpickleAccountError(pickle) = "OLM_SUCCESS"
        /\ b.one_time_keys = a.one_time_keys
        /\ b.next_one_time_key_id = a.next_one_time_key_id
        /\ version >= 3 => \A key \in {a.current_fallback_key.key,
                                       a.prev_fallback_key.key} \ {NoKey} :
                              KnowsKey(b, key)
        /\ NoKey \notin UnpublishedKeys(upgraded)
        /\ upgraded.current_prekey.key \in UnpublishedKeys(upgraded)
        /\ ForgetOldPrekey(upgraded) = upgraded

LEMMA OldAccountServed ==
    ASSUME NEW a, AccountOk(a), NEW version \in {2, 3, 4}
    PROVE  OldServed(a, version)
<1> DEFINE p == PickleAccountOld(a, version)
           b == UnpickleAccount(p)
           nf == a.num_fallback_keys
<1>1. /\ a \in Accounts /\ nf \in 0 .. 2
      /\ a.current_fallback_key \in Slots /\ a.prev_fallback_key \in Slots
    BY AccountTyped DEF AccountOk
<1>2. \A s \in Slots : \A t : [s EXCEPT !.published = t].key = s.key
    BY DEF Slots
<1>3. /\ UnpickleAccountError(p) = "OLM_SUCCESS" /\ b \in Accounts /\ b.num_prekeys = 0
      /\ SameOneTimeKeys(b, a)
      /\ b.num_fallback_keys = IF version = 2 THEN 0 ELSE nf
      /\ version # 2 /\ nf >= 1 =>
            b.current_fallback_key.key = a.current_fallback_key.key
      /\ version # 2 /\ nf >= 2 =>
            b.prev_fallback_key.key = a.prev_fallback_key.key
    <2>1. CASE version = 2
        BY <2>1, OldVersion2 DEF OldResult
    <2>2. CASE version = 3
        <3> DEFINE c == [a.current_fallback_key EXCEPT !.published = nf >= 1]
                   d == [a.prev_fallback_key EXCEPT !.published = nf >= 2]
        <3>1. c.key = a.current_fallback_key.key /\ d.key = a.prev_fallback_key.key
            BY <1>1, <1>2
        <3>2. OldResult(p, a, nf, c, d)
            BY <2>2, OldVersion3
        <3> HIDE DEF c, d, p
        <3> QED
            BY <2>2, <3>1, <3>2 DEF OldResult
    <2>3. CASE version = 4
        <3> DEFINE c == IF nf >= 1 THEN a.current_fallback_key ELSE Unset
                   d == IF nf >= 2 THEN a.prev_fallback_key ELSE Unset
        <3>1. OldResult(p, a, nf, c, d)
            BY <2>3, OldVersion4
        <3> HIDE DEF p
        <3> QED
            BY <2>3, <3>1 DEF OldResult
    <2> QED
        BY <2>1, <2>2, <2>3
<1>4. ASSUME version >= 3,
             NEW key \in {a.current_fallback_key.key, a.prev_fallback_key.key} \ {NoKey}
      PROVE  KnowsKey(b, key)
    <2>1. b.num_fallback_keys = nf
        BY <1>3, <1>4
    <2>2. \/ nf >= 1 /\ key = a.current_fallback_key.key
          \/ nf = 2 /\ key = a.prev_fallback_key.key
        BY <1>1, <1>4 DEF AccountOk, FallbackKeysOk
    <2> HIDE DEF b, nf
    <2>3. CASE nf >= 1 /\ key = a.current_fallback_key.key
        <3>1. b.num_fallback_keys >= 1 /\ b.current_fallback_key.key = key
            BY <1>3, <1>4, <2>1, <2>3
        <3> QED
            BY <3>1 DEF KnowsKey
    <2>4. CASE nf = 2 /\ key = a.prev_fallback_key.key
        <3>1. b.num_fallback_keys >= 2 /\ b.prev_fallback_key.key = key
            BY <1>3, <1>4, <2>1, <2>4
        <3> QED
            BY <3>1 DEF KnowsKey
    <2> QED
        BY <2>2, <2>3, <2>4
<1>5. /\ b.num_fallback_keys # 0 =>
            b.current_fallback_key.key = a.current_fallback_key.key
      /\ b.num_fallback_keys \in {0, a.num_fallback_keys}
    BY <1>1, <1>3
<1> HIDE DEF b
<1>6. LET upgraded == GeneratePrekey(b) IN
      /\ NoKey \notin UnpublishedKeys(upgraded)
      /\ upgraded.current_prekey.key \in UnpublishedKeys(upgraded)
      /\ ForgetOldPrekey(upgraded) = upgraded
    BY <1>3, <1>5, OldServes
<1> HIDE DEF p, nf
<1> QED
    BY <1>3, <1>4, <1>6 DEF OldServed, SameOneTimeKeys, b, p

-----------------------------------------------------------------------------
(* What is in use of an account serves as well as all of it.               *)
LEMMA InUseOk ==
    ASSUME NEW a, AccountOk(a)
    PROVE  /\ AccountOk(InUse(a)) /\ UnpublishedKeys(InUse(a)) = UnpublishedKeys(a)
           /\ \A sessions : Succeeds(InUse(a), a, sessions)
<1>1. PICK b : b = InUse(a)
    OBVIOUS
<1>2. a \in Accounts /\ a.num_fallback_keys \in 0 .. 2 /\ a.next_one_time_key_id \in Nat
    BY AccountTyped DEF AccountOk
<1>3. /\ b \in Accounts /\ SameOneTimeKeys(b, a) /\ SamePrekeys(b, a)
      /\ b.num_fallback_keys = a.num_fallback_keys
      /\ b.current_fallback_key =
            IF a.num_fallback_keys >= 1 THEN a.current_fallback_key ELSE Unset
      /\ b.prev_fallback_key =
            IF a.num_fallback_keys >= 2 THEN a.prev_fallback_key ELSE Unset
    BY <1>1, <1>2, InUseFields
<1>4. FallbackIds(b) \subseteq FallbackIds(a) \cup {0}
    BY <1>3, UnsetTyped DEF FallbackIds
<1>5. OneTimeKeysOk(b)
    <2>1. b.one_time_keys = a.one_time_keys /\ b.next_one_time_key_id = a.next_one_time_key_id
        BY <1>3 DEF SameOneTimeKeys
    <2>2. \A i \in 1 .. Len(a.one_time_keys) :
             /\ a.one_time_keys[i].key.kind = "one_time"
             /\ a.one_time_keys[i].key.id \in 1 .. a.next_one_time_key_id
             /\ a.one_time_keys[i].key.id \notin FallbackIds(b)
        BY <1>2, <1>4 DEF AccountOk, OneTimeKeysOk
    <2> QED
        BY <2>1, <2>2 DEF AccountOk, OneTimeKeysOk
<1>6. FallbackKeysOk(b)
    <2>1. FallbackIds(b) \subseteq 0 .. b.next_one_time_key_id
        BY <1>2, <1>3, <1>4 DEF AccountOk, FallbackKeysOk, SameOneTimeKeys
    <2> QED
        BY <1>2, <1>3, <2>1, UnsetTyped DEF AccountOk, FallbackKeysOk
<1>7. PrekeysOk(b)
    BY <1>3 DEF AccountOk, PrekeysOk, SamePrekeys
<1>8. AccountOk(b)
    BY <1>3, <1>5, <1>6, <1>7 DEF AccountOk
<1>9. UnpublishedKeys(b) = UnpublishedKeys(a)
    BY <1>3 DEF UnpublishedKeys, SameOneTimeKeys, SamePrekeys
<1>10. Follows(b, a)
    BY <1>2, <1>3, <1>4 DEF Follows, SameOneTimeKeys
<1>11. \A key : HasOneTimeKey(b, key) <=> HasOneTimeKey(a, key)
    BY <1>3 DEF HasOneTimeKey, SameOneTimeKeys
<1>12. \A sessions : Succeeds(b, a, sessions)
    BY <1>8, <1>10, <1>11 DEF Succeeds
<1> QED
    BY <1>1, <1>8, <1>9, <1>12

LEMMA InUseServes ==
    ASSUME NEW a, NEW keys, NEW srv, NEW out, NEW sessions,
           Serves(a, keys, srv, out, sessions)
    PROVE  Serves(InUse(a), keys, srv, out, sessions)
<1>1. PICK b : b = InUse(a)
    OBVIOUS
<1>2. AccountOk(a) /\ a \in Accounts /\ a.num_fallback_keys \in 0 .. 2
    BY AccountTyped DEF Serves, AccountOk
<1>3. /\ SameOneTimeKeys(b, a) /\ SamePrekeys(b, a)
      /\ b.num_fallback_keys = a.num_fallback_keys
      /\ a.num_fallback_keys >= 1 => b.current_fallback_key = a.current_fallback_key
      /\ a.num_fallback_keys >= 2 => b.prev_fallback_key = a.prev_fallback_key
    BY <1>1, <1>2, InUseFields
<1>4. Succeeds(b, a, sessions) /\ UnpublishedKeys(b) = UnpublishedKeys(a)
    BY <1>1, <1>2, InUseOk
<1>5. UploadOk(b, keys)
    BY <1>3, <1>4 DEF Serves, UploadOk, SamePrekeys
<1>6. PrekeyServed(b, srv.prekey)
    BY <1>3 DEF Serves, ServerOk, PrekeyServed, SamePrekeys
<1>7. FallbackServed(b, srv.fallback)
    BY <1>3 DEF Serves, ServerOk, FallbackServed
<1>8. PublishedOk(b, srv)
    <2>1. PublishedOk(a, srv)
        BY DEF Serves
    <2>2. \A i \in 1 .. Len(b.one_time_keys) :
             b.one_time_keys[i].published
             => b.one_time_keys[i].key \in srv.one_time \cup srv.claimed
        BY <1>3, <2>1 DEF PublishedOk, SameOneTimeKeys
    <2>3. b.current_fallback_key.published /\ b.num_fallback_keys > 0
             => b.current_fallback_key.key = srv.fallback
        BY <1>2, <1>3, <2>1 DEF PublishedOk
    <2>4. b.current_prekey.published => b.current_prekey.key = srv.prekey
        BY <1>3, <2>1 DEF PublishedOk, SamePrekeys
    <2> QED
        BY <2>2, <2>3, <2>4 DEF PublishedOk
<1>9. \A key : KnowsPrekey(a, key) => KnowsPrekey(b, key)
    BY <1>3 DEF KnowsPrekey, SamePrekeys
<1>10. \A key : KnowsKey(a, key) => KnowsKey(b, key)
    BY <1>2, <1>3 DEF KnowsKey, HasOneTimeKey, SameOneTimeKeys
<1>11. AwaitedOk(b, out, sessions)
    BY <1>9, <1>10 DEF Serves, AwaitedOk
<1>12. Serves(b, keys, srv, out, sessions)
    BY <1>4, <1>5, <1>6, <1>7, <1>8, <1>11, ServesStill
<1> QED
    BY <1>1, <1>12

(* An upload that is given up asks nothing more of the account.            *)
LEMMA NothingUploading ==
    ASSUME NEW a, NEW keys, NEW srv, NEW out, NEW sessions, NEW none,
           Serves(a, keys, srv, out, sessions), none = {}
    PROVE  Serves(a, none, srv, out, sessions)
<1>1. UploadOk(a, none)
    BY DEF UploadOk
<1>2. ServerOk(a, none, srv, sessions)
    BY DEF Serves, ServerOk
<1> QED
    BY <1>1, <1>2 DEF Serves

-----------------------------------------------------------------------------
(* Restarts.                                                               *)

(* What is stored serves as well as what is in memory, and the sessions    *)
(* that are stored are the first of those in memory.                       *)
StoredSessions == {stored_inbound[i] : i \in 1 .. Len(stored_inbound)}

StoredOk ==
    /\ Serves(RestoredAccount, uploading, server, outbound, StoredSessions)
    /\ stored_inbound \in Seq(StoredSessions)
    /\ Len(stored_inbound) <= Len(inbound)
    /\ \A i \in 1 .. Len(stored_inbound) : stored_inbound[i] = inbound[i]

RInv == IInv /\ StoredOk

LEMMA StoredFirst ==
    ASSUME InboundOk, StoredOk
    PROVE  /\ StoredSessions \subseteq Inbound
           /\ Len(stored_inbound) \in Nat /\ Len(inbound) \in Nat
<1>1. Len(stored_inbound) \in Nat /\ Len(inbound) \in Nat
    BY LenProperties DEF InboundOk, StoredOk
<1>2. \A i \in 1 .. Len(stored_inbound) :
         i \in 1 .. Len(inbound) /\ stored_inbound[i] = inbound[i]
    BY <1>1 DEF StoredOk
<1> QED
    BY <1>1, <1>2 DEF StoredSessions, Inbound

LEMMA StoredStays ==
    ASSUME StoredOk, UNCHANGED <<stored_account, stored_inbound, inbound>>,
           Serves(RestoredAccount, uploading', server', outbound', StoredSessions)
    PROVE  StoredOk'
<1>1. RestoredAccount' = RestoredAccount /\ StoredSessions' = StoredSessions
    BY DEF RestoredAccount, StoredSessions
<1> QED
    BY <1>1 DEF StoredOk

LEMMA RestartInit == RInit => RInv
<1> SUFFICES ASSUME RInit PROVE RInv
    OBVIOUS
<1>1. IInv /\ AccountOk(account)
    BY InitOk DEF RInit, IInv, Serves
<1>2. RestoredAccount = InUse(account)
    BY <1>1, AccountReadBack DEF RInit, RestoredAccount
<1>3. /\ stored_inbound = inbound /\ Len(stored_inbound) = 0 /\ Len(inbound) = 0
      /\ stored_inbound \in Seq(StoredSessions)
    BY DEF RInit, Init
<1>4. StoredSessions = Inbound
    BY <1>3 DEF StoredSessions, Inbound
<1>5. Serves(RestoredAccount, uploading, server, outbound, StoredSessions)
    BY <1>1, <1>2, <1>4, InUseServes DEF IInv
<1>6. StoredOk
    BY <1>3, <1>5 DEF StoredOk
<1> QED
    BY <1>1, <1>6 DEF RInv

(* What happens to the server and the initiators happens to the stored     *)
(* account as well.                                                        *)
LEMMA MemoryStep == ASSUME InMemory PROVE [Next]_vars
BY DEF InMemory, Next

LEMMA InMemoryStored ==
    ASSUME RInv, InMemory, UNCHANGED stored
    PROVE  StoredOk'
<1> DEFINE Now == Serves(RestoredAccount, uploading, server, outbound, StoredSessions)
<1>1. StoredOk /\ Now /\ UNCHANGED <<stored_account, stored_inbound>>
    BY DEF RInv, StoredOk, stored
<1>2. CASE Maintain
    BY <1>1, <1>2, StoredStays DEF Maintain
<1>3. ASSUME NEW answered \in BOOLEAN, EndUpload(answered) PROVE StoredOk'
    <2>1. /\ uploading # {} /\ uploading' = {} /\ server' = Taken(server, uploading)
          /\ UNCHANGED <<outbound, inbound>>
        BY <1>3 DEF EndUpload, Taken
    <2>2. Serves(RestoredAccount, uploading', server', outbound', StoredSessions)
        BY <1>1, <2>1, EndUploadServes
    <2> QED
        BY <1>1, <2>1, <2>2, StoredStays
<1>4. ASSUME NEW i \in Initiators, NewOutboundSession(i, TRUE) PROVE StoredOk'
    <2>1. /\ server.prekey # NoKey /\ UNCHANGED <<uploading, inbound>>
          /\ \E one_time \in Claimable(server) : \E session :
                /\ session.one_time = one_time /\ session.prekey = server.prekey
                /\ server' = Claimed(server, one_time)
                /\ outbound' = outbound \cup {session}
        <3> DEFINE n == Cardinality(outbound) + 1
                   Session(one_time) ==
                      [origin |-> n, identity |-> Identity(i), base |-> Key("base", n),
                       one_time |-> one_time, prekey |-> server.prekey,
                       secret |-> OutboundSecret(Identity(i), Key("base", n), one_time,
                                                 server.prekey)]
        <3>1. /\ server.prekey # NoKey /\ UNCHANGED <<uploading, inbound>>
              /\ \E one_time \in Claimable(server) :
                    /\ server' = Claimed(server, one_time)
                    /\ outbound' = outbound \cup {Session(one_time)}
            BY <1>4 DEF NewOutboundSession, Claimable, Claimed
        <3>2. \A one_time : /\ Session(one_time).one_time = one_time
                            /\ Session(one_time).prekey = server.prekey
            OBVIOUS
        <3> HIDE DEF Session
        <3> QED
            BY <3>1, <3>2
    <2>2. PICK one_time \in Claimable(server) : \E session :
                /\ session.one_time = one_time /\ session.prekey = server.prekey
                /\ server' = Claimed(server, one_time)
                /\ outbound' = outbound \cup {session}
        BY <2>1
    <2>3. PICK session :
                /\ session.one_time = one_time /\ session.prekey = server.prekey
                /\ server' = Claimed(server, one_time)
                /\ outbound' = outbound \cup {session}
        BY <2>2
    <2>4. outbound' \subseteq outbound \cup {session}
        BY <2>3
    <2>5. Serves(RestoredAccount, uploading, Claimed(server, one_time), outbound',
                 StoredSessions)
        BY <1>1, <2>1, <2>3, <2>4, ClaimServes
    <2>6. Serves(RestoredAccount, uploading', server', outbound', StoredSessions)
        BY <2>1, <2>3, <2>5
    <2> QED
        BY <1>1, <2>1, <2>6, StoredStays
<1>5. ASSUME NEW s \in outbound, NEW message \in PreKeyMessages(s),
             NewInboundSession(s, message, NoKey)
      PROVE  StoredOk'
    BY <1>1, <1>5, StoredStays DEF NewInboundSession
<1>6. CASE DecryptFirst
    <2>1. PICK p \in pending :
             /\ inbound' = IF p.session.secret = p.secret THEN Append(inbound, p.session)
                           ELSE inbound
             /\ UNCHANGED <<uploading, server, outbound>>
        BY <1>6 DEF DecryptFirst
    <2>2. InboundOk /\ Len(inbound) \in Nat /\ Len(stored_inbound) \in Nat
        BY StoredFirst DEF RInv, IInv
    <2>3. /\ Len(inbound') >= Len(inbound)
          /\ \A i \in 1 .. Len(inbound) : inbound'[i] = inbound[i]
          /\ Len(inbound') \in Nat
        <3>1. CASE inbound' = inbound
            BY <2>2, <3>1
        <3>2. CASE inbound' = Append(inbound, p.session)
            BY <2>2, <3>2, InboundGrows
        <3> QED
            BY <2>1, <3>1, <3>2
    <2>4. RestoredAccount' = RestoredAccount /\ StoredSessions' = StoredSessions
        BY <1>1 DEF RestoredAccount, StoredSessions
    <2>5. /\ Len(stored_inbound) <= Len(inbound')
          /\ \A i \in 1 .. Len(stored_inbound) : stored_inbound[i] = inbound'[i]
        BY <1>1, <2>2, <2>3 DEF StoredOk
    <2> QED
        BY <1>1, <2>1, <2>4, <2>5 DEF StoredOk
<1>7. ASSUME NEW session \in Inbound, RemoveOneTimeKeys(session) PROVE StoredOk'
    BY <1>1, <1>7, StoredStays DEF RemoveOneTimeKeys
<1> QED
    BY <1>2, <1>3, <1>4, <1>5, <1>6, <1>7 DEF InMemory

LEMMA UploadSavedStored ==
    ASSUME RInv, UploadSaved
    PROVE  StoredOk'
<1>1. /\ uploading' = UnpublishedKeys(account) /\ RestoredAccount = InUse(account)
      /\ UNCHANGED <<server, outbound, inbound, stored_account, stored_inbound>>
    BY DEF UploadSaved, BeginUpload, stored
<1>2. uploading' = UnpublishedKeys(RestoredAccount)
    BY <1>1, InUseOk DEF RInv, IInv, Serves
<1>3. Serves(RestoredAccount, uploading', server, outbound, StoredSessions)
    BY <1>2, BeginUploadServes DEF RInv, StoredOk
<1> QED
    BY <1>1, <1>3, StoredStays DEF RInv

LEMMA SaveSessionsStored ==
    ASSUME RInv, SaveSessions
    PROVE  StoredOk'
<1>1. stored_inbound' = inbound /\ stored_account' = stored_account /\ UNCHANGED vars
    BY DEF SaveSessions
<1>2. /\ UNCHANGED <<uploading, server, outbound, inbound>>
      /\ RestoredAccount' = RestoredAccount /\ StoredSessions' = Inbound
    BY <1>1 DEF vars, RestoredAccount, StoredSessions, Inbound
<1>3. Serves(RestoredAccount, uploading, server, outbound, Inbound)
    BY StoredFirst, SessionsGrow DEF RInv, IInv, StoredOk
<1>4. inbound \in Seq(Inbound) /\ Len(inbound) \in Nat
    BY StoredFirst DEF RInv, IInv, InboundOk
<1> QED
    BY <1>1, <1>2, <1>3, <1>4 DEF StoredOk

LEMMA SaveAccountStored ==
    ASSUME RInv, SaveAccount
    PROVE  StoredOk'
<1>1. /\ stored_inbound = inbound /\ stored_inbound' = inbound /\ UNCHANGED vars
      /\ stored_account' = PickleAccount(account)
    BY DEF SaveAccount
<1>2. /\ UNCHANGED <<uploading, server, outbound, inbound>> /\ StoredSessions' = Inbound
    BY <1>1 DEF vars, StoredSessions, Inbound
<1>3. RestoredAccount' = InUse(account)
    BY <1>1, AccountReadBack DEF RInv, IInv, Serves, RestoredAccount
<1>4. Serves(InUse(account), uploading, server, outbound, Inbound)
    BY InUseServes DEF RInv, IInv
<1>5. inbound \in Seq(Inbound) /\ Len(inbound) \in Nat
    BY StoredFirst DEF RInv, IInv, InboundOk
<1> QED
    BY <1>1, <1>2, <1>3, <1>4, <1>5 DEF StoredOk

LEMMA RestartKeeps ==
    ASSUME RInv, Restart
    PROVE  RInv'
<1>1. /\ account' = RestoredAccount /\ inbound' = stored_inbound
      /\ pending' = {} /\ uploading' = {} /\ removed' = {}
      /\ UNCHANGED <<server, outbound, stored_account, stored_inbound>>
    BY DEF Restart, stored
<1>2. /\ RestoredAccount' = RestoredAccount /\ StoredSessions' = StoredSessions
      /\ Inbound' = StoredSessions
    BY <1>1 DEF RestoredAccount, StoredSessions, Inbound
<1>3. Serves(RestoredAccount, uploading', server, outbound, StoredSessions)
    BY <1>1, NothingUploading DEF RInv, StoredOk
<1>4. StoredSessions \subseteq Inbound /\ Len(stored_inbound) \in Nat
    BY StoredFirst DEF RInv, IInv
<1>5. InboundOk'
    BY <1>1, <1>2, <1>4 DEF RInv, IInv, InboundOk, StoredOk
<1>6. OutboundOk' /\ RemovedOk'
    BY <1>1 DEF RInv, IInv, OutboundOk, OutboundSession, RemovedOk
<1>7. IInv'
    BY <1>1, <1>2, <1>3, <1>5, <1>6 DEF IInv
<1>8. StoredOk'
    BY <1>1, <1>2, <1>3, <1>4 DEF RInv, StoredOk
<1> QED
    BY <1>7, <1>8 DEF RInv

LEMMA RestartStep == RInv /\ [RNext]_rvars => RInv'
<1> SUFFICES ASSUME RInv, [RNext]_rvars PROVE RInv'
    OBVIOUS
<1>1. CASE UNCHANGED rvars
    <2>1. UNCHANGED vars /\ UNCHANGED <<stored_account, stored_inbound>>
        BY <1>1 DEF rvars
    <2>2. UNCHANGED <<uploading, server, outbound, inbound>>
        BY <2>1 DEF vars
    <2>3. IInv'
        BY <2>1, StepOk DEF RInv
    <2>4. StoredOk'
        BY <2>1, <2>2, StoredStays DEF RInv, StoredOk
    <2> QED
        BY <2>3, <2>4 DEF RInv
<1>2. CASE InMemory /\ UNCHANGED stored
    BY <1>2, MemoryStep, StepOk, InMemoryStored DEF RInv
<1>3. CASE UploadSaved
    <2>1. [Next]_vars
        BY <1>3 DEF UploadSaved, Next
    <2> QED
        BY <1>3, <2>1, StepOk, UploadSavedStored DEF RInv
<1>4. CASE SaveSessions
    <2>1. [Next]_vars
        BY <1>4 DEF SaveSessions
    <2> QED
        BY <1>4, <2>1, StepOk, SaveSessionsStored DEF RInv
<1>5. CASE SaveAccount
    <2>1. [Next]_vars
        BY <1>5 DEF SaveAccount
    <2> QED
        BY <1>5, <2>1, StepOk, SaveAccountStored DEF RInv
<1>6. CASE Restart
    BY <1>6, RestartKeeps
<1> QED
    BY <1>1, <1>2, <1>3, <1>4, <1>5, <1>6 DEF RNext

THEOREM RestartInvariance == RSpec => []RInv
BY RestartInit, RestartStep, PTL DEF RSpec

(* The same keys are there after any number of restarts, if an account is  *)
(* saved before its keys are uploaded, and sessions before the account     *)
(* that their keys have been removed from (pickle, unpickle).              *)
THEOREM KeysKeptOverRestarts == RSpec => []HandedOutKeysKnown
<1>1. RInv => HandedOutKeysKnown
    BY KeysKnown DEF RInv
<1> QED
    BY <1>1, RestartInvariance, PTL

LEMMA MatchRestart ==
    ASSUME RInv, MatchOk, Restart
    PROVE  MatchOk'
<1>1. inbound' = stored_inbound /\ pending' = {} /\ outbound' = outbound
    BY DEF Restart
<1>2. StoredSessions \subseteq Inbound /\ Len(stored_inbound) \in Nat /\ Len(inbound) \in Nat
    BY StoredFirst DEF RInv, IInv
<1>3. Inbound' \subseteq Inbound
    BY <1>1, <1>2 DEF Inbound, StoredSessions
<1>4. OneSessionEach'
    BY <1>1, <1>2 DEF RInv, StoredOk, MatchOk, OneSessionEach
<1> QED
    BY <1>1, <1>3, <1>4 DEF MatchOk

LEMMA RestartMatchStep ==
    ASSUME RInv, MatchOk, "base" \notin DamagedParts, [RNext]_rvars
    PROVE  MatchOk'
<1>1. CASE [Next]_vars
    BY <1>1, MatchStep DEF RInv
<1>2. CASE Restart
    BY <1>2, MatchRestart
<1>3. [Next]_vars \/ Restart
    <2>1. CASE UNCHANGED rvars
        BY <2>1 DEF rvars
    <2>2. CASE InMemory
        BY <2>2, MemoryStep
    <2>3. CASE UploadSaved
        BY <2>3 DEF UploadSaved, Next
    <2>4. CASE SaveSessions
        BY <2>4 DEF SaveSessions
    <2>5. CASE SaveAccount
        BY <2>5 DEF SaveAccount
    <2> QED
        BY <2>1, <2>2, <2>3, <2>4, <2>5 DEF RNext
<1> QED
    BY <1>1, <1>2, <1>3

(* No message makes a second session, though a restart forgets the session *)
(* it made, or that its one-time key was removed (matches_inbound_session).*)
THEOREM OneSessionOverRestarts ==
    ASSUME "base" \notin DamagedParts
    PROVE  RSpec => [](MatchesExactly /\ OneSessionEach)
<1>1. IInv /\ MatchOk => MatchesExactly /\ OneSessionEach
    BY MatchedFacts
<1>2. RInit => RInv /\ MatchOk
    BY RestartInit, MatchInit DEF RInit
<1>3. RInv /\ MatchOk /\ [RNext]_rvars => (RInv /\ MatchOk)'
    BY RestartStep, RestartMatchStep
<1>4. RInv => IInv
    BY DEF RInv
<1> QED
    BY <1>1, <1>2, <1>3, <1>4, PTL DEF RSpec

(* A pickle of the account, taken at any time, is read back whole, and one *)
(* that is cut short or has something behind it is refused                 *)
(* (olm::pickle, olm::unpickle of an Account).                             *)
THEOREM AccountsPickledWhole == RSpec => []AccountPickledWhole
<1>1. RInv => AccountPickledWhole
    BY AccountReadBack, AccountRefused DEF RInv, IInv, Serves, AccountPickledWhole
<1> QED
    BY <1>1, RestartInvariance, PTL

(* Whatever account an earlier release stored in its format is read and    *)
(* can be used.                                                            *)
THEOREM OldFormatsServe == RSpec => []OldAccountsServe
<1>1. RInv => OldAccountsServe
    BY OldAccountServed DEF RInv, IInv, Serves, OldAccountsServe, OldServed
<1> QED
    BY <1>1, RestartInvariance, PTL
=============================================================================
