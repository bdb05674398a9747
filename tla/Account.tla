------------------------------ MODULE Account ------------------------------
(***************************************************************************)
(* olm::Account (src/account.cpp): the one-time keys, pre-keys and         *)
(* fallback keys of a device, as operators on an account value.            *)
(*                                                                         *)
(* A key pair is symbolic and named by its kind and the id it was          *)
(* generated with; nothing relies on an id being that of another key, for  *)
(* one-time keys and fallback keys draw from one counter.  NoKey is the    *)
(* key of zeros that an unset slot holds.                                  *)
(***************************************************************************)
EXTENDS Integers, Sequences, OlmList

CONSTANT MAX_ONE_TIME_KEYS      \* capacity of one_time_keys (100)

ASSUME AccountAssumption == MAX_ONE_TIME_KEYS \in Nat \ {0}

Keys == [kind : {"none", "prekey", "fallback", "one_time"}, id : Nat]
Slots == [id : Nat, published : BOOLEAN, key : Keys]    \* struct OneTimeKey

NoKey == [kind |-> "none", id |-> 0]
Unset == [id |-> 0, published |-> FALSE, key |-> NoKey]

Generated(kind, id) ==
    [id |-> id, published |-> FALSE, key |-> [kind |-> kind, id |-> id]]

-----------------------------------------------------------------------------
(* Pre-keys.                                                               *)

GeneratePrekey(a) ==
    [a EXCEPT !.num_prekeys = IF @ < 2 THEN @ + 1 ELSE @,
              !.prev_prekey = a.current_prekey,
              !.current_prekey = Generated("prekey", a.next_prekey_id + 1),
              !.next_prekey_id = @ + 1]

ForgetOldPrekey(a) ==
    IF a.num_prekeys = 2 THEN [a EXCEPT !.prev_prekey = Unset, !.num_prekeys = 1] ELSE a

(* lookup_prekey() finds the key; it does not look at num_prekeys.         *)
KnowsPrekey(a, key) == key \in {a.current_prekey.key, a.prev_prekey.key}

MarkPrekeyAsPublished(a) == [a EXCEPT !.current_prekey.published = TRUE]

-----------------------------------------------------------------------------
(* One-time keys and fallback keys.                                        *)

(* new_account(), on a constructed account.                                *)
NewAccount ==
    GeneratePrekey(
        [one_time_keys |-> <<>>, next_one_time_key_id |-> 0,
         num_fallback_keys |-> 0, current_fallback_key |-> Unset, prev_fallback_key |-> Unset,
         num_prekeys |-> 0, current_prekey |-> Unset, prev_prekey |-> Unset,
         next_prekey_id |-> 0])

(* Every new key goes to the front; the oldest fall off a full list.       *)
GenerateOneTimeKeys(a, number_of_keys) ==
    LET news == [i \in 1 .. number_of_keys |->
                    Generated("one_time", a.next_one_time_key_id + number_of_keys + 1 - i)]
    IN  [a EXCEPT !.one_time_keys = ListInsertAll(news, @, MAX_ONE_TIME_KEYS),
                  !.next_one_time_key_id = @ + number_of_keys]

(* Mutant: the new key inherits the mark of the one it replaces.           *)
GenerateFallbackKeyMarked(a) ==
    [a EXCEPT !.num_fallback_keys = IF @ < 2 THEN @ + 1 ELSE @,
              !.prev_fallback_key = a.current_fallback_key,
              !.current_fallback_key = [Generated("fallback", a.next_one_time_key_id + 1)
                                        EXCEPT !.published = a.current_fallback_key.published],
              !.next_one_time_key_id = @ + 1]

(* Mutant: the replaced key is not kept.                                   *)
GenerateFallbackKeyOnly(a) ==
    [a EXCEPT !.num_fallback_keys = 1,
              !.current_fallback_key = Generated("fallback", a.next_one_time_key_id + 1),
              !.next_one_time_key_id = @ + 1]

GenerateFallbackKey(a) ==
    [a EXCEPT !.num_fallback_keys = IF @ < 2 THEN @ + 1 ELSE @,
              !.prev_fallback_key = a.current_fallback_key,
              !.current_fallback_key = Generated("fallback", a.next_one_time_key_id + 1),
              !.next_one_time_key_id = @ + 1]

ForgetOldFallbackKey(a) ==
    IF a.num_fallback_keys >= 2
    THEN [a EXCEPT !.num_fallback_keys = 1, !.prev_fallback_key = Unset] ELSE a

MarkKeysAsPublished(a) ==
    [a EXCEPT !.one_time_keys = [i \in 1 .. Len(@) |-> [@[i] EXCEPT !.published = TRUE]],
              !.current_fallback_key.published = TRUE]

(* get_one_time_keys_json(), get_unpublished_fallback_key_json() and       *)
(* get_unpublished_prekey_json().                                          *)
UnpublishedKeys(a) ==
    {a.one_time_keys[i].key : i \in {i \in 1 .. Len(a.one_time_keys) :
                                        ~a.one_time_keys[i].published}}
    \cup (IF a.num_fallback_keys >= 1 /\ ~a.current_fallback_key.published
          THEN {a.current_fallback_key.key} ELSE {})
    \cup (IF ~a.current_prekey.published THEN {a.current_prekey.key} ELSE {})

HasOneTimeKey(a, key) == \E i \in 1 .. Len(a.one_time_keys) : a.one_time_keys[i].key = key

(* lookup_key() finds the key.                                             *)
KnowsKey(a, key) ==
    \/ HasOneTimeKey(a, key)
    \/ a.num_fallback_keys >= 1 /\ a.current_fallback_key.key = key
    \/ a.num_fallback_keys >= 2 /\ a.prev_fallback_key.key = key

(* Mutant: the newest key is erased in its place.                          *)
RemoveKeyFirst(a, key) ==
    IF HasOneTimeKey(a, key) THEN [a EXCEPT !.one_time_keys = ListErase(@, 1)] ELSE a

(* remove_key(): a fallback key stays.                                     *)
RemoveKey(a, key) ==
    IF HasOneTimeKey(a, key)
    THEN LET i == CHOOSE i \in 1 .. Len(a.one_time_keys) :
                      /\ a.one_time_keys[i].key = key
                      /\ \A j \in 1 .. i - 1 : a.one_time_keys[j].key # key
         IN  [a EXCEPT !.one_time_keys = ListErase(@, i)]
    ELSE a
=============================================================================
