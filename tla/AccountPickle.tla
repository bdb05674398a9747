---------------------------- MODULE AccountPickle ----------------------------
(***************************************************************************)
(* How an account is stored and loaded: pickle() and unpickle() of         *)
(* olm::Account (src/account.cpp), which still reads the formats of        *)
(* earlier releases.  The identity keys and the time at which a pre-key    *)
(* was published are written and read, and have no part in the model.      *)
(***************************************************************************)
EXTENDS Account, Pickle

ACCOUNT_PICKLE_VERSION == 10005

(* Mutant: only the current key is written.                                *)
CountedCurrentOnly(number, current, prev) ==
    IF number >= 1 THEN <<1, current>> ELSE <<0>>

(* As many keys as number says.                                            *)
Counted(number, current, prev) ==
    <<number>> \o (IF number >= 1 THEN <<current>> ELSE <<>>)
               \o (IF number >= 2 THEN <<prev>> ELSE <<>>)

PickleAccount(a) ==
    Whole(<<ACCOUNT_PICKLE_VERSION, "identity_keys">>
          \o Counted(a.num_prekeys, a.current_prekey, a.prev_prekey)
          \o <<a.next_prekey_id, "last_prekey_publish_time">>
          \o PickleList(a.one_time_keys)
          \o Counted(a.num_fallback_keys, a.current_fallback_key, a.prev_fallback_key)
          \o <<a.next_one_time_key_id>>)

(* The formats that earlier releases wrote, as unpickle() describes them:  *)
(* none has pre-keys; version 3 wrote both fallback keys, whether used or  *)
(* not, and marked those in use as published; version 2 wrote none.        *)
OldFallbackKeys(a, version) ==
    CASE version = 4 -> Counted(a.num_fallback_keys, a.current_fallback_key, a.prev_fallback_key)
      [] version = 3 -> <<[a.current_fallback_key EXCEPT !.published = a.num_fallback_keys >= 1],
                          [a.prev_fallback_key EXCEPT !.published = a.num_fallback_keys >= 2]>>
      [] OTHER -> <<>>

PickleAccountOld(a, version) ==
    Whole(<<version, "identity_keys">> \o PickleList(a.one_time_keys)
          \o OldFallbackKeys(a, version) \o <<a.next_one_time_key_id>>)

-----------------------------------------------------------------------------
(* Reading.                                                                *)

(* A number of at most two keys, and the keys.                             *)
AfterCounted(pickle, pos) ==
    IF ~Available(pickle, pos, 1) THEN NULL
    ELSE IF pickle.items[pos] >= 3 THEN NULL
    ELSE After(pickle, pos + 1, pickle.items[pos])

Version(pickle) == pickle.items[1]
HasPrekeys(pickle) == Version(pickle) >= 10005

OneTimeKeysAt(pickle) ==
    IF HasPrekeys(pickle) THEN After(pickle, AfterCounted(pickle, After(pickle, 1, 2)), 2)
                          ELSE After(pickle, 1, 2)

FallbackKeysAt(pickle) == AfterList(pickle, OneTimeKeysAt(pickle))

LastIdAt(pickle) ==
    IF Version(pickle) <= 2 THEN FallbackKeysAt(pickle)
    ELSE IF Version(pickle) = 3 THEN After(pickle, FallbackKeysAt(pickle), 2)
    ELSE AfterCounted(pickle, FallbackKeysAt(pickle))

(* The error of olm_unpickle_account(), and the account it returns when    *)
(* there is none, in place of one just constructed.                        *)
UnpickleAccountError(pickle) ==
    IF ~Available(pickle, 1, 1) THEN "OLM_CORRUPTED_PICKLE"
    ELSE IF Version(pickle) = 1 THEN "OLM_BAD_LEGACY_ACCOUNT_PICKLE"
    ELSE IF Version(pickle) \notin {2, 3, 4, ACCOUNT_PICKLE_VERSION}
    THEN "OLM_UNKNOWN_PICKLE_VERSION"
    ELSE UnpickleError(pickle, After(pickle, LastIdAt(pickle), 1))

(* Mutant: the mark of the first fallback key alone is looked at.          *)
NumFallbackKeysOne(pickle, at) ==
    CASE Version(pickle) <= 2 -> 0
      [] Version(pickle) = 3 -> IF pickle.items[at].published THEN 1 ELSE 0
      [] OTHER -> pickle.items[at]

NumFallbackKeys(pickle, at) ==
    CASE Version(pickle) <= 2 -> 0
      [] Version(pickle) = 3 -> IF ~pickle.items[at].published THEN 0
                                ELSE IF pickle.items[at + 1].published THEN 2 ELSE 1
      [] OTHER -> pickle.items[at]

UnpickleAccount(pickle) ==
    LET prekeys == IF HasPrekeys(pickle) THEN pickle.items[3] ELSE 0
        fallback == FallbackKeysAt(pickle)
        number == NumFallbackKeys(pickle, fallback)
        read == CASE Version(pickle) <= 2 -> 0 [] Version(pickle) = 3 -> 2 [] OTHER -> number
        first == IF Version(pickle) = 3 THEN fallback ELSE fallback + 1
    IN  [num_prekeys |-> prekeys,
         current_prekey |-> IF prekeys >= 1 THEN pickle.items[4] ELSE Unset,
         prev_prekey |-> IF prekeys >= 2 THEN pickle.items[5] ELSE Unset,
         next_prekey_id |-> IF HasPrekeys(pickle) THEN pickle.items[4 + prekeys] ELSE 0,
         one_time_keys |-> ListAt(pickle, OneTimeKeysAt(pickle), MAX_ONE_TIME_KEYS),
         num_fallback_keys |-> number,
         current_fallback_key |-> IF read >= 1 THEN pickle.items[first] ELSE Unset,
         prev_fallback_key |-> IF read >= 2 THEN pickle.items[first + 1] ELSE Unset,
         next_one_time_key_id |-> pickle.items[LastIdAt(pickle)]]
=============================================================================
