--------------------------- MODULE AccountRestart ---------------------------
(***************************************************************************)
(* SessionSetup when Bob's device stops at any moment and starts again     *)
(* from what it stored: the pickle of his account, and his sessions.  The  *)
(* server and the initiators know nothing of it.                           *)
(*                                                                         *)
(* The application is external to the library.  It saves the account       *)
(* before it uploads a key, and a new session before the account that the  *)
(* session's one-time key has been removed from, or an old key forgotten.  *)
(* Between the two saves the device may stop.                              *)
(***************************************************************************)
EXTENDS SessionSetup, AccountPickle

VARIABLES
    stored_account,     \* the last pickle of the account
    stored_inbound      \* the sessions that were saved

rvars == <<vars, stored_account, stored_inbound>>

stored == <<stored_account, stored_inbound>>

RInit ==
    /\ Init
    /\ stored_account = PickleAccount(account)
    /\ stored_inbound = <<>>

RestoredAccount == UnpickleAccount(stored_account)

(* An account without what its unused slots happen to hold: marking keys   *)
(* as published marks a fallback key that is not there.                    *)
InUse(a) ==
    [a EXCEPT !.current_fallback_key = IF a.num_fallback_keys >= 1 THEN @ ELSE Unset,
              !.prev_fallback_key = IF a.num_fallback_keys >= 2 THEN @ ELSE Unset]

(* Mutant: the keys are uploaded before the account is saved.              *)
UploadUnsaved == BeginUpload /\ UNCHANGED stored

UploadSaved == BeginUpload /\ RestoredAccount = InUse(account) /\ UNCHANGED stored

SaveSessions ==
    /\ stored_inbound' = inbound
    /\ UNCHANGED <<vars, stored_account>>

(* Mutant: the account may be saved before the sessions.                   *)
SaveAccountFirst ==
    /\ stored_account' = PickleAccount(account)
    /\ UNCHANGED <<vars, stored_inbound>>

SaveAccount ==
    /\ stored_inbound = inbound
    /\ stored_account' = PickleAccount(account)
    /\ UNCHANGED <<vars, stored_inbound>>

(* What was in memory is gone; an upload under way may have got through    *)
(* (EndUpload(FALSE) before) or not.                                       *)
Restart ==
    /\ UnpickleAccountError(stored_account) = "OLM_SUCCESS"
    /\ account' = RestoredAccount
    /\ inbound' = stored_inbound
    /\ pending' = {}
    /\ uploading' = {}
    /\ removed' = {}
    /\ UNCHANGED <<server, outbound, stored>>

InMemory ==
    \/ Maintain
    \/ \E answered \in BOOLEAN : EndUpload(answered)
    \/ \E i \in Initiators : NewOutboundSession(i, TRUE)
    \/ \E s \in outbound : \E message \in PreKeyMessages(s) : NewInboundSession(s, message, NoKey)
    \/ DecryptFirst
    \/ \E session \in Inbound : RemoveOneTimeKeys(session)

RNext ==
    \/ InMemory /\ UNCHANGED stored
    \/ UploadSaved
    \/ SaveSessions
    \/ SaveAccount
    \/ Restart

RSpec == RInit /\ [][RNext]_rvars
-----------------------------------------------------------------------------
(* All of an account that is in use is stored, and a pickle that ends too  *)
(* soon or has something behind it is refused.                             *)
AccountPickledWhole ==
    LET pickle == PickleAccount(account) IN
    /\ UnpickleAccountError(pickle) = "OLM_SUCCESS"
    /\ UnpickleAccount(pickle) = InUse(account)
    /\ \A cut \in Cuts(pickle) : UnpickleAccountError(cut) # "OLM_SUCCESS"
    /\ UnpickleAccountError(Extended(pickle, 0)) = "OLM_PICKLE_EXTRA_DATA"

(* An account of an earlier release goes on: its keys are the ones that    *)
(* can be answered, its next key gets an id of its own, and once it has    *)
(* made the pre-key it lacks there is nothing wrong with what it uploads.  *)
OldAccountsServe ==
    \A version \in {2, 3, 4} :
        LET pickle == PickleAccountOld(account, version)
            a == UnpickleAccount(pickle)
            upgraded == GeneratePrekey(a)
        IN  /\ UnpickleAccountError(pickle) = "OLM_SUCCESS"
            /\ a.one_time_keys = account.one_time_keys
            /\ a.next_one_time_key_id = account.next_one_time_key_id
            /\ version >= 3 => \A key \in {account.current_fallback_key.key,
                                           account.prev_fallback_key.key} \ {NoKey} :
                                  KnowsKey(a, key)
            /\ NoKey \notin UnpublishedKeys(upgraded)
            /\ upgraded.current_prekey.key \in UnpublishedKeys(upgraded)
            /\ ForgetOldPrekey(upgraded) = upgraded
=============================================================================
