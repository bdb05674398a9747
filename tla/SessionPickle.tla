---------------------------- MODULE SessionPickle ----------------------------
(***************************************************************************)
(* How a session is stored and loaded: pickle() and unpickle() of          *)
(* olm::Session (src/session.cpp) and olm::Ratchet (src/ratchet.cpp).      *)
(* Encryption with the pickle key (src/pickle_encoding.c) is left out: it  *)
(* keeps a pickle as it is or, by its MAC, refuses it.                     *)
(***************************************************************************)
EXTENDS Pickle

CONSTANTS MAX_RECEIVER_CHAINS, MAX_SKIPPED_MESSAGE_KEYS     \* as in Ratchet

(* The version that this branch writes, and that of the logging branch.    *)
SESSION_PICKLE_VERSION == "1"
LOGGING_PICKLE_VERSION == "0x80000001"

(* Mutant: the skipped keys are not written.                               *)
PickleRatchetNoSkipped(r) ==
    <<r.root_key>> \o PickleList(r.sender_chain) \o PickleList(r.receiver_chains)
                   \o PickleList(<<>>)

PickleRatchet(r) ==
    <<r.root_key>> \o PickleList(r.sender_chain) \o PickleList(r.receiver_chains)
                   \o PickleList(r.skipped_message_keys)

PickleFields(s, version) ==
    <<version, s.received_message, s.alice_identity_key, s.alice_base_key,
      s.bob_one_time_key, s.bob_prekey>>

(* Mutant: a session that has received a message does not say so.          *)
PickleSessionUnreceived(s) ==
    Whole(PickleFields([s EXCEPT !.received_message = FALSE], SESSION_PICKLE_VERSION)
          \o PickleRatchet(s.ratchet))

PickleSession(s) == Whole(PickleFields(s, SESSION_PICKLE_VERSION) \o PickleRatchet(s.ratchet))

(* The logging branch wrote one number more.                               *)
PickleSessionLogging(s) ==
    Whole(PickleFields(s, LOGGING_PICKLE_VERSION) \o PickleRatchet(s.ratchet) \o <<0>>)

-----------------------------------------------------------------------------
(* Where the lists of a ratchet begin whose root key is at pos, and where  *)
(* unpickle() of the ratchet leaves off.                                   *)
SenderAt(pickle, pos) == After(pickle, pos, 1)
ReceiversAt(pickle, pos) == AfterList(pickle, SenderAt(pickle, pos))
SkippedAt(pickle, pos) == AfterList(pickle, ReceiversAt(pickle, pos))

(* Mutant: the number of the logging branch is not skipped.                *)
AfterRatchetNoIndex(pickle, pos, includes_chain_index) ==
    AfterList(pickle, SkippedAt(pickle, pos))

AfterRatchet(pickle, pos, includes_chain_index) ==
    LET last == AfterList(pickle, SkippedAt(pickle, pos))
    IN  IF includes_chain_index THEN After(pickle, last, 1) ELSE last

(* Mutant: the receiver chains are read into a list of another size.       *)
UnpickleRatchetShort(pickle, pos) ==
    [root_key |-> pickle.items[pos],
     sender_chain |-> ListAt(pickle, SenderAt(pickle, pos), 1),
     receiver_chains |-> ListAt(pickle, ReceiversAt(pickle, pos), 1),
     skipped_message_keys |-> ListAt(pickle, SkippedAt(pickle, pos), MAX_SKIPPED_MESSAGE_KEYS)]

UnpickleRatchet(pickle, pos) ==
    [root_key |-> pickle.items[pos],
     sender_chain |-> ListAt(pickle, SenderAt(pickle, pos), 1),
     receiver_chains |-> ListAt(pickle, ReceiversAt(pickle, pos), MAX_RECEIVER_CHAINS),
     skipped_message_keys |-> ListAt(pickle, SkippedAt(pickle, pos), MAX_SKIPPED_MESSAGE_KEYS)]

KnownVersion(version) == version \in {SESSION_PICKLE_VERSION, LOGGING_PICKLE_VERSION}

(* The error of olm_unpickle_session(), and the session it returns when    *)
(* there is none.                                                          *)
UnpickleSessionError(pickle) ==
    IF Available(pickle, 1, 1) /\ ~KnownVersion(pickle.items[1])
    THEN "OLM_UNKNOWN_PICKLE_VERSION"
    ELSE LET fields == After(pickle, 1, 6) IN
         UnpickleError(pickle,
             IF fields = NULL THEN NULL
             ELSE AfterRatchet(pickle, fields, pickle.items[1] = LOGGING_PICKLE_VERSION))

UnpickleSession(pickle) ==
    [received_message |-> pickle.items[2],
     alice_identity_key |-> pickle.items[3], alice_base_key |-> pickle.items[4],
     bob_one_time_key |-> pickle.items[5], bob_prekey |-> pickle.items[6],
     ratchet |-> UnpickleRatchet(pickle, 7)]
=============================================================================
