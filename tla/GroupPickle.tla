----------------------------- MODULE GroupPickle -----------------------------
(***************************************************************************)
(* How group sessions are stored and loaded: the pickles of                *)
(* src/outbound_group_session.c, src/inbound_group_session.c and, of the   *)
(* ratchets in them, src/megolm.c.  There is one signing key.              *)
(***************************************************************************)
EXTENDS Pickle

(* megolm_pickle() and megolm_unpickle().                                  *)
PickleMegolm(megolm) == <<megolm.data, megolm.counter>>

MegolmAt(pickle, pos) == [data |-> pickle.items[pos], counter |-> pickle.items[pos + 1]]

-----------------------------------------------------------------------------
(* olm_pickle_outbound_group_session() and its counterpart.                *)
OUTBOUND_PICKLE_VERSION == 1

PickleOutbound(ratchet) ==
    Whole(<<OUTBOUND_PICKLE_VERSION>> \o PickleMegolm(ratchet) \o <<"signing_key">>)

UnpickleOutboundError(pickle) ==
    IF Available(pickle, 1, 1) /\ pickle.items[1] # OUTBOUND_PICKLE_VERSION
    THEN "OLM_UNKNOWN_PICKLE_VERSION"
    ELSE UnpickleError(pickle, After(pickle, 1, 4))

UnpickleOutbound(pickle) == MegolmAt(pickle, 2)

-----------------------------------------------------------------------------
(* olm_pickle_inbound_group_session() and its counterpart.  Version 1 did  *)
(* not say whether the session is verified, for then all were.             *)
INBOUND_PICKLE_VERSION == 2

PickleInbound(s) ==
    Whole(<<INBOUND_PICKLE_VERSION>> \o PickleMegolm(s.initial_ratchet)
          \o PickleMegolm(s.latest_ratchet) \o <<"signing_key", s.signing_key_verified>>)

PickleInboundV1(s) ==
    Whole(<<1>> \o PickleMegolm(s.initial_ratchet) \o PickleMegolm(s.latest_ratchet)
          \o <<"signing_key">>)

UnpickleInboundError(pickle) ==
    IF Available(pickle, 1, 1) /\ pickle.items[1] \notin 1 .. INBOUND_PICKLE_VERSION
    THEN "OLM_UNKNOWN_PICKLE_VERSION"
    ELSE LET signing_key == After(pickle, 1, 6) IN
         UnpickleError(pickle, IF signing_key # NULL /\ pickle.items[1] > 1
                               THEN After(pickle, signing_key, 1) ELSE signing_key)

(* Mutant: the latest ratchet is taken for the first.                      *)
UnpickleInboundLatest(pickle) ==
    [initial_ratchet |-> MegolmAt(pickle, 4), latest_ratchet |-> MegolmAt(pickle, 4),
     signing_key_verified |-> IF pickle.items[1] = 1 THEN TRUE ELSE pickle.items[7]]

(* Mutants: every session is read as verified; one of version 1 is not.    *)
UnpickleInboundVerified(pickle) ==
    [initial_ratchet |-> MegolmAt(pickle, 2), latest_ratchet |-> MegolmAt(pickle, 4),
     signing_key_verified |-> TRUE]

UnpickleInboundUnverified(pickle) ==
    [initial_ratchet |-> MegolmAt(pickle, 2), latest_ratchet |-> MegolmAt(pickle, 4),
     signing_key_verified |-> IF pickle.items[1] = 1 THEN FALSE ELSE pickle.items[7]]

UnpickleInbound(pickle) ==
    [initial_ratchet |-> MegolmAt(pickle, 2), latest_ratchet |-> MegolmAt(pickle, 4),
     signing_key_verified |-> IF pickle.items[1] = 1 THEN TRUE ELSE pickle.items[7]]
=============================================================================
