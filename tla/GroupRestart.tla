---------------------------- MODULE GroupRestart ----------------------------
(***************************************************************************)
(* GroupSession, on devices that stop at any moment and start again from a *)
(* pickle.  The sender's application lets no message leave before   *)
(* it has saved the session that encrypted it; several messages may be     *)
(* encrypted in between.  A member saves its session when it likes, so     *)
(* that it may go on from a state as old as its first.                     *)
(* Messages carry the number of their plaintext, so that two that were     *)
(* encrypted with the same index can be told apart.                        *)
(***************************************************************************)
EXTENDS GroupSession, GroupPickle

VARIABLES
    stored_outbound,    \* the last pickle of the sender's session
    unsaved,            \* what was encrypted since then
    plaintexts,         \* the number of plaintexts encrypted so far
    stored_inbound      \* the last pickle of each member's session, if any

stored == <<stored_outbound, unsaved, plaintexts, stored_inbound>>
rvars == <<vars, stored>>

RInit ==
    /\ Init
    /\ stored_outbound = PickleOutbound(outbound)
    /\ unsaved = {}
    /\ plaintexts = 0
    /\ stored_inbound = [m \in Members |-> <<>>]

NextMessage ==
    [index |-> outbound.counter, key |-> outbound.data, plaintext |-> plaintexts]

(* Mutant: the message leaves before the session is saved.                 *)
EncryptSendsFirst ==
    /\ plaintexts < MaxSends
    /\ sent' = sent \cup {NextMessage}
    /\ outbound' = MegolmAdvance(outbound)
    /\ plaintexts' = plaintexts + 1
    /\ UNCHANGED <<unsaved, session_keys, exports, inbound, genuine, opened,
                   stored_outbound, stored_inbound>>

(* olm_group_encrypt(), before the message leaves.                         *)
EncryptUnsaved ==
    /\ plaintexts < MaxSends
    /\ unsaved' = unsaved \cup {NextMessage}
    /\ outbound' = MegolmAdvance(outbound)
    /\ plaintexts' = plaintexts + 1
    /\ UNCHANGED <<sent, session_keys, exports, inbound, genuine, opened,
                   stored_outbound, stored_inbound>>

SaveOutbound ==
    /\ stored_outbound' = PickleOutbound(outbound)
    /\ sent' = sent \cup unsaved
    /\ unsaved' = {}
    /\ UNCHANGED <<outbound, session_keys, exports, inbound, genuine, opened, plaintexts,
                   stored_inbound>>

RestartOutbound ==
    /\ UnpickleOutboundError(stored_outbound) = "OLM_SUCCESS"
    /\ outbound' = UnpickleOutbound(stored_outbound)
    /\ unsaved' = {}
    /\ UNCHANGED <<sent, session_keys, exports, inbound, genuine, opened, plaintexts,
                   stored_outbound, stored_inbound>>

SaveInbound(m) ==
    /\ inbound[m] # NoSession
    /\ stored_inbound' = [stored_inbound EXCEPT ![m] = <<PickleInbound(inbound[m])>>]
    /\ UNCHANGED <<vars, stored_outbound, unsaved, plaintexts>>

(* A session that was never saved is gone.                                 *)
RestartInbound(m) ==
    /\ \/ /\ stored_inbound[m] # <<>>
          /\ UnpickleInboundError(stored_inbound[m][1]) = "OLM_SUCCESS"
          /\ inbound' = [inbound EXCEPT ![m] = UnpickleInbound(stored_inbound[m][1])]
          /\ UNCHANGED <<genuine, opened>>
       \/ /\ stored_inbound[m] = <<>>
          /\ inbound' = [inbound EXCEPT ![m] = NoSession]
          /\ genuine' = [genuine EXCEPT ![m] = TRUE]
          /\ opened' = [opened EXCEPT ![m] = {}]
    /\ UNCHANGED <<outbound, sent, session_keys, exports, stored>>

RNext ==
    \/ EncryptUnsaved
    \/ SaveOutbound
    \/ RestartOutbound
    \/ ShareSessionKey /\ UNCHANGED stored
    \/ \E m \in Members :
          \/ MemberStep(m) /\ UNCHANGED stored
          \/ SaveInbound(m)
          \/ RestartInbound(m)

RSpec == RInit /\ [][RNext]_rvars
-----------------------------------------------------------------------------
(* A group session is stored whole, and a pickle that ends too soon, goes  *)
(* on too long or has another version is refused.  One of version 1 is     *)
(* read as the verified session it was.                                    *)
GroupPicklesWhole ==
    /\ LET pickle == PickleOutbound(outbound) IN
       /\ UnpickleOutboundError(pickle) = "OLM_SUCCESS"
       /\ UnpickleOutbound(pickle) = outbound
       /\ \A cut \in Cuts(pickle) : UnpickleOutboundError(cut) # "OLM_SUCCESS"
       /\ UnpickleOutboundError(Extended(pickle, 0)) # "OLM_SUCCESS"
    /\ \A m \in Members : inbound[m] # NoSession =>
          LET pickle == PickleInbound(inbound[m]) IN
          /\ UnpickleInboundError(pickle) = "OLM_SUCCESS"
          /\ UnpickleInbound(pickle) = inbound[m]
          /\ \A cut \in Cuts(pickle) : UnpickleInboundError(cut) # "OLM_SUCCESS"
          /\ UnpickleInboundError(Extended(pickle, 0)) # "OLM_SUCCESS"
          /\ \A version \in {0, 3} :
                UnpickleInboundError([pickle EXCEPT !.items[1] = version])
                    = "OLM_UNKNOWN_PICKLE_VERSION"
          /\ UnpickleInboundError(PickleInboundV1(inbound[m])) = "OLM_SUCCESS"
          /\ UnpickleInbound(PickleInboundV1(inbound[m]))
                = [inbound[m] EXCEPT !.signing_key_verified = TRUE]
=============================================================================
