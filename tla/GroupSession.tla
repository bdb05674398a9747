---------------------------- MODULE GroupSession ----------------------------
(***************************************************************************)
(* One outbound group session (src/outbound_group_session.c) and the       *)
(* inbound group sessions of its members (src/inbound_group_session.c).    *)
(* The sender hands its session key to members at any time; a member gets  *)
(* it late, may export its session at an index to another member, and sees *)
(* the messages in any order, repeated, damaged or never.  The next-state  *)
(* relation is that of GroupRestart, where messages are encrypted and      *)
(* leave, and devices stop.                                                *)
(*                                                                         *)
(* There is one signing key, so a signature is whether a message or a      *)
(* session key is as the sender made it.  Exports are not signed.          *)
(***************************************************************************)
EXTENDS Megolm, FiniteSets

CONSTANTS
    Members,            \* the inbound sessions
    NoSession,          \* a member without one
    DamagedIndices,     \* counters that damage puts in messages and exports
    MaxSends,           \* bound: messages encrypted, at most half the indices
    MaxKeys,            \* bound: session keys handed out
    MaxExports,         \* bound: exports made
    MaxAhead            \* bound: how far beyond the sender an export may be

ASSUME GroupAssumption ==
    /\ DamagedIndices \subseteq 0 .. Modulus - 1
    /\ MaxSends \in Nat /\ MaxAhead \in Nat /\ MaxSends + MaxAhead <= Modulus \div 2
    /\ MaxKeys \in Nat /\ MaxExports \in Nat

(* OlmInboundGroupSession.                                                 *)
InboundSessions ==
    [initial_ratchet : Megolms, latest_ratchet : Megolms, signing_key_verified : BOOLEAN]

ASSUME NoSessionAssumption == NoSession \notin InboundSessions

VARIABLES
    outbound,           \* OlmOutboundGroupSession::ratchet
    sent,               \* the messages that have left the sender
    session_keys,       \* the session keys handed out
    exports,            \* the exports made, and whether of a genuine session
    inbound,            \* OlmInboundGroupSession of each member, or NoSession
    genuine,            \* whether a member's key reached it undamaged
    opened              \* the least index of a message a member decrypted

vars == <<outbound, sent, session_keys, exports, inbound, genuine, opened>>

Half == Modulus \div 2

Init ==
    /\ outbound = MegolmInit(RandomData, 0)
    /\ sent = {}
    /\ session_keys = {}
    /\ exports = {}
    /\ inbound = [m \in Members |-> NoSession]
    /\ genuine = [m \in Members |-> TRUE]
    /\ opened = [m \in Members |-> {}]

-----------------------------------------------------------------------------
(* The sender.                                                             *)

(* olm_outbound_group_session_key().                                       *)
ShareSessionKey ==
    /\ Cardinality(session_keys) < MaxKeys
    /\ session_keys' = session_keys \cup {outbound}
    /\ UNCHANGED <<outbound, sent, exports, inbound, genuine, opened>>

-----------------------------------------------------------------------------
(* A member's session.                                                     *)

(* _init_group_session_keys().  A session key whose signature is wrong is  *)
(* refused, and the application drops the session it was meant for.        *)
InboundFrom(ratchet, verified) ==
    [initial_ratchet |-> ratchet, latest_ratchet |-> ratchet,
     signing_key_verified |-> verified]

InitInbound(m) ==
    \E key \in session_keys :
        /\ inbound[m] = NoSession
        /\ inbound' = [inbound EXCEPT ![m] = InboundFrom(key, TRUE)]
        /\ opened' = [opened EXCEPT ![m] = {key.counter}]
        /\ UNCHANGED <<outbound, sent, session_keys, exports, genuine>>

(* olm_import_inbound_group_session() of an export, as it was made or with *)
(* another counter or one part of the ratchet damaged.                     *)
DamagedExports(ratchet) ==
    {[ratchet EXCEPT !.counter = i] : i \in DamagedIndices \ {ratchet.counter}}
    \cup {[ratchet EXCEPT !.data[j].hashes = <<-1>>] : j \in Parts}

ImportInbound(m) ==
    \E export \in exports :
        /\ inbound[m] = NoSession
        /\ \/ /\ inbound' = [inbound EXCEPT ![m] = InboundFrom(export.ratchet, FALSE)]
              /\ genuine' = [genuine EXCEPT ![m] = export.genuine]
           \/ \E damaged \in DamagedExports(export.ratchet) :
                 /\ inbound' = [inbound EXCEPT ![m] = InboundFrom(damaged, FALSE)]
                 /\ genuine' = [genuine EXCEPT ![m] = FALSE]
        /\ UNCHANGED <<outbound, sent, session_keys, exports, opened>>

(* _get_megolm(): the indices from the latest ratchet on, as 32-bit        *)
(* numbers go, and those before the first ratchet, which are not known.    *)
FromLatest(s, index) == (index - s.latest_ratchet.counter) % Modulus < Half

Unknown(s, index) ==
    /\ ~FromLatest(s, index)
    /\ (index - s.initial_ratchet.counter) % Modulus >= Half

(* Mutant: only the latest ratchet is looked at.                           *)
GetMegolmLatestOnly(s, index) == MegolmAdvanceTo(s.latest_ratchet, index)

(* The ratchet it returns, and the session it leaves behind.               *)
GetMegolm(s, index) ==
    IF FromLatest(s, index) THEN MegolmAdvanceTo(s.latest_ratchet, index)
                            ELSE MegolmAdvanceTo(s.initial_ratchet, index)

(* Mutant: the first ratchet is moved along with the latest.               *)
AfterGetMegolmBoth(s, index) ==
    IF FromLatest(s, index)
    THEN [s EXCEPT !.latest_ratchet = MegolmAdvanceTo(@, index),
                   !.initial_ratchet = MegolmAdvanceTo(@, index)]
    ELSE s

AfterGetMegolm(s, index) ==
    IF FromLatest(s, index)
    THEN [s EXCEPT !.latest_ratchet = MegolmAdvanceTo(@, index)]
    ELSE s

MacMatches(s, msg) == GetMegolm(s, msg.index).data = msg.key

(* olm_group_decrypt() returns the plaintext of msg, a message as sent.    *)
Opens(s, msg) == ~Unknown(s, msg.index) /\ MacMatches(s, msg)

(* Mutant: the session counts as valid before the MAC has been checked.    *)
VerifiedBeforeMac(s, msg) == [AfterGetMegolm(s, msg.index) EXCEPT !.signing_key_verified = TRUE]

(* The session after olm_group_decrypt() of a message that is signed and   *)
(* whose index is known: the latest ratchet moves before the MAC is        *)
(* checked, and stays there if it does not match.                          *)
AfterDecrypt(s, msg) ==
    IF MacMatches(s, msg)
    THEN [AfterGetMegolm(s, msg.index) EXCEPT !.signing_key_verified = TRUE]
    ELSE AfterGetMegolm(s, msg.index)

DecryptSucceeds(m, msg) ==
    /\ Opens(inbound[m], msg)
    /\ inbound' = [inbound EXCEPT ![m] = AfterDecrypt(@, msg)]
    /\ opened' = [opened EXCEPT ![m] =
                     IF \E i \in @ : i <= msg.index THEN @ ELSE {msg.index}]
    /\ UNCHANGED <<outbound, sent, session_keys, exports, genuine>>

DecryptBadMac(m, msg) ==
    /\ ~Unknown(inbound[m], msg.index) /\ ~MacMatches(inbound[m], msg)
    /\ inbound' = [inbound EXCEPT ![m] = AfterDecrypt(@, msg)]
    /\ UNCHANGED <<outbound, sent, session_keys, exports, genuine, opened>>

DecryptUnknownIndex(m, msg) ==
    /\ Unknown(inbound[m], msg.index)
    /\ UNCHANGED vars

(* Mutant: the signature is checked after the ratchet has moved.           *)
DecryptBadSignatureLate(m, msg) ==
    /\ inbound' = [inbound EXCEPT ![m] = AfterGetMegolm(@, msg.index)]
    /\ UNCHANGED <<outbound, sent, session_keys, exports, genuine, opened>>

(* A damaged message: its signature is checked before anything else.       *)
DecryptBadSignature(m, msg) == UNCHANGED vars

Decrypt(m) ==
    /\ inbound[m] # NoSession
    /\ \E msg \in sent :
          \/ DecryptSucceeds(m, msg)
          \/ DecryptBadMac(m, msg)
          \/ DecryptUnknownIndex(m, msg)
          \/ \E index \in DamagedIndices \ {msg.index} :
                DecryptBadSignature(m, [msg EXCEPT !.index = index])

(* Mutant: the first ratchet is exported, whatever the index.              *)
ExportOfInitial(s, index) == MegolmInit(s.initial_ratchet.data, index)

ExportOf(s, index) == MegolmInit(GetMegolm(s, index).data, index)

(* olm_export_inbound_group_session(), perhaps at an index the sender has  *)
(* not reached; the latest ratchet moves here too.                         *)
ExportInbound(m) ==
    /\ inbound[m] # NoSession
    /\ Cardinality(exports) < MaxExports
    /\ \E index \in 0 .. Cardinality(sent) + MaxAhead :
          /\ ~Unknown(inbound[m], index)
          /\ exports' = exports \cup {[ratchet |-> ExportOf(inbound[m], index),
                                       genuine |-> genuine[m]]}
          /\ inbound' = [inbound EXCEPT ![m] = AfterGetMegolm(@, index)]
    /\ UNCHANGED <<outbound, sent, session_keys, genuine, opened>>

MemberStep(m) == InitInbound(m) \/ ImportInbound(m) \/ Decrypt(m) \/ ExportInbound(m)
-----------------------------------------------------------------------------
(* No two messages of the group are encrypted with one key.                *)
MessageKeysUnique == \A a, b \in sent : a.key = b.key => a = b

FirstIndex(m) == inbound[m].initial_ratchet.counter

(* A member whose key reached it whole can read every message from its     *)
(* first known index on, at any time, in any order, again and again, no    *)
(* matter what else it was handed or asked to export in between.           *)
ReadsFromFirstIndexOn ==
    \A m \in Members : \A msg \in sent :
        inbound[m] # NoSession /\ genuine[m] /\ msg.index >= FirstIndex(m)
        => Opens(inbound[m], msg)

(* ... and cannot read what was sent before, nor compute the key of it     *)
(* from anything its session holds; so neither can whoever is given an     *)
(* export of that index.                                                   *)
NothingBeforeFirstIndex ==
    /\ \A m \in Members : \A msg \in sent :
          inbound[m] # NoSession /\ genuine[m] /\ msg.index < FirstIndex(m)
          => /\ Unknown(inbound[m], msg.index)
             /\ ~Derivable(inbound[m].initial_ratchet.data, msg.key)
             /\ ~Derivable(inbound[m].latest_ratchet.data, msg.key)
    /\ \A export \in exports : \A msg \in sent :
          export.genuine /\ msg.index < export.ratchet.counter
          => ~Derivable(export.ratchet.data, msg.key)

(* signing_key_verified is evidence: once a session has it, by a signature *)
(* or by a message it decrypted, it reads every message from that index    *)
(* on, even if it was imported from a damaged export.                      *)
VerifiedReadsOn ==
    \A m \in Members :
        inbound[m] # NoSession /\ inbound[m].signing_key_verified
        => /\ opened[m] # {}
           /\ \A msg \in sent : (\E i \in opened[m] : i <= msg.index) => Opens(inbound[m], msg)

(* An undecryptable message cannot spoil a session: what a member can read *)
(* it can still read after any step, also one that takes it back to a      *)
(* pickle as old as its first; unless it never saved the session at all.   *)
StaysReadable ==
    [][\A m \in Members : \A msg \in sent :
          inbound[m] # NoSession /\ inbound'[m] # NoSession /\ Opens(inbound[m], msg)
          => Opens(inbound'[m], msg)]_vars
=============================================================================
