---------------------------- MODULE SessionSetup ----------------------------
(***************************************************************************)
(* How sessions come about: Bob's account, the server that hands out his   *)
(* public keys, the initiators who create outbound sessions with them      *)
(* (Session::new_outbound_session), and the inbound sessions Bob creates   *)
(* from their pre-key messages (Session::new_inbound_session).             *)
(*                                                                         *)
(* Of a pre-key message only the header is modelled, and the secret that   *)
(* the message inside is encrypted under.  Messages arrive in any order,   *)
(* repeatedly or never, and with one key of the header damaged.            *)
(*                                                                         *)
(* What Bob's application does is external to the library and is taken     *)
(* from the documentation: it uploads what is not published and then marks *)
(* it so, generates keys and rotates them when no upload is under way,     *)
(* forgets an old key when nobody can use it any more, and removes the     *)
(* one-time key of a session that has decrypted its first message.         *)
(***************************************************************************)
EXTENDS Account, FiniteSets

CONSTANTS
    Initiators,                     \* who creates outbound sessions
    DamagedParts,                   \* fields of the header that damage hits
    SHARED_SECRET_LENGTH,           \* CURVE25519_SHARED_SECRET_LENGTH (32)
    MaxIds,                         \* bound: one-time and fallback keys
    MaxPrekeys,                     \* bound: pre-keys
    MaxOutbound                     \* bound: outbound sessions

ASSUME SetupAssumption ==
    /\ DamagedParts \subseteq {"identity", "base", "one_time", "prekey"}
    /\ SHARED_SECRET_LENGTH \in Nat \ {0}
    /\ MaxIds \in Nat /\ MaxPrekeys \in Nat /\ MaxOutbound \in Nat

VARIABLES
    account,        \* Bob's account
    uploading,      \* the public keys of an upload under way
    server,         \* what the server hands out: a pre-key, perhaps a
                    \* fallback key, and one-time keys, each once (claimed)
    outbound,       \* the sessions created by initiators
    pending,        \* Bob's session that is to decrypt its first message
    inbound,        \* Bob's sessions that have, in the order of their creation
    removed         \* the keys that sessions were removed with

vars == <<account, uploading, server, outbound, pending, inbound, removed>>

Key(kind, id) == [kind |-> kind, id |-> id]
BobIdentity == Key("identity", 0)
Identity(i) == Key("identity", i)
Garbage == Key("garbage", 0)

-----------------------------------------------------------------------------
(* The shared secret.                                                      *)

ECDH(our_key, their_key) == {our_key, their_key}

(* The root key is derived from the first length bytes of the concatenated *)
(* results; length is sizeof(uint8_t) times their number.                  *)
SecretOf(results) ==
    LET length == 1 * Len(results)
    IN  [bytes |-> length,
         results |-> SubSeq(results, 1,
                            (length + SHARED_SECRET_LENGTH - 1) \div SHARED_SECRET_LENGTH)]

(* The secret of an outbound session; without a one-time key the pre-key   *)
(* is used as one.                                                         *)
OutboundSecret(alice_identity, alice_base, one_time_key, prekey) ==
    SecretOf(<<ECDH(alice_identity, one_time_key),
               ECDH(alice_base, BobIdentity),
               ECDH(alice_base, one_time_key)>>
             \o IF one_time_key # prekey THEN <<ECDH(alice_base, prekey)>> ELSE <<>>)

(* Mutant: a pre-key used as a one-time key counts twice.                  *)
InboundSecretFourSteps(header) ==
    SecretOf(<<ECDH(header.one_time, header.identity),
               ECDH(BobIdentity, header.base),
               ECDH(header.one_time, header.base),
               ECDH(header.prekey, header.base)>>)

(* The secret of an inbound session.                                       *)
InboundSecret(header) ==
    SecretOf(<<ECDH(header.one_time, header.identity),
               ECDH(BobIdentity, header.base),
               ECDH(header.one_time, header.base)>>
             \o IF header.one_time # header.prekey
                THEN <<ECDH(header.prekey, header.base)>> ELSE <<>>)

-----------------------------------------------------------------------------
Init ==
    /\ account = NewAccount
    /\ uploading = {}
    /\ server = [prekey |-> NoKey, fallback |-> NoKey, one_time |-> {}, claimed |-> {}]
    /\ outbound = {}
    /\ pending = {}
    /\ inbound = <<>>
    /\ removed = {}

(* Bob's application generates and forgets keys.  It replaces a key that   *)
(* is published, and lets go of the one before when nobody can use it any  *)
(* more: every session created with it has arrived.                        *)
Inbound == {inbound[i] : i \in 1 .. Len(inbound)}
Awaited == {s \in outbound : \A t \in Inbound : t.origin # s.origin}
Unused(key) == \A s \in Awaited : key \notin {s.one_time, s.prekey}

OneTimeKeys ==
    \E number_of_keys \in 1 .. MaxIds - account.next_one_time_key_id :
        account' = GenerateOneTimeKeys(account, number_of_keys)

FallbackKey ==
    /\ account.num_fallback_keys = 0 \/ account.current_fallback_key.published
    /\ Unused(account.prev_fallback_key.key)
    /\ account.next_one_time_key_id < MaxIds
    /\ account' = GenerateFallbackKey(account)

Prekey ==
    /\ account.current_prekey.published /\ Unused(account.prev_prekey.key)
    /\ account.next_prekey_id < MaxPrekeys
    /\ account' = GeneratePrekey(account)

ForgetFallback ==
    /\ account.current_fallback_key.published /\ Unused(account.prev_fallback_key.key)
    /\ account' = ForgetOldFallbackKey(account)

ForgetPrekey ==
    /\ account.current_prekey.published /\ Unused(account.prev_prekey.key)
    /\ account' = ForgetOldPrekey(account)

Maintain ==
    /\ uploading = {}
    /\ OneTimeKeys \/ FallbackKey \/ Prekey \/ ForgetFallback \/ ForgetPrekey
    /\ UNCHANGED <<uploading, server, outbound, pending, inbound, removed>>

(* An upload, of which the application may never get the answer.  The      *)
(* server does not take a one-time key that it has handed out already.     *)
BeginUpload ==
    /\ uploading = {}
    /\ uploading' = UnpublishedKeys(account)
    /\ UNCHANGED <<account, server, outbound, pending, inbound, removed>>

OfKind(keys, kind, default) ==
    IF \E k \in keys : k.kind = kind THEN CHOOSE k \in keys : k.kind = kind ELSE default

EndUpload(answered) ==
    /\ uploading # {}
    /\ uploading' = {}
    /\ server' = [prekey |-> OfKind(uploading, "prekey", server.prekey),
                  fallback |-> OfKind(uploading, "fallback", server.fallback),
                  one_time |-> server.one_time \cup
                      {k \in uploading : k.kind = "one_time" /\ k \notin server.claimed},
                  claimed |-> server.claimed]
    /\ account' = IF answered THEN MarkPrekeyAsPublished(MarkKeysAsPublished(account))
                  ELSE account
    /\ UNCHANGED <<outbound, pending, inbound, removed>>

(* An initiator claims Bob's keys and creates a session: with a one-time   *)
(* key, with the fallback key when there is no other, or with neither.     *)
(* When the signature of the pre-key is not verified there is no session,  *)
(* and the one-time key is spent.                                          *)
NewOutboundSession(i, verified) ==
    /\ server.prekey # NoKey
    /\ Cardinality(outbound) < MaxOutbound
    /\ \E one_time \in (server.one_time \cup {server.fallback, server.prekey}) \ {NoKey} :
          LET n == Cardinality(outbound) + 1
              base == Key("base", n)
              session == [origin |-> n, identity |-> Identity(i), base |-> base,
                          one_time |-> one_time, prekey |-> server.prekey,
                          secret |-> OutboundSecret(Identity(i), base, one_time, server.prekey)]
          IN  /\ one_time = server.fallback => server.one_time = {}
              /\ server' = [server EXCEPT !.one_time = @ \ {one_time},
                                          !.claimed = @ \cup ({one_time} \cap server.one_time)]
              /\ outbound' = IF verified THEN outbound \cup {session} ELSE outbound
    /\ UNCHANGED <<account, uploading, pending, inbound, removed>>

-----------------------------------------------------------------------------
(* Bob receives a pre-key message of session s.                            *)

PreKeyMessages(s) == {s} \cup {[s EXCEPT ![part] = Garbage] : part \in DamagedParts}

(* Mutant: the base key is not compared.                                   *)
MatchesKeysOnly(session, message) ==
    /\ message.identity = session.identity
    /\ message.one_time = session.one_time

(* Mutant: the one-time key is compared with the pre-key of the message.   *)
MatchesPrekey(session, message) ==
    /\ message.identity = session.identity
    /\ message.base = session.base
    /\ message.prekey = session.one_time

(* matches_inbound_session(): the pre-key is not compared.                 *)
MatchesInboundSession(session, message) ==
    /\ message.identity = session.identity
    /\ message.base = session.base
    /\ message.one_time = session.one_time

(* new_inbound_session() succeeds: the keys of the header are known, and   *)
(* the sender is who the application expected, if it expected anyone.      *)
Answers(message, their_identity) ==
    /\ their_identity = NoKey \/ message.identity = their_identity
    /\ KnowsKey(account, message.one_time) \/ message.one_time = message.prekey
    /\ KnowsPrekey(account, message.prekey)

SessionFrom(message) == [message EXCEPT !.secret = InboundSecret(message)]

(* The application first tries the sessions it has.                        *)
NewInboundSession(s, message, their_identity) ==
    /\ pending = {}
    /\ \A t \in Inbound : ~MatchesInboundSession(t, message)
    /\ Answers(message, their_identity)
    /\ pending' = {[session |-> SessionFrom(message), secret |-> s.secret]}
    /\ UNCHANGED <<account, uploading, server, outbound, inbound, removed>>

(* It fails: the account is unchanged, and the application drops the       *)
(* session object, some of whose fields have been assigned.                *)
NewInboundSessionFails(message, their_identity) ==
    /\ pending = {}
    /\ ~Answers(message, their_identity)
    /\ UNCHANGED vars

(* The session decrypts the message it was created from, or is dropped.    *)
DecryptFirst ==
    \E p \in pending :
        /\ pending' = {}
        /\ inbound' = IF p.session.secret = p.secret THEN Append(inbound, p.session) ELSE inbound
        /\ UNCHANGED <<account, uploading, server, outbound, removed>>

(* olm_remove_one_time_keys(), which does nothing for a session without    *)
(* one.                                                                    *)
RemoveOneTimeKeys(session) ==
    /\ account' = IF session.one_time = session.prekey THEN account
                  ELSE RemoveKey(account, session.one_time)
    /\ removed' = removed \cup {session.one_time}
    /\ UNCHANGED <<uploading, server, outbound, pending, inbound>>

Next ==
    \/ Maintain
    \/ BeginUpload
    \/ \E answered \in BOOLEAN : EndUpload(answered)
    \/ \E i \in Initiators, verified \in BOOLEAN : NewOutboundSession(i, verified)
    \/ \E s \in outbound : \E message \in PreKeyMessages(s), id \in {NoKey, s.identity} :
          NewInboundSession(s, message, id) \/ NewInboundSessionFails(message, id)
    \/ DecryptFirst
    \/ \E session \in Inbound : RemoveOneTimeKeys(session)

Spec == Init /\ [][Next]_vars
-----------------------------------------------------------------------------
(* The account keeps its shape: no list outgrows its array, and the slots  *)
(* in use are those the numbers of keys say.                               *)
TypeOK ==
    /\ account.one_time_keys \in Seq(Slots)
    /\ Len(account.one_time_keys) <= MAX_ONE_TIME_KEYS
    /\ account.num_prekeys \in 1 .. 2
    /\ account.num_prekeys = 1 <=> account.prev_prekey = Unset
    /\ account.num_fallback_keys \in 0 .. 2
    /\ account.num_fallback_keys = 0 <=> account.current_fallback_key.key = NoKey
    /\ account.num_fallback_keys = 2 <=> account.prev_fallback_key.key # NoKey
    /\ uploading \subseteq Keys
    /\ server.one_time \subseteq Keys

(* A key that is handed out, or was and not answered yet, is still there   *)
(* when a message comes that uses it, however keys were rotated, forgotten,*)
(* uploaded again and removed in the meantime.  The only exception is a    *)
(* one-time key that was pushed off a full list by that many newer ones.   *)
PushedOut(key) ==
    /\ key.kind = "one_time"
    /\ Cardinality({id \in key.id + 1 .. account.next_one_time_key_id :
                       \A k \in {account.current_fallback_key, account.prev_fallback_key} :
                           k.id # id}) >= MAX_ONE_TIME_KEYS

HandedOutKeysKnown ==
    /\ server.prekey # NoKey => KnowsPrekey(account, server.prekey)
    /\ server.fallback # NoKey => KnowsKey(account, server.fallback)
    /\ \A key \in server.one_time : KnowsKey(account, key) \/ PushedOut(key)
    /\ \A s \in Awaited :
          \/ Answers(s, s.identity)
          \/ PushedOut(s.one_time)

(* Whoever ends up with a session agrees with the other end on the secret, *)
(* whichever of the three kinds of key it was created with.                *)
SecretsAgree ==
    \A s \in outbound : SessionFrom(s).secret = s.secret

(* A pre-key message matches exactly the session that was created from its *)
(* session, though several were created with the same keys.                *)
MatchesExactly ==
    \A s \in outbound : \A t \in Inbound :
        MatchesInboundSession(t, s) <=> s.origin = t.origin

(* One outbound session leads to one inbound session, however often its    *)
(* messages arrive and whenever its one-time key is removed.               *)
OneSessionEach ==
    \A i, j \in 1 .. Len(inbound) : inbound[i].origin = inbound[j].origin => i = j

(* A removed one-time key never serves again.                              *)
RemovedKeysGone == \A key \in removed : ~HasOneTimeKey(account, key)

(* A key is marked as published only if the server has had it.             *)
PublishedKeysUploaded ==
    /\ \A i \in 1 .. Len(account.one_time_keys) :
          account.one_time_keys[i].published
          => account.one_time_keys[i].key \in server.one_time \cup server.claimed
    /\ account.current_fallback_key.published /\ account.num_fallback_keys > 0
          => account.current_fallback_key.key = server.fallback
    /\ account.current_prekey.published => account.current_prekey.key = server.prekey

-----------------------------------------------------------------------------
(* A statement of the documentation.                                       *)
(* docs/olm.md: the shared secret is made of ECDH(I_A, E_B), ECDH(E_A,     *)
(* I_B) and ECDH(E_A, E_B), and so differs with Alice's base key E_A.      *)
SecretsDiffer ==
    \A s, t \in outbound : s.base # t.base => s.secret # t.secret
=============================================================================
