---------------------------- MODULE SessionPair ----------------------------
(***************************************************************************)
(* The two ends of one established session (src/session.cpp over           *)
(* src/ratchet.cpp): the party that created it outbound and the party that *)
(* created it inbound exchange messages over a network that loses,         *)
(* duplicates, reorders and damages them.  Each action is one call of      *)
(* olm_encrypt, olm_decrypt or olm_decrypt_sequential; the library is      *)
(* called by one thread at a time, so a call is one step.                  *)
(*                                                                         *)
(* Session::last_error is left out: no code path reads it, and the errors  *)
(* a call can answer with are Ratchet!Rejects.                             *)
(***************************************************************************)
EXTENDS Ratchet

CONSTANTS
    Alice, Bob,         \* who called new_outbound_session, new_inbound_session
    Secret,             \* the secret they agreed on
    Noise,              \* what a damaged message body was encrypted with
    DamagedCounters,    \* counters that damage can put into a header
    DamagedKeys,        \* ratchet keys that damage can put into a header
    Modes,              \* the is_sequential arguments the applications use
    MaxSends            \* bound: messages each party encrypts

ASSUME SessionAssumption ==
    /\ Alice # Bob
    /\ Noise # Secret
    /\ DamagedCounters \subseteq Nat
    /\ DamagedKeys \subseteq [owner : {Alice, Bob}, n : Nat]
    /\ Modes \subseteq BOOLEAN
    /\ MaxSends \in Nat

VARIABLES
    ratchet,            \* Session::ratchet of each party
    received_message,   \* Session::received_message of each party
    generated,          \* the number of ratchet keys each party generated
    sent,               \* every message encrypted; the network keeps a copy
    encrypted,          \* the number of messages each party encrypted
    delivered,          \* the messages each party decrypted
    decrypted           \* how often each party's decrypt succeeded

vars == <<ratchet, received_message, generated, sent, encrypted, delivered, decrypted>>

Party == {Alice, Bob}
Peer(p) == IF p = Alice THEN Bob ELSE Alice
RatchetKey(p, n) == [owner |-> p, n |-> n]

SentTo(p) == {m \in sent : m.from = Peer(p)}

(* Bob's session is made from a pre-key message of Alice's.                *)
HasSession(p) == p = Alice \/ SentTo(p) # {}

(* What can arrive at p: a message of its peer, whole or with its counter, *)
(* its ratchet key or its body damaged on the way.                         *)
Frames(p) ==
    UNION {{m} \cup {[m EXCEPT !.counter = c] : c \in DamagedCounters}
               \cup {[m EXCEPT !.ratchet_key = k] : k \in DamagedKeys}
               \cup {[m EXCEPT !.key = [root |-> InitialRootKey(Noise), steps |-> 0]]} :
           m \in SentTo(p)}

-----------------------------------------------------------------------------
Init ==
    /\ ratchet = [p \in Party |->
            IF p = Alice THEN InitialiseAsAlice(Secret, RatchetKey(Alice, 0))
                         ELSE InitialiseAsBob(Secret, RatchetKey(Alice, 0))]
    /\ received_message = [p \in Party |-> FALSE]
    /\ generated = [p \in Party |-> IF p = Alice THEN 1 ELSE 0]
    /\ sent = {}
    /\ encrypted = [p \in Party |-> 0]
    /\ delivered = [p \in Party |-> {}]
    /\ decrypted = [p \in Party |-> 0]

(* Session::encrypt_message_type().                                        *)
EncryptMessageType(p) == IF received_message[p] THEN "MESSAGE" ELSE "PRE_KEY"

(* The message that encrypt() of a ratchet with a sender chain writes.     *)
Message(p, r) ==
    LET header == EncryptedHeader(r)
    IN  [from |-> p, body |-> encrypted[p], type |-> EncryptMessageType(p),
         ratchet_key |-> header.ratchet_key, counter |-> header.counter,
         key |-> header.key]

(* olm_encrypt().                                                          *)
Encrypt(p) ==
    LET r == EnsureSenderChain(ratchet[p], RatchetKey(p, generated[p])) IN
    /\ HasSession(p)
    /\ encrypted[p] < MaxSends
    /\ sent' = sent \cup {Message(p, r)}
    /\ ratchet' = [ratchet EXCEPT ![p] = AdvanceSenderChain(r)]
    /\ generated' = [generated EXCEPT ![p] =
                        IF ratchet[p].sender_chain = <<>> THEN @ + 1 ELSE @]
    /\ encrypted' = [encrypted EXCEPT ![p] = @ + 1]
    /\ UNCHANGED <<received_message, delivered, decrypted>>

(* olm_decrypt() and olm_decrypt_sequential() succeed: the plaintext goes  *)
(* to the application and the session is known to work both ways.          *)
Deliver(p, m) ==
    /\ delivered' = [delivered EXCEPT ![p] = @ \cup {m}]
    /\ decrypted' = [decrypted EXCEPT ![p] = @ + 1]
    /\ received_message' = [received_message EXCEPT ![p] = TRUE]
    /\ UNCHANGED <<generated, sent, encrypted>>

DecryptOnNewChain(p, m) ==
    /\ AcceptsOnNewChain(ratchet[p], m)
    /\ ratchet' = [ratchet EXCEPT ![p] =
                      AdvanceReceiverChain(AddReceiverChain(@, m), 1, m.counter)]
    /\ Deliver(p, m)

DecryptOnChain(p, m, sequential) ==
    \E i \in 1 .. Len(ratchet[p].receiver_chains) :
        /\ AcceptsOnChain(ratchet[p], m, i, sequential)
        /\ ratchet' = [ratchet EXCEPT ![p] = AdvanceReceiverChain(@, i, m.counter)]
        /\ Deliver(p, m)

DecryptSkipped(p, m) ==
    \E j \in 1 .. Len(ratchet[p].skipped_message_keys) :
        /\ AcceptsSkipped(ratchet[p], m, j)
        /\ ratchet' = [ratchet EXCEPT ![p] = UseSkipped(@, j)]
        /\ Deliver(p, m)

(* They fail: every error path returns before the session is touched.      *)
DecryptRejected(p, m, sequential) ==
    /\ \E error \in DecryptErrors : Rejects(ratchet[p], m, sequential, error)
    /\ UNCHANGED vars

Decrypt(p, m, sequential) ==
    \/ DecryptOnNewChain(p, m)
    \/ DecryptOnChain(p, m, sequential)
    \/ DecryptSkipped(p, m)

Next ==
    \E p \in Party :
        \/ Encrypt(p)
        \/ \E m \in Frames(p), sequential \in Modes :
              Decrypt(p, m, sequential) \/ DecryptRejected(p, m, sequential)

Spec == Init /\ [][Next]_vars
-----------------------------------------------------------------------------
(* The shape of the state.                                                 *)
Secrets == {Secret, Noise}
RatchetKeys == [owner : Party, n : Nat]
RootKeys == [secret : Secrets, dhs : Seq(SUBSET RatchetKeys)]
SymmetricKeys == [root : RootKeys, steps : Nat]
ChainKeys == [index : Nat, key : SymmetricKeys]
Chains == [ratchet_key : RatchetKeys, chain_key : ChainKeys]
Ratchets ==
    [root_key : RootKeys, sender_chain : Seq(Chains), receiver_chains : Seq(Chains),
     skipped_message_keys : Seq([ratchet_key : RatchetKeys, message_key : ChainKeys])]
Messages ==
    [from : Party, body : Nat, type : {"PRE_KEY", "MESSAGE"},
     ratchet_key : RatchetKeys, counter : Nat, key : SymmetricKeys]

(* Every variable keeps its shape, and no list outgrows its array.         *)
TypeOK ==
    /\ ratchet \in [Party -> Ratchets]
    /\ \A p \in Party :
          /\ Len(ratchet[p].sender_chain) <= 1
          /\ Len(ratchet[p].receiver_chains) <= MAX_RECEIVER_CHAINS
          /\ Len(ratchet[p].skipped_message_keys) <= MAX_SKIPPED_MESSAGE_KEYS
    /\ received_message \in [Party -> BOOLEAN]
    /\ generated \in [Party -> Nat]
    /\ sent \subseteq Messages
    /\ encrypted \in [Party -> Nat]
    /\ delivered \in [Party -> SUBSET Messages]
    /\ decrypted \in [Party -> Nat]

(* Forward secrecy: no key that a party holds derives the key of a message *)
(* it decrypted, and its sender chain derives no key it encrypted with.    *)
(* A device that is lost gives nothing away of what it has read.           *)
Derives(chain_key, key) ==
    chain_key.key.root = key.root /\ chain_key.key.steps <= key.steps

UsedKeysErased ==
    \A p \in Party :
        /\ \A m \in delivered[p] :
              /\ \A i \in 1 .. Len(ratchet[p].receiver_chains) :
                    ~Derives(ratchet[p].receiver_chains[i].chain_key, m.key)
              /\ \A j \in 1 .. Len(ratchet[p].skipped_message_keys) :
                    ratchet[p].skipped_message_keys[j].message_key.key # m.key
        /\ \A m \in SentTo(Peer(p)) : \A i \in 1 .. Len(ratchet[p].sender_chain) :
              ~Derives(ratchet[p].sender_chain[i].chain_key, m.key)

(* No two messages of a session are encrypted with the same key, however   *)
(* the two parties' turns, new chains and deliveries interleave.           *)
MessageKeysUnique == \A m, n \in sent : m.key = n.key => m = n

(* A message that was decrypted once is never accepted again: not by its   *)
(* chain, not with a skipped key, and not on a new chain after its own     *)
(* chain has been dropped from receiver_chains.                            *)
NoReplay == \A p \in Party : \A m \in delivered[p] : ~Accepts(ratchet[p], m, FALSE)

(* The two ratchets never drift apart.  The chain a party sends on is one  *)
(* its peer receives on, or one the peer would derive, with the same root  *)
(* key, from the first message it sees of it; and one of the two always    *)
(* has a sender chain, so that they never turn the ratchet both at once.   *)
KnowsChain(r, chain) ==
    /\ r.receiver_chains # <<>>
    /\ r.receiver_chains[1].ratchet_key = chain.ratchet_key
    /\ Derives(r.receiver_chains[1].chain_key, chain.chain_key.key)

CanFollow(r, chain) ==
    /\ ~HasChainFor(r, chain)
    /\ r.sender_chain # <<>>
    /\ NewRootFor(r, chain) = chain.chain_key.key.root

InSync ==
    /\ \A p \in Party : \A i \in 1 .. Len(ratchet[p].sender_chain) :
          \/ KnowsChain(ratchet[Peer(p)], ratchet[p].sender_chain[i])
          \/ CanFollow(ratchet[Peer(p)], ratchet[p].sender_chain[i])
    /\ \E p \in Party : ratchet[p].sender_chain # <<>>

(* encrypt() reads receiver_chains[0] without looking whether there is     *)
(* one: it is there whenever the sender chain has to be made.              *)
EncryptHasPeerKey ==
    \A p \in Party : ratchet[p].sender_chain = <<>> => ratchet[p].receiver_chains # <<>>

(* The chains kept for late messages are those of the peer's latest        *)
(* ratchet keys, newest first, without a gap; none is given up early.      *)
KeepsNewestChains ==
    \A p \in Party : LET chains == ratchet[p].receiver_chains IN
        /\ \A i \in 1 .. Len(chains) :
              chains[i].ratchet_key = RatchetKey(Peer(p), chains[1].ratchet_key.n - (i - 1))
        /\ \A i \in 1 .. Len(chains) : i = Len(chains) /\ i < MAX_RECEIVER_CHAINS
              => chains[i].ratchet_key.n = 0

(* When skipped keys overflow, the ones discarded are the oldest: as long  *)
(* as a party can open a late message, it can open every later one of the  *)
(* same chain that it passed over and has not decrypted.                   *)
PassedOver(p, m) ==
    \E i \in 1 .. Len(ratchet[p].receiver_chains) :
        IsChainFor(ratchet[p], m, i) /\ m.counter < ChainIndex(ratchet[p], i)

OldestKeyLostFirst ==
    \A p \in Party : \A m, n \in SentTo(p) \ delivered[p] :
        (/\ m.ratchet_key = n.ratchet_key /\ m.counter < n.counter
         /\ PassedOver(p, n) /\ Accepts(ratchet[p], m, FALSE))
        => Accepts(ratchet[p], n, FALSE)

(* A full list gives up what is oldest, and nothing before it is full.     *)
LosesOldestFirst == KeepsNewestChains /\ OldestKeyLostFirst

-----------------------------------------------------------------------------
(* What holds while the limits are not reached: no message is ever lost to *)
(* its recipient, in whatever order messages arrive ...                    *)
UndeliveredAccepted ==
    \A p \in Party : \A m \in SentTo(p) \ delivered[p] : Accepts(ratchet[p], m, FALSE)

(* ... and a duplicate is answered as such and not as a bad message.       *)
DuplicatesReported ==
    \A p \in Party : \A m \in delivered[p] :
        Rejects(ratchet[p], m, FALSE, "OLM_ALREADY_DECRYPTED_OR_KEYS_SKIPPED")

-----------------------------------------------------------------------------
(* Everything above but the limits, as the service the session offers: a   *)
(* message is delivered at most once, and only if the peer sent it.        *)
Channel == INSTANCE MessageChannel
ChannelSpec == Channel!Spec
=============================================================================
