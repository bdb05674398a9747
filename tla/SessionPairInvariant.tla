------------------------ MODULE SessionPairInvariant ------------------------
(***************************************************************************)
(* The inductive invariant behind the safety of SessionPair.  Its idea:    *)
(* every chain is identified by the root key it was derived with; a party  *)
(* meets roots of growing length only, so that a chain it has dropped can  *)
(* never be derived again; and on each chain it still has, everything it   *)
(* decrypted lies below the chain's index and off the skipped keys.        *)
(* LockstepInv adds how far the two ratchets can be apart, SkippedInv what *)
(* the list of skipped keys leaves out, and RoomInv that it leaves out     *)
(* nothing where there is room for all that is sent.                       *)
(***************************************************************************)
EXTENDS SessionPair

FirstKey == RatchetKey(Alice, 0)

RootLength(root) == Len(root.dhs)

LastDH(root) == root.dhs[Len(root.dhs)]

(* The key was generated, and root is the root of the chain it sends on.   *)
IsChain(messages, ratchet_key, root) ==
    \/ ratchet_key = FirstKey /\ root = InitialRootKey(Secret)
    \/ \E m \in messages : m.ratchet_key = ratchet_key /\ m.key.root = root

(* Index and steps agree.                                                  *)
InStep(chain_key) == chain_key.index = chain_key.key.steps

(* A message carries the key its header says; the last secret mixed into   *)
(* its root is that of its ratchet key and an earlier one of the peer.     *)
SentSound ==
    \A m \in sent :
        /\ m.counter = m.key.steps
        /\ m.key.root.secret = Secret
        /\ m.ratchet_key.owner = m.from
        /\ m.ratchet_key.n < generated[m.from]
        /\ RootLength(m.key.root) > 0 =>
              \E k \in LastDH(m.key.root) :
                  /\ k.owner = Peer(m.from)
                  /\ k.n < generated[k.owner]
                  /\ LastDH(m.key.root) = {m.ratchet_key, k}

(* A root belongs to one ratchet key.                                      *)
OneKeyPerRoot ==
    /\ \A m, n \in sent : m.key.root = n.key.root => m.ratchet_key = n.ratchet_key
    /\ \A m \in sent : m.key.root = InitialRootKey(Secret) => m.ratchet_key = FirstKey

SenderSound(p) ==
    \A i \in 1 .. Len(ratchet[p].sender_chain) :
        LET chain == ratchet[p].sender_chain[i] IN
        /\ InStep(chain.chain_key)
        /\ chain.ratchet_key.owner = p
        /\ chain.ratchet_key.n < generated[p]
        /\ IsChain(sent, chain.ratchet_key, chain.chain_key.key.root)
        /\ \A m \in sent : m.key.root = chain.chain_key.key.root
              => m.counter < chain.chain_key.index

ReceiverSound(p, r) ==
    /\ \A i \in 1 .. Len(r.receiver_chains) :
          LET chain == r.receiver_chains[i] IN
          /\ InStep(chain.chain_key)
          /\ chain.ratchet_key.owner = Peer(p)
          /\ chain.ratchet_key.n < generated[Peer(p)]
          /\ IsChain(sent, chain.ratchet_key, chain.chain_key.key.root)
          /\ RootLength(chain.chain_key.key.root) <= RootLength(r.root_key)
    /\ \A i, j \in 1 .. Len(r.receiver_chains) :
          r.receiver_chains[i].chain_key.key.root = r.receiver_chains[j].chain_key.key.root
          => i = j

SkippedSound(r) ==
    LET skipped == r.skipped_message_keys IN
    /\ \A j \in 1 .. Len(skipped) :
          /\ InStep(skipped[j].message_key)
          /\ IsChain(sent, skipped[j].ratchet_key, skipped[j].message_key.key.root)
          /\ RootLength(skipped[j].message_key.key.root) <= RootLength(r.root_key)
          /\ \A i \in 1 .. Len(r.receiver_chains) :
                r.receiver_chains[i].chain_key.key.root = skipped[j].message_key.key.root
                => skipped[j].message_key.index < ChainIndex(r, i)
    /\ \A j, k \in 1 .. Len(skipped) :
          skipped[j].message_key.key = skipped[k].message_key.key => j = k

DeliveredSound(r, messages) ==
    \A m \in messages :
        /\ RootLength(m.key.root) <= RootLength(r.root_key)
        /\ \A i \in 1 .. Len(r.receiver_chains) :
              r.receiver_chains[i].chain_key.key.root = m.key.root
              => m.counter < ChainIndex(r, i)
        /\ \A j \in 1 .. Len(r.skipped_message_keys) :
              r.skipped_message_keys[j].message_key.key # m.key

(* The invariant that every step preserves.                                *)
IInv ==
    /\ TypeOK
    /\ generated[Alice] > 0
    /\ SentSound
    /\ OneKeyPerRoot
    /\ MessageKeysUnique
    /\ \A p \in Party :
          /\ ratchet[p].root_key.secret = Secret
          /\ SenderSound(p)
          /\ ReceiverSound(p, ratchet[p])
          /\ SkippedSound(ratchet[p])
          /\ DeliveredSound(ratchet[p], delivered[p])
          /\ delivered[p] \subseteq SentTo(p)
    /\ EncryptHasPeerKey

-----------------------------------------------------------------------------
(* How the two ratchets stay in step.  One party follows the other: it     *)
(* receives on the chain the other sends on, and either has nothing to     *)
(* send on, with the same root key (Led), or has turned the ratchet once   *)
(* more, which the other has not seen yet (Turned).                        *)
LatestKey(p) == RatchetKey(p, generated[p] - 1)

(* The newest chain q receives on is that of the count-th key of its peer. *)
HasSeen(q, count) ==
    IF ratchet[q].receiver_chains = <<>> THEN count = 0
    ELSE /\ count > 0
         /\ ratchet[q].receiver_chains[1].ratchet_key = RatchetKey(Peer(q), count - 1)

(* Every message of p is on a chain its peer has derived, but for those on *)
(* the chain of root.                                                      *)
KnownOrOn(p, root) ==
    \A m \in SentTo(Peer(p)) :
        \/ RootLength(m.key.root) <= RootLength(ratchet[Peer(p)].root_key)
        \/ m.key.root = root

Led(p) ==
    /\ ratchet[p].sender_chain = <<>>
    /\ ratchet[p].root_key = ratchet[Peer(p)].root_key
    /\ HasSeen(Peer(p), generated[p])
    /\ KnownOrOn(p, ratchet[p].root_key)

Turned(p) ==
    /\ ratchet[p].sender_chain # <<>>
    /\ ratchet[p].root_key =
          NextRootKey(ratchet[Peer(p)].root_key, LatestKey(p), LatestKey(Peer(p)))
    /\ HasSeen(Peer(p), generated[p] - 1)
    /\ KnownOrOn(p, ratchet[p].root_key)

Follows(p) ==
    /\ ratchet[Peer(p)].sender_chain # <<>>
    /\ KnowsChain(ratchet[p], ratchet[Peer(p)].sender_chain[1])
    /\ \A m \in SentTo(p) : RootLength(m.key.root) <= RootLength(ratchet[Peer(p)].root_key)
    /\ Led(p) \/ Turned(p)

(* A party sends on a chain of its latest ratchet key and its root key.    *)
SendsOnLatest(p) ==
    \A i \in 1 .. Len(ratchet[p].sender_chain) :
        /\ ratchet[p].sender_chain[i].ratchet_key = LatestKey(p)
        /\ ratchet[p].sender_chain[i].chain_key.key.root = ratchet[p].root_key

(* A ratchet key belongs to one root.                                      *)
OneRootPerKey ==
    /\ \A m, n \in sent : m.ratchet_key = n.ratchet_key => m.key.root = n.key.root
    /\ \A m \in sent : m.ratchet_key = FirstKey => m.key.root = InitialRootKey(Secret)

LockstepInv ==
    /\ IInv
    /\ OneRootPerKey
    /\ \A p \in Party : SendsOnLatest(p)
    /\ KeepsNewestChains
    /\ \E p \in Party : Follows(p)

-----------------------------------------------------------------------------
(* What the skipped keys of a chain leave out: they lie newest first, and  *)
(* above one that is kept everything the chain has passed is kept too, or  *)
(* was decrypted.                                                          *)
NewestFirst(skipped) ==
    \A j, k \in 1 .. Len(skipped) :
        (/\ skipped[j].message_key.key.root = skipped[k].message_key.key.root
         /\ j < k)
        => skipped[j].message_key.index > skipped[k].message_key.index

KeptOrRead(r, messages, root, c) ==
    \/ \E k \in 1 .. Len(r.skipped_message_keys) :
          r.skipped_message_keys[k].message_key.key = [root |-> root, steps |-> c]
    \/ \E d \in messages : d.key = [root |-> root, steps |-> c]

NothingLostAbove(r, messages) ==
    \A i \in 1 .. Len(r.receiver_chains), j \in 1 .. Len(r.skipped_message_keys) :
        LET key == r.skipped_message_keys[j].message_key IN
        key.key.root = r.receiver_chains[i].chain_key.key.root =>
            \A c \in key.index + 1 .. ChainIndex(r, i) - 1 :
                KeptOrRead(r, messages, key.key.root, c)

SkippedInv ==
    /\ LockstepInv
    /\ \A p \in Party :
          /\ NewestFirst(ratchet[p].skipped_message_keys)
          /\ NothingLostAbove(ratchet[p], delivered[p])
-----------------------------------------------------------------------------
(* What is sent and what is kept, counted: the keys of a chain are used in *)
(* turn, by messages that the sender has numbered, so that no more ratchet *)
(* keys are made and no more message keys skipped than messages are sent.  *)
(* With room for as many, a chain loses nothing that it passes.            *)
Room ==
    /\ MaxSends <= MAX_MESSAGE_GAP + 1
    /\ MaxSends <= MAX_RECEIVER_CHAINS
    /\ MaxSends <= MAX_SKIPPED_MESSAGE_KEYS + 1

WasSent(p, root, c) == \E m \in sent : m.from = p /\ m.key = [root |-> root, steps |-> c]

Numbered ==
    /\ \A p \in Party : encrypted[p] <= MaxSends
    /\ \A m \in sent :
          /\ m.counter <= m.body /\ m.body < encrypted[m.from]
          /\ \A c \in 0 .. m.counter - 1 : WasSent(m.from, m.key.root, c)
    /\ \A m, n \in sent : m.from = n.from /\ m.body = n.body => m = n

SentInTurn(p) ==
    \A i \in 1 .. Len(ratchet[p].sender_chain) :
        LET chain_key == ratchet[p].sender_chain[i].chain_key IN
        /\ chain_key.index <= encrypted[p]
        /\ \A c \in 0 .. chain_key.index - 1 : WasSent(p, chain_key.key.root, c)

(* A ratchet key is made for a message; the first is made with the session.*)
KeyForMessage(p) ==
    \/ generated[p] <= encrypted[p]
    \/ p = Alice /\ generated[p] = 1 /\ ratchet[p].sender_chain # <<>> /\ sent = {}

SkippedSent(p, r) ==
    \A j \in 1 .. Len(r.skipped_message_keys) :
        LET key == r.skipped_message_keys[j].message_key.key IN
        WasSent(Peer(p), key.root, key.steps)

NonePassedLost(r, messages) ==
    \A i \in 1 .. Len(r.receiver_chains) : \A c \in 0 .. ChainIndex(r, i) - 1 :
        KeptOrRead(r, messages, r.receiver_chains[i].chain_key.key.root, c)

RoomInv ==
    /\ SkippedInv
    /\ Numbered
    /\ \A p \in Party :
          /\ SentInTurn(p)
          /\ KeyForMessage(p)
          /\ SkippedSent(p, ratchet[p])
          /\ NonePassedLost(ratchet[p], delivered[p])
=============================================================================
