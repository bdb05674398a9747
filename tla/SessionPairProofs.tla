------------------------- MODULE SessionPairProofs -------------------------
(***************************************************************************)
(* Proofs about SessionPair, for every value of its constants: what each   *)
(* operation of the ratchet does to its lists; that every step preserves   *)
(* the inductive invariant IInv of SessionPairInvariant; and what follows  *)
(* from it: type correctness, forward secrecy, unique message keys, no     *)
(* replay, and that the pair of sessions implements MessageChannel.  Then  *)
(* the same of its stronger forms LockstepInv, from which the two ratchets *)
(* stay in step, SkippedInv, from which keys are lost oldest first, and    *)
(* RoomInv, from which none is lost where there is room for all that are   *)
(* sent.                                                                   *)
(***************************************************************************)
EXTENDS SessionPairInvariant, OlmListProofs, FiniteSetTheorems

USE SessionAssumption, RatchetLimits

-----------------------------------------------------------------------------
(* The two parties.                                                        *)
LEMMA PeerFacts ==
    ASSUME NEW p \in Party
    PROVE  /\ Peer(p) \in Party /\ Peer(p) # p /\ Peer(Peer(p)) = p
           /\ \A q \in Party : q # p => q = Peer(p)
BY DEF Party, Peer

LEMMA RatchetKeyType ==
    ASSUME NEW p \in Party, NEW n \in Nat
    PROVE  /\ RatchetKey(p, n) \in RatchetKeys
           /\ RatchetKey(p, n).owner = p /\ RatchetKey(p, n).n = n
BY DEF RatchetKey, RatchetKeys

-----------------------------------------------------------------------------
(* Key derivation (create_chain_key, advance_chain_key): a new root key    *)
(* is one ECDH longer than the one before it.                              *)
LEMMA NextRootKeyFacts ==
    ASSUME NEW root \in RootKeys, NEW k \in RatchetKeys, NEW l \in RatchetKeys
    PROVE  /\ NextRootKey(root, k, l) \in RootKeys
           /\ NextRootKey(root, k, l).secret = root.secret
           /\ RootLength(root) \in Nat
           /\ RootLength(NextRootKey(root, k, l)) = RootLength(root) + 1
           /\ LastDH(NextRootKey(root, k, l)) = {k, l}
<1> DEFINE next == NextRootKey(root, k, l)
<1>1. /\ root.dhs \in Seq(SUBSET RatchetKeys) /\ root.secret \in Secrets
      /\ root = [secret |-> root.secret, dhs |-> root.dhs]
    BY DEF RootKeys
<1>2. next = [secret |-> root.secret, dhs |-> Append(root.dhs, {k, l})]
    BY <1>1 DEF NextRootKey, SharedSecret
<1>3. {k, l} \in SUBSET RatchetKeys
    OBVIOUS
<1>4. /\ Append(root.dhs, {k, l}) \in Seq(SUBSET RatchetKeys)
      /\ Len(root.dhs) \in Nat
      /\ Len(Append(root.dhs, {k, l})) = Len(root.dhs) + 1
      /\ Append(root.dhs, {k, l})[Len(root.dhs) + 1] = {k, l}
    BY <1>1, <1>3, AppendProperties, LenProperties
<1> QED
    BY <1>1, <1>2, <1>4 DEF RootKeys, RootLength, LastDH

LEMMA RootLengthType ==
    ASSUME NEW root \in RootKeys
    PROVE  RootLength(root) \in Nat
BY LenProperties DEF RootLength, RootKeys

LEMMA LastDHType ==
    ASSUME NEW root \in RootKeys, RootLength(root) > 0
    PROVE  LastDH(root) \in SUBSET RatchetKeys
<1>1. root.dhs \in Seq(SUBSET RatchetKeys)
    BY DEF RootKeys
<1>2. Len(root.dhs) \in Nat /\ Len(root.dhs) > 0
    BY <1>1, LenProperties DEF RootLength
<1>3. Len(root.dhs) \in 1 .. Len(root.dhs)
    BY <1>2
<1> QED
    BY <1>1, <1>3, ElementOfSeq DEF LastDH

LEMMA FirstChainKeyFacts ==
    ASSUME NEW root \in RootKeys
    PROVE  /\ FirstChainKey(root) \in ChainKeys
           /\ FirstChainKey(root).index = 0 /\ FirstChainKey(root).key.steps = 0
           /\ FirstChainKey(root).key.root = root
BY DEF FirstChainKey, ChainKeys, SymmetricKeys

LEMMA AdvanceChainKeyFacts ==
    ASSUME NEW chain_key \in ChainKeys, NEW count \in Nat
    PROVE  LET next == AdvanceChainKey(chain_key, count) IN
           /\ next \in ChainKeys
           /\ next.index = chain_key.index + count
           /\ next.key.steps = chain_key.key.steps + count
           /\ next.key.root = chain_key.key.root
<1>1. /\ chain_key.index \in Nat /\ chain_key.key \in SymmetricKeys
      /\ chain_key.key.root \in RootKeys /\ chain_key.key.steps \in Nat
      /\ chain_key.key = [root |-> chain_key.key.root, steps |-> chain_key.key.steps]
    BY DEF ChainKeys, SymmetricKeys
<1>2. AdvanceChainKey(chain_key, count) =
         [index |-> chain_key.index + count,
          key |-> [root |-> chain_key.key.root, steps |-> chain_key.key.steps + count]]
    BY <1>1 DEF AdvanceChainKey
<1> QED
    BY <1>1, <1>2 DEF ChainKeys, SymmetricKeys

(* A message key is typed like the chain key it is made from.              *)
LEMMA CreateMessageKeyFacts ==
    ASSUME NEW chain_key \in ChainKeys
    PROVE  /\ CreateMessageKey(chain_key) \in ChainKeys
           /\ CreateMessageKey(chain_key) = chain_key
BY DEF CreateMessageKey, ChainKeys

-----------------------------------------------------------------------------
(* The parts of a ratchet.                                                 *)
SkippedKeys == [ratchet_key : RatchetKeys, message_key : ChainKeys]

LEMMA RatchetParts ==
    ASSUME NEW r \in Ratchets
    PROVE  /\ r.root_key \in RootKeys
           /\ r.sender_chain \in Seq(Chains)
           /\ r.receiver_chains \in Seq(Chains)
           /\ r.skipped_message_keys \in Seq(SkippedKeys)
           /\ r = [root_key |-> r.root_key, sender_chain |-> r.sender_chain,
                   receiver_chains |-> r.receiver_chains,
                   skipped_message_keys |-> r.skipped_message_keys]
BY DEF Ratchets, SkippedKeys

LEMMA ChainParts ==
    ASSUME NEW c \in Chains
    PROVE  /\ c.ratchet_key \in RatchetKeys /\ c.chain_key \in ChainKeys
           /\ c.chain_key.index \in Nat
           /\ c.chain_key.key \in SymmetricKeys
           /\ c.chain_key.key.root \in RootKeys
           /\ c.chain_key.key.steps \in Nat
BY DEF Chains, ChainKeys, SymmetricKeys

LEMMA ListOfChains ==
    ASSUME NEW list \in Seq(Chains)
    PROVE  /\ Len(list) \in Nat
           /\ \A i \in 1 .. Len(list) : list[i] \in Chains
           /\ list # <<>> <=> Len(list) > 0
BY LenProperties, ElementOfSeq, EmptySeq

LEMMA ListOfSkippedKeys ==
    ASSUME NEW list \in Seq(SkippedKeys)
    PROVE  /\ Len(list) \in Nat
           /\ \A i \in 1 .. Len(list) : list[i] \in SkippedKeys
BY LenProperties, ElementOfSeq

LEMMA SingleItem ==
    ASSUME NEW S, NEW list \in Seq(S), list # <<>>, Len(list) <= 1
    PROVE  Len(list) = 1
<1>1. Len(list) \in Nat \ {0}
    BY EmptySeq
<1>2. \A n \in Nat \ {0} : n <= 1 => n = 1
    OBVIOUS
<1> QED
    BY <1>1, <1>2

LEMMA SingleChain ==
    ASSUME NEW c \in Chains
    PROVE  /\ <<c>> \in Seq(Chains) /\ Len(<<c>>) = 1 /\ <<c>>[1] = c /\ <<c>> # <<>>
OBVIOUS

-----------------------------------------------------------------------------
(* encrypt() (ratchet.cpp): a sender chain is there, new or old; nothing   *)
(* else but the root key changes.                                          *)
LEMMA EnsureSenderChainFacts ==
    ASSUME NEW r \in Ratchets, NEW key \in RatchetKeys, Len(r.sender_chain) <= 1,
           r.sender_chain = <<>> => r.receiver_chains # <<>>
    PROVE  LET e == EnsureSenderChain(r, key)
               root == NextRootKey(r.root_key, key, r.receiver_chains[1].ratchet_key)
           IN
           /\ e \in Ratchets
           /\ Len(e.sender_chain) = 1
           /\ e.receiver_chains = r.receiver_chains
           /\ e.skipped_message_keys = r.skipped_message_keys
           /\ r.sender_chain # <<>> => e = r
           /\ r.sender_chain = <<>> =>
                 /\ e.root_key = root
                 /\ e.sender_chain[1].ratchet_key = key
                 /\ e.sender_chain[1].chain_key = FirstChainKey(root)
<1> DEFINE e == EnsureSenderChain(r, key)
           root == NextRootKey(r.root_key, key, r.receiver_chains[1].ratchet_key)
           chain == [ratchet_key |-> key, chain_key |-> FirstChainKey(root)]
<1>1. CASE r.sender_chain # <<>>
    <2>1. e = r
        BY <1>1 DEF EnsureSenderChain
    <2>2. Len(r.sender_chain) = 1
        BY <1>1, RatchetParts, SingleItem
    <2> QED
        BY <1>1, <2>1, <2>2
<1>2. CASE r.sender_chain = <<>>
    <2>1. r.receiver_chains[1] \in Chains
        BY <1>2, RatchetParts, ListOfChains
    <2>2. root \in RootKeys
        BY <2>1, ChainParts, RatchetParts, NextRootKeyFacts
    <2>3. chain \in Chains
        BY <2>2, FirstChainKeyFacts DEF Chains
    <2>4. e = [r EXCEPT !.root_key = root, !.sender_chain = <<chain>>]
        BY <1>2 DEF EnsureSenderChain
    <2>5. chain.ratchet_key = key /\ chain.chain_key = FirstChainKey(root)
        OBVIOUS
    <2> HIDE DEF e, root, chain
    <2>6. <<chain>> \in Seq(Chains) /\ Len(<<chain>>) = 1 /\ <<chain>>[1] = chain
        BY <2>3, SingleChain
    <2>7. /\ e \in Ratchets
          /\ e.root_key = root /\ e.sender_chain = <<chain>>
          /\ e.receiver_chains = r.receiver_chains
          /\ e.skipped_message_keys = r.skipped_message_keys
        BY <2>2, <2>4, <2>6 DEF Ratchets
    <2> QED
        BY <1>2, <2>5, <2>6, <2>7 DEF e, root
<1> QED
    BY <1>1, <1>2

LEMMA AdvanceSenderChainFacts ==
    ASSUME NEW r \in Ratchets, Len(r.sender_chain) = 1
    PROVE  LET a == AdvanceSenderChain(r) IN
           /\ a \in Ratchets
           /\ Len(a.sender_chain) = 1
           /\ a.root_key = r.root_key
           /\ a.receiver_chains = r.receiver_chains
           /\ a.skipped_message_keys = r.skipped_message_keys
           /\ a.sender_chain[1].ratchet_key = r.sender_chain[1].ratchet_key
           /\ a.sender_chain[1].chain_key = AdvanceChainKey(r.sender_chain[1].chain_key, 1)
<1> DEFINE chain == [ratchet_key |-> r.sender_chain[1].ratchet_key,
                     chain_key |-> AdvanceChainKey(r.sender_chain[1].chain_key, 1)]
           a == AdvanceSenderChain(r)
<1>1. r.sender_chain[1] \in Chains
    BY RatchetParts, ListOfChains
<1>2. chain \in Chains
    BY <1>1, ChainParts, AdvanceChainKeyFacts DEF Chains
<1>3. a = [r EXCEPT !.sender_chain = <<chain>>]
    BY DEF AdvanceSenderChain, Ratchets
<1>4. <<chain>> \in Seq(Chains) /\ Len(<<chain>>) = 1 /\ <<chain>>[1] = chain
    BY <1>2, SingleChain
<1>5. /\ chain.ratchet_key = r.sender_chain[1].ratchet_key
      /\ chain.chain_key = AdvanceChainKey(r.sender_chain[1].chain_key, 1)
    OBVIOUS
<1> HIDE DEF a, chain
<1>6. /\ a \in Ratchets
      /\ a.root_key = r.root_key /\ a.sender_chain = <<chain>>
      /\ a.receiver_chains = r.receiver_chains
      /\ a.skipped_message_keys = r.skipped_message_keys
    BY <1>3, <1>4 DEF Ratchets
<1> QED
    BY <1>4, <1>5, <1>6 DEF a

-----------------------------------------------------------------------------
(* decrypt() (ratchet.cpp), a new ratchet key: its chain comes first, the  *)
(* others move down, the sender chain goes.                                *)
LEMMA AddReceiverChainFacts ==
    ASSUME NEW r \in Ratchets, r.sender_chain # <<>>, NEW m, m.ratchet_key \in RatchetKeys,
           Len(r.receiver_chains) <= MAX_RECEIVER_CHAINS
    PROVE  LET a == AddReceiverChain(r, m) IN
           /\ a \in Ratchets
           /\ a.sender_chain = <<>>
           /\ a.skipped_message_keys = r.skipped_message_keys
           /\ a.root_key = NewRootFor(r, m)
           /\ NewRootFor(r, m) \in RootKeys
           /\ NewRootFor(r, m).secret = r.root_key.secret
           /\ RootLength(NewRootFor(r, m)) = RootLength(r.root_key) + 1
           /\ LastDH(NewRootFor(r, m)) = {r.sender_chain[1].ratchet_key, m.ratchet_key}
           /\ NewChainFor(r, m) \in Chains
           /\ NewChainFor(r, m).ratchet_key = m.ratchet_key
           /\ NewChainFor(r, m).chain_key = FirstChainKey(NewRootFor(r, m))
           /\ Len(a.receiver_chains) \in 1 .. MAX_RECEIVER_CHAINS
           /\ Len(a.receiver_chains) <= Len(r.receiver_chains) + 1
           /\ a.receiver_chains[1] = NewChainFor(r, m)
           /\ \A i \in 2 .. Len(a.receiver_chains) :
                 a.receiver_chains[i] = r.receiver_chains[i - 1]
<1> DEFINE a == AddReceiverChain(r, m)
           root == NewRootFor(r, m)
           chain == NewChainFor(r, m)
           list == ListInsert(r.receiver_chains, 1, chain, MAX_RECEIVER_CHAINS)
<1>1. r.sender_chain[1] \in Chains /\ r.sender_chain[1].ratchet_key \in RatchetKeys
    BY RatchetParts, ListOfChains, ChainParts
<1>2. /\ root \in RootKeys
      /\ root.secret = r.root_key.secret
      /\ RootLength(root) = RootLength(r.root_key) + 1
      /\ LastDH(root) = {r.sender_chain[1].ratchet_key, m.ratchet_key}
    BY <1>1, RatchetParts, NextRootKeyFacts DEF NewRootFor
<1>3. /\ chain \in Chains
      /\ chain.ratchet_key = m.ratchet_key /\ chain.chain_key = FirstChainKey(root)
    BY <1>2, FirstChainKeyFacts DEF NewChainFor, Chains
<1>4. a = [r EXCEPT !.root_key = root, !.receiver_chains = list, !.sender_chain = <<>>]
    BY DEF AddReceiverChain, Ratchets
<1> HIDE DEF a, root, chain
<1>5. /\ list \in Seq(Chains)
      /\ Len(list) \in 1 .. MAX_RECEIVER_CHAINS
      /\ Len(list) <= Len(r.receiver_chains) + 1
      /\ list[1] = chain
      /\ \A i \in 2 .. Len(list) : list[i] = r.receiver_chains[i - 1]
    <2> DEFINE chains == r.receiver_chains
    <2>1. /\ chains \in Seq(Chains) /\ Len(chains) <= MAX_RECEIVER_CHAINS
          /\ MAX_RECEIVER_CHAINS \in Nat \ {0}
        BY RatchetParts, RatchetLimits
    <2>2. chain \in Chains
        BY <1>3
    <2> HIDE DEF chains
    <2>3. LET l == ListInsert(chains, 1, chain, MAX_RECEIVER_CHAINS) IN
          /\ l \in Seq(Chains)
          /\ Len(l) \in 1 .. MAX_RECEIVER_CHAINS
          /\ Len(l) <= Len(chains) + 1
          /\ l[1] = chain
          /\ \A i \in 2 .. Len(l) : l[i] = chains[i - 1]
        BY ONLY <2>1, <2>2, ListInsertFrontItems
    <2> QED
        BY <2>3 DEF chains
<1> HIDE DEF list
<1>6. <<>> \in Seq(Chains)
    BY EmptySeq
<1>7. /\ a \in Ratchets
      /\ a.root_key = root /\ a.sender_chain = <<>>
      /\ a.receiver_chains = list
      /\ a.skipped_message_keys = r.skipped_message_keys
    BY <1>2, <1>4, <1>5, <1>6 DEF Ratchets
<1> QED
    BY <1>2, <1>3, <1>5, <1>7 DEF a, root, chain

(* The keys passed over: one for each index below the message's.           *)
LEMMA SkippedUpToItems ==
    ASSUME NEW chain \in Chains, NEW counter \in Nat, chain.chain_key.index <= counter
    PROVE  LET s == SkippedUpTo(chain, counter) IN
           /\ s \in Seq(SkippedKeys)
           /\ Len(s) = counter - chain.chain_key.index
           /\ \A j \in 1 .. Len(s) :
                 /\ s[j].ratchet_key = chain.ratchet_key
                 /\ s[j].message_key.index = counter - j
                 /\ s[j].message_key.key.root = chain.chain_key.key.root
                 /\ InStep(chain.chain_key) => InStep(s[j].message_key)
<1> DEFINE index == chain.chain_key.index
           n == counter - index
           Key(j) == [ratchet_key |-> chain.ratchet_key,
                      message_key |-> CreateMessageKey(AdvanceChainKey(chain.chain_key, n - j))]
           s == SkippedUpTo(chain, counter)
<1>1. n \in Nat /\ index \in Nat /\ chain.chain_key \in ChainKeys
      /\ chain.ratchet_key \in RatchetKeys /\ chain.chain_key.key.steps \in Nat
    BY ChainParts
<1>2. s = [j \in 1 .. n |-> Key(j)]
    BY DEF SkippedUpTo
<1>3. ASSUME NEW j \in 1 .. n
      PROVE  /\ Key(j) \in SkippedKeys
             /\ Key(j).ratchet_key = chain.ratchet_key
             /\ Key(j).message_key.index = counter - j
             /\ Key(j).message_key.key.root = chain.chain_key.key.root
             /\ InStep(chain.chain_key) => InStep(Key(j).message_key)
    <2> DEFINE next == AdvanceChainKey(chain.chain_key, n - j)
    <2>1. n - j \in Nat
        BY <1>1
    <2>2. /\ next \in ChainKeys
          /\ next.index = index + (n - j)
          /\ next.key.steps = chain.chain_key.key.steps + (n - j)
          /\ next.key.root = chain.chain_key.key.root
        BY <1>1, <2>1, AdvanceChainKeyFacts
    <2>3. Key(j).ratchet_key = chain.ratchet_key /\ Key(j).message_key = next
        BY <2>2, CreateMessageKeyFacts
    <2>4. Key(j) \in SkippedKeys
        BY <1>1, <2>2, CreateMessageKeyFacts DEF SkippedKeys
    <2>5. index + (n - j) = counter - j
        BY <1>1
    <2> HIDE DEF next, Key
    <2> QED
        BY <1>1, <2>1, <2>2, <2>3, <2>4, <2>5 DEF InStep
<1> HIDE DEF Key, s
<1>4. s \in [1 .. n -> SkippedKeys]
    BY <1>2, <1>3
<1> HIDE DEF n
<1>5. s \in Seq(SkippedKeys) /\ Len(s) = n
    BY <1>1, <1>4, FunctionIsSeq
<1>6. \A j \in 1 .. n : s[j] = Key(j)
    BY <1>2
<1> QED
    BY <1>3, <1>5, <1>6 DEF s, n

(* The end of decrypt(): chain i moves beyond the message; the keys it     *)
(* passes come first among the skipped keys, the older ones behind them.   *)
AdvancedFrom(r, i, counter, a) ==
    LET chain == r.receiver_chains[i]
        n == counter - chain.chain_key.index
    IN
    /\ a \in Ratchets
    /\ a.sender_chain = r.sender_chain
    /\ a.root_key = r.root_key
    /\ Len(a.receiver_chains) = Len(r.receiver_chains)
    /\ \A j \in 1 .. Len(r.receiver_chains) : j # i =>
          a.receiver_chains[j] = r.receiver_chains[j]
    /\ a.receiver_chains[i].ratchet_key = chain.ratchet_key
    /\ a.receiver_chains[i].chain_key.index = counter + 1
    /\ a.receiver_chains[i].chain_key.key.root = chain.chain_key.key.root
    /\ InStep(chain.chain_key) => InStep(a.receiver_chains[i].chain_key)
    /\ Len(a.skipped_message_keys) <= MAX_SKIPPED_MESSAGE_KEYS
    /\ n \in Nat
    /\ \A j \in 1 .. Len(a.skipped_message_keys) :
          \/ /\ j <= n
             /\ a.skipped_message_keys[j].ratchet_key = chain.ratchet_key
             /\ a.skipped_message_keys[j].message_key.index = counter - j
             /\ a.skipped_message_keys[j].message_key.key.root = chain.chain_key.key.root
             /\ InStep(chain.chain_key) => InStep(a.skipped_message_keys[j].message_key)
          \/ /\ j > n
             /\ j - n \in 1 .. Len(r.skipped_message_keys)
             /\ a.skipped_message_keys[j] = r.skipped_message_keys[j - n]

LEMMA AdvanceReceiverChainFacts ==
    ASSUME NEW r \in Ratchets, NEW i \in 1 .. Len(r.receiver_chains), NEW counter \in Nat,
           r.receiver_chains[i].chain_key.index <= counter
    PROVE  AdvancedFrom(r, i, counter, AdvanceReceiverChain(r, i, counter))
<1> DEFINE chain == r.receiver_chains[i]
           n == counter - chain.chain_key.index
           a == AdvanceReceiverChain(r, i, counter)
           news == SkippedUpTo(chain, counter)
           skipped == ListInsertAll(news, r.skipped_message_keys, MAX_SKIPPED_MESSAGE_KEYS)
           moved == [ratchet_key |-> chain.ratchet_key,
                     chain_key |-> AdvanceChainKey(chain.chain_key,
                                                   counter + 1 - chain.chain_key.index)]
           chains == [r.receiver_chains EXCEPT ![i] = moved]
<1>1. /\ r.receiver_chains \in Seq(Chains)
      /\ r.skipped_message_keys \in Seq(SkippedKeys)
      /\ Len(r.skipped_message_keys) \in Nat
      /\ MAX_SKIPPED_MESSAGE_KEYS \in Nat
      /\ chain \in Chains
    BY RatchetParts, ListOfChains, ListOfSkippedKeys, RatchetLimits
<1>2. /\ chain.chain_key \in ChainKeys /\ chain.ratchet_key \in RatchetKeys
      /\ chain.chain_key.index \in Nat /\ chain.chain_key.key.steps \in Nat
      /\ n \in Nat
    BY <1>1, ChainParts
<1>3. /\ moved \in Chains
      /\ moved.ratchet_key = chain.ratchet_key
      /\ moved.chain_key.index = counter + 1
      /\ moved.chain_key.key.root = chain.chain_key.key.root
      /\ InStep(chain.chain_key) => InStep(moved.chain_key)
    <2> DEFINE count == counter + 1 - chain.chain_key.index
    <2>1. count \in Nat /\ chain.chain_key.index + count = counter + 1
        BY <1>2, SMTT(30)
    <2> HIDE DEF count
    <2>2. LET next == AdvanceChainKey(chain.chain_key, count) IN
             /\ next \in ChainKeys
             /\ next.index = chain.chain_key.index + count
             /\ next.key.steps = chain.chain_key.key.steps + count
             /\ next.key.root = chain.chain_key.key.root
        BY <1>2, <2>1, AdvanceChainKeyFacts
    <2>3. moved = [ratchet_key |-> chain.ratchet_key,
                   chain_key |-> AdvanceChainKey(chain.chain_key, count)]
        BY DEF count
    <2> HIDE DEF moved, chain
    <2> QED
        BY <1>2, <2>1, <2>2, <2>3 DEF InStep, Chains
<1>4. /\ news \in Seq(SkippedKeys)
      /\ Len(news) = n
      /\ \A j \in 1 .. Len(news) :
            /\ news[j].ratchet_key = chain.ratchet_key
            /\ news[j].message_key.index = counter - j
            /\ news[j].message_key.key.root = chain.chain_key.key.root
            /\ InStep(chain.chain_key) => InStep(news[j].message_key)
    BY <1>1, SkippedUpToItems
<1>5. a = [r EXCEPT !.skipped_message_keys = skipped, !.receiver_chains = chains]
    BY DEF AdvanceReceiverChain, Ratchets
<1> HIDE DEF news, moved, chain, a
<1>6. /\ chains \in Seq(Chains) /\ Len(chains) = Len(r.receiver_chains)
      /\ \A j \in 1 .. Len(r.receiver_chains) :
            chains[j] = IF j = i THEN moved ELSE r.receiver_chains[j]
    BY <1>1, <1>3, ExceptSeq
<1>7. /\ skipped \in Seq(SkippedKeys)
      /\ Len(skipped) <= MAX_SKIPPED_MESSAGE_KEYS
      /\ Len(skipped) <= n + Len(r.skipped_message_keys)
      /\ \A j \in 1 .. Len(skipped) :
            skipped[j] = IF j <= n THEN news[j] ELSE r.skipped_message_keys[j - n]
    <2>1. /\ skipped \in Seq(SkippedKeys)
          /\ Len(skipped) <= MAX_SKIPPED_MESSAGE_KEYS
          /\ Len(skipped) <= Len(news) + Len(r.skipped_message_keys)
          /\ \A j \in 1 .. Len(skipped) : skipped[j] =
                IF j <= Len(news) THEN news[j] ELSE r.skipped_message_keys[j - Len(news)]
        <3>1. news \in Seq(SkippedKeys)
            BY <1>4
        <3> HIDE DEF n
        <3> QED
            BY <1>1, <3>1, ListInsertAllItems
    <2> HIDE DEF skipped, n
    <2> QED
        BY <1>4, <2>1
<1> HIDE DEF skipped, chains
<1>8. /\ a \in Ratchets
      /\ a.root_key = r.root_key /\ a.sender_chain = r.sender_chain
      /\ a.receiver_chains = chains
      /\ a.skipped_message_keys = skipped
    BY <1>5, <1>6, <1>7 DEF Ratchets, SkippedKeys
<1> HIDE DEF n
<1>9. ASSUME NEW j \in 1 .. Len(skipped)
      PROVE  \/ /\ j <= n
                /\ skipped[j].ratchet_key = chain.ratchet_key
                /\ skipped[j].message_key.index = counter - j
                /\ skipped[j].message_key.key.root = chain.chain_key.key.root
                /\ InStep(chain.chain_key) => InStep(skipped[j].message_key)
             \/ /\ j > n
                /\ j - n \in 1 .. Len(r.skipped_message_keys)
                /\ skipped[j] = r.skipped_message_keys[j - n]
    <2>1. CASE j <= n
        BY <1>2, <1>4, <1>7, <2>1, SMTT(30)
    <2>2. CASE j > n
        BY <1>1, <1>2, <1>7, <2>2
    <2> QED
        BY <1>2, <2>1, <2>2
<1> QED
    BY <1>2, <1>3, <1>6, <1>7, <1>8, <1>9 DEF a, chain, n, AdvancedFrom

(* The key of a late message is used up; the others stay, in their order.  *)
LEMMA UseSkippedFacts ==
    ASSUME NEW r \in Ratchets, NEW j \in 1 .. Len(r.skipped_message_keys)
    PROVE  LET a == UseSkipped(r, j) IN
           /\ a \in Ratchets
           /\ a.sender_chain = r.sender_chain
           /\ a.root_key = r.root_key
           /\ a.receiver_chains = r.receiver_chains
           /\ Len(a.skipped_message_keys) = Len(r.skipped_message_keys) - 1
           /\ \A k \in 1 .. Len(a.skipped_message_keys) :
                 a.skipped_message_keys[k] =
                    IF k < j THEN r.skipped_message_keys[k] ELSE r.skipped_message_keys[k + 1]
<1> DEFINE a == UseSkipped(r, j)
           list == ListErase(r.skipped_message_keys, j)
<1>1. r.skipped_message_keys \in Seq(SkippedKeys)
    BY RatchetParts
<1>2. /\ list \in Seq(SkippedKeys)
      /\ Len(list) = Len(r.skipped_message_keys) - 1
      /\ \A k \in 1 .. Len(list) :
            list[k] = IF k < j THEN r.skipped_message_keys[k] ELSE r.skipped_message_keys[k + 1]
    BY <1>1, ListEraseItems
<1>3. a = [r EXCEPT !.skipped_message_keys = list]
    BY DEF UseSkipped, Ratchets
<1> HIDE DEF a, list
<1>4. /\ a \in Ratchets
      /\ a.root_key = r.root_key /\ a.sender_chain = r.sender_chain
      /\ a.receiver_chains = r.receiver_chains
      /\ a.skipped_message_keys = list
    BY <1>2, <1>3 DEF Ratchets, SkippedKeys
<1> QED
    BY <1>2, <1>4 DEF a

-----------------------------------------------------------------------------
(* What the type invariant says of one party, and of what reaches it.      *)
LEMMA TypeOfParty ==
    ASSUME TypeOK, NEW p \in Party
    PROVE  /\ ratchet[p] \in Ratchets
           /\ Len(ratchet[p].sender_chain) <= 1
           /\ Len(ratchet[p].receiver_chains) <= MAX_RECEIVER_CHAINS
           /\ Len(ratchet[p].skipped_message_keys) <= MAX_SKIPPED_MESSAGE_KEYS
           /\ generated[p] \in Nat /\ encrypted[p] \in Nat /\ decrypted[p] \in Nat
           /\ received_message[p] \in BOOLEAN
           /\ delivered[p] \in SUBSET Messages
           /\ \A m \in SentTo(p) : m \in Messages /\ m \in sent /\ m.from = Peer(p)
BY DEF TypeOK, SentTo

LEMMA MessageParts ==
    ASSUME NEW m \in Messages
    PROVE  /\ m.from \in Party /\ m.body \in Nat /\ m.type \in {"PRE_KEY", "MESSAGE"}
           /\ m.ratchet_key \in RatchetKeys /\ m.counter \in Nat
           /\ m.key \in SymmetricKeys
           /\ m.key.root \in RootKeys /\ m.key.steps \in Nat
           /\ m.key = [root |-> m.key.root, steps |-> m.key.steps]
BY DEF Messages, SymmetricKeys

(* A frame is a message of the peer's, or differs from it in one field.    *)
LEMMA FrameFacts ==
    ASSUME TypeOK, NEW p \in Party, NEW m \in Frames(p)
    PROVE  /\ m \in Messages
           /\ \E s \in SentTo(p) :
                 \/ m = s
                 \/ /\ m.ratchet_key = s.ratchet_key /\ m.key = s.key
                    /\ m.counter = s.counter => m = s
                 \/ /\ m.counter = s.counter /\ m.key = s.key
                    /\ m.ratchet_key = s.ratchet_key => m = s
                 \/ m.key.root.secret = Noise
<1>1. PICK s \in SentTo(p) :
         \/ m = s
         \/ \E c \in DamagedCounters : m = [s EXCEPT !.counter = c]
         \/ \E k \in DamagedKeys : m = [s EXCEPT !.ratchet_key = k]
         \/ m = [s EXCEPT !.key = [root |-> InitialRootKey(Noise), steps |-> 0]]
    BY DEF Frames
<1>2. s \in Messages
    BY TypeOfParty
<1>3. CASE m = s
    BY <1>2, <1>3
<1>4. ASSUME NEW c \in DamagedCounters, m = [s EXCEPT !.counter = c]
      PROVE  /\ m \in Messages /\ m.ratchet_key = s.ratchet_key /\ m.key = s.key
             /\ m.counter = s.counter => m = s
    <2>1. c \in Nat
        BY SessionAssumption
    <2>2. m \in Messages /\ m.ratchet_key = s.ratchet_key /\ m.key = s.key /\ m.counter = c
        BY <1>2, <1>4, <2>1 DEF Messages
    <2>3. c = s.counter => m = s
        BY <1>2, <1>4 DEF Messages
    <2> QED
        BY <2>2, <2>3
<1>5. ASSUME NEW k \in DamagedKeys, m = [s EXCEPT !.ratchet_key = k]
      PROVE  /\ m \in Messages /\ m.counter = s.counter /\ m.key = s.key
             /\ m.ratchet_key = s.ratchet_key => m = s
    <2>1. k \in RatchetKeys
        BY SessionAssumption DEF RatchetKeys, Party
    <2>2. m \in Messages /\ m.counter = s.counter /\ m.key = s.key /\ m.ratchet_key = k
        BY <1>2, <1>5, <2>1 DEF Messages
    <2>3. k = s.ratchet_key => m = s
        BY <1>2, <1>5 DEF Messages
    <2> QED
        BY <2>2, <2>3
<1>6. ASSUME m = [s EXCEPT !.key = [root |-> InitialRootKey(Noise), steps |-> 0]]
      PROVE  m \in Messages /\ m.key.root.secret = Noise
    <2> DEFINE noise == [root |-> InitialRootKey(Noise), steps |-> 0]
    <2>1. InitialRootKey(Noise) \in RootKeys /\ InitialRootKey(Noise).secret = Noise
        BY EmptySeq DEF InitialRootKey, RootKeys, Secrets
    <2>2. noise \in SymmetricKeys /\ noise.root = InitialRootKey(Noise)
        BY <2>1 DEF SymmetricKeys
    <2> HIDE DEF noise
    <2>3. m \in Messages /\ m.key = noise
        BY <1>2, <1>6, <2>2 DEF Messages, noise
    <2> QED
        BY <2>1, <2>2, <2>3
<1> QED
    BY <1>1, <1>2, <1>3, <1>4, <1>5, <1>6

-----------------------------------------------------------------------------
(* A root key identifies its chain.                                        *)
LEMMA SameRootSameKey ==
    ASSUME IInv, NEW root, NEW k, NEW l, IsChain(sent, k, root), IsChain(sent, l, root)
    PROVE  k = l
BY DEF IInv, OneKeyPerRoot, IsChain

LEMMA SentIsChain ==
    ASSUME NEW m \in sent
    PROVE  IsChain(sent, m.ratchet_key, m.key.root)
BY DEF IsChain

(* The MAC: a frame that is opened with the key its header says, on a      *)
(* chain that is known, is what the peer sent.                             *)
LEMMA GenuineOnKnownChain ==
    ASSUME IInv, NEW p \in Party, NEW m \in Frames(p),
           IsChain(sent, m.ratchet_key, m.key.root),
           m.counter = m.key.steps, m.key.root.secret = Secret
    PROVE  m \in SentTo(p)
<1>1. TypeOK /\ SentSound
    BY DEF IInv
<1>2. PICK s \in SentTo(p) :
         \/ m = s
         \/ /\ m.ratchet_key = s.ratchet_key /\ m.key = s.key
            /\ m.counter = s.counter => m = s
         \/ /\ m.counter = s.counter /\ m.key = s.key
            /\ m.ratchet_key = s.ratchet_key => m = s
         \/ m.key.root.secret = Noise
    BY <1>1, FrameFacts
<1>3. s \in sent /\ s.counter = s.key.steps /\ IsChain(sent, s.ratchet_key, s.key.root)
    BY <1>1, TypeOfParty, SentIsChain DEF SentSound
<1>4. m.key = s.key => m.ratchet_key = s.ratchet_key
    BY <1>3, SameRootSameKey
<1> QED
    BY <1>2, <1>3, <1>4, SessionAssumption

(* The key that opens a message lies as many steps from the chain's start  *)
(* as the message's counter says.                                          *)
LEMMA OpensFacts ==
    ASSUME NEW chain_key \in ChainKeys, InStep(chain_key), NEW m \in Messages,
           Opens(chain_key, m)
    PROVE  /\ chain_key.index <= m.counter
           /\ m.key.root = chain_key.key.root
           /\ m.key.steps = m.counter
<1> DEFINE n == m.counter - chain_key.index
<1>1. /\ chain_key.index <= m.counter
      /\ CreateMessageKey(AdvanceChainKey(chain_key, n)).key = m.key
    BY DEF Opens, MacMatches
<1>2. n \in Nat /\ chain_key.index + n = m.counter /\ chain_key.index = chain_key.key.steps
    <2>1. m.counter \in Nat /\ chain_key.index \in Nat
        BY DEF Messages, ChainKeys
    <2> QED
        BY <1>1, <2>1 DEF InStep
<1> HIDE DEF n
<1>3. /\ AdvanceChainKey(chain_key, n) \in ChainKeys
      /\ AdvanceChainKey(chain_key, n).key.steps = chain_key.key.steps + n
      /\ AdvanceChainKey(chain_key, n).key.root = chain_key.key.root
    BY <1>2, AdvanceChainKeyFacts
<1>4. AdvanceChainKey(chain_key, n).key = m.key
    BY <1>1, <1>3, CreateMessageKeyFacts
<1> QED
    BY <1>1, <1>2, <1>3, <1>4

(* decrypt() on a new chain: the message is the peer's, and its root is    *)
(* longer than all the party has met, so that it is new to the party.      *)
LEMMA AcceptedOnNewChain ==
    ASSUME IInv, NEW p \in Party, NEW m \in Frames(p), AcceptsOnNewChain(ratchet[p], m)
    PROVE  /\ m \in SentTo(p)
           /\ m.key.root = NewRootFor(ratchet[p], m)
           /\ ratchet[p].sender_chain # <<>>
           /\ m.ratchet_key \in RatchetKeys
           /\ RootLength(m.key.root) > RootLength(ratchet[p].root_key)
           /\ m \notin delivered[p]
<1> DEFINE r == ratchet[p]
           root == NewRootFor(r, m)
           chain == NewChainFor(r, m)
<1>1. TypeOK /\ SentSound /\ SenderSound(p) /\ DeliveredSound(ratchet[p], delivered[p])
      /\ r.root_key.secret = Secret
    BY DEF IInv
<1>2. m \in Messages /\ m.ratchet_key \in RatchetKeys /\ m.counter \in Nat
    BY <1>1, FrameFacts, MessageParts
<1>3. r \in Ratchets /\ r.sender_chain # <<>> /\ Len(r.receiver_chains) <= MAX_RECEIVER_CHAINS
    BY <1>1, TypeOfParty DEF AcceptsOnNewChain
<1>4. /\ root \in RootKeys /\ root.secret = Secret
      /\ RootLength(root) = RootLength(r.root_key) + 1
      /\ LastDH(root) = {r.sender_chain[1].ratchet_key, m.ratchet_key}
      /\ chain.chain_key = FirstChainKey(root)
    BY <1>1, <1>2, <1>3, AddReceiverChainFacts
<1>5. RootLength(r.root_key) \in Nat
    BY <1>3, RatchetParts, RootLengthType
<1>6. m.key.root = root /\ m.key.steps = m.counter
    <2>1. chain.chain_key \in ChainKeys /\ InStep(chain.chain_key)
          /\ chain.chain_key.key.root = root
        BY <1>4, FirstChainKeyFacts DEF InStep
    <2> QED
        BY <1>2, <2>1, OpensFacts DEF AcceptsOnNewChain
<1>7. r.sender_chain[1].ratchet_key.owner = p
    BY <1>1, <1>3, RatchetParts, ListOfChains DEF SenderSound
<1>8. PICK s \in SentTo(p) :
         \/ m = s
         \/ /\ m.ratchet_key = s.ratchet_key /\ m.key = s.key
            /\ m.counter = s.counter => m = s
         \/ /\ m.counter = s.counter /\ m.key = s.key
            /\ m.ratchet_key = s.ratchet_key => m = s
         \/ m.key.root.secret = Noise
    BY <1>1, FrameFacts
<1>9. s \in sent /\ s.from = Peer(p) /\ s.counter = s.key.steps
    BY <1>1, <1>8, TypeOfParty DEF SentSound
<1>10. m.key = s.key => m.ratchet_key = s.ratchet_key
    <2> SUFFICES ASSUME m.key = s.key PROVE m.ratchet_key = s.ratchet_key
        OBVIOUS
    <2>1. RootLength(s.key.root) > 0
        BY <1>4, <1>5, <1>6
    <2>2. PICK k \in LastDH(s.key.root) :
              k.owner = Peer(Peer(p)) /\ LastDH(s.key.root) = {s.ratchet_key, k}
        BY <1>1, <1>9, <2>1 DEF SentSound
    <2>3. s.ratchet_key.owner = Peer(p)
        BY <1>1, <1>9 DEF SentSound
    <2>4. {s.ratchet_key, k} = {r.sender_chain[1].ratchet_key, m.ratchet_key}
        BY <1>4, <1>6, <2>2
    <2>5. r.sender_chain[1].ratchet_key # s.ratchet_key
        BY <1>7, <2>3, PeerFacts
    <2> QED
        BY <2>4, <2>5
<1>11. m \in SentTo(p)
    BY <1>4, <1>6, <1>8, <1>9, <1>10, SessionAssumption
<1>12. m \notin delivered[p]
    BY <1>1, <1>4, <1>5, <1>6, NextRootKeyFacts DEF DeliveredSound
<1> QED
    BY <1>2, <1>3, <1>4, <1>5, <1>6, <1>11, <1>12

(* decrypt() on a chain it has: the message is the peer's, and it lies     *)
(* beyond all that was decrypted on this chain.                            *)
LEMMA AcceptedOnChain ==
    ASSUME IInv, NEW p \in Party, NEW m \in Frames(p), NEW sequential,
           NEW i \in 1 .. Len(ratchet[p].receiver_chains),
           AcceptsOnChain(ratchet[p], m, i, sequential)
    PROVE  LET chain == ratchet[p].receiver_chains[i] IN
           /\ m \in SentTo(p)
           /\ chain \in Chains
           /\ chain.chain_key.index <= m.counter
           /\ m.key.root = chain.chain_key.key.root
           /\ m \notin delivered[p]
<1> DEFINE r == ratchet[p]
           chain == r.receiver_chains[i]
<1>1. TypeOK /\ ReceiverSound(p, ratchet[p]) /\ DeliveredSound(ratchet[p], delivered[p]) /\ SentSound
    BY DEF IInv
<1>2. m \in Messages /\ m.counter \in Nat
    BY <1>1, FrameFacts, MessageParts
<1>3. chain \in Chains /\ chain.chain_key \in ChainKeys /\ chain.chain_key.index \in Nat
    BY <1>1, TypeOfParty, RatchetParts, ListOfChains, ChainParts
<1>4. /\ InStep(chain.chain_key)
      /\ IsChain(sent, chain.ratchet_key, chain.chain_key.key.root)
    BY <1>1 DEF ReceiverSound
<1>5. /\ chain.chain_key.index <= m.counter
      /\ m.key.root = chain.chain_key.key.root
      /\ m.key.steps = m.counter
    BY <1>2, <1>3, <1>4, OpensFacts DEF AcceptsOnChain
<1>6. chain.ratchet_key = m.ratchet_key
    BY DEF AcceptsOnChain, IsChainFor
<1>7. m.key.root.secret = Secret
    BY <1>1, <1>4, <1>5 DEF IsChain, SentSound, InitialRootKey
<1>8. m \in SentTo(p)
    BY <1>4, <1>5, <1>6, <1>7, GenuineOnKnownChain
<1>9. m \in delivered[p] => m.counter < chain.chain_key.index
    BY <1>1, <1>5 DEF DeliveredSound, ChainIndex
<1>10. m \notin delivered[p]
    BY <1>2, <1>3, <1>5, <1>9
<1> QED
    BY <1>3, <1>5, <1>8, <1>10

(* decrypt() with a skipped key: the message is the peer's, and was not    *)
(* decrypted before.                                                       *)
LEMMA AcceptedSkipped ==
    ASSUME IInv, NEW p \in Party, NEW m \in Frames(p),
           NEW j \in 1 .. Len(ratchet[p].skipped_message_keys),
           AcceptsSkipped(ratchet[p], m, j)
    PROVE  LET skipped == ratchet[p].skipped_message_keys[j] IN
           /\ m \in SentTo(p)
           /\ skipped.message_key.key = m.key
           /\ skipped.message_key.index = m.counter
           /\ m \notin delivered[p]
<1> DEFINE r == ratchet[p]
           skipped == r.skipped_message_keys[j]
<1>1. TypeOK /\ SkippedSound(ratchet[p]) /\ DeliveredSound(ratchet[p], delivered[p]) /\ SentSound
    BY DEF IInv
<1>2. /\ skipped.ratchet_key = m.ratchet_key
      /\ skipped.message_key.index = m.counter
      /\ skipped.message_key.key = m.key
    BY DEF AcceptsSkipped, IsSkippedKeyFor
<1>3. /\ skipped.message_key.index = skipped.message_key.key.steps
      /\ IsChain(sent, skipped.ratchet_key, skipped.message_key.key.root)
    BY <1>1 DEF SkippedSound, InStep
<1>4. m.key.root.secret = Secret
    BY <1>1, <1>2, <1>3 DEF IsChain, SentSound, InitialRootKey
<1>5. m \in SentTo(p)
    BY <1>2, <1>3, <1>4, GenuineOnKnownChain
<1>6. m \notin delivered[p]
    BY <1>1, <1>2 DEF DeliveredSound
<1> QED
    BY <1>2, <1>5, <1>6

-----------------------------------------------------------------------------
(* The initial states satisfy the invariant.                               *)
LEMMA InitialRootKeyFacts ==
    /\ InitialRootKey(Secret) \in RootKeys
    /\ InitialRootKey(Secret).secret = Secret
    /\ RootLength(InitialRootKey(Secret)) = 0
BY EmptySeq DEF InitialRootKey, RootKeys, Secrets, RootLength

LEMMA InitIInv ==
    ASSUME Init
    PROVE  IInv
<1> DEFINE root == InitialRootKey(Secret)
           chain == [ratchet_key |-> FirstKey, chain_key |-> FirstChainKey(root)]
           alice == InitialiseAsAlice(Secret, RatchetKey(Alice, 0))
           bob == InitialiseAsBob(Secret, RatchetKey(Alice, 0))
<1>1. Alice \in Party /\ Bob \in Party /\ Alice # Bob /\ Peer(Bob) = Alice
      /\ \A p \in Party : p = Alice \/ p = Bob
    BY SessionAssumption DEF Party, Peer
<1>2. /\ FirstKey \in RatchetKeys /\ FirstKey.owner = Alice /\ FirstKey.n = 0
      /\ FirstKey = RatchetKey(Alice, 0)
    BY <1>1, RatchetKeyType DEF FirstKey
<1>3. /\ FirstChainKey(root) \in ChainKeys /\ InStep(FirstChainKey(root))
      /\ FirstChainKey(root).key.root = root
    BY InitialRootKeyFacts, FirstChainKeyFacts DEF InStep
<1>4. /\ chain \in Chains /\ chain.ratchet_key = FirstKey
      /\ chain.chain_key = FirstChainKey(root)
    BY <1>2, <1>3 DEF Chains
<1>5. /\ ratchet[Alice] = alice /\ ratchet[Bob] = bob
      /\ ratchet = [p \in Party |-> IF p = Alice THEN alice ELSE bob]
      /\ generated[Alice] = 1 /\ sent = {}
      /\ delivered[Alice] = {} /\ delivered[Bob] = {}
    BY <1>1 DEF Init
<1> DEFINE one == <<chain>>
           none == <<>>
<1> HIDE DEF chain, root
<1>6. /\ one \in Seq(Chains) /\ Len(one) = 1 /\ one[1] = chain /\ one # none
      /\ Len(none) = 0 /\ none \in Seq(Chains) /\ none \in Seq(SkippedKeys)
    BY <1>4, SingleChain, EmptySeq
<1>7. /\ alice = [root_key |-> root, sender_chain |-> one,
                  receiver_chains |-> none, skipped_message_keys |-> none]
      /\ bob = [root_key |-> root, sender_chain |-> none,
                receiver_chains |-> one, skipped_message_keys |-> none]
    BY <1>2 DEF InitialiseAsAlice, InitialiseAsBob, chain, root
<1> HIDE DEF alice, bob, one, none
<1>8. /\ alice \in Ratchets /\ alice.root_key = root /\ alice.sender_chain = one
      /\ alice.receiver_chains = none /\ alice.skipped_message_keys = none
      /\ bob \in Ratchets /\ bob.root_key = root /\ bob.sender_chain = none
      /\ bob.receiver_chains = one /\ bob.skipped_message_keys = none
    <2>1. root \in RootKeys
        BY InitialRootKeyFacts DEF root
    <2> QED
        BY <1>6, <1>7, <2>1 DEF Ratchets, SkippedKeys
<1>9. TypeOK
    <2>1. ratchet \in [Party -> Ratchets]
        BY <1>5, <1>8
    <2>2. ASSUME NEW p \in Party
          PROVE  /\ Len(ratchet[p].sender_chain) <= 1
                 /\ Len(ratchet[p].receiver_chains) <= MAX_RECEIVER_CHAINS
                 /\ Len(ratchet[p].skipped_message_keys) <= MAX_SKIPPED_MESSAGE_KEYS
        <3>1. /\ 0 <= 1 /\ 1 <= MAX_RECEIVER_CHAINS /\ 0 <= MAX_RECEIVER_CHAINS
              /\ 0 <= MAX_SKIPPED_MESSAGE_KEYS /\ 1 <= 1
            BY RatchetLimits
        <3>2. CASE p = Alice
            BY <1>5, <1>6, <1>8, <3>1, <3>2
        <3>3. CASE p = Bob
            BY <1>5, <1>6, <1>8, <3>1, <3>3
        <3> QED
            BY <1>1, <3>2, <3>3
    <2>3. /\ received_message \in [Party -> BOOLEAN]
          /\ generated \in [Party -> Nat]
          /\ sent \subseteq Messages
          /\ encrypted \in [Party -> Nat]
          /\ delivered \in [Party -> SUBSET Messages]
          /\ decrypted \in [Party -> Nat]
        BY DEF Init
    <2> QED
        BY <2>1, <2>2, <2>3 DEF TypeOK
<1>10. SentSound /\ OneKeyPerRoot /\ MessageKeysUnique
    BY <1>5 DEF SentSound, OneKeyPerRoot, MessageKeysUnique
<1>11. IsChain(sent, FirstKey, root)
    BY DEF IsChain, root
<1>12. RootLength(root) \in Nat
    BY InitialRootKeyFacts DEF root
<1>13. \A i \in 1 .. Len(one) :
          /\ i = 1
          /\ InStep(one[i].chain_key)
          /\ one[i].ratchet_key.owner = Alice
          /\ one[i].ratchet_key.n < generated[Alice]
          /\ IsChain(sent, one[i].ratchet_key, one[i].chain_key.key.root)
          /\ RootLength(one[i].chain_key.key.root) <= RootLength(root)
    <2>1. \A i \in 1 .. Len(one) : i = 1
        BY <1>6
    <2>2. 0 < 1 /\ RootLength(root) <= RootLength(root)
        BY <1>12
    <2> QED
        BY <1>2, <1>3, <1>4, <1>5, <1>6, <1>11, <2>1, <2>2
<1>14. /\ ratchet[Alice].root_key = root /\ ratchet[Bob].root_key = root
       /\ ratchet[Alice].sender_chain = one /\ ratchet[Bob].sender_chain = none
       /\ ratchet[Alice].receiver_chains = none /\ ratchet[Bob].receiver_chains = one
       /\ ratchet[Alice].skipped_message_keys = none
       /\ ratchet[Bob].skipped_message_keys = none
       /\ 1 .. Len(none) = {}
    BY <1>5, <1>6, <1>8
<1>15. SenderSound(Alice) /\ SenderSound(Bob)
    <2>1. SenderSound(Alice)
        BY <1>5, <1>13, <1>14 DEF SenderSound
    <2>2. SenderSound(Bob)
        BY <1>14 DEF SenderSound
    <2> QED
        BY <2>1, <2>2
<1>16. ReceiverSound(Alice, ratchet[Alice]) /\ ReceiverSound(Bob, ratchet[Bob])
    <2>1. ReceiverSound(Alice, ratchet[Alice])
        BY <1>14 DEF ReceiverSound
    <2>2. ReceiverSound(Bob, ratchet[Bob])
        BY <1>1, <1>13, <1>14 DEF ReceiverSound
    <2> QED
        BY <2>1, <2>2
<1>17. /\ SkippedSound(ratchet[Alice]) /\ SkippedSound(ratchet[Bob])
       /\ DeliveredSound(ratchet[Alice], delivered[Alice]) /\ DeliveredSound(ratchet[Bob], delivered[Bob])
    BY <1>5, <1>14 DEF SkippedSound, DeliveredSound
<1>18. \A p \in Party : ratchet[p].root_key.secret = Secret
    BY <1>1, <1>5, <1>8, InitialRootKeyFacts DEF root
<1>19. EncryptHasPeerKey
    BY <1>1, <1>5, <1>6, <1>8 DEF EncryptHasPeerKey, none
<1> QED
    BY <1>1, <1>5, <1>9, <1>10, <1>15, <1>16, <1>17, <1>18, <1>19 DEF IInv

-----------------------------------------------------------------------------
(* encrypt(): the chain that the message is sent on.  Its root belongs to  *)
(* its ratchet key, and the index is beyond all that was sent on it.       *)
SendingRatchet(p) == EnsureSenderChain(ratchet[p], RatchetKey(p, generated[p]))

LEMMA FreshRoot ==
    ASSUME IInv, NEW p \in Party, NEW old \in RootKeys, NEW k \in RatchetKeys,
           NEW l, IsChain(sent, l, NextRootKey(old, RatchetKey(p, generated[p]), k))
    PROVE  FALSE
<1> DEFINE fresh == RatchetKey(p, generated[p])
           root == NextRootKey(old, fresh, k)
<1>1. TypeOK /\ SentSound
    BY DEF IInv
<1>2. fresh \in RatchetKeys /\ fresh.owner = p /\ fresh.n = generated[p] /\ generated[p] \in Nat
    BY <1>1, TypeOfParty, RatchetKeyType
<1>3. RootLength(root) = RootLength(old) + 1 /\ LastDH(root) = {fresh, k}
    BY <1>2, NextRootKeyFacts
<1>4. RootLength(old) \in Nat
    BY RootLengthType
<1> HIDE DEF fresh, root
<1>5. RootLength(root) > 0
    BY <1>3, <1>4
<1>6. PICK m \in sent : m.key.root = root
    BY <1>5, InitialRootKeyFacts DEF IsChain, root, fresh
<1>7. PICK x \in LastDH(root) : x.n < generated[x.owner] /\ {fresh, k} = {m.ratchet_key, x}
    BY <1>1, <1>3, <1>5, <1>6 DEF SentSound
<1>8. m.ratchet_key.n < generated[m.ratchet_key.owner]
    BY <1>1, <1>6 DEF SentSound
<1>9. fresh.n < generated[fresh.owner]
    BY <1>7, <1>8
<1> QED
    BY <1>2, <1>9

LEMMA SendingChain ==
    ASSUME IInv, NEW p \in Party
    PROVE  LET r == SendingRatchet(p)
               chain == r.sender_chain[1]
               new == IF ratchet[p].sender_chain = <<>> THEN generated[p] + 1 ELSE generated[p]
           IN
           /\ r \in Ratchets /\ Len(r.sender_chain) = 1 /\ chain \in Chains
           /\ r.receiver_chains = ratchet[p].receiver_chains
           /\ r.skipped_message_keys = ratchet[p].skipped_message_keys
           /\ r.root_key.secret = Secret
           /\ RootLength(ratchet[p].root_key) <= RootLength(r.root_key)
           /\ new \in Nat /\ generated[p] <= new
           /\ InStep(chain.chain_key)
           /\ chain.ratchet_key.owner = p
           /\ chain.ratchet_key.n < new
           /\ chain.chain_key.key.root.secret = Secret
           /\ \A k : IsChain(sent, k, chain.chain_key.key.root) => k = chain.ratchet_key
           /\ \A m \in sent : m.key.root = chain.chain_key.key.root
                 => m.counter < chain.chain_key.index
           /\ RootLength(chain.chain_key.key.root) > 0 =>
                 \E k \in LastDH(chain.chain_key.key.root) :
                    /\ k.owner = Peer(p) /\ k.n < generated[k.owner]
                    /\ LastDH(chain.chain_key.key.root) = {chain.ratchet_key, k}
<1> DEFINE old == ratchet[p]
           fresh == RatchetKey(p, generated[p])
           r == SendingRatchet(p)
           chain == r.sender_chain[1]
<1>1. /\ TypeOK /\ SentSound /\ SenderSound(p) /\ ReceiverSound(p, ratchet[p])
      /\ old.root_key.secret = Secret /\ EncryptHasPeerKey
    BY DEF IInv
<1>2. /\ old \in Ratchets /\ Len(old.sender_chain) <= 1 /\ generated[p] \in Nat
      /\ old.root_key \in RootKeys /\ old.receiver_chains \in Seq(Chains)
      /\ RootLength(old.root_key) \in Nat
      /\ old.sender_chain = <<>> => old.receiver_chains # <<>>
    BY <1>1, TypeOfParty, RatchetParts, RootLengthType DEF EncryptHasPeerKey
<1>3. fresh \in RatchetKeys /\ fresh.owner = p /\ fresh.n = generated[p]
    BY <1>2, RatchetKeyType
<1> DEFINE root == NextRootKey(old.root_key, fresh, old.receiver_chains[1].ratchet_key)
<1>4. /\ r \in Ratchets /\ Len(r.sender_chain) = 1
      /\ r.receiver_chains = old.receiver_chains
      /\ r.skipped_message_keys = old.skipped_message_keys
      /\ old.sender_chain # <<>> => r = old
      /\ old.sender_chain = <<>> =>
            /\ r.root_key = root
            /\ chain.ratchet_key = fresh
            /\ chain.chain_key = FirstChainKey(root)
    BY <1>2, <1>3, EnsureSenderChainFacts DEF SendingRatchet
<1>5. chain \in Chains
    <2>1. r.sender_chain \in Seq(Chains) /\ 1 \in 1 .. Len(r.sender_chain)
        BY <1>4, RatchetParts
    <2> QED
        BY <2>1, ListOfChains
<1>6. CASE old.sender_chain # <<>>
    <2>1. r = old /\ 1 \in 1 .. Len(old.sender_chain)
        BY <1>4, <1>6
    <2>2. /\ InStep(chain.chain_key)
          /\ chain.ratchet_key.owner = p
          /\ chain.ratchet_key.n < generated[p]
          /\ IsChain(sent, chain.ratchet_key, chain.chain_key.key.root)
          /\ \A m \in sent : m.key.root = chain.chain_key.key.root
                => m.counter < chain.chain_key.index
        BY <1>1, <2>1 DEF SenderSound
    <2>3. \A k : IsChain(sent, k, chain.chain_key.key.root) => k = chain.ratchet_key
        BY <2>2, SameRootSameKey
    <2>4. chain.chain_key.key.root.secret = Secret
        BY <1>1, <2>2, InitialRootKeyFacts DEF IsChain, SentSound
    <2>5. ASSUME RootLength(chain.chain_key.key.root) > 0
          PROVE  \E k \in LastDH(chain.chain_key.key.root) :
                    /\ k.owner = Peer(p) /\ k.n < generated[k.owner]
                    /\ LastDH(chain.chain_key.key.root) = {chain.ratchet_key, k}
        <3>1. PICK m \in sent : m.ratchet_key = chain.ratchet_key
                                /\ m.key.root = chain.chain_key.key.root
            BY <2>2, <2>5, InitialRootKeyFacts DEF IsChain
        <3>2. m.from = p
            BY <1>1, <2>2, <3>1 DEF SentSound
        <3> QED
            <4>1. RootLength(m.key.root) > 0 /\ SentSound
                BY <1>1, <2>5, <3>1
            <4> HIDE DEF r, chain
            <4> QED
                BY <3>1, <3>2, <4>1 DEF SentSound
    <2>6. RootLength(old.root_key) <= RootLength(r.root_key) /\ generated[p] <= generated[p]
        BY <1>2, <2>1
    <2> HIDE DEF r
    <2> QED
        BY <1>1, <1>2, <1>4, <1>5, <1>6, <2>1, <2>2, <2>3, <2>4, <2>5, <2>6 DEF r
<1>7. CASE old.sender_chain = <<>>
    <2> DEFINE their == old.receiver_chains[1].ratchet_key
    <2>1. 1 \in 1 .. Len(old.receiver_chains)
        BY <1>2, <1>7, ListOfChains
    <2>2. /\ their \in RatchetKeys
          /\ their.owner = Peer(p) /\ their.n < generated[Peer(p)]
        BY <1>1, <1>2, <2>1, ListOfChains, ChainParts DEF ReceiverSound
    <2>3. /\ root \in RootKeys /\ root.secret = Secret
          /\ RootLength(root) = RootLength(old.root_key) + 1
          /\ LastDH(root) = {fresh, their}
        BY <1>1, <1>2, <1>3, <2>2, NextRootKeyFacts, SMTT(30)
    <2>4. /\ r.root_key = root /\ chain.ratchet_key = fresh
          /\ chain.chain_key = FirstChainKey(root)
        BY <1>4, <1>7
    <2>5. \A k : ~IsChain(sent, k, root)
        BY <1>2, <2>2, FreshRoot
    <2> HIDE DEF root, their, fresh, r
    <2>6. /\ InStep(chain.chain_key) /\ chain.chain_key.key.root = root
        BY <2>3, <2>4, FirstChainKeyFacts DEF InStep
    <2>7. \A m \in sent : m.key.root # root
        BY <2>5, SentIsChain
    <2>8. their \in LastDH(root)
        BY <2>3
    <2>9. fresh.n < generated[p] + 1 /\ generated[p] <= generated[p] + 1
          /\ generated[p] + 1 \in Nat
          /\ RootLength(old.root_key) <= RootLength(root)
        BY <1>2, <1>3, <2>3
    <2> QED
        BY <1>3, <1>4, <1>5, <1>7, <2>2, <2>3, <2>4, <2>5, <2>6, <2>7, <2>8, <2>9 DEF r
<1> QED
    BY <1>6, <1>7

LEMMA EncryptIInv ==
    ASSUME IInv, NEW p \in Party, Encrypt(p)
    PROVE  IInv' /\ Channel!Send(p)
<1> DEFINE old == ratchet[p]
           r == SendingRatchet(p)
           chain == r.sender_chain[1]
           root == chain.chain_key.key.root
           msg == Message(p, r)
           next == AdvanceSenderChain(r)
           q == Peer(p)
           new == IF old.sender_chain = <<>> THEN generated[p] + 1 ELSE generated[p]
<1>1. /\ TypeOK /\ SentSound /\ OneKeyPerRoot /\ MessageKeysUnique /\ EncryptHasPeerKey
      /\ \A x \in Party : /\ ratchet[x].root_key.secret = Secret
                          /\ SenderSound(x) /\ ReceiverSound(x, ratchet[x])
                          /\ SkippedSound(ratchet[x]) /\ DeliveredSound(ratchet[x], delivered[x])
                          /\ delivered[x] \subseteq SentTo(x)
      /\ generated[Alice] > 0
    BY DEF IInv
<1>2. /\ q \in Party /\ q # p /\ Peer(q) = p
      /\ \A x \in Party : x = p \/ x = q
    BY PeerFacts
<1>3. /\ r \in Ratchets /\ Len(r.sender_chain) = 1 /\ chain \in Chains
      /\ r.receiver_chains = old.receiver_chains
      /\ r.skipped_message_keys = old.skipped_message_keys
      /\ r.root_key.secret = Secret
      /\ RootLength(old.root_key) <= RootLength(r.root_key)
      /\ new \in Nat /\ generated[p] <= new
      /\ InStep(chain.chain_key)
      /\ chain.ratchet_key.owner = p
      /\ chain.ratchet_key.n < new
      /\ root.secret = Secret
      /\ \A k : IsChain(sent, k, root) => k = chain.ratchet_key
      /\ \A m \in sent : m.key.root = root => m.counter < chain.chain_key.index
      /\ RootLength(root) > 0 =>
            \E k \in LastDH(root) :
               /\ k.owner = q /\ k.n < generated[k.owner]
               /\ LastDH(root) = {chain.ratchet_key, k}
    BY SendingChain
<1>4. /\ ratchet' = [ratchet EXCEPT ![p] = next]
      /\ sent' = sent \cup {msg}
      /\ generated' = [generated EXCEPT ![p] = IF old.sender_chain = <<>> THEN @ + 1 ELSE @]
      /\ encrypted' = [encrypted EXCEPT ![p] = @ + 1]
      /\ UNCHANGED <<received_message, delivered, decrypted>>
    BY DEF Encrypt, SendingRatchet
<1>5. /\ ratchet \in [Party -> Ratchets] /\ generated \in [Party -> Nat]
      /\ encrypted \in [Party -> Nat] /\ received_message \in [Party -> BOOLEAN]
      /\ sent \subseteq Messages
    BY <1>1 DEF TypeOK
<1>6. /\ ratchet'[p] = next /\ ratchet'[q] = ratchet[q]
      /\ generated'[p] = new /\ generated'[q] = generated[q]
      /\ \A x \in Party : generated[x] <= generated'[x] /\ generated[x] \in Nat
                          /\ generated'[x] \in Nat
    <2>1. generated'[p] = new
        BY <1>4, <1>5
    <2> HIDE DEF new, next
    <2>2. ratchet'[p] = next /\ ratchet'[q] = ratchet[q] /\ generated'[q] = generated[q]
        BY <1>2, <1>4, <1>5
    <2>3. generated[q] <= generated[q]
        BY <1>2, <1>5
    <2> QED
        BY <1>2, <1>3, <1>5, <2>1, <2>2, <2>3
<1>7. /\ next \in Ratchets /\ Len(next.sender_chain) = 1
      /\ next.root_key = r.root_key
      /\ next.receiver_chains = old.receiver_chains
      /\ next.skipped_message_keys = old.skipped_message_keys
      /\ next.sender_chain[1].ratchet_key = chain.ratchet_key
      /\ next.sender_chain[1].chain_key = AdvanceChainKey(chain.chain_key, 1)
    BY <1>3, AdvanceSenderChainFacts
<1>8. /\ chain.chain_key \in ChainKeys /\ chain.chain_key.index \in Nat
      /\ chain.ratchet_key \in RatchetKeys /\ chain.chain_key.key \in SymmetricKeys
      /\ chain.chain_key.key.steps = chain.chain_key.index
    BY <1>3, ChainParts DEF InStep
<1>9. /\ next.sender_chain[1].chain_key.index = chain.chain_key.index + 1
      /\ next.sender_chain[1].chain_key.key.root = root
      /\ InStep(next.sender_chain[1].chain_key)
    <2> DEFINE later == AdvanceChainKey(chain.chain_key, 1)
    <2>1. /\ later.index = chain.chain_key.index + 1
          /\ later.key.steps = chain.chain_key.key.steps + 1
          /\ later.key.root = root
        BY <1>8, AdvanceChainKeyFacts, SMTT(30)
    <2> HIDE DEF later, next, chain
    <2>2. next.sender_chain[1].chain_key = later
        BY <1>7 DEF later
    <2> QED
        BY <1>8, <2>1, <2>2 DEF InStep
<1>10. /\ msg \in Messages /\ msg.from = p
       /\ msg.ratchet_key = chain.ratchet_key
       /\ msg.counter = chain.chain_key.index
       /\ msg.key = chain.chain_key.key
    <2>1. CreateMessageKey(chain.chain_key) = chain.chain_key
        BY <1>8, CreateMessageKeyFacts
    <2>2. msg = [from |-> p, body |-> encrypted[p], type |-> EncryptMessageType(p),
                 ratchet_key |-> chain.ratchet_key, counter |-> chain.chain_key.index,
                 key |-> chain.chain_key.key]
        BY <2>1 DEF Message, EncryptedHeader
    <2>3. EncryptMessageType(p) \in {"PRE_KEY", "MESSAGE"} /\ encrypted[p] \in Nat
        BY <1>5 DEF EncryptMessageType
    <2> HIDE DEF r, msg, chain
    <2>4. /\ msg.from = p /\ msg.ratchet_key = chain.ratchet_key
          /\ msg.counter = chain.chain_key.index /\ msg.key = chain.chain_key.key
        BY <2>2
    <2>5. msg \in Messages
        BY <1>8, <2>2, <2>3 DEF Messages
    <2> QED
        BY <2>4, <2>5
<1> HIDE DEF next, msg, r, new
<1>11. TypeOK'
    <2>1. ratchet' \in [Party -> Ratchets]
        BY <1>4, <1>5, <1>7
    <2>2. ASSUME NEW x \in Party
          PROVE  /\ Len(ratchet'[x].sender_chain) <= 1
                 /\ Len(ratchet'[x].receiver_chains) <= MAX_RECEIVER_CHAINS
                 /\ Len(ratchet'[x].skipped_message_keys) <= MAX_SKIPPED_MESSAGE_KEYS
        <3>1. CASE x = q
            BY <1>1, <1>6, <3>1 DEF TypeOK
        <3>2. CASE x = p
            <4>1. /\ Len(old.receiver_chains) <= MAX_RECEIVER_CHAINS
                  /\ Len(old.skipped_message_keys) <= MAX_SKIPPED_MESSAGE_KEYS
                BY <1>1 DEF TypeOK
            <4>2. ratchet'[x] = next /\ 1 <= 1
                BY <1>6, <3>2
            <4> HIDE DEF old
            <4> QED
                BY <1>7, <4>1, <4>2
        <3> QED
            BY <1>2, <3>1, <3>2
    <2>3. /\ received_message' \in [Party -> BOOLEAN]
          /\ sent' \subseteq Messages
          /\ encrypted' \in [Party -> Nat]
          /\ delivered' \in [Party -> SUBSET Messages]
          /\ decrypted' \in [Party -> Nat]
        BY <1>1, <1>4, <1>5, <1>10 DEF TypeOK
    <2>4. generated' \in [Party -> Nat]
        BY <1>4, <1>5
    <2> QED
        BY <2>1, <2>2, <2>3, <2>4 DEF TypeOK
<1>12. \A k, rt : IsChain(sent, k, rt) => IsChain(sent', k, rt)
    BY <1>4 DEF IsChain
<1>13. IsChain(sent', chain.ratchet_key, root)
    BY <1>4, <1>10 DEF IsChain
<1>14. SentSound'
    <2> SUFFICES ASSUME NEW m \in sent'
                 PROVE  /\ m.counter = m.key.steps
                        /\ m.key.root.secret = Secret
                        /\ m.ratchet_key.owner = m.from
                        /\ m.ratchet_key.n < generated'[m.from]
                        /\ RootLength(m.key.root) > 0 =>
                              \E k \in LastDH(m.key.root) :
                                  /\ k.owner = Peer(m.from)
                                  /\ k.n < generated'[k.owner]
                                  /\ LastDH(m.key.root) = {m.ratchet_key, k}
        BY DEF SentSound
    <2>1. CASE m \in sent
        <3>1. m \in Messages
            BY <1>5, <2>1
        <3>2. /\ m.counter = m.key.steps
              /\ m.key.root.secret = Secret
              /\ m.ratchet_key.owner = m.from
              /\ m.ratchet_key.n < generated[m.from]
              /\ RootLength(m.key.root) > 0 =>
                    \E k \in LastDH(m.key.root) :
                        /\ k.owner = Peer(m.from)
                        /\ k.n < generated[k.owner]
                        /\ LastDH(m.key.root) = {m.ratchet_key, k}
            BY <1>1, <2>1 DEF SentSound
        <3>3. m.from \in Party /\ m.ratchet_key.n \in Nat
            BY <3>1 DEF Messages, RatchetKeys
        <3>4. m.ratchet_key.n < generated'[m.from]
            BY <1>6, <3>2, <3>3
        <3>5. ASSUME RootLength(m.key.root) > 0
              PROVE  \E k \in LastDH(m.key.root) :
                        /\ k.owner = Peer(m.from)
                        /\ k.n < generated'[k.owner]
                        /\ LastDH(m.key.root) = {m.ratchet_key, k}
            <4>1. PICK k \in LastDH(m.key.root) :
                        /\ k.owner = Peer(m.from)
                        /\ k.n < generated[k.owner]
                        /\ LastDH(m.key.root) = {m.ratchet_key, k}
                BY <3>2, <3>5
            <4>2. m.key.root \in RootKeys
                BY <3>1, MessageParts
            <4>3. k \in RatchetKeys
                BY <3>5, <4>2, LastDHType
            <4>4. k.owner \in Party /\ k.n \in Nat
                BY <4>3 DEF RatchetKeys
            <4> QED
                BY <1>6, <4>1, <4>4
        <3> QED
            BY <3>2, <3>4, <3>5
    <2>2. CASE m = msg
        <3>1. ASSUME NEW k, k.owner = q, k.n < generated[k.owner]
              PROVE  k.n < generated'[k.owner]
            BY <1>6, <3>1
        <3>2. /\ m.counter = m.key.steps /\ m.key.root = root /\ m.from = p
              /\ m.ratchet_key = chain.ratchet_key
            BY <1>8, <1>10, <2>2
        <3>3. RootLength(root) > 0 =>
                 \E k \in LastDH(root) :
                    /\ k.owner = q /\ k.n < generated'[k.owner]
                    /\ LastDH(root) = {chain.ratchet_key, k}
            BY <1>3, <3>1
        <3>4. chain.ratchet_key.n < generated'[p]
            BY <1>3, <1>6
        <3>5. root.secret = Secret /\ chain.ratchet_key.owner = p
            BY <1>3
        <3> HIDE DEF root, chain
        <3> QED
            BY <3>2, <3>3, <3>4, <3>5
    <2> QED
        BY <1>4, <2>1, <2>2
<1>15. OneKeyPerRoot'
    <2>1. \A m \in sent : m.key.root = root => m.ratchet_key = chain.ratchet_key
        BY <1>3, SentIsChain
    <2>2. root = InitialRootKey(Secret) => chain.ratchet_key = FirstKey
        BY <1>3 DEF IsChain
    <2> QED
        BY <1>1, <1>4, <1>10, <2>1, <2>2 DEF OneKeyPerRoot
<1>16. \A m \in sent : m.key # msg.key
    <2> SUFFICES ASSUME NEW m \in sent, m.key = msg.key PROVE FALSE
        OBVIOUS
    <2>1. m.counter < chain.chain_key.index /\ m.counter = m.key.steps
        BY <1>1, <1>3, <1>10 DEF SentSound
    <2> QED
        BY <1>8, <1>10, <2>1
<1>17. MessageKeysUnique'
    BY <1>1, <1>4, <1>16 DEF MessageKeysUnique
<1>18. SenderSound(p)'
    <2>1. \A i \in 1 .. Len(next.sender_chain) : i = 1
        BY <1>7
    <2>2. \A m \in sent' : m.key.root = root => m.counter < chain.chain_key.index + 1
        <3>1. \A m \in sent : m.counter \in Nat
            BY <1>5, MessageParts
        <3> QED
            BY <1>3, <1>4, <1>8, <1>10, <3>1
    <2> HIDE DEF root
    <2> QED
        BY <1>3, <1>6, <1>7, <1>9, <1>13, <2>1, <2>2 DEF SenderSound
<1>19. SenderSound(q)'
    <2> SUFFICES ASSUME NEW i \in 1 .. Len(ratchet[q].sender_chain)
                 PROVE  LET c == ratchet[q].sender_chain[i] IN
                        /\ InStep(c.chain_key)
                        /\ c.ratchet_key.owner = q
                        /\ c.ratchet_key.n < generated'[q]
                        /\ IsChain(sent', c.ratchet_key, c.chain_key.key.root)
                        /\ \A m \in sent' : m.key.root = c.chain_key.key.root
                              => m.counter < c.chain_key.index
        BY <1>6 DEF SenderSound
    <2> DEFINE c == ratchet[q].sender_chain[i]
    <2>1. /\ InStep(c.chain_key)
          /\ c.ratchet_key.owner = q
          /\ c.ratchet_key.n < generated[q]
          /\ IsChain(sent, c.ratchet_key, c.chain_key.key.root)
          /\ \A m \in sent : m.key.root = c.chain_key.key.root
                => m.counter < c.chain_key.index
        BY <1>1, <1>2 DEF SenderSound
    <2>2. c.chain_key.key.root # root
        BY <1>2, <1>3, <2>1
    <2> QED
        BY <1>4, <1>6, <1>10, <1>12, <2>1, <2>2
<1>20. ASSUME NEW x \in Party
       PROVE  /\ ratchet'[x].receiver_chains = ratchet[x].receiver_chains
              /\ ratchet'[x].skipped_message_keys = ratchet[x].skipped_message_keys
              /\ RootLength(ratchet[x].root_key) \in Nat
              /\ RootLength(ratchet'[x].root_key) \in Nat
              /\ RootLength(ratchet[x].root_key) <= RootLength(ratchet'[x].root_key)
    <2>1. ratchet[x] \in Ratchets /\ ratchet'[x] \in Ratchets
        BY <1>5, <1>11 DEF TypeOK
    <2>2. /\ RootLength(ratchet[x].root_key) \in Nat
          /\ RootLength(ratchet'[x].root_key) \in Nat
        BY <2>1, RatchetParts, RootLengthType
    <2>3. CASE x = p
        BY <1>3, <1>6, <1>7, <2>2, <2>3
    <2>4. CASE x = q
        BY <1>6, <2>2, <2>4
    <2> QED
        BY <1>2, <2>3, <2>4
<1>21. \A x \in Party : ReceiverSound(x, ratchet[x])'
    <2> SUFFICES ASSUME NEW x \in Party PROVE ReceiverSound(x, ratchet[x])'
        OBVIOUS
    <2>1. /\ ratchet'[x].receiver_chains = ratchet[x].receiver_chains
          /\ RootLength(ratchet[x].root_key) <= RootLength(ratchet'[x].root_key)
          /\ RootLength(ratchet[x].root_key) \in Nat
          /\ RootLength(ratchet'[x].root_key) \in Nat
        BY <1>20
    <2> DEFINE chains == ratchet[x].receiver_chains
    <2>2. ASSUME NEW i \in 1 .. Len(chains)
          PROVE  /\ InStep(chains[i].chain_key)
                 /\ chains[i].ratchet_key.owner = Peer(x)
                 /\ chains[i].ratchet_key.n < generated'[Peer(x)]
                 /\ IsChain(sent', chains[i].ratchet_key, chains[i].chain_key.key.root)
                 /\ RootLength(chains[i].chain_key.key.root)
                       <= RootLength(ratchet'[x].root_key)
        <3>1. /\ InStep(chains[i].chain_key)
              /\ chains[i].ratchet_key.owner = Peer(x)
              /\ chains[i].ratchet_key.n < generated[Peer(x)]
              /\ IsChain(sent, chains[i].ratchet_key, chains[i].chain_key.key.root)
              /\ RootLength(chains[i].chain_key.key.root) <= RootLength(ratchet[x].root_key)
            BY <1>1 DEF ReceiverSound
        <3>2. chains \in Seq(Chains)
            BY <1>1, TypeOfParty, RatchetParts
        <3>3. chains[i] \in Chains
            BY <3>2, ListOfChains
        <3>4. /\ chains[i].ratchet_key.n \in Nat
              /\ RootLength(chains[i].chain_key.key.root) \in Nat
            BY <3>3, ChainParts, RootLengthType DEF RatchetKeys
        <3>5. Peer(x) \in Party
            BY PeerFacts
        <3> HIDE DEF chains
        <3> QED
            BY <1>6, <1>12, <2>1, <3>1, <3>4, <3>5
    <2>3. \A i, j \in 1 .. Len(chains) :
             chains[i].chain_key.key.root = chains[j].chain_key.key.root => i = j
        BY <1>1 DEF ReceiverSound
    <2>4. ratchet'[x].receiver_chains = chains
        BY <2>1
    <2> HIDE DEF chains
    <2> QED
        BY <2>2, <2>3, <2>4 DEF ReceiverSound
<1>22. \A x \in Party : SkippedSound(ratchet[x])'
    <2> SUFFICES ASSUME NEW x \in Party PROVE SkippedSound(ratchet[x])'
        OBVIOUS
    <2> DEFINE chains == ratchet[x].receiver_chains
               skipped == ratchet[x].skipped_message_keys
    <2>1. ASSUME NEW j \in 1 .. Len(skipped)
          PROVE  /\ InStep(skipped[j].message_key)
                 /\ IsChain(sent', skipped[j].ratchet_key, skipped[j].message_key.key.root)
                 /\ RootLength(skipped[j].message_key.key.root)
                       <= RootLength(ratchet'[x].root_key)
                 /\ \A i \in 1 .. Len(chains) :
                       chains[i].chain_key.key.root = skipped[j].message_key.key.root
                       => skipped[j].message_key.index < chains[i].chain_key.index
        <3>1. /\ InStep(skipped[j].message_key)
              /\ IsChain(sent, skipped[j].ratchet_key, skipped[j].message_key.key.root)
              /\ RootLength(skipped[j].message_key.key.root) <= RootLength(ratchet[x].root_key)
              /\ \A i \in 1 .. Len(chains) :
                    chains[i].chain_key.key.root = skipped[j].message_key.key.root
                    => skipped[j].message_key.index < chains[i].chain_key.index
            BY <1>1 DEF SkippedSound, ChainIndex
        <3>2. skipped \in Seq(SkippedKeys)
            BY <1>1, TypeOfParty, RatchetParts
        <3>3. skipped[j] \in SkippedKeys
            BY <3>2, ListOfSkippedKeys
        <3>4. RootLength(skipped[j].message_key.key.root) \in Nat
            BY <3>3, RootLengthType DEF SkippedKeys, ChainKeys, SymmetricKeys
        <3> HIDE DEF chains, skipped
        <3> QED
            BY <1>12, <1>20, <3>1, <3>4
    <2>2. \A j, k \in 1 .. Len(skipped) :
             skipped[j].message_key.key = skipped[k].message_key.key => j = k
        BY <1>1 DEF SkippedSound
    <2>3. ratchet'[x].receiver_chains = chains /\ ratchet'[x].skipped_message_keys = skipped
        BY <1>20
    <2> HIDE DEF chains, skipped
    <2> QED
        BY <2>1, <2>2, <2>3 DEF SkippedSound, ChainIndex
<1>23. \A x \in Party : /\ DeliveredSound(ratchet[x], delivered[x])'
                         /\ delivered'[x] \subseteq SentTo(x)'
    <2> SUFFICES ASSUME NEW x \in Party
                 PROVE  /\ DeliveredSound(ratchet[x], delivered[x])'
                        /\ delivered'[x] \subseteq SentTo(x)'
        OBVIOUS
    <2>1. delivered'[x] \subseteq SentTo(x)'
        BY <1>1, <1>4 DEF SentTo
    <2>2. ASSUME NEW m \in delivered[x]
          PROVE  /\ RootLength(m.key.root) <= RootLength(ratchet'[x].root_key)
                 /\ \A i \in 1 .. Len(ratchet[x].receiver_chains) :
                       ratchet[x].receiver_chains[i].chain_key.key.root = m.key.root
                       => m.counter < ratchet[x].receiver_chains[i].chain_key.index
                 /\ \A j \in 1 .. Len(ratchet[x].skipped_message_keys) :
                       ratchet[x].skipped_message_keys[j].message_key.key # m.key
        <3>1. m \in Messages
            BY <1>1, TypeOfParty
        <3>2. RootLength(m.key.root) \in Nat
            BY <3>1, MessageParts, RootLengthType
        <3>3. RootLength(m.key.root) <= RootLength(ratchet[x].root_key)
            BY <1>1 DEF DeliveredSound
        <3>4. RootLength(m.key.root) <= RootLength(ratchet'[x].root_key)
            BY <1>20, <3>2, <3>3
        <3> QED
            BY <1>1, <3>4 DEF DeliveredSound, ChainIndex
    <2>3. delivered'[x] = delivered[x]
        BY <1>4
    <2> QED
        BY <1>20, <2>1, <2>2, <2>3 DEF DeliveredSound, ChainIndex
<1>24. EncryptHasPeerKey'
    <2>1. ratchet'[p].sender_chain # <<>>
        BY <1>6, <1>7, EmptySeq
    <2>2. ratchet'[q].sender_chain = <<>> => ratchet'[q].receiver_chains # <<>>
        BY <1>1, <1>2, <1>6 DEF EncryptHasPeerKey
    <2> QED
        BY <1>2, <2>1, <2>2 DEF EncryptHasPeerKey
<1>25. /\ \A x \in Party : ratchet'[x].root_key.secret = Secret
       /\ generated'[Alice] > 0
    <2>1. \A x \in Party : ratchet'[x].root_key.secret = Secret
        BY <1>1, <1>2, <1>3, <1>6, <1>7
    <2>2. Alice \in Party
        BY DEF Party
    <2> QED
        BY <1>1, <1>6, <2>1, <2>2
<1>26. Channel!Send(p)
    <2>1. msg \notin sent
        BY <1>16
    <2> QED
        BY <1>4, <1>10, <2>1 DEF Channel!Send
<1>27. \A x \in Party : SenderSound(x)'
    BY <1>2, <1>18, <1>19
<1> QED
    BY <1>11, <1>14, <1>15, <1>17, <1>21, <1>22, <1>23, <1>24, <1>25, <1>26, <1>27 DEF IInv

-----------------------------------------------------------------------------
(* decrypt(): what moving a chain beyond a message does to the soundness   *)
(* of a ratchet.  The keys it passes lie between the chain's old index and *)
(* the message's, where nothing was decrypted and no key was kept.         *)
LEMMA AdvanceSound ==
    ASSUME IInv, NEW p \in Party, NEW r \in Ratchets,
           ReceiverSound(p, r), SkippedSound(r),
           NEW messages \in SUBSET sent, DeliveredSound(r, messages),
           NEW i \in 1 .. Len(r.receiver_chains), NEW m \in sent,
           r.receiver_chains[i].chain_key.index <= m.counter,
           m.key.root = r.receiver_chains[i].chain_key.key.root
    PROVE  LET a == AdvanceReceiverChain(r, i, m.counter) IN
           /\ ReceiverSound(p, a)
           /\ SkippedSound(a)
           /\ DeliveredSound(a, messages \cup {m})
<1> DEFINE a == AdvanceReceiverChain(r, i, m.counter)
           chain == r.receiver_chains[i]
           n == m.counter - chain.chain_key.index
           chains == a.receiver_chains
           keys == a.skipped_message_keys
           oldChains == r.receiver_chains
           oldKeys == r.skipped_message_keys
           root == m.key.root
           IsNew(j) == /\ InStep(keys[j].message_key)
                       /\ keys[j].ratchet_key = chain.ratchet_key
                       /\ keys[j].message_key.index = m.counter - j
                       /\ keys[j].message_key.key.root = root
                       /\ chain.chain_key.index <= m.counter - j
           IsOld(j) == /\ j - n \in 1 .. Len(oldKeys)
                       /\ keys[j] = oldKeys[j - n]
<1>1. /\ TypeOK /\ SentSound
      /\ \A s \in sent : s \in Messages /\ s.counter \in Nat /\ s.counter = s.key.steps
    BY MessageParts DEF IInv, TypeOK, SentSound
<1>2. /\ oldChains \in Seq(Chains) /\ oldKeys \in Seq(SkippedKeys)
      /\ chain \in Chains /\ chain.chain_key.index \in Nat
      /\ m.counter \in Nat
    BY <1>1, RatchetParts, ListOfChains, ChainParts
<1>3. /\ InStep(chain.chain_key)
      /\ IsChain(sent, chain.ratchet_key, root)
      /\ chain.chain_key.key.root = root
      /\ RootLength(root) <= RootLength(r.root_key)
    BY DEF ReceiverSound
<1>4. /\ a \in Ratchets
      /\ a.root_key = r.root_key
      /\ Len(chains) = Len(oldChains)
      /\ \A j \in 1 .. Len(oldChains) : j # i => chains[j] = oldChains[j]
      /\ chains[i].ratchet_key = chain.ratchet_key
      /\ chains[i].chain_key.index = m.counter + 1
      /\ chains[i].chain_key.key.root = root
      /\ InStep(chains[i].chain_key)
      /\ n \in Nat
      /\ \A j \in 1 .. Len(keys) :
            \/ /\ j <= n
               /\ keys[j].ratchet_key = chain.ratchet_key
               /\ keys[j].message_key.index = m.counter - j
               /\ keys[j].message_key.key.root = root
               /\ InStep(keys[j].message_key)
            \/ /\ j > n
               /\ j - n \in 1 .. Len(oldKeys)
               /\ keys[j] = oldKeys[j - n]
    <2>1. AdvancedFrom(r, i, m.counter, a)
        BY <1>2, AdvanceReceiverChainFacts
    <2> HIDE DEF a
    <2> QED
        BY <1>3, <2>1 DEF AdvancedFrom
<1>5. a.skipped_message_keys \in Seq(SkippedKeys) /\ Len(keys) \in Nat
    BY <1>4, RatchetParts, ListOfSkippedKeys
<1> HIDE DEF a
<1>6. \A j \in 1 .. Len(keys) : IsNew(j) \/ IsOld(j)
    <2> SUFFICES ASSUME NEW j \in 1 .. Len(keys) PROVE IsNew(j) \/ IsOld(j)
        OBVIOUS
    <2>1. j <= n => chain.chain_key.index <= m.counter - j
        BY <1>2
    <2> HIDE DEF n, keys, root, chain, oldKeys
    <2> QED
        BY <1>4, <2>1
<1> HIDE DEF n, keys, root, chain, chains, oldKeys, oldChains
<1>7. \A j \in 1 .. Len(chains) :
         /\ chains[j].ratchet_key = oldChains[j].ratchet_key
         /\ chains[j].chain_key.key.root = oldChains[j].chain_key.key.root
         /\ chains[j].chain_key.key.root = root => j = i
    <2>1. \A j \in 1 .. Len(oldChains) : oldChains[j].chain_key.key.root = root => j = i
        BY <1>3 DEF ReceiverSound, oldChains, chain
    <2>2. oldChains[i].ratchet_key = chain.ratchet_key
          /\ oldChains[i].chain_key.key.root = root
        BY <1>3 DEF oldChains, chain
    <2> QED
        BY <1>4, <2>1, <2>2
<1>8. ReceiverSound(p, a)
    <2>1. ASSUME NEW j \in 1 .. Len(chains)
          PROVE  /\ InStep(chains[j].chain_key)
                 /\ chains[j].ratchet_key.owner = Peer(p)
                 /\ chains[j].ratchet_key.n < generated[Peer(p)]
                 /\ IsChain(sent, chains[j].ratchet_key, chains[j].chain_key.key.root)
                 /\ RootLength(chains[j].chain_key.key.root) <= RootLength(a.root_key)
        <3>1. /\ InStep(oldChains[j].chain_key)
              /\ oldChains[j].ratchet_key.owner = Peer(p)
              /\ oldChains[j].ratchet_key.n < generated[Peer(p)]
              /\ IsChain(sent, oldChains[j].ratchet_key, oldChains[j].chain_key.key.root)
              /\ RootLength(oldChains[j].chain_key.key.root) <= RootLength(r.root_key)
            BY <1>4 DEF ReceiverSound, oldChains
        <3>2. InStep(chains[j].chain_key)
            BY <1>4, <3>1
        <3> QED
            BY <1>4, <1>7, <3>1, <3>2
    <2>2. \A j, k \in 1 .. Len(chains) :
             chains[j].chain_key.key.root = chains[k].chain_key.key.root => j = k
        BY <1>4, <1>7 DEF ReceiverSound, oldChains
    <2> QED
        BY <2>1, <2>2 DEF ReceiverSound, chains
<1>9. ASSUME NEW k \in 1 .. Len(oldKeys)
      PROVE  /\ InStep(oldKeys[k].message_key)
             /\ IsChain(sent, oldKeys[k].ratchet_key, oldKeys[k].message_key.key.root)
             /\ RootLength(oldKeys[k].message_key.key.root) <= RootLength(r.root_key)
             /\ \A j \in 1 .. Len(oldChains) :
                   oldChains[j].chain_key.key.root = oldKeys[k].message_key.key.root
                   => oldKeys[k].message_key.index < oldChains[j].chain_key.index
             /\ oldKeys[k].message_key.key.root = root
                   => oldKeys[k].message_key.index < chain.chain_key.index
             /\ oldKeys[k].message_key.index \in Nat
    <2>1. /\ InStep(oldKeys[k].message_key)
          /\ IsChain(sent, oldKeys[k].ratchet_key, oldKeys[k].message_key.key.root)
          /\ RootLength(oldKeys[k].message_key.key.root) <= RootLength(r.root_key)
          /\ \A j \in 1 .. Len(oldChains) :
                oldChains[j].chain_key.key.root = oldKeys[k].message_key.key.root
                => oldKeys[k].message_key.index < oldChains[j].chain_key.index
        BY DEF SkippedSound, ChainIndex, oldKeys, oldChains
    <2>2. oldKeys[k].message_key.key.root = root
             => oldKeys[k].message_key.index < chain.chain_key.index
        BY <1>3, <2>1 DEF oldChains, chain
    <2>3. oldKeys[k] \in SkippedKeys
        BY <1>2, ListOfSkippedKeys
    <2>4. oldKeys[k].message_key.index \in Nat
        BY <2>3 DEF SkippedKeys, ChainKeys
    <2> QED
        BY <2>1, <2>2, <2>4
<1>10. ASSUME NEW j \in 1 .. Len(keys)
       PROVE  /\ InStep(keys[j].message_key)
              /\ IsChain(sent, keys[j].ratchet_key, keys[j].message_key.key.root)
              /\ RootLength(keys[j].message_key.key.root) <= RootLength(a.root_key)
              /\ \A k \in 1 .. Len(chains) :
                    chains[k].chain_key.key.root = keys[j].message_key.key.root
                    => keys[j].message_key.index < chains[k].chain_key.index
    <2>1. CASE IsNew(j)
        <3>1. m.counter - j < m.counter + 1
            BY <1>2, <1>5
        <3> QED
            BY <1>3, <1>4, <1>7, <2>1, <3>1
    <2>2. CASE IsOld(j)
        <3> DEFINE k == j - n
        <3>1. k \in 1 .. Len(oldKeys) /\ keys[j] = oldKeys[k]
            BY <2>2
        <3> HIDE DEF k
        <3>2. ASSUME NEW l \in 1 .. Len(chains),
                     chains[l].chain_key.key.root = oldKeys[k].message_key.key.root
              PROVE  oldKeys[k].message_key.index < chains[l].chain_key.index
            <4>1. oldKeys[k].message_key.index < oldChains[l].chain_key.index
                BY <1>4, <1>7, <1>9, <3>1, <3>2
            <4>2. CASE l = i
                <5>1. /\ oldKeys[k].message_key.index < chain.chain_key.index
                      /\ oldKeys[k].message_key.index \in Nat
                    BY <1>4, <1>9, <3>1, <3>2, <4>2
                <5>2. oldKeys[k].message_key.index < m.counter + 1
                    BY <1>2, <5>1, SMTT(30) DEF chain
                <5> QED
                    BY <1>4, <4>2, <5>2
            <4> QED
                BY <1>4, <4>1, <4>2
        <3> QED
            BY <1>4, <1>9, <3>1, <3>2
    <2> QED
        BY <1>6, <2>1, <2>2
<1>11. ASSUME NEW j \in 1 .. Len(keys), NEW k \in 1 .. Len(keys), j # k
       PROVE  keys[j].message_key.key # keys[k].message_key.key
    <2>1. ASSUME NEW x \in 1 .. Len(keys), NEW y \in 1 .. Len(keys), x # y,
                 keys[x].message_key.key = keys[y].message_key.key
          PROVE  IsNew(x) => ~IsNew(y) /\ ~IsOld(y)
        <3>1. /\ InStep(keys[x].message_key) /\ InStep(keys[y].message_key)
            BY <1>10
        <3>2. keys[x].message_key.index = keys[y].message_key.index
              /\ keys[x].message_key.key.root = keys[y].message_key.key.root
            BY <2>1, <3>1 DEF InStep
        <3>3. IsNew(x) /\ IsNew(y) => FALSE
            <4>1. m.counter - x # m.counter - y
                BY <1>2, <1>5, <2>1
            <4> QED
                BY <3>2, <4>1
        <3>4. ASSUME IsNew(x), IsOld(y) PROVE FALSE
            <4> DEFINE z == y - n
            <4>1. z \in 1 .. Len(oldKeys) /\ keys[y] = oldKeys[z]
                BY <3>4
            <4> HIDE DEF z
            <4>2. oldKeys[z].message_key.index < chain.chain_key.index
                  /\ oldKeys[z].message_key.index \in Nat
                BY <1>9, <3>2, <3>4, <4>1
            <4>3. chain.chain_key.index <= keys[x].message_key.index
                BY <3>4
            <4> QED
                BY <1>2, <3>2, <4>1, <4>2, <4>3, SMTT(30)
        <3> QED
            BY <3>3, <3>4
    <2>2. ASSUME IsOld(j), IsOld(k)
          PROVE  keys[j].message_key.key # keys[k].message_key.key
        <3> DEFINE x == j - n
                   y == k - n
        <3>1. x \in 1 .. Len(oldKeys) /\ y \in 1 .. Len(oldKeys)
              /\ keys[j] = oldKeys[x] /\ keys[k] = oldKeys[y]
            BY <2>2
        <3>2. x # y
            BY <1>4, <1>5, <1>11
        <3> HIDE DEF x, y
        <3> QED
            BY <3>1, <3>2 DEF SkippedSound, oldKeys
    <2> QED
        BY <1>6, <1>11, <2>1, <2>2
<1>12. SkippedSound(a)
    BY <1>10, <1>11 DEF SkippedSound, ChainIndex, keys, chains
<1>13. ASSUME NEW d \in messages \cup {m}
       PROVE  /\ RootLength(d.key.root) <= RootLength(a.root_key)
              /\ \A j \in 1 .. Len(chains) :
                    chains[j].chain_key.key.root = d.key.root
                    => d.counter < chains[j].chain_key.index
              /\ \A j \in 1 .. Len(keys) : keys[j].message_key.key # d.key
    <2>1. CASE d = m
        <3>1. m.counter < m.counter + 1 /\ m.key.root = root
            BY <1>2 DEF root
        <3>2. ASSUME NEW j \in 1 .. Len(keys), keys[j].message_key.key = m.key
              PROVE  FALSE
            <4>1. InStep(keys[j].message_key) /\ keys[j].message_key.index = m.counter
                BY <1>1, <1>10, <3>2 DEF InStep
            <4>2. ~IsNew(j)
                BY <1>2, <1>5, <4>1
            <4>3. ASSUME IsOld(j) PROVE FALSE
                <5> DEFINE k == j - n
                <5>1. k \in 1 .. Len(oldKeys) /\ keys[j] = oldKeys[k]
                    BY <4>3
                <5> HIDE DEF k
                <5>2. oldKeys[k].message_key.index < chain.chain_key.index
                    BY <1>9, <3>1, <3>2, <5>1
                <5>3. m.counter < chain.chain_key.index
                    BY <4>1, <5>1, <5>2
                <5> QED
                    BY <1>2, <5>3 DEF chain
            <4> QED
                BY <1>6, <4>2, <4>3
        <3> QED
            BY <1>3, <1>4, <1>7, <2>1, <3>1, <3>2
    <2>2. CASE d \in messages
        <3>1. /\ RootLength(d.key.root) <= RootLength(r.root_key)
              /\ \A j \in 1 .. Len(oldChains) :
                    oldChains[j].chain_key.key.root = d.key.root
                    => d.counter < oldChains[j].chain_key.index
              /\ \A j \in 1 .. Len(oldKeys) : oldKeys[j].message_key.key # d.key
              /\ d.counter \in Nat /\ d.counter = d.key.steps
            BY <1>1, <2>2 DEF DeliveredSound, ChainIndex, oldKeys, oldChains
        <3>2. d.key.root = root => d.counter < chain.chain_key.index
            BY <1>3, <3>1 DEF oldChains, chain
        <3>3. ASSUME NEW j \in 1 .. Len(chains), chains[j].chain_key.key.root = d.key.root
              PROVE  d.counter < chains[j].chain_key.index
            <4>1. CASE j = i
                <5>1. d.counter < m.counter + 1
                    BY <1>2, <1>7, <3>1, <3>2, <3>3, <1>4, <4>1 DEF chain
                <5> QED
                    BY <1>4, <4>1, <5>1
            <4>2. CASE j # i
                BY <1>4, <1>7, <3>1, <3>3, <4>2
            <4> QED
                BY <4>1, <4>2
        <3>4. ASSUME NEW j \in 1 .. Len(keys), keys[j].message_key.key = d.key
              PROVE  FALSE
            <4>1. keys[j].message_key.index = d.counter
                BY <1>10, <3>1, <3>4 DEF InStep
            <4>2. ~IsNew(j)
                BY <1>2, <3>1, <3>2, <3>4, <4>1
            <4>3. ~IsOld(j)
                BY <3>1, <3>4
            <4> QED
                BY <1>6, <4>2, <4>3
        <3> QED
            BY <1>4, <3>1, <3>3, <3>4
    <2> QED
        BY <2>1, <2>2
<1>14. DeliveredSound(a, messages \cup {m})
    BY <1>13 DEF DeliveredSound, ChainIndex, keys, chains
<1> QED
    BY <1>8, <1>12, <1>14 DEF a

(* The new chain's root is longer than every root the party has met: no    *)
(* chain, no skipped key and no decrypted message is on it.                *)
LEMMA AddSound ==
    ASSUME IInv, NEW p \in Party, NEW m \in SentTo(p),
           m.key.root = NewRootFor(ratchet[p], m), ratchet[p].sender_chain # <<>>
    PROVE  LET a == AddReceiverChain(ratchet[p], m) IN
           /\ a \in Ratchets
           /\ a.sender_chain = <<>>
           /\ a.root_key.secret = Secret
           /\ Len(a.receiver_chains) \in 1 .. MAX_RECEIVER_CHAINS
           /\ a.receiver_chains[1].chain_key.index = 0
           /\ a.receiver_chains[1].chain_key.key.root = m.key.root
           /\ ReceiverSound(p, a)
           /\ SkippedSound(a)
           /\ DeliveredSound(a, delivered[p])
<1> DEFINE r == ratchet[p]
           a == AddReceiverChain(r, m)
           root == m.key.root
           chains == a.receiver_chains
           oldChains == r.receiver_chains
           keys == r.skipped_message_keys
<1>1. /\ TypeOK /\ SentSound /\ r.root_key.secret = Secret
      /\ ReceiverSound(p, r) /\ SkippedSound(r) /\ DeliveredSound(r, delivered[p])
    BY DEF IInv
<1>2. /\ m \in sent /\ m \in Messages /\ m.from = Peer(p)
      /\ r \in Ratchets /\ Len(oldChains) <= MAX_RECEIVER_CHAINS
      /\ oldChains \in Seq(Chains) /\ keys \in Seq(SkippedKeys)
      /\ r.root_key \in RootKeys /\ Len(oldChains) \in Nat
    BY <1>1, TypeOfParty, RatchetParts, ListOfChains
<1>3. /\ m.ratchet_key \in RatchetKeys /\ m.ratchet_key.owner = Peer(p)
      /\ m.ratchet_key.n < generated[Peer(p)]
      /\ IsChain(sent, m.ratchet_key, root) /\ root \in RootKeys
    BY <1>1, <1>2, MessageParts, SentIsChain DEF SentSound
<1>4. /\ a \in Ratchets
      /\ a.sender_chain = <<>>
      /\ a.skipped_message_keys = keys
      /\ a.root_key = root
      /\ root.secret = r.root_key.secret
      /\ RootLength(root) = RootLength(r.root_key) + 1
      /\ chains[1].ratchet_key = m.ratchet_key
      /\ chains[1].chain_key = FirstChainKey(root)
      /\ Len(chains) \in 1 .. MAX_RECEIVER_CHAINS
      /\ Len(chains) <= Len(oldChains) + 1
      /\ \A i \in 2 .. Len(chains) : chains[i] = oldChains[i - 1]
    BY <1>2, <1>3, AddReceiverChainFacts
<1>5. RootLength(r.root_key) \in Nat /\ RootLength(root) \in Nat
    BY <1>2, <1>3, RootLengthType
<1>6. /\ chains[1].chain_key.index = 0
      /\ chains[1].chain_key.key.root = root
      /\ InStep(chains[1].chain_key)
    BY <1>3, <1>4, FirstChainKeyFacts DEF InStep
<1> HIDE DEF r, a, root, chains, oldChains, keys
<1>7. ASSUME NEW i \in 1 .. Len(oldChains)
      PROVE  /\ InStep(oldChains[i].chain_key)
             /\ oldChains[i].ratchet_key.owner = Peer(p)
             /\ oldChains[i].ratchet_key.n < generated[Peer(p)]
             /\ IsChain(sent, oldChains[i].ratchet_key, oldChains[i].chain_key.key.root)
             /\ RootLength(oldChains[i].chain_key.key.root) < RootLength(root)
    <2>1. /\ InStep(oldChains[i].chain_key)
          /\ oldChains[i].ratchet_key.owner = Peer(p)
          /\ oldChains[i].ratchet_key.n < generated[Peer(p)]
          /\ IsChain(sent, oldChains[i].ratchet_key, oldChains[i].chain_key.key.root)
          /\ RootLength(oldChains[i].chain_key.key.root) <= RootLength(r.root_key)
        BY <1>1 DEF ReceiverSound, oldChains
    <2>2. oldChains[i] \in Chains
        BY <1>2, ListOfChains
    <2>3. RootLength(oldChains[i].chain_key.key.root) \in Nat
        BY <2>2, ChainParts, RootLengthType
    <2> QED
        BY <1>4, <1>5, <2>1, <2>3
<1>8. ASSUME NEW i \in 1 .. Len(chains)
      PROVE  \/ i = 1
             \/ i - 1 \in 1 .. Len(oldChains) /\ chains[i] = oldChains[i - 1]
    <2>1. Len(chains) \in Nat
        BY <1>4, RatchetLimits
    <2>2. i = 1 \/ i \in 2 .. Len(chains)
        BY <2>1
    <2>3. i \in 2 .. Len(chains) => i - 1 \in 1 .. Len(oldChains)
        BY <1>2, <1>4, <2>1
    <2> QED
        BY <1>4, <2>2, <2>3
<1>9. \A i \in 1 .. Len(chains) : chains[i].chain_key.key.root = root => i = 1
    <2> SUFFICES ASSUME NEW i \in 1 .. Len(chains), i # 1,
                        chains[i].chain_key.key.root = root
                 PROVE  FALSE
        OBVIOUS
    <2> DEFINE k == i - 1
    <2>1. k \in 1 .. Len(oldChains) /\ chains[i] = oldChains[k]
        BY <1>8
    <2> HIDE DEF k
    <2>2. RootLength(root) < RootLength(root)
        BY <1>7, <2>1
    <2> QED
        BY <1>5, <2>2
<1>10. ReceiverSound(p, a)
    <2>1. ASSUME NEW i \in 1 .. Len(chains)
          PROVE  /\ InStep(chains[i].chain_key)
                 /\ chains[i].ratchet_key.owner = Peer(p)
                 /\ chains[i].ratchet_key.n < generated[Peer(p)]
                 /\ IsChain(sent, chains[i].ratchet_key, chains[i].chain_key.key.root)
                 /\ RootLength(chains[i].chain_key.key.root) <= RootLength(a.root_key)
        <3>1. CASE i = 1
            BY <1>3, <1>4, <1>5, <1>6, <3>1
        <3>2. CASE i # 1
            <4> DEFINE k == i - 1
            <4>1. k \in 1 .. Len(oldChains) /\ chains[i] = oldChains[k]
                BY <1>8, <3>2
            <4>2. oldChains[k] \in Chains
                BY <1>2, <4>1, ListOfChains
            <4> HIDE DEF k
            <4>3. RootLength(oldChains[k].chain_key.key.root) \in Nat
                BY <4>2, ChainParts, RootLengthType
            <4> QED
                BY <1>4, <1>5, <1>7, <4>1, <4>3
        <3> QED
            BY <3>1, <3>2
    <2>2. ASSUME NEW i \in 1 .. Len(chains), NEW j \in 1 .. Len(chains),
                 chains[i].chain_key.key.root = chains[j].chain_key.key.root
          PROVE  i = j
        <3>1. i = 1 <=> j = 1
            BY <1>6, <1>9, <2>2
        <3>2. CASE i # 1
            <4> DEFINE k == i - 1
                       l == j - 1
            <4>1. /\ k \in 1 .. Len(oldChains) /\ chains[i] = oldChains[k]
                  /\ l \in 1 .. Len(oldChains) /\ chains[j] = oldChains[l]
                BY <1>8, <3>1, <3>2
            <4>2. k = l => i = j
                OBVIOUS
            <4> HIDE DEF k, l
            <4>3. k = l
                BY <1>1, <2>2, <4>1 DEF ReceiverSound, oldChains
            <4> QED
                BY <4>2, <4>3
        <3> QED
            BY <3>1, <3>2
    <2> QED
        BY <2>1, <2>2 DEF ReceiverSound, chains
<1>11. SkippedSound(a)
    <2>1. ASSUME NEW j \in 1 .. Len(keys)
          PROVE  /\ InStep(keys[j].message_key)
                 /\ IsChain(sent, keys[j].ratchet_key, keys[j].message_key.key.root)
                 /\ RootLength(keys[j].message_key.key.root) <= RootLength(root)
                 /\ \A i \in 1 .. Len(chains) :
                       chains[i].chain_key.key.root = keys[j].message_key.key.root
                       => keys[j].message_key.index < chains[i].chain_key.index
        <3>1. /\ InStep(keys[j].message_key)
              /\ IsChain(sent, keys[j].ratchet_key, keys[j].message_key.key.root)
              /\ RootLength(keys[j].message_key.key.root) <= RootLength(r.root_key)
              /\ \A i \in 1 .. Len(oldChains) :
                    oldChains[i].chain_key.key.root = keys[j].message_key.key.root
                    => keys[j].message_key.index < oldChains[i].chain_key.index
            BY <1>1 DEF SkippedSound, ChainIndex, keys, oldChains
        <3>2. keys[j] \in SkippedKeys
            BY <1>2, ListOfSkippedKeys
        <3>3. RootLength(keys[j].message_key.key.root) \in Nat
            BY <3>2, RootLengthType DEF SkippedKeys, ChainKeys, SymmetricKeys
        <3>4. RootLength(keys[j].message_key.key.root) < RootLength(root)
            BY <1>4, <1>5, <3>1, <3>3
        <3>5. ASSUME NEW i \in 1 .. Len(chains),
                     chains[i].chain_key.key.root = keys[j].message_key.key.root
              PROVE  keys[j].message_key.index < chains[i].chain_key.index
            <4>1. i # 1
                BY <1>5, <1>6, <3>4, <3>5
            <4> DEFINE k == i - 1
            <4>2. k \in 1 .. Len(oldChains) /\ chains[i] = oldChains[k]
                BY <1>8, <4>1
            <4> HIDE DEF k
            <4> QED
                BY <3>1, <3>5, <4>2
        <3> QED
            BY <1>5, <3>1, <3>3, <3>4, <3>5
    <2>2. \A j, k \in 1 .. Len(keys) :
             keys[j].message_key.key = keys[k].message_key.key => j = k
        BY <1>1 DEF SkippedSound, keys
    <2> QED
        BY <1>4, <2>1, <2>2 DEF SkippedSound, ChainIndex, chains
<1>12. DeliveredSound(a, delivered[p])
    <2>1. ASSUME NEW d \in delivered[p]
          PROVE  /\ RootLength(d.key.root) <= RootLength(root)
                 /\ \A i \in 1 .. Len(chains) :
                       chains[i].chain_key.key.root = d.key.root
                       => d.counter < chains[i].chain_key.index
                 /\ \A j \in 1 .. Len(keys) : keys[j].message_key.key # d.key
        <3>1. /\ RootLength(d.key.root) <= RootLength(r.root_key)
              /\ \A i \in 1 .. Len(oldChains) :
                    oldChains[i].chain_key.key.root = d.key.root
                    => d.counter < oldChains[i].chain_key.index
              /\ \A j \in 1 .. Len(keys) : keys[j].message_key.key # d.key
            BY <1>1 DEF DeliveredSound, ChainIndex, keys, oldChains
        <3>2. d \in Messages
            BY <1>1, TypeOfParty
        <3>3. RootLength(d.key.root) \in Nat
            BY <3>2, MessageParts, RootLengthType
        <3>4. RootLength(d.key.root) < RootLength(root)
            BY <1>4, <1>5, <3>1, <3>3
        <3>5. ASSUME NEW i \in 1 .. Len(chains), chains[i].chain_key.key.root = d.key.root
              PROVE  d.counter < chains[i].chain_key.index
            <4>1. i # 1
                BY <1>5, <1>6, <3>4, <3>5
            <4> DEFINE k == i - 1
            <4>2. k \in 1 .. Len(oldChains) /\ chains[i] = oldChains[k]
                BY <1>8, <4>1
            <4> HIDE DEF k
            <4> QED
                BY <3>1, <3>5, <4>2
        <3> QED
            BY <1>5, <3>1, <3>3, <3>4, <3>5
    <2> QED
        BY <1>4, <2>1 DEF DeliveredSound, ChainIndex, chains
<1> QED
    BY <1>1, <1>4, <1>6, <1>10, <1>11, <1>12 DEF a, r, chains, root

-----------------------------------------------------------------------------
(* decrypt() succeeds: given that the new ratchet is sound, the invariant  *)
(* is preserved and the step is a delivery of the abstract channel.        *)
LEMMA ReceiveIInv ==
    ASSUME IInv, NEW p \in Party, NEW m \in SentTo(p), m \notin delivered[p],
           NEW a \in Ratchets, ratchet' = [ratchet EXCEPT ![p] = a], Deliver(p, m),
           a.root_key.secret = Secret,
           Len(a.receiver_chains) <= MAX_RECEIVER_CHAINS,
           Len(a.skipped_message_keys) <= MAX_SKIPPED_MESSAGE_KEYS,
           a.sender_chain \in {<<>>, ratchet[p].sender_chain},
           a.sender_chain = <<>> => a.receiver_chains # <<>>,
           ReceiverSound(p, a), SkippedSound(a),
           DeliveredSound(a, delivered[p] \cup {m})
    PROVE  IInv' /\ Channel!Receive(p)
<1> DEFINE q == Peer(p)
<1>1. /\ TypeOK /\ SentSound /\ OneKeyPerRoot /\ MessageKeysUnique /\ EncryptHasPeerKey
      /\ generated[Alice] > 0
      /\ \A x \in Party : /\ ratchet[x].root_key.secret = Secret
                          /\ SenderSound(x) /\ ReceiverSound(x, ratchet[x])
                          /\ SkippedSound(ratchet[x])
                          /\ DeliveredSound(ratchet[x], delivered[x])
                          /\ delivered[x] \subseteq SentTo(x)
    BY DEF IInv
<1>2. /\ q \in Party /\ q # p /\ \A x \in Party : x = p \/ x = q
    BY PeerFacts
<1>3. /\ ratchet \in [Party -> Ratchets] /\ delivered \in [Party -> SUBSET Messages]
      /\ received_message \in [Party -> BOOLEAN] /\ decrypted \in [Party -> Nat]
      /\ m \in Messages /\ m \in sent /\ m.from = q
    BY <1>1, TypeOfParty DEF TypeOK
<1>4. /\ ratchet'[p] = a /\ ratchet'[q] = ratchet[q]
      /\ delivered' = [delivered EXCEPT ![p] = @ \cup {m}]
      /\ delivered'[p] = delivered[p] \cup {m} /\ delivered'[q] = delivered[q]
      /\ decrypted' = [decrypted EXCEPT ![p] = @ + 1]
      /\ received_message' = [received_message EXCEPT ![p] = TRUE]
      /\ sent' = sent /\ generated' = generated /\ encrypted' = encrypted
    BY <1>2, <1>3 DEF Deliver
<1>5. TypeOK'
    <2>1. ratchet' \in [Party -> Ratchets]
        BY <1>3
    <2>2. Len(a.sender_chain) <= 1
        <3>1. Len(ratchet[p].sender_chain) <= 1
            BY <1>1 DEF TypeOK
        <3>2. CASE a.sender_chain = <<>>
            <4>1. a.sender_chain \in Seq(Chains) /\ Len(a.sender_chain) = 0
                BY <3>2, EmptySeq
            <4> QED
                BY <4>1
        <3> QED
            BY <3>1, <3>2
    <2>3. /\ Len(ratchet[q].sender_chain) <= 1
          /\ Len(ratchet[q].receiver_chains) <= MAX_RECEIVER_CHAINS
          /\ Len(ratchet[q].skipped_message_keys) <= MAX_SKIPPED_MESSAGE_KEYS
        BY <1>1, <1>2 DEF TypeOK
    <2>4. \A x \in Party :
              /\ Len(ratchet'[x].sender_chain) <= 1
              /\ Len(ratchet'[x].receiver_chains) <= MAX_RECEIVER_CHAINS
              /\ Len(ratchet'[x].skipped_message_keys) <= MAX_SKIPPED_MESSAGE_KEYS
        BY <1>2, <1>4, <2>2, <2>3
    <2>5. /\ received_message' \in [Party -> BOOLEAN]
          /\ generated' \in [Party -> Nat]
          /\ sent' \subseteq Messages
          /\ encrypted' \in [Party -> Nat]
          /\ delivered' \in [Party -> SUBSET Messages]
        BY <1>1, <1>3, <1>4 DEF TypeOK
    <2>6. decrypted' \in [Party -> Nat]
        BY <1>3, <1>4
    <2> QED
        BY <2>1, <2>4, <2>5, <2>6 DEF TypeOK
<1>6. SentSound' /\ OneKeyPerRoot' /\ MessageKeysUnique' /\ generated'[Alice] > 0
    BY <1>1, <1>4 DEF SentSound, OneKeyPerRoot, MessageKeysUnique
<1>7. SenderSound(p)' /\ SenderSound(q)'
    <2>1. SenderSound(q)'
        BY <1>1, <1>2, <1>4 DEF SenderSound
    <2>2. CASE a.sender_chain = ratchet[p].sender_chain
        <3>1. SenderSound(p) /\ ratchet'[p].sender_chain = ratchet[p].sender_chain
            BY <1>1, <1>4, <2>2
        <3>2. sent' = sent /\ generated' = generated
            BY <1>4
        <3>3. SenderSound(p)'
            BY ONLY <3>1, <3>2 DEF SenderSound
        <3> QED
            BY <2>1, <3>3
    <2>3. CASE a.sender_chain = <<>>
        <3>1. 1 .. Len(a.sender_chain) = {}
            BY <2>3, EmptySeq
        <3> QED
            BY <1>4, <2>1, <3>1 DEF SenderSound
    <2> QED
        BY <2>2, <2>3
<1>8. /\ ReceiverSound(p, ratchet[p])' /\ SkippedSound(ratchet[p])'
      /\ DeliveredSound(ratchet[p], delivered[p])'
    <2>1. ReceiverSound(p, ratchet[p])'
        BY <1>4, SMTT(30) DEF ReceiverSound
    <2>2. SkippedSound(ratchet[p])'
        BY <1>4, SMTT(30) DEF SkippedSound
    <2>3. DeliveredSound(ratchet[p], delivered[p])'
        BY <1>4 DEF DeliveredSound, ChainIndex
    <2> QED
        BY <2>1, <2>2, <2>3
<1>9. /\ ReceiverSound(q, ratchet[q])' /\ SkippedSound(ratchet[q])'
      /\ DeliveredSound(ratchet[q], delivered[q])'
    <2>1. ReceiverSound(q, ratchet[q])'
        BY <1>1, <1>2, <1>4 DEF ReceiverSound
    <2>2. SkippedSound(ratchet[q])'
        <3>1. SkippedSound(ratchet[q]) /\ ratchet'[q] = ratchet[q] /\ sent' = sent
            BY <1>1, <1>2, <1>4
        <3> QED
            BY ONLY <3>1 DEF SkippedSound, ChainIndex
    <2>3. DeliveredSound(ratchet[q], delivered[q])'
        BY <1>1, <1>2, <1>4 DEF DeliveredSound, ChainIndex
    <2> QED
        BY <2>1, <2>2, <2>3
<1>10. \A x \in Party : delivered'[x] \subseteq SentTo(x)' /\ ratchet'[x].root_key.secret = Secret
    BY <1>1, <1>2, <1>4 DEF SentTo
<1>11. EncryptHasPeerKey'
    BY <1>1, <1>2, <1>4 DEF EncryptHasPeerKey
<1>12. Channel!Receive(p)
    BY <1>2, <1>3, <1>4 DEF Channel!Receive
<1> QED
    <2>1. \A x \in Party : /\ SenderSound(x)' /\ ReceiverSound(x, ratchet[x])'
                           /\ SkippedSound(ratchet[x])'
                           /\ DeliveredSound(ratchet[x], delivered[x])'
        BY <1>2, <1>7, <1>8, <1>9
    <2> QED
        BY <1>5, <1>6, <1>10, <1>11, <1>12, <2>1 DEF IInv

LEMMA NewChainIInv ==
    ASSUME IInv, NEW p \in Party, NEW m \in Frames(p), DecryptOnNewChain(p, m)
    PROVE  IInv' /\ Channel!Receive(p)
<1> DEFINE b == AddReceiverChain(ratchet[p], m)
           a == AdvanceReceiverChain(b, 1, m.counter)
<1>1. /\ AcceptsOnNewChain(ratchet[p], m)
      /\ ratchet' = [ratchet EXCEPT ![p] = a]
      /\ Deliver(p, m)
    BY DEF DecryptOnNewChain
<1>2. /\ m \in SentTo(p) /\ m \notin delivered[p]
      /\ m.key.root = NewRootFor(ratchet[p], m)
      /\ ratchet[p].sender_chain # <<>>
    BY <1>1, AcceptedOnNewChain
<1>3. TypeOK /\ delivered[p] \in SUBSET sent /\ m \in sent /\ m.counter \in Nat
    BY <1>2, TypeOfParty, MessageParts DEF IInv, SentTo
<1>4. /\ b \in Ratchets /\ b.sender_chain = <<>> /\ b.root_key.secret = Secret
      /\ Len(b.receiver_chains) \in 1 .. MAX_RECEIVER_CHAINS
      /\ b.receiver_chains[1].chain_key.index = 0
      /\ b.receiver_chains[1].chain_key.key.root = m.key.root
      /\ ReceiverSound(p, b) /\ SkippedSound(b) /\ DeliveredSound(b, delivered[p])
    BY <1>2, AddSound
<1> HIDE DEF b
<1>5. /\ 1 \in 1 .. Len(b.receiver_chains) /\ 0 <= m.counter
      /\ Len(b.receiver_chains) <= MAX_RECEIVER_CHAINS
      /\ Len(b.receiver_chains) \in Nat
    BY <1>3, <1>4, RatchetLimits
<1>6. AdvancedFrom(b, 1, m.counter, a)
    BY <1>3, <1>4, <1>5, AdvanceReceiverChainFacts
<1>7. ReceiverSound(p, a) /\ SkippedSound(a) /\ DeliveredSound(a, delivered[p] \cup {m})
    BY <1>3, <1>4, <1>5, AdvanceSound
<1> HIDE DEF a
<1>8. /\ a \in Ratchets /\ a.sender_chain = <<>> /\ a.root_key.secret = Secret
      /\ Len(a.receiver_chains) = Len(b.receiver_chains)
      /\ Len(a.skipped_message_keys) <= MAX_SKIPPED_MESSAGE_KEYS
    BY <1>4, <1>6 DEF AdvancedFrom
<1>9. a.receiver_chains # <<>>
    <2>1. Len(<<>>) = 0 /\ Len(b.receiver_chains) # 0
        BY <1>4
    <2> QED
        BY <1>8, <2>1
<1> QED
    BY <1>1, <1>2, <1>5, <1>7, <1>8, <1>9, ReceiveIInv

LEMMA OnChainIInv ==
    ASSUME IInv, NEW p \in Party, NEW m \in Frames(p), NEW sequential,
           DecryptOnChain(p, m, sequential)
    PROVE  IInv' /\ Channel!Receive(p)
<1> DEFINE r == ratchet[p]
<1>1. PICK i \in 1 .. Len(r.receiver_chains) :
         /\ AcceptsOnChain(r, m, i, sequential)
         /\ ratchet' = [ratchet EXCEPT ![p] = AdvanceReceiverChain(@, i, m.counter)]
         /\ Deliver(p, m)
    BY DEF DecryptOnChain
<1> DEFINE a == AdvanceReceiverChain(r, i, m.counter)
<1>2. ratchet' = [ratchet EXCEPT ![p] = a]
    BY <1>1 DEF IInv, TypeOK
<1>3. /\ m \in SentTo(p) /\ m \notin delivered[p]
      /\ r.receiver_chains[i].chain_key.index <= m.counter
      /\ m.key.root = r.receiver_chains[i].chain_key.key.root
    BY <1>1, AcceptedOnChain
<1>4. /\ TypeOK /\ delivered[p] \in SUBSET sent /\ m \in sent /\ m.counter \in Nat
      /\ r.root_key.secret = Secret
      /\ ReceiverSound(p, r) /\ SkippedSound(r) /\ DeliveredSound(r, delivered[p])
      /\ r.sender_chain = <<>> => r.receiver_chains # <<>>
    BY <1>3, TypeOfParty, MessageParts DEF IInv, SentTo, EncryptHasPeerKey
<1>5. r \in Ratchets /\ Len(r.receiver_chains) <= MAX_RECEIVER_CHAINS
      /\ r.receiver_chains \in Seq(Chains)
    BY <1>4, TypeOfParty, RatchetParts
<1>6. AdvancedFrom(r, i, m.counter, a)
    BY <1>3, <1>4, <1>5, AdvanceReceiverChainFacts
<1>7. ReceiverSound(p, a) /\ SkippedSound(a) /\ DeliveredSound(a, delivered[p] \cup {m})
    BY <1>3, <1>4, <1>5, AdvanceSound
<1> HIDE DEF a
<1>8. /\ a \in Ratchets /\ a.sender_chain = r.sender_chain /\ a.root_key.secret = Secret
      /\ Len(a.receiver_chains) = Len(r.receiver_chains)
      /\ Len(a.skipped_message_keys) <= MAX_SKIPPED_MESSAGE_KEYS
    BY <1>4, <1>6 DEF AdvancedFrom
<1>9. a.receiver_chains # <<>>
    <2>1. Len(<<>>) = 0 /\ Len(r.receiver_chains) # 0
        BY <1>1, <1>5, ListOfChains
    <2> QED
        BY <1>8, <2>1
<1> QED
    BY <1>1, <1>2, <1>3, <1>5, <1>7, <1>8, <1>9, ReceiveIInv

LEMMA SkippedIInv ==
    ASSUME IInv, NEW p \in Party, NEW m \in Frames(p), DecryptSkipped(p, m)
    PROVE  IInv' /\ Channel!Receive(p)
<1> DEFINE r == ratchet[p]
           old == r.skipped_message_keys
<1>1. PICK j \in 1 .. Len(r.skipped_message_keys) :
         /\ AcceptsSkipped(r, m, j)
         /\ ratchet' = [ratchet EXCEPT ![p] = UseSkipped(@, j)]
         /\ Deliver(p, m)
    BY DEF DecryptSkipped
<1> DEFINE a == UseSkipped(r, j)
           keys == a.skipped_message_keys
           From(k) == IF k < j THEN k ELSE k + 1
<1>2. ratchet' = [ratchet EXCEPT ![p] = a]
    BY <1>1 DEF IInv, TypeOK
<1>3. /\ m \in SentTo(p) /\ m \notin delivered[p]
      /\ old[j].message_key.key = m.key /\ old[j].message_key.index = m.counter
    BY <1>1, AcceptedSkipped
<1>4. /\ TypeOK /\ r.root_key.secret = Secret
      /\ ReceiverSound(p, r) /\ SkippedSound(r) /\ DeliveredSound(r, delivered[p])
      /\ r.sender_chain = <<>> => r.receiver_chains # <<>>
    BY DEF IInv, EncryptHasPeerKey
<1>5. /\ r \in Ratchets /\ Len(r.receiver_chains) <= MAX_RECEIVER_CHAINS
      /\ Len(old) <= MAX_SKIPPED_MESSAGE_KEYS
      /\ old \in Seq(SkippedKeys) /\ Len(old) \in Nat
    BY <1>4, TypeOfParty, RatchetParts, ListOfSkippedKeys
<1>6. /\ a \in Ratchets /\ a.sender_chain = r.sender_chain
      /\ a.root_key = r.root_key /\ a.receiver_chains = r.receiver_chains
      /\ Len(keys) = Len(old) - 1
      /\ \A k \in 1 .. Len(keys) : keys[k] = IF k < j THEN old[k] ELSE old[k + 1]
    BY <1>5, UseSkippedFacts
<1> HIDE DEF a, keys, old
<1>7. \A k \in 1 .. Len(keys) :
         From(k) \in 1 .. Len(old) /\ keys[k] = old[From(k)] /\ From(k) # j
    BY <1>1, <1>5, <1>6
<1>8. \A k, l \in 1 .. Len(keys) : From(k) = From(l) => k = l
    BY <1>5, <1>6
<1> HIDE DEF From
<1>9. ReceiverSound(p, a)
    BY <1>4, <1>6 DEF ReceiverSound
<1>10. SkippedSound(a)
    <2>1. ASSUME NEW k \in 1 .. Len(keys)
          PROVE  /\ InStep(keys[k].message_key)
                 /\ IsChain(sent, keys[k].ratchet_key, keys[k].message_key.key.root)
                 /\ RootLength(keys[k].message_key.key.root) <= RootLength(r.root_key)
                 /\ \A i \in 1 .. Len(r.receiver_chains) :
                       r.receiver_chains[i].chain_key.key.root = keys[k].message_key.key.root
                       => keys[k].message_key.index < ChainIndex(r, i)
        <3> DEFINE x == From(k)
        <3>1. x \in 1 .. Len(old) /\ keys[k] = old[x]
            BY <1>7
        <3> HIDE DEF x
        <3>2. /\ InStep(old[x].message_key)
              /\ IsChain(sent, old[x].ratchet_key, old[x].message_key.key.root)
              /\ RootLength(old[x].message_key.key.root) <= RootLength(r.root_key)
              /\ \A i \in 1 .. Len(r.receiver_chains) :
                    r.receiver_chains[i].chain_key.key.root = old[x].message_key.key.root
                    => old[x].message_key.index < ChainIndex(r, i)
            BY <1>4, <3>1 DEF SkippedSound, old
        <3> QED
            BY <3>1, <3>2
    <2>2. ASSUME NEW k \in 1 .. Len(keys), NEW l \in 1 .. Len(keys),
                 keys[k].message_key.key = keys[l].message_key.key
          PROVE  k = l
        <3> DEFINE x == From(k)
                   y == From(l)
        <3>1. /\ x \in 1 .. Len(old) /\ keys[k] = old[x]
              /\ y \in 1 .. Len(old) /\ keys[l] = old[y]
              /\ x = y => k = l
            BY <1>7, <1>8
        <3> HIDE DEF x, y
        <3>2. x = y
            BY <1>4, <2>2, <3>1 DEF SkippedSound, old
        <3> QED
            BY <3>1, <3>2
    <2>3. \A i \in 1 .. Len(r.receiver_chains) : ChainIndex(a, i) = ChainIndex(r, i)
        BY <1>6 DEF ChainIndex
    <2> HIDE DEF r
    <2> QED
        BY <1>6, <2>1, <2>2, <2>3 DEF SkippedSound, keys
<1>11. DeliveredSound(a, delivered[p] \cup {m})
    <2>1. DeliveredSound(a, delivered[p])
        BY <1>4, <1>6, <1>7 DEF DeliveredSound, ChainIndex, keys, old
    <2>2. \A k \in 1 .. Len(keys) : keys[k].message_key.key # m.key
        BY <1>1, <1>3, <1>4, <1>7 DEF SkippedSound, old
    <2>3. RootLength(m.key.root) <= RootLength(r.root_key)
        BY <1>1, <1>3, <1>4 DEF SkippedSound, old
    <2>4. \A i \in 1 .. Len(r.receiver_chains) :
             r.receiver_chains[i].chain_key.key.root = m.key.root
             => m.counter < ChainIndex(r, i)
        BY <1>1, <1>3, <1>4 DEF SkippedSound, old
    <2> QED
        BY <1>6, <2>1, <2>2, <2>3, <2>4 DEF DeliveredSound, ChainIndex, keys
<1>12. Len(keys) <= MAX_SKIPPED_MESSAGE_KEYS
    BY <1>5, <1>6, RatchetLimits
<1> QED
    BY <1>1, <1>2, <1>3, <1>4, <1>5, <1>6, <1>9, <1>10, <1>11, <1>12, ReceiveIInv DEF keys

-----------------------------------------------------------------------------
(* Every step preserves the invariant, and is a step of the channel.       *)
LEMMA StutterIInv ==
    ASSUME IInv, UNCHANGED vars
    PROVE  IInv'
<1>1. /\ TypeOK' /\ SentSound' /\ OneKeyPerRoot' /\ MessageKeysUnique'
      /\ EncryptHasPeerKey' /\ generated'[Alice] > 0
    BY DEF IInv, vars, TypeOK, SentSound, OneKeyPerRoot, MessageKeysUnique, EncryptHasPeerKey
<1>2. ASSUME NEW p \in Party
      PROVE  /\ ratchet'[p].root_key.secret = Secret
             /\ SenderSound(p)'
             /\ ReceiverSound(p, ratchet[p])'
             /\ SkippedSound(ratchet[p])'
             /\ DeliveredSound(ratchet[p], delivered[p])'
             /\ delivered'[p] \subseteq SentTo(p)'
    <2>1. /\ ratchet' = ratchet /\ sent' = sent /\ generated' = generated
          /\ delivered' = delivered
        BY DEF vars
    <2>2. /\ ratchet[p].root_key.secret = Secret
          /\ SenderSound(p) /\ ReceiverSound(p, ratchet[p]) /\ SkippedSound(ratchet[p])
          /\ DeliveredSound(ratchet[p], delivered[p])
          /\ delivered[p] \subseteq SentTo(p)
        BY DEF IInv
    <2>3. SenderSound(p)'
        BY ONLY <2>1, <2>2 DEF SenderSound
    <2>4. ReceiverSound(p, ratchet[p])'
        BY ONLY <2>1, <2>2 DEF ReceiverSound
    <2>5. SkippedSound(ratchet[p])'
        BY ONLY <2>1, <2>2 DEF SkippedSound, ChainIndex
    <2>6. DeliveredSound(ratchet[p], delivered[p])'
        BY ONLY <2>1, <2>2 DEF DeliveredSound, ChainIndex
    <2>7. delivered'[p] \subseteq SentTo(p)' /\ ratchet'[p].root_key.secret = Secret
        BY ONLY <2>1, <2>2 DEF SentTo
    <2> QED
        BY <2>3, <2>4, <2>5, <2>6, <2>7
<1> QED
    BY <1>1, <1>2 DEF IInv

LEMMA NextIInv ==
    ASSUME IInv, [Next]_vars
    PROVE  IInv' /\ [Channel!Next]_(Channel!vars)
<1>1. ASSUME NEW p \in Party, Encrypt(p)
      PROVE  IInv' /\ Channel!Next
    BY <1>1, EncryptIInv DEF Channel!Next
<1>2. ASSUME NEW p \in Party, NEW m \in Frames(p), NEW sequential \in Modes,
             Decrypt(p, m, sequential)
      PROVE  IInv' /\ Channel!Next
    <2>1. CASE DecryptOnNewChain(p, m)
        BY <2>1, NewChainIInv DEF Channel!Next
    <2>2. CASE DecryptOnChain(p, m, sequential)
        BY <2>2, OnChainIInv DEF Channel!Next
    <2>3. CASE DecryptSkipped(p, m)
        BY <2>3, SkippedIInv DEF Channel!Next
    <2> QED
        BY <1>2, <2>1, <2>2, <2>3 DEF Decrypt
<1>3. ASSUME UNCHANGED vars
      PROVE  IInv' /\ UNCHANGED Channel!vars
    BY <1>3, StutterIInv DEF vars, Channel!vars
<1> QED
    BY <1>1, <1>2, <1>3 DEF Next, DecryptRejected

(* IInv is an invariant of the two sessions.                               *)
THEOREM Invariance == Spec => []IInv
<1>1. Init => IInv
    BY InitIInv
<1>2. IInv /\ [Next]_vars => IInv'
    BY NextIInv
<1> QED
    BY <1>1, <1>2, PTL DEF Spec

(* Whatever the capacities and the gap, no call of encrypt() or decrypt()  *)
(* takes the state out of its type or a list beyond its array.             *)
THEOREM TypeCorrect == Spec => []TypeOK
<1>1. IInv => TypeOK
    BY DEF IInv
<1> QED
    BY <1>1, Invariance, PTL

(* Forward secrecy: no key that a party keeps derives the key of a message *)
(* it decrypted or encrypted.                                              *)
THEOREM KeysErased == Spec => []UsedKeysErased
<1>1. ASSUME IInv PROVE UsedKeysErased
    <2>1. \A m \in sent : m.counter = m.key.steps /\ m.counter \in Nat
        BY <1>1, MessageParts DEF IInv, TypeOK, SentSound
    <2>2. ASSUME NEW p \in Party, NEW m \in delivered[p],
                 NEW i \in 1 .. Len(ratchet[p].receiver_chains),
                 Derives(ratchet[p].receiver_chains[i].chain_key, m.key)
          PROVE  FALSE
        <3> DEFINE chain == ratchet[p].receiver_chains[i]
        <3>1. /\ ReceiverSound(p, ratchet[p]) /\ DeliveredSound(ratchet[p], delivered[p])
              /\ delivered[p] \subseteq SentTo(p) /\ TypeOK
            BY <1>1 DEF IInv
        <3>2. chain.chain_key.index = chain.chain_key.key.steps
            BY <3>1 DEF ReceiverSound, InStep
        <3>3. m.counter < chain.chain_key.index
            BY <2>2, <3>1 DEF DeliveredSound, ChainIndex, Derives
        <3>4. chain.chain_key.key.steps <= m.key.steps
            BY <2>2 DEF Derives
        <3>5. ratchet[p].receiver_chains \in Seq(Chains)
            BY <3>1, TypeOfParty, RatchetParts
        <3>6. chain \in Chains
            BY <3>5, ListOfChains
        <3>7. chain.chain_key.index \in Nat
            BY <3>6, ChainParts
        <3>8. m \in sent
            BY <3>1 DEF SentTo
        <3> HIDE DEF chain
        <3> QED
            BY <2>1, <3>2, <3>3, <3>4, <3>7, <3>8
    <2>3. ASSUME NEW p \in Party, NEW m \in delivered[p],
                 NEW j \in 1 .. Len(ratchet[p].skipped_message_keys)
          PROVE  ratchet[p].skipped_message_keys[j].message_key.key # m.key
        BY <1>1 DEF IInv, DeliveredSound
    <2>4. ASSUME NEW p \in Party, NEW m \in SentTo(Peer(p)),
                 NEW i \in 1 .. Len(ratchet[p].sender_chain),
                 Derives(ratchet[p].sender_chain[i].chain_key, m.key)
          PROVE  FALSE
        <3> DEFINE chain == ratchet[p].sender_chain[i]
        <3>1. SenderSound(p) /\ TypeOK /\ m \in sent
            BY <1>1 DEF IInv, SentTo
        <3>2. chain.chain_key.index = chain.chain_key.key.steps
            BY <3>1 DEF SenderSound, InStep
        <3>3. m.counter < chain.chain_key.index
            BY <2>4, <3>1 DEF SenderSound, Derives
        <3>4. chain.chain_key.key.steps <= m.key.steps
            BY <2>4 DEF Derives
        <3>5. ratchet[p].sender_chain \in Seq(Chains)
            BY <3>1, TypeOfParty, RatchetParts
        <3>6. chain \in Chains
            BY <3>5, ListOfChains
        <3>7. chain.chain_key.index \in Nat
            BY <3>6, ChainParts
        <3> HIDE DEF chain
        <3> QED
            BY <2>1, <3>1, <3>2, <3>3, <3>4, <3>7
    <2> QED
        BY <2>2, <2>3, <2>4 DEF UsedKeysErased
<1> QED
    BY <1>1, Invariance, PTL

(* No two messages of a session are encrypted with the same key.           *)
THEOREM KeysUnique == Spec => []MessageKeysUnique
<1>1. IInv => MessageKeysUnique
    BY DEF IInv
<1> QED
    BY <1>1, Invariance, PTL

(* A message that was decrypted is never accepted again, even when its     *)
(* chain has long been dropped.                                            *)
THEOREM Replay == Spec => []NoReplay
<1>1. ASSUME IInv PROVE NoReplay
    <2> SUFFICES ASSUME NEW p \in Party, NEW m \in delivered[p],
                        Accepts(ratchet[p], m, FALSE)
                 PROVE  FALSE
        BY DEF NoReplay
    <2>1. m \in Frames(p)
        BY <1>1 DEF IInv, Frames
    <2>2. CASE AcceptsOnNewChain(ratchet[p], m)
        BY <1>1, <2>1, <2>2, AcceptedOnNewChain
    <2>3. CASE \E i \in 1 .. Len(ratchet[p].receiver_chains) :
                  AcceptsOnChain(ratchet[p], m, i, FALSE)
        BY <1>1, <2>1, <2>3, AcceptedOnChain
    <2>4. CASE \E j \in 1 .. Len(ratchet[p].skipped_message_keys) :
                  AcceptsSkipped(ratchet[p], m, j)
        BY <1>1, <2>1, <2>4, AcceptedSkipped
    <2> QED
        BY <2>2, <2>3, <2>4 DEF Accepts
<1> QED
    BY <1>1, Invariance, PTL

(* encrypt() never reads receiver_chains[0] of an empty list.              *)
THEOREM PeerKeyThere == Spec => []EncryptHasPeerKey
<1>1. IInv => EncryptHasPeerKey
    BY DEF IInv
<1> QED
    BY <1>1, Invariance, PTL

(* The two sessions implement the channel: what decrypt() hands out was    *)
(* sent by the peer, and is handed out once.                               *)
THEOREM ImplementsChannel == Spec => ChannelSpec
<1>1. Init => Channel!Init
    BY DEF Init, Channel!Init
<1>2. IInv /\ [Next]_vars => [Channel!Next]_(Channel!vars)
    BY NextIInv
<1> QED
    BY <1>1, <1>2, Invariance, PTL DEF Spec, ChannelSpec, Channel!Spec

-----------------------------------------------------------------------------
(* The two ratchets stay in step (LockstepInv).  What a ratchet key and    *)
(* its root determine of each other.                                       *)
LEMMA SameKeySameRoot ==
    ASSUME OneRootPerKey, NEW k, NEW root, NEW other,
           IsChain(sent, k, root), IsChain(sent, k, other)
    PROVE  root = other
BY DEF OneRootPerKey, IsChain

LEMMA SwappedKeys ==
    ASSUME NEW root, NEW k, NEW l
    PROVE  NextRootKey(root, k, l) = NextRootKey(root, l, k)
<1>1. {k, l} = {l, k}
    OBVIOUS
<1> QED
    BY <1>1 DEF NextRootKey, SharedSecret

(* What is known of a party: its types, and the chain it sends on.         *)
LEMMA SendersChain ==
    ASSUME LockstepInv, NEW p \in Party, ratchet[p].sender_chain # <<>>
    PROVE  LET chain == ratchet[p].sender_chain[1] IN
           /\ Len(ratchet[p].sender_chain) = 1
           /\ chain \in Chains
           /\ chain.ratchet_key = LatestKey(p)
           /\ chain.chain_key.key.root = ratchet[p].root_key
           /\ chain.chain_key.index = chain.chain_key.key.steps
           /\ generated[p] \in Nat \ {0}
           /\ IsChain(sent, LatestKey(p), ratchet[p].root_key)
           /\ \A m \in sent : m.key.root = ratchet[p].root_key
                 => m.counter < chain.chain_key.index /\ m.ratchet_key = LatestKey(p)
<1> DEFINE chain == ratchet[p].sender_chain[1]
<1>1. TypeOK /\ SenderSound(p) /\ SendsOnLatest(p) /\ IInv
    BY DEF LockstepInv, IInv
<1>2. /\ ratchet[p].sender_chain \in Seq(Chains) /\ Len(ratchet[p].sender_chain) <= 1
      /\ generated[p] \in Nat
    BY <1>1, TypeOfParty, RatchetParts
<1>3. Len(ratchet[p].sender_chain) = 1
    BY <1>2, SingleItem
<1>4. chain \in Chains /\ 1 \in 1 .. Len(ratchet[p].sender_chain)
    BY <1>2, <1>3, ListOfChains
<1>5. /\ chain.ratchet_key = LatestKey(p)
      /\ chain.chain_key.key.root = ratchet[p].root_key
    BY <1>1, <1>4 DEF SendsOnLatest
<1>6. /\ chain.chain_key.index = chain.chain_key.key.steps
      /\ chain.ratchet_key.n < generated[p]
      /\ IsChain(sent, chain.ratchet_key, chain.chain_key.key.root)
      /\ \A m \in sent : m.key.root = chain.chain_key.key.root
            => m.counter < chain.chain_key.index
    BY <1>1, <1>4 DEF SenderSound, InStep
<1>7. generated[p] \in Nat \ {0}
    <2>1. chain.ratchet_key.n \in Nat
        BY <1>4, ChainParts DEF RatchetKeys
    <2> HIDE DEF chain
    <2> QED
        BY <1>2, <1>6, <2>1
<1>8. \A m \in sent : m.key.root = ratchet[p].root_key => m.ratchet_key = LatestKey(p)
    BY <1>1, <1>5, <1>6, SentIsChain, SameRootSameKey
<1> HIDE DEF chain
<1> QED
    BY <1>3, <1>4, <1>5, <1>6, <1>7, <1>8 DEF chain

(* The two sessions start in step: Bob follows Alice.                      *)
LEMMA InitialState ==
    ASSUME Init
    PROVE  LET root == InitialRootKey(Secret)
               chain == [ratchet_key |-> FirstKey, chain_key |-> FirstChainKey(root)]
           IN
           /\ ratchet[Alice] = [root_key |-> root, sender_chain |-> <<chain>>,
                                receiver_chains |-> <<>>, skipped_message_keys |-> <<>>]
           /\ ratchet[Bob] = [root_key |-> root, sender_chain |-> <<>>,
                              receiver_chains |-> <<chain>>, skipped_message_keys |-> <<>>]
           /\ generated[Alice] = 1 /\ generated[Bob] = 0
           /\ sent = {}
           /\ delivered[Alice] = {} /\ delivered[Bob] = {}
<1>1. Alice \in Party /\ Bob \in Party /\ Alice # Bob
    BY SessionAssumption DEF Party
<1> QED
    BY <1>1 DEF Init, InitialiseAsAlice, InitialiseAsBob, FirstKey

LEMMA InitLockstep ==
    ASSUME Init
    PROVE  LockstepInv
<1> DEFINE root == InitialRootKey(Secret)
           chain == [ratchet_key |-> FirstKey, chain_key |-> FirstChainKey(root)]
           one == <<chain>>
<1>1. /\ Alice \in Party /\ Bob \in Party /\ Alice # Bob
      /\ Peer(Bob) = Alice /\ Peer(Alice) = Bob
      /\ \A p \in Party : p = Alice \/ p = Bob
    BY SessionAssumption DEF Party, Peer
<1>2. /\ chain.ratchet_key = RatchetKey(Alice, 0)
      /\ chain.ratchet_key.n = 0
      /\ chain.chain_key.key.root = root /\ chain.chain_key.key.steps = 0
    BY DEF FirstKey, RatchetKey, FirstChainKey
<1>3. /\ ratchet[Alice].root_key = root /\ ratchet[Bob].root_key = root
      /\ ratchet[Alice].sender_chain = one /\ ratchet[Bob].sender_chain = <<>>
      /\ ratchet[Alice].receiver_chains = <<>> /\ ratchet[Bob].receiver_chains = one
      /\ generated[Alice] = 1 /\ generated[Bob] = 0 /\ sent = {}
    BY InitialState
<1> HIDE DEF chain
<1>4. Len(one) = 1 /\ one[1] = chain /\ one # <<>> /\ Len(<<>>) = 0
    OBVIOUS
<1> HIDE DEF one, root
<1>5. IInv /\ OneRootPerKey
    BY <1>3, InitIInv DEF OneRootPerKey
<1>6. \A p \in Party : SendsOnLatest(p)
    <2>1. SendsOnLatest(Alice)
        <3>1. 1 - 1 = 0 /\ \A i \in 1 .. 1 : i = 1
            OBVIOUS
        <3> QED
            BY <1>2, <1>3, <1>4, <3>1 DEF SendsOnLatest, LatestKey
    <2>2. SendsOnLatest(Bob)
        BY <1>3, <1>4 DEF SendsOnLatest
    <2> QED
        BY <1>1, <2>1, <2>2
<1>7. KeepsNewestChains
    <2>1. ASSUME NEW i \in 1 .. Len(one)
          PROVE  one[i].ratchet_key = RatchetKey(Alice, one[1].ratchet_key.n - (i - 1))
                 /\ one[i].ratchet_key.n = 0
        <3>1. i = 1 /\ 0 - (1 - 1) = 0
            BY <1>4
        <3> QED
            BY <1>2, <1>4, <3>1
    <2> QED
        BY <1>1, <1>3, <1>4, <2>1 DEF KeepsNewestChains
<1>8. Follows(Bob)
    <2>1. KnowsChain(ratchet[Bob], ratchet[Alice].sender_chain[1])
        <3>1. 0 <= 0
            OBVIOUS
        <3> QED
            BY <1>2, <1>3, <1>4, <3>1 DEF KnowsChain, Derives
    <2>2. Led(Bob)
        BY <1>1, <1>3, <1>4 DEF Led, HasSeen, KnownOrOn, SentTo
    <2> QED
        BY <1>1, <1>3, <1>4, <2>1, <2>2 DEF Follows, SentTo
<1> QED
    BY <1>1, <1>5, <1>6, <1>7, <1>8 DEF LockstepInv

(* encrypt(): what it does to the ratchet, and the message it sends.       *)
LEMMA EncryptFacts ==
    ASSUME LockstepInv, NEW p \in Party, Encrypt(p)
    PROVE  LET chain == ratchet'[p].sender_chain[1]
               fresh == RatchetKey(p, generated[p])
           IN
           /\ \E msg : /\ sent' = sent \cup {msg} /\ msg.from = p
                       /\ msg.ratchet_key = chain.ratchet_key
                       /\ msg.key.root = chain.chain_key.key.root
           /\ Len(ratchet'[p].sender_chain) = 1
           /\ ratchet'[p].receiver_chains = ratchet[p].receiver_chains
           /\ ratchet'[p].skipped_message_keys = ratchet[p].skipped_message_keys
           /\ delivered' = delivered
           /\ \A q \in Party : q # p =>
                 ratchet'[q] = ratchet[q] /\ generated'[q] = generated[q]
           /\ chain.chain_key.key.root = ratchet'[p].root_key
           /\ ratchet[p].sender_chain # <<>> =>
                 /\ generated'[p] = generated[p]
                 /\ ratchet'[p].root_key = ratchet[p].root_key
                 /\ chain.ratchet_key = LatestKey(p)
                 /\ ratchet[p].sender_chain[1].chain_key.key.steps <= chain.chain_key.key.steps
           /\ ratchet[p].sender_chain = <<>> =>
                 /\ generated'[p] = generated[p] + 1
                 /\ ratchet'[p].root_key =
                       NextRootKey(ratchet[p].root_key, fresh,
                                   ratchet[p].receiver_chains[1].ratchet_key)
                 /\ chain.ratchet_key = fresh
<1> DEFINE old == ratchet[p]
           r == SendingRatchet(p)
           chain == r.sender_chain[1]
           fresh == RatchetKey(p, generated[p])
           msg == Message(p, r)
           next == AdvanceSenderChain(r)
           root == NextRootKey(old.root_key, fresh, old.receiver_chains[1].ratchet_key)
<1>1. IInv /\ TypeOK /\ EncryptHasPeerKey
    BY DEF LockstepInv, IInv
<1>2. /\ ratchet \in [Party -> Ratchets] /\ generated \in [Party -> Nat]
      /\ old \in Ratchets /\ Len(old.sender_chain) <= 1
      /\ old.sender_chain = <<>> => old.receiver_chains # <<>>
    BY <1>1, TypeOfParty DEF TypeOK, EncryptHasPeerKey
<1>3. /\ ratchet' = [ratchet EXCEPT ![p] = next]
      /\ sent' = sent \cup {msg}
      /\ generated' = [generated EXCEPT ![p] = IF old.sender_chain = <<>> THEN @ + 1 ELSE @]
      /\ delivered' = delivered
    BY DEF Encrypt, SendingRatchet
<1>4. /\ ratchet'[p] = next
      /\ \A q \in Party : q # p => ratchet'[q] = ratchet[q] /\ generated'[q] = generated[q]
      /\ old.sender_chain = <<>> => generated'[p] = generated[p] + 1
      /\ old.sender_chain # <<>> => generated'[p] = generated[p]
    <2>1. \A q \in Party : q # p => generated'[q] = generated[q]
        BY <1>2, <1>3
    <2>2. /\ old.sender_chain = <<>> => generated'[p] = generated[p] + 1
          /\ old.sender_chain # <<>> => generated'[p] = generated[p]
        BY <1>2, <1>3
    <2> HIDE DEF next
    <2> QED
        BY <1>2, <1>3, <2>1, <2>2
<1>5. fresh \in RatchetKeys
    BY <1>2, RatchetKeyType
<1>6. /\ r \in Ratchets /\ Len(r.sender_chain) = 1
      /\ r.receiver_chains = old.receiver_chains
      /\ r.skipped_message_keys = old.skipped_message_keys
      /\ old.sender_chain # <<>> => r = old
      /\ old.sender_chain = <<>> =>
            /\ r.root_key = root
            /\ chain.ratchet_key = fresh
            /\ chain.chain_key = FirstChainKey(root)
    BY <1>2, <1>5, EnsureSenderChainFacts DEF SendingRatchet
<1>7. /\ next \in Ratchets /\ Len(next.sender_chain) = 1
      /\ next.root_key = r.root_key
      /\ next.receiver_chains = old.receiver_chains
      /\ next.skipped_message_keys = old.skipped_message_keys
      /\ next.sender_chain[1].ratchet_key = chain.ratchet_key
      /\ next.sender_chain[1].chain_key = AdvanceChainKey(chain.chain_key, 1)
    BY <1>6, AdvanceSenderChainFacts
<1>8. /\ chain \in Chains /\ chain.chain_key \in ChainKeys
      /\ chain.chain_key.key.steps \in Nat
    <2>1. r.sender_chain \in Seq(Chains) /\ 1 \in 1 .. Len(r.sender_chain)
        BY <1>6, RatchetParts
    <2>2. chain \in Chains
        BY <2>1, ListOfChains
    <2> HIDE DEF chain
    <2> QED
        BY <2>2, ChainParts
<1>9. /\ next.sender_chain[1].chain_key.key.root = chain.chain_key.key.root
      /\ chain.chain_key.key.steps <= next.sender_chain[1].chain_key.key.steps
    <2> DEFINE later == AdvanceChainKey(chain.chain_key, 1)
    <2>1. /\ later.key.steps = chain.chain_key.key.steps + 1
          /\ later.key.root = chain.chain_key.key.root
        BY <1>8, AdvanceChainKeyFacts, SMTT(30)
    <2> HIDE DEF later, next, chain
    <2>2. next.sender_chain[1].chain_key = later
        BY <1>7 DEF later
    <2> QED
        BY <1>8, <2>1, <2>2
<1>10. /\ msg.from = p /\ msg.ratchet_key = chain.ratchet_key
       /\ msg.key.root = chain.chain_key.key.root
    BY <1>8, CreateMessageKeyFacts DEF Message, EncryptedHeader
<1>11. CASE old.sender_chain # <<>>
    <2>1. /\ old.sender_chain[1].ratchet_key = LatestKey(p)
          /\ old.sender_chain[1].chain_key.key.root = old.root_key
        BY <1>11, SendersChain
    <2>2. r = old
        BY <1>6, <1>11
    <2>3. chain = old.sender_chain[1]
        BY <2>2
    <2> HIDE DEF next, msg, r, chain, old, fresh, root
    <2>4. /\ next.sender_chain[1].ratchet_key = chain.ratchet_key
          /\ next.sender_chain[1].chain_key.key.root = chain.chain_key.key.root
        BY <1>7, <1>9
    <2>5. /\ msg.from = p
          /\ msg.ratchet_key = next.sender_chain[1].ratchet_key
          /\ msg.key.root = next.sender_chain[1].chain_key.key.root
        BY <1>10, <2>4
    <2>6. /\ next.sender_chain[1].chain_key.key.root = next.root_key
          /\ next.root_key = old.root_key
          /\ next.sender_chain[1].ratchet_key = LatestKey(p)
          /\ old.sender_chain[1].chain_key.key.steps <= next.sender_chain[1].chain_key.key.steps
        BY <1>7, <1>9, <2>1, <2>2, <2>3, <2>4
    <2>7. /\ Len(next.sender_chain) = 1
          /\ next.receiver_chains = old.receiver_chains
          /\ next.skipped_message_keys = old.skipped_message_keys
        BY <1>7
    <2> QED
        BY <1>3, <1>4, <1>11, <2>5, <2>6, <2>7 DEF old
<1>12. CASE old.sender_chain = <<>>
    <2>1. r.root_key = root /\ chain.ratchet_key = fresh
        BY <1>6, <1>12
    <2>2. chain.chain_key.key.root = root
        BY <1>6, <1>12 DEF FirstChainKey
    <2> HIDE DEF next, msg, r, root
    <2>3. next.sender_chain[1].chain_key.key.root = next.root_key
        BY <1>7, <1>9, <2>1, <2>2
    <2> QED
        BY <1>3, <1>4, <1>6, <1>7, <1>9, <1>10, <1>12, <2>1, <2>3 DEF root
<1> QED
    BY <1>11, <1>12

(* A new ratchet key's root is beyond that of the party that makes it.     *)
LEMMA LongerRoot ==
    ASSUME NEW root \in RootKeys, NEW k \in RatchetKeys, NEW l \in RatchetKeys
    PROVE  /\ RootLength(root) \in Nat
           /\ RootLength(root) < RootLength(NextRootKey(root, k, l))
BY NextRootKeyFacts

LEMMA EncryptOneRoot ==
    ASSUME LockstepInv, NEW p \in Party, Encrypt(p)
    PROVE  OneRootPerKey'
<1> DEFINE chain == ratchet'[p].sender_chain[1]
           k == chain.ratchet_key
           root == chain.chain_key.key.root
<1>1. PICK msg : /\ sent' = sent \cup {msg} /\ msg.ratchet_key = k /\ msg.key.root = root
    BY EncryptFacts
<1>2. OneRootPerKey /\ IInv
    BY DEF LockstepInv
<1>3. /\ \A n \in sent : n.ratchet_key = k => n.key.root = root
      /\ k = FirstKey => root = InitialRootKey(Secret)
    <2>1. CASE ratchet[p].sender_chain # <<>>
        <3>1. IsChain(sent, k, root)
            BY <2>1, SendersChain, EncryptFacts
        <3> HIDE DEF k, root
        <3>2. \A n \in sent : n.ratchet_key = k => n.key.root = root
            BY <1>2, <3>1, SentIsChain, SameKeySameRoot
        <3>3. k = FirstKey => root = InitialRootKey(Secret)
            BY <1>2, <3>1 DEF IsChain, OneRootPerKey
        <3> QED
            BY <3>2, <3>3
    <2>2. CASE ratchet[p].sender_chain = <<>>
        <3>1. k = RatchetKey(p, generated[p]) /\ generated[p] \in Nat
            BY <1>2, <2>2, EncryptFacts DEF IInv, TypeOK
        <3>2. k.owner = p /\ k.n = generated[p]
            BY <3>1, RatchetKeyType
        <3> HIDE DEF k, root
        <3>3. \A n \in sent : n.ratchet_key # k
            BY <1>2, <3>1, <3>2 DEF IInv, SentSound
        <3>4. k # FirstKey
            BY <1>2, <3>2 DEF IInv, FirstKey, RatchetKey
        <3> QED
            BY <3>3, <3>4
    <2> QED
        BY <2>1, <2>2
<1> HIDE DEF k, root
<1> QED
    BY <1>1, <1>2, <1>3 DEF OneRootPerKey

LEMMA LatestKeyType ==
    ASSUME NEW p \in Party, generated[p] \in Nat \ {0}
    PROVE  LatestKey(p) \in RatchetKeys
BY RatchetKeyType DEF LatestKey

LEMMA RootKeyType ==
    ASSUME LockstepInv, NEW p \in Party
    PROVE  /\ ratchet[p].root_key \in RootKeys
           /\ RootLength(ratchet[p].root_key) \in Nat
           /\ generated[p] \in Nat
BY TypeOfParty, RatchetParts, RootLengthType DEF LockstepInv, IInv

(* A party that has turned the ratchet is one root ahead of its peer.      *)
LEMMA TurnedAhead ==
    ASSUME LockstepInv, NEW p \in Party, Follows(p), Turned(p)
    PROVE  RootLength(ratchet[Peer(p)].root_key) < RootLength(ratchet[p].root_key)
<1>1. Peer(p) \in Party /\ ratchet[p].sender_chain # <<>>
      /\ ratchet[Peer(p)].sender_chain # <<>>
    BY PeerFacts DEF Follows, Turned
<1>2. /\ LatestKey(p) \in RatchetKeys /\ LatestKey(Peer(p)) \in RatchetKeys
      /\ ratchet[Peer(p)].root_key \in RootKeys
    BY <1>1, SendersChain, LatestKeyType, RootKeyType
<1> QED
    BY <1>2, LongerRoot DEF Turned

LEMMA EncryptSendsOnLatest ==
    ASSUME LockstepInv, NEW p \in Party, Encrypt(p), NEW q \in Party
    PROVE  SendsOnLatest(q)'
<1>1. SendsOnLatest(q)
    BY DEF LockstepInv
<1>2. CASE q # p
    <2>1. ratchet'[q] = ratchet[q] /\ generated'[q] = generated[q]
        BY <1>2, EncryptFacts
    <2> QED
        BY <1>1, <2>1 DEF SendsOnLatest, LatestKey
<1>3. CASE q = p
    <2> DEFINE chain == ratchet'[p].sender_chain[1]
    <2>1. /\ Len(ratchet'[p].sender_chain) = 1
          /\ chain.chain_key.key.root = ratchet'[p].root_key
        BY EncryptFacts
    <2>2. chain.ratchet_key = RatchetKey(p, generated'[p] - 1)
        <3>1. CASE ratchet[p].sender_chain # <<>>
            BY <3>1, EncryptFacts DEF LatestKey
        <3>2. CASE ratchet[p].sender_chain = <<>>
            <4>1. generated'[p] = generated[p] + 1 /\ generated[p] \in Nat
                BY <3>2, EncryptFacts, RootKeyType
            <4>2. generated'[p] - 1 = generated[p]
                BY <4>1
            <4> QED
                BY <3>2, <4>2, EncryptFacts
        <3> QED
            BY <3>1, <3>2
    <2>3. \A i \in 1 .. 1 : i = 1
        OBVIOUS
    <2> QED
        BY <1>3, <2>1, <2>2, <2>3 DEF SendsOnLatest, LatestKey
<1> QED
    BY <1>2, <1>3

LEMMA EncryptFollows ==
    ASSUME LockstepInv, NEW p \in Party, Encrypt(p), NEW x \in Party, Follows(x)
    PROVE  Follows(x)'
<1> DEFINE y == Peer(x)
           theirs == ratchet[y].sender_chain[1]
           sends == ratchet'[p].sender_chain[1]
<1>1. /\ y \in Party /\ y # x /\ Peer(y) = x
      /\ ratchet[y].sender_chain # <<>>
      /\ \A q \in Party : q = x \/ q = y
    BY PeerFacts DEF Follows
<1>2. /\ theirs.ratchet_key = LatestKey(y)
      /\ theirs.chain_key.key.root = ratchet[y].root_key
      /\ theirs.chain_key.key.steps \in Nat
      /\ ratchet[y].root_key \in RootKeys /\ RootLength(ratchet[y].root_key) \in Nat
      /\ generated[y] \in Nat
    BY <1>1, SendersChain, RootKeyType, ChainParts
<1>3. /\ Len(ratchet'[p].sender_chain) = 1
      /\ ratchet'[p].receiver_chains = ratchet[p].receiver_chains
      /\ sends.chain_key.key.root = ratchet'[p].root_key
      /\ \A q \in Party : q # p =>
            ratchet'[q] = ratchet[q] /\ generated'[q] = generated[q]
    BY EncryptFacts
<1>4. PICK msg : /\ sent' = sent \cup {msg} /\ msg.from = p
                 /\ msg.ratchet_key = sends.ratchet_key
                 /\ msg.key.root = sends.chain_key.key.root
    BY EncryptFacts
<1>5. /\ ratchet'[p].sender_chain # <<>>
      /\ ratchet'[p].sender_chain # <<>>
    <2>1. Len(<<>>) = 0
        OBVIOUS
    <2> QED
        BY <1>3, <2>1
<1>6. /\ SentTo(Peer(p))' = SentTo(Peer(p)) \cup {msg}
      /\ SentTo(p)' = SentTo(p)
    <2>1. Peer(Peer(p)) = p /\ Peer(p) # p
        BY PeerFacts
    <2> QED
        BY <1>4, <2>1 DEF SentTo
<1> HIDE DEF sends, theirs, y
<1>7. KnowsChain(ratchet[x], theirs)
    BY DEF Follows, theirs, y
<1>8. CASE p = y
    <2>1. /\ ratchet'[x] = ratchet[x] /\ generated'[x] = generated[x]
          /\ generated'[y] = generated[y] /\ ratchet'[y].root_key = ratchet[y].root_key
          /\ sends.ratchet_key = theirs.ratchet_key
          /\ theirs.chain_key.key.steps <= sends.chain_key.key.steps
          /\ sends.chain_key.key.root = ratchet[y].root_key
          /\ sends.chain_key.key.steps \in Nat
        <3>1. sends \in Chains
            <4>1. TypeOK'
                BY NextIInv DEF LockstepInv, IInv, Next
            <4>2. ratchet'[p] \in Ratchets
                BY <4>1 DEF TypeOK
            <4> QED
                BY <1>3, <4>2, RatchetParts, ListOfChains DEF sends
        <3>2. sends.chain_key.key.steps \in Nat
            BY <3>1, ChainParts
        <3> QED
            BY <1>1, <1>2, <1>3, <1>8, <3>2, EncryptFacts DEF sends, theirs
    <2>2. KnowsChain(ratchet'[x], sends)
        <3>1. ratchet[x].receiver_chains # <<>> /\ TypeOK
            BY <1>7 DEF KnowsChain, LockstepInv, IInv
        <3>2. ratchet[x].receiver_chains[1] \in Chains
            BY <3>1, TypeOfParty, RatchetParts, ListOfChains
        <3>3. ratchet[x].receiver_chains[1].chain_key.key.steps \in Nat
            BY <3>2, ChainParts
        <3> QED
            BY <1>2, <1>7, <2>1, <3>3 DEF KnowsChain, Derives
    <2>3. \A m \in SentTo(x)' : RootLength(m.key.root) <= RootLength(ratchet'[y].root_key)
        BY <1>1, <1>2, <1>4, <1>6, <1>8, <2>1 DEF Follows, y
    <2>4. /\ Led(x) => Led(x)'
          /\ Turned(x) => Turned(x)'
        <3>1. /\ SentTo(y)' = SentTo(y)
              /\ ratchet'[y].receiver_chains = ratchet[y].receiver_chains
            BY <1>3, <1>6, <1>8
        <3> QED
            BY ONLY <2>1, <3>1 DEF Led, Turned, HasSeen, KnownOrOn, LatestKey, y
    <2> QED
        BY <1>1, <1>5, <1>8, <2>2, <2>3, <2>4 DEF Follows, y, sends
<1>9. CASE p = x
    <2>1. /\ ratchet'[y] = ratchet[y] /\ generated'[y] = generated[y]
          /\ SentTo(x)' = SentTo(x) /\ SentTo(y)' = SentTo(y) \cup {msg}
          /\ msg.key.root = ratchet'[x].root_key
        BY <1>1, <1>3, <1>4, <1>6, <1>9 DEF y
    <2>2. KnowsChain(ratchet'[x], theirs)
        BY <1>3, <1>7, <1>9 DEF KnowsChain
    <2>3. Turned(x)'
        <3>1. CASE Turned(x)
            <4>1. /\ generated'[x] = generated[x]
                  /\ ratchet'[x].root_key = ratchet[x].root_key
                BY <1>9, <3>1, EncryptFacts DEF Turned
            <4> QED
                BY ONLY <1>5, <1>9, <2>1, <3>1, <4>1
                   DEF Turned, HasSeen, KnownOrOn, LatestKey, y
        <3>2. CASE Led(x)
            <4>1. /\ generated'[x] = generated[x] + 1 /\ generated[x] \in Nat
                  /\ ratchet'[x].root_key =
                        NextRootKey(ratchet[x].root_key, RatchetKey(x, generated[x]),
                                    ratchet[x].receiver_chains[1].ratchet_key)
                BY <1>9, <3>2, EncryptFacts, RootKeyType DEF Led
            <4>2. generated'[x] - 1 = generated[x]
                BY <4>1
            <4>3. ratchet[x].receiver_chains[1].ratchet_key = LatestKey(y)
                BY <1>2, <1>7 DEF KnowsChain
            <4>4. ratchet'[x].root_key =
                     NextRootKey(ratchet'[y].root_key, LatestKey(x)', LatestKey(y)')
                BY <2>1, <3>2, <4>1, <4>2, <4>3 DEF Led, LatestKey, y
            <4>5. HasSeen(y, generated[x] - 1)'
                <5>1. HasSeen(y, generated[x])
                    BY <3>2 DEF Led, y
                <5> QED
                    BY ONLY <2>1, <4>2, <5>1 DEF HasSeen
            <4>6. KnownOrOn(x, ratchet[x].root_key)'
                <5>1. \A m \in SentTo(y) : RootLength(m.key.root) <= RootLength(ratchet[y].root_key)
                    BY <1>2, <3>2 DEF Led, KnownOrOn, y
                <5> QED
                    BY ONLY <2>1, <5>1 DEF KnownOrOn, y
            <4> QED
                BY <1>5, <1>9, <4>4, <4>5, <4>6 DEF Turned, y
        <3> QED
            BY <3>1, <3>2 DEF Follows
    <2>4. \A m \in SentTo(x)' : RootLength(m.key.root) <= RootLength(ratchet'[y].root_key)
        BY <2>1 DEF Follows, y
    <2> QED
        BY <1>1, <2>1, <2>2, <2>3, <2>4 DEF Follows, y, theirs
<1> QED
    BY <1>1, <1>8, <1>9

LEMMA EncryptLockstep ==
    ASSUME LockstepInv, NEW p \in Party, Encrypt(p)
    PROVE  LockstepInv'
<1>1. IInv'
    BY NextIInv DEF LockstepInv, Next
<1>2. OneRootPerKey'
    BY EncryptOneRoot
<1>3. \A q \in Party : SendsOnLatest(q)'
    BY EncryptSendsOnLatest
<1>4. KeepsNewestChains'
    <2>1. \A q \in Party : ratchet'[q].receiver_chains = ratchet[q].receiver_chains
        BY EncryptFacts
    <2>2. KeepsNewestChains
        BY DEF LockstepInv
    <2> QED
        BY ONLY <2>1, <2>2 DEF KeepsNewestChains
<1>5. \E x \in Party : Follows(x)'
    BY EncryptFollows DEF LockstepInv
<1> QED
    BY <1>1, <1>2, <1>3, <1>4, <1>5 DEF LockstepInv

(* decrypt() on a known chain or with a skipped key: the root key, the     *)
(* sender chain and the keys of the receiver chains stay; a chain moves to *)
(* behind a message that was sent on it.                                   *)
LEMMA SameChainsLockstep ==
    ASSUME LockstepInv, IInv', NEW p \in Party,
           sent' = sent, generated' = generated,
           \A q \in Party : q # p => ratchet'[q] = ratchet[q],
           ratchet'[p].sender_chain = ratchet[p].sender_chain,
           ratchet'[p].root_key = ratchet[p].root_key,
           Len(ratchet'[p].receiver_chains) = Len(ratchet[p].receiver_chains),
           \A i \in 1 .. Len(ratchet[p].receiver_chains) :
              LET old == ratchet[p].receiver_chains[i]
                  new == ratchet'[p].receiver_chains[i]
              IN  /\ new.ratchet_key = old.ratchet_key
                  /\ new.chain_key.key.root = old.chain_key.key.root
                  /\ \/ new = old
                     \/ \E m \in sent : /\ m.key.root = old.chain_key.key.root
                                        /\ new.chain_key.key.steps = m.counter + 1
    PROVE  LockstepInv'
<1> DEFINE old == ratchet[p].receiver_chains
           new == ratchet'[p].receiver_chains
<1>1. /\ old \in Seq(Chains) /\ new \in Seq(Chains)
      /\ \A m \in sent : m.counter \in Nat
      /\ ratchet'[p] \in Ratchets
    <2>1. TypeOK /\ TypeOK'
        BY DEF LockstepInv, IInv
    <2>2. ratchet[p] \in Ratchets /\ ratchet'[p] \in Ratchets
        BY <2>1 DEF TypeOK
    <2> QED
        BY <2>1, <2>2, RatchetParts, MessageParts DEF TypeOK
<1>2. /\ Len(old) \in Nat /\ Len(new) = Len(old)
      /\ old = <<>> <=> new = <<>>
      /\ old # <<>> => 1 \in 1 .. Len(old)
    <2>1. Len(new) = Len(old)
        OBVIOUS
    <2> HIDE DEF old, new
    <2> QED
        BY <1>1, <2>1, ListOfChains
<1>3. OneRootPerKey'
    BY DEF LockstepInv, OneRootPerKey
<1>4. ASSUME NEW q \in Party PROVE SendsOnLatest(q)'
    <2>1. SendsOnLatest(q)
        BY DEF LockstepInv
    <2> QED
        BY <2>1 DEF SendsOnLatest, LatestKey
<1>5. KeepsNewestChains'
    <2>1. ASSUME NEW q \in Party
          PROVE  /\ Len(ratchet'[q].receiver_chains) = Len(ratchet[q].receiver_chains)
                 /\ \A i \in 1 .. Len(ratchet[q].receiver_chains) :
                       ratchet'[q].receiver_chains[i].ratchet_key =
                          ratchet[q].receiver_chains[i].ratchet_key
        BY <2>1
    <2>2. KeepsNewestChains /\ \A q \in Party : Len(ratchet[q].receiver_chains) \in Nat
        <3>1. KeepsNewestChains /\ TypeOK
            BY DEF LockstepInv, IInv
        <3>2. ASSUME NEW q \in Party PROVE Len(ratchet[q].receiver_chains) \in Nat
            <4>1. ratchet[q] \in Ratchets
                BY <3>1, TypeOfParty
            <4>2. ratchet[q].receiver_chains \in Seq(Chains)
                BY <4>1, RatchetParts
            <4> QED
                BY <4>2, ListOfChains
        <3> QED
            BY <3>1, <3>2
    <2>3. \A q \in Party : \A i \in 1 .. Len(ratchet[q].receiver_chains) :
             1 \in 1 .. Len(ratchet[q].receiver_chains)
        BY <2>2
    <2> SUFFICES ASSUME NEW q \in Party, NEW i \in 1 .. Len(ratchet'[q].receiver_chains)
                 PROVE  /\ ratchet'[q].receiver_chains[i].ratchet_key =
                              RatchetKey(Peer(q), ratchet'[q].receiver_chains[1].ratchet_key.n - (i - 1))
                        /\ i = Len(ratchet'[q].receiver_chains) /\ i < MAX_RECEIVER_CHAINS
                              => ratchet'[q].receiver_chains[i].ratchet_key.n = 0
        BY DEF KeepsNewestChains
    <2>4. /\ Len(ratchet'[q].receiver_chains) = Len(ratchet[q].receiver_chains)
          /\ i \in 1 .. Len(ratchet[q].receiver_chains)
          /\ ratchet'[q].receiver_chains[i].ratchet_key = ratchet[q].receiver_chains[i].ratchet_key
          /\ ratchet'[q].receiver_chains[1].ratchet_key = ratchet[q].receiver_chains[1].ratchet_key
        BY <2>1, <2>3
    <2>5. /\ ratchet[q].receiver_chains[i].ratchet_key =
                RatchetKey(Peer(q), ratchet[q].receiver_chains[1].ratchet_key.n - (i - 1))
          /\ i = Len(ratchet[q].receiver_chains) /\ i < MAX_RECEIVER_CHAINS
                => ratchet[q].receiver_chains[i].ratchet_key.n = 0
        BY <2>2, <2>4 DEF KeepsNewestChains
    <2> QED
        BY ONLY <2>4, <2>5
<1>6. ASSUME NEW q \in Party, NEW count, HasSeen(q, count)
      PROVE  HasSeen(q, count)'
    <2>1. CASE q = p
        BY <1>2, <1>6, <2>1 DEF HasSeen
    <2>2. CASE q # p
        BY <1>6, <2>2 DEF HasSeen
    <2> QED
        BY <2>1, <2>2
<1>7. /\ \A q \in Party : ratchet'[q].root_key = ratchet[q].root_key
      /\ \A q \in Party : ratchet'[q].sender_chain = ratchet[q].sender_chain
      /\ \A q \in Party : LatestKey(q)' = LatestKey(q) /\ SentTo(q)' = SentTo(q)
    BY DEF LatestKey, SentTo
<1>8. ASSUME NEW x \in Party, Follows(x)
      PROVE  Follows(x)'
    <2> DEFINE y == Peer(x)
               theirs == ratchet[y].sender_chain[1]
    <2>1. /\ y \in Party /\ y # x /\ Peer(y) = x /\ ratchet[y].sender_chain # <<>>
        BY <1>8, PeerFacts DEF Follows
    <2>2. /\ theirs.chain_key.key.root = ratchet[y].root_key
          /\ theirs.chain_key.index = theirs.chain_key.key.steps
          /\ theirs.chain_key.index \in Nat
          /\ \A m \in sent : m.key.root = ratchet[y].root_key
                => m.counter < theirs.chain_key.index
        BY <2>1, SendersChain, ChainParts
    <2>3. KnowsChain(ratchet[x], theirs)
        BY <1>8 DEF Follows
    <2> HIDE DEF theirs, y
    <2>4. KnowsChain(ratchet'[x], theirs)
        <3>1. CASE x # p
            BY <2>3, <3>1
        <3>2. CASE x = p
            <4>1. old # <<>> /\ old[1].chain_key.key.root = ratchet[y].root_key
                  /\ old[1].ratchet_key = theirs.ratchet_key
                  /\ old[1].chain_key.key.steps <= theirs.chain_key.key.steps
                BY <2>2, <2>3, <3>2 DEF KnowsChain, Derives
            <4>2. 1 \in 1 .. Len(old) /\ new # <<>>
                BY <1>2, <4>1
            <4>3. /\ new[1].ratchet_key = old[1].ratchet_key
                  /\ new[1].chain_key.key.root = old[1].chain_key.key.root
                  /\ \/ new[1] = old[1]
                     \/ \E m \in sent : /\ m.key.root = old[1].chain_key.key.root
                                        /\ new[1].chain_key.key.steps = m.counter + 1
                BY <4>2
            <4> HIDE DEF old, new
            <4>4. new[1].chain_key.key.steps <= theirs.chain_key.key.steps
                BY <1>1, <2>2, <4>1, <4>3
            <4>5. KnowsChain(ratchet'[x], theirs) <=>
                     /\ new # <<>>
                     /\ new[1].ratchet_key = theirs.ratchet_key
                     /\ new[1].chain_key.key.root = theirs.chain_key.key.root
                     /\ new[1].chain_key.key.steps <= theirs.chain_key.key.steps
                BY <3>2 DEF KnowsChain, Derives, new
            <4> QED
                BY <2>2, <4>1, <4>2, <4>3, <4>4, <4>5
        <3> QED
            BY <3>1, <3>2
    <2>5. \A q \in Party : \A root : KnownOrOn(q, root) => KnownOrOn(q, root)'
        BY <1>7, PeerFacts DEF KnownOrOn
    <2>6. Led(x) => Led(x)'
        BY <1>6, <1>7, <2>1, <2>5 DEF Led, y
    <2>7. Turned(x) => Turned(x)'
        BY <1>6, <1>7, <2>1, <2>5 DEF Turned, y
    <2>8. \A m \in SentTo(x)' : RootLength(m.key.root) <= RootLength(ratchet'[y].root_key)
        BY <1>7, <1>8, <2>1 DEF Follows, y
    <2> QED
        BY <1>7, <1>8, <2>1, <2>4, <2>6, <2>7, <2>8 DEF Follows, y, theirs
<1> QED
    BY <1>3, <1>4, <1>5, <1>8 DEF LockstepInv

(* decrypt() on a new chain: the ratchet it leaves.                        *)
LEMMA NewChainFacts ==
    ASSUME LockstepInv, NEW p \in Party, NEW m \in Frames(p), DecryptOnNewChain(p, m)
    PROVE  LET old == ratchet[p].receiver_chains
               new == ratchet'[p].receiver_chains
           IN
           /\ m \in SentTo(p) /\ m.counter \in Nat
           /\ m.key.root \in RootKeys
           /\ RootLength(m.key.root) > RootLength(ratchet[p].root_key)
           /\ \A q \in Party : q # p => ratchet'[q] = ratchet[q]
           /\ sent' = sent /\ generated' = generated
           /\ delivered' = [delivered EXCEPT ![p] = @ \cup {m}]
           /\ ratchet'[p].sender_chain = <<>>
           /\ ratchet'[p].root_key = m.key.root
           /\ Len(new) = IF Len(old) < MAX_RECEIVER_CHAINS THEN Len(old) + 1
                         ELSE MAX_RECEIVER_CHAINS
           /\ new[1].ratchet_key = m.ratchet_key
           /\ new[1].chain_key.key.root = m.key.root
           /\ new[1].chain_key.key.steps = m.counter + 1
           /\ \A i \in 2 .. Len(new) : new[i] = old[i - 1]
<1> DEFINE r == ratchet[p]
           b == AddReceiverChain(r, m)
           a == AdvanceReceiverChain(b, 1, m.counter)
           old == r.receiver_chains
           new == a.receiver_chains
           first == NewChainFor(r, m)
<1>1. /\ AcceptsOnNewChain(r, m)
      /\ ratchet' = [ratchet EXCEPT ![p] = a]
      /\ Deliver(p, m)
      /\ IInv
    BY DEF DecryptOnNewChain, LockstepInv
<1>2. /\ m \in SentTo(p)
      /\ m.key.root = NewRootFor(r, m)
      /\ r.sender_chain # <<>> /\ m.ratchet_key \in RatchetKeys
      /\ RootLength(m.key.root) > RootLength(r.root_key)
    BY <1>1, AcceptedOnNewChain
<1>3. /\ r \in Ratchets /\ Len(old) <= MAX_RECEIVER_CHAINS
      /\ m.counter \in Nat /\ m.key.root \in RootKeys
      /\ ratchet \in [Party -> Ratchets]
    BY <1>1, <1>2, TypeOfParty, MessageParts DEF IInv, SentTo, TypeOK
<1>4. /\ b \in Ratchets /\ b.sender_chain = <<>> /\ b.root_key = m.key.root
      /\ first \in Chains
      /\ first.ratchet_key = m.ratchet_key
      /\ first.chain_key = FirstChainKey(m.key.root)
      /\ Len(b.receiver_chains) \in 1 .. MAX_RECEIVER_CHAINS
      /\ b.receiver_chains[1] = first
      /\ \A i \in 2 .. Len(b.receiver_chains) : b.receiver_chains[i] = old[i - 1]
    BY <1>2, <1>3, AddReceiverChainFacts
<1>5. Len(b.receiver_chains) =
         IF Len(old) < MAX_RECEIVER_CHAINS THEN Len(old) + 1 ELSE MAX_RECEIVER_CHAINS
    <2>1. b.receiver_chains = ListInsert(old, 1, first, MAX_RECEIVER_CHAINS)
        BY <1>3 DEF AddReceiverChain, Ratchets
    <2>2. old \in Seq(Chains) /\ MAX_RECEIVER_CHAINS \in Nat \ {0}
        BY <1>3, RatchetParts, RatchetLimits
    <2> HIDE DEF old, first, b
    <2>3. Len(ListInsert(old, 1, first, MAX_RECEIVER_CHAINS)) =
             IF Len(old) < MAX_RECEIVER_CHAINS THEN Len(old) + 1 ELSE MAX_RECEIVER_CHAINS
        BY <1>3, <1>4, <2>2, ListInsertFrontLength DEF old
    <2> QED
        BY <2>1, <2>3
<1>6. /\ first.chain_key.index = 0 /\ first.chain_key.key.root = m.key.root
      /\ InStep(first.chain_key)
    BY <1>3, <1>4, FirstChainKeyFacts DEF InStep
<1> HIDE DEF b, first, old
<1>7. AdvancedFrom(b, 1, m.counter, a)
    <2>1. 1 \in 1 .. Len(b.receiver_chains) /\ 0 <= m.counter
        BY <1>3, <1>4, RatchetLimits
    <2> QED
        BY <1>3, <1>4, <1>6, <2>1, AdvanceReceiverChainFacts
<1> HIDE DEF a, r
<1>8. /\ a.sender_chain = <<>> /\ a.root_key = m.key.root
      /\ Len(new) = Len(b.receiver_chains)
      /\ new[1].ratchet_key = m.ratchet_key
      /\ new[1].chain_key.key.root = m.key.root
      /\ new[1].chain_key.key.steps = m.counter + 1
      /\ \A i \in 2 .. Len(new) : new[i] = b.receiver_chains[i]
    <2>1. /\ a.sender_chain = <<>> /\ a.root_key = m.key.root
          /\ Len(new) = Len(b.receiver_chains)
          /\ \A j \in 1 .. Len(b.receiver_chains) : j # 1 => new[j] = b.receiver_chains[j]
        BY <1>4, <1>7 DEF AdvancedFrom
    <2>2. /\ new[1].ratchet_key = m.ratchet_key
          /\ new[1].chain_key.index = m.counter + 1
          /\ new[1].chain_key.key.root = m.key.root
          /\ InStep(new[1].chain_key)
        BY <1>4, <1>6, <1>7 DEF AdvancedFrom
    <2>3. Len(b.receiver_chains) \in Nat
        BY <1>4
    <2> HIDE DEF new
    <2> QED
        BY <2>1, <2>2, <2>3 DEF InStep
<1>9. /\ ratchet'[p] = a
      /\ \A q \in Party : q # p => ratchet'[q] = ratchet[q]
    BY <1>1, <1>3
<1> QED
    <2>1. /\ sent' = sent /\ generated' = generated
          /\ delivered' = [delivered EXCEPT ![p] = @ \cup {m}]
        BY <1>1 DEF Deliver
    <2>2. \A i \in 2 .. Len(new) : new[i] = old[i - 1]
        BY <1>4, <1>8
    <2> HIDE DEF new
    <2> QED
        BY <1>2, <1>3, <1>5, <1>8, <1>9, <2>1, <2>2 DEF new, old, r

(* Only the party that has not seen its peer's latest ratchet key meets a  *)
(* new chain, and it meets the one of that key: from then on it follows.   *)
LEMMA NewChainIsLatest ==
    ASSUME LockstepInv, NEW x \in Party, Follows(x),
           NEW p \in Party, NEW m \in Frames(p), DecryptOnNewChain(p, m)
    PROVE  /\ p = Peer(x) /\ Turned(x)
           /\ m.key.root = ratchet[x].root_key
           /\ m.ratchet_key = LatestKey(x)
           /\ m.counter + 1 <= ratchet[x].sender_chain[1].chain_key.key.steps
<1> DEFINE y == Peer(x)
<1>1. /\ y \in Party /\ y # x /\ Peer(y) = x
      /\ \A q \in Party : q = x \/ q = y
    BY PeerFacts
<1>2. /\ m \in SentTo(p) /\ m \in sent
      /\ RootLength(m.key.root) > RootLength(ratchet[p].root_key)
      /\ RootLength(m.key.root) \in Nat /\ m.counter \in Nat
      /\ RootLength(ratchet[p].root_key) \in Nat
    BY NewChainFacts, RootLengthType, RootKeyType DEF SentTo
<1>3. RootLength(ratchet[x].root_key) \in Nat /\ RootLength(ratchet[y].root_key) \in Nat
    BY <1>1, RootKeyType
<1>4. p = y
    <2> SUFFICES ASSUME p = x PROVE FALSE
        BY <1>1
    <2>1. RootLength(m.key.root) <= RootLength(ratchet[y].root_key)
        BY <1>2 DEF Follows
    <2>2. RootLength(ratchet[y].root_key) <= RootLength(ratchet[x].root_key)
        BY <1>3, TurnedAhead DEF Follows, Led
    <2> HIDE DEF y
    <2> QED
        BY <1>2, <1>3, <2>1, <2>2
<1>5. m.key.root = ratchet[x].root_key
    BY <1>1, <1>2, <1>4 DEF Follows, Led, Turned, KnownOrOn
<1>6. Turned(x)
    BY <1>2, <1>4, <1>5 DEF Follows, Led
<1>7. ratchet[x].sender_chain # <<>>
    BY <1>6 DEF Turned
<1>8. /\ m.ratchet_key = LatestKey(x)
      /\ m.counter < ratchet[x].sender_chain[1].chain_key.key.steps
      /\ ratchet[x].sender_chain[1].chain_key.key.steps \in Nat
    BY <1>2, <1>5, <1>7, SendersChain, ChainParts
<1> QED
    BY <1>2, <1>4, <1>5, <1>6, <1>8

LEMMA NewChainFollows ==
    ASSUME LockstepInv, NEW x \in Party, Follows(x),
           NEW p \in Party, NEW m \in Frames(p), DecryptOnNewChain(p, m)
    PROVE  Follows(p)'
<1>1. /\ x \in Party /\ p # x /\ Peer(p) = x /\ p = Peer(x)
    BY NewChainIsLatest, PeerFacts
<1>2. /\ Turned(x) /\ m.key.root = ratchet[x].root_key
      /\ m.ratchet_key = LatestKey(x)
      /\ m.counter + 1 <= ratchet[x].sender_chain[1].chain_key.key.steps
    BY NewChainIsLatest
<1>3. /\ ratchet'[x] = ratchet[x]
      /\ sent' = sent /\ generated' = generated
      /\ ratchet'[p].sender_chain = <<>>
      /\ ratchet'[p].root_key = m.key.root
      /\ ratchet'[p].receiver_chains[1].ratchet_key = m.ratchet_key
      /\ ratchet'[p].receiver_chains[1].chain_key.key.root = m.key.root
      /\ ratchet'[p].receiver_chains[1].chain_key.key.steps = m.counter + 1
      /\ Len(ratchet'[p].receiver_chains) # 0
    <2>1. Len(ratchet'[p].receiver_chains) # 0
        <3>1. ratchet[p].receiver_chains \in Seq(Chains)
            BY TypeOfParty, RatchetParts DEF LockstepInv, IInv
        <3>2. Len(ratchet[p].receiver_chains) \in Nat
            BY <3>1, ListOfChains
        <3>3. Len(ratchet'[p].receiver_chains) =
                 IF Len(ratchet[p].receiver_chains) < MAX_RECEIVER_CHAINS
                 THEN Len(ratchet[p].receiver_chains) + 1 ELSE MAX_RECEIVER_CHAINS
            BY NewChainFacts
        <3> QED
            BY <3>2, <3>3, RatchetLimits
    <2> QED
        BY <1>1, <2>1, NewChainFacts
<1>4. ratchet[x].sender_chain # <<>> /\ ratchet[p].sender_chain # <<>>
    BY <1>1, <1>2 DEF Turned, Follows
<1>5. /\ ratchet[x].sender_chain[1].ratchet_key = LatestKey(x)
      /\ ratchet[x].sender_chain[1].chain_key.key.root = ratchet[x].root_key
      /\ ratchet[p].sender_chain[1].ratchet_key = LatestKey(p)
      /\ generated[p] \in Nat \ {0}
    BY <1>4, SendersChain
<1>6. KnowsChain(ratchet'[p], ratchet'[x].sender_chain[1])
    <2>1. ratchet'[p].receiver_chains # <<>>
        <3>1. Len(<<>>) = 0
            OBVIOUS
        <3> QED
            BY <1>3, <3>1
    <2> QED
        BY <1>2, <1>3, <1>5, <2>1 DEF KnowsChain, Derives
<1>7. /\ RootLength(ratchet[p].root_key) \in Nat /\ RootLength(ratchet[x].root_key) \in Nat
      /\ RootLength(ratchet[p].root_key) < RootLength(ratchet[x].root_key)
    BY <1>1, <1>2, TurnedAhead, RootKeyType
<1>8. \A n \in SentTo(p)' : RootLength(n.key.root) <= RootLength(ratchet'[x].root_key)
    <2>1. \A n \in SentTo(p) : \/ RootLength(n.key.root) <= RootLength(ratchet[p].root_key)
                               \/ n.key.root = ratchet[x].root_key
        BY <1>1, <1>2 DEF Turned, KnownOrOn
    <2>2. \A n \in SentTo(p) : RootLength(n.key.root) \in Nat
        BY TypeOfParty, MessageParts, RootLengthType DEF LockstepInv, IInv
    <2>3. \A n \in SentTo(p) : RootLength(n.key.root) <= RootLength(ratchet[x].root_key)
        BY <1>7, <2>1, <2>2
    <2>4. SentTo(p)' = SentTo(p)
        BY <1>3 DEF SentTo
    <2> QED
        BY <1>3, <2>3, <2>4
<1>9. Led(p)'
    <2>1. HasSeen(x, generated[p])'
        <3>1. KnowsChain(ratchet[x], ratchet[p].sender_chain[1])
            BY <1>1 DEF Follows
        <3> QED
            BY <1>1, <1>3, <1>5, <3>1 DEF HasSeen, KnowsChain, LatestKey
    <2>2. KnownOrOn(p, ratchet[p].root_key)'
        <3>1. \A n \in SentTo(x) : RootLength(n.key.root) <= RootLength(ratchet[p].root_key)
            BY <1>1 DEF Follows
        <3>2. \A n \in SentTo(x) : RootLength(n.key.root) \in Nat
            BY TypeOfParty, MessageParts, RootLengthType DEF LockstepInv, IInv
        <3>3. \A n \in SentTo(x) : RootLength(n.key.root) <= RootLength(ratchet[x].root_key)
            BY <1>7, <3>1, <3>2
        <3>4. SentTo(x)' = SentTo(x)
            BY <1>3 DEF SentTo
        <3> QED
            BY <1>1, <1>3, <3>3, <3>4 DEF KnownOrOn
    <2> QED
        BY <1>1, <1>2, <1>3, <2>1, <2>2 DEF Led
<1> QED
    BY <1>1, <1>3, <1>4, <1>6, <1>8, <1>9 DEF Follows

LEMMA NewChainKeepsNewest ==
    ASSUME LockstepInv, NEW x \in Party, Follows(x),
           NEW p \in Party, NEW m \in Frames(p), DecryptOnNewChain(p, m)
    PROVE  KeepsNewestChains'
<1> DEFINE old == ratchet[p].receiver_chains
           new == ratchet'[p].receiver_chains
           Held(q, list) ==
              /\ \A i \in 1 .. Len(list) :
                    list[i].ratchet_key = RatchetKey(Peer(q), list[1].ratchet_key.n - (i - 1))
              /\ \A i \in 1 .. Len(list) : i = Len(list) /\ i < MAX_RECEIVER_CHAINS
                    => list[i].ratchet_key.n = 0
<1>1. /\ Peer(p) = x /\ Turned(x) /\ m.ratchet_key = RatchetKey(x, generated[x] - 1)
      /\ p = Peer(x)
    BY NewChainIsLatest, PeerFacts DEF LatestKey
<1>2. /\ \A q \in Party : q # p => ratchet'[q] = ratchet[q]
      /\ Len(new) = IF Len(old) < MAX_RECEIVER_CHAINS THEN Len(old) + 1
                    ELSE MAX_RECEIVER_CHAINS
      /\ new[1].ratchet_key = m.ratchet_key
      /\ \A i \in 2 .. Len(new) : new[i] = old[i - 1]
    BY NewChainFacts
<1>3. \A q \in Party : Held(q, ratchet[q].receiver_chains)
    BY DEF LockstepInv, KeepsNewestChains
<1>4. /\ Len(old) \in Nat /\ old = <<>> <=> Len(old) = 0
      /\ Len(old) <= MAX_RECEIVER_CHAINS /\ generated[x] \in Nat
    BY TypeOfParty, RatchetParts, ListOfChains DEF LockstepInv, IInv
<1>5. HasSeen(p, generated[x] - 1)
    BY <1>1 DEF Turned
<1> DEFINE n == generated[x] - 1
<1>6. n \in Int /\ new[1].ratchet_key.n = n /\ new[1].ratchet_key = RatchetKey(x, n)
    BY <1>1, <1>2, <1>4 DEF RatchetKey
<1>7. /\ old = <<>> => n = 0
      /\ old # <<>> => old[1].ratchet_key.n = n - 1
    BY <1>5 DEF HasSeen, RatchetKey
<1> HIDE DEF n, old, new
<1>8. Held(p, new)
    <2>1. ASSUME NEW i \in 1 .. Len(new)
          PROVE  new[i].ratchet_key = RatchetKey(x, n - (i - 1))
        <3>1. CASE i = 1
            <4>1. n - (1 - 1) = n
                BY <1>6
            <4> QED
                BY <1>6, <3>1, <4>1
        <3>2. CASE i # 1
            <4>1. /\ i \in 2 .. Len(new) /\ i - 1 \in 1 .. Len(old) /\ old # <<>>
                BY <1>2, <1>4, <3>2, RatchetLimits
            <4>2. old[i - 1].ratchet_key = RatchetKey(x, old[1].ratchet_key.n - ((i - 1) - 1))
                BY <1>1, <1>3, <4>1 DEF old
            <4>3. old[1].ratchet_key.n - ((i - 1) - 1) = n - (i - 1)
                BY <1>6, <1>7, <4>1
            <4> QED
                BY <1>2, <4>1, <4>2, <4>3
        <3> QED
            BY <3>1, <3>2
    <2>2. ASSUME NEW i \in 1 .. Len(new), i = Len(new), i < MAX_RECEIVER_CHAINS
          PROVE  new[i].ratchet_key.n = 0
        <3>1. Len(new) = Len(old) + 1
            BY <1>2, <1>4, <2>2, RatchetLimits
        <3>2. CASE old = <<>>
            BY <1>4, <1>6, <1>7, <2>2, <3>1, <3>2
        <3>3. CASE old # <<>>
            <4>1. /\ i \in 2 .. Len(new) /\ i - 1 \in 1 .. Len(old) /\ i - 1 = Len(old)
                  /\ i - 1 < MAX_RECEIVER_CHAINS
                BY <1>4, <2>2, <3>1, <3>3, RatchetLimits
            <4>2. old[i - 1].ratchet_key.n = 0
                BY <1>3, <4>1 DEF old
            <4> QED
                BY <1>2, <4>1, <4>2
        <3> QED
            BY <3>2, <3>3
    <2> QED
        BY <1>1, <1>6, <2>1, <2>2
<1>9. \A q \in Party : Held(q, ratchet'[q].receiver_chains)
    <2> SUFFICES ASSUME NEW q \in Party PROVE Held(q, ratchet'[q].receiver_chains)
        OBVIOUS
    <2> HIDE DEF Held
    <2>1. CASE q = p
        BY <1>8, <2>1 DEF new
    <2>2. CASE q # p
        BY <1>2, <1>3, <2>2
    <2> QED
        BY <2>1, <2>2
<1> QED
    BY <1>9 DEF KeepsNewestChains

LEMMA NewChainLockstep ==
    ASSUME LockstepInv, NEW p \in Party, NEW m \in Frames(p), DecryptOnNewChain(p, m)
    PROVE  LockstepInv'
<1>1. PICK x \in Party : Follows(x)
    BY DEF LockstepInv
<1>2. IInv'
    BY NewChainIInv DEF LockstepInv
<1>3. sent' = sent /\ generated' = generated /\ ratchet'[p].sender_chain = <<>>
      /\ \A q \in Party : q # p => ratchet'[q] = ratchet[q]
    BY NewChainFacts
<1>4. OneRootPerKey'
    BY <1>3 DEF LockstepInv, OneRootPerKey
<1>5. ASSUME NEW q \in Party PROVE SendsOnLatest(q)'
    <2>1. SendsOnLatest(q) /\ 1 .. Len(<<>>) = {}
        BY DEF LockstepInv
    <2> QED
        BY <1>3, <2>1 DEF SendsOnLatest, LatestKey
<1>6. KeepsNewestChains' /\ Follows(p)'
    BY <1>1, NewChainKeepsNewest, NewChainFollows
<1> QED
    BY <1>2, <1>4, <1>5, <1>6 DEF LockstepInv

LEMMA OnChainLockstep ==
    ASSUME LockstepInv, NEW p \in Party, NEW m \in Frames(p), NEW sequential,
           DecryptOnChain(p, m, sequential)
    PROVE  LockstepInv'
<1> DEFINE r == ratchet[p]
<1>1. PICK i \in 1 .. Len(r.receiver_chains) :
         /\ AcceptsOnChain(r, m, i, sequential)
         /\ ratchet' = [ratchet EXCEPT ![p] = AdvanceReceiverChain(@, i, m.counter)]
         /\ Deliver(p, m)
    BY DEF DecryptOnChain
<1> DEFINE a == AdvanceReceiverChain(r, i, m.counter)
           chain == r.receiver_chains[i]
<1>2. /\ IInv /\ TypeOK /\ ratchet \in [Party -> Ratchets]
      /\ r \in Ratchets /\ ReceiverSound(p, r)
    BY TypeOfParty DEF LockstepInv, IInv, TypeOK
<1>3. /\ m \in SentTo(p) /\ m \in sent /\ m.counter \in Nat
      /\ chain.chain_key.index <= m.counter
      /\ m.key.root = chain.chain_key.key.root
      /\ InStep(chain.chain_key)
    <2>1. /\ m \in SentTo(p) /\ chain.chain_key.index <= m.counter
          /\ m.key.root = chain.chain_key.key.root
        BY <1>1, <1>2, AcceptedOnChain
    <2>2. m \in Messages /\ m \in sent
        BY <1>2, <2>1, TypeOfParty
    <2>3. InStep(chain.chain_key)
        BY <1>2 DEF ReceiverSound
    <2> QED
        BY <2>1, <2>2, <2>3, MessageParts
<1>4. AdvancedFrom(r, i, m.counter, a)
    BY <1>2, <1>3, AdvanceReceiverChainFacts
<1>5. /\ ratchet'[p] = a
      /\ \A q \in Party : q # p => ratchet'[q] = ratchet[q]
      /\ sent' = sent /\ generated' = generated
    BY <1>1, <1>2 DEF Deliver
<1> HIDE DEF a
<1>6. /\ a.sender_chain = r.sender_chain /\ a.root_key = r.root_key
      /\ Len(a.receiver_chains) = Len(r.receiver_chains)
    BY <1>4 DEF AdvancedFrom
<1>7. ASSUME NEW j \in 1 .. Len(r.receiver_chains)
      PROVE  LET old == r.receiver_chains[j]
                 new == a.receiver_chains[j]
             IN  /\ new.ratchet_key = old.ratchet_key
                 /\ new.chain_key.key.root = old.chain_key.key.root
                 /\ \/ new = old
                    \/ \E n \in sent : /\ n.key.root = old.chain_key.key.root
                                       /\ new.chain_key.key.steps = n.counter + 1
    <2>1. CASE j # i
        BY <1>4, <2>1 DEF AdvancedFrom
    <2>2. CASE j = i
        <3>1. /\ a.receiver_chains[i].ratchet_key = chain.ratchet_key
              /\ a.receiver_chains[i].chain_key.index = m.counter + 1
              /\ a.receiver_chains[i].chain_key.key.root = chain.chain_key.key.root
              /\ InStep(a.receiver_chains[i].chain_key)
            BY <1>3, <1>4 DEF AdvancedFrom
        <3> HIDE DEF r
        <3> QED
            BY <1>3, <2>2, <3>1 DEF InStep
    <2> QED
        BY <2>1, <2>2
<1>8. IInv'
    BY <1>2, OnChainIInv, <1>1 DEF DecryptOnChain
<1> QED
    BY <1>5, <1>6, <1>7, <1>8, SameChainsLockstep

LEMMA SkippedLockstep ==
    ASSUME LockstepInv, NEW p \in Party, NEW m \in Frames(p), DecryptSkipped(p, m)
    PROVE  LockstepInv'
<1>1. PICK j \in 1 .. Len(ratchet[p].skipped_message_keys) :
         /\ ratchet' = [ratchet EXCEPT ![p] = UseSkipped(@, j)]
         /\ Deliver(p, m)
    BY DEF DecryptSkipped
<1> DEFINE a == UseSkipped(ratchet[p], j)
<1>2. /\ IInv /\ ratchet \in [Party -> Ratchets] /\ ratchet[p] \in Ratchets
    BY TypeOfParty DEF LockstepInv, IInv, TypeOK
<1>3. /\ a.sender_chain = ratchet[p].sender_chain
      /\ a.root_key = ratchet[p].root_key
      /\ a.receiver_chains = ratchet[p].receiver_chains
    BY <1>2, UseSkippedFacts
<1>4. /\ ratchet'[p] = a
      /\ \A q \in Party : q # p => ratchet'[q] = ratchet[q]
      /\ sent' = sent /\ generated' = generated
    BY <1>1, <1>2 DEF Deliver
<1>5. IInv'
    BY <1>2, SkippedIInv
<1> HIDE DEF a
<1> QED
    BY <1>3, <1>4, <1>5, SameChainsLockstep

LEMMA NextLockstep ==
    ASSUME LockstepInv, [Next]_vars
    PROVE  LockstepInv'
<1>1. ASSUME NEW p \in Party, Encrypt(p)
      PROVE  LockstepInv'
    BY <1>1, EncryptLockstep
<1>2. ASSUME NEW p \in Party, NEW m \in Frames(p), NEW sequential \in Modes,
             Decrypt(p, m, sequential)
      PROVE  LockstepInv'
    BY <1>2, NewChainLockstep, OnChainLockstep, SkippedLockstep DEF Decrypt
<1>3. ASSUME UNCHANGED vars
      PROVE  LockstepInv'
    <2>1. IInv'
        BY <1>3, StutterIInv DEF LockstepInv
    <2>2. ratchet' = ratchet /\ sent' = sent /\ generated' = generated
        BY <1>3 DEF vars
    <2>3. /\ OneRootPerKey /\ KeepsNewestChains
          /\ \A p \in Party : SendsOnLatest(p)
          /\ \E p \in Party : Follows(p)
        BY DEF LockstepInv
    <2>4. OneRootPerKey' /\ KeepsNewestChains' /\ \A p \in Party : SendsOnLatest(p)'
        BY ONLY <2>2, <2>3 DEF OneRootPerKey, KeepsNewestChains, SendsOnLatest, LatestKey
    <2>5. \E p \in Party : Follows(p)'
        BY ONLY <2>2, <2>3
           DEF Follows, Led, Turned, HasSeen, KnownOrOn, LatestKey, SentTo
    <2> QED
        BY <2>1, <2>4, <2>5 DEF LockstepInv
<1> QED
    BY <1>1, <1>2, <1>3 DEF Next, DecryptRejected

(* LockstepInv is an invariant of the two sessions.                        *)
THEOREM Lockstep == Spec => []LockstepInv
<1>1. Init => LockstepInv
    BY InitLockstep
<1>2. LockstepInv /\ [Next]_vars => LockstepInv'
    BY NextLockstep
<1> QED
    BY <1>1, <1>2, PTL DEF Spec

LEMMA TurnedCanFollow ==
    ASSUME LockstepInv, NEW x \in Party, Follows(x), Turned(x)
    PROVE  CanFollow(ratchet[Peer(x)], ratchet[x].sender_chain[1])
<1> DEFINE y == Peer(x)
           chain == ratchet[x].sender_chain[1]
           held == ratchet[y].receiver_chains
<1>1. y \in Party /\ Peer(y) = x
    BY PeerFacts
<1>2. ratchet[y].sender_chain # <<>> /\ ratchet[x].sender_chain # <<>>
    BY DEF Follows, Turned
<1>3. /\ chain.ratchet_key = LatestKey(x)
      /\ chain.chain_key.key.root = ratchet[x].root_key
      /\ generated[x] \in Nat
      /\ ratchet[y].sender_chain[1].ratchet_key = LatestKey(y)
    BY <1>1, <1>2, SendersChain
<1>4. held \in Seq(Chains)
    BY <1>1, TypeOfParty, RatchetParts DEF LockstepInv, IInv
<1>5. Len(held) \in Nat /\ held # <<>> <=> Len(held) > 0
    BY <1>4, ListOfChains
<1>6. ASSUME NEW i \in 1 .. Len(held)
      PROVE  held[i].ratchet_key # LatestKey(x)
    <2>1. held[i].ratchet_key = RatchetKey(x, held[1].ratchet_key.n - (i - 1))
        BY <1>1 DEF LockstepInv, KeepsNewestChains
    <2>2. held # <<>>
        BY <1>5
    <2>3. held[1].ratchet_key = RatchetKey(x, generated[x] - 1 - 1)
        BY <1>1, <2>2 DEF Turned, HasSeen
    <2>4. held[1].ratchet_key.n = generated[x] - 1 - 1
        BY <2>3 DEF RatchetKey
    <2>5. held[i].ratchet_key.n = held[1].ratchet_key.n - (i - 1)
        BY <2>1 DEF RatchetKey
    <2>6. LatestKey(x).n = generated[x] - 1
        BY DEF LatestKey, RatchetKey
    <2> HIDE DEF held
    <2>7. held[i].ratchet_key.n # LatestKey(x).n
        BY <1>3, <1>5, <2>4, <2>5, <2>6
    <2> QED
        BY <2>7
<1>7. NewRootFor(ratchet[y], chain) = chain.chain_key.key.root
    BY <1>3, SwappedKeys DEF NewRootFor, Turned
<1> QED
    BY <1>2, <1>3, <1>6, <1>7 DEF CanFollow, HasChainFor

(* The two ratchets never drift apart: what a party sends on, its peer     *)
(* receives on or can derive, and never have both nothing to send on.      *)
THEOREM StaysInSync == Spec => []InSync
<1>1. ASSUME LockstepInv PROVE InSync
    <2>1. PICK x \in Party : Follows(x)
        BY <1>1 DEF LockstepInv
    <2> DEFINE y == Peer(x)
    <2>2. /\ y \in Party /\ Peer(y) = x
          /\ \A p \in Party : p = x \/ p = y
          /\ ratchet[y].sender_chain # <<>>
        BY <2>1, PeerFacts DEF Follows
    <2>3. ASSUME NEW p \in Party, NEW i \in 1 .. Len(ratchet[p].sender_chain)
          PROVE  i = 1 /\ ratchet[p].sender_chain # <<>>
        <3>1. /\ ratchet[p].sender_chain \in Seq(Chains)
              /\ Len(ratchet[p].sender_chain) <= 1
            BY <1>1, TypeOfParty, RatchetParts DEF LockstepInv, IInv
        <3> QED
            BY <3>1, ListOfChains
    <2>4. KnowsChain(ratchet[x], ratchet[y].sender_chain[1])
        BY <2>1 DEF Follows
    <2>5. ratchet[x].sender_chain # <<>> =>
             CanFollow(ratchet[y], ratchet[x].sender_chain[1])
        BY <1>1, <2>1, TurnedCanFollow DEF Follows, Led
    <2> HIDE DEF y
    <2> QED
        BY <2>2, <2>3, <2>4, <2>5 DEF InSync, y
<1> QED
    BY <1>1, Lockstep, PTL

-----------------------------------------------------------------------------
(* Skipped keys are lost oldest first (SkippedInv).                        *)
LEMMA SkippedKeyParts ==
    ASSUME NEW r \in Ratchets, NEW j \in 1 .. Len(r.skipped_message_keys)
    PROVE  LET k == r.skipped_message_keys[j].message_key IN
           /\ r.skipped_message_keys[j].ratchet_key \in RatchetKeys
           /\ k.index \in Nat /\ k.key.steps \in Nat
           /\ InStep(k) => k.key = [root |-> k.key.root, steps |-> k.index]
<1> DEFINE item == r.skipped_message_keys[j]
           k == item.message_key
<1>1. item \in SkippedKeys
    BY RatchetParts, ListOfSkippedKeys
<1>2. k \in ChainKeys /\ item.ratchet_key \in RatchetKeys
    BY <1>1 DEF SkippedKeys
<1> HIDE DEF item, k
<1>3. /\ k.index \in Nat /\ k.key \in SymmetricKeys
    BY <1>2 DEF ChainKeys
<1>4. k.key = [root |-> k.key.root, steps |-> k.key.steps] /\ k.key.steps \in Nat
    BY <1>3 DEF SymmetricKeys
<1> QED
    BY <1>2, <1>3, <1>4 DEF InStep, item, k

(* The order of the list: the keys passed last are newer than those that   *)
(* the chain had passed before.                                            *)
LEMMA AdvanceNewestFirst ==
    ASSUME NEW r \in Ratchets, NEW i \in 1 .. Len(r.receiver_chains), NEW counter \in Nat,
           NEW a, AdvancedFrom(r, i, counter, a),
           SkippedSound(r), NewestFirst(r.skipped_message_keys)
    PROVE  NewestFirst(a.skipped_message_keys)
<1> DEFINE chain == r.receiver_chains[i]
           start == chain.chain_key.index
           n == counter - start
           root == chain.chain_key.key.root
           old == r.skipped_message_keys
           new == a.skipped_message_keys
<1>1. /\ start \in Nat /\ n \in Nat
      /\ Len(old) \in Nat
    <2>1. chain \in Chains /\ old \in Seq(SkippedKeys)
        BY RatchetParts, ListOfChains
    <2> HIDE DEF chain, old
    <2>2. start \in Nat /\ Len(old) \in Nat
        BY <2>1, ChainParts, ListOfSkippedKeys
    <2>3. n \in Nat
        BY DEF AdvancedFrom, chain
    <2> QED
        BY <2>2, <2>3
<1>2. \A j \in 1 .. Len(new) :
         \/ /\ j <= n
            /\ new[j].message_key.index = counter - j
            /\ new[j].message_key.key.root = root
         \/ /\ j > n /\ j - n \in 1 .. Len(old) /\ new[j] = old[j - n]
    BY DEF AdvancedFrom
<1>3. \A j \in 1 .. Len(old) : /\ old[j].message_key.index \in Nat
                               /\ old[j].message_key.key.root = root
                                     => old[j].message_key.index < start
    <2>1. \A j \in 1 .. Len(old) :
             old[j].message_key.key.root = root => old[j].message_key.index < start
        BY DEF SkippedSound, ChainIndex
    <2> QED
        BY <2>1, SkippedKeyParts
<1>4. \A j, k \in 1 .. Len(old) :
         old[j].message_key.key.root = old[k].message_key.key.root /\ j < k
         => old[j].message_key.index > old[k].message_key.index
    BY DEF NewestFirst
<1>5. new \in Seq(SkippedKeys) /\ Len(new) \in Nat
    BY RatchetParts, ListOfSkippedKeys DEF AdvancedFrom
<1> HIDE DEF old, new, start, root
<1>6. ASSUME NEW j \in 1 .. Len(new), NEW k \in 1 .. Len(new), j < k,
             new[j].message_key.key.root = new[k].message_key.key.root
      PROVE  new[j].message_key.index > new[k].message_key.index
    <2>1. CASE k <= n
        BY <1>1, <1>2, <1>5, <1>6, <2>1
    <2>2. CASE j <= n /\ k > n
        <3>1. /\ ~(j > n) /\ ~(k <= n)
            BY <1>1, <1>5, <2>2
        <3> HIDE DEF n
        <3>2. /\ new[j].message_key.index = counter - j
              /\ new[j].message_key.key.root = root
            BY <1>2, <3>1
        <3>3. k - n \in 1 .. Len(old) /\ new[k] = old[k - n]
            BY <1>2, <3>1
        <3>4. /\ new[k].message_key.index \in Nat
              /\ new[k].message_key.index < start
            BY <1>3, <1>6, <3>2, <3>3
        <3>5. n = counter - start
            BY DEF n
        <3> QED
            BY <1>1, <1>5, <2>2, <3>2, <3>4, <3>5
    <2>3. CASE j > n
        <3>1. /\ k > n
              /\ j - n \in 1 .. Len(old) /\ new[j] = old[j - n]
              /\ k - n \in 1 .. Len(old) /\ new[k] = old[k - n]
              /\ j - n < k - n
            BY <1>1, <1>2, <1>5, <1>6, <2>3
        <3> HIDE DEF n
        <3> QED
            BY <1>4, <1>6, <3>1
    <2> QED
        BY <1>1, <1>5, <2>1, <2>2, <2>3
<1> QED
    BY <1>6 DEF NewestFirst, new

(* What was kept above a key is still there while the key itself is, since *)
(* it lies in front of it.                                                 *)
LEMMA StillKept ==
    ASSUME NEW r \in Ratchets, NEW i \in 1 .. Len(r.receiver_chains), NEW counter \in Nat,
           NEW a, AdvancedFrom(r, i, counter, a),
           SkippedSound(r), NewestFirst(r.skipped_message_keys),
           NEW messages, NEW m,
           NEW j \in 1 .. Len(a.skipped_message_keys),
           NEW x \in 1 .. Len(r.skipped_message_keys),
           j - x = counter - r.receiver_chains[i].chain_key.index,
           NEW c \in Nat, c > r.skipped_message_keys[x].message_key.index,
           KeptOrRead(r, messages, r.skipped_message_keys[x].message_key.key.root, c)
    PROVE  KeptOrRead(a, messages \cup {m},
                      r.skipped_message_keys[x].message_key.key.root, c)
<1> DEFINE n == counter - r.receiver_chains[i].chain_key.index
           old == r.skipped_message_keys
           new == a.skipped_message_keys
           root == old[x].message_key.key.root
           key == [root |-> root, steps |-> c]
<1>1. n \in Nat /\ Len(new) \in Nat /\ Len(old) \in Nat
    <2>1. old \in Seq(SkippedKeys) /\ new \in Seq(SkippedKeys)
        BY RatchetParts DEF AdvancedFrom
    <2>2. n \in Nat
        BY DEF AdvancedFrom
    <2> HIDE DEF n, old, new
    <2> QED
        BY <2>1, <2>2, ListOfSkippedKeys
<1>2. \A k \in 1 .. Len(new) : k > n => new[k] = old[k - n]
    <2>1. \A k \in 1 .. Len(new) :
             (k <= n) \/ (k > n /\ k - n \in 1 .. Len(old) /\ new[k] = old[k - n])
        BY DEF AdvancedFrom
    <2> HIDE DEF n, old, new
    <2> TAKE k \in 1 .. Len(new)
    <2>2. (k <= n) \/ new[k] = old[k - n]
        BY <2>1
    <2>3. k <= n => ~(k > n)
        BY ONLY <1>1
    <2> QED
        BY ONLY <2>2, <2>3
<1>3. CASE \E d \in messages : d.key = key
    BY <1>3 DEF KeptOrRead
<1>4. CASE \E y \in 1 .. Len(old) : old[y].message_key.key = key
    <2>1. PICK y \in 1 .. Len(old) : old[y].message_key.key = key
        BY <1>4
    <2>2. InStep(old[y].message_key)
        BY DEF SkippedSound
    <2>3. /\ old[y].message_key.index = c
          /\ old[y].message_key.key.root = root
        BY <2>1, <2>2 DEF InStep
    <2>4. old[x].message_key.index \in Nat
        BY SkippedKeyParts
    <2>5. ~(x < y) /\ x # y
        <3>1. old[x].message_key.index < c
            OBVIOUS
        <3>2. x < y => old[x].message_key.index > old[y].message_key.index
            BY <2>3 DEF NewestFirst
        <3> HIDE DEF old, root
        <3> QED
            BY <2>3, <2>4, <3>1, <3>2
    <2>6. j = x + n
        BY <1>1
    <2> HIDE DEF n, old, new, root, key
    <2>7. y + n \in 1 .. Len(new) /\ y + n > n /\ y + n - n = y
        BY <1>1, <2>5, <2>6 DEF new, old
    <2>8. new[y + n].message_key.key = key
        <3> DEFINE z == y + n
        <3>1. z \in 1 .. Len(new) /\ z > n /\ z - n = y
            BY <1>1, <2>7
        <3> HIDE DEF z
        <3>2. new[z] = old[z - n]
            BY <1>2, <3>1
        <3> QED
            BY <2>1, <3>1, <3>2 DEF z
    <2> QED
        BY <2>7, <2>8 DEF KeptOrRead, new, key, root, old
<1> QED
    BY <1>3, <1>4 DEF KeptOrRead

LEMMA AdvanceNothingLost ==
    ASSUME NEW p, NEW r \in Ratchets, NEW i \in 1 .. Len(r.receiver_chains),
           NEW m, m.counter \in Nat,
           m.key = [root |-> r.receiver_chains[i].chain_key.key.root, steps |-> m.counter],
           NEW a, AdvancedFrom(r, i, m.counter, a),
           ReceiverSound(p, r), SkippedSound(r), NewestFirst(r.skipped_message_keys),
           NEW messages, NothingLostAbove(r, messages)
    PROVE  NothingLostAbove(a, messages \cup {m})
<1> DEFINE chain == r.receiver_chains[i]
           start == chain.chain_key.index
           n == m.counter - start
           root == chain.chain_key.key.root
           old == r.skipped_message_keys
           new == a.skipped_message_keys
<1>1. /\ a \in Ratchets
      /\ Len(a.receiver_chains) = Len(r.receiver_chains)
      /\ a.receiver_chains[i].chain_key.key.root = root
      /\ ChainIndex(a, i) = m.counter + 1
      /\ \A k \in 1 .. Len(r.receiver_chains) : k # i =>
            a.receiver_chains[k] = r.receiver_chains[k]
      /\ n \in Nat
    BY DEF AdvancedFrom, ChainIndex
<1>2. /\ start \in Nat /\ m.counter = start + n
      /\ Len(new) \in Nat /\ Len(old) \in Nat
      /\ InStep(chain.chain_key)
    <2>1. chain \in Chains /\ old \in Seq(SkippedKeys) /\ new \in Seq(SkippedKeys)
        BY <1>1, RatchetParts, ListOfChains
    <2>2. start \in Nat
        <3> HIDE DEF chain
        <3> QED
            BY <2>1, ChainParts
    <2>3. m.counter = start + n
        BY <2>2
    <2>4. InStep(chain.chain_key)
        BY DEF ReceiverSound
    <2> QED
        BY <2>1, <2>2, <2>3, <2>4, ListOfSkippedKeys
<1>3. \A j \in 1 .. Len(new) :
         \/ /\ j <= n
            /\ new[j].message_key.index = m.counter - j
            /\ new[j].message_key.key.root = root
            /\ InStep(new[j].message_key)
         \/ /\ j > n /\ j - n \in 1 .. Len(old) /\ new[j] = old[j - n]
    BY <1>2 DEF AdvancedFrom
<1>0. \A k \in 1 .. Len(r.receiver_chains) :
         r.receiver_chains[k].chain_key.key.root = root => k = i
    BY DEF ReceiverSound
<1> SUFFICES ASSUME NEW k \in 1 .. Len(a.receiver_chains), NEW j \in 1 .. Len(new),
                    new[j].message_key.key.root = a.receiver_chains[k].chain_key.key.root,
                    NEW c \in new[j].message_key.index + 1 .. ChainIndex(a, k) - 1
             PROVE  KeptOrRead(a, messages \cup {m}, new[j].message_key.key.root, c)
    BY DEF NothingLostAbove
<1>4. /\ new[j].message_key.index \in Nat
      /\ InStep(new[j].message_key)
    <2>1. new[j].message_key.index \in Nat
        BY <1>1, SkippedKeyParts
    <2>2. InStep(new[j].message_key)
        BY <1>3 DEF SkippedSound
    <2> QED
        BY <2>1, <2>2
<1>5. c \in Nat /\ c > new[j].message_key.index
    BY <1>4
<1>6. r.receiver_chains[k].chain_key.key.root = new[j].message_key.key.root
    BY <1>1 DEF chain
<1>7. /\ j <= n => k = i
      /\ j <= n => new[j].message_key.index >= start
    <2>1. j <= n => new[j].message_key.key.root = root
                    /\ new[j].message_key.index = m.counter - j
        BY <1>1, <1>2, <1>3
    <2> HIDE DEF n, start, root, new
    <2>2. j <= n => k = i
        BY <1>0, <1>1, <1>6, <2>1
    <2>3. j <= n => new[j].message_key.index >= start
        <3> DEFINE index == new[j].message_key.index
        <3>1. /\ start \in Nat /\ n \in Nat /\ j \in 1 .. Len(new) /\ Len(new) \in Nat
              /\ j <= n => index = (start + n) - j
            BY <1>1, <1>2, <2>1
        <3> HIDE DEF index
        <3>2. j <= n => index >= start
            BY ONLY <3>1
        <3> QED
            BY <3>2 DEF index
    <2> QED
        BY <2>2, <2>3
<1>8. m.counter - r.receiver_chains[i].chain_key.index = n
      /\ ChainIndex(r, i) = start
    BY DEF ChainIndex
<1> HIDE DEF n, start, root, old, new
<1>9. ChainIndex(a, k) = IF k = i THEN m.counter + 1 ELSE ChainIndex(r, k)
    BY <1>1 DEF ChainIndex
<1>10. CASE k = i /\ c >= start
    <2>1. /\ new[j].message_key.key.root = root
          /\ c <= m.counter
        BY <1>1, <1>5, <1>9, <1>10
    <2>2. CASE c = m.counter
        <3>1. m.key = [root |-> new[j].message_key.key.root, steps |-> c]
            BY <2>1, <2>2 DEF root
        <3> QED
            BY <3>1 DEF KeptOrRead
    <2>3. CASE c # m.counter
        <3> DEFINE x == m.counter - c
        <3>1. x \in 1 .. n /\ m.counter - x = c
            BY <1>1, <1>2, <1>5, <1>10, <2>1, <2>3
        <3>2. x \in 1 .. Len(new)
            <4>1. CASE j <= n
                <5>1. new[j].message_key.index = m.counter - j
                    BY <1>1, <1>2, <1>3, <4>1
                <5> QED
                    BY <1>2, <1>5, <3>1, <5>1
            <4>2. CASE j > n
                BY <1>1, <1>2, <3>1, <4>2
            <4> QED
                BY <1>1, <1>2, <4>1, <4>2
        <3> HIDE DEF x
        <3>3. /\ new[x].message_key.index = c
              /\ new[x].message_key.key.root = root
              /\ InStep(new[x].message_key)
            BY <1>1, <1>3, <3>1, <3>2
        <3>4. new[x].message_key.key = [root |-> root, steps |-> c]
            BY <1>1, <3>2, <3>3, SkippedKeyParts DEF new
        <3> QED
            BY <2>1, <3>2, <3>4 DEF KeptOrRead, new
    <2> QED
        BY <2>2, <2>3
<1>11. CASE ~(k = i /\ c >= start)
    <2>1. j > n
        <3>1. j <= n => c >= start
            BY <1>2, <1>4, <1>5, <1>7
        <3> QED
            BY <1>1, <1>2, <1>7, <1>11, <3>1
    <2> DEFINE x == j - n
    <2>2. x \in 1 .. Len(old) /\ new[j] = old[x]
        BY <1>1, <1>2, <1>3, <2>1
    <2>3. j - x = m.counter - r.receiver_chains[i].chain_key.index
        BY <1>1, <1>2, <1>8
    <2>4. c \in old[x].message_key.index + 1 .. ChainIndex(r, k) - 1
        <3>1. CASE k = i
            <4>1. ChainIndex(r, k) = start /\ c < start
                BY <1>2, <1>5, <1>8, <1>11, <3>1
            <4> QED
                BY <1>2, <1>4, <1>5, <2>2, <4>1
        <3>2. CASE k # i
            <4>1. ChainIndex(r, k) = ChainIndex(a, k)
                BY <1>9, <3>2
            <4> HIDE DEF x
            <4> QED
                BY <2>2, <4>1
        <3> QED
            BY <3>1, <3>2
    <2> HIDE DEF x
    <2>5. KeptOrRead(r, messages, old[x].message_key.key.root, c)
        BY <1>1, <1>6, <2>2, <2>4 DEF NothingLostAbove, old
    <2>6. KeptOrRead(a, messages \cup {m}, old[x].message_key.key.root, c)
        BY <1>5, <2>2, <2>3, <2>5, StillKept DEF old, new
    <2> QED
        BY <2>2, <2>6
<1> QED
    BY <1>10, <1>11

(* A new chain: no key of it has been skipped yet.                         *)
LEMMA AddNothingLost ==
    ASSUME LockstepInv, NEW p \in Party, NEW m \in SentTo(p),
           m.key.root = NewRootFor(ratchet[p], m), ratchet[p].sender_chain # <<>>,
           NEW messages, NothingLostAbove(ratchet[p], messages)
    PROVE  NothingLostAbove(AddReceiverChain(ratchet[p], m), messages)
<1> DEFINE r == ratchet[p]
           b == AddReceiverChain(r, m)
           keys == r.skipped_message_keys
<1>1. /\ r \in Ratchets /\ Len(r.receiver_chains) <= MAX_RECEIVER_CHAINS
      /\ m.ratchet_key \in RatchetKeys /\ m.key.root \in RootKeys
      /\ SkippedSound(r)
    BY TypeOfParty, MessageParts DEF LockstepInv, IInv
<1>2. /\ b.skipped_message_keys = keys
      /\ RootLength(m.key.root) = RootLength(r.root_key) + 1
      /\ NewChainFor(r, m).chain_key = FirstChainKey(m.key.root)
      /\ Len(b.receiver_chains) \in 1 .. MAX_RECEIVER_CHAINS
      /\ Len(b.receiver_chains) <= Len(r.receiver_chains) + 1
      /\ b.receiver_chains[1] = NewChainFor(r, m)
      /\ \A i \in 2 .. Len(b.receiver_chains) :
            b.receiver_chains[i] = r.receiver_chains[i - 1]
    BY <1>1, AddReceiverChainFacts
<1>3. /\ b.receiver_chains[1].chain_key.key.root = m.key.root
      /\ RootLength(r.root_key) \in Nat /\ Len(r.receiver_chains) \in Nat
    <2>1. r.root_key \in RootKeys /\ r.receiver_chains \in Seq(Chains)
        BY <1>1, RatchetParts
    <2> HIDE DEF b, r
    <2> QED
        BY <1>1, <1>2, <2>1, FirstChainKeyFacts, RootLengthType, ListOfChains
<1> HIDE DEF b
<1> SUFFICES ASSUME NEW i \in 1 .. Len(b.receiver_chains), NEW j \in 1 .. Len(keys),
                    keys[j].message_key.key.root = b.receiver_chains[i].chain_key.key.root,
                    NEW c \in keys[j].message_key.index + 1 .. ChainIndex(b, i) - 1
             PROVE  KeptOrRead(b, messages, keys[j].message_key.key.root, c)
    BY <1>2 DEF NothingLostAbove, b
<1>4. i \in 2 .. Len(b.receiver_chains)
    <2>1. RootLength(keys[j].message_key.key.root) <= RootLength(r.root_key)
        BY <1>1 DEF SkippedSound
    <2>2. i = 1 => RootLength(keys[j].message_key.key.root) = RootLength(r.root_key) + 1
        BY <1>2, <1>3
    <2> DEFINE kept == RootLength(keys[j].message_key.key.root)
               own == RootLength(r.root_key)
    <2>3. kept <= own /\ own \in Nat /\ (i = 1 => kept = own + 1)
        BY <1>3, <2>1, <2>2
    <2> HIDE DEF r, keys, kept, own
    <2>4. i # 1
        BY <2>3
    <2> QED
        BY <1>2, <2>4
<1>5. i - 1 \in 1 .. Len(r.receiver_chains)
    BY <1>2, <1>3, <1>4
<1>6. b.receiver_chains[i] = r.receiver_chains[i - 1] /\ ChainIndex(b, i) = ChainIndex(r, i - 1)
    BY <1>2, <1>4 DEF ChainIndex
<1>7. KeptOrRead(r, messages, keys[j].message_key.key.root, c)
    BY <1>5, <1>6 DEF NothingLostAbove
<1> QED
    BY <1>2, <1>7 DEF KeptOrRead

(* A skipped key that is used up was read; the others keep their order.    *)
LEMMA UseNothingLost ==
    ASSUME NEW r \in Ratchets, NEW j \in 1 .. Len(r.skipped_message_keys),
           NEW m, m.key = r.skipped_message_keys[j].message_key.key,
           NEW messages, NewestFirst(r.skipped_message_keys), NothingLostAbove(r, messages)
    PROVE  /\ NewestFirst(UseSkipped(r, j).skipped_message_keys)
           /\ NothingLostAbove(UseSkipped(r, j), messages \cup {m})
<1> DEFINE a == UseSkipped(r, j)
           old == r.skipped_message_keys
           keys == a.skipped_message_keys
           From(k) == IF k < j THEN k ELSE k + 1
           To(x) == IF x < j THEN x ELSE x - 1
<1>1. /\ a.receiver_chains = r.receiver_chains
      /\ Len(keys) = Len(old) - 1
      /\ \A k \in 1 .. Len(keys) : keys[k] = IF k < j THEN old[k] ELSE old[k + 1]
      /\ Len(old) \in Nat
    BY UseSkippedFacts, RatchetParts, ListOfSkippedKeys
<1> HIDE DEF a, keys, old
<1>2. \A k \in 1 .. Len(keys) : From(k) \in 1 .. Len(old) /\ keys[k] = old[From(k)]
    BY <1>1 DEF old
<1>3. \A k, l \in 1 .. Len(keys) : k < l => From(k) < From(l)
    BY <1>1 DEF old
<1>4. \A x \in 1 .. Len(old) : x # j => To(x) \in 1 .. Len(keys) /\ keys[To(x)] = old[x]
    <2> SUFFICES ASSUME NEW x \in 1 .. Len(old), x # j
                 PROVE  To(x) \in 1 .. Len(keys) /\ keys[To(x)] = old[x]
        OBVIOUS
    <2>1. j \in 1 .. Len(old)
        BY DEF old
    <2>2. CASE x < j
        BY <1>1, <2>1, <2>2
    <2>3. CASE x > j
        <3>1. x - 1 \in 1 .. Len(keys) /\ ~(x - 1 < j) /\ x - 1 + 1 = x
            BY <1>1, <2>1, <2>3
        <3>2. keys[x - 1] = old[x - 1 + 1]
            BY <1>1, <3>1
        <3>3. To(x) = x - 1
            BY <2>1, <2>3
        <3> HIDE DEF To
        <3> QED
            BY <3>1, <3>2, <3>3
    <2> QED
        BY <2>1, <2>2, <2>3
<1> HIDE DEF From, To
<1>5. NewestFirst(keys)
    <2> SUFFICES ASSUME NEW k \in 1 .. Len(keys), NEW l \in 1 .. Len(keys), k < l,
                        keys[k].message_key.key.root = keys[l].message_key.key.root
                 PROVE  keys[k].message_key.index > keys[l].message_key.index
        BY DEF NewestFirst
    <2>1. /\ From(k) \in 1 .. Len(old) /\ keys[k] = old[From(k)]
          /\ From(l) \in 1 .. Len(old) /\ keys[l] = old[From(l)]
          /\ From(k) < From(l)
        BY <1>2, <1>3
    <2> QED
        BY <2>1 DEF NewestFirst, old
<1>6. NothingLostAbove(a, messages \cup {m})
    <2> SUFFICES ASSUME NEW i \in 1 .. Len(a.receiver_chains), NEW k \in 1 .. Len(keys),
                        keys[k].message_key.key.root = a.receiver_chains[i].chain_key.key.root,
                        NEW c \in keys[k].message_key.index + 1 .. ChainIndex(a, i) - 1
                 PROVE  KeptOrRead(a, messages \cup {m}, keys[k].message_key.key.root, c)
        BY DEF NothingLostAbove, keys
    <2> DEFINE root == keys[k].message_key.key.root
    <2>1. From(k) \in 1 .. Len(old) /\ keys[k] = old[From(k)]
        BY <1>2
    <2>2. ChainIndex(a, i) = ChainIndex(r, i)
        BY <1>1 DEF ChainIndex
    <2>3. KeptOrRead(r, messages, root, c)
        BY <1>1, <2>1, <2>2 DEF NothingLostAbove, old
    <2> HIDE DEF root
    <2>4. CASE \E d \in messages : d.key = [root |-> root, steps |-> c]
        BY <2>4 DEF KeptOrRead, root
    <2>5. CASE \E x \in 1 .. Len(old) : old[x].message_key.key = [root |-> root, steps |-> c]
        <3>1. PICK x \in 1 .. Len(old) : old[x].message_key.key = [root |-> root, steps |-> c]
            BY <2>5
        <3>2. CASE x = j
            <4>1. m.key = [root |-> root, steps |-> c]
                BY <3>1, <3>2 DEF old
            <4> QED
                BY <4>1 DEF KeptOrRead, root
        <3>3. CASE x # j
            <4>1. To(x) \in 1 .. Len(keys) /\ keys[To(x)] = old[x]
                BY <1>4, <3>3
            <4> QED
                BY <3>1, <4>1 DEF KeptOrRead, root, keys
        <3> QED
            BY <3>2, <3>3
    <2> QED
        BY <2>3, <2>4, <2>5 DEF KeptOrRead, old
<1> QED
    BY <1>5, <1>6 DEF a, keys

LEMMA SameListsNothingLost ==
    ASSUME NEW r, NEW a, NEW messages, NothingLostAbove(r, messages),
           a.receiver_chains = r.receiver_chains,
           a.skipped_message_keys = r.skipped_message_keys
    PROVE  NothingLostAbove(a, messages)
<1>1. \A i : ChainIndex(a, i) = ChainIndex(r, i)
    BY DEF ChainIndex
<1>2. \A root, c : KeptOrRead(r, messages, root, c) => KeptOrRead(a, messages, root, c)
    BY DEF KeptOrRead
<1> QED
    BY <1>1, <1>2 DEF NothingLostAbove

(* A message that was decrypted carries the key its counter says.          *)
LEMMA GenuineKey ==
    ASSUME IInv, NEW p \in Party, NEW m \in SentTo(p)
    PROVE  m.counter \in Nat /\ m.key = [root |-> m.key.root, steps |-> m.counter]
BY TypeOfParty, MessageParts DEF IInv, SentSound, SentTo

LEMMA NewChainSkipped ==
    ASSUME SkippedInv, NEW p \in Party, NEW m \in Frames(p), DecryptOnNewChain(p, m)
    PROVE  LET a == ratchet'[p] IN
           NewestFirst(a.skipped_message_keys) /\ NothingLostAbove(a, delivered[p] \cup {m})
<1> DEFINE r == ratchet[p]
           b == AddReceiverChain(r, m)
           a == AdvanceReceiverChain(b, 1, m.counter)
<1>1. /\ AcceptsOnNewChain(r, m)
      /\ ratchet' = [ratchet EXCEPT ![p] = a]
      /\ LockstepInv /\ IInv
      /\ NewestFirst(r.skipped_message_keys) /\ NothingLostAbove(r, delivered[p])
    BY DEF DecryptOnNewChain, SkippedInv, LockstepInv
<1>2. /\ m \in SentTo(p) /\ m.key.root = NewRootFor(r, m) /\ r.sender_chain # <<>>
    BY <1>1, AcceptedOnNewChain
<1>3. m.counter \in Nat /\ m.key = [root |-> m.key.root, steps |-> m.counter]
    BY <1>1, <1>2, GenuineKey
<1>4. /\ b \in Ratchets
      /\ Len(b.receiver_chains) \in 1 .. MAX_RECEIVER_CHAINS
      /\ b.receiver_chains[1].chain_key.index = 0
      /\ b.receiver_chains[1].chain_key.key.root = m.key.root
      /\ ReceiverSound(p, b) /\ SkippedSound(b)
    BY <1>1, <1>2, AddSound
<1>5. b.skipped_message_keys = r.skipped_message_keys
    BY <1>1, TypeOfParty DEF AddReceiverChain, Ratchets, IInv
<1>6. NothingLostAbove(b, delivered[p])
    BY <1>1, <1>2, AddNothingLost
<1> HIDE DEF b
<1>7. 1 \in 1 .. Len(b.receiver_chains) /\ 0 <= m.counter
    BY <1>3, <1>4, RatchetLimits
<1>8. AdvancedFrom(b, 1, m.counter, a)
    BY <1>3, <1>4, <1>7, AdvanceReceiverChainFacts
<1> HIDE DEF a
<1>9. NewestFirst(a.skipped_message_keys)
    BY <1>1, <1>3, <1>4, <1>5, <1>7, <1>8, AdvanceNewestFirst
<1>10. NothingLostAbove(a, delivered[p] \cup {m})
    BY <1>1, <1>3, <1>4, <1>5, <1>6, <1>7, <1>8, AdvanceNothingLost
<1>11. ratchet'[p] = a
    BY <1>1 DEF IInv, TypeOK
<1> QED
    BY <1>9, <1>10, <1>11

LEMMA OnChainSkipped ==
    ASSUME SkippedInv, NEW p \in Party, NEW m \in Frames(p), NEW sequential,
           DecryptOnChain(p, m, sequential)
    PROVE  LET a == ratchet'[p] IN
           NewestFirst(a.skipped_message_keys) /\ NothingLostAbove(a, delivered[p] \cup {m})
<1> DEFINE r == ratchet[p]
<1>1. PICK i \in 1 .. Len(r.receiver_chains) :
         /\ AcceptsOnChain(r, m, i, sequential)
         /\ ratchet' = [ratchet EXCEPT ![p] = AdvanceReceiverChain(@, i, m.counter)]
    BY DEF DecryptOnChain
<1> DEFINE a == AdvanceReceiverChain(r, i, m.counter)
<1>2. /\ IInv /\ r \in Ratchets /\ ratchet \in [Party -> Ratchets]
      /\ ReceiverSound(p, r) /\ SkippedSound(r)
      /\ NewestFirst(r.skipped_message_keys) /\ NothingLostAbove(r, delivered[p])
    BY TypeOfParty DEF SkippedInv, LockstepInv, IInv, TypeOK
<1>3. /\ m \in SentTo(p)
      /\ r.receiver_chains[i].chain_key.index <= m.counter
      /\ m.key.root = r.receiver_chains[i].chain_key.key.root
    BY <1>1, <1>2, AcceptedOnChain
<1>4. /\ m.counter \in Nat
      /\ m.key = [root |-> r.receiver_chains[i].chain_key.key.root, steps |-> m.counter]
    BY <1>2, <1>3, GenuineKey
<1>5. AdvancedFrom(r, i, m.counter, a)
    BY <1>2, <1>3, <1>4, AdvanceReceiverChainFacts
<1>6. ratchet'[p] = a
    BY <1>1, <1>2
<1> HIDE DEF a, r
<1>7. NewestFirst(a.skipped_message_keys)
    BY <1>2, <1>4, <1>5, AdvanceNewestFirst
<1>8. NothingLostAbove(a, delivered[p] \cup {m})
    BY <1>2, <1>4, <1>5, AdvanceNothingLost
<1> QED
    BY <1>6, <1>7, <1>8

LEMMA SkippedSkipped ==
    ASSUME SkippedInv, NEW p \in Party, NEW m \in Frames(p), DecryptSkipped(p, m)
    PROVE  LET a == ratchet'[p] IN
           NewestFirst(a.skipped_message_keys) /\ NothingLostAbove(a, delivered[p] \cup {m})
<1>1. PICK j \in 1 .. Len(ratchet[p].skipped_message_keys) :
         /\ AcceptsSkipped(ratchet[p], m, j)
         /\ ratchet' = [ratchet EXCEPT ![p] = UseSkipped(@, j)]
    BY DEF DecryptSkipped
<1>2. /\ IInv /\ ratchet[p] \in Ratchets /\ ratchet \in [Party -> Ratchets]
      /\ NewestFirst(ratchet[p].skipped_message_keys)
      /\ NothingLostAbove(ratchet[p], delivered[p])
    BY TypeOfParty DEF SkippedInv, LockstepInv, IInv, TypeOK
<1>3. m.key = ratchet[p].skipped_message_keys[j].message_key.key
    BY <1>1, <1>2, AcceptedSkipped
<1>4. ratchet'[p] = UseSkipped(ratchet[p], j)
    BY <1>1, <1>2
<1>5. /\ NewestFirst(UseSkipped(ratchet[p], j).skipped_message_keys)
      /\ NothingLostAbove(UseSkipped(ratchet[p], j), delivered[p] \cup {m})
    <2> DEFINE r == ratchet[p]
    <2>1. /\ r \in Ratchets /\ j \in 1 .. Len(r.skipped_message_keys)
          /\ m.key = r.skipped_message_keys[j].message_key.key
          /\ NewestFirst(r.skipped_message_keys) /\ NothingLostAbove(r, delivered[p])
        BY <1>2, <1>3
    <2> HIDE DEF r
    <2>2. /\ NewestFirst(UseSkipped(r, j).skipped_message_keys)
          /\ NothingLostAbove(UseSkipped(r, j), delivered[p] \cup {m})
        BY <2>1, UseNothingLost
    <2> QED
        BY <2>2 DEF r
<1> QED
    BY <1>4, <1>5

LEMMA NextSkipped ==
    ASSUME SkippedInv, [Next]_vars
    PROVE  SkippedInv'
<1> DEFINE Ordered(r, messages) ==
              NewestFirst(r.skipped_message_keys) /\ NothingLostAbove(r, messages)
<1>1. LockstepInv' /\ LockstepInv /\ \A q \in Party : Ordered(ratchet[q], delivered[q])
    BY NextLockstep DEF SkippedInv
<1>2. ASSUME NEW p \in Party, Encrypt(p)
      PROVE  \A q \in Party : Ordered(ratchet'[q], delivered'[q])
    <2>1. /\ ratchet'[p].receiver_chains = ratchet[p].receiver_chains
          /\ ratchet'[p].skipped_message_keys = ratchet[p].skipped_message_keys
          /\ delivered' = delivered
          /\ \A q \in Party : q # p => ratchet'[q] = ratchet[q]
        BY <1>1, <1>2, EncryptFacts
    <2>2. Ordered(ratchet'[p], delivered'[p])
        <3>1. Ordered(ratchet[p], delivered[p])
            BY <1>1
        <3> QED
            BY <2>1, <3>1, SameListsNothingLost
    <2> HIDE DEF Ordered
    <2> QED
        BY <1>1, <2>1, <2>2
<1>3. ASSUME NEW p \in Party, NEW m \in Frames(p), NEW sequential \in Modes,
             Decrypt(p, m, sequential)
      PROVE  \A q \in Party : Ordered(ratchet'[q], delivered'[q])
    <2>1. Ordered(ratchet'[p], delivered[p] \cup {m})
        BY <1>3, NewChainSkipped, OnChainSkipped, SkippedSkipped DEF Decrypt
    <2>2. /\ delivered' = [delivered EXCEPT ![p] = @ \cup {m}]
          /\ \E a : ratchet' = [ratchet EXCEPT ![p] = a]
        BY <1>3 DEF Decrypt, DecryptOnNewChain, DecryptOnChain, DecryptSkipped, Deliver
    <2>3. ratchet \in [Party -> Ratchets] /\ delivered \in [Party -> SUBSET Messages]
        BY <1>1 DEF LockstepInv, IInv, TypeOK
    <2>4. /\ delivered'[p] = delivered[p] \cup {m}
          /\ \A q \in Party : q # p => ratchet'[q] = ratchet[q] /\ delivered'[q] = delivered[q]
        BY <2>2, <2>3
    <2> HIDE DEF Ordered
    <2> QED
        BY <1>1, <2>1, <2>4
<1>4. ASSUME UNCHANGED vars
      PROVE  \A q \in Party : Ordered(ratchet'[q], delivered'[q])
    <2>1. ratchet' = ratchet /\ delivered' = delivered
        BY <1>4 DEF vars
    <2> HIDE DEF Ordered
    <2> QED
        BY <1>1, <2>1
<1>5. \A q \in Party : Ordered(ratchet'[q], delivered'[q])
    BY <1>2, <1>3, <1>4 DEF Next, DecryptRejected
<1> QED
    BY <1>1, <1>5 DEF SkippedInv

LEMMA InitSkipped ==
    ASSUME Init
    PROVE  SkippedInv
<1>1. LockstepInv
    BY InitLockstep
<1>2. \A p \in Party : p = Alice \/ p = Bob
    BY DEF Party
<1>3. ratchet[Alice].skipped_message_keys = <<>> /\ ratchet[Bob].skipped_message_keys = <<>>
      /\ 1 .. Len(<<>>) = {}
    BY InitialState
<1>4. \A p \in Party : ratchet[p].skipped_message_keys = <<>>
    BY <1>2, <1>3
<1> QED
    BY <1>1, <1>3, <1>4 DEF SkippedInv, NewestFirst, NothingLostAbove

(* SkippedInv is an invariant of the two sessions.                         *)
THEOREM SkippedInvariance == Spec => []SkippedInv
<1>1. Init => SkippedInv
    BY InitSkipped
<1>2. SkippedInv /\ [Next]_vars => SkippedInv'
    BY NextSkipped
<1> QED
    BY <1>1, <1>2, PTL DEF Spec

(* A message that was passed over is accepted while its key is kept.       *)
LEMMA KeptIsAccepted ==
    ASSUME IInv, NEW p \in Party, NEW n \in SentTo(p), PassedOver(p, n),
           NEW k \in 1 .. Len(ratchet[p].skipped_message_keys),
           ratchet[p].skipped_message_keys[k].message_key.key = n.key
    PROVE  Accepts(ratchet[p], n, FALSE)
<1> DEFINE keys == ratchet[p].skipped_message_keys
<1>1. /\ SkippedSound(ratchet[p]) /\ n \in sent /\ n.counter = n.key.steps
    BY DEF IInv, SentSound, SentTo
<1>2. /\ keys[k].message_key.index = keys[k].message_key.key.steps
      /\ IsChain(sent, keys[k].ratchet_key, keys[k].message_key.key.root)
      /\ \A l \in 1 .. Len(keys) :
            keys[l].message_key.key = keys[k].message_key.key => l = k
    BY <1>1 DEF SkippedSound, InStep
<1>3. keys[k].ratchet_key = n.ratchet_key
    BY <1>1, <1>2, SentIsChain, SameRootSameKey
<1>4. IsSkippedKeyFor(ratchet[p], n, k)
    BY <1>1, <1>2, <1>3 DEF IsSkippedKeyFor
<1>5. \A l \in 1 .. k - 1 : ~IsSkippedKeyFor(ratchet[p], n, l)
    <2>1. \A l \in 1 .. k - 1 : l # k
        OBVIOUS
    <2> QED
        BY <1>2, <2>1 DEF IsSkippedKeyFor
<1>6. AcceptsSkipped(ratchet[p], n, k)
    BY <1>4, <1>5 DEF AcceptsSkipped, PassedOver
<1> QED
    BY <1>6 DEF Accepts

(* A message behind its chain's index is accepted with a skipped key only. *)
LEMMA PassedOverNeedsKey ==
    ASSUME IInv, NEW p \in Party, NEW m \in SentTo(p),
           NEW i \in 1 .. Len(ratchet[p].receiver_chains),
           IsChainFor(ratchet[p], m, i), m.counter < ChainIndex(ratchet[p], i),
           Accepts(ratchet[p], m, FALSE)
    PROVE  \E j \in 1 .. Len(ratchet[p].skipped_message_keys) :
              LET key == ratchet[p].skipped_message_keys[j].message_key IN
              key.index = m.counter /\ key.key = m.key
<1> DEFINE r == ratchet[p]
<1>1. /\ r.receiver_chains \in Seq(Chains) /\ m.counter \in Nat
    BY TypeOfParty, RatchetParts, MessageParts DEF IInv
<1>2. \A l \in 1 .. Len(r.receiver_chains) :
         l \in Nat /\ r.receiver_chains[l].chain_key.index \in Nat
    BY <1>1, ListOfChains, ChainParts
<1>3. ~AcceptsOnNewChain(r, m)
    BY DEF AcceptsOnNewChain, HasChainFor, IsChainFor
<1>4. ASSUME NEW l \in 1 .. Len(r.receiver_chains), AcceptsOnChain(r, m, l, FALSE)
      PROVE  FALSE
    <2>1. ~(l \in 1 .. i - 1) /\ ~(i \in 1 .. l - 1)
        BY <1>4 DEF AcceptsOnChain, IsChainFor
    <2>2. l = i
        BY <1>2, <2>1
    <2>3. r.receiver_chains[i].chain_key.index <= m.counter
        BY <1>4, <2>2 DEF AcceptsOnChain, Opens
    <2> HIDE DEF r
    <2> QED
        BY <1>1, <1>2, <2>3 DEF ChainIndex, r
<1> QED
    BY <1>3, <1>4 DEF Accepts, AcceptsSkipped, IsSkippedKeyFor

(* A full list gives up what is oldest, and nothing before it is full: the *)
(* receiver chains kept are the newest, and of the messages of a chain     *)
(* that were passed over the later ones stay readable the longest.         *)
THEOREM OldestLostFirst == Spec => []LosesOldestFirst
<1>1. ASSUME SkippedInv PROVE LosesOldestFirst
    <2>1. IInv /\ OneRootPerKey /\ KeepsNewestChains
        BY <1>1 DEF SkippedInv, LockstepInv
    <2>2. OldestKeyLostFirst
        <3> SUFFICES ASSUME NEW p \in Party, NEW m \in SentTo(p) \ delivered[p],
                            NEW n \in SentTo(p) \ delivered[p],
                            m.ratchet_key = n.ratchet_key, m.counter < n.counter,
                            PassedOver(p, n), Accepts(ratchet[p], m, FALSE)
                     PROVE  Accepts(ratchet[p], n, FALSE)
            BY DEF OldestKeyLostFirst
        <3> DEFINE r == ratchet[p]
                   keys == r.skipped_message_keys
        <3>1. PICK i \in 1 .. Len(r.receiver_chains) :
                 IsChainFor(r, n, i) /\ n.counter < ChainIndex(r, i)
            BY DEF PassedOver
        <3>2. /\ m \in sent /\ n \in sent
              /\ m.counter \in Nat /\ n.counter \in Nat
              /\ n.key = [root |-> n.key.root, steps |-> n.counter]
            BY <2>1, GenuineKey DEF SentTo
        <3>3. ChainIndex(r, i) \in Nat
            <4>1. r.receiver_chains \in Seq(Chains)
                BY <2>1, TypeOfParty, RatchetParts DEF IInv
            <4>2. r.receiver_chains[i] \in Chains
                BY <4>1, ListOfChains
            <4> QED
                BY <4>2, ChainParts DEF ChainIndex
        <3>4. IsChainFor(r, m, i)
            BY <3>1 DEF IsChainFor
        <3> HIDE DEF r
        <3>5. m.counter < ChainIndex(r, i)
            BY <3>1, <3>2, <3>3
        <3>6. PICK j \in 1 .. Len(keys) :
                 keys[j].message_key.index = m.counter /\ keys[j].message_key.key = m.key
            BY <2>1, <3>1, <3>4, <3>5, PassedOverNeedsKey DEF r
        <3>7. m.key.root = n.key.root
            BY <2>1, <3>2 DEF OneRootPerKey
        <3>8. r.receiver_chains[i].chain_key.key.root = n.key.root
            <4>1. IsChain(sent, r.receiver_chains[i].ratchet_key,
                          r.receiver_chains[i].chain_key.key.root)
                BY <2>1, <3>1 DEF IInv, ReceiverSound, r
            <4>2. r.receiver_chains[i].ratchet_key = n.ratchet_key
                BY <3>1 DEF IsChainFor
            <4> QED
                BY <2>1, <3>2, <4>1, <4>2, SentIsChain, SameKeySameRoot
        <3>9. n.counter \in keys[j].message_key.index + 1 .. ChainIndex(r, i) - 1
            BY <3>1, <3>2, <3>3, <3>6
        <3>10. KeptOrRead(r, delivered[p], n.key.root, n.counter)
            <4>1. NothingLostAbove(r, delivered[p])
                BY <1>1 DEF SkippedInv, r
            <4> QED
                BY <3>1, <3>6, <3>7, <3>8, <3>9, <4>1 DEF NothingLostAbove
        <3>11. \A d \in delivered[p] : d.key # n.key
            BY <2>1, <3>2 DEF IInv, MessageKeysUnique, SentTo
        <3>12. PICK k \in 1 .. Len(keys) : keys[k].message_key.key = n.key
            BY <3>2, <3>10, <3>11 DEF KeptOrRead
        <3> QED
            BY <2>1, <3>12, KeptIsAccepted DEF r
    <2> QED
        BY <2>1, <2>2 DEF LosesOldestFirst
<1> QED
    BY <1>1, SkippedInvariance, PTL

-----------------------------------------------------------------------------
(* Nothing is lost where there is room for what is sent.  Messages are     *)
(* numbered, and a key that is kept or passed over is the key of one of    *)
(* them, so that there are fewer keys than messages.                       *)
(* As many keys as messages that carry them; and one more message.         *)
SentBeside(keys, n, m) ==
    /\ \A j \in 1 .. n :
          keys[j] # m.key /\ \E s \in sent : s.from = m.from /\ s.key = keys[j]
    /\ \A j, k \in 1 .. n : keys[j] = keys[k] => j = k

LEMMA FewKeys ==
    ASSUME TypeOK, Numbered, NEW m \in sent,
           NEW n \in Nat, NEW keys, SentBeside(keys, n, m)
    PROVE  n <= MaxSends - 1
<1> USE DEF SentBeside
<1> DEFINE q == m.from
           Carrier(j) == CHOOSE s \in sent : s.from = q /\ s.key = keys[j]
           bodies == (0 .. MaxSends - 1) \ {m.body}
           body == [j \in 1 .. n |-> Carrier(j).body]
<1>1. /\ \A s \in sent : s.body \in Nat /\ s.from \in Party
      /\ encrypted[q] \in Nat /\ encrypted[q] <= MaxSends
      /\ MaxSends \in Nat
      /\ \A s \in sent : s.body < encrypted[s.from]
      /\ \A s, t \in sent : s.from = t.from /\ s.body = t.body => s = t
    BY TypeOfParty, MessageParts, SessionAssumption DEF TypeOK, Numbered
<1>2. \A s \in sent : s.from = q => s.body \in 0 .. MaxSends - 1
    BY <1>1
<1>3. \A j \in 1 .. n : Carrier(j) \in sent /\ Carrier(j).from = q /\ Carrier(j).key = keys[j]
    OBVIOUS
<1> HIDE DEF Carrier
<1>4. \A j \in 1 .. n : Carrier(j).body \in bodies
    BY <1>1, <1>2, <1>3
<1>5. \A j, k \in 1 .. n : Carrier(j).body = Carrier(k).body => j = k
    BY <1>1, <1>3
<1>6. IsFiniteSet(bodies) /\ Cardinality(bodies) = MaxSends - 1
    <2>1. m.body \in 0 .. MaxSends - 1
        BY <1>2
    <2>2. MaxSends \in Int /\ 0 \in Int /\ MaxSends - 1 \in Int
        BY <1>1
    <2>3. /\ IsFiniteSet(0 .. MaxSends - 1)
          /\ Cardinality(0 .. MaxSends - 1) = IF 0 > MaxSends - 1 THEN 0 ELSE MaxSends - 1 - 0 + 1
        BY <2>2, FS_Interval
    <2>4. Cardinality(0 .. MaxSends - 1) = MaxSends
        <3>1. ~(0 > MaxSends - 1)
            BY <1>1, <2>1
        <3>2. (MaxSends - 1 - 0) + 1 = MaxSends
            BY <1>1
        <3> QED
            BY <1>1, <2>3, <3>1, <3>2
    <2> DEFINE all == 0 .. MaxSends - 1
    <2>5. IsFiniteSet(all) /\ Cardinality(all) = MaxSends /\ m.body \in all
        BY <2>1, <2>3, <2>4
    <2> HIDE DEF all
    <2>6. IsFiniteSet(all \ {m.body}) /\ Cardinality(all \ {m.body}) = MaxSends - 1
        BY <2>5, FS_RemoveElement
    <2> QED
        BY <2>6 DEF all
<1>7. body \in Injection(1 .. n, bodies)
    <2> HIDE DEF bodies
    <2>1. body \in [1 .. n -> bodies]
        BY <1>4
    <2>2. \A j, k \in 1 .. n : body[j] = body[k] => j = k
        BY <1>5
    <2> QED
        BY <2>1, <2>2 DEF Injection, IsInjective
<1>8. Cardinality(1 .. n) <= Cardinality(bodies)
    <2> HIDE DEF bodies, body
    <2> QED
        BY <1>6, <1>7, FS_Injection
<1>9. Cardinality(1 .. n) = n
    <2>1. Cardinality(1 .. n) = IF 1 > n THEN 0 ELSE n - 1 + 1
        BY FS_Interval
    <2> QED
        BY <2>1
<1> QED
    BY <1>6, <1>8, <1>9

(* Keys that a chain passes, and those it passed, are of messages that     *)
(* were sent, and none is that of the message that is decrypted.           *)
LEMMA FewSkipped ==
    ASSUME TypeOK, Numbered, NEW p \in Party, NEW r \in Ratchets,
           NEW i \in 1 .. Len(r.receiver_chains), NEW m \in SentTo(p),
           r.receiver_chains[i].chain_key.index <= m.counter,
           m.key = [root |-> r.receiver_chains[i].chain_key.key.root, steps |-> m.counter],
           SkippedSound(r), SkippedSent(p, r)
    PROVE  (m.counter - r.receiver_chains[i].chain_key.index) + Len(r.skipped_message_keys)
              <= MaxSends - 1
<1> DEFINE start == r.receiver_chains[i].chain_key.index
           root == r.receiver_chains[i].chain_key.key.root
           old == r.skipped_message_keys
           n == m.counter - start
           Key(j) == old[j].message_key.key
           keys == [j \in 1 .. n + Len(old) |->
                       IF j <= n THEN [root |-> root, steps |-> m.counter - j] ELSE Key(j - n)]
<1>1. /\ m \in sent /\ m.from = Peer(p) /\ Peer(p) \in Party
      /\ m.counter \in Nat
      /\ \A c \in 0 .. m.counter - 1 : WasSent(m.from, root, c)
    <2>1. m \in sent /\ m.from = Peer(p) /\ m.key.root = root
        BY DEF SentTo
    <2>2. m \in Messages
        BY <2>1 DEF TypeOK
    <2>3. m.counter \in Nat /\ Peer(p) \in Party
        BY <2>2, MessageParts, PeerFacts
    <2>4. \A c \in 0 .. m.counter - 1 : WasSent(m.from, m.key.root, c)
        BY <2>1 DEF Numbered
    <2> QED
        BY <2>1, <2>3, <2>4
<1>2. start \in Nat /\ start <= m.counter /\ n \in Nat /\ m.counter = start + n
      /\ Len(old) \in Nat
    <2>1. /\ r.receiver_chains[i] \in Chains /\ Len(old) \in Nat
        BY RatchetParts, ListOfChains, ListOfSkippedKeys
    <2>2. start \in Nat
        BY <2>1, ChainParts
    <2> QED
        BY <1>1, <2>1, <2>2
<1>3. \A j \in 1 .. Len(old) :
         /\ \E s \in sent : s.from = m.from /\ s.key = Key(j)
         /\ Key(j).root = root => Key(j).steps < start
    <2> TAKE j \in 1 .. Len(old)
    <2>1. WasSent(Peer(p), Key(j).root, Key(j).steps)
        BY DEF SkippedSent
    <2>2. Key(j) = [root |-> Key(j).root, steps |-> Key(j).steps]
        <3>1. InStep(old[j].message_key)
            BY DEF SkippedSound
        <3>2. old[j].message_key.index = Key(j).steps
            BY <3>1 DEF InStep
        <3> QED
            BY <3>1, <3>2, SkippedKeyParts
    <2>3. Key(j).root = root => Key(j).steps < start
        BY DEF SkippedSound, InStep, ChainIndex
    <2> HIDE DEF Key
    <2> QED
        BY <1>1, <2>1, <2>2, <2>3 DEF WasSent
<1>4. \A j, k \in 1 .. Len(old) : Key(j) = Key(k) => j = k
    BY DEF SkippedSound
<1> HIDE DEF start, root, old, Key, n
<1>5. \A j \in 1 .. n :
         /\ m.counter - j \in 0 .. m.counter - 1
         /\ m.counter - j >= start
         /\ \E s \in sent : s.from = m.from /\ s.key = [root |-> root, steps |-> m.counter - j]
    <2> TAKE j \in 1 .. n
    <2>1. m.counter - j \in 0 .. m.counter - 1 /\ m.counter - j >= start
        BY <1>1, <1>2
    <2> QED
        BY <1>1, <2>1 DEF WasSent
<1>6. /\ \A j \in 1 .. n : keys[j] = [root |-> root, steps |-> m.counter - j]
      /\ \A j \in 1 .. n + Len(old) : j \in 1 .. n \/ j - n \in 1 .. Len(old)
      /\ \A j \in 1 .. n + Len(old) : j - n \in 1 .. Len(old) => keys[j] = Key(j - n)
    <2>1. \A j \in 1 .. n + Len(old) : \/ j \in 1 .. n /\ j <= n
                                       \/ ~(j <= n) /\ j - n \in 1 .. Len(old)
        BY <1>2
    <2>2. \A j \in 1 .. n : j \in 1 .. n + Len(old) /\ j <= n /\ ~(j - n \in 1 .. Len(old))
        BY <1>2
    <2> QED
        BY <2>1, <2>2
<1> HIDE DEF keys
<1>7. \A j \in 1 .. n + Len(old) :
         keys[j] # m.key /\ \E s \in sent : s.from = m.from /\ s.key = keys[j]
    <2> TAKE j \in 1 .. n + Len(old)
    <2>1. CASE j \in 1 .. n
        <3>1. keys[j] = [root |-> root, steps |-> m.counter - j]
            BY <1>6, <2>1
        <3>2. m.counter - j # m.counter
            BY <1>1, <1>2, <2>1
        <3>3. m.key.steps = m.counter
            OBVIOUS
        <3> QED
            BY <1>5, <2>1, <3>1, <3>2, <3>3
    <2>2. CASE j - n \in 1 .. Len(old)
        <3> DEFINE k == j - n
        <3>1. k \in 1 .. Len(old) /\ keys[j] = Key(k)
            BY <1>6, <2>2
        <3> HIDE DEF k
        <3>2. m.key.root = root /\ m.key.steps = m.counter
            BY DEF root
        <3>3. Key(k) = m.key => m.counter < start
            BY <1>3, <3>1, <3>2
        <3> QED
            BY <1>1, <1>2, <1>3, <3>1, <3>3
    <2> QED
        BY <1>6, <2>1, <2>2
<1>8. \A j, k \in 1 .. n + Len(old) : keys[j] = keys[k] => j = k
    <2> SUFFICES ASSUME NEW j \in 1 .. n + Len(old), NEW k \in 1 .. n + Len(old),
                        keys[j] = keys[k]
                 PROVE  j = k
        OBVIOUS
    <2>1. ASSUME NEW a \in 1 .. n, NEW b \in 1 .. Len(old),
                 [root |-> root, steps |-> m.counter - a] = Key(b)
          PROVE  FALSE
        <3>1. Key(b).root = root /\ Key(b).steps = m.counter - a
            BY <2>1
        <3> QED
            BY <1>2, <1>3, <1>5, <3>1
    <2>2. CASE j \in 1 .. n /\ k \in 1 .. n
        <3> DEFINE Passed(c) == [root |-> root, steps |-> c]
        <3>1. keys[j] = Passed(m.counter - j) /\ keys[k] = Passed(m.counter - k)
            BY <1>6, <2>2
        <3>2. \A c, d : Passed(c) = Passed(d) => c = d
            <4> TAKE c, d
            <4>1. Passed(c).steps = c /\ Passed(d).steps = d
                OBVIOUS
            <4> HIDE DEF Passed
            <4> QED
                BY <4>1
        <3> HIDE DEF Passed
        <3>3. m.counter - j = m.counter - k
            BY <3>1, <3>2
        <3> QED
            BY <1>1, <1>2, <2>2, <3>3
    <2>3. CASE j \in 1 .. n /\ k - n \in 1 .. Len(old)
        BY <1>6, <2>1, <2>3
    <2>4. CASE k \in 1 .. n /\ j - n \in 1 .. Len(old)
        BY <1>6, <2>1, <2>4
    <2>5. CASE j - n \in 1 .. Len(old) /\ k - n \in 1 .. Len(old)
        <3>1. j - n = k - n
            BY <1>4, <1>6, <2>5
        <3> QED
            BY <1>2, <3>1
    <2> QED
        BY <1>6, <2>2, <2>3, <2>4, <2>5
<1> DEFINE total == n + Len(old)
<1>9. total \in Nat /\ SentBeside(keys, total, m)
    BY <1>2, <1>7, <1>8 DEF SentBeside
<1> HIDE DEF total
<1>10. total <= MaxSends - 1
    BY <1>1, <1>9, FewKeys
<1> QED
    BY <1>10 DEF total, n, start, old
(* What is passed over is kept when there is room for it.                  *)
LEMMA AdvanceKeepsAll ==
    ASSUME NEW r \in Ratchets, NEW i \in 1 .. Len(r.receiver_chains), NEW counter \in Nat,
           r.receiver_chains[i].chain_key.index <= counter,
           (counter - r.receiver_chains[i].chain_key.index) + Len(r.skipped_message_keys)
              <= MAX_SKIPPED_MESSAGE_KEYS
    PROVE  Len(AdvanceReceiverChain(r, i, counter).skipped_message_keys) =
              (counter - r.receiver_chains[i].chain_key.index) + Len(r.skipped_message_keys)
<1> DEFINE chain == r.receiver_chains[i]
           n == counter - chain.chain_key.index
           news == SkippedUpTo(chain, counter)
           old == r.skipped_message_keys
           skipped == ListInsertAll(news, old, MAX_SKIPPED_MESSAGE_KEYS)
<1>1. /\ chain \in Chains /\ old \in Seq(SkippedKeys) /\ Len(old) \in Nat
      /\ MAX_SKIPPED_MESSAGE_KEYS \in Nat
    BY RatchetParts, ListOfChains, ListOfSkippedKeys, RatchetLimits
<1>2. news \in Seq(SkippedKeys) /\ Len(news) = n /\ n \in Nat
    <2>1. chain.chain_key.index \in Nat
        BY <1>1, ChainParts
    <2>2. n \in Nat
        BY <2>1
    <2> HIDE DEF chain
    <2> QED
        BY <1>1, <2>2, SkippedUpToItems DEF chain
<1>3. AdvanceReceiverChain(r, i, counter).skipped_message_keys = skipped
    BY DEF AdvanceReceiverChain, Ratchets
<1>4. n + Len(old) <= MAX_SKIPPED_MESSAGE_KEYS
    OBVIOUS
<1> HIDE DEF news, old, n
<1>5. Len(skipped) = n + Len(old)
    BY <1>1, <1>2, <1>4, ListInsertAllLength
<1> QED
    BY <1>3, <1>5 DEF n, old

LEMMA AdvanceRoomy ==
    ASSUME NEW p, NEW r \in Ratchets, NEW i \in 1 .. Len(r.receiver_chains),
           NEW m, m.counter \in Nat,
           m.key = [root |-> r.receiver_chains[i].chain_key.key.root, steps |-> m.counter],
           NEW a, AdvancedFrom(r, i, m.counter, a),
           Len(a.skipped_message_keys) =
              (m.counter - r.receiver_chains[i].chain_key.index) + Len(r.skipped_message_keys),
           ReceiverSound(p, r),
           NEW messages, NonePassedLost(r, messages),
           SkippedSent(p, r),
           \A c \in 0 .. m.counter - 1 : WasSent(Peer(p), m.key.root, c)
    PROVE  NonePassedLost(a, messages \cup {m}) /\ SkippedSent(p, a)
<1> DEFINE chain == r.receiver_chains[i]
           start == chain.chain_key.index
           n == m.counter - start
           root == chain.chain_key.key.root
           old == r.skipped_message_keys
           new == a.skipped_message_keys
<1>1. /\ a \in Ratchets
      /\ Len(a.receiver_chains) = Len(r.receiver_chains)
      /\ a.receiver_chains[i].chain_key.key.root = root
      /\ ChainIndex(a, i) = m.counter + 1
      /\ \A k \in 1 .. Len(r.receiver_chains) : k # i =>
            a.receiver_chains[k] = r.receiver_chains[k]
      /\ n \in Nat
    BY DEF AdvancedFrom, ChainIndex
<1>2. /\ start \in Nat /\ m.counter = start + n
      /\ Len(new) \in Nat /\ Len(old) \in Nat /\ Len(new) = n + Len(old)
      /\ InStep(chain.chain_key)
    <2>1. chain \in Chains /\ old \in Seq(SkippedKeys) /\ new \in Seq(SkippedKeys)
        BY <1>1, RatchetParts, ListOfChains
    <2>2. start \in Nat
        <3> HIDE DEF chain
        <3> QED
            BY <2>1, ChainParts
    <2>3. m.counter = start + n
        BY <2>2
    <2>4. InStep(chain.chain_key)
        BY DEF ReceiverSound
    <2> QED
        BY <2>1, <2>2, <2>3, <2>4, ListOfSkippedKeys
<1>3. \A j \in 1 .. Len(new) :
         \/ /\ j <= n
            /\ new[j].message_key.index = m.counter - j
            /\ new[j].message_key.key.root = root
            /\ InStep(new[j].message_key)
         \/ /\ j > n /\ j - n \in 1 .. Len(old) /\ new[j] = old[j - n]
    BY <1>2 DEF AdvancedFrom
<1>4. ChainIndex(r, i) = start
    BY DEF ChainIndex
<1> HIDE DEF n, start, root, old, new
<1>5. \A j \in 1 .. n :
         /\ j \in 1 .. Len(new)
         /\ m.counter - j \in 0 .. m.counter - 1
         /\ new[j].message_key.key = [root |-> root, steps |-> m.counter - j]
    <2> TAKE j \in 1 .. n
    <2>1. j \in 1 .. Len(new) /\ m.counter - j \in 0 .. m.counter - 1 /\ ~(j > n)
        BY <1>1, <1>2
    <2>2. /\ new[j].message_key.index = m.counter - j
          /\ new[j].message_key.key.root = root
          /\ InStep(new[j].message_key)
        BY <1>3, <2>1
    <2>3. new[j].message_key.key =
             [root |-> new[j].message_key.key.root, steps |-> new[j].message_key.index]
        BY <1>1, <2>1, <2>2, SkippedKeyParts DEF new
    <2> QED
        BY <2>1, <2>2, <2>3
<1>6. \A x \in 1 .. Len(old) : x + n \in 1 .. Len(new) /\ new[x + n] = old[x]
    <2> TAKE x \in 1 .. Len(old)
    <2> DEFINE z == x + n
    <2>1. z \in 1 .. Len(new) /\ ~(z <= n) /\ z - n = x
        BY <1>1, <1>2
    <2> HIDE DEF z
    <2>2. new[z] = old[x]
        BY <1>3, <2>1
    <2> QED
        BY <2>1, <2>2 DEF z
<1>7. \A j \in 1 .. Len(new) :
         j \in 1 .. n \/ \E x \in 1 .. Len(old) : new[j] = old[x]
    <2> TAKE j \in 1 .. Len(new)
    <2>1. j \in 1 .. n \/ ~(j <= n)
        BY <1>1, <1>2
    <2> QED
        BY <1>3, <2>1
<1>8. SkippedSent(p, a)
    <2> SUFFICES ASSUME NEW j \in 1 .. Len(new)
                 PROVE  WasSent(Peer(p), new[j].message_key.key.root, new[j].message_key.key.steps)
        BY DEF SkippedSent, new
    <2>1. CASE j \in 1 .. n
        <3> DEFINE c == m.counter - j
        <3>1. c \in 0 .. m.counter - 1 /\ new[j].message_key.key = [root |-> root, steps |-> c]
            BY <1>5, <2>1
        <3> HIDE DEF c
        <3>2. m.key.root = root
            BY DEF root
        <3>3. new[j].message_key.key.root = root /\ new[j].message_key.key.steps = c
            BY <3>1
        <3> QED
            BY <3>1, <3>2, <3>3
    <2>2. CASE \E x \in 1 .. Len(old) : new[j] = old[x]
        BY <2>2 DEF SkippedSent, old
    <2> QED
        BY <1>7, <2>1, <2>2
<1>9. \A k, c : KeptOrRead(r, messages, k, c) => KeptOrRead(a, messages \cup {m}, k, c)
    BY <1>6 DEF KeptOrRead, new, old
<1>10. ASSUME NEW k \in 1 .. Len(a.receiver_chains), NEW c \in 0 .. ChainIndex(a, k) - 1
       PROVE  KeptOrRead(a, messages \cup {m}, a.receiver_chains[k].chain_key.key.root, c)
    <2>1. CASE k # i
        <3>1. k \in 1 .. Len(r.receiver_chains) /\ a.receiver_chains[k] = r.receiver_chains[k]
            BY <1>1, <2>1
        <3>2. ChainIndex(a, k) = ChainIndex(r, k)
            BY <3>1 DEF ChainIndex
        <3> QED
            BY <1>9, <1>10, <3>1, <3>2 DEF NonePassedLost
    <2>2. CASE k = i /\ c < start
        <3>1. c \in 0 .. ChainIndex(r, i) - 1
            BY <1>1, <1>2, <1>4, <1>10, <2>2
        <3>2. KeptOrRead(r, messages, root, c)
            BY <3>1 DEF NonePassedLost, root
        <3> QED
            BY <1>1, <1>9, <2>2, <3>2
    <2>3. CASE k = i /\ ~(c < start)
        <3>1. c = m.counter \/ m.counter - c \in 1 .. n
            BY <1>1, <1>2, <1>10, <2>3
        <3>2. CASE c = m.counter
            <4>1. m.key = [root |-> root, steps |-> c]
                BY <3>2 DEF root
            <4> QED
                BY <1>1, <2>3, <4>1 DEF KeptOrRead
        <3>3. CASE m.counter - c \in 1 .. n
            <4> DEFINE x == m.counter - c
            <4>1. x \in 1 .. n /\ m.counter - x = c
                BY <1>2, <1>10, <3>3
            <4> HIDE DEF x
            <4>2. x \in 1 .. Len(new) /\ new[x].message_key.key = [root |-> root, steps |-> c]
                BY <1>5, <4>1
            <4> QED
                BY <1>1, <2>3, <4>2 DEF KeptOrRead, new
        <3> QED
            BY <3>1, <3>2, <3>3
    <2> QED
        BY <2>1, <2>2, <2>3
<1> QED
    BY <1>8, <1>10 DEF NonePassedLost

LEMMA AddRoomy ==
    ASSUME LockstepInv, NEW p \in Party, NEW m \in SentTo(p),
           m.key.root = NewRootFor(ratchet[p], m), ratchet[p].sender_chain # <<>>,
           NEW messages, NonePassedLost(ratchet[p], messages), SkippedSent(p, ratchet[p])
    PROVE  /\ NonePassedLost(AddReceiverChain(ratchet[p], m), messages)
           /\ SkippedSent(p, AddReceiverChain(ratchet[p], m))
<1> DEFINE r == ratchet[p]
           b == AddReceiverChain(r, m)
<1>1. /\ r \in Ratchets /\ Len(r.receiver_chains) <= MAX_RECEIVER_CHAINS
      /\ m.ratchet_key \in RatchetKeys /\ m.key.root \in RootKeys
    BY TypeOfParty, MessageParts DEF LockstepInv, IInv
<1>2. /\ b \in Ratchets /\ b.skipped_message_keys = r.skipped_message_keys
      /\ NewChainFor(r, m).chain_key = FirstChainKey(m.key.root)
      /\ Len(b.receiver_chains) <= Len(r.receiver_chains) + 1
      /\ b.receiver_chains[1] = NewChainFor(r, m)
      /\ \A i \in 2 .. Len(b.receiver_chains) :
            b.receiver_chains[i] = r.receiver_chains[i - 1]
    BY <1>1, AddReceiverChainFacts
<1>3. /\ ChainIndex(b, 1) = 0
      /\ Len(r.receiver_chains) \in Nat /\ Len(b.receiver_chains) \in Nat
    BY <1>1, <1>2, FirstChainKeyFacts, RatchetParts, ListOfChains DEF ChainIndex
<1>4. \A k, c : KeptOrRead(r, messages, k, c) => KeptOrRead(b, messages, k, c)
    BY <1>2 DEF KeptOrRead
<1>5. SkippedSent(p, b)
    BY <1>2 DEF SkippedSent
<1> HIDE DEF b
<1>6. ASSUME NEW i \in 1 .. Len(b.receiver_chains), NEW c \in 0 .. ChainIndex(b, i) - 1
      PROVE  KeptOrRead(b, messages, b.receiver_chains[i].chain_key.key.root, c)
    <2> DEFINE k == i - 1
    <2>1. i # 1
        BY <1>3, <1>6
    <2>2. i \in 2 .. Len(b.receiver_chains) /\ k \in 1 .. Len(r.receiver_chains)
        BY <1>2, <1>3, <2>1
    <2>3. b.receiver_chains[i] = r.receiver_chains[k]
        BY <1>2, <2>2
    <2> HIDE DEF k, r
    <2>4. ChainIndex(b, i) = ChainIndex(r, k)
        BY <2>3 DEF ChainIndex
    <2> QED
        BY <1>4, <1>6, <2>2, <2>3, <2>4 DEF NonePassedLost, r
<1> QED
    BY <1>5, <1>6 DEF NonePassedLost, b

LEMMA UseRoomy ==
    ASSUME NEW p, NEW r \in Ratchets, NEW j \in 1 .. Len(r.skipped_message_keys),
           NEW m, m.key = r.skipped_message_keys[j].message_key.key,
           NEW messages, NonePassedLost(r, messages), SkippedSent(p, r)
    PROVE  /\ NonePassedLost(UseSkipped(r, j), messages \cup {m})
           /\ SkippedSent(p, UseSkipped(r, j))
<1> DEFINE a == UseSkipped(r, j)
           old == r.skipped_message_keys
           keys == a.skipped_message_keys
           From(k) == IF k < j THEN k ELSE k + 1
           To(x) == IF x < j THEN x ELSE x - 1
<1>1. /\ a.receiver_chains = r.receiver_chains
      /\ Len(keys) = Len(old) - 1
      /\ \A k \in 1 .. Len(keys) : keys[k] = IF k < j THEN old[k] ELSE old[k + 1]
      /\ Len(old) \in Nat
    BY UseSkippedFacts, RatchetParts, ListOfSkippedKeys
<1> HIDE DEF a, keys, old
<1>2. \A k \in 1 .. Len(keys) : From(k) \in 1 .. Len(old) /\ keys[k] = old[From(k)]
    BY <1>1 DEF old
<1>3. \A x \in 1 .. Len(old) : x # j => To(x) \in 1 .. Len(keys) /\ keys[To(x)] = old[x]
    BY <1>1 DEF old
<1> HIDE DEF From, To
<1>4. SkippedSent(p, a)
    BY <1>2 DEF SkippedSent, old, keys
<1>5. m.key = old[j].message_key.key
    BY DEF old
<1>6. ASSUME NEW k, NEW c, KeptOrRead(r, messages, k, c)
      PROVE  KeptOrRead(a, messages \cup {m}, k, c)
    <2>1. CASE \E d \in messages : d.key = [root |-> k, steps |-> c]
        BY <2>1 DEF KeptOrRead
    <2>2. CASE \E x \in 1 .. Len(old) : old[x].message_key.key = [root |-> k, steps |-> c]
        <3>1. PICK x \in 1 .. Len(old) : old[x].message_key.key = [root |-> k, steps |-> c]
            BY <2>2
        <3>2. CASE x = j
            BY <1>5, <3>1, <3>2 DEF KeptOrRead
        <3>3. CASE x # j
            BY <1>3, <3>1, <3>3 DEF KeptOrRead, keys
        <3> QED
            BY <3>2, <3>3
    <2> QED
        BY <1>6, <2>1, <2>2 DEF KeptOrRead, old
<1>7. \A i : ChainIndex(a, i) = ChainIndex(r, i)
    BY <1>1 DEF ChainIndex
<1> QED
    BY <1>1, <1>4, <1>6, <1>7 DEF NonePassedLost, a

(* Whichever way a message is decrypted, nothing that its chain passes is  *)
(* lost while there is room.                                               *)
Kept(p, a, messages) ==
    /\ a.sender_chain \in {<<>>, ratchet[p].sender_chain}
    /\ NonePassedLost(a, messages)
    /\ SkippedSent(p, a)

LEMMA NewChainRoomy ==
    ASSUME Room, RoomInv, NEW p \in Party, NEW m \in Frames(p), DecryptOnNewChain(p, m)
    PROVE  m \in SentTo(p) /\ Kept(p, ratchet'[p], delivered[p] \cup {m})
<1> DEFINE r == ratchet[p]
           b == AddReceiverChain(r, m)
           a == AdvanceReceiverChain(b, 1, m.counter)
<1>1. /\ AcceptsOnNewChain(r, m)
      /\ ratchet' = [ratchet EXCEPT ![p] = a]
      /\ LockstepInv /\ IInv /\ TypeOK /\ Numbered
      /\ NonePassedLost(r, delivered[p]) /\ SkippedSent(p, r)
    BY DEF DecryptOnNewChain, RoomInv, SkippedInv, LockstepInv, IInv
<1>2. /\ m \in SentTo(p) /\ m.key.root = NewRootFor(r, m) /\ r.sender_chain # <<>>
    BY <1>1, AcceptedOnNewChain
<1>3. m.counter \in Nat /\ m.key = [root |-> m.key.root, steps |-> m.counter]
    BY <1>1, <1>2, GenuineKey
<1>4. /\ b \in Ratchets /\ b.sender_chain = <<>>
      /\ Len(b.receiver_chains) \in 1 .. MAX_RECEIVER_CHAINS
      /\ b.receiver_chains[1].chain_key.index = 0
      /\ b.receiver_chains[1].chain_key.key.root = m.key.root
      /\ ReceiverSound(p, b) /\ SkippedSound(b)
    BY <1>1, <1>2, AddSound
<1>5. NonePassedLost(b, delivered[p]) /\ SkippedSent(p, b)
    BY <1>1, <1>2, AddRoomy
<1>6. ratchet'[p] = a
    BY <1>1 DEF TypeOK
<1> HIDE DEF b, r
<1>7. 1 \in 1 .. Len(b.receiver_chains) /\ b.receiver_chains[1].chain_key.index <= m.counter
    BY <1>3, <1>4, RatchetLimits
<1>8. \A c \in 0 .. m.counter - 1 : WasSent(Peer(p), m.key.root, c)
    BY <1>1, <1>2, TypeOfParty DEF Numbered
<1> DEFINE one == 1
<1>9. /\ one \in 1 .. Len(b.receiver_chains)
      /\ b.receiver_chains[one].chain_key.index <= m.counter
      /\ m.key = [root |-> b.receiver_chains[one].chain_key.key.root, steps |-> m.counter]
      /\ a = AdvanceReceiverChain(b, one, m.counter)
    BY <1>3, <1>4, <1>7
<1> HIDE DEF one, a
<1> DEFINE n == m.counter - b.receiver_chains[one].chain_key.index
<1>10. n + Len(b.skipped_message_keys) <= MaxSends - 1
    BY <1>1, <1>2, <1>4, <1>5, <1>9, FewSkipped
<1>11. n + Len(b.skipped_message_keys) <= MAX_SKIPPED_MESSAGE_KEYS
    <2>1. n \in Nat /\ Len(b.skipped_message_keys) \in Nat
        <3>1. n = m.counter
            BY <1>3, <1>4 DEF one
        <3> QED
            BY <1>3, <1>4, <3>1, RatchetParts, ListOfSkippedKeys
    <2> HIDE DEF n
    <2> QED
        BY <1>10, <2>1 DEF Room
<1>12. Len(a.skipped_message_keys) = n + Len(b.skipped_message_keys)
    BY <1>3, <1>4, <1>9, <1>11, AdvanceKeepsAll
<1>13. AdvancedFrom(b, one, m.counter, a)
    BY <1>3, <1>4, <1>9, AdvanceReceiverChainFacts
<1>14. NonePassedLost(a, delivered[p] \cup {m}) /\ SkippedSent(p, a)
    <2>1. /\ b \in Ratchets /\ one \in 1 .. Len(b.receiver_chains) /\ m.counter \in Nat
          /\ m.key = [root |-> b.receiver_chains[one].chain_key.key.root, steps |-> m.counter]
          /\ AdvancedFrom(b, one, m.counter, a)
          /\ Len(a.skipped_message_keys) = n + Len(b.skipped_message_keys)
          /\ ReceiverSound(p, b)
          /\ NonePassedLost(b, delivered[p]) /\ SkippedSent(p, b)
          /\ \A c \in 0 .. m.counter - 1 : WasSent(Peer(p), m.key.root, c)
        BY <1>3, <1>4, <1>5, <1>8, <1>9, <1>12, <1>13
    <2> QED
        BY <2>1, AdvanceRoomy
<1>15. a.sender_chain = <<>>
    BY <1>4, <1>13 DEF AdvancedFrom
<1> QED
    BY <1>2, <1>6, <1>14, <1>15 DEF Kept

LEMMA OnChainRoomy ==
    ASSUME Room, RoomInv, NEW p \in Party, NEW m \in Frames(p), NEW sequential,
           DecryptOnChain(p, m, sequential)
    PROVE  m \in SentTo(p) /\ Kept(p, ratchet'[p], delivered[p] \cup {m})
<1> DEFINE r == ratchet[p]
<1>1. PICK i \in 1 .. Len(r.receiver_chains) :
         /\ AcceptsOnChain(r, m, i, sequential)
         /\ ratchet' = [ratchet EXCEPT ![p] = AdvanceReceiverChain(@, i, m.counter)]
    BY DEF DecryptOnChain
<1> DEFINE a == AdvanceReceiverChain(r, i, m.counter)
           n == m.counter - r.receiver_chains[i].chain_key.index
<1>2. /\ IInv /\ TypeOK /\ Numbered /\ r \in Ratchets /\ ratchet \in [Party -> Ratchets]
      /\ ReceiverSound(p, r) /\ SkippedSound(r)
      /\ NonePassedLost(r, delivered[p]) /\ SkippedSent(p, r)
    BY TypeOfParty DEF RoomInv, SkippedInv, LockstepInv, IInv, TypeOK
<1>3. /\ m \in SentTo(p)
      /\ r.receiver_chains[i].chain_key.index <= m.counter
      /\ m.key.root = r.receiver_chains[i].chain_key.key.root
      /\ r.receiver_chains[i] \in Chains
    BY <1>1, <1>2, AcceptedOnChain
<1>4. /\ m.counter \in Nat
      /\ m.key = [root |-> r.receiver_chains[i].chain_key.key.root, steps |-> m.counter]
    BY <1>2, <1>3, GenuineKey
<1>5. ratchet'[p] = a
    BY <1>1, <1>2
<1>6. \A c \in 0 .. m.counter - 1 : WasSent(Peer(p), m.key.root, c)
    <2>1. m \in sent /\ m.from = Peer(p)
        BY <1>3 DEF SentTo
    <2>2. \A c \in 0 .. m.counter - 1 : WasSent(m.from, m.key.root, c)
        BY <1>2, <2>1 DEF Numbered
    <2> QED
        BY <2>1, <2>2
<1> HIDE DEF r, a
<1>7. n + Len(r.skipped_message_keys) <= MaxSends - 1
    BY <1>2, <1>3, <1>4, FewSkipped
<1>8. n + Len(r.skipped_message_keys) <= MAX_SKIPPED_MESSAGE_KEYS
    <2>1. n \in Nat /\ Len(r.skipped_message_keys) \in Nat
        <3>1. r.receiver_chains[i].chain_key.index \in Nat
            BY <1>3, ChainParts
        <3> QED
            BY <1>2, <1>3, <1>4, <3>1, RatchetParts, ListOfSkippedKeys
    <2> HIDE DEF n
    <2> QED
        BY <1>7, <2>1 DEF Room
<1>9. Len(a.skipped_message_keys) = n + Len(r.skipped_message_keys)
    BY <1>2, <1>3, <1>4, <1>8, AdvanceKeepsAll DEF a
<1>10. AdvancedFrom(r, i, m.counter, a)
    BY <1>2, <1>3, <1>4, AdvanceReceiverChainFacts DEF a
<1>11. NonePassedLost(a, delivered[p] \cup {m}) /\ SkippedSent(p, a)
    BY <1>2, <1>4, <1>6, <1>9, <1>10, AdvanceRoomy
<1>12. a.sender_chain = r.sender_chain
    BY <1>10 DEF AdvancedFrom
<1> QED
    BY <1>3, <1>5, <1>11, <1>12 DEF Kept, r

LEMMA SkippedRoomy ==
    ASSUME RoomInv, NEW p \in Party, NEW m \in Frames(p), DecryptSkipped(p, m)
    PROVE  m \in SentTo(p) /\ Kept(p, ratchet'[p], delivered[p] \cup {m})
<1> DEFINE r == ratchet[p]
<1>1. PICK j \in 1 .. Len(r.skipped_message_keys) :
         /\ AcceptsSkipped(r, m, j)
         /\ ratchet' = [ratchet EXCEPT ![p] = UseSkipped(@, j)]
    BY DEF DecryptSkipped
<1>2. /\ IInv /\ r \in Ratchets /\ ratchet \in [Party -> Ratchets]
      /\ NonePassedLost(r, delivered[p]) /\ SkippedSent(p, r)
    BY TypeOfParty DEF RoomInv, SkippedInv, LockstepInv, IInv, TypeOK
<1>3. m \in SentTo(p) /\ m.key = r.skipped_message_keys[j].message_key.key
    BY <1>1, <1>2, AcceptedSkipped
<1>4. ratchet'[p] = UseSkipped(r, j)
    BY <1>1, <1>2
<1> HIDE DEF r
<1>5. UseSkipped(r, j).sender_chain = r.sender_chain
    BY <1>2, UseSkippedFacts
<1>6. /\ NonePassedLost(UseSkipped(r, j), delivered[p] \cup {m})
      /\ SkippedSent(p, UseSkipped(r, j))
    BY <1>2, <1>3, UseRoomy
<1> QED
    BY <1>3, <1>4, <1>5, <1>6 DEF Kept, r

(* encrypt() uses the keys of a chain in turn, and numbers its messages.   *)
EncryptedAs(p, msg, chain, next) ==
    /\ msg.from = p /\ msg.body = encrypted[p]
    /\ chain.index \in Nat
    /\ msg.counter = chain.index
    /\ msg.key = [root |-> chain.key.root, steps |-> chain.index]
    /\ next.index = chain.index + 1
    /\ next.key.root = chain.key.root

LEMMA EncryptCounts ==
    ASSUME LockstepInv, NEW p \in Party, Encrypt(p)
    PROVE  LET chain == SendingRatchet(p).sender_chain[1]
               msg == Message(p, SendingRatchet(p))
           IN
           /\ sent' = sent \cup {msg}
           /\ EncryptedAs(p, msg, chain.chain_key, ratchet'[p].sender_chain[1].chain_key)
           /\ Len(ratchet'[p].sender_chain) = 1
           /\ ratchet[p].sender_chain # <<>> =>
                 Len(ratchet[p].sender_chain) = 1 /\ chain = ratchet[p].sender_chain[1]
           /\ ratchet[p].sender_chain = <<>> => chain.chain_key.index = 0
<1> DEFINE old == ratchet[p]
           r == SendingRatchet(p)
           chain == r.sender_chain[1]
           fresh == RatchetKey(p, generated[p])
           msg == Message(p, r)
           next == AdvanceSenderChain(r)
           root == NextRootKey(old.root_key, fresh, old.receiver_chains[1].ratchet_key)
<1>1. IInv /\ TypeOK /\ EncryptHasPeerKey
    BY DEF LockstepInv, IInv
<1>2. /\ ratchet \in [Party -> Ratchets] /\ generated[p] \in Nat
      /\ old \in Ratchets /\ Len(old.sender_chain) <= 1
      /\ old.sender_chain = <<>> => old.receiver_chains # <<>>
    BY <1>1, TypeOfParty DEF TypeOK, EncryptHasPeerKey
<1>3. /\ ratchet' = [ratchet EXCEPT ![p] = next]
      /\ sent' = sent \cup {msg}
    BY DEF Encrypt, SendingRatchet
<1>4. ratchet'[p] = next
    BY <1>2, <1>3
<1>5. fresh \in RatchetKeys
    BY <1>2, RatchetKeyType
<1>6. /\ r \in Ratchets /\ Len(r.sender_chain) = 1
      /\ old.sender_chain # <<>> => r = old
      /\ old.sender_chain = <<>> => chain.chain_key = FirstChainKey(root)
    BY <1>2, <1>5, EnsureSenderChainFacts DEF SendingRatchet
<1>7. /\ Len(next.sender_chain) = 1
      /\ next.sender_chain[1].chain_key = AdvanceChainKey(chain.chain_key, 1)
    BY <1>6, AdvanceSenderChainFacts
<1>8. chain \in Chains /\ InStep(chain.chain_key)
    BY <1>1, SendingChain
<1>9. /\ chain.chain_key \in ChainKeys /\ chain.chain_key.index \in Nat
      /\ chain.chain_key.key \in SymmetricKeys
    <2> HIDE DEF chain
    <2> QED
        BY <1>8, ChainParts
<1>10. /\ msg.from = p /\ msg.body = encrypted[p]
       /\ msg.counter = chain.chain_key.index
       /\ msg.key = chain.chain_key.key
    BY <1>9, CreateMessageKeyFacts DEF Message, EncryptedHeader
<1> DEFINE first == chain.chain_key
           later == next.sender_chain[1].chain_key
<1>11. first.key = [root |-> first.key.root, steps |-> first.index]
    <2>1. first.key \in SymmetricKeys /\ first.index = first.key.steps
        BY <1>8, <1>9 DEF InStep
    <2> HIDE DEF first
    <2> QED
        BY <2>1 DEF SymmetricKeys
<1>12. later.index = first.index + 1 /\ later.key.root = first.key.root
    <2>1. first \in ChainKeys /\ later = AdvanceChainKey(first, 1)
        BY <1>7, <1>9
    <2> HIDE DEF first, later
    <2> QED
        BY <2>1, AdvanceChainKeyFacts
<1>13. EncryptedAs(p, msg, first, later)
    <2>1. first.index \in Nat
        BY <1>9
    <2>2. msg.from = p /\ msg.body = encrypted[p] /\ msg.counter = first.index /\ msg.key = first.key
        BY <1>10
    <2> HIDE DEF first, later, msg
    <2> QED
        BY <1>11, <1>12, <2>1, <2>2 DEF EncryptedAs
<1>14. old.sender_chain = <<>> => chain.chain_key.index = 0
    BY <1>6 DEF FirstChainKey
<1>15. old.sender_chain # <<>> => Len(old.sender_chain) = 1 /\ chain = old.sender_chain[1]
    BY <1>6
<1> HIDE DEF next, msg, chain, r
<1> QED
    BY <1>3, <1>4, <1>7, <1>13, <1>14, <1>15 DEF next, msg, chain, r, old, first, later

LEMMA EncryptRoom ==
    ASSUME RoomInv, NEW p \in Party, Encrypt(p), SkippedInv'
    PROVE  RoomInv'
<1> DEFINE old == ratchet[p]
           chain == SendingRatchet(p).sender_chain[1].chain_key
           msg == Message(p, SendingRatchet(p))
           next == ratchet'[p].sender_chain[1].chain_key
<1>1. /\ LockstepInv /\ IInv /\ TypeOK /\ Numbered
      /\ \A q \in Party : /\ SentInTurn(q) /\ KeyForMessage(q)
                          /\ SkippedSent(q, ratchet[q])
                          /\ NonePassedLost(ratchet[q], delivered[q])
                          /\ encrypted[q] \in Nat /\ generated[q] \in Nat
    BY TypeOfParty DEF RoomInv, SkippedInv, LockstepInv, IInv
<1>2. /\ sent' = sent \cup {msg}
      /\ EncryptedAs(p, msg, chain, next)
      /\ Len(ratchet'[p].sender_chain) = 1
      /\ old.sender_chain # <<>> => Len(old.sender_chain) = 1 /\ chain = old.sender_chain[1].chain_key
      /\ old.sender_chain = <<>> => chain.index = 0
    BY <1>1, EncryptCounts
<1>3. /\ old.sender_chain # <<>> => generated'[p] = generated[p]
      /\ old.sender_chain = <<>> => generated'[p] = generated[p] + 1
      /\ ratchet'[p].receiver_chains = old.receiver_chains
      /\ ratchet'[p].skipped_message_keys = old.skipped_message_keys
      /\ delivered' = delivered
      /\ \A q \in Party : q # p => ratchet'[q] = ratchet[q] /\ generated'[q] = generated[q]
    BY <1>1, EncryptFacts
<1>4. /\ encrypted'[p] = encrypted[p] + 1
      /\ \A q \in Party : q # p => encrypted'[q] = encrypted[q]
      /\ encrypted[p] < MaxSends
      /\ HasSession(p)
    BY <1>1 DEF Encrypt, TypeOK
<1>5. \A m \in sent : /\ m.from \in Party /\ m.body \in Nat /\ m.counter \in Nat
                      /\ m.counter <= m.body /\ m.body < encrypted[m.from]
    BY <1>1, MessageParts DEF TypeOK, Numbered
<1>6. \A q, root, c : WasSent(q, root, c) => WasSent(q, root, c)'
    BY <1>2 DEF WasSent
<1>7. /\ chain.index \in Nat /\ chain.index <= encrypted[p]
      /\ \A c \in 0 .. chain.index - 1 : WasSent(p, chain.key.root, c)
    <2>1. chain.index \in Nat
        BY <1>2 DEF EncryptedAs
    <2>2. CASE old.sender_chain # <<>>
        <3> DEFINE first == old.sender_chain[1].chain_key
        <3>1. 1 \in 1 .. Len(old.sender_chain) /\ chain = first
            BY <1>2, <2>2
        <3>2. SentInTurn(p)
            BY <1>1
        <3>3. /\ first.index <= encrypted[p]
              /\ \A c \in 0 .. first.index - 1 : WasSent(p, first.key.root, c)
            BY <3>1, <3>2 DEF SentInTurn
        <3> HIDE DEF chain, first
        <3> QED
            BY <2>1, <3>1, <3>3
    <2>3. CASE old.sender_chain = <<>>
        <3>1. chain.index = 0 /\ encrypted[p] \in Nat /\ 0 .. chain.index - 1 = {}
            BY <1>1, <1>2, <2>3, TypeOfParty
        <3> HIDE DEF chain, old
        <3> QED
            BY <3>1
    <2> QED
        BY <2>1, <2>2, <2>3
<1> HIDE DEF chain, msg, next, old
<1>8. Numbered'
    <2>1. \A q \in Party : encrypted'[q] <= MaxSends
        BY <1>1, <1>4 DEF Numbered
    <2>2. ASSUME NEW m \in sent'
          PROVE  /\ m.counter <= m.body /\ m.body < encrypted'[m.from]
                 /\ \A c \in 0 .. m.counter - 1 : WasSent(m.from, m.key.root, c)'
        <3>1. CASE m \in sent
            <4>1. m.body < encrypted'[m.from]
                BY <1>1, <1>4, <1>5, <3>1
            <4>2. \A c \in 0 .. m.counter - 1 : WasSent(m.from, m.key.root, c)
                BY <1>1, <3>1 DEF Numbered
            <4> QED
                BY <1>5, <1>6, <3>1, <4>1, <4>2
        <3>2. CASE m = msg
            <4>1. /\ m.from = p /\ m.body = encrypted[p] /\ m.counter = chain.index
                  /\ m.key.root = chain.key.root
                BY <1>2, <3>2 DEF EncryptedAs
            <4> QED
                BY <1>1, <1>4, <1>6, <1>7, <4>1
        <3> QED
            BY <1>2, <3>1, <3>2
    <2>3. ASSUME NEW m \in sent', NEW n \in sent', m.from = n.from, m.body = n.body
          PROVE  m = n
        <3>1. msg.from = p /\ msg.body = encrypted[p]
            BY <1>2 DEF EncryptedAs
        <3>2. \A s \in sent : ~(s.from = p /\ s.body = encrypted[p])
            BY <1>1, <1>5
        <3> QED
            BY <1>1, <1>2, <2>3, <3>1, <3>2 DEF Numbered
    <2> QED
        BY <2>1, <2>2, <2>3 DEF Numbered
<1>9. \A q \in Party : SentInTurn(q)'
    <2>1. ASSUME NEW q \in Party, q # p PROVE SentInTurn(q)'
        BY <1>1, <1>3, <1>4, <1>6, <2>1 DEF SentInTurn
    <2>2. SentInTurn(p)'
        <3> SUFFICES ASSUME NEW i \in 1 .. Len(ratchet'[p].sender_chain)
                     PROVE  LET key == ratchet'[p].sender_chain[i].chain_key IN
                            /\ key.index <= encrypted'[p]
                            /\ \A root, c : root = key.key.root /\ c \in 0 .. key.index - 1
                                  => WasSent(p, root, c)'
            BY DEF SentInTurn
        <3>1. ratchet'[p].sender_chain[i].chain_key = next
            BY <1>2 DEF next
        <3>2. next.index = chain.index + 1 /\ next.key.root = chain.key.root
            BY <1>2 DEF EncryptedAs
        <3>3. next.index <= encrypted'[p]
            BY <1>1, <1>4, <1>7, <3>2
        <3>4. ASSUME NEW root, NEW c, root = next.key.root, c \in 0 .. next.index - 1
              PROVE  WasSent(p, root, c)'
            <4>1. c \in 0 .. chain.index - 1 \/ c = chain.index
                BY <1>7, <3>2, <3>4
            <4>2. CASE c \in 0 .. chain.index - 1
                BY <1>6, <1>7, <3>2, <3>4, <4>2
            <4>3. CASE c = chain.index
                <5>1. msg \in sent' /\ msg.from = p /\ msg.key = [root |-> root, steps |-> c]
                    BY <1>2, <3>2, <3>4, <4>3 DEF EncryptedAs
                <5> QED
                    BY <5>1 DEF WasSent
            <4> QED
                BY <4>1, <4>2, <4>3
        <3> QED
            BY <3>1, <3>3, <3>4
    <2> QED
        BY <2>1, <2>2
<1>10. \A q \in Party : KeyForMessage(q)'
    <2>1. KeyForMessage(p)'
        <3>1. KeyForMessage(p)
            BY <1>1
        <3>2. generated'[p] <= encrypted'[p]
            BY <1>1, <1>3, <1>4, <3>1 DEF KeyForMessage, old
        <3> QED
            BY <3>2 DEF KeyForMessage
    <2>2. ASSUME NEW q \in Party, q # p PROVE KeyForMessage(q)'
        <3>1. CASE generated[q] <= encrypted[q]
            BY <1>3, <1>4, <2>2, <3>1 DEF KeyForMessage
        <3>2. CASE q = Alice /\ sent = {}
            <4>1. SentTo(p) = {} /\ p # Alice
                BY <2>2, <3>2 DEF SentTo
            <4> QED
                BY <1>4, <4>1 DEF HasSession
        <3> QED
            BY <1>1, <3>1, <3>2 DEF KeyForMessage
    <2> QED
        BY <2>1, <2>2
<1>11. \A q \in Party : /\ ratchet'[q].receiver_chains = ratchet[q].receiver_chains
                        /\ ratchet'[q].skipped_message_keys = ratchet[q].skipped_message_keys
    BY <1>3 DEF old
<1>12. ASSUME NEW q \in Party
       PROVE  SkippedSent(q, ratchet[q])' /\ NonePassedLost(ratchet[q], delivered[q])'
    <2>1. SkippedSent(q, ratchet[q])'
        BY <1>1, <1>6, <1>11 DEF SkippedSent
    <2>2. \A i : ChainIndex(ratchet'[q], i) = ChainIndex(ratchet[q], i)
        BY <1>11 DEF ChainIndex
    <2>3. \A k, c : KeptOrRead(ratchet[q], delivered[q], k, c)
                    => KeptOrRead(ratchet'[q], delivered'[q], k, c)
        BY <1>3, <1>11 DEF KeptOrRead
    <2>4. NonePassedLost(ratchet[q], delivered[q])'
        BY <1>1, <1>11, <2>2, <2>3 DEF NonePassedLost
    <2> QED
        BY <2>1, <2>4
<1> QED
    BY <1>8, <1>9, <1>10, <1>12 DEF RoomInv

LEMMA DecryptRoom ==
    ASSUME Room, RoomInv, NEW p \in Party, NEW m \in Frames(p), NEW sequential \in Modes,
           Decrypt(p, m, sequential), SkippedInv'
    PROVE  RoomInv'
<1>1. m \in SentTo(p) /\ Kept(p, ratchet'[p], delivered[p] \cup {m})
    BY NewChainRoomy, OnChainRoomy, SkippedRoomy DEF Decrypt
<1>2. /\ TypeOK /\ Numbered
      /\ \A q \in Party : /\ SentInTurn(q) /\ KeyForMessage(q)
                          /\ SkippedSent(q, ratchet[q])
                          /\ NonePassedLost(ratchet[q], delivered[q])
    BY DEF RoomInv, SkippedInv, LockstepInv, IInv
<1>3. /\ delivered' = [delivered EXCEPT ![p] = @ \cup {m}]
      /\ generated' = generated /\ sent' = sent /\ encrypted' = encrypted
      /\ \E a : ratchet' = [ratchet EXCEPT ![p] = a]
    BY DEF Decrypt, DecryptOnNewChain, DecryptOnChain, DecryptSkipped, Deliver
<1>4. /\ delivered'[p] = delivered[p] \cup {m}
      /\ \A q \in Party : q # p => ratchet'[q] = ratchet[q] /\ delivered'[q] = delivered[q]
    BY <1>2, <1>3 DEF TypeOK
<1>5. \A q, root, c : WasSent(q, root, c) => WasSent(q, root, c)'
    BY <1>3 DEF WasSent
<1>6. Numbered'
    BY <1>2, <1>3 DEF Numbered, WasSent
<1>7. \A q \in Party : ratchet'[q].sender_chain \in {<<>>, ratchet[q].sender_chain}
    BY <1>1, <1>4 DEF Kept
<1>8. \A q \in Party : SentInTurn(q)'
    <2> TAKE q \in Party
    <2>1. CASE ratchet'[q].sender_chain = ratchet[q].sender_chain
        BY <1>2, <1>3, <1>5, <2>1 DEF SentInTurn
    <2>2. CASE ratchet'[q].sender_chain = <<>>
        <3>1. 1 .. Len(ratchet'[q].sender_chain) = {}
            BY <2>2
        <3> QED
            BY <3>1 DEF SentInTurn
    <2> QED
        BY <1>7, <2>1, <2>2
<1>9. \A q \in Party : KeyForMessage(q)'
    <2>1. sent # {}
        BY <1>1 DEF SentTo
    <2> QED
        BY <1>2, <1>3, <2>1 DEF KeyForMessage
<1>10. \A q \in Party : NonePassedLost(ratchet'[q], delivered'[q]) /\ SkippedSent(q, ratchet'[q])
    BY <1>1, <1>2, <1>4 DEF Kept
<1>11. \A q \in Party : SkippedSent(q, ratchet[q])'
    BY <1>5, <1>10 DEF SkippedSent
<1>12. \A q \in Party : NonePassedLost(ratchet[q], delivered[q])'
    BY <1>10
<1> QED
    BY <1>6, <1>8, <1>9, <1>11, <1>12 DEF RoomInv

LEMMA InitRoom ==
    ASSUME Init, SkippedInv
    PROVE  RoomInv
<1> DEFINE root == InitialRootKey(Secret)
           chain == [ratchet_key |-> FirstKey, chain_key |-> FirstChainKey(root)]
<1>1. /\ Alice \in Party /\ Bob \in Party /\ Alice # Bob
      /\ \A p \in Party : p = Alice \/ p = Bob
    BY DEF Party
<1>2. /\ ratchet[Alice].sender_chain = <<chain>> /\ ratchet[Alice].receiver_chains = <<>>
      /\ ratchet[Alice].skipped_message_keys = <<>>
      /\ ratchet[Bob].sender_chain = <<>> /\ ratchet[Bob].receiver_chains = <<chain>>
      /\ ratchet[Bob].skipped_message_keys = <<>>
      /\ generated[Alice] = 1 /\ generated[Bob] = 0
      /\ sent = {}
    BY InitialState
<1>3. encrypted[Alice] = 0 /\ encrypted[Bob] = 0
    BY <1>1 DEF Init
<1>4. Len(<<chain>>) = 1 /\ <<chain>>[1] = chain /\ chain.chain_key.index = 0 /\ <<chain>> # <<>>
    BY DEF FirstChainKey
<1>5. 1 .. Len(<<>>) = {}
    OBVIOUS
<1> HIDE DEF chain, root
<1>6. Numbered
    BY <1>1, <1>2, <1>3 DEF Numbered
<1>7. \A p \in Party : \A i \in 1 .. Len(ratchet[p].sender_chain) :
         ratchet[p].sender_chain[i].chain_key.index = 0
    <2>1. \A i \in 1 .. 1 : i = 1
        OBVIOUS
    <2> QED
        BY <1>1, <1>2, <1>4, <1>5, <2>1
<1>8. \A p \in Party : SentInTurn(p)
    <2>1. \A c : ~(c \in 0 .. 0 - 1)
        OBVIOUS
    <2>2. \A p \in Party : 0 <= encrypted[p]
        BY <1>1, <1>3
    <2> QED
        BY <1>7, <2>1, <2>2 DEF SentInTurn
<1>9. \A p \in Party : KeyForMessage(p)
    <2>1. ratchet[Alice].sender_chain # <<>>
        BY <1>2, <1>4
    <2>2. KeyForMessage(Alice)
        BY <1>2, <2>1 DEF KeyForMessage
    <2>3. KeyForMessage(Bob)
        BY <1>2, <1>3 DEF KeyForMessage
    <2> QED
        BY <1>1, <2>2, <2>3
<1>10. \A p \in Party : SkippedSent(p, ratchet[p])
    BY <1>1, <1>2, <1>5 DEF SkippedSent
<1>11. \A p \in Party : \A i \in 1 .. Len(ratchet[p].receiver_chains) : ChainIndex(ratchet[p], i) = 0
    <2>1. \A i \in 1 .. 1 : i = 1
        OBVIOUS
    <2> QED
        BY <1>1, <1>2, <1>4, <1>5, <2>1 DEF ChainIndex
<1>12. \A p \in Party : NonePassedLost(ratchet[p], delivered[p])
    <2>1. \A c : ~(c \in 0 .. 0 - 1)
        OBVIOUS
    <2> QED
        BY <1>11, <2>1 DEF NonePassedLost
<1> QED
    BY <1>6, <1>8, <1>9, <1>10, <1>12 DEF RoomInv

LEMMA NextRoom ==
    ASSUME Room, RoomInv, [Next]_vars
    PROVE  RoomInv'
<1>1. SkippedInv'
    BY NextSkipped DEF RoomInv
<1>2. CASE \E p \in Party : Encrypt(p)
    BY <1>1, <1>2, EncryptRoom
<1>3. CASE \E p \in Party : \E m \in Frames(p), sequential \in Modes :
                Decrypt(p, m, sequential)
    BY <1>1, <1>3, DecryptRoom
<1>4. CASE UNCHANGED vars
    <2>1. /\ ratchet' = ratchet /\ generated' = generated /\ sent' = sent
          /\ encrypted' = encrypted /\ delivered' = delivered
        BY <1>4 DEF vars
    <2>2. \A q, root, c : WasSent(q, root, c)' = WasSent(q, root, c)
        BY <2>1 DEF WasSent
    <2>3. /\ Numbered
          /\ \A q \in Party : /\ SentInTurn(q) /\ KeyForMessage(q)
                              /\ SkippedSent(q, ratchet[q])
                              /\ NonePassedLost(ratchet[q], delivered[q])
        BY DEF RoomInv
    <2>4. Numbered'
        BY <2>1, <2>3 DEF Numbered, WasSent
    <2>5. \A q \in Party : /\ SentInTurn(q)' /\ KeyForMessage(q)'
                           /\ SkippedSent(q, ratchet[q])'
        BY <2>1, <2>2, <2>3 DEF SentInTurn, KeyForMessage, SkippedSent
    <2>6. \A q \in Party : NonePassedLost(ratchet[q], delivered[q])'
        BY <2>1, <2>3
    <2> QED
        BY <1>1, <2>4, <2>5, <2>6 DEF RoomInv
<1> QED
    BY <1>2, <1>3, <1>4 DEF Next, DecryptRejected

(* With room for the messages that are sent, RoomInv is an invariant.      *)
THEOREM RoomInvariance ==
    ASSUME Room
    PROVE  Spec => []RoomInv
<1>1. ASSUME Init PROVE RoomInv
    <2>1. SkippedInv
        BY <1>1, InitSkipped
    <2> QED
        BY <1>1, <2>1, InitRoom
<1>2. RoomInv /\ [Next]_vars => RoomInv'
    BY NextRoom
<1> QED
    BY <1>1, <1>2, PTL DEF Spec

(* With room for as many chains as messages, none is given up: a message   *)
(* is on a chain of its recipient, or on the one it would derive next.     *)
OnKnownChain(r, m) ==
    \E i \in 1 .. Len(r.receiver_chains) :
        IsChainFor(r, m, i) /\ r.receiver_chains[i].chain_key.key.root = m.key.root

OnNextChain(r, m) ==
    /\ ~HasChainFor(r, m)
    /\ r.sender_chain # <<>>
    /\ NewRootFor(r, m) = m.key.root

LEMMA ChainsReachBack ==
    ASSUME Room, RoomInv, NEW p \in Party, ratchet[p].receiver_chains # <<>>,
           NEW n \in Nat, n <= ratchet[p].receiver_chains[1].ratchet_key.n
    PROVE  \E i \in 1 .. Len(ratchet[p].receiver_chains) :
              ratchet[p].receiver_chains[i].ratchet_key = RatchetKey(Peer(p), n)
<1> DEFINE held == ratchet[p].receiver_chains
           q == Peer(p)
           first == held[1].ratchet_key.n
           last == Len(held)
<1>1. /\ IInv /\ TypeOK /\ KeepsNewestChains /\ Numbered /\ KeyForMessage(q)
      /\ q \in Party
    BY PeerFacts DEF RoomInv, SkippedInv, LockstepInv, IInv
<1>2. /\ held \in Seq(Chains) /\ last \in Nat /\ last <= MAX_RECEIVER_CHAINS
      /\ last > 0
    BY <1>1, TypeOfParty, RatchetParts, ListOfChains
<1>3. 1 \in 1 .. last /\ last \in 1 .. last
    BY <1>2
<1>4. /\ held[1].ratchet_key \in RatchetKeys /\ held[last].ratchet_key \in RatchetKeys
      /\ first < generated[q]
    <2>1. held[1] \in Chains /\ held[last] \in Chains
        BY <1>2, <1>3, ListOfChains
    <2>2. held[1].ratchet_key.n < generated[Peer(p)]
        BY <1>1, <1>3 DEF IInv, ReceiverSound
    <2> QED
        BY <2>1, <2>2, ChainParts
<1>5. first \in Nat /\ held[last].ratchet_key.n \in Nat
    BY <1>4 DEF RatchetKeys
<1>6. \A i \in 1 .. last : held[i].ratchet_key = RatchetKey(q, first - (i - 1))
    BY <1>1 DEF KeepsNewestChains
<1>7. last < MAX_RECEIVER_CHAINS => held[last].ratchet_key.n = 0
    BY <1>1, <1>3 DEF KeepsNewestChains
<1> HIDE DEF held, first, last
<1>8. held[last].ratchet_key.n = first - (last - 1)
    <2>1. held[last].ratchet_key = RatchetKey(q, first - (last - 1))
        BY <1>3, <1>6
    <2> QED
        BY <2>1 DEF RatchetKey
<1>9. generated[q] <= MAX_RECEIVER_CHAINS
    <2>1. encrypted[q] \in Nat /\ encrypted[q] <= MaxSends /\ generated[q] \in Nat
        BY <1>1, TypeOfParty DEF Numbered
    <2>2. generated[q] <= encrypted[q] \/ generated[q] = 1
        BY <1>1 DEF KeyForMessage
    <2> QED
        BY <2>1, <2>2, RatchetLimits DEF Room
<1>10. first = last - 1
    <2>1. generated[q] \in Nat
        BY <1>1, TypeOfParty
    <2>2. CASE last < MAX_RECEIVER_CHAINS
        BY <1>2, <1>5, <1>7, <1>8, <2>2
    <2>3. CASE ~(last < MAX_RECEIVER_CHAINS)
        <3>1. first <= last - 1
            BY <1>2, <1>4, <1>5, <1>9, <2>1, <2>3
        <3>2. first - (last - 1) >= 0
            BY <1>5, <1>8
        <3> QED
            BY <1>2, <1>5, <3>1, <3>2
    <2> QED
        BY <2>2, <2>3
<1> DEFINE i == (first - n) + 1
<1>11. i \in 1 .. last /\ first - (i - 1) = n
    <2>1. n <= first
        BY DEF first, held
    <2> QED
        BY <1>2, <1>5, <1>10, <2>1
<1> HIDE DEF i
<1>12. held[i].ratchet_key = RatchetKey(q, n)
    BY <1>6, <1>11
<1> QED
    BY <1>11, <1>12 DEF held, last

LEMMA OneChainPerKey ==
    ASSUME LockstepInv, NEW p \in Party, NEW m \in sent,
           NEW i \in 1 .. Len(ratchet[p].receiver_chains),
           ratchet[p].receiver_chains[i].ratchet_key = m.ratchet_key
    PROVE  OnKnownChain(ratchet[p], m)
<1> DEFINE held == ratchet[p].receiver_chains
           first == held[1].ratchet_key.n
<1>1. IInv /\ TypeOK /\ KeepsNewestChains /\ OneRootPerKey
    BY DEF LockstepInv, IInv
<1>2. held \in Seq(Chains) /\ Len(held) \in Nat
    BY <1>1, TypeOfParty, RatchetParts, ListOfChains
<1>3. 1 \in 1 .. Len(held) /\ i \in Nat
    BY <1>2
<1>4. first \in Nat
    <2>1. held[1] \in Chains
        BY <1>2, <1>3, ListOfChains
    <2> QED
        BY <2>1, ChainParts DEF RatchetKeys
<1>5. \A j \in 1 .. Len(held) : held[j].ratchet_key.n = first - (j - 1)
    <2> TAKE j \in 1 .. Len(held)
    <2>1. held[j].ratchet_key = RatchetKey(Peer(p), first - (j - 1))
        BY <1>1 DEF KeepsNewestChains
    <2> HIDE DEF held, first
    <2> QED
        BY <2>1 DEF RatchetKey
<1>6. held[i].chain_key.key.root = m.key.root
    <2>1. IsChain(sent, held[i].ratchet_key, held[i].chain_key.key.root)
        BY <1>1 DEF IInv, ReceiverSound
    <2> QED
        BY <1>1, <2>1, SentIsChain, SameKeySameRoot
<1> HIDE DEF held, first
<1>7. \A j \in 1 .. i - 1 : held[j].ratchet_key # m.ratchet_key
    <2> TAKE j \in 1 .. i - 1
    <2>1. /\ j \in 1 .. Len(held) /\ i \in 1 .. Len(held)
          /\ first - (j - 1) # first - (i - 1)
        BY <1>2, <1>3, <1>4 DEF held
    <2>2. held[j].ratchet_key.n # held[i].ratchet_key.n
        BY <1>5, <2>1
    <2> QED
        BY <2>2 DEF held
<1>8. IsChainFor(ratchet[p], m, i)
    BY <1>7 DEF IsChainFor, held
<1> QED
    BY <1>6, <1>8 DEF OnKnownChain, held

LEMMA KnownOrNext ==
    ASSUME Room, RoomInv, NEW p \in Party, NEW m \in SentTo(p)
    PROVE  OnKnownChain(ratchet[p], m) \/ OnNextChain(ratchet[p], m)
<1> DEFINE r == ratchet[p]
           held == r.receiver_chains
           q == Peer(p)
           first == held[1].ratchet_key
<1>1. /\ LockstepInv /\ IInv /\ TypeOK /\ SentSound /\ KeepsNewestChains /\ OneRootPerKey
      /\ q \in Party /\ Peer(q) = p /\ q # p
      /\ \A x \in Party : x = p \/ x = q
    BY PeerFacts DEF RoomInv, SkippedInv, LockstepInv, IInv
<1>2. /\ m \in sent /\ m.from = q /\ m.ratchet_key \in RatchetKeys
      /\ m.ratchet_key.owner = q
      /\ m.ratchet_key.n < generated[q]
      /\ generated[q] \in Nat
    <2>1. m \in sent /\ m.from = q /\ generated[q] \in Nat
        BY <1>1, TypeOfParty DEF SentTo
    <2>2. m \in Messages
        BY <1>1, <2>1 DEF TypeOK
    <2>3. m.ratchet_key \in RatchetKeys
        BY <2>2, MessageParts
    <2>4. m.ratchet_key.owner = m.from /\ m.ratchet_key.n < generated[m.from]
        BY <1>1, <2>1 DEF SentSound
    <2> QED
        BY <2>1, <2>3, <2>4
<1>3. m.ratchet_key = RatchetKey(q, m.ratchet_key.n) /\ m.ratchet_key.n \in Nat
    BY <1>2 DEF RatchetKeys, RatchetKey
<1>4. held \in Seq(Chains) /\ Len(held) \in Nat /\ (held # <<>> <=> Len(held) > 0)
    BY <1>1, TypeOfParty, RatchetParts, ListOfChains
<1>5. CASE HasChainFor(r, m)
    BY <1>1, <1>2, <1>5, OneChainPerKey DEF HasChainFor
<1>6. CASE ~HasChainFor(r, m)
    <2>1. held # <<>> => ~(m.ratchet_key.n <= first.n)
        BY <1>3, <1>6, ChainsReachBack DEF HasChainFor
    <2>2. held # <<>> => first # LatestKey(q)
        <3> SUFFICES ASSUME held # <<>>, first = LatestKey(q) PROVE FALSE
            OBVIOUS
        <3>1. first.n = generated[q] - 1
            BY DEF LatestKey, RatchetKey
        <3>2. ~(m.ratchet_key.n <= first.n)
            BY <2>1
        <3> HIDE DEF first
        <3> QED
            BY <1>2, <1>3, <3>1, <3>2
    <2>3. PICK x \in Party : Follows(x)
        BY <1>1 DEF LockstepInv
    <2>4. x = q
        <3> SUFFICES ASSUME x = p PROVE FALSE
            BY <1>1
        <3>1. ratchet[q].sender_chain # <<>> /\ KnowsChain(r, ratchet[q].sender_chain[1])
            BY <2>3 DEF Follows
        <3>2. ratchet[q].sender_chain[1].ratchet_key = LatestKey(q)
            BY <1>1, <3>1, SendersChain
        <3> QED
            BY <2>2, <3>1, <3>2 DEF KnowsChain
    <2>5. ~Led(q)
        <3> SUFFICES ASSUME Led(q) PROVE FALSE
            OBVIOUS
        <3>1. HasSeen(p, generated[q])
            BY <1>1 DEF Led
        <3>2. held = <<>> => generated[q] = 0
            BY <3>1 DEF HasSeen
        <3>3. held # <<>> => first = LatestKey(q)
            BY <1>1, <3>1 DEF HasSeen, LatestKey
        <3> QED
            BY <1>2, <1>3, <2>2, <3>2, <3>3
    <2>6. Turned(q) /\ r.sender_chain # <<>>
        BY <1>1, <2>3, <2>4, <2>5 DEF Follows
    <2>7. m.ratchet_key = LatestKey(q)
        <3>1. HasSeen(p, generated[q] - 1)
            BY <1>1, <2>6 DEF Turned
        <3>2. held = <<>> => generated[q] - 1 = 0
            BY <3>1 DEF HasSeen
        <3>3. held # <<>> => first = RatchetKey(q, generated[q] - 1 - 1)
            BY <1>1, <3>1 DEF HasSeen
        <3>4. held # <<>> => first.n = generated[q] - 1 - 1
            BY <3>3 DEF RatchetKey
        <3> HIDE DEF first, held
        <3>5. m.ratchet_key.n = generated[q] - 1
            BY <1>2, <1>3, <2>1, <3>2, <3>4
        <3> QED
            BY <1>3, <3>5 DEF LatestKey
    <2>8. ratchet[q].sender_chain # <<>>
          /\ ratchet[q].root_key = NextRootKey(r.root_key, LatestKey(q), LatestKey(p))
        BY <1>1, <2>6 DEF Turned
    <2>9. IsChain(sent, LatestKey(q), ratchet[q].root_key)
        BY <1>1, <2>8, SendersChain
    <2>10. m.key.root = ratchet[q].root_key
        BY <1>1, <1>2, <2>7, <2>9, SentIsChain, SameKeySameRoot
    <2>11. r.sender_chain[1].ratchet_key = LatestKey(p)
        BY <1>1, <2>6, SendersChain
    <2>12. NewRootFor(r, m) = m.key.root
        BY <2>7, <2>8, <2>10, <2>11, SwappedKeys DEF NewRootFor
    <2> QED
        BY <1>6, <2>6, <2>12 DEF OnNextChain
<1> QED
    BY <1>5, <1>6

(* A message the chain has not passed lies within the gap, and is opened.  *)
LEMMA AheadOpens ==
    ASSUME Room, RoomInv, NEW m \in sent,
           NEW chain_key \in ChainKeys, InStep(chain_key),
           chain_key.index <= m.counter, chain_key.key.root = m.key.root
    PROVE  Opens(chain_key, m)
<1> DEFINE count == m.counter - chain_key.index
<1>1. /\ m.counter \in Nat /\ m.from \in Party
      /\ m.key = [root |-> m.key.root, steps |-> m.counter]
      /\ m.body \in Nat /\ m.counter <= m.body /\ m.body < encrypted[m.from]
      /\ encrypted[m.from] \in Nat /\ encrypted[m.from] <= MaxSends
    <2>1. TypeOK /\ SentSound /\ Numbered
        BY DEF RoomInv, SkippedInv, LockstepInv, IInv
    <2>2. m \in Messages /\ m.counter = m.key.steps
        BY <2>1 DEF TypeOK, SentSound
    <2>3. /\ m.counter \in Nat /\ m.from \in Party /\ m.body \in Nat
          /\ m.key \in SymmetricKeys
        BY <2>2, MessageParts DEF Messages
    <2>4. m.key = [root |-> m.key.root, steps |-> m.counter]
        BY <2>2, <2>3 DEF SymmetricKeys
    <2>5. m.counter <= m.body /\ m.body < encrypted[m.from]
        BY <2>1 DEF Numbered
    <2>6. encrypted[m.from] \in Nat /\ encrypted[m.from] <= MaxSends
        BY <2>1, <2>3, TypeOfParty DEF Numbered
    <2> QED
        BY <2>3, <2>4, <2>5, <2>6
<1>2. chain_key.index \in Nat /\ count \in Nat /\ chain_key.index + count = m.counter
    <2>1. chain_key.index \in Nat
        BY DEF ChainKeys
    <2> QED
        BY <1>1, <2>1
<1>3. WithinGap(chain_key, m)
    BY <1>1, <1>2 DEF Room, WithinGap
<1> HIDE DEF count
<1> DEFINE next == AdvanceChainKey(chain_key, count)
<1>4. /\ next \in ChainKeys /\ next.key.root = m.key.root
      /\ next.key.steps = m.counter
    <2>1. chain_key.index = chain_key.key.steps
        BY DEF InStep
    <2> QED
        BY <1>2, <2>1, AdvanceChainKeyFacts
<1> HIDE DEF next
<1>5. next.key = m.key
    BY <1>1, <1>4 DEF ChainKeys, SymmetricKeys
<1>6. CreateMessageKey(next).key = m.key
    BY <1>4, <1>5, CreateMessageKeyFacts
<1>7. MacMatches(chain_key, m)
    BY <1>6 DEF MacMatches, next, count
<1> QED
    BY <1>3, <1>7 DEF Opens

LEMMA RoomyAccepts ==
    ASSUME Room, RoomInv, NEW p \in Party, NEW m \in SentTo(p) \ delivered[p]
    PROVE  Accepts(ratchet[p], m, FALSE)
<1> DEFINE r == ratchet[p]
<1>1. /\ IInv /\ TypeOK /\ r \in Ratchets /\ m \in sent /\ m \in SentTo(p)
      /\ MessageKeysUnique /\ delivered[p] \subseteq SentTo(p)
      /\ ReceiverSound(p, r) /\ NonePassedLost(r, delivered[p])
      /\ m.counter \in Nat /\ m.key = [root |-> m.key.root, steps |-> m.counter]
      /\ m.key.root \in RootKeys
    BY TypeOfParty, GenuineKey, MessageParts DEF RoomInv, SkippedInv, LockstepInv, IInv
<1>2. CASE OnKnownChain(r, m)
    <2>1. PICK i \in 1 .. Len(r.receiver_chains) :
             IsChainFor(r, m, i) /\ r.receiver_chains[i].chain_key.key.root = m.key.root
        BY <1>2 DEF OnKnownChain
    <2> DEFINE chain_key == r.receiver_chains[i].chain_key
    <2>2. chain_key \in ChainKeys /\ chain_key.index \in Nat /\ InStep(chain_key)
        <3>1. r.receiver_chains[i] \in Chains
            BY <1>1, RatchetParts, ListOfChains
        <3>2. InStep(chain_key)
            BY <1>1 DEF ReceiverSound
        <3> QED
            BY <3>1, <3>2, ChainParts
    <2>3. CASE chain_key.index <= m.counter
        <3>1. Opens(chain_key, m)
            BY <1>1, <2>1, <2>2, <2>3, AheadOpens
        <3>2. AcceptsOnChain(r, m, i, FALSE)
            BY <2>1, <3>1 DEF AcceptsOnChain
        <3> QED
            BY <3>2 DEF Accepts
    <2>4. CASE ~(chain_key.index <= m.counter)
        <3>1. m.counter < ChainIndex(r, i) /\ m.counter \in 0 .. ChainIndex(r, i) - 1
            BY <1>1, <2>2, <2>4 DEF ChainIndex
        <3>2. KeptOrRead(r, delivered[p], m.key.root, m.counter)
            BY <1>1, <2>1, <3>1 DEF NonePassedLost
        <3>3. ~(\E d \in delivered[p] : d.key = m.key)
            BY <1>1 DEF MessageKeysUnique, SentTo
        <3>4. PICK k \in 1 .. Len(r.skipped_message_keys) :
                 r.skipped_message_keys[k].message_key.key = m.key
            BY <1>1, <3>2, <3>3 DEF KeptOrRead
        <3>5. PassedOver(p, m)
            BY <2>1, <3>1 DEF PassedOver
        <3> QED
            BY <1>1, <3>4, <3>5, KeptIsAccepted
    <2> QED
        BY <2>3, <2>4
<1>3. CASE OnNextChain(r, m)
    <2> DEFINE chain_key == FirstChainKey(m.key.root)
    <2>1. NewChainFor(r, m).chain_key = chain_key
        BY <1>3 DEF OnNextChain, NewChainFor
    <2>2. /\ chain_key \in ChainKeys /\ chain_key.index = 0 /\ InStep(chain_key)
          /\ chain_key.key.root = m.key.root
        BY <1>1, FirstChainKeyFacts DEF InStep
    <2> HIDE DEF chain_key
    <2>3. Opens(chain_key, m)
        <3>1. chain_key.index <= m.counter
            BY <1>1, <2>2
        <3> QED
            BY <1>1, <2>2, <3>1, AheadOpens
    <2>4. AcceptsOnNewChain(r, m)
        BY <1>3, <2>1, <2>3 DEF AcceptsOnNewChain, OnNextChain
    <2> QED
        BY <2>4 DEF Accepts
<1> QED
    BY <1>1, <1>2, <1>3, KnownOrNext

LEMMA RoomyReports ==
    ASSUME Room, RoomInv, NEW p \in Party, NEW m \in delivered[p]
    PROVE  Rejects(ratchet[p], m, FALSE, "OLM_ALREADY_DECRYPTED_OR_KEYS_SKIPPED")
<1> DEFINE r == ratchet[p]
<1>1. /\ IInv /\ TypeOK /\ r \in Ratchets /\ m \in SentTo(p)
      /\ DeliveredSound(r, delivered[p])
    BY TypeOfParty DEF RoomInv, SkippedInv, LockstepInv, IInv
<1>2. ~OnNextChain(r, m)
    <2> SUFFICES ASSUME OnNextChain(r, m) PROVE FALSE
        OBVIOUS
    <2>1. m.key.root = NewRootFor(r, m) /\ r.sender_chain # <<>>
        BY DEF OnNextChain
    <2>2. /\ m.ratchet_key \in RatchetKeys /\ Len(r.receiver_chains) <= MAX_RECEIVER_CHAINS
          /\ r.root_key \in RootKeys
        BY <1>1, TypeOfParty, MessageParts, RatchetParts
    <2>3. RootLength(m.key.root) = RootLength(r.root_key) + 1
        BY <1>1, <2>1, <2>2, AddReceiverChainFacts
    <2>4. RootLength(m.key.root) <= RootLength(r.root_key) /\ RootLength(r.root_key) \in Nat
        BY <1>1, <2>2, RootLengthType DEF DeliveredSound
    <2> QED
        BY <2>3, <2>4
<1>3. PICK i \in 1 .. Len(r.receiver_chains) :
         IsChainFor(r, m, i) /\ r.receiver_chains[i].chain_key.key.root = m.key.root
    BY <1>1, <1>2, KnownOrNext DEF OnKnownChain
<1>4. m.counter < r.receiver_chains[i].chain_key.index
    BY <1>1, <1>3 DEF DeliveredSound, ChainIndex
<1>5. \A j \in 1 .. Len(r.skipped_message_keys) : ~IsSkippedKeyFor(r, m, j)
    BY <1>1 DEF DeliveredSound, IsSkippedKeyFor
<1> QED
    BY <1>3, <1>4, <1>5 DEF Rejects

(* With room for the messages that are sent, none is ever lost to its      *)
(* recipient (ratchet.cpp, decrypt): in whatever order they arrive, what   *)
(* was not decrypted can be, and what was is reported as a duplicate.      *)
THEOREM NothingLostInRoom ==
    ASSUME Room
    PROVE  Spec => [](UndeliveredAccepted /\ DuplicatesReported)
<1>1. RoomInv => UndeliveredAccepted /\ DuplicatesReported
    BY RoomyAccepts, RoomyReports DEF UndeliveredAccepted, DuplicatesReported
<1> QED
    BY <1>1, RoomInvariance, PTL
=============================================================================
