------------------------------ MODULE Ratchet ------------------------------
(***************************************************************************)
(* olm::Ratchet (src/ratchet.cpp): the double ratchet of one end of a      *)
(* session, as operators on a ratchet value.  Every operator that changes  *)
(* state returns the new value; the predicates are the conditions under    *)
(* which Ratchet::decrypt accepts or rejects a message.                    *)
(*                                                                         *)
(* Keys are symbolic.  A ratchet (Curve25519) key is [owner, n]: the n-th  *)
(* key its owner generated.  ECDH is the unordered pair of the two keys.   *)
(* A root key is the initial shared secret and the sequence of ECDH        *)
(* results mixed into it.  A chain or message key is the root key it was   *)
(* derived with and the number of HMAC steps taken since.  Two keys are    *)
(* equal exactly when they were derived the same way, and a MAC verifies   *)
(* exactly when the key it is checked with is the key it was made with.    *)
(***************************************************************************)
EXTENDS Integers, Sequences, OlmList

CONSTANTS
    MAX_MESSAGE_GAP,            \* hashes decrypt is prepared to compute (2000)
    MAX_RECEIVER_CHAINS,        \* capacity of receiver_chains (5)
    MAX_SKIPPED_MESSAGE_KEYS    \* capacity of skipped_message_keys (40)

ASSUME RatchetLimits ==
    /\ MAX_MESSAGE_GAP \in Nat
    /\ MAX_RECEIVER_CHAINS \in Nat \ {0}
    /\ MAX_SKIPPED_MESSAGE_KEYS \in Nat \ {0}

-----------------------------------------------------------------------------
(* Key derivation.                                                         *)

InitialRootKey(secret) == [secret |-> secret, dhs |-> <<>>]

SharedSecret(our_key, their_key) == {our_key, their_key}

(* create_chain_key(): the new root key; FirstChainKey of it is the chain  *)
(* key derived along with it.                                              *)
NextRootKey(root_key, our_key, their_key) ==
    [secret |-> root_key.secret,
     dhs |-> Append(root_key.dhs, SharedSecret(our_key, their_key))]

FirstChainKey(root_key) == [index |-> 0, key |-> [root |-> root_key, steps |-> 0]]

(* advance_chain_key(), count times.                                       *)
AdvanceChainKey(chain_key, count) ==
    [index |-> chain_key.index + count,
     key |-> [chain_key.key EXCEPT !.steps = @ + count]]

(* create_message_keys(): the message key of a chain key.  The seed byte   *)
(* that tells the two apart is left out: they are never compared.          *)
CreateMessageKey(chain_key) == [index |-> chain_key.index, key |-> chain_key.key]

-----------------------------------------------------------------------------
(* Initialisation.                                                         *)

InitialiseAsAlice(secret, our_ratchet_key) ==
    [root_key |-> InitialRootKey(secret),
     sender_chain |-> <<[ratchet_key |-> our_ratchet_key,
                         chain_key |-> FirstChainKey(InitialRootKey(secret))]>>,
     receiver_chains |-> <<>>,
     skipped_message_keys |-> <<>>]

(* Mutant: the receiver chain is not made.                                 *)
InitialiseAsBobWithoutChain(secret, their_ratchet_key) ==
    [root_key |-> InitialRootKey(secret), sender_chain |-> <<>>,
     receiver_chains |-> <<>>, skipped_message_keys |-> <<>>]

InitialiseAsBob(secret, their_ratchet_key) ==
    [root_key |-> InitialRootKey(secret),
     sender_chain |-> <<>>,
     receiver_chains |-> <<[ratchet_key |-> their_ratchet_key,
                            chain_key |-> FirstChainKey(InitialRootKey(secret))]>>,
     skipped_message_keys |-> <<>>]

-----------------------------------------------------------------------------
(* Encryption.                                                             *)

(* encrypt() starts a sender chain, with a fresh key, when there is none:  *)
(* it combines the key with that of the newest receiver chain.             *)
EnsureSenderChain(r, fresh_key) ==
    IF r.sender_chain # <<>> THEN r
    ELSE LET root == NextRootKey(r.root_key, fresh_key, r.receiver_chains[1].ratchet_key)
         IN  [r EXCEPT !.root_key = root,
                       !.sender_chain = <<[ratchet_key |-> fresh_key,
                                           chain_key |-> FirstChainKey(root)]>>]

(* The parts of the message that encrypt() writes: the header, and the key *)
(* its MAC and ciphertext are made with.                                   *)
EncryptedHeader(r) ==
    LET keys == CreateMessageKey(r.sender_chain[1].chain_key)
    IN  [ratchet_key |-> r.sender_chain[1].ratchet_key,
         counter |-> keys.index,
         key |-> keys.key]

(* Mutant: the chain key is used and not advanced.                         *)
AdvanceSenderChainNot(r) == r

AdvanceSenderChain(r) ==
    [r EXCEPT !.sender_chain = <<[ratchet_key |-> @[1].ratchet_key,
                                  chain_key |-> AdvanceChainKey(@[1].chain_key, 1)]>>]

-----------------------------------------------------------------------------
(* Decryption: which key a message is tried with.                          *)

(* Chain i is the first receiver chain with the message's ratchet key.     *)
IsChainFor(r, m, i) ==
    /\ i \in 1 .. Len(r.receiver_chains)
    /\ r.receiver_chains[i].ratchet_key = m.ratchet_key
    /\ \A j \in 1 .. i - 1 : r.receiver_chains[j].ratchet_key # m.ratchet_key

HasChainFor(r, m) ==
    \E i \in 1 .. Len(r.receiver_chains) : r.receiver_chains[i].ratchet_key = m.ratchet_key

ChainIndex(r, i) == r.receiver_chains[i].chain_key.index

(* The receiver chain of a ratchet key not seen before, and the root key   *)
(* it is derived with.                                                     *)
NewRootFor(r, m) == NextRootKey(r.root_key, r.sender_chain[1].ratchet_key, m.ratchet_key)

NewChainFor(r, m) ==
    [ratchet_key |-> m.ratchet_key, chain_key |-> FirstChainKey(NewRootFor(r, m))]

WithinGap(chain_key, m) == m.counter - chain_key.index <= MAX_MESSAGE_GAP

(* Mutant: any MAC will do.                                                *)
MacUnchecked(chain_key, m) == TRUE

(* The MAC is checked with the message key that lies the right number of   *)
(* steps beyond the chain key.                                             *)
MacMatches(chain_key, m) ==
    CreateMessageKey(AdvanceChainKey(chain_key, m.counter - chain_key.index)).key = m.key

(* verify_mac_and_decrypt_for_existing_chain() succeeds.                   *)
Opens(chain_key, m) ==
    /\ chain_key.index <= m.counter
    /\ WithinGap(chain_key, m)
    /\ MacMatches(chain_key, m)

(* Entry j of skipped_message_keys is for m, and opens it.                 *)
IsSkippedKeyFor(r, m, j) ==
    /\ j \in 1 .. Len(r.skipped_message_keys)
    /\ r.skipped_message_keys[j].ratchet_key = m.ratchet_key
    /\ r.skipped_message_keys[j].message_key.index = m.counter
    /\ r.skipped_message_keys[j].message_key.key = m.key

-----------------------------------------------------------------------------
(* Decryption: the three ways decrypt() succeeds.  sequential is its       *)
(* is_sequential argument; only the branch of a known chain looks at it.   *)

AcceptsOnNewChain(r, m) ==
    /\ ~HasChainFor(r, m)
    /\ r.sender_chain # <<>>
    /\ Opens(NewChainFor(r, m).chain_key, m)

AcceptsOnChain(r, m, i, sequential) ==
    /\ IsChainFor(r, m, i)
    /\ sequential => m.counter <= ChainIndex(r, i)
    /\ Opens(r.receiver_chains[i].chain_key, m)

AcceptsSkipped(r, m, j) ==
    /\ \E i \in 1 .. Len(r.receiver_chains) :
          IsChainFor(r, m, i) /\ m.counter < ChainIndex(r, i)
    /\ IsSkippedKeyFor(r, m, j)
    /\ \A k \in 1 .. j - 1 : ~IsSkippedKeyFor(r, m, k)

Accepts(r, m, sequential) ==
    \/ AcceptsOnNewChain(r, m)
    \/ \E i \in 1 .. Len(r.receiver_chains) : AcceptsOnChain(r, m, i, sequential)
    \/ \E j \in 1 .. Len(r.skipped_message_keys) : AcceptsSkipped(r, m, j)

(* decrypt() fails with the given error code, changing nothing.            *)
Rejects(r, m, sequential, error) ==
    \/ /\ error = "OLM_SENDER_CHAIN_NOT_ACKNOWLEDGED"
       /\ ~HasChainFor(r, m) /\ r.sender_chain = <<>>
    \/ /\ ~HasChainFor(r, m) /\ r.sender_chain # <<>>
       /\ LET chain_key == NewChainFor(r, m).chain_key IN
          \/ error = "OLM_MAX_MESSAGE_GAP_EXCEEDED" /\ ~WithinGap(chain_key, m)
          \/ /\ error = "OLM_BAD_MESSAGE_MAC"
             /\ WithinGap(chain_key, m) /\ ~MacMatches(chain_key, m)
    \/ \E i \in 1 .. Len(r.receiver_chains) :
          /\ IsChainFor(r, m, i)
          /\ LET chain_key == r.receiver_chains[i].chain_key IN
             \/ /\ error = "OLM_MESSAGE_OUT_OF_ORDER"
                /\ sequential /\ chain_key.index < m.counter
             \/ /\ error = "OLM_ALREADY_DECRYPTED_OR_KEYS_SKIPPED"
                /\ m.counter < chain_key.index
                /\ \A j \in 1 .. Len(r.skipped_message_keys) : ~IsSkippedKeyFor(r, m, j)
             \/ /\ chain_key.index <= m.counter
                /\ sequential => m.counter <= chain_key.index
                /\ \/ error = "OLM_MAX_MESSAGE_GAP_EXCEEDED" /\ ~WithinGap(chain_key, m)
                   \/ /\ error = "OLM_BAD_MESSAGE_MAC"
                      /\ WithinGap(chain_key, m) /\ ~MacMatches(chain_key, m)

DecryptErrors ==
    {"OLM_SENDER_CHAIN_NOT_ACKNOWLEDGED", "OLM_MAX_MESSAGE_GAP_EXCEEDED",
     "OLM_MESSAGE_OUT_OF_ORDER", "OLM_ALREADY_DECRYPTED_OR_KEYS_SKIPPED",
     "OLM_BAD_MESSAGE_MAC"}

-----------------------------------------------------------------------------
(* Decryption: the new ratchet.                                            *)

(* Mutants: the message's own key is kept; the oldest key comes first.     *)
SkippedUpToInclusive(chain, counter) ==
    [j \in 1 .. counter + 1 - chain.chain_key.index |->
        [ratchet_key |-> chain.ratchet_key,
         message_key |-> CreateMessageKey(
             AdvanceChainKey(chain.chain_key, counter + 1 - chain.chain_key.index - j))]]

SkippedUpToOldestFirst(chain, counter) ==
    [j \in 1 .. counter - chain.chain_key.index |->
        [ratchet_key |-> chain.ratchet_key,
         message_key |-> CreateMessageKey(AdvanceChainKey(chain.chain_key, j - 1))]]

(* The keys from the chain's index up to the message's, newest first.      *)
SkippedUpTo(chain, counter) ==
    [j \in 1 .. counter - chain.chain_key.index |->
        [ratchet_key |-> chain.ratchet_key,
         message_key |-> CreateMessageKey(
             AdvanceChainKey(chain.chain_key, counter - chain.chain_key.index - j))]]

(* Mutants: the chain stops at the message's key; no skipped key is kept.  *)
AdvanceReceiverChainTo(r, i, counter) ==
    LET chain == r.receiver_chains[i]
    IN  [r EXCEPT
            !.skipped_message_keys =
                ListInsertAll(SkippedUpTo(chain, counter), @, MAX_SKIPPED_MESSAGE_KEYS),
            !.receiver_chains[i].chain_key =
                AdvanceChainKey(@, counter - chain.chain_key.index)]

AdvanceReceiverChainForgetting(r, i, counter) ==
    [r EXCEPT !.receiver_chains[i].chain_key =
                  AdvanceChainKey(@, counter + 1 - @.index)]

(* The end of decrypt(): chain i is moved beyond the message, the keys it  *)
(* passes are kept.                                                        *)
AdvanceReceiverChain(r, i, counter) ==
    LET chain == r.receiver_chains[i]
    IN  [r EXCEPT
            !.skipped_message_keys =
                ListInsertAll(SkippedUpTo(chain, counter), @, MAX_SKIPPED_MESSAGE_KEYS),
            !.receiver_chains =
                [@ EXCEPT ![i] =
                    [ratchet_key |-> chain.ratchet_key,
                     chain_key |-> AdvanceChainKey(chain.chain_key,
                                                   counter + 1 - chain.chain_key.index)]]]

(* Mutant: the new root key is not kept.                                   *)
AddReceiverChainOldRoot(r, m) ==
    [r EXCEPT !.receiver_chains = ListInsert(@, 1, NewChainFor(r, m), MAX_RECEIVER_CHAINS),
              !.sender_chain = <<>>]

(* The peer has moved to a new ratchet key: the new chain goes in front,   *)
(* and the sender chain made with our old key is dropped.                  *)
AddReceiverChain(r, m) ==
    [r EXCEPT !.root_key = NewRootFor(r, m),
              !.receiver_chains = ListInsert(@, 1, NewChainFor(r, m), MAX_RECEIVER_CHAINS),
              !.sender_chain = <<>>]

(* Mutant: a used key stays.                                               *)
UseSkippedKept(r, j) == r

UseSkipped(r, j) == [r EXCEPT !.skipped_message_keys = ListErase(@, j)]
=============================================================================
