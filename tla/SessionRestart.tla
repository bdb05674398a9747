--------------------------- MODULE SessionRestart ---------------------------
(***************************************************************************)
(* The pair of sessions of SessionPair when devices stop at any moment and *)
(* start again from what they stored.  A session object lives in memory;   *)
(* what survives is its last pickle (olm_pickle_session), from which the   *)
(* device goes on (olm_unpickle_session).                                  *)
(*                                                                         *)
(* The application is external to the library.  It stores the session      *)
(* after each call that changed it, and before anything of that call can   *)
(* be seen: before a message leaves the device, before a plaintext is      *)
(* handed on.  Saving is then the moment at which the call takes effect,   *)
(* and Pair, the pair of sessions that never stops, is what users see.     *)
(*                                                                         *)
(* The fresh ratchet key of a call that was lost left no trace, so its     *)
(* name is used again for the next one (UnsavedKeysUnseen).                *)
(***************************************************************************)
EXTENDS SessionPickle

CONSTANTS
    MAX_MESSAGE_GAP, Alice, Bob, Secret, Noise,     \* as in SessionPair
    DamagedCounters, DamagedKeys, Modes, MaxSends

ASSUME RestartAssumption ==
    /\ MAX_RECEIVER_CHAINS \in Nat \ {0}
    /\ MAX_SKIPPED_MESSAGE_KEYS \in Nat \ {0}
    /\ DamagedCounters \subseteq Nat
    /\ Alice # Bob

(* What SessionPair asks of its constants beyond that.                     *)
ASSUME PairAssumption ==
    /\ MAX_MESSAGE_GAP \in Nat
    /\ Noise # Secret
    /\ DamagedKeys \subseteq [owner : {Alice, Bob}, n : Nat]
    /\ Modes \subseteq BOOLEAN
    /\ MaxSends \in Nat

VARIABLES
    session,            \* the session object of each party
    stored,             \* its last pickle
    call,               \* what a party has called since: nothing, or an
                        \* olm_encrypt or olm_decrypt and the message of it
    generated, sent, encrypted,     \* as in SessionPair, of the calls whose
    delivered, decrypted            \* session has been saved

vars == <<session, stored, call, generated, sent, encrypted, delivered, decrypted>>

Restored(p) == UnpickleSession(stored[p])

Pair == INSTANCE SessionPair WITH
    ratchet <- [p \in {Alice, Bob} |-> Restored(p).ratchet],
    received_message <- [p \in {Alice, Bob} |-> Restored(p).received_message]

Party == {Alice, Bob}

-----------------------------------------------------------------------------
(* Both ends know the keys the session was made with.                      *)
InitialSession(r) ==
    [received_message |-> FALSE,
     alice_identity_key |-> "I_A", alice_base_key |-> "E_A",
     bob_one_time_key |-> "E_B", bob_prekey |-> "P_B", ratchet |-> r]

Init ==
    /\ session = [p \in Party |->
            InitialSession(IF p = Alice
                           THEN Pair!InitialiseAsAlice(Secret, Pair!RatchetKey(Alice, 0))
                           ELSE Pair!InitialiseAsBob(Secret, Pair!RatchetKey(Alice, 0)))]
    /\ stored = [p \in Party |-> PickleSession(session[p])]
    /\ call = [p \in Party |-> <<>>]
    /\ generated = [p \in Party |-> IF p = Alice THEN 1 ELSE 0]
    /\ sent = {}
    /\ encrypted = [p \in Party |-> 0]
    /\ delivered = [p \in Party |-> {}]
    /\ decrypted = [p \in Party |-> 0]

(* The message encrypt() writes, of the session object.                    *)
Message(p, s, r) ==
    LET header == Pair!EncryptedHeader(r)
    IN  [from |-> p, body |-> encrypted[p],
         type |-> IF s.received_message THEN "MESSAGE" ELSE "PRE_KEY",
         ratchet_key |-> header.ratchet_key, counter |-> header.counter,
         key |-> header.key]

Called(p, op, message, r) ==
    /\ call' = [call EXCEPT ![p] = <<[op |-> op, message |-> message]>>]
    /\ session' = [session EXCEPT ![p].ratchet = r,
                                  ![p].received_message = @ \/ op = "decrypt"]
    /\ UNCHANGED <<stored, generated, sent, encrypted, delivered, decrypted>>

(* Mutant: the message leaves the device before the session is saved.      *)
EncryptSendsFirst(p) ==
    LET r == Pair!EnsureSenderChain(session[p].ratchet, Pair!RatchetKey(p, generated[p])) IN
    /\ call[p] = <<>>
    /\ Pair!HasSession(p)
    /\ encrypted[p] < MaxSends
    /\ call' = [call EXCEPT ![p] = <<[op |-> "encrypt", message |-> Message(p, session[p], r)]>>]
    /\ session' = [session EXCEPT ![p].ratchet = Pair!AdvanceSenderChain(r)]
    /\ sent' = sent \cup {Message(p, session[p], r)}
    /\ UNCHANGED <<stored, generated, encrypted, delivered, decrypted>>

(* olm_encrypt().                                                          *)
Encrypt(p) ==
    LET r == Pair!EnsureSenderChain(session[p].ratchet, Pair!RatchetKey(p, generated[p])) IN
    /\ call[p] = <<>>
    /\ Pair!HasSession(p)
    /\ encrypted[p] < MaxSends
    /\ Called(p, "encrypt", Message(p, session[p], r), Pair!AdvanceSenderChain(r))

(* olm_decrypt() and olm_decrypt_sequential() succeed; when they fail they *)
(* leave the session as it was, and nothing needs to be saved.             *)
DecryptOnNewChain(p, m) ==
    LET r == session[p].ratchet IN
    /\ Pair!AcceptsOnNewChain(r, m)
    /\ Called(p, "decrypt", m,
              Pair!AdvanceReceiverChain(Pair!AddReceiverChain(r, m), 1, m.counter))

DecryptOnChain(p, m, sequential) ==
    LET r == session[p].ratchet IN
    \E i \in 1 .. Len(r.receiver_chains) :
        /\ Pair!AcceptsOnChain(r, m, i, sequential)
        /\ Called(p, "decrypt", m, Pair!AdvanceReceiverChain(r, i, m.counter))

DecryptSkipped(p, m) ==
    LET r == session[p].ratchet IN
    \E j \in 1 .. Len(r.skipped_message_keys) :
        /\ Pair!AcceptsSkipped(r, m, j)
        /\ Called(p, "decrypt", m, Pair!UseSkipped(r, j))

Decrypt(p, m, sequential) ==
    /\ call[p] = <<>>
    /\ \/ DecryptOnNewChain(p, m)
       \/ DecryptOnChain(p, m, sequential)
       \/ DecryptSkipped(p, m)

(* The session is saved, and what was called takes effect.                 *)
SaveEncrypted(p, m) ==
    /\ sent' = sent \cup {m}
    /\ encrypted' = [encrypted EXCEPT ![p] = @ + 1]
    /\ generated' = [generated EXCEPT ![p] =
                        IF m.ratchet_key = Pair!RatchetKey(p, @) THEN @ + 1 ELSE @]
    /\ UNCHANGED <<delivered, decrypted>>

SaveDecrypted(p, m) ==
    /\ delivered' = [delivered EXCEPT ![p] = @ \cup {m}]
    /\ decrypted' = [decrypted EXCEPT ![p] = @ + 1]
    /\ UNCHANGED <<generated, sent, encrypted>>

Save(p) ==
    /\ call[p] # <<>>
    /\ stored' = [stored EXCEPT ![p] = PickleSession(session[p])]
    /\ \/ call[p][1].op = "encrypt" /\ SaveEncrypted(p, call[p][1].message)
       \/ call[p][1].op = "decrypt" /\ SaveDecrypted(p, call[p][1].message)
    /\ call' = [call EXCEPT ![p] = <<>>]
    /\ UNCHANGED session

(* The device stops and starts again: what was not saved did not happen.   *)
Restart(p) ==
    /\ UnpickleSessionError(stored[p]) = "OLM_SUCCESS"
    /\ session' = [session EXCEPT ![p] = Restored(p)]
    /\ call' = [call EXCEPT ![p] = <<>>]
    /\ UNCHANGED <<stored, generated, sent, encrypted, delivered, decrypted>>

Next ==
    \E p \in Party :
        \/ Encrypt(p)
        \/ \E m \in Pair!Frames(p), sequential \in Modes : Decrypt(p, m, sequential)
        \/ Save(p)
        \/ Restart(p)

Spec == Init /\ [][Next]_vars

(* An application that keeps handing over what has not been decrypted yet, *)
(* on a device that stops as often as it likes but not every time before   *)
(* it could save; having stopped, it starts again.                         *)
DecryptUndelivered(p) ==
    \E m \in Pair!SentTo(p) \ delivered[p] : Decrypt(p, m, FALSE)

SaveDecryption(p) == call[p] # <<>> /\ call[p][1].op = "decrypt" /\ Save(p)

FairSpec ==
    /\ Spec
    /\ \A p \in Party :
          /\ WF_vars(call[p] # <<>> /\ (Save(p) \/ Restart(p)))
          /\ SF_vars(DecryptUndelivered(p))
          /\ SF_vars(SaveDecryption(p))
-----------------------------------------------------------------------------
(* Users see a pair of sessions that never stops: whatever is lost with a  *)
(* device's memory, the safety of SessionPair holds of what was stored,    *)
(* sent and handed on, and so does that of the channel it implements.      *)
PairSpec == Pair!Spec

(* A ratchet key that is not saved is nowhere but in the object that made  *)
(* it.                                                                     *)
KeysOf(r) ==
    {r.sender_chain[i].ratchet_key : i \in 1 .. Len(r.sender_chain)}
    \cup {r.receiver_chains[i].ratchet_key : i \in 1 .. Len(r.receiver_chains)}
    \cup {r.skipped_message_keys[j].ratchet_key : j \in 1 .. Len(r.skipped_message_keys)}
    \cup UNION {r.root_key.dhs[i] : i \in 1 .. Len(r.root_key.dhs)}

UnsavedKeysUnseen ==
    \A p \in Party :
        LET seen == {m.ratchet_key : m \in sent} \cup KeysOf(Restored(p).ratchet)
                    \cup KeysOf(session[Pair!Peer(p)].ratchet)
        IN  \A k \in seen : k.owner = p => k.n < generated[p]

(* A pickle holds all that matters of a session: a device that stops when  *)
(* nothing is unsaved goes on exactly where it was.                        *)
(* A pickle that ends too soon, or has something behind it, is refused;    *)
(* but for one that ends between two skipped keys, whose missing entries   *)
(* unpickle() does not miss: that session has lost its oldest skipped      *)
(* keys and nothing else.  A pickle of the logging branch is read as the   *)
(* same session.                                                           *)
OnlySkippedKeysLost(cut, whole) ==
    LET n == Len(cut.ratchet.skipped_message_keys) IN
    /\ n < Len(whole.ratchet.skipped_message_keys)
    /\ cut = [whole EXCEPT !.ratchet.skipped_message_keys = SubSeq(@, 1, n)]

DamagedPicklesRefused(p) ==
    /\ \A cut \in Cuts(stored[p]) :
          UnpickleSessionError(cut) = "OLM_SUCCESS"
          => OnlySkippedKeysLost(UnpickleSession(cut), Restored(p))
    /\ UnpickleSessionError(Extended(stored[p], 0)) = "OLM_PICKLE_EXTRA_DATA"

LoggingPickleRead(p) ==
    LET pickle == PickleSessionLogging(session[p]) IN
    /\ UnpickleSessionError(pickle) = "OLM_SUCCESS"
    /\ UnpickleSession(pickle) = session[p]
    /\ \A cut \in Cuts(pickle) : UnpickleSessionError(cut) # "OLM_SUCCESS"

SessionPickledWhole ==
    \A p \in Party :
        /\ call[p] = <<>> => session[p] = Restored(p)
        /\ DamagedPicklesRefused(p)
        /\ LoggingPickleRead(p)

(* While no limit is exceeded, what was not decrypted can be, and what was *)
(* is known to have been, whatever devices were taken back to.             *)
NoMessageLost == Pair!UndeliveredAccepted /\ Pair!DuplicatesReported

(* Every message is decrypted and its plaintext handed on in the end,      *)
(* however often the devices stop.                                         *)
EventuallyDelivered ==
    \A p \in Party : \A body \in 0 .. MaxSends - 1 :
        (\E m \in Pair!SentTo(p) : m.body = body) ~> (\E m \in delivered[p] : m.body = body)
=============================================================================
