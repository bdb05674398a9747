# TLA+ models of olm

olm is a C/C++ library that gives an application end-to-end encryption between
two devices (Olm: X3DH and the double ratchet) and within a group of devices
(Megolm). The library does no input or output: the application calls it, sends
what it returns over some network, and stores its objects as pickles. There is
no concurrency inside the library and no lock; an object is used by one thread
at a time. What makes the code hard is the *protocol*: the two ends of a session
only ever see each other's messages, which the network loses, repeats, reorders
and damages, and each end must keep exactly the keys that the messages still
under way need, and no others, in lists of fixed capacity.

## 1. Inventory

| component | source | state | operations | correct when |
|---|---|---|---|---|
| List | `include/olm/list.hh` | `_data`, `_end` | `insert`, `erase` | never outgrows its array; a full list gives up its end |
| Double ratchet | `src/ratchet.cpp`, `ratchet.hh` | root key, sender chain (0 or 1), up to 5 receiver chains, up to 40 skipped message keys | `initialise_as_alice/bob`, `encrypt`, `decrypt` | both ends derive the same keys whatever the order of messages; no key serves twice; a used key is erased; a message is accepted once |
| Session | `src/session.cpp`, `src/olm.cpp` | identity, base, one-time and pre-key of the set-up; `received_message`; a ratchet | `new_outbound_session`, `new_inbound_session`, `matches_inbound_session`, `session_id`, `encrypt`, `decrypt` | both ends agree on the secret; each pre-key message leads to one session |
| Account | `src/account.cpp` | identity keys, up to 100 one-time keys, current and previous pre-key, current and previous fallback key, id counters, published flags | generate, publish, look up, remove, rotate, forget | a key handed out is still there when a message that uses it arrives; a removed key never serves again |
| Megolm ratchet | `src/megolm.c` | 4 parts of 32 bytes, 32-bit counter | `advance`, `advance_to` | `advance_to` equals repeated `advance`, also across wrap-around; no way back |
| Outbound group session | `src/outbound_group_session.c` | Megolm ratchet, signing key | `init`, `encrypt`, `session_key` | every index is used once; the session key opens exactly what follows it |
| Inbound group session | `src/inbound_group_session.c` | first and latest known ratchet, public signing key, verified flag | `init`, `import`, `export`, `decrypt` | every message from the first known index on decrypts in any order, none before it |
| Pickling | `src/pickle*.cpp`, `src/pickle_encoding.c` and the pickle functions of each object | the stored bytes, their version | `pickle`, `unpickle` | what is read back is what was written; a damaged pickle is refused; old versions are read with the right defaults |
| SAS | `src/sas.c` | key pair, secret, whether their key is set | `create`, `clear`, `set_their_key`, `generate_bytes`, `calculate_mac` | nothing is produced before the peer's key is known; both ends agree |
| PK encryption | `src/pk.cpp` | key pair | `encrypt`, `decrypt`, `sign` | decryption inverts encryption |
| Message codec | `src/message.cpp` | the position of a reader during a call | encode and decode the messages | decoding inverts encoding, unknown fields are passed over, nothing is read outside the input, every input is read to its end |
| Base64 | `src/base64.cpp` | the position during a call | encode and decode, in place | what is not read yet is not overwritten; decoding inverts encoding |
| Utility, memory, errors | `src/utility.cpp`, `src/memory.cpp`, `src/error.c` | none | hash, compare, zero | |
| Primitives | `src/crypto.cpp`, `src/cipher.cpp`, `lib/` | none | hashes, HKDF, AES, Curve25519, Ed25519 | out of scope: taken as ideal |
| C interface | `src/olm.cpp`, `include/olm/*.h` | none of its own | checks lengths, decodes base64, calls the above | a call that is refused changes nothing |
| Bindings | `android/`, `javascript/`, `python/`, `xcode/` | a handle on a C object; buffers during a call | the calls of the C interface | the handle names a live object; a call that fails half way frees and wipes what it made |

How they interact. An application creates an *account*, uploads its public keys
to a server and marks them as published. A second application claims a one-time
key (or, when none is left, the fallback key or the pre-key alone), creates an
outbound *session* with it and sends pre-key messages, from the first of which
the first application creates an inbound session, looking the keys up in its
account and removing the one-time key afterwards. From then on the two sessions
drive a *double ratchet* each. A *group session* is shared by sending its session
key over such sessions to every member; its messages reach all of them.

The hard behaviours: messages out of order, repeated, lost and damaged at every
point of both ratchets; the two sides turning the ratchet at the same time; lists
at their limit; a failing call that has already computed half of its result;
keys rotated, discarded, or removed while messages that use them are under way;
counters at their width; a device that stops and goes on from a pickle older than
what it sent or read; a pickle or message that was cut short; an output that is
written over the input it is made from; a native function of a binding of which one
step of many fails.
Section 10 of this file and the hazards of `PROJECT.json` give the places.

## 2. Plan

1. `OlmList`, `Ratchet`, `SessionPair`: the double ratchet between two parties
   over a bad network, with `MessageChannel` as what it promises. *(checked)*
2. `SessionPairInvariant`, `OlmListProofs`, `SessionPairProofs`: the inductive
   invariants and their proofs. *(proved)*
3. `Megolm`, `MegolmSteps`, `GroupSession`: the group ratchet, one sender and its
   members. *(checked and, with their restarts, proved in `MegolmProofs`)*
4. `Account`, `SessionSetup`: an account, the server, and the way from a claimed
   key to a session with an agreed secret. *(checked and proved, in `AccountProofs`)*
5. `Pickle` and the pickles of each object, and what happens when devices stop and
   go on from them: `SessionRestart`, which implements `SessionPair`,
   `AccountRestart`, `GroupRestart`. *(checked and, but for what section 11 lists,
   proved: in `SessionRestartProofs`, `AccountProofs`, `MegolmProofs`)*
6. `MessageCodec`, `Base64`. *(checked; proved in `MessageCodecProofs` and `Base64Proofs`,
   but for termination)*
7. `Sas`. *(checked and proved, in `ClientProofs`)*
8. `JniSteps`, `AndroidCalls`, `AndroidObject`: the Android binding. *(checked and proved,
   in `ClientProofs`)*
9. Left: a composition of 4 and 1, from a claimed key to a conversation; PK
   encryption; the other bindings.

Which module builds on which:

    OlmList <- Ratchet <- SessionPair <- SessionPairInvariant <- SessionPairProofs
                          SessionPair INSTANCEs MessageChannel
    OlmList <- Pickle <- SessionPickle <- SessionRestart, which INSTANCEs SessionPair
                                        SessionRestart <- SessionRestartProofs
    OlmList <- Account <- SessionSetup <- AccountRestart -> AccountPickle -> Pickle
                                         AccountRestart <- AccountProofs
    Megolm <- GroupSession <- GroupRestart -> GroupPickle -> Pickle
              GroupRestart <- MegolmProofs -> MegolmSteps
    Megolm <- MegolmSteps;  MessageCodec <- MessageCodecProofs;  Base64 <- Base64Proofs
    JniSteps <- AndroidCalls <- AndroidObject <- ClientProofs -> Sas

## 3. The double ratchet: `OlmList`, `Ratchet`, `SessionPair`

`Ratchet` has one operator per step of `ratchet.cpp`, on a ratchet *value* (the
four fields of the C++ struct); `SessionPair` holds one such value for each of
the two parties and has one action per call of the C interface:

| action | code |
|---|---|
| `Encrypt(p)` | `olm_encrypt` -> `Session::encrypt` -> `Ratchet::encrypt`: makes a sender chain if there is none, writes the message, advances the chain |
| `DecryptOnNewChain(p, m)` | `decrypt` of a message with a ratchet key not seen before: new root, new chain at the front of the list, our sender chain dropped, then the chain moved beyond the message |
| `DecryptOnChain(p, m, sequential)` | `decrypt` on a known chain at or beyond its index |
| `DecryptSkipped(p, m)` | `decrypt` with a key from the skipped list |
| `DecryptRejected(p, m, sequential)` | every error path; none changes the session |

A call is one step, because the library is called by one thread at a time and
does not call back. Keys are symbolic: a key is the way it was derived, so two
keys are equal exactly when they were derived the same way, and a MAC verifies
exactly when the key it is checked with is the one it was made with. Message
bodies are numbers. The network is the set `sent`: any message may arrive at any
time, any number of times or never, and with its counter, ratchet key or body
damaged (`Frames`). `last_error` is left out, since no path reads it; the errors a
call answers with are the predicate `Rejects`.

The history variables `delivered` and `decrypted` record what each party's
application was given; no action reads them.

### Runs

| run | what it asks |
|---|---|
| `session_pair` | all safety: lists keep to their capacity, used keys are erased, keys are unique, nothing is replayed, the two ratchets stay in step, chains and skipped keys are given up oldest first, and the session implements `MessageChannel` |

Bounds of `session_pair`: four messages each (`MaxSends`), two receiver chains,
two skipped keys, a gap of three. With four messages each, a party sees up to
four ratchet keys of its peer, so that chains fall off a list of two; one chain can
have a message three beyond its index, which overflows two skipped keys; and a
damaged counter of 7 exceeds the gap. The proofs cover all other values of the
constants. That nothing is lost *below* the limits, and that everything is delivered
in the end, is asked in section 6, where devices also stop.

Deadlock is checked: there is always something to encrypt or a frame to reject.

### What is proved

`SessionPairProofs` proves, for all capacities, gaps, numbers of messages and
kinds of damage, `Spec => []P` for P each of `TypeOK`, `UsedKeysErased`,
`MessageKeysUnique`, `NoReplay`, `EncryptHasPeerKey` (`encrypt` reads
`receiver_chains[0]` without asking whether there is one), `InSync` and
`LosesOldestFirst`, and `Spec => ChannelSpec`.
The assumptions are `RatchetLimits` and `SessionAssumption`, which say that the
constants are numbers of the right range and that damage does not produce the key
of an undamaged message.

None of these is inductive. `IInv` (module `SessionPairInvariant`) adds what makes
it so: every chain is identified by the root key it was derived with; a root key
belongs to one ratchet key; the root keys of a party only get longer, so that the
root of a chain it has dropped can never come up again; and on the chains and
skipped keys a party still has, everything it decrypted lies below the index and
off the list. A new chain has a root longer than all before, which is why a
replayed message cannot enter by it. `OlmListProofs` states what insertion and
erasure do to a list; the proofs about the ratchet rest on these lemmas only.

`InSync` needs more, `LockstepInv` (theorem `Lockstep`): there is always a party that follows the other. It
receives on the chain the other sends on, and either has nothing to send on and the same
root key (`Led`), or has turned the ratchet once more, with its own latest key, and its
peer has seen none of that yet (`Turned`). Which of the two it is changes with each
message on a new chain. That the chains kept are those of the peer's latest ratchet keys is
part of it: a chain goes to the front of the list when its key is seen for the first time,
and the peer makes no new key before it has seen ours. For the skipped keys, `SkippedInv` (`SkippedInvariance`) says
that those of a chain lie newest first, though other chains' keys lie between them, and that of what a chain
passed, nothing above a kept key is lost: the list drops from its end only.

What is lost at the limits is not lost below them. `Room` says what "below" means: of `MaxSends` messages
each, a gap can be `MaxSends - 1` long, `MaxSends` chains can be open, and `MaxSends - 1` keys skipped. (TLC finds a
lost message when any of the three is one smaller.) Under `Room`, `NothingLostInRoom` proves that in whatever
order messages arrive, what was not decrypted would be accepted (`UndeliveredAccepted`) and what was is answered as
a duplicate (`DuplicatesReported`). Its invariant is `RoomInv` (`RoomInvariance`). It counts: a chain's keys are used in turn
by messages that the sender has numbered, so that skipped keys inject into the numbers of messages other than the one that arrives
(`FewKeys`), a new ratchet key is made for a message, and therefore neither list ever has to drop something when
something is inserted. Hence everything a chain has passed is kept or was decrypted, no chain falls off, and by
`LockstepInv` a message on a ratchet key not seen before is on the chain its recipient would derive next (`KnownOrNext`).


## 4. The group ratchet: `Megolm`, `MegolmSteps`, `GroupSession`, `GroupRestart`

`Megolm` has the operations of `megolm.c` on a ratchet value `[data, counter]`. A part
is the random part it started from and the sequence of seeds it was hashed with; the
counter has `MEGOLM_RATCHET_PARTS` digits of `PART_BASE` values, four bytes in the
code, and wraps like an unsigned number of that width.

`MegolmSteps` moves one ratchet by `megolm_advance` and `megolm_advance_to`, and compares
it with `Value`, a closed form that looks at the digits of the index only.

`GroupSession` has one outbound session and the inbound sessions of its members;
`GroupRestart` adds the devices they are on and has the next-state relation of both:

| action | code |
|---|---|
| `EncryptUnsaved`, `ShareSessionKey` | `olm_group_encrypt`, `olm_outbound_group_session_key` |
| `InitInbound(m)`, `ImportInbound(m)` | `_init_group_session_keys`, with and without a signature to check |
| `DecryptSucceeds`, `DecryptBadMac`, `DecryptUnknownIndex`, `DecryptBadSignature` | the ways through `_decrypt`, in the order of its checks; a MAC that does not match leaves the latest ratchet advanced |
| `ExportInbound(m)` | `olm_export_inbound_group_session`, which advances the latest ratchet as well |
| `SaveOutbound`, `RestartOutbound` | `olm_pickle_outbound_group_session`, `olm_unpickle_...`: the messages encrypted since the last pickle leave when the session is saved, or are lost |
| `SaveInbound(m)`, `RestartInbound(m)` | the same of a member's session, which the application saves when it likes |

There is one signing key, so a signature says whether a session key or message is as
the sender made it: a damaged one is refused before anything else is done. An export
has no signature, and arrives as it was made, or with another counter or a damaged part. The
variables `genuine` and `opened` are history: whether a member's key came undamaged all
the way from the sender, and the first index from which it has evidence of that (a
signature, or a message it decrypted).

| run | bounds | what it shows |
|---|---|---|
| `megolm_steps` | four parts, three values of a digit, 243 steps: the counter wraps at 81, three times | `IndexDeterminesValue`: jumps and steps lead to the same value |
| `group_session` | three binary digits, two members, one session key, one export, three messages, exports up to one index ahead of the sender | who can read which messages, also from pickles as old as a member's first; that `signing_key_verified` is evidence; that messages have keys of their own, though the sender stops between encrypting and saving; that no call and no restart spoils a session; that pickles of both formats are read whole and damaged ones refused |

Three values of a digit tell apart "none, one, several" rehashes of a part; the counter
has to wrap for the case in which `advance_to` rehashes a part as often as its digit
has values. In `group_session`, messages and exports ahead of the sender together take
at most half of the indices (`GroupAssumption`), since `_get_megolm` takes an index
for one of the past when it is half of the range ahead: `2^31` in the code.
`StaysReadable` is an action property: what a member could read before a step it can
read after it, whatever the step, unless the session was never saved. With
`ReadsFromFirstIndexOn` it says that a message can be read whenever the application
tries, which is why no liveness is stated. Deadlock is checked.

### What is proved

`MegolmProofs` proves `IndexDeterminesValue` of `MegolmSteps` for any number of parts, any `PART_BASE` from 2
on and any number of steps, and the properties of the run `group_session`, all of
them under restarts and damage, for any number of members, messages and exports (`MaxExports`) within
`GroupAssumption`. The other assumptions are `MegolmAssumption`, that there
are parts and digits with two values or more, and `NoSessionAssumption`, that the mark of "no session" is not
a session.

*The ratchet.* `Walk(x)[n]` is the ratchet `x` after `n` single steps, `At(n)` that of the
sender. `AdvanceToIsWalk`: `megolm_advance_to` is as many single steps as the target is ahead
(counting on through a wrap). It goes part by part: a round of the loop takes the counter
to a multiple of `Unit(j)` and hashes part `j` as often as so many steps do. `ValueAt`: `Value(n)`
is what `At(n)` holds, by cases on the first digit that changes. `Power`, the rounds and `Value` are
recursive functions; what holds of all their arguments is proved from the least one for
which it fails (`Induction`, which rests on `WFMin` of `WellFoundedInduction`).

`ForwardSecrecy`: who holds `At(n)` cannot compute an earlier `At(t)`. In `At(t)` only the last part has not yet
been hashed beyond, by the next step already, and no part ever gets back to what its
hashes begin with. `KeysDiffer`, that two indices have two keys, follows.

*The sessions.* The invariant `GroupInv` (`GroupInvariant`) has three parts. `OutboundInv`: the sender's
ratchet and the one in its pickle are `At(n)` for two indices; what has left has the key
of an index before the pickled one, what has not left yet one between the two. `SharedInv`: session keys and
genuine exports are `At` of their counter. `MembersInv`, of each member: the latest ratchet is the
first one moved on, to an index that there can be (`SessionOk`); the pickle holds the same first ratchet;
a genuine first ratchet is `At` of its counter, and any first ratchet leads to `At(i)` if a message of index `i` was opened
with it (`Reads`), whereby a session made from a damaged export turns out to be a right one from some index on; a
verified session has opened something (`Evidence`). Since indices
stay within half of the range, `_get_megolm` then finds the ratchet of every index from the first on,
from whichever of the two it starts.



## 5. Accounts and new sessions: `Account`, `SessionSetup`

`Account` has the operations of `account.cpp` on an account value: the list of one-time
keys with its capacity, current and previous pre-key and fallback key with the
numbers of them in use, the published marks and the counters of ids. A key is its kind and id.
`SessionSetup` puts one account, Bob's, between the server and the initiators:

| action | code, or what it stands for |
|---|---|
| `Maintain` | the application calls `generate_one_time_keys`, `generate_fallback_key`, `generate_prekey`, `forget_old_fallback_key`, `forget_old_prekey` |
| `BeginUpload`, `EndUpload(answered)` | the unpublished keys are read and sent; when the answer arrives, `mark_keys_as_published` and `mark_prekey_as_published` |
| `NewOutboundSession(i, verified)` | a claim at the server and `Session::new_outbound_session`, with a one-time key, with the fallback key when there is none, or with the pre-key alone; without a valid signature there is no session, and the one-time key is spent |
| `NewInboundSession`, `NewInboundSessionFails` | `Session::new_inbound_session` on a pre-key message that no session matches, with or without an expected sender |
| `DecryptFirst` | the session decrypts the message it was created from, which it can if the two secrets are equal; otherwise it is dropped |
| `RemoveOneTimeKeys(session)` | `olm_remove_one_time_keys`, at any later time and repeatedly |

The shared secret is modelled with the length the code gives it (`SecretOf`). A message
arrives at any time and repeatedly, as sent or with one key of its header damaged.

The application follows the discipline that the library leaves to it: it generates keys
only when no upload is under way (`mark_keys_as_published` marks all of them), it
replaces a pre-key or fallback key only when the last one is published, and it lets
go of a previous one, by rotating or forgetting, only when every session created
with it has arrived. It may generate too many one-time keys, and need not remove any.
The server hands out a one-time key once, and does not take a claimed one again.

| run | what it asks |
|---|---|
| `session_setup` | secrets agree, messages match exactly their session, removal takes out the right key, marks tell the truth |
| `account_restart` | claimed keys are known when they are used (unless pushed off a full list), and one outbound session leads to one inbound session, when Bob's device stops at any moment (section 6) |
| `secrets_differ` | a statement of the documentation (see Findings) |

Bounds of `session_setup`: two one-time keys fit the list and three ids are drawn, so
that a list overflows; three fallback keys, so that the oldest of them is dropped;
two pre-keys; two initiators and two outbound sessions, by one or by two of them, with
the same key or not. A damaged base key is left out: since the secret does not depend
on it (see Findings), it makes a second session from one origin. Deadlock is checked.

### What is proved

`AccountProofs` proves, for all capacities of the list, all numbers of keys,
initiators and sessions, the properties that `session_setup` checks, that keys handed out are known (`KeysKept`), and that one outbound
session leads to one inbound session (`MessagesMatch`). The assumptions are
`AccountAssumption`, that the list has room for a key, and `SetupAssumption`, that the
constants are numbers and that damage hits a field of the header. `MessagesMatch`
alone supposes besides that damage does not hit the base key: of the results of the key
agreement only the first counts (see Findings), and in that one the base key has no part.

Its lemmas say what each operation of `account.cpp` does to an account that is in
order (`AccountOk`): the one-time keys lie in the order of their ids, newest first, and
no fallback key has the id of one of them; the current and previous keys are of the
kind and the number that `num_prekeys` and `num_fallback_keys` say. A full list loses its oldest
keys only: what is lost of the generated keys has an id below every listed one (`PushedOff`),
and stays lost.

The invariant `IInv` of the whole adds what the parties know of each other:

- *An upload* (`UploadOk`) holds every unpublished key, and of the fallback and pre-keys
  only the current ones. Marking all keys as published is right because of the first half,
  and the server's key is the current one afterwards because of the second.
- *The server* (`ServerOk`) hands out the current pre-key and fallback key, or the
  ones before while the current ones are not published. Hence the rule that a key is
  replaced only when the last is published: a second rotation would drop what the server
  still hands out.
- *A one-time key* that was uploaded is in the list, or pushed off it, or in a
  session's removal (`Traced`). Only the first two are possible as long as no message for it
  has arrived.
- *Sessions on their way* (`AwaitedOk`) find their pre-key and fallback key.
- *Inbound sessions* have an outbound session with the keys of theirs (`InboundOk`); with an
  undamaged base key also its base and identity, and no two of them the same (`MatchOk`).

## 6. Pickles and restarts: `Pickle`, `*Pickle`, `*Restart`, `SessionRestartProofs`

`Pickle` models `pickle.cpp`: a pickle is a sequence of items, a reader has a position
that becomes `NULL` when what is left is too short, and a list is read by inserting
entry after entry into a list of fixed capacity. `SessionPickle`, `AccountPickle` and
`GroupPickle` are the pickle functions of the objects, with every format they still
read: sessions of the logging branch, accounts of versions 2, 3 and 4 (1 is refused),
inbound group sessions of version 1. The error an unpickle call answers with is an
operator (`UnpickleSessionError` and its like), as is the object it returns.

In the `*Restart` modules an object lives in memory and its last pickle survives a stop
of the device at any moment. When the application saves is its own affair and
external to the library; the modules state the discipline that the properties need:

- *Sessions* are saved after each call that changed them and before anything of the call
  can be seen: before a message leaves, before a plaintext is handed on. `Save` is then
  the moment at which a call takes effect. `SessionRestart` implements `SessionPair`
  (`PairSpec`): under the mapping that takes each party's ratchet and flag from its
  *pickle*, `Encrypt`, `Decrypt` and `Restart` are stutters and `Save` is the call. So
  whatever is lost with a device's memory, the properties of section 3 hold of what
  users see.
- *Accounts* are saved before a key is uploaded, and new sessions before the account that
  their one-time key was removed from. Between the two saves the device may stop.
- *Outbound group sessions* are saved before a message leaves; several may be encrypted
  in between. *Inbound* ones are saved at any time or never.

| run | bounds | what it shows |
|---|---|---|
| `session_restart` | three messages each, three chains, two skipped keys: as much room as three messages can need, and no more | `PairSpec`; below the limits no message becomes unreadable and duplicates are named as such (`NoMessageLost`), a fresh ratchet key that was lost with a call has left no trace (`UnsavedKeysUnseen`), pickles are read whole and cut ones refused (`SessionPickledWhole`), and everything is delivered in the end |
| `account_restart` | two keys for a list of one, two pre-keys, two sessions | handed out keys are known and sessions created once, whenever the device stops; accounts of older formats serve on (`OldAccountsServe`) |

`group_session` of section 4 covers the group sessions. Stops are not bounded in any of them.

`SessionPickledWhole` has an exception which the code has: a session pickle that ends
between two skipped message keys is read without complaint (`unpickle` of a list loops
while there is input, and nothing checks that all entries came), and the session has
lost its oldest skipped keys and nothing else. Stored pickles have a MAC, so such a
pickle does not arise by damage alone.

Fairness (`FairSpec`), per party: of a pending call, that it is saved or lost in the end
(`WF` of `Save \/ Restart`: no call hangs); that an application which again and again
has an undecrypted message hands it to `decrypt` in the end (`SF`, since a stop takes the
chance away for the moment); and that a device which stops as often as it likes does not
stop *every* time before it could save (`SF` of `SaveDecryption`). Nothing is assumed of
how often anybody encrypts, nor of the other party. Under that, `EventuallyDelivered`
holds: every message that was sent is handed on. Without the last assumption it does
not: a device may stop each time between decrypting and saving.

`SessionRestartProofs` proves the refinement, `Spec => PairSpec` (`RestartsUnseen`), for all
capacities, gaps, messages and modes, from `RestartAssumption`, which says only that the
capacities are positive, that damaged counters are numbers and that the parties are two. The
invariant `RInv` says of each party that it is idle, with the session its pickle says, or
that a call is pending and the session is what that call makes of the *pickled* one; saving
is then that very call of `SessionPair`. Two facts carry it. `RoundTrip`: a session whose
lists fit their arrays is read as it was written, item by item (`PickledItems`,
`ListRead`); and the operators of `Ratchet` keep lists within their arrays. And
`OwnKey`: the key of a stored sender chain is one that has been counted, so that `Save`,
which recognises a new chain by its key, counts exactly the calls that made one.
`SavedSessionsWhole` states `RoundTrip` of every session that is ever in memory, and
`SessionsPickledWhole` all of `SessionPickledWhole`: a cut pickle is read as far as it goes, so that
the reader either meets `NULL` in a field or a list, which the error is, or stops between two skipped keys.

`UnsavedKeysNowhere` proves `UnsavedKeysUnseen`. The invariant `CountedInv` says of every ratchet key in
what is stored or on its way that it was counted, those included that went into a root key, whether of
a ratchet or of the key of a message: a header with a damaged ratchet key is believed only if the MAC agrees with the
root that this key would lead to, and then the key is one that the sender mixed in (`NewKeyCounted`). A session
in memory holds at most one key more, its own fresh one (`SessionCounted`).

What is proved of `SessionPair` in section 3 is a theorem of `Pair`, and so of the stored sessions:
`SessionRestartProofs` instantiates `SessionPairProofs` the way `SessionRestart` instantiates `SessionPair`, shows that the two
instances say the same (`SameSpec`), and cites its theorems; `PairAssumption` is what those ask of the constants.
`NoMessageLostInRoom` proves `NoMessageLost` under the three bounds of `Room`, `RestartsAreSafe` the safety of what is
stored: a device that is taken back to its last pickle holds no key of what was read, accepts nothing twice, uses no key twice,
stays in step with its peer and gives up keys oldest first. The temporal properties are model-checked.

`AccountProofs` proves what `account_restart` checks, for all constants. `IInv` of section 5 is a
statement about *an* account that serves a server, sessions on their way and sessions that
arrived (`Serves`); under restarts it has to hold of two: the one in memory, and the one
that the stored pickle would be read as, with the stored sessions in place of those in memory
(`StoredOk`). Whatever the server hands out next can then be answered by either. The second
statement is kept by every step in memory just because the stored account was saved before the
upload (`EndUploadServes`, with an account that nobody marked), and by saving the
account because the sessions were saved first: a key that was removed is accounted for by a session
(`Traced`), which must be a stored one. `Restart` replaces the first by the second. What is read is not what was
written, but what was in use of it (`InUse`): the theorem `AccountsPickledWhole` rests on `AccountReadBack`, item by
item like `RoundTrip`, and `InUseServes` says that nothing is lost thereby.
`OldFormatsServe` is the same for the formats of earlier releases, one lemma for each
(`OldVersion2`, `OldVersion3`, `OldVersion4`). For `OneSessionOverRestarts` see `MessagesMatch`, whose
supposition about the base key it shares.
## 7. Messages and base64: `MessageCodec`, `Base64` and their proofs

These model a single call as a process, one turn of its loop after the other, because
what can go wrong is in the loops.

`MessageCodec` has the writers and readers of the three formats: session messages,
pre-key messages, group messages. A reader is called on a message as it was written, with
fields of a later version inserted anywhere between the known ones, cut short at any
byte, or on any bytes at all from a small alphabet. `InsideInput` says that it never
looks at or returns anything beyond the bytes before the MAC, `Terminates` that it
returns for every input (`WF(Next)`: a call runs until it returns), `ReadWhole` that
what was written is read, and fits the length the caller was told to allocate.
`CutMessagesRefused` says that the callers' checks of the fields find every cut, but for
one within the length of the last field, behind its tag or behind digits that are all
zero: that is read as an empty ciphertext and left to the MAC. (The second kind needs a
ciphertext of at least 128 bytes, which is why the run has one string of 128 bytes: a length
of 128 is written as 128, 1, and cut after the first byte it reads as 0.) Lengths wrap at the width of their type (2^14 in the run: two bytes of
a varint; 2^32 and 2^64 in the code).

`Base64` has encoding and decoding over one memory, in which input and output overlap as
the callers have them: encoding of bytes at the end of the output buffer, decoding
where the text stands. `UnreadIntact` says that the writer never catches up with the reader.
Lengths up to six bytes take every remainder with none, one and two turns before it.

| run | bounds | what it shows |
|---|---|---|
| `message_codec` | all inputs of five bytes from seven, and all messages of three strings (one of 128 bytes), two keys and four counters with three unknown fields and all cuts | the properties above |
| `base64` | six bytes from four, or six characters from four; three places of the input | encoding and decoding are right and touch nothing else |
| `encode_over_itself` | the place `olm_sas_calculate_mac` uses | the code does not encode the MAC (see Findings) |

Deadlock is not checked in these runs: a call returns and is over.

`MessageCodecProofs` proves `InsideInput`, `ReadWhole` and `CutMessagesRefused` for every
sequence of bytes, every message, cut and unknown field, and any width of counters and
lengths. What it assumes of the constants is what the code's types give: a message consists of
bytes and its strings are shorter than the width of a `size_t` can count (`BytesAssumption`),
tags and keys are as `CodecAssumption` has them, and an unknown field has a tag no reader of
any format looks for and the contents its type announces (`UnknownAssumption`).

Encoding and decoding are recursive functions. The library's induction theorems cannot be
instantiated here, so the file begins with induction over a *set* of numbers, from well-founded
induction's existence of a minimum (`WFMin`), and what a recursive function is at 0 and
at n + 1. From there:

- integers: `varint_encode` gives digits of which all but the last are marked, `VarintDecode`
  gives back the number below the modulus, and `VarintSkip` stops behind the last digit, or at the
  end when that is cut off; what is left of a number then reads as 0 only if it is
  nothing or digits that are all zero;
- fields: what the readers make of a field that is there as a whole (`FieldWhole`), cut short,
  or unknown, wherever it lies;
- a call: `Typed`, inductive for any bytes, is enough for `InsideInput`. For the others
  `MessageRead` says how the message lies in the input (`Laid`: its fields end to end, behind the
  first n of them perhaps an unknown one, whose place does not change what the others are) and where the
  reader is (`Where`: behind i fields and, or not, the unknown one, with those read as they
  were written and none of the others), or that it has come to the end in a cut field (`Stopped`). A
  turn of the loop that finds no field to read ends with the unknown one passed over
  or at the end of the message, which is what makes the loop's condition right (`Turn`).

`CallsAdvance` is the safety half of `Terminates`, for any bytes: every step lowers a natural
number that the length of the input bounds (`StepsLeft`: the bytes from where this turn
began, then the fields left in it), because a turn that reads nothing passes over at least one
byte; and until the call has returned, one of the conditions for a step holds
(`CanGoOn`).

Proving it showed `CutMessagesRefused` to be false as it first stood, which allowed only a cut
right behind the last tag: no string in the run had been long enough.

`Base64Proofs` proves, for inputs of every length and any bytes, `UnreadIntact` (given that
`Places` leaves out the start of the output, where it is false) and `OutsideUntouched` (at
every moment, not only at the end as in the run). The lemmas `EncodedRoom` and `DecodedRoom`
say what the two lengths leave room for; a lemma per action says which addresses it writes;
the invariant adds to `UnreadIntact` that the input starts as many bytes ahead as the loop
has turns, each of which loses one (`Ahead`).

On these rests that the result is right (`EncodesItsInput`, with the same condition on
`Places`, and `DecodesWhatWasEncoded`): the invariants `EncodesFrom` and `DecodesFrom` say
what stands in the output after so many turns, and what is read next is what was there at
first (`ReadsFirst`). The arithmetic is in the lemmas about one turn, that three bytes are
four sextets and what one and two bytes left over become.

## 8. Short authentication strings: `Sas`

Two parties with an object each, which they create, clear and create anew at any time; the
server delivers each public key ever made, late, repeatedly, damaged, or never. An output
(`Generate`) is the method and the secret it was made of; `theirs` is a history variable.
The run `sas` lets each party begin twice, so that an object meets a key made for an
earlier one. Deadlock is checked.

`ClientProofs` proves, for any number of beginnings, `ShownOfBothKeys` (no output before the
peer's key was given to this very object, nor of a secret left in memory from before:
`olm_create_sas` resets the flag, not the secret) and `AgreeExactly` (two outputs agree
exactly when each was made of the other's key). The invariant: while the flag is set, the
secret is that of the object's own key and the last key it was given. `SasAssumption`
says that keys, noise and "none" are different things.


## 9. The Android binding: `JniSteps`, `AndroidCalls`, `AndroidObject`

A Java object holds the address of a native object in its field `mNativeId`. Its methods
call native functions (`android/olm-sdk/src/main/jni`), each a sequence of steps that may
fail: is the field set, are the arguments there, copy them, allocate, ask for random bytes,
call the library, make the Java value. Which clean-up follows a failure depends on where in
the function it happens, and a unit test makes hardly any of these steps fail.

`JniSteps` has one constructor per kind of step. A step that fails throws an exception,
unless the function is written otherwise: `Silently` (no exception, Java sees null, false or
0), `Unchecked` (the result is used as it is, and the process dies), `Ignored`, and `Leaving`
(the clean-up of its buffer stands in the branch of success). `AndroidCalls` gives each native
function as its steps, what it frees at the end and what it wipes before. `AndroidObject` runs
them:

| action | code |
|---|---|
| `Enter(f)` | a Java method calls a native function: a constructor on a new object, a release if there is something to release, `generateShortCode` once the peer's key is set |
| `StepSucceeds`, `NoRandomNeeded`, `FailureIgnored` | the function goes on |
| `StepFails` | it cleans up and returns; after a failed `deserializeJni` the Java method releases what the object had |
| `Return` | it did what it was asked for; a new or unpickled object is put into the field, a release clears it |
| `Abort` | the process dies of an unchecked allocation |

One function runs at a time: the Java methods are not synchronised, and an application
that calls one object from several threads is not modelled. Which lengths and bytes are
handled is left out; `left` and `spilled` record which buffers were never freed, and which
were freed or left with a secret in them.

The run `android_object` asks, for each of the nine classes, that the field names a live native
object or none (`HandleLive`); that nothing is left and no secret spilled but for what is
listed (`CleansUp`); and that a value returned was written by the library (`ValuesWritten`):
`generateShortCodeJni` does not look whether `olm_sas_generate_bytes` succeeded, so this rests
on the field `theirPublicKey` of the Java object agreeing with the flag of the native one.
Three native objects are enough for one that is unpickled over another, and one after that.
Deadlock is checked.

The list, `KnownLeft`, is what the code leaves: the random bytes of three functions when asking
for them fails half way; the object of `createNewSASJni` when it fails; output buffers that
`setPrivateKeyJni`, `generateKeyJni`, `privateKeyJni`, `setKeyFromSeedJni` and `pkSignJni` never
free; one of two copies of the ciphertext in `decryptJni` of `OlmPkDecryption`; and the native
object that an object already had when a pickle is read into it. `sessionKeyJni` frees the session
key unwiped and `signMessageJni` its copy of the message, where `exportJni` and the other
functions wipe theirs.

The steps also show where a failure is not told to Java: `matchesInboundSessionJni`
and `sha256Jni` answer false and null, `maxOneTimeKeysJni` and `messageIndexJni` 0,
`verifyEd25519SignatureJni` null, its answer for a good signature, when a step before the check fails.
These are modelled (`Silently`) and no property is about them.

### What is proved

`ClientProofs` proves the three properties, for any number of native objects.

`HandleLive` holds whatever steps the functions consist of: an object is only ever taken into
the field, released together with clearing it, or kept.

`CleansUp` and `ValuesWritten` depend on the steps. `Sound(f)` says of a function what they need of it
as it is written, without running it: what it allocates is in its list of buffers to free, or listed
as left; a secret is in its list of buffers to wipe, or is wiped by the last step and nothing can fail in
between; a buffer that becomes a value was obtained and written by earlier steps that cannot
be passed over. That each of the functions is sound is proved one by one (nine lemmas,
one per class), and is what a change of a function has to keep. The invariant `JavaInv` then says of the call
under way which buffers it may hold and must hold at its place (`Holds`), and which of them may and
must have something in them (`MayBeFilled`, `MustBeFilled`), whichever steps before failed and
were ignored; and that `theirPublicKey` is set only while the native object has the key
(`KeySet`), without which `generateShortCodeJni` could return bytes that nobody wrote.

## 10. Findings

`Session::new_outbound_session` and `new_inbound_session` derive the root key from
`sizeof(std::uint8_t) * shared_secret_steps` bytes, 3 or 4, of the concatenated results
of the key agreement, where `olm.md` has all of them; the length meant is
`CURVE25519_SHARED_SECRET_LENGTH * shared_secret_steps`. Both ends do the same, so
they agree (`SecretsAgree`). But the secret does not depend on the base key, so that
two sessions can start from one secret. (`secrets_differ`)

`olm_sas_calculate_mac` and `olm_sas_calculate_mac_long_kdf` encode the MAC where it
stands at the start of the output, which `base64.h:44` does not allow; the result is
not the base64 of the MAC. Both ends compute the same thing, and
`olm_sas_calculate_mac_fixed_base64` exists for peers that compute the MAC itself.
(`encode_over_itself`)

Two more, seen while modelling. `olm_decrypt_sequential` looks at the order of messages only
on a chain it already knows: the first message seen of a new chain may have any counter
(`ratchet.cpp:560`), where `olm.h:564` allows "decrypting only when messages order is
maintained". And the Android functions named in section 9 leave memory behind, some of it secret.

## 11. What is proved and what is only checked

Proved for all values of the constants: every property of `SessionPair` that the run `session_pair`
checks, and its refinement `ChannelSpec` (section 3); every property of the runs `megolm_steps` and
`group_session` (section 4); those of `session_setup` (section 5) and `account_restart`;
the refinement `PairSpec` and all invariants of `SessionRestart` (section 6), `NoMessageLost` for as many
messages as there is room for; the properties
of `Base64` and the invariants of `MessageCodec` (section 7); `ShownOfBothKeys` and `AgreeExactly` of
`Sas` (section 8); those of `AndroidObject` (section 9). With that, every invariant and action property
that a run finds to hold is a theorem, under the conditions that these sections name.

Checked by TLC only, on the instances described:

- `EventuallyDelivered` (section 6) and `Terminates` (section 7): liveness under fairness, which
  needs ENABLED and is beyond the prover. Of `Terminates` the part without fairness is
  proved, `CallsAdvance`: the steps of a call are bounded in number and it is never stuck.

## 12. Not modelled

*PK encryption* (`pk.cpp`): an object holds one key pair and no protocol state; its calls
are single uses of primitives. *Utility, memory, errors*: stateless. *Primitives*
(`crypto.cpp`, `cipher.cpp`, `lib/`): ideal; no two derivations give one key, and their
code, most of the lines of this repository, is arithmetic of wide numbers that says nothing
about the protocol. *Bindings* other than Android's: handles on the C objects, which they wrap in the
same way, in JavaScript, Python and Objective-C. *Tests and
fuzzers*: read as a reference. *Encryption of pickles* (`pickle_encoding.c`): it returns the
pickle as it was, or refuses it. `session_id` and `describe` only write out what the
fields hold.

Buffers and their lengths, random bytes and the errors about them are left out (but for
`MessageCodec` and `Base64`): they are checked at the start of each call and change nothing.

Among what the library leaves to its caller, the models assume that an application drops
an object whose creation failed, generates no keys while an upload is under way, and saves
in the order that section 6 gives; it never goes back to a pickle older than its last. The
hazards without properties in `PROJECT.json` say where it matters. `olm_decrypt_sequential`
is called in `SessionPair` but not in the run `session_restart`: whether it accepts
a message depends on nothing that a restart changes.
