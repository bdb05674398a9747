---------------------------- MODULE ClientProofs ----------------------------
(***************************************************************************)
(* Proofs about what an application holds beside its sessions: the objects *)
(* of a verification (Sas), and the Java objects through which an Android  *)
(* application holds the library's (AndroidObject).                        *)
(***************************************************************************)
EXTENDS Sas, AndroidObject, TLAPS

-----------------------------------------------------------------------------
(* Verification.  What makes the invariants of Sas inductive is that the   *)
(* secret in memory is that of the current keys while the flag says that   *)
(* the peer's key is set, and only then.                                   *)
SecretCurrent ==
    \A p \in Party : sas[p].their_key_set =>
        /\ theirs[p] # NONE
        /\ sas[p].secret = {sas[p].curve25519_key, theirs[p]}

OwnKeys ==
    \A p \in Party :
        /\ sas[p].curve25519_key.n > 0 => sas[p].curve25519_key.owner = p
        /\ shown[p] # NONE /\ shown[p].own.n > 0 => shown[p].own.owner = p

IInv == TypeOK /\ SecretCurrent /\ OwnKeys /\ ShownOfBothKeys

LEMMA Initially == Init => IInv
<1> SUFFICES ASSUME Init PROVE IInv
    OBVIOUS
<1>1. ZeroKey \in Keys /\ ZeroKey.n = 0
    BY DEF ZeroKey, Key, Keys
<1>2. TypeOK
    BY <1>1 DEF Init, TypeOK, Zeroed
<1>3. SecretCurrent /\ OwnKeys /\ ShownOfBothKeys
    BY <1>1 DEF Init, SecretCurrent, OwnKeys, ShownOfBothKeys, Zeroed
<1> QED
    BY <1>2, <1>3 DEF IInv

LEMMA ClearKeeps == ASSUME IInv, NEW p \in Party, Clear(p) PROVE IInv'
<1>1. ZeroKey \in Keys /\ ZeroKey.n = 0
    BY DEF ZeroKey, Key, Keys
<1>2. TypeOK'
    BY <1>1 DEF IInv, TypeOK, Clear, Zeroed
<1>3. SecretCurrent'
    BY DEF IInv, TypeOK, SecretCurrent, Clear, Zeroed
<1>4. OwnKeys'
    BY <1>1 DEF IInv, TypeOK, OwnKeys, Clear, Zeroed
<1>5. ShownOfBothKeys'
    BY DEF IInv, ShownOfBothKeys, Clear
<1> QED
    BY <1>2, <1>3, <1>4, <1>5 DEF IInv

LEMMA CreateKeeps == ASSUME IInv, NEW p \in Party, CreateSas(p) PROVE IInv'
<1> DEFINE k == Key(p, created[p] + 1)
<1>1. k \in Keys /\ k.owner = p
    BY DEF Key, Keys, IInv, TypeOK
<1>2. \A q \in Party :
        /\ sas'[q].curve25519_key = IF q = p THEN k ELSE sas[q].curve25519_key
        /\ sas'[q].secret = sas[q].secret
        /\ sas'[q].their_key_set = (q # p /\ sas[q].their_key_set)
        /\ theirs'[q] = IF q = p THEN NONE ELSE theirs[q]
    BY DEF IInv, TypeOK, CreateSas
<1> HIDE DEF k
<1>3. TypeOK'
    <2>1. created' \in [Party -> Nat] /\ theirs' \in [Party -> Keys \cup {Noise, NONE}]
        BY DEF IInv, TypeOK, CreateSas
    <2>2. sas' \in [Party -> [curve25519_key : Keys, secret : SUBSET (Keys \cup {Noise}),
                              their_key_set : BOOLEAN]]
        BY <1>1 DEF IInv, TypeOK, CreateSas, k
    <2> QED
        BY <2>1, <2>2 DEF IInv, TypeOK, CreateSas
<1>4. SecretCurrent'
    BY <1>2 DEF IInv, SecretCurrent
<1>5. OwnKeys'
    <2>1. shown' = shown
        BY DEF CreateSas
    <2> QED
        BY <1>1, <1>2, <2>1 DEF IInv, OwnKeys
<1>6. ShownOfBothKeys'
    BY DEF IInv, ShownOfBothKeys, CreateSas
<1> QED
    BY <1>3, <1>4, <1>5, <1>6 DEF IInv

LEMMA SetTheirKeyKeeps ==
    ASSUME IInv, NEW p \in Party, NEW k \in KeysFrom(Peer(p)), SasSetTheirKey(p, k)
    PROVE  IInv'
<1>1. k \in Keys \cup {Noise} /\ k # NONE
    BY SasAssumption DEF KeysFrom, Peer, Party, Key, Keys
<1>2. \A q \in Party :
        /\ sas'[q].curve25519_key = sas[q].curve25519_key
        /\ sas'[q].secret = IF q = p THEN {sas[p].curve25519_key, k} ELSE sas[q].secret
        /\ sas'[q].their_key_set = (q = p \/ sas[q].their_key_set)
        /\ theirs'[q] = IF q = p THEN k ELSE theirs[q]
    BY DEF IInv, TypeOK, SasSetTheirKey
<1>3. TypeOK'
    <2>1. theirs' \in [Party -> Keys \cup {Noise, NONE}]
        BY <1>1 DEF IInv, TypeOK, SasSetTheirKey
    <2>2. {sas[p].curve25519_key, k} \in SUBSET (Keys \cup {Noise})
        BY <1>1 DEF IInv, TypeOK
    <2>3. sas' \in [Party -> [curve25519_key : Keys, secret : SUBSET (Keys \cup {Noise}),
                              their_key_set : BOOLEAN]]
        BY <2>2 DEF IInv, TypeOK, SasSetTheirKey
    <2> QED
        BY <2>1, <2>3 DEF IInv, TypeOK, SasSetTheirKey
<1>4. SecretCurrent'
    <2> SUFFICES ASSUME NEW q \in Party, sas'[q].their_key_set
                 PROVE  theirs'[q] # NONE /\ sas'[q].secret = {sas'[q].curve25519_key, theirs'[q]}
        BY DEF SecretCurrent
    <2>1. CASE q = p
        BY <1>1, <1>2, <2>1
    <2>2. CASE q # p
        BY <1>2, <2>2 DEF IInv, SecretCurrent
    <2> QED
        BY <2>1, <2>2
<1>5. OwnKeys'
    <2>1. shown' = shown
        BY DEF SasSetTheirKey
    <2> QED
        BY <1>2, <2>1 DEF IInv, OwnKeys
<1>6. ShownOfBothKeys'
    BY DEF IInv, ShownOfBothKeys, SasSetTheirKey
<1> QED
    BY <1>3, <1>4, <1>5, <1>6 DEF IInv

LEMMA GenerateKeeps ==
    ASSUME IInv, NEW p \in Party, NEW method \in Methods, Generate(p, method)
    PROVE  IInv'
<1> DEFINE o == [method |-> method, secret |-> sas[p].secret,
                 own |-> sas[p].curve25519_key, their |-> theirs[p]]
<1>1. \A q \in Party : shown'[q] = IF q = p THEN o ELSE shown[q]
    BY DEF IInv, TypeOK, Generate
<1>2. theirs[p] # NONE /\ sas[p].secret = {sas[p].curve25519_key, theirs[p]}
    BY DEF IInv, SecretCurrent, Generate
<1>3. o \in [method : Methods, secret : SUBSET (Keys \cup {Noise}), own : Keys,
             their : Keys \cup {Noise}]
    BY <1>2 DEF IInv, TypeOK
<1>4. TypeOK'
    BY <1>3 DEF IInv, TypeOK, Generate
<1>5. SecretCurrent'
    BY DEF IInv, SecretCurrent, Generate
<1>6. OwnKeys'
    BY <1>1 DEF IInv, OwnKeys, Generate
<1>7. ShownOfBothKeys'
    BY <1>1, <1>2 DEF IInv, ShownOfBothKeys
<1> QED
    BY <1>4, <1>5, <1>6, <1>7 DEF IInv

LEMMA UnchangedKeeps == IInv /\ UNCHANGED vars => IInv'
BY DEF IInv, TypeOK, SecretCurrent, OwnKeys, ShownOfBothKeys, vars

LEMMA Inductive == IInv /\ [Next]_vars => IInv'
<1> SUFFICES ASSUME IInv, [Next]_vars PROVE IInv'
    OBVIOUS
<1>1. CASE UNCHANGED vars
    BY <1>1, UnchangedKeeps
<1>2. CASE Next
    <2>1. PICK p \in Party :
            \/ Clear(p)
            \/ CreateSas(p)
            \/ \E k \in KeysFrom(Peer(p)) : SasSetTheirKey(p, k)
            \/ \E method \in Methods : Generate(p, method)
        BY <1>2 DEF Next
    <2> QED
        BY <2>1, ClearKeeps, CreateKeeps, SetTheirKeyKeeps, GenerateKeeps
<1> QED
    BY <1>1, <1>2

(* An output is made of the object's own key and the key it was given last,*)
(* in every reachable state and however often the parties begin again.     *)
THEOREM OutputsOfBothKeys == Spec => []ShownOfBothKeys
<1>1. IInv => ShownOfBothKeys
    BY DEF IInv
<1> QED
    BY <1>1, Initially, Inductive, PTL DEF Spec

(* The users of two objects compare equal outputs exactly when each object *)
(* was given the other's key.                                              *)
THEOREM AgreementMeansKeys == Spec => []AgreeExactly
<1>1. IInv => AgreeExactly
    <2> SUFFICES ASSUME IInv,
                        NEW a, a = shown[Alice], NEW b, b = shown[Bob],
                        a # NONE, b # NONE, a.own.n > 0, b.own.n > 0
                 PROVE  a.secret = b.secret <=> a.their = b.own /\ b.their = a.own
        BY DEF AgreeExactly
    <2>1. a.secret = {a.own, a.their} /\ b.secret = {b.own, b.their}
        BY DEF IInv, ShownOfBothKeys, Party
    <2>2. a.own # b.own
        BY SasAssumption DEF IInv, OwnKeys, Party
    <2> QED
        BY <2>1, <2>2
<1> QED
    BY <1>1, Initially, Inductive, PTL DEF Spec

-----------------------------------------------------------------------------
(* The Java objects.                                                       *)
(* The objects are only ever taken, which makes the field name the new one,*)
(* released, which makes it name none, or kept.                            *)
LEMMA Taken == ASSUME TakeObject PROVE HandleLive'
  BY DEF TakeObject, HandleLive

LEMMA Released == ASSUME ReleaseObject PROVE HandleLive'
  BY DEF ReleaseObject, HandleLive

LEMMA Kept == ASSUME HandleLive, UNCHANGED <<mNativeId, natives>> PROVE HandleLive'
  BY DEF HandleLive

(* Every step of a method keeps the field naming a live object, or none.   *)
LEMMA StepKeepsHandle == ASSUME HandleLive, [JavaNext]_javaVars PROVE HandleLive'
<1>1. ASSUME NEW f \in Functions[class], Enter(f) PROVE HandleLive'
  BY <1>1, Kept DEF Enter
<1>2. CASE StepSucceeds
  BY <1>2, Kept DEF StepSucceeds, Continue
<1>3. CASE NoRandomNeeded
  BY <1>3, Kept DEF NoRandomNeeded, Continue
<1>4. CASE StepFails
  <2>1. ASSUME NEW held, NEW more, Fail(held, more) PROVE HandleLive'
    <3>1. CASE call.of.does = "unpickle"
      BY <2>1, <3>1, Released DEF Fail
    <3>2. CASE call.of.does # "unpickle"
      BY <2>1, <3>2, Kept DEF Fail
    <3> QED BY <3>1, <3>2
  <2> QED BY <1>4, <2>1 DEF StepFails
<1>5. CASE FailureIgnored
  BY <1>5, Kept DEF FailureIgnored, Continue
<1>6. CASE Abort
  BY <1>6 DEF Abort, HandleLive
<1>7. CASE Return
  <2>1. TakeObject \/ ReleaseObject \/ UNCHANGED <<mNativeId, natives>>
    BY <1>7 DEF Return
  <2> QED BY <2>1, Taken, Released, Kept
<1>8. CASE UNCHANGED javaVars
  BY <1>8, Kept DEF javaVars
<1> QED BY <1>1, <1>2, <1>3, <1>4, <1>5, <1>6, <1>7, <1>8 DEF JavaNext

(* No method uses a native object that was freed, nor frees one twice.     *)
THEOREM HandlesLive == JavaSpec => []HandleLive
<1>1. JavaInit => HandleLive
  BY DEF JavaInit, HandleLive
<1>2. HandleLive /\ [JavaNext]_javaVars => HandleLive'
  BY StepKeepsHandle
<1> QED BY <1>1, <1>2, PTL DEF JavaSpec

-----------------------------------------------------------------------------
(* What the native functions are made of.  What follows is about them as   *)
(* they stand, each a fixed sequence of steps, and says of a step only what*)
(* the clean-up depends on.                                                *)
Allocates(step) == step.does \in {"malloc", "make", "get", "random", "random_if_any"}
Fills(step) == step.does \in {"olm", "generate_bytes", "get", "random", "random_if_any"}
MayFail(step) == step.does # "wipe" /\ step.otherwise \in {"throws", "silent", "leaves"}

(* Behind such a step its buffer is there, and behind such a one every     *)
(* buffer that is there was written.                                       *)
Obtains(step) == step.does \in {"malloc", "get", "random"} /\ step.otherwise # "ignored"
Writes(step) ==
    step.does = "generate_bytes" \/ (step.does = "olm" /\ step.otherwise # "ignored")

Positions(f) == 1 .. Len(f.steps)

(* What a function allocates it frees, or it is listed; the object may     *)
(* be given to Java by the last steps that can fail.                       *)
Freed(f, b) == b \in f.frees \/ <<f.fn, b>> \in KnownLeft

FreesAll(f) ==
    \A i \in Positions(f) :
        LET step == f.steps[i] IN
        /\ Allocates(step) =>
             \/ Freed(f, step.buffer)
             \/ /\ step.buffer = "object"
                /\ \/ "object" \in f.onError
                   \/ \A k \in i + 1 .. Len(f.steps) : ~MayFail(f.steps[k])
        /\ step.does \in {"random", "random_if_any"} =>
             IF step.otherwise = "leaves" THEN <<f.fn, step.buffer>> \in KnownLeft
             ELSE Freed(f, step.buffer)

(* What may have a secret in it is wiped when it is freed, or by the last  *)
(* step, and then nothing fails once something was written.                *)
KnownSpilled == {<<"sessionKeyJni", "sessionKey">>, <<"signMessageJni", "message">>}

WipedLast(f, b) ==
    /\ Len(f.steps) > 0
    /\ f.steps[Len(f.steps)].does = "wipe" /\ f.steps[Len(f.steps)].buffer = b
    /\ \A k, l \in Positions(f) : k < l /\ Fills(f.steps[k]) => ~MayFail(f.steps[l])

WipesSecrets(f) ==
    \A i \in Positions(f) :
        LET b == f.steps[i].buffer IN
        Allocates(f.steps[i]) /\ b \in Secrets =>
            b \in f.wipes \/ <<f.fn, b>> \in KnownSpilled \/ WipedLast(f, b)

(* A buffer is made a value once it was obtained, and written after that.  *)
WrittenBefore(f, b, at) ==
    \E j \in 1 .. at - 1 :
        /\ Obtains(f.steps[j]) /\ f.steps[j].buffer = b
        /\ \/ f.steps[j].does \in {"get", "random"}
           \/ \E k \in j + 1 .. at - 1 : Writes(f.steps[k])

WipedBefore(f, at) == \E k \in 1 .. at - 1 : f.steps[k].does = "wipe"

GivesWritten(f) ==
    \A i \in Positions(f) : f.steps[i].does = "value" =>
        WrittenBefore(f, f.steps[i].buffer, i) /\ ~WipedBefore(f, i)

(* Only generateShortCodeJni asks for bytes; setTheirPubKey sets the key   *)
(* or throws an exception.                                                 *)
SetsKey(step) == step.does = "set_their_key" /\ step.otherwise = "throws"

SetsTheirKey(f) ==
    /\ \A i \in Positions(f) :
          f.steps[i].does = "generate_bytes" => f.fn = "generateShortCodeJni"
    /\ f.fn = "setTheirPubKey" =>
          /\ \E i \in Positions(f) : SetsKey(f.steps[i])
          /\ \A i \in Positions(f) : f.steps[i].otherwise # "silent"

Sound(f) ==
    /\ Len(f.steps) \in Nat
    /\ f.does = "unpickle" => f.fn = "deserializeJni"
    /\ FreesAll(f) /\ WipesSecrets(f) /\ GivesWritten(f) /\ SetsTheirKey(f)

(* Every function of the binding is.                                       *)
LEMMA OlmAccountSound == \A f \in OlmAccount : Sound(f)
<1> USE DEF Sound, FreesAll, WipesSecrets, GivesWritten, SetsTheirKey, Freed, WipedLast,
            WrittenBefore, WipedBefore, SetsKey, Positions, Allocates, Fills, MayFail,
            Obtains, Writes, KnownLeft, KnownSpilled, Secrets, Step, Handle, Given, Get,
            Malloc, Make, Random, RandomIfAny, Olm, SetTheirKey, GenerateBytes,
            Value, Wipe, Silently, Unchecked, Ignored, Leaving, Jni
<1>1. Sound(OlmAccount_createNewAccountJni)
    BY DEF OlmAccount_createNewAccountJni, Create
<1>2. Sound(OlmAccount_releaseAccountJni)
    BY DEF OlmAccount_releaseAccountJni, Release
<1>3. Sound(OlmAccount_identityKeysJni)
    BY DEF OlmAccount_identityKeysJni, Call
<1>4. Sound(OlmAccount_maxOneTimeKeysJni)
    BY DEF OlmAccount_maxOneTimeKeysJni, Call
<1>5. Sound(OlmAccount_generateOneTimeKeysJni)
    BY DEF OlmAccount_generateOneTimeKeysJni, Call
<1>6. Sound(OlmAccount_oneTimeKeysJni)
    BY DEF OlmAccount_oneTimeKeysJni, Call
<1>7. Sound(OlmAccount_removeOneTimeKeysJni)
    BY DEF OlmAccount_removeOneTimeKeysJni, Call
<1>8. Sound(OlmAccount_markOneTimeKeysAsPublishedJni)
    BY DEF OlmAccount_markOneTimeKeysAsPublishedJni, Call
<1>9. Sound(OlmAccount_generateFallbackKeyJni)
    BY DEF OlmAccount_generateFallbackKeyJni, Call
<1>10. Sound(OlmAccount_fallbackKeyJni)
    BY DEF OlmAccount_fallbackKeyJni, Call
<1>11. Sound(OlmAccount_forgetFallbackKeyJni)
    BY DEF OlmAccount_forgetFallbackKeyJni, Call
<1>12. Sound(OlmAccount_signMessageJni)
    BY DEF OlmAccount_signMessageJni, Call
<1>13. Sound(OlmAccount_serializeJni)
    BY DEF OlmAccount_serializeJni, Pickled, Call
<1>14. Sound(OlmAccount_deserializeJni)
    BY DEF OlmAccount_deserializeJni, Unpickle
<1> HIDE DEF Sound
<1> QED
    BY <1>1, <1>2, <1>3, <1>4, <1>5, <1>6, <1>7, <1>8, <1>9, <1>10, <1>11, <1>12,
       <1>13, <1>14 DEF OlmAccount

LEMMA OlmSessionSound == \A f \in OlmSession : Sound(f)
<1> USE DEF Sound, FreesAll, WipesSecrets, GivesWritten, SetsTheirKey, Freed, WipedLast,
            WrittenBefore, WipedBefore, SetsKey, Positions, Allocates, Fills, MayFail,
            Obtains, Writes, KnownLeft, KnownSpilled, Secrets, Step, Handle, Given, Get,
            Malloc, Make, Random, RandomIfAny, Olm, SetTheirKey, GenerateBytes,
            Value, Wipe, Silently, Unchecked, Ignored, Leaving, Jni
<1>1. Sound(OlmSession_createNewSessionJni)
    BY DEF OlmSession_createNewSessionJni, Create
<1>2. Sound(OlmSession_releaseSessionJni)
    BY DEF OlmSession_releaseSessionJni, Release
<1>3. Sound(OlmSession_initOutboundSessionJni)
    BY DEF OlmSession_initOutboundSessionJni, Call
<1>4. Sound(OlmSession_initInboundSessionJni)
    BY DEF OlmSession_initInboundSessionJni, Call
<1>5. Sound(OlmSession_initInboundSessionFromIdKeyJni)
    BY DEF OlmSession_initInboundSessionFromIdKeyJni, Call
<1>6. Sound(OlmSession_matchesInboundSessionJni)
    BY DEF OlmSession_matchesInboundSessionJni, Call
<1>7. Sound(OlmSession_matchesInboundSessionFromIdKeyJni)
    BY DEF OlmSession_matchesInboundSessionFromIdKeyJni, Call
<1>8. Sound(OlmSession_encryptMessageJni)
    BY DEF OlmSession_encryptMessageJni, Call
<1>9. Sound(OlmSession_decryptMessageJni)
    BY DEF OlmSession_decryptMessageJni, Call
<1>10. Sound(OlmSession_getSessionIdentifierJni)
    BY DEF OlmSession_getSessionIdentifierJni, Identifier, Call
<1>11. Sound(OlmSession_olmSessionDescribeJni)
    BY DEF OlmSession_olmSessionDescribeJni, Call
<1>12. Sound(OlmSession_serializeJni)
    BY DEF OlmSession_serializeJni, Pickled, Call
<1>13. Sound(OlmSession_deserializeJni)
    BY DEF OlmSession_deserializeJni, Unpickle
<1> HIDE DEF Sound
<1> QED
    BY <1>1, <1>2, <1>3, <1>4, <1>5, <1>6, <1>7, <1>8, <1>9, <1>10, <1>11, <1>12,
       <1>13 DEF OlmSession

LEMMA OlmOutboundGroupSessionSound == \A f \in OlmOutboundGroupSession : Sound(f)
<1> USE DEF Sound, FreesAll, WipesSecrets, GivesWritten, SetsTheirKey, Freed, WipedLast,
            WrittenBefore, WipedBefore, SetsKey, Positions, Allocates, Fills, MayFail,
            Obtains, Writes, KnownLeft, KnownSpilled, Secrets, Step, Handle, Given, Get,
            Malloc, Make, Random, RandomIfAny, Olm, SetTheirKey, GenerateBytes,
            Value, Wipe, Silently, Unchecked, Ignored, Leaving, Jni
<1>1. Sound(OlmOutboundGroupSession_createNewSessionJni)
    BY DEF OlmOutboundGroupSession_createNewSessionJni, Create
<1>2. Sound(OlmOutboundGroupSession_releaseSessionJni)
    BY DEF OlmOutboundGroupSession_releaseSessionJni, Release
<1>3. Sound(OlmOutboundGroupSession_sessionIdentifierJni)
    BY DEF OlmOutboundGroupSession_sessionIdentifierJni, Identifier, Call
<1>4. Sound(OlmOutboundGroupSession_messageIndexJni)
    BY DEF OlmOutboundGroupSession_messageIndexJni, Call
<1>5. Sound(OlmOutboundGroupSession_sessionKeyJni)
    BY DEF OlmOutboundGroupSession_sessionKeyJni, Call
<1>6. Sound(OlmOutboundGroupSession_encryptMessageJni)
    BY DEF OlmOutboundGroupSession_encryptMessageJni, Call
<1>7. Sound(OlmOutboundGroupSession_serializeJni)
    BY DEF OlmOutboundGroupSession_serializeJni, Pickled, Call
<1>8. Sound(OlmOutboundGroupSession_deserializeJni)
    BY DEF OlmOutboundGroupSession_deserializeJni, Unpickle
<1> HIDE DEF Sound
<1> QED
    BY <1>1, <1>2, <1>3, <1>4, <1>5, <1>6, <1>7, <1>8 DEF OlmOutboundGroupSession

LEMMA OlmInboundGroupSessionSound == \A f \in OlmInboundGroupSession : Sound(f)
<1> USE DEF Sound, FreesAll, WipesSecrets, GivesWritten, SetsTheirKey, Freed, WipedLast,
            WrittenBefore, WipedBefore, SetsKey, Positions, Allocates, Fills, MayFail,
            Obtains, Writes, KnownLeft, KnownSpilled, Secrets, Step, Handle, Given, Get,
            Malloc, Make, Random, RandomIfAny, Olm, SetTheirKey, GenerateBytes,
            Value, Wipe, Silently, Unchecked, Ignored, Leaving, Jni
<1>1. Sound(OlmInboundGroupSession_createNewSessionJni)
    BY DEF OlmInboundGroupSession_createNewSessionJni, Create
<1>2. Sound(OlmInboundGroupSession_releaseSessionJni)
    BY DEF OlmInboundGroupSession_releaseSessionJni, Release
<1>3. Sound(OlmInboundGroupSession_sessionIdentifierJni)
    BY DEF OlmInboundGroupSession_sessionIdentifierJni, Identifier, Call
<1>4. Sound(OlmInboundGroupSession_decryptMessageJni)
    BY DEF OlmInboundGroupSession_decryptMessageJni, Call
<1>5. Sound(OlmInboundGroupSession_firstKnownIndexJni)
    BY DEF OlmInboundGroupSession_firstKnownIndexJni, Call
<1>6. Sound(OlmInboundGroupSession_isVerifiedJni)
    BY DEF OlmInboundGroupSession_isVerifiedJni, Call
<1>7. Sound(OlmInboundGroupSession_exportJni)
    BY DEF OlmInboundGroupSession_exportJni, Call
<1>8. Sound(OlmInboundGroupSession_serializeJni)
    BY DEF OlmInboundGroupSession_serializeJni, Pickled, Call
<1>9. Sound(OlmInboundGroupSession_deserializeJni)
    BY DEF OlmInboundGroupSession_deserializeJni, Unpickle
<1> HIDE DEF Sound
<1> QED
    BY <1>1, <1>2, <1>3, <1>4, <1>5, <1>6, <1>7, <1>8, <1>9 DEF OlmInboundGroupSession

LEMMA OlmPkEncryptionSound == \A f \in OlmPkEncryption : Sound(f)
<1> USE DEF Sound, FreesAll, WipesSecrets, GivesWritten, SetsTheirKey, Freed, WipedLast,
            WrittenBefore, WipedBefore, SetsKey, Positions, Allocates, Fills, MayFail,
            Obtains, Writes, KnownLeft, KnownSpilled, Secrets, Step, Handle, Given, Get,
            Malloc, Make, Random, RandomIfAny, Olm, SetTheirKey, GenerateBytes,
            Value, Wipe, Silently, Unchecked, Ignored, Leaving, Jni
<1>1. Sound(OlmPkEncryption_createNewPkEncryptionJni)
    BY DEF OlmPkEncryption_createNewPkEncryptionJni, Create
<1>2. Sound(OlmPkEncryption_releasePkEncryptionJni)
    BY DEF OlmPkEncryption_releasePkEncryptionJni, Release
<1>3. Sound(OlmPkEncryption_setRecipientKeyJni)
    BY DEF OlmPkEncryption_setRecipientKeyJni, Call
<1>4. Sound(OlmPkEncryption_encryptJni)
    BY DEF OlmPkEncryption_encryptJni, Call
<1> HIDE DEF Sound
<1> QED
    BY <1>1, <1>2, <1>3, <1>4 DEF OlmPkEncryption

LEMMA OlmPkDecryptionSound == \A f \in OlmPkDecryption : Sound(f)
<1> USE DEF Sound, FreesAll, WipesSecrets, GivesWritten, SetsTheirKey, Freed, WipedLast,
            WrittenBefore, WipedBefore, SetsKey, Positions, Allocates, Fills, MayFail,
            Obtains, Writes, KnownLeft, KnownSpilled, Secrets, Step, Handle, Given, Get,
            Malloc, Make, Random, RandomIfAny, Olm, SetTheirKey, GenerateBytes,
            Value, Wipe, Silently, Unchecked, Ignored, Leaving, Jni
<1>1. Sound(OlmPkDecryption_createNewPkDecryptionJni)
    BY DEF OlmPkDecryption_createNewPkDecryptionJni, Create
<1>2. Sound(OlmPkDecryption_releasePkDecryptionJni)
    BY DEF OlmPkDecryption_releasePkDecryptionJni, Release
<1>3. Sound(OlmPkDecryption_setPrivateKeyJni)
    BY DEF OlmPkDecryption_setPrivateKeyJni, Call
<1>4. Sound(OlmPkDecryption_generateKeyJni)
    BY DEF OlmPkDecryption_generateKeyJni, Call
<1>5. Sound(OlmPkDecryption_privateKeyJni)
    BY DEF OlmPkDecryption_privateKeyJni, Call
<1>6. Sound(OlmPkDecryption_decryptJni)
    BY DEF OlmPkDecryption_decryptJni, Call
<1> HIDE DEF Sound
<1> QED
    BY <1>1, <1>2, <1>3, <1>4, <1>5, <1>6 DEF OlmPkDecryption

LEMMA OlmPkSigningSound == \A f \in OlmPkSigning : Sound(f)
<1> USE DEF Sound, FreesAll, WipesSecrets, GivesWritten, SetsTheirKey, Freed, WipedLast,
            WrittenBefore, WipedBefore, SetsKey, Positions, Allocates, Fills, MayFail,
            Obtains, Writes, KnownLeft, KnownSpilled, Secrets, Step, Handle, Given, Get,
            Malloc, Make, Random, RandomIfAny, Olm, SetTheirKey, GenerateBytes,
            Value, Wipe, Silently, Unchecked, Ignored, Leaving, Jni
<1>1. Sound(OlmPkSigning_createNewPkSigningJni)
    BY DEF OlmPkSigning_createNewPkSigningJni, Create
<1>2. Sound(OlmPkSigning_releasePkSigningJni)
    BY DEF OlmPkSigning_releasePkSigningJni, Release
<1>3. Sound(OlmPkSigning_generateSeedJni)
    BY DEF OlmPkSigning_generateSeedJni, Call
<1>4. Sound(OlmPkSigning_setKeyFromSeedJni)
    BY DEF OlmPkSigning_setKeyFromSeedJni, Call
<1>5. Sound(OlmPkSigning_pkSignJni)
    BY DEF OlmPkSigning_pkSignJni, Call
<1> HIDE DEF Sound
<1> QED
    BY <1>1, <1>2, <1>3, <1>4, <1>5 DEF OlmPkSigning

LEMMA OlmSASSound == \A f \in OlmSAS : Sound(f)
<1> USE DEF Sound, FreesAll, WipesSecrets, GivesWritten, SetsTheirKey, Freed, WipedLast,
            WrittenBefore, WipedBefore, SetsKey, Positions, Allocates, Fills, MayFail,
            Obtains, Writes, KnownLeft, KnownSpilled, Secrets, Step, Handle, Given, Get,
            Malloc, Make, Random, RandomIfAny, Olm, SetTheirKey, GenerateBytes,
            Value, Wipe, Silently, Unchecked, Ignored, Leaving, Jni
<1>1. Sound(OlmSAS_createNewSASJni)
    BY DEF OlmSAS_createNewSASJni, Create
<1>2. Sound(OlmSAS_releaseSASJni)
    BY DEF OlmSAS_releaseSASJni, Release
<1>3. Sound(OlmSAS_getPubKeyJni)
    BY DEF OlmSAS_getPubKeyJni, Call
<1>4. Sound(OlmSAS_setTheirPubKey)
    BY DEF OlmSAS_setTheirPubKey, Call
<1>5. Sound(OlmSAS_generateShortCodeJni)
    BY DEF OlmSAS_generateShortCodeJni, Call
<1>6. Sound(OlmSAS_calculateMacJni)
    BY DEF OlmSAS_calculateMacJni, MacWith, Call
<1>7. Sound(OlmSAS_calculateMacFixedBase64Jni)
    BY DEF OlmSAS_calculateMacFixedBase64Jni, MacWith, Call
<1>8. Sound(OlmSAS_calculateMacLongKdfJni)
    BY DEF OlmSAS_calculateMacLongKdfJni, MacWith, Call
<1> HIDE DEF Sound
<1> QED
    BY <1>1, <1>2, <1>3, <1>4, <1>5, <1>6, <1>7, <1>8 DEF OlmSAS

LEMMA OlmUtilitySound == \A f \in OlmUtility : Sound(f)
<1> USE DEF Sound, FreesAll, WipesSecrets, GivesWritten, SetsTheirKey, Freed, WipedLast,
            WrittenBefore, WipedBefore, SetsKey, Positions, Allocates, Fills, MayFail,
            Obtains, Writes, KnownLeft, KnownSpilled, Secrets, Step, Handle, Given, Get,
            Malloc, Make, Random, RandomIfAny, Olm, SetTheirKey, GenerateBytes,
            Value, Wipe, Silently, Unchecked, Ignored, Leaving, Jni
<1>1. Sound(OlmUtility_createUtilityJni)
    BY DEF OlmUtility_createUtilityJni, Create
<1>2. Sound(OlmUtility_releaseUtilityJni)
    BY DEF OlmUtility_releaseUtilityJni, Release
<1>3. Sound(OlmUtility_verifyEd25519SignatureJni)
    BY DEF OlmUtility_verifyEd25519SignatureJni, Call
<1>4. Sound(OlmUtility_sha256Jni)
    BY DEF OlmUtility_sha256Jni, Call
<1> HIDE DEF Sound
<1> QED
    BY <1>1, <1>2, <1>3, <1>4 DEF OlmUtility

LEMMA AllSound ==
    ASSUME class \in Classes, NEW f \in Functions[class] PROVE Sound(f)
BY OlmAccountSound, OlmSessionSound, OlmOutboundGroupSessionSound, OlmInboundGroupSessionSound,
   OlmPkEncryptionSound, OlmPkDecryptionSound, OlmPkSigningSound, OlmSASSound, OlmUtilitySound
   DEF Classes, Functions

-----------------------------------------------------------------------------
(* Where a function under way is: which buffers it may hold and which it   *)
(* must, and which of them may have something in them and which must.      *)
Holds(f) ==
    /\ \A b \in call.held : \E i \in 1 .. call.at - 1 :
          Allocates(f.steps[i]) /\ f.steps[i].buffer = b
    /\ \A i \in 1 .. call.at - 1 : Obtains(f.steps[i]) => f.steps[i].buffer \in call.held

MayBeFilled(f) ==
    /\ call.filled \subseteq call.held
    /\ call.filled # {} => \E i \in 1 .. call.at - 1 : Fills(f.steps[i])
    /\ call.at > 1 /\ f.steps[call.at - 1].does = "wipe" =>
          f.steps[call.at - 1].buffer \notin call.filled

MustBeFilled(f) ==
    \A b : WrittenBefore(f, b, call.at) => b \in call.filled \/ WipedBefore(f, call.at)

Place(f) ==
    /\ call = [of |-> f, at |-> call.at, held |-> call.held, filled |-> call.filled]
    /\ call.at \in 1 .. Len(f.steps) + 1

InCall(f) == Place(f) /\ Holds(f) /\ MayBeFilled(f) /\ MustBeFilled(f)

(* The field theirPublicKey is set only if the native object has the key.  *)
KeySet ==
    /\ theirPublicKey => their_key_set
    /\ Busy => /\ call.of.fn = "generateShortCodeJni" => theirPublicKey
               /\ \A i \in 1 .. call.at - 1 : SetsKey(call.of.steps[i]) => their_key_set

JavaInv ==
    /\ class \in Classes
    /\ Busy => Sound(call.of) /\ InCall(call.of)
    /\ KeySet /\ CleansUp

LEMMA JavaInitially == JavaInit => JavaInv
BY DEF JavaInit, JavaInv, KeySet, CleansUp, Busy, Idle

LEMMA EnterKeeps == ASSUME JavaInv, NEW f \in Functions[class], Enter(f) PROVE JavaInv'
<1>1. class \in Classes /\ Sound(f)
    BY AllSound DEF JavaInv
<1>2. call' = [of |-> f, at |-> 1, held |-> {}, filled |-> {}] /\ Len(f.steps) \in Nat
    BY <1>1 DEF Enter, Sound
<1>3. Place(f)' /\ Holds(f)' /\ MayBeFilled(f)' /\ MustBeFilled(f)'
    <2>1. Place(f)' /\ Holds(f)' /\ MayBeFilled(f)'
        BY <1>2 DEF Place, Holds, MayBeFilled
    <2>2. \A b : ~WrittenBefore(f, b, 1)
        BY DEF WrittenBefore
    <2>3. call'.at = 1
        BY <1>2
    <2> QED
        BY <2>1, <2>2, <2>3 DEF MustBeFilled
<1>4. KeySet'
    BY <1>2 DEF KeySet, JavaInv, Enter
<1>5. CleansUp' /\ class' = class
    BY DEF CleansUp, JavaInv, Enter
<1>6. call'.of = f
    BY <1>2
<1> QED
    BY <1>1, <1>3, <1>4, <1>5, <1>6 DEF JavaInv, InCall

-----------------------------------------------------------------------------
(* A function goes on to its next step with these buffers.                 *)
GoesOn(held, filled) ==
    /\ call.held \subseteq held
    /\ \A b \in held : b \in call.held \/ (Allocates(Now) /\ b = Now.buffer)
    /\ Obtains(Now) => Now.buffer \in held
    /\ filled \subseteq held
    /\ filled # {} => call.filled # {} \/ Fills(Now)
    /\ Now.does = "wipe" => Now.buffer \notin filled
    /\ call.filled \subseteq filled \/ Now.does = "wipe"
    /\ Obtains(Now) /\ Now.does \in {"get", "random"} => Now.buffer \in filled
    /\ Writes(Now) => call.held \subseteq filled

LEMMA ContinueKeepsPlace ==
    ASSUME JavaInv, Busy, ~Ended, NEW held, NEW filled, Continue(held, filled),
           GoesOn(held, filled), NEW f, f = call.of, NEW at, at = call.at
    PROVE  /\ Sound(f) /\ InCall(f)'
           /\ call'.of = f /\ call'.at = at + 1
           /\ at \in Nat /\ at > 0 /\ at <= Len(f.steps)
<1>1. Sound(f) /\ Place(f) /\ Holds(f) /\ MayBeFilled(f) /\ MustBeFilled(f)
    BY DEF JavaInv, InCall
<1>2. at \in Nat /\ at > 0 /\ at <= Len(f.steps) /\ Len(f.steps) \in Nat
    BY <1>1 DEF Place, Sound, Ended
<1>3. /\ call'.of = f /\ call'.at = at + 1 /\ call'.held = held /\ call'.filled = filled
      /\ call' = [of |-> f, at |-> at + 1, held |-> held, filled |-> filled]
    BY <1>1 DEF Place, Continue
<1>4. Now = f.steps[at]
    BY DEF Now
<1>5. Place(f)'
    BY <1>2, <1>3 DEF Place
<1>6. Holds(f)'
    <2>1. ASSUME NEW b \in held
          PROVE  \E i \in 1 .. at : Allocates(f.steps[i]) /\ f.steps[i].buffer = b
        BY <1>1, <1>2, <1>4, <2>1 DEF Holds, GoesOn
    <2>2. ASSUME NEW i \in 1 .. at, Obtains(f.steps[i]) PROVE f.steps[i].buffer \in held
        BY <1>1, <1>2, <1>4, <2>2 DEF Holds, GoesOn
    <2> QED
        BY <1>2, <1>3, <2>1, <2>2 DEF Holds
<1>7. MayBeFilled(f)'
    <2>1. filled \subseteq held /\ (Now.does = "wipe" => Now.buffer \notin filled)
        BY DEF GoesOn
    <2>2. filled # {} => \E i \in 1 .. at : Fills(f.steps[i])
        BY <1>1, <1>2, <1>4 DEF MayBeFilled, GoesOn
    <2> QED
        BY <1>2, <1>3, <1>4, <2>1, <2>2 DEF MayBeFilled
<1>8. MustBeFilled(f)'
    <2> SUFFICES ASSUME NEW b, WrittenBefore(f, b, at + 1), ~WipedBefore(f, at + 1)
                 PROVE  b \in filled
        BY <1>3 DEF MustBeFilled
    <2>1. PICK j \in 1 .. at :
            /\ Obtains(f.steps[j]) /\ f.steps[j].buffer = b
            /\ \/ f.steps[j].does \in {"get", "random"}
               \/ \E k \in j + 1 .. at : Writes(f.steps[k])
        BY <1>2 DEF WrittenBefore
    <2>2. ~WipedBefore(f, at) /\ Now.does # "wipe" /\ call.filled \subseteq filled
        BY <1>2, <1>4 DEF WipedBefore, GoesOn
    <2>3. CASE j = at
        BY <1>2, <1>4, <2>1, <2>3 DEF GoesOn
    <2>4. CASE j < at /\ WrittenBefore(f, b, at)
        BY <1>1, <2>2, <2>4 DEF MustBeFilled
    <2>5. CASE j < at /\ ~WrittenBefore(f, b, at)
        <3>1. j \in 1 .. at - 1
            BY <1>2, <2>5
        <3>2. b \in call.held
            BY <1>1, <2>1, <3>1 DEF Holds
        <3>3. PICK k \in j + 1 .. at : Writes(f.steps[k])
            BY <2>1, <2>5, <3>1 DEF WrittenBefore
        <3>4. k \notin j + 1 .. at - 1
            BY <2>1, <2>5, <3>1, <3>3 DEF WrittenBefore
        <3>5. Writes(Now)
            BY <1>2, <1>4, <3>1, <3>3, <3>4
        <3> QED
            BY <3>2, <3>5 DEF GoesOn
    <2> QED
        BY <1>2, <2>1, <2>3, <2>4, <2>5
<1> QED
    BY <1>1, <1>2, <1>3, <1>5, <1>6, <1>7, <1>8 DEF InCall

LEMMA ContinueKeeps ==
    ASSUME JavaInv, Busy, ~Ended, NEW held, NEW filled, Continue(held, filled),
           GoesOn(held, filled),
           their_key_set => their_key_set', SetsKey(Now) => their_key_set'
    PROVE  JavaInv'
<1>1. PICK f : f = call.of
    OBVIOUS
<1>2. PICK at : at = call.at
    OBVIOUS
<1>3. /\ Sound(f) /\ InCall(f)'
      /\ call'.of = f /\ call'.at = at + 1
      /\ at \in Nat /\ at > 0
    BY <1>1, <1>2, ContinueKeepsPlace
<1>4. (Busy => Sound(call.of) /\ InCall(call.of))'
    BY <1>3
<1>5. KeySet'
    <2>1. theirPublicKey' = theirPublicKey
        BY DEF Continue
    <2>2. f.fn = "generateShortCodeJni" => theirPublicKey
        BY <1>1 DEF JavaInv, KeySet
    <2>3. ASSUME NEW i \in 1 .. at, SetsKey(f.steps[i]) PROVE their_key_set'
        BY <1>1, <1>2, <1>3, <2>1, <2>3 DEF JavaInv, KeySet, Now
    <2> QED
        BY <1>3, <2>1, <2>2, <2>3 DEF JavaInv, KeySet
<1>6. class' = class /\ CleansUp'
    BY DEF JavaInv, CleansUp, Continue
<1> QED
    BY <1>4, <1>5, <1>6 DEF JavaInv

LEMMA StepSucceedsKeeps == ASSUME JavaInv, StepSucceeds PROVE JavaInv'
<1>1. call.filled \subseteq call.held
    BY DEF StepSucceeds, JavaInv, InCall, MayBeFilled
<1>2. GoesOn(HeldAfter, FilledAfter)
    BY <1>1 DEF GoesOn, HeldAfter, FilledAfter, Allocates, Obtains, Fills, Writes
<1>3. (their_key_set => their_key_set') /\ (SetsKey(Now) => their_key_set')
    BY DEF StepSucceeds, SetsKey
<1> QED
    BY <1>2, <1>3, ContinueKeeps DEF StepSucceeds

LEMMA NoRandomNeededKeeps == ASSUME JavaInv, NoRandomNeeded PROVE JavaInv'
<1>1. call.filled \subseteq call.held
    BY DEF NoRandomNeeded, JavaInv, InCall, MayBeFilled
<1>2. GoesOn(call.held, call.filled)
    BY <1>1 DEF NoRandomNeeded, GoesOn, Allocates, Obtains, Fills, Writes
<1> QED
    BY <1>2, ContinueKeeps DEF NoRandomNeeded, SetsKey

(* Only generateShortCodeJni goes on without the bytes it asked for, and it*)
(* is not called when there are none.                                      *)
LEMMA FailureIgnoredKeeps == ASSUME JavaInv, FailureIgnored PROVE JavaInv'
<1>1. call.filled \subseteq call.held /\ Sound(call.of) /\ Place(call.of)
    BY DEF FailureIgnored, JavaInv, InCall, MayBeFilled
<1>2. Now.does # "generate_bytes"
    <2> SUFFICES ASSUME Now.does = "generate_bytes" PROVE FALSE
        OBVIOUS
    <2>1. call.at \in Positions(call.of)
        BY <1>1 DEF Place, Positions, FailureIgnored, Ended, Sound
    <2>2. call.of.fn = "generateShortCodeJni"
        BY <1>1, <2>1 DEF Sound, SetsTheirKey, Now
    <2> QED
        BY <2>2 DEF FailureIgnored, CanFail, JavaInv, KeySet
<1>3. GoesOn(call.held, call.filled)
    BY <1>1, <1>2 DEF FailureIgnored, CanFail, GoesOn, Allocates, Obtains, Fills, Writes
<1> QED
    BY <1>3, ContinueKeeps DEF FailureIgnored, SetsKey

-----------------------------------------------------------------------------
(* A function ends.                                                        *)
LEMMA CleanUpCleansUp ==
    ASSUME CleansUp, NEW held, NEW filled, NEW onError, NEW more,
           CleanUp(held, filled, onError, more),
           \A b \in held : Freed(call.of, b) \/ b \in onError,
           \A b \in more : <<call.of.fn, b>> \in KnownLeft,
           \A b \in filled : b \in Secrets =>
              b \in call.of.wipes \/ <<call.of.fn, b>> \in KnownSpilled
    PROVE  CleansUp' /\ ~Busy'
<1>1. left' \subseteq KnownLeft
    BY DEF CleanUp, CleansUp, Freed
<1>2. spilled' \subseteq KnownSpilled
    BY DEF CleanUp, CleansUp, KnownSpilled
<1> QED
    BY <1>1, <1>2 DEF CleansUp, KnownSpilled, CleanUp, Busy

LEMMA StepFailsKeeps == ASSUME JavaInv, StepFails PROVE JavaInv'
<1>1. PICK f : f = call.of
    OBVIOUS
<1>2. PICK at : at = call.at
    OBVIOUS
<1>3. /\ Sound(f) /\ Place(f) /\ Holds(f) /\ MayBeFilled(f)
      /\ at \in Nat /\ at > 0 /\ at <= Len(f.steps) /\ Len(f.steps) \in Nat
    BY <1>1, <1>2 DEF StepFails, JavaInv, InCall, Place, Sound, Ended
<1>4. Now = f.steps[at] /\ MayFail(Now)
    BY <1>1, <1>2 DEF StepFails, CanFail, Now, MayFail
<1>5. ASSUME NEW b \in call.held PROVE Freed(f, b) \/ b \in f.onError
    <2>1. PICK i \in 1 .. at - 1 : Allocates(f.steps[i]) /\ f.steps[i].buffer = b
        BY <1>2, <1>3 DEF Holds
    <2>2. i \in Positions(f) /\ at \in i + 1 .. Len(f.steps)
        BY <1>3 DEF Positions
    <2> QED
        BY <1>3, <1>4, <2>1, <2>2 DEF Sound, FreesAll
<1>6. ASSUME NEW b \in call.filled, b \in Secrets
      PROVE  b \in f.wipes \/ <<f.fn, b>> \in KnownSpilled
    <2>1. PICK i \in 1 .. at - 1 : Allocates(f.steps[i]) /\ f.steps[i].buffer = b
        BY <1>2, <1>3 DEF Holds, MayBeFilled
    <2>2. PICK k \in 1 .. at - 1 : Fills(f.steps[k])
        BY <1>2, <1>3 DEF MayBeFilled
    <2>3. i \in Positions(f) /\ k \in Positions(f) /\ at \in Positions(f) /\ k < at
        BY <1>3 DEF Positions
    <2>4. ~WipedLast(f, b)
        BY <1>4, <2>2, <2>3 DEF WipedLast
    <2> QED
        BY <1>3, <1>6, <2>1, <2>3, <2>4 DEF Sound, WipesSecrets
<1>7. ASSUME NEW made_too \in {{}, IF Now.does \in {"random", "random_if_any"}
                                   THEN {Now.buffer} ELSE {}},
             NEW b \in made_too
      PROVE  IF Now.otherwise = "leaves" THEN <<f.fn, b>> \in KnownLeft ELSE Freed(f, b)
    <2>1. Now.does \in {"random", "random_if_any"} /\ b = Now.buffer
        BY <1>7
    <2>2. at \in Positions(f)
        BY <1>3 DEF Positions
    <2> QED
        BY <1>3, <1>4, <2>1, <2>2 DEF Sound, FreesAll
<1>8. PICK held, more :
        /\ Fail(held, more)
        /\ \A b \in held : Freed(f, b) \/ b \in f.onError
        /\ \A b \in more : <<f.fn, b>> \in KnownLeft
    <2>1. PICK made_too \in {{}, IF Now.does \in {"random", "random_if_any"}
                                 THEN {Now.buffer} ELSE {}} :
            IF Now.otherwise = "leaves" THEN Fail(call.held, made_too)
            ELSE Fail(call.held \cup made_too, {})
        BY DEF StepFails
    <2>2. CASE Now.otherwise = "leaves"
        BY <1>5, <1>7, <2>1, <2>2
    <2>3. CASE Now.otherwise # "leaves"
        BY <1>5, <1>7, <2>1, <2>3
    <2> QED
        BY <2>2, <2>3
<1>9. CleansUp' /\ ~Busy'
    BY <1>1, <1>6, <1>8, CleanUpCleansUp DEF Fail, JavaInv
<1>10. theirPublicKey' => their_key_set'
    <2>1. f.fn = "setTheirPubKey" => Now.otherwise # "silent"
        BY <1>3, <1>4 DEF Sound, SetsTheirKey, Positions
    <2>2. theirPublicKey' => theirPublicKey
        BY <1>1, <1>8, <2>1 DEF Fail, TheirPublicKeyAfter
    <2> QED
        BY <1>8, <2>2 DEF Fail, JavaInv, KeySet
<1>11. class' = class
    BY <1>8 DEF Fail
<1> QED
    BY <1>9, <1>10, <1>11 DEF JavaInv, KeySet

LEMMA ReturnKeeps == ASSUME JavaInv, Return PROVE JavaInv'
<1>1. PICK f : f = call.of
    OBVIOUS
<1>2. PICK at : at = call.at
    OBVIOUS
<1>3. /\ Sound(f) /\ Place(f) /\ Holds(f) /\ MayBeFilled(f)
      /\ Len(f.steps) \in Nat /\ at = Len(f.steps) + 1
    BY <1>1, <1>2 DEF Return, JavaInv, InCall, Place, Sound, Ended
<1>4. ASSUME NEW b \in call.held \ {"object"} PROVE Freed(f, b)
    <2>1. PICK i \in 1 .. at - 1 : Allocates(f.steps[i]) /\ f.steps[i].buffer = b
        BY <1>2, <1>3 DEF Holds
    <2>2. i \in Positions(f) /\ b # "object" /\ FreesAll(f)
        BY <1>3 DEF Sound, Positions
    <2> QED
        BY <2>1, <2>2 DEF FreesAll
<1>5. ASSUME NEW b \in call.filled, b \in Secrets
      PROVE  b \in f.wipes \/ <<f.fn, b>> \in KnownSpilled
    <2>1. PICK i \in 1 .. at - 1 : Allocates(f.steps[i]) /\ f.steps[i].buffer = b
        BY <1>2, <1>3 DEF Holds, MayBeFilled
    <2>2. i \in Positions(f) /\ at - 1 = Len(f.steps) /\ at > 1
        BY <1>3 DEF Positions
    <2>3. ~WipedLast(f, b)
        BY <1>2, <1>3, <2>2 DEF WipedLast, MayBeFilled
    <2> QED
        BY <1>3, <1>5, <2>1, <2>2, <2>3 DEF Sound, WipesSecrets
<1>6. CleansUp' /\ ~Busy'
    <2> DEFINE more == IF call.of.does = "unpickle" /\ mNativeId # 0 THEN {"previous"} ELSE {}
    <2>1. CleanUp(call.held \ {"object"}, call.filled, {}, more)
        BY DEF Return
    <2>2. \A b \in more : <<f.fn, b>> \in KnownLeft
        BY <1>1, <1>3 DEF Sound, KnownLeft
    <2> HIDE DEF more
    <2> QED
        BY <1>1, <1>4, <1>5, <2>1, <2>2, CleanUpCleansUp DEF JavaInv
<1>7. theirPublicKey' => their_key_set'
    <2>1. CASE f.fn = "setTheirPubKey"
        <3>1. PICK i \in 1 .. at - 1 : SetsKey(f.steps[i])
            BY <1>3, <2>1 DEF Sound, SetsTheirKey, Positions
        <3>2. their_key_set
            BY <1>1, <1>2, <3>1 DEF Return, JavaInv, KeySet
        <3> QED
            BY <3>2 DEF Return
    <2>2. CASE f.fn # "setTheirPubKey"
        BY <1>1, <2>2 DEF Return, TheirPublicKeyAfter, JavaInv, KeySet
    <2> QED
        BY <2>1, <2>2
<1>8. class' = class
    BY DEF Return
<1> QED
    BY <1>6, <1>7, <1>8 DEF JavaInv, KeySet

LEMMA AbortKeeps == ASSUME JavaInv, Abort PROVE JavaInv'
BY DEF Abort, JavaInv, KeySet, CleansUp, Busy

LEMMA StutterKeeps == ASSUME JavaInv, UNCHANGED javaVars PROVE JavaInv'
<1>1. UNCHANGED <<class, theirPublicKey, their_key_set, call, left, spilled>>
    BY DEF javaVars
<1>2. InCall(call.of)' <=> InCall(call.of)
    BY <1>1 DEF InCall, Place, Holds, MayBeFilled, MustBeFilled
<1> QED
    BY <1>1, <1>2 DEF JavaInv, KeySet, CleansUp, Busy

LEMMA JavaInductive == ASSUME JavaInv, [JavaNext]_javaVars PROVE JavaInv'
BY EnterKeeps, StepSucceedsKeeps, NoRandomNeededKeeps, StepFailsKeeps, FailureIgnoredKeeps,
   AbortKeeps, ReturnKeeps, StutterKeeps DEF JavaNext

(* Whatever step of whatever function fails, what it allocated is freed    *)
(* and what held a secret is wiped, but for the buffers that are listed.   *)
THEOREM FailuresCleanUp == JavaSpec => []CleansUp
<1>1. JavaInv => CleansUp
    BY DEF JavaInv
<1>2. JavaInv /\ [JavaNext]_javaVars => JavaInv'
    BY JavaInductive
<1> QED
    BY <1>1, <1>2, JavaInitially, PTL DEF JavaSpec

(* No buffer becomes a Java value that the library did not write, though   *)
(* generateShortCodeJni does not look whether it did: the Java object does *)
(* not call it before the native one has the peer's key.                   *)
THEOREM JavaGetsWhatWasWritten == JavaSpec => []ValuesWritten
<1>1. JavaInv => ValuesWritten
    <2> SUFFICES ASSUME JavaInv, Busy, ~Ended, Now.does = "value"
                 PROVE  Now.buffer \in call.filled
        BY DEF ValuesWritten
    <2>1. PICK f : f = call.of
        OBVIOUS
    <2>2. Sound(f) /\ Place(f) /\ MustBeFilled(f) /\ call.at \in Positions(f)
        BY <2>1 DEF JavaInv, InCall, Place, Sound, Ended, Positions
    <2>3. WrittenBefore(f, Now.buffer, call.at) /\ ~WipedBefore(f, call.at)
        BY <2>1, <2>2 DEF Sound, GivesWritten, Now
    <2> QED
        BY <2>2, <2>3 DEF MustBeFilled
<1>2. JavaInv /\ [JavaNext]_javaVars => JavaInv'
    BY JavaInductive
<1> QED
    BY <1>1, <1>2, JavaInitially, PTL DEF JavaSpec
=============================================================================
