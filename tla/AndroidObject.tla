---------------------------- MODULE AndroidObject ----------------------------
(***************************************************************************)
(* A Java object of the Android binding and the native object it stands    *)
(* for (android/olm-sdk/src/main).  Its methods go through the native      *)
(* functions of AndroidCalls, one at a time; any step of a function may    *)
(* fail, and the process may die for want of memory.  What is kept is who  *)
(* owns which memory, and what it holds.                                   *)
(***************************************************************************)
EXTENDS AndroidCalls, Integers

CONSTANT MaxMade        \* bound: how many native objects Java is given

ASSUME MadeAssumption == MaxMade \in Nat

VARIABLES
    class,              \* the class of the object
    mNativeId,          \* the field: a native object, 0 for none
    natives,            \* the native objects that were not freed
    made,               \* how many native objects Java was given
    theirPublicKey,     \* OlmSAS: is the field set?
    their_key_set,      \* and that of the native object?
    call,               \* the native function under way
    left,               \* the buffers that were never freed
    spilled             \* those freed, or left, with a secret in them

javaVars == <<class, mNativeId, natives, made, theirPublicKey, their_key_set, call, left, spilled>>

Classes == {"OlmAccount", "OlmSession", "OlmOutboundGroupSession",
            "OlmInboundGroupSession", "OlmPkEncryption", "OlmPkDecryption",
            "OlmPkSigning", "OlmSAS", "OlmUtility"}

Functions == [OlmAccount |-> OlmAccount, OlmSession |-> OlmSession,
              OlmOutboundGroupSession |-> OlmOutboundGroupSession,
              OlmInboundGroupSession |-> OlmInboundGroupSession,
              OlmPkEncryption |-> OlmPkEncryption,
              OlmPkDecryption |-> OlmPkDecryption, OlmPkSigning |-> OlmPkSigning,
              OlmSAS |-> OlmSAS, OlmUtility |-> OlmUtility]

(* The buffers the binding takes care to wipe somewhere.                   *)
Secrets == {"random", "key", "privateKey", "sessionKey", "clear", "plaintext", "message"}

Idle == [at |-> 0]

JavaInit ==
    /\ class \in Classes
    /\ mNativeId = 0 /\ natives = {} /\ made = 0
    /\ theirPublicKey = FALSE /\ their_key_set = FALSE
    /\ call = Idle
    /\ left = {} /\ spilled = {}

Busy == call # Idle
Ended == call.at > Len(call.of.steps)
Now == call.of.steps[call.at]

-----------------------------------------------------------------------------
(* The Java methods, as far as they decide whether the native one is       *)
(* called: a constructor is called for a new object, a release of what is  *)
(* there, and OlmSAS.generateShortCode() once the peer's key is set.       *)
Enter(f) ==
    /\ ~Busy
    /\ f.does = "create" => mNativeId = 0
    /\ f.does = "release" => mNativeId # 0
    /\ f.does \in {"create", "unpickle"} => made < MaxMade
    /\ f.fn = "generateShortCodeJni" => theirPublicKey
    /\ call' = [of |-> f, at |-> 1, held |-> {}, filled |-> {}]
    /\ UNCHANGED <<class, mNativeId, natives, made, theirPublicKey, their_key_set,
                   left, spilled>>

(* What a function still holds when it returns is left; onError tells what *)
(* it frees after an error beside the rest.                                *)
CleanUp(held, filled, onError, more) ==
    LET fn == call.of.fn IN
    /\ left' = left \cup {<<fn, b>> : b \in more \cup (held \ (call.of.frees \cup onError))}
    /\ spilled' = spilled \cup {<<fn, b>> : b \in (filled \cap Secrets) \ call.of.wipes}
    /\ call' = Idle

(* Mutant: the object is freed, and the field kept.                        *)
ReleaseKeeping ==
    /\ natives' = natives \ {mNativeId}
    /\ UNCHANGED mNativeId

(* releaseAccount() and its like.                                          *)
ReleaseObject ==
    /\ natives' = natives \ {mNativeId}
    /\ mNativeId' = 0

(* Another native object for mNativeId.                                    *)
TakeObject ==
    /\ made' = made + 1
    /\ mNativeId' = made + 1
    /\ natives' = natives \cup {made + 1}

(* OlmSAS.setTheirPublicKey() sets the field unless there is an exception. *)
TheirPublicKeyAfter == theirPublicKey \/ call.of.fn = "setTheirPubKey"

(* The function did what it was asked for.  An unpickled object replaces   *)
(* the one the Java object had, which nothing refers to then.              *)
Return ==
    /\ Busy /\ Ended
    /\ \/ call.of.does \in {"create", "unpickle"} /\ TakeObject
       \/ call.of.does = "release" /\ ReleaseObject /\ UNCHANGED made
       \/ call.of.does = "call" /\ UNCHANGED <<mNativeId, natives, made>>
    /\ CleanUp(call.held \ {"object"}, call.filled, {},
               IF call.of.does = "unpickle" /\ mNativeId # 0 THEN {"previous"} ELSE {})
    /\ theirPublicKey' = (call.of.does # "create" /\ TheirPublicKeyAfter)
    /\ their_key_set' = (call.of.does # "create" /\ their_key_set)
    /\ UNCHANGED class

(* It failed: deserialize() then releases the object there was before.     *)
Fail(held, more) ==
    /\ CleanUp(held, call.filled, call.of.onError, more)
    /\ IF call.of.does = "unpickle" THEN ReleaseObject ELSE UNCHANGED <<mNativeId, natives>>
    /\ theirPublicKey' = IF Now.otherwise = "silent" THEN TheirPublicKeyAfter
                         ELSE theirPublicKey
    /\ UNCHANGED <<class, made, their_key_set>>

-----------------------------------------------------------------------------
(* The steps whose outcome the state decides.                              *)
CanSucceed ==
    /\ Now.does = "handle" => mNativeId # 0
    /\ Now.does = "generate_bytes" => their_key_set

CanFail ==
    /\ Now.does = "handle" => mNativeId = 0
    /\ Now.does = "generate_bytes" => ~their_key_set
    /\ Now.does # "wipe"

Continue(held, filled) ==
    /\ call' = [call EXCEPT !.at = @ + 1, !.held = held, !.filled = filled]
    /\ UNCHANGED <<class, mNativeId, natives, made, theirPublicKey, left, spilled>>

(* The buffers held, and those with something in them, after a step.       *)
HeldAfter ==
    call.held \cup {b \in {Now.buffer} :
        Now.does \in {"malloc", "make", "get", "random", "random_if_any"}}

FilledAfter ==
    IF Now.does \in {"olm", "generate_bytes"} THEN call.held
    ELSE IF Now.does \in {"get", "random", "random_if_any"} THEN call.filled \cup {Now.buffer}
    ELSE IF Now.does = "wipe" THEN call.filled \ {Now.buffer}
    ELSE call.filled

StepSucceeds ==
    /\ Busy /\ ~Ended /\ CanSucceed
    /\ Continue(HeldAfter, FilledAfter)
    /\ their_key_set' = (their_key_set \/ Now.does = "set_their_key")

(* olm_encrypt_random_length() and its like may be 0.                      *)
NoRandomNeeded ==
    /\ Busy /\ ~Ended /\ Now.does = "random_if_any"
    /\ Continue(call.held, call.filled)
    /\ UNCHANGED their_key_set

(* setRandomInBuffer() may have made the buffer when it fails.             *)
StepFails ==
    /\ Busy /\ ~Ended /\ CanFail
    /\ Now.otherwise \in {"throws", "silent", "leaves"}
    /\ \E made_too \in {{}, IF Now.does \in {"random", "random_if_any"}
                            THEN {Now.buffer} ELSE {}} :
         IF Now.otherwise = "leaves" THEN Fail(call.held, made_too)
         ELSE Fail(call.held \cup made_too, {})

FailureIgnored ==
    /\ Busy /\ ~Ended /\ CanFail /\ Now.otherwise = "ignored"
    /\ Continue(call.held, call.filled)
    /\ UNCHANGED their_key_set

(* The process dies, and another one begins with nothing.                  *)
Abort ==
    /\ Busy /\ ~Ended /\ CanFail /\ Now.otherwise = "aborts"
    /\ mNativeId' = 0 /\ natives' = {}
    /\ theirPublicKey' = FALSE /\ their_key_set' = FALSE
    /\ call' = Idle
    /\ left' = {} /\ spilled' = {}
    /\ UNCHANGED <<class, made>>

JavaNext ==
    \/ \E f \in Functions[class] : Enter(f)
    \/ StepSucceeds
    \/ NoRandomNeeded
    \/ StepFails
    \/ FailureIgnored
    \/ Abort
    \/ Return

JavaSpec == JavaInit /\ [][JavaNext]_javaVars

-----------------------------------------------------------------------------
(* The field names a native object that is still there, after any sequence *)
(* of releases, of pickles that were refused and of calls that failed:     *)
(* nothing is used after it was freed, and nothing is freed twice.         *)
HandleLive == mNativeId # 0 => mNativeId \in natives

(* Buffers no function of the binding ever frees, and the ways of losing   *)
(* one: the output is not freed at all, the clean-up stands in the branch  *)
(* of success, a pointer is overwritten, an object is replaced.            *)
KnownLeft ==
    {<<"initOutboundSessionJni", "random">>, <<"encryptMessageJni", "random">>,
     <<"createNewSessionJni", "random">>, <<"createNewSASJni", "object">>,
     <<"setPrivateKeyJni", "publicKey">>, <<"generateKeyJni", "publicKey">>,
     <<"privateKeyJni", "privateKey">>, <<"decryptJni", "ciphertext">>,
     <<"setKeyFromSeedJni", "publicKey">>, <<"pkSignJni", "signature">>,
     <<"deserializeJni", "previous">>}

(* What a function had allocated is freed and what held a secret wiped,    *)
(* whatever step of it fails: nothing is left but KnownLeft, and no secret *)
(* is spilled but the key sessionKeyJni hands out and the copy of the      *)
(* message signMessageJni signs.                                           *)
CleansUp ==
    /\ left \subseteq KnownLeft
    /\ spilled \subseteq {<<"sessionKeyJni", "sessionKey">>, <<"signMessageJni", "message">>}

(* A value that Java is given was written by the library: in particular    *)
(* generateShortCodeJni, which does not look whether olm_sas_generate_bytes*)
(* succeeded, is called only when it does, because the field of OlmSAS     *)
(* says of the native object what is true of it.                           *)
ValuesWritten == Busy /\ ~Ended /\ Now.does = "value" => Now.buffer \in call.filled
=============================================================================
