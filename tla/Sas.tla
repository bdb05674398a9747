--------------------------------- MODULE Sas ---------------------------------
(***************************************************************************)
(* Verification by short authentication strings (src/sas.c).  Two parties  *)
(* exchange the public keys of objects made for the purpose, through a     *)
(* server that may repeat, delay and damage them; then each shows bytes,   *)
(* or sends a MAC, derived from the secret of the two keys.  A party may   *)
(* call olm_create_sas or olm_clear_sas again at any time, and the peer's  *)
(* key may come again, another one, or too early.                          *)
(***************************************************************************)
EXTENDS Integers

CONSTANTS
    Alice, Bob,
    Noise,              \* a key that was damaged on the way
    NONE,               \* no key, no output
    MaxCreated          \* bound: how often a party calls olm_create_sas

Party == {Alice, Bob}
Peer(p) == IF p = Alice THEN Bob ELSE Alice

(* The n-th key pair of a party, and the zeroed one of a new object.       *)
Key(p, n) == [owner |-> p, n |-> n]
ZeroKey == Key("nobody", 0)
Keys == [owner : Party \cup {"nobody"}, n : Nat]

ASSUME SasAssumption ==
    /\ Alice # Bob /\ "nobody" \notin Party
    /\ Noise \notin Keys /\ NONE \notin Keys /\ Noise # NONE
    /\ MaxCreated \in Nat

VARIABLES
    sas,                \* the object of each party
    created,            \* how many keys each has made
    theirs,             \* history: the key given to olm_sas_set_their_key
                        \* since the object's own was made, if any
    shown               \* the last output of each party, and of which keys

vars == <<sas, created, theirs, shown>>

Methods == {"bytes", "mac", "mac_fixed_base64", "mac_long_kdf"}

(* olm_sas(), olm_clear_sas(): the memory is zeroed.                       *)
Zeroed == [curve25519_key |-> ZeroKey, secret |-> {}, their_key_set |-> FALSE]

(* The public keys a party may be given.                                   *)
KeysFrom(p) == {Key(p, n) : n \in 1 .. created[p]} \cup {Noise}

Init ==
    /\ sas = [p \in Party |-> Zeroed]
    /\ created = [p \in Party |-> 0]
    /\ theirs = [p \in Party |-> NONE]
    /\ shown = [p \in Party |-> NONE]

-----------------------------------------------------------------------------
Clear(p) ==
    /\ sas' = [sas EXCEPT ![p] = Zeroed]
    /\ theirs' = [theirs EXCEPT ![p] = NONE]
    /\ UNCHANGED <<created, shown>>

(* Mutant: that the peer's key is set is not forgotten.                    *)
CreateKeepsFlag(p) ==
    /\ created[p] < MaxCreated
    /\ created' = [created EXCEPT ![p] = @ + 1]
    /\ sas' = [sas EXCEPT ![p].curve25519_key = Key(p, created[p] + 1)]
    /\ theirs' = [theirs EXCEPT ![p] = NONE]
    /\ UNCHANGED shown

(* olm_create_sas(): the secret stays in memory.                           *)
CreateSas(p) ==
    /\ created[p] < MaxCreated
    /\ created' = [created EXCEPT ![p] = @ + 1]
    /\ sas' = [sas EXCEPT ![p].curve25519_key = Key(p, created[p] + 1),
                          ![p].their_key_set = FALSE]
    /\ theirs' = [theirs EXCEPT ![p] = NONE]
    /\ UNCHANGED shown

(* Mutant: a second key is not taken.                                      *)
SetTheirKeyOnce(p, k) ==
    /\ sas' = [sas EXCEPT ![p].secret = IF sas[p].their_key_set THEN @
                                        ELSE {sas[p].curve25519_key, k},
                          ![p].their_key_set = TRUE]
    /\ theirs' = [theirs EXCEPT ![p] = k]
    /\ UNCHANGED <<created, shown>>

(* olm_sas_set_their_key(): the secret is the same for the two ends.  A    *)
(* key that is too short or no base64 is refused and changes nothing.      *)
SasSetTheirKey(p, k) ==
    /\ sas' = [sas EXCEPT ![p].secret = {sas[p].curve25519_key, k},
                          ![p].their_key_set = TRUE]
    /\ theirs' = [theirs EXCEPT ![p] = k]
    /\ UNCHANGED <<created, shown>>

(* Mutant: an output is made of whatever secret there is.                  *)
GenerateUnset(p, method) ==
    /\ shown' = [shown EXCEPT ![p] = [method |-> method, secret |-> sas[p].secret,
                                      own |-> sas[p].curve25519_key, their |-> theirs[p]]]
    /\ UNCHANGED <<sas, created, theirs>>

(* olm_sas_generate_bytes() and olm_sas_calculate_mac() in its variants,   *)
(* for one info and input: refused with OLM_SAS_THEIR_KEY_NOT_SET, or an   *)
(* output that depends on the method and the secret.                       *)
Generate(p, method) ==
    /\ sas[p].their_key_set
    /\ shown' = [shown EXCEPT ![p] = [method |-> method, secret |-> sas[p].secret,
                                      own |-> sas[p].curve25519_key, their |-> theirs[p]]]
    /\ UNCHANGED <<sas, created, theirs>>

Next ==
    \E p \in Party :
        \/ Clear(p)
        \/ CreateSas(p)
        \/ \E k \in KeysFrom(Peer(p)) : SasSetTheirKey(p, k)
        \/ \E method \in Methods : Generate(p, method)

Spec == Init /\ [][Next]_vars
-----------------------------------------------------------------------------
TypeOK ==
    /\ created \in [Party -> Nat]
    /\ sas \in [Party -> [curve25519_key : Keys, secret : SUBSET (Keys \cup {Noise}),
                          their_key_set : BOOLEAN]]
    /\ theirs \in [Party -> Keys \cup {Noise, NONE}]
    /\ shown \in [Party -> [method : Methods, secret : SUBSET (Keys \cup {Noise}), own : Keys,
                            their : Keys \cup {Noise}] \cup {NONE}]

(* No output is made before the peer's key has been given to this very     *)
(* object, nor of a secret that an earlier key pair or an earlier key of   *)
(* the peer left in memory.                                                *)
ShownOfBothKeys ==
    \A p \in Party : shown[p] # NONE =>
        /\ shown[p].their # NONE
        /\ shown[p].secret = {shown[p].own, shown[p].their}

(* Two outputs agree exactly when each was made of the other's key: what   *)
(* the users compare tells them whether a key was exchanged on the way.    *)
(* (Objects that no key was created for are left out: they have the same.) *)
AgreeExactly ==
    LET a == shown[Alice]
        b == shown[Bob]
    IN  a # NONE /\ b # NONE /\ a.own.n > 0 /\ b.own.n > 0 /\ a.method = b.method =>
            (a.secret = b.secret <=> a.their = b.own /\ b.their = a.own)
=============================================================================
