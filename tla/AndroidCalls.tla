---------------------------- MODULE AndroidCalls ----------------------------
(***************************************************************************)
(* The native functions of the Android binding, class by class, as the     *)
(* steps of JniSteps.  Reading a field or the class of a Java object is    *)
(* Given; a memset() that is done if the array was copied is done.         *)
(***************************************************************************)
EXTENDS JniSteps

(* Shapes that several classes have; a few ask for the arguments first.    *)
Identifier(fn) ==
    Call(fn, <<Handle, Malloc("id"), Olm, Unchecked(Value("id"))>>, {"id"}, {})

Pickled(fn) ==
    Call(fn, <<Handle, Given("key"), Get("key"), Malloc("pickle"), Olm,
               Unchecked(Value("pickle"))>>, {"key", "pickle"}, {"key"})

-----------------------------------------------------------------------------
(* OlmAccount                                                              *)
OlmAccount_createNewAccountJni ==
    Create("createNewAccountJni", <<Make, RandomIfAny("random"), Olm>>,
           {"random"}, {"random"}, {"object"})

OlmAccount_releaseAccountJni == Release("releaseAccountJni")

OlmAccount_identityKeysJni ==
    Call("identityKeysJni", <<Handle, Malloc("keys"), Olm, Value("keys")>>, {"keys"}, {})

OlmAccount_maxOneTimeKeysJni == Call("maxOneTimeKeysJni", <<Silently(Handle)>>, {}, {})

(* Mutant: the random bytes are freed where they were used up only.        *)
OlmAccount_generateOneTimeKeysLeaving ==
    Call("generateOneTimeKeysJni", <<Handle, Leaving(RandomIfAny("random")), Olm>>,
         {"random"}, {"random"})

OlmAccount_generateOneTimeKeysJni ==
    Call("generateOneTimeKeysJni", <<Handle, RandomIfAny("random"), Olm>>,
         {"random"}, {"random"})

OlmAccount_oneTimeKeysJni ==
    Call("oneTimeKeysJni", <<Handle, Malloc("keys"), Olm, Value("keys")>>, {"keys"}, {})

OlmAccount_removeOneTimeKeysJni ==
    Call("removeOneTimeKeysJni", <<Given("session"), Handle, Olm>>, {}, {})

OlmAccount_markOneTimeKeysAsPublishedJni ==
    Call("markOneTimeKeysAsPublishedJni", <<Handle, Olm>>, {}, {})

OlmAccount_generateFallbackKeyJni ==
    Call("generateFallbackKeyJni", <<Handle, RandomIfAny("random"), Olm>>,
         {"random"}, {"random"})

OlmAccount_fallbackKeyJni ==
    Call("fallbackKeyJni", <<Handle, Malloc("keys"), Olm, Value("keys")>>, {"keys"}, {})

OlmAccount_forgetFallbackKeyJni ==
    Call("forgetFallbackKeyJni", <<Handle, Ignored(Olm)>>, {}, {})

OlmAccount_signMessageJni ==
    Call("signMessageJni",
         <<Given("message"), Handle, Unchecked(Get("message")), Malloc("signature"), Olm,
           Unchecked(Value("signature"))>>, {"message", "signature"}, {})

OlmAccount_serializeJni == Pickled("serializeJni")

OlmAccount_deserializeJni ==
    Unpickle("deserializeJni", <<Given("key"), Given("pickle"), Make, Get("key"),
                                 Get("pickle"), Olm>>)

OlmAccount ==
    {OlmAccount_createNewAccountJni, OlmAccount_releaseAccountJni,
     OlmAccount_identityKeysJni, OlmAccount_maxOneTimeKeysJni,
     OlmAccount_generateOneTimeKeysJni, OlmAccount_oneTimeKeysJni,
     OlmAccount_removeOneTimeKeysJni, OlmAccount_markOneTimeKeysAsPublishedJni,
     OlmAccount_generateFallbackKeyJni, OlmAccount_fallbackKeyJni,
     OlmAccount_forgetFallbackKeyJni, OlmAccount_signMessageJni,
     OlmAccount_serializeJni, OlmAccount_deserializeJni}

-----------------------------------------------------------------------------
(* OlmSession                                                              *)
OlmSession_createNewSessionJni == Create("createNewSessionJni", <<Make>>, {}, {}, {})

OlmSession_releaseSessionJni == Release("releaseSessionJni")

OlmSession_initOutboundSessionJni ==
    Call("initOutboundSessionJni",
         <<Handle, Given("account"), Given("identity"), Given("oneTime"),
           Leaving(RandomIfAny("random")), Get("identity"), Get("oneTime"), Olm>>,
         {"identity", "oneTime", "random"}, {"random"})

OlmSession_initInboundSessionJni ==
    Call("initInboundSessionJni",
         <<Handle, Given("account"), Given("encrypted"), Get("encrypted"), Olm>>,
         {"encrypted"}, {})

OlmSession_initInboundSessionFromIdKeyJni ==
    Call("initInboundSessionFromIdKeyJni",
         <<Handle, Given("account"), Given("identity"), Given("encrypted"),
           Get("encrypted"), Get("identity"), Olm>>, {"encrypted", "identity"}, {})

OlmSession_matchesInboundSessionJni ==
    Call("matchesInboundSessionJni",
         <<Silently(Handle), Silently(Given("encrypted")), Silently(Get("encrypted")),
           Silently(Olm)>>, {"encrypted"}, {})

OlmSession_matchesInboundSessionFromIdKeyJni ==
    Call("matchesInboundSessionFromIdKeyJni",
         <<Silently(Handle), Silently(Given("identity")), Silently(Get("identity")),
           Silently(Given("encrypted")), Silently(Get("encrypted")), Silently(Olm)>>,
         {"identity", "encrypted"}, {})

OlmSession_encryptMessageJni ==
    Call("encryptMessageJni",
         <<Handle, Given("clear"), Given("result"), Get("clear"), Given("mType"),
           Leaving(RandomIfAny("random")), Malloc("encrypted"), Olm,
           Unchecked(Value("encrypted"))>>,
         {"random", "encrypted", "clear"}, {"random", "clear"})

(* Mutant: the plaintext is freed as it is.                                *)
OlmSession_decryptMessageAsItIs ==
    Call("decryptMessageJni",
         <<Handle, Given("encrypted"), Get("encrypted"), Unchecked(Malloc("temp")), Olm,
           Unchecked(Malloc("plaintext")), Olm, Unchecked(Value("plaintext"))>>,
         {"encrypted", "temp", "plaintext"}, {})

OlmSession_decryptMessageJni ==
    Call("decryptMessageJni",
         <<Handle, Given("encrypted"), Get("encrypted"), Unchecked(Malloc("temp")), Olm,
           Unchecked(Malloc("plaintext")), Olm, Unchecked(Value("plaintext"))>>,
         {"encrypted", "temp", "plaintext"}, {"plaintext"})

OlmSession_getSessionIdentifierJni == Identifier("getSessionIdentifierJni")

OlmSession_olmSessionDescribeJni ==
    Call("olmSessionDescribeJni",
         <<Handle, Malloc("text"), Silently(Olm), Unchecked(Value("text"))>>, {"text"}, {})

OlmSession_serializeJni == Pickled("serializeJni")

OlmSession_deserializeJni ==
    Unpickle("deserializeJni", <<Make, Given("key"), Given("pickle"), Get("key"),
                                 Get("pickle"), Olm>>)

OlmSession ==
    {OlmSession_createNewSessionJni, OlmSession_releaseSessionJni,
     OlmSession_initOutboundSessionJni, OlmSession_initInboundSessionJni,
     OlmSession_initInboundSessionFromIdKeyJni, OlmSession_matchesInboundSessionJni,
     OlmSession_matchesInboundSessionFromIdKeyJni, OlmSession_encryptMessageJni,
     OlmSession_decryptMessageJni, OlmSession_getSessionIdentifierJni,
     OlmSession_olmSessionDescribeJni, OlmSession_serializeJni,
     OlmSession_deserializeJni}

-----------------------------------------------------------------------------
(* OlmOutboundGroupSession                                                 *)
OlmOutboundGroupSession_createNewSessionJni ==
    Create("createNewSessionJni", <<Make, Leaving(RandomIfAny("random")), Olm>>,
           {"random"}, {"random"}, {"object"})

OlmOutboundGroupSession_releaseSessionJni == Release("releaseSessionJni")

OlmOutboundGroupSession_sessionIdentifierJni == Identifier("sessionIdentifierJni")

OlmOutboundGroupSession_messageIndexJni ==
    Call("messageIndexJni", <<Silently(Handle)>>, {}, {})

OlmOutboundGroupSession_sessionKeyJni ==
    Call("sessionKeyJni", <<Handle, Malloc("sessionKey"), Olm,
                            Unchecked(Value("sessionKey"))>>, {"sessionKey"}, {})

OlmOutboundGroupSession_encryptMessageJni ==
    Call("encryptMessageJni",
         <<Handle, Given("clear"), Get("clear"), Malloc("encrypted"), Olm,
           Unchecked(Value("encrypted"))>>, {"encrypted", "clear"}, {"clear"})

OlmOutboundGroupSession_serializeJni == Pickled("serializeJni")

OlmOutboundGroupSession_deserializeJni ==
    Unpickle("deserializeJni", <<Make, Given("key"), Given("pickle"), Get("key"),
                                 Get("pickle"), Olm>>)

OlmOutboundGroupSession ==
    {OlmOutboundGroupSession_createNewSessionJni,
     OlmOutboundGroupSession_releaseSessionJni,
     OlmOutboundGroupSession_sessionIdentifierJni,
     OlmOutboundGroupSession_messageIndexJni, OlmOutboundGroupSession_sessionKeyJni,
     OlmOutboundGroupSession_encryptMessageJni,
     OlmOutboundGroupSession_serializeJni, OlmOutboundGroupSession_deserializeJni}

-----------------------------------------------------------------------------
(* OlmInboundGroupSession                                                  *)
OlmInboundGroupSession_createNewSessionJni ==
    Create("createNewSessionJni", <<Make, Given("sessionKey"), Get("sessionKey"), Olm>>,
           {"sessionKey"}, {"sessionKey"}, {"object"})

OlmInboundGroupSession_releaseSessionJni == Release("releaseSessionJni")

OlmInboundGroupSession_sessionIdentifierJni == Identifier("sessionIdentifierJni")

OlmInboundGroupSession_decryptMessageJni ==
    Call("decryptMessageJni",
         <<Handle, Given("encrypted"), Given("result"), Get("encrypted"), Given("mIndex"),
           Malloc("temp"), Olm, Unchecked(Malloc("plaintext")), Olm,
           Unchecked(Value("plaintext"))>>,
         {"plaintext", "temp", "encrypted"}, {"plaintext"})

OlmInboundGroupSession_firstKnownIndexJni == Call("firstKnownIndexJni", <<Handle>>, {}, {})

OlmInboundGroupSession_isVerifiedJni == Call("isVerifiedJni", <<Handle>>, {}, {})

OlmInboundGroupSession_exportJni ==
    Call("exportJni", <<Handle, Malloc("sessionKey"), Olm, Unchecked(Value("sessionKey")),
                        Wipe("sessionKey")>>, {"sessionKey"}, {})

OlmInboundGroupSession_serializeJni == Pickled("serializeJni")

OlmInboundGroupSession_deserializeJni ==
    Unpickle("deserializeJni", <<Make, Given("key"), Given("pickle"), Get("key"),
                                 Get("pickle"), Olm>>)

OlmInboundGroupSession ==
    {OlmInboundGroupSession_createNewSessionJni, OlmInboundGroupSession_releaseSessionJni,
     OlmInboundGroupSession_sessionIdentifierJni, OlmInboundGroupSession_decryptMessageJni,
     OlmInboundGroupSession_firstKnownIndexJni, OlmInboundGroupSession_isVerifiedJni,
     OlmInboundGroupSession_exportJni, OlmInboundGroupSession_serializeJni,
     OlmInboundGroupSession_deserializeJni}

-----------------------------------------------------------------------------
(* OlmPkEncryption                                                         *)
OlmPkEncryption_createNewPkEncryptionJni ==
    Create("createNewPkEncryptionJni", <<Make>>, {}, {}, {"object"})

OlmPkEncryption_releasePkEncryptionJni == Release("releasePkEncryptionJni")

OlmPkEncryption_setRecipientKeyJni ==
    Call("setRecipientKeyJni",
         <<Silently(Handle), Given("publicKey"), Get("publicKey"), Olm>>,
         {"publicKey"}, {})

OlmPkEncryption_encryptJni ==
    Call("encryptJni",
         <<Silently(Handle), Given("clear"), Get("clear"), Given("mMac"),
           Given("mEphemeralKey"), Malloc("encrypted"), Malloc("mac"),
           Malloc("ephemeral"), Random("random"), Olm, Unchecked(Value("encrypted"))>>,
         {"random", "ephemeral", "mac", "encrypted", "clear"}, {"random", "clear"})

OlmPkEncryption ==
    {OlmPkEncryption_createNewPkEncryptionJni, OlmPkEncryption_releasePkEncryptionJni,
     OlmPkEncryption_setRecipientKeyJni, OlmPkEncryption_encryptJni}

-----------------------------------------------------------------------------
(* OlmPkDecryption                                                         *)
OlmPkDecryption_createNewPkDecryptionJni ==
    Create("createNewPkDecryptionJni", <<Make>>, {}, {}, {"object"})

OlmPkDecryption_releasePkDecryptionJni == Release("releasePkDecryptionJni")

OlmPkDecryption_setPrivateKeyJni ==
    Call("setPrivateKeyJni",
         <<Silently(Handle), Given("key"), Get("key"), Malloc("publicKey"), Olm,
           Unchecked(Value("publicKey"))>>, {"key"}, {"key"})

OlmPkDecryption_generateKeyJni ==
    Call("generateKeyJni",
         <<Handle, Random("random"), Malloc("publicKey"), Olm,
           Unchecked(Value("publicKey"))>>, {"random"}, {"random"})

OlmPkDecryption_privateKeyJni ==
    Call("privateKeyJni",
         <<Silently(Handle), Malloc("privateKey"), Olm, Unchecked(Value("privateKey")),
           Wipe("privateKey")>>, {}, {})

(* ciphertextPtr is read twice, and the first copy forgotten.              *)
OlmPkDecryption_decryptJni ==
    Call("decryptJni",
         <<Handle, Given("encrypted"), Given("mCipherText"), Get("ciphertext"),
           Get("ciphertext_again"), Given("mMac"), Get("mac"), Given("mEphemeralKey"),
           Get("ephemeral"), Malloc("plaintext"), Silently(Malloc("temp")), Olm,
           Unchecked(Value("plaintext"))>>,
         {"temp", "plaintext", "ciphertext_again", "mac", "ephemeral"}, {"plaintext"})

OlmPkDecryption ==
    {OlmPkDecryption_createNewPkDecryptionJni, OlmPkDecryption_releasePkDecryptionJni,
     OlmPkDecryption_setPrivateKeyJni, OlmPkDecryption_generateKeyJni,
     OlmPkDecryption_privateKeyJni, OlmPkDecryption_decryptJni}

-----------------------------------------------------------------------------
(* OlmPkSigning                                                            *)
OlmPkSigning_createNewPkSigningJni ==
    Create("createNewPkSigningJni", <<Make>>, {}, {}, {"object"})

OlmPkSigning_releasePkSigningJni == Release("releasePkSigningJni")

OlmPkSigning_generateSeedJni ==
    Call("generateSeedJni", <<Random("random"), Value("random")>>, {"random"}, {"random"})

OlmPkSigning_setKeyFromSeedJni ==
    Call("setKeyFromSeedJni",
         <<Handle, Given("key"), Get("key"), Malloc("publicKey"), Olm,
           Value("publicKey")>>, {"key"}, {"key"})

OlmPkSigning_pkSignJni ==
    Call("pkSignJni",
         <<Handle, Given("message"), Get("message"), Malloc("signature"), Olm,
           Value("signature")>>, {"message"}, {"message"})

OlmPkSigning ==
    {OlmPkSigning_createNewPkSigningJni, OlmPkSigning_releasePkSigningJni,
     OlmPkSigning_generateSeedJni, OlmPkSigning_setKeyFromSeedJni,
     OlmPkSigning_pkSignJni}

-----------------------------------------------------------------------------
(* OlmSAS: the object is not freed when it cannot be created.              *)
OlmSAS_createNewSASJni ==
    Create("createNewSASJni", <<Unchecked(Make), RandomIfAny("random"), Olm>>,
           {"random"}, {"random"}, {})

OlmSAS_releaseSASJni == Release("releaseSASJni")

OlmSAS_getPubKeyJni ==
    Call("getPubKeyJni", <<Handle, Unchecked(Malloc("publicKey")), Olm,
                           Unchecked(Value("publicKey"))>>, {"publicKey"}, {})

(* Mutant: that the key was refused is logged, and nothing else.           *)
OlmSAS_setTheirPubKeyQuiet ==
    Call("setTheirPubKey",
         <<Handle, Given("publicKey"), Get("publicKey"), Silently(SetTheirKey)>>,
         {"publicKey"}, {"publicKey"})

OlmSAS_setTheirPubKey ==
    Call("setTheirPubKey", <<Handle, Given("publicKey"), Get("publicKey"), SetTheirKey>>,
         {"publicKey"}, {"publicKey"})

OlmSAS_generateShortCodeJni ==
    Call("generateShortCodeJni",
         <<Handle, Given("info"), Get("info"), Unchecked(Malloc("code")),
           Ignored(GenerateBytes), Unchecked(Value("code"))>>, {"code", "info"}, {"info"})

MacWith(fn) ==
    Call(fn, <<Handle, Given("message"), Get("message"), Get("info"),
               Unchecked(Malloc("mac")), Olm, Unchecked(Value("mac"))>>,
         {"mac", "info", "message"}, {"info", "message"})

OlmSAS_calculateMacJni == MacWith("calculateMacJni")
OlmSAS_calculateMacFixedBase64Jni == MacWith("calculateMacFixedBase64Jni")
OlmSAS_calculateMacLongKdfJni == MacWith("calculateMacLongKdfJni")

OlmSAS ==
    {OlmSAS_createNewSASJni, OlmSAS_releaseSASJni, OlmSAS_getPubKeyJni,
     OlmSAS_setTheirPubKey, OlmSAS_generateShortCodeJni, OlmSAS_calculateMacJni,
     OlmSAS_calculateMacFixedBase64Jni, OlmSAS_calculateMacLongKdfJni}

-----------------------------------------------------------------------------
(* OlmUtility: a failure of the verification is told by the value, which   *)
(* is an error message; and 0 for the failures before it.                  *)
OlmUtility_createUtilityJni == Create("createUtilityJni", <<Make>>, {}, {}, {})

OlmUtility_releaseUtilityJni == Release("releaseUtilityJni")

OlmUtility_verifyEd25519SignatureJni ==
    Call("verifyEd25519SignatureJni",
         <<Silently(Handle), Silently(Given("arguments")), Silently(Get("signature")),
           Silently(Get("publicKey")), Silently(Get("message")), Silently(Olm)>>,
         {"signature", "publicKey", "message"}, {"message"})

OlmUtility_sha256Jni ==
    Call("sha256Jni",
         <<Silently(Handle), Silently(Given("message")), Silently(Get("message")),
           Silently(Malloc("hash")), Silently(Olm), Unchecked(Value("hash"))>>,
         {"hash", "message"}, {"message"})

OlmUtility ==
    {OlmUtility_createUtilityJni, OlmUtility_releaseUtilityJni,
     OlmUtility_verifyEd25519SignatureJni, OlmUtility_sha256Jni}
=============================================================================
