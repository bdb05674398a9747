CONSTANTS
    MAX_ONE_TIME_KEYS = 2
    Initiators = {Alice, Carol}
    DamagedParts = {"identity", "one_time", "prekey"}
    SHARED_SECRET_LENGTH = 32
    MaxIds = 3
    MaxPrekeys = 2
    MaxOutbound = 2
SYMMETRY Symmetry
SPECIFICATION Spec
INVARIANTS TypeOK SecretsAgree MatchesExactly RemovedKeysGone
    PublishedKeysUploaded
