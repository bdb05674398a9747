CONSTANTS
    MAX_ONE_TIME_KEYS = 1
    Initiators = {1}
    DamagedParts = {}
    SHARED_SECRET_LENGTH = 32
    MaxIds = 1
    MaxPrekeys = 1
    MaxOutbound = 2
SPECIFICATION Spec
INVARIANTS SecretsDiffer
