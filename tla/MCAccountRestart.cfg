\* Two pre-keys, two sessions, and two one-time or fallback keys for a list of
\* one.
CONSTANTS
    MAX_ONE_TIME_KEYS = 1
    Initiators = {1}
    DamagedParts = {"prekey"}
    SHARED_SECRET_LENGTH = 32
    MaxIds = 2
    MaxPrekeys = 2
    MaxOutbound = 2
SPECIFICATION RSpec
INVARIANTS HandedOutKeysKnown OneSessionEach AccountPickledWhole OldAccountsServe
