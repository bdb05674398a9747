\* As many chains and skipped keys as there is room for, and no more, so that
\* no message is lost.
CONSTANTS
    MAX_MESSAGE_GAP = 3
    MAX_RECEIVER_CHAINS = 3
    MAX_SKIPPED_MESSAGE_KEYS = 2
    Alice = Alice
    Bob = Bob
    Secret = Secret
    Noise = Noise
    DamagedCounters = {}
    DamagedKeys = {}
    Modes = {FALSE}
    MaxSends = 3
SPECIFICATION FairSpec
INVARIANTS SessionPickledWhole UnsavedKeysUnseen NoMessageLost
PROPERTIES PairSpec EventuallyDelivered
