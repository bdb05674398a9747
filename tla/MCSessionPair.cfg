\* Every list reaches its limit: two chains, two skipped keys, a gap of three.
CONSTANTS
    MAX_MESSAGE_GAP = 3
    MAX_RECEIVER_CHAINS = 2
    MAX_SKIPPED_MESSAGE_KEYS = 2
    Alice = Alice
    Bob = Bob
    Secret = Secret
    Noise = Noise
    DamagedCounters = {1, 7}
    DamagedKeys <- LikelyKeys
    Modes = {TRUE, FALSE}
    MaxSends = 4
SPECIFICATION Spec
INVARIANTS TypeOK UsedKeysErased MessageKeysUnique NoReplay InSync
    LosesOldestFirst
PROPERTIES ChannelSpec
