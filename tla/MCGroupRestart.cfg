\* Indices of three binary digits; one key to hand out, one export.
CONSTANTS
    MEGOLM_RATCHET_PARTS = 3
    PART_BASE = 2
    Members = {m1, m2}
    NoSession = NoSession
    DamagedIndices = {6}
    MaxSends = 3
    MaxKeys = 1
    MaxExports = 1
    MaxAhead = 1
SPECIFICATION RSpec
INVARIANTS MessageKeysUnique ReadsFromFirstIndexOn
    NothingBeforeFirstIndex VerifiedReadsOn GroupPicklesWhole
PROPERTIES StaysReadable
SYMMETRY Symmetry
