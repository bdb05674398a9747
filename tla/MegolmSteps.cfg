\* Four digits of three values: the counter wraps at 81, three times.
CONSTANTS
    MEGOLM_RATCHET_PARTS = 4
    PART_BASE = 3
    MaxSteps = 243
SPECIFICATION StepsSpec
INVARIANTS IndexDeterminesValue
