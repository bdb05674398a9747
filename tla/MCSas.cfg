\* Each party begins twice.
CONSTANTS
    Alice = Alice
    Bob = Bob
    Noise = Noise
    NONE = NONE
    MaxCreated = 2
SPECIFICATION Spec
INVARIANTS ShownOfBothKeys AgreeExactly
