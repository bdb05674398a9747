\* Counters of two bytes, in a type of fourteen bits; every message of five
\* bytes from the tags, the types and a length that goes on.
CONSTANTS
    COUNTER_MODULUS = 16384
    SIZE_MODULUS = 16384
    TrailerLength <- MCTrailerLength
    Strings <- MCStrings
    Keys <- MCKeys
    Counters = {0, 127, 128, 16383}
    UnknownFields <- MCUnknownFields
    Alphabet = {1, 3, 10, 16, 18, 34, 130}
    MaxLength = 5
CHECK_DEADLOCK FALSE
SPECIFICATION Spec
INVARIANTS InsideInput ReadWhole CutMessagesRefused
PROPERTIES Terminates
