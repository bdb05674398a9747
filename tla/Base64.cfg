\* Every remainder of both loops, with none, one and two turns before it; the
\* input right at the end of the output, one further, and clear of it.
CONSTANTS
    Bytes = {0, 77, 190, 255}
    Chars = {10, 47, 65, 193}
    MaxLength = 6
    Places = {"end", "further", "clear"}
CHECK_DEADLOCK FALSE
SPECIFICATION Spec
INVARIANTS UnreadIntact EncodesItsInput DecodesWhatWasEncoded
