-------------------------------- MODULE Base64 --------------------------------
(***************************************************************************)
(* Base64 without padding (src/base64.cpp), which the library mostly       *)
(* encodes and decodes in place: the bytes to encode are put at the end of *)
(* the buffer that takes the result (b64_output, _olm_enc_output and       *)
(* olm_pk_encrypt) and text is decoded where it stands (b64_input,         *)
(* olm_sas_set_their_key).  A step is one turn of the loop, or what is     *)
(* done with the bytes left over by it.  The output starts at address 0 of *)
(* memory, the input at address input.                                     *)
(***************************************************************************)
EXTENDS Integers, Sequences, SequencesExt

CONSTANTS
    Bytes,              \* the bytes to encode
    Chars,              \* the characters to decode, beside those of encodings
    MaxLength,          \* bound: how many of them
    Places              \* where callers put the bytes to encode

Byte == 0 .. 255

ASSUME Base64Assumption ==
    /\ Bytes \subseteq Byte /\ Chars \subseteq Byte
    /\ MaxLength \in Nat
    /\ Places \subseteq {"end", "further", "clear", "start"}

VARIABLES
    op,                 \* "encode" or "decode"
    raw,                \* the bytes that the input is or encodes, if it does
    before,             \* the memory before the call
    input, length,      \* where the input starts, and how long it is
    memory,
    groups,             \* how many turns of the loop are done
    result              \* what the call returned, once it has

vars == <<op, raw, before, input, length, memory, groups, result>>

NO_BYTES == <<-1>>
NOT_YET == -2
INVALID == -1           \* size_t(-1)

(* Mutant: the characters of a rest are as many as its bytes.              *)
EncodedLengthShort(n) == 4 * (n \div 3) + (n % 3)

(* encode_base64_length() and decode_base64_length().                      *)
EncodedLength(n) == 4 * ((n + 2) \div 3) + ((n + 2) % 3) - 2
DecodedLength(n) ==
    IF n % 4 = 1 THEN INVALID ELSE 3 * ((n + 2) \div 4) + ((n + 2) % 4) - 2

(* Mutant: the bytes are put where the output will start.                  *)
OutputPosFirst(n) == 0

(* b64_output_pos(): so that they end where the output will end.           *)
OutputPos(n) == EncodedLength(n) - n

(* The others: at the end of a larger buffer (olm_pk_encrypt), in another  *)
(* buffer, and where the output will start (olm_sas_calculate_mac).        *)
InputAt(place, n) ==
    CASE place = "end" -> OutputPos(n)
      [] place = "further" -> OutputPos(n) + 1
      [] place = "clear" -> EncodedLength(n)
      [] place = "start" -> 0

(* ENCODE_BASE64: A-Z, a-z, 0-9, + and /.                                  *)
Encode64(value) ==
    IF value < 26 THEN 65 + value
    ELSE IF value < 52 THEN 71 + value
    ELSE IF value < 62 THEN value - 4
    ELSE IF value = 62 THEN 43 ELSE 47

(* DECODE_BASE64, of the lower seven bits of a byte; all ones if they are  *)
(* none of these characters.                                               *)
Decode64(byte) ==
    LET char == byte % 128 IN
    IF char \in 65 .. 90 THEN char - 65
    ELSE IF char \in 97 .. 122 THEN char - 71
    ELSE IF char \in 48 .. 57 THEN char + 4
    ELSE IF char = 43 THEN 62 ELSE IF char = 47 THEN 63 ELSE 255

(* value <<= 6; value |= c: all ones also set two bits of what was there.  *)
Append64(value, c) ==
    IF c < 64 THEN value * 64 + c ELSE (value - (value % 4) + 3) * 64 + 63

-----------------------------------------------------------------------------
(* Six bits after another, of the bytes and as many zeros as it takes:     *)
(* what base64 is.                                                         *)
Bit(bytes, j) ==
    IF j < 8 * Len(bytes) THEN (bytes[j \div 8 + 1] \div 2 ^ (7 - (j % 8))) % 2 ELSE 0
Sextet(bytes, k) ==
    32 * Bit(bytes, 6 * k) + 16 * Bit(bytes, 6 * k + 1) + 8 * Bit(bytes, 6 * k + 2)
    + 4 * Bit(bytes, 6 * k + 3) + 2 * Bit(bytes, 6 * k + 4) + Bit(bytes, 6 * k + 5)
AsBase64(bytes) == [k \in 1 .. EncodedLength(Len(bytes)) |-> Encode64(Sextet(bytes, k - 1))]

(* n cells of memory from an address on.                                   *)
Cells(m, start, n) == [i \in 1 .. n |-> m[start + i - 1]]

(* A memory of zeros with some bytes in it.                                *)
MemoryWith(bytes, start, size) ==
    [a \in 0 .. size - 1 |->
        IF a \in start .. start + Len(bytes) - 1 THEN bytes[a - start + 1] ELSE 0]

Init ==
    /\ \/ /\ op = "encode"
          /\ raw \in BoundedSeq(Bytes, MaxLength)
          /\ length = Len(raw)
          /\ \E place \in Places : input = InputAt(place, length)
          /\ before = MemoryWith(raw, input, EncodedLength(length) + MaxLength + 1)
       \/ /\ op = "decode"
          /\ input = 0
          /\ \/ /\ raw \in BoundedSeq(Bytes, MaxLength)
                /\ length = EncodedLength(Len(raw))
                /\ before = MemoryWith(AsBase64(raw), 0, length + 1)
             \/ /\ raw = NO_BYTES
                /\ \E chars \in BoundedSeq(Chars, MaxLength) :
                      length = Len(chars) /\ before = MemoryWith(chars, 0, length + 1)
    /\ memory = before
    /\ groups = 0
    /\ result = NOT_YET

-----------------------------------------------------------------------------
(* encode_base64(): three bytes are read before four are written.          *)
EncodeGroup ==
    LET pos == input + 3 * groups
        output == 4 * groups
        value == memory[pos] * 65536 + memory[pos + 1] * 256 + memory[pos + 2] IN
    /\ op = "encode" /\ result = NOT_YET /\ groups < length \div 3
    /\ memory' = [memory EXCEPT ![output + 3] = Encode64(value % 64),
                                ![output + 2] = Encode64((value \div 64) % 64),
                                ![output + 1] = Encode64((value \div 4096) % 64),
                                ![output] = Encode64(value \div 262144)]
    /\ groups' = groups + 1
    /\ UNCHANGED <<op, raw, before, input, length, result>>

(* The one or two bytes left, as 12 or 18 bits.                            *)
EncodeTwo(pos, output) ==
    LET value == (memory[pos] * 256 + memory[pos + 1]) * 4
    IN  memory' = [memory EXCEPT ![output + 2] = Encode64(value % 64),
                                 ![output + 1] = Encode64((value \div 64) % 64),
                                 ![output] = Encode64(value \div 4096)]

(* Mutant: its bits are left where they are.                               *)
EncodeOneUnshifted(pos, output) ==
    LET value == memory[pos]
    IN  memory' = [memory EXCEPT ![output + 1] = Encode64(value % 64),
                                 ![output] = Encode64(value \div 64)]

EncodeOne(pos, output) ==
    LET value == memory[pos] * 16
    IN  memory' = [memory EXCEPT ![output + 1] = Encode64(value % 64),
                                 ![output] = Encode64(value \div 64)]

EncodeRest ==
    LET pos == input + 3 * groups
        output == 4 * groups
        remainder == length % 3 IN
    /\ op = "encode" /\ result = NOT_YET /\ groups = length \div 3
    /\ \/ remainder = 2 /\ EncodeTwo(pos, output)
       \/ remainder = 1 /\ EncodeOne(pos, output)
       \/ remainder = 0 /\ UNCHANGED memory
    /\ result' = EncodedLength(length)
    /\ UNCHANGED <<op, raw, before, input, length, groups>>

-----------------------------------------------------------------------------
(* decode_base64(): a length that no encoding has is refused.              *)
DecodeRefused ==
    /\ op = "decode" /\ result = NOT_YET /\ groups = 0 /\ DecodedLength(length) = INVALID
    /\ result' = INVALID
    /\ UNCHANGED <<op, raw, before, input, length, memory, groups>>

DecodeGroup ==
    LET pos == input + 4 * groups
        output == 3 * groups
        value == Append64(Append64(Append64(Decode64(memory[pos]), Decode64(memory[pos + 1])),
                                   Decode64(memory[pos + 2])), Decode64(memory[pos + 3])) IN
    /\ op = "decode" /\ result = NOT_YET /\ DecodedLength(length) # INVALID
    /\ groups < length \div 4
    /\ memory' = [memory EXCEPT ![output + 2] = value % 256,
                                ![output + 1] = (value \div 256) % 256,
                                ![output] = (value \div 65536) % 256]
    /\ groups' = groups + 1
    /\ UNCHANGED <<op, raw, before, input, length, result>>

(* Mutant: the third character is taken to be the fourth.                  *)
DecodeThreeUnshifted(pos, output) ==
    LET value == Append64(Append64(Decode64(memory[pos]), Decode64(memory[pos + 1])),
                          Decode64(memory[pos + 2]))
    IN  memory' = [memory EXCEPT ![output + 1] = value % 256,
                                 ![output] = (value \div 256) % 256]

DecodeThree(pos, output) ==
    LET value == Append64(Append64(Decode64(memory[pos]), Decode64(memory[pos + 1])),
                          Decode64(memory[pos + 2])) \div 4
    IN  memory' = [memory EXCEPT ![output + 1] = value % 256,
                                 ![output] = (value \div 256) % 256]

DecodeTwo(pos, output) ==
    LET value == Append64(Decode64(memory[pos]), Decode64(memory[pos + 1])) \div 16
    IN  memory' = [memory EXCEPT ![output] = value % 256]

DecodeRest ==
    LET pos == input + 4 * groups
        output == 3 * groups
        remainder == length % 4 IN
    /\ op = "decode" /\ result = NOT_YET /\ DecodedLength(length) # INVALID
    /\ groups = length \div 4
    /\ \/ remainder = 3 /\ DecodeThree(pos, output)
       \/ remainder = 2 /\ DecodeTwo(pos, output)
       \/ remainder = 0 /\ UNCHANGED memory
    /\ result' = DecodedLength(length)
    /\ UNCHANGED <<op, raw, before, input, length, groups>>

Next == EncodeGroup \/ EncodeRest \/ DecodeRefused \/ DecodeGroup \/ DecodeRest

Spec == Init /\ [][Next]_vars

-----------------------------------------------------------------------------
(* What has not been read yet has not been overwritten: the writer, which  *)
(* goes ahead by four where the reader goes by three, never catches up.    *)
Read == IF op = "encode" THEN 3 * groups ELSE 4 * groups
UnreadIntact ==
    result = NOT_YET =>
        \A i \in Read .. length - 1 : memory[input + i] = before[input + i]

(* Nothing is written beyond the output, whose length the callers have     *)
(* computed.                                                               *)
OutputLength == IF op = "encode" THEN EncodedLength(length) ELSE DecodedLength(length)
OutsideUntouched ==
    /\ DOMAIN memory = DOMAIN before
    /\ \A a \in DOMAIN memory : a >= OutputLength => memory[a] = before[a]

(* The result is the base64 of the bytes that were there before the call,  *)
(* and nothing else has changed but those bytes.                           *)
EncodesItsInput ==
    op = "encode" /\ result # NOT_YET =>
        Cells(memory, 0, result) = AsBase64(raw) /\ OutsideUntouched

(* What was encoded is decoded to what it was, and no encoding is refused; *)
(* whatever the characters, nothing is written behind the result, and      *)
(* nothing at all when the length is refused.                              *)
DecodesWhatWasEncoded ==
    op = "decode" /\ result # NOT_YET =>
        /\ raw # NO_BYTES => result = Len(raw) /\ Cells(memory, 0, result) = raw
        /\ OutsideUntouched
=============================================================================
