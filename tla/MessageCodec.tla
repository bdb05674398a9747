---------------------------- MODULE MessageCodec ----------------------------
(***************************************************************************)
(* How messages are written and read (src/message.cpp): the messages of a  *)
(* session, the pre-key messages around its first ones and the messages of *)
(* a group session.  A call of a reader is a loop, each turn of which      *)
(* reads the fields it knows as they come, or passes over one it does not  *)
(* know.  Bytes and tags are as in the code, the lengths of MACs and keys  *)
(* are parameters.                                                         *)
(*                                                                         *)
(* A position is an offset from the start of the input: the byte at pos is *)
(* input[pos + 1].                                                         *)
(***************************************************************************)
EXTENDS Integers, Sequences, SequencesExt

Byte == 0 .. 255

CONSTANTS
    COUNTER_MODULUS,    \* 2^32, the width of a counter
    SIZE_MODULUS,       \* the width of a size_t
    TrailerLength,      \* the MAC and signature at the end, per format
    Strings,            \* what senders put in the last field ...
    Keys,               \* ... and in the others
    Counters,
    UnknownFields,      \* what later versions may add
    Alphabet, MaxLength \* any bytes: those used, and bound on their number

ASSUME CodecAssumption ==
    /\ COUNTER_MODULUS \in Nat \ {0} /\ SIZE_MODULUS \in Nat \ {0}
    /\ TrailerLength \in [{"message", "pre_key", "group"} -> Nat]
    /\ Counters \subseteq 0 .. COUNTER_MODULUS - 1
    /\ MaxLength \in Nat

(* What is sent consists of bytes, and its length is a size_t.             *)
ASSUME BytesAssumption ==
    /\ Alphabet \subseteq Byte
    /\ \A string \in Strings \cup Keys : string \in Seq(Byte) /\ Len(string) < SIZE_MODULUS
    /\ <<>> \notin Strings

VARIABLES
    format,             \* which reader is called
    input,              \* with which bytes
    origin,             \* what a sender wrote in them, if one did
    change,             \* and what became of it on the way
    pos, unknown, version, fields,  \* the reader's variables
    next,               \* which of the calls of decode() in the loop is next
    done                \* it has returned

message_vars == <<format, input, origin, change>>
vars == <<message_vars, pos, unknown, version, fields, next, done>>

PROTOCOL_VERSION == 3

(* The tags, in the order in which they are written and looked for.        *)
RATCHET_KEY_TAG == 10
COUNTER_TAG == 16
CIPHERTEXT_TAG == 34
PREKEY_ID_TAG == 42
ONE_TIME_KEY_ID_TAG == 10
BASE_KEY_TAG == 18
IDENTITY_KEY_TAG == 26
MESSAGE_TAG == 34
GROUP_MESSAGE_INDEX_TAG == 8
GROUP_CIPHERTEXT_TAG == 18

Tags ==
    [message |-> <<RATCHET_KEY_TAG, COUNTER_TAG, CIPHERTEXT_TAG>>,
     pre_key |-> <<PREKEY_ID_TAG, ONE_TIME_KEY_ID_TAG, BASE_KEY_TAG, IDENTITY_KEY_TAG,
                   MESSAGE_TAG>>,
     group   |-> <<GROUP_MESSAGE_INDEX_TAG, GROUP_CIPHERTEXT_TAG>>]

TagsOf(f) == {Tags[f][i] : i \in 1 .. Len(Tags[f])}
IsNumber(tag) == tag % 8 = 0

-----------------------------------------------------------------------------
(* Variable length integers: seven bits a byte, the lowest first.          *)
varint_length[value \in Nat] ==
    IF value < 128 THEN 1 ELSE 1 + varint_length[value \div 128]

varint_encode[value \in Nat] ==
    IF value < 128 THEN <<value>> ELSE <<128 + (value % 128)>> \o varint_encode[value \div 128]

(* Mutant: from the first byte to the last.                                *)
VarintDecodeForwards(bytes, modulus) ==
    LET value[n \in 0 .. Len(bytes)] ==
            IF n = 0 THEN 0
            ELSE (value[n - 1] * 128 + (bytes[n] % 128)) % modulus
    IN  value[Len(bytes)]

(* From the last byte to the first: value[n] is that of the last n.        *)
VarintDecode(bytes, modulus) ==
    LET value[n \in 0 .. Len(bytes)] ==
            IF n = 0 THEN 0
            ELSE (value[n - 1] * 128 + (bytes[Len(bytes) + 1 - n] % 128)) % modulus
    IN  value[Len(bytes)]

(* An integer takes the bytes behind start to end.                         *)
IsVarint(bytes, start, end) ==
    /\ bytes[end] < 128
    /\ \A i \in start + 1 .. end - 1 : bytes[i] >= 128

(* The position behind the integer at start, or end when it does not end.  *)
VarintSkip(bytes, start, end) ==
    LET last == {i \in start + 1 .. end : bytes[i] < 128}
    IN  IF last = {} THEN end ELSE CHOOSE i \in last : \A j \in last : i <= j

(* Mutant: the tag is not counted.                                         *)
FieldLengthNoTag(tag, value) ==
    IF IsNumber(tag) THEN varint_length[value[1]] ELSE varint_length[Len(value)] + Len(value)

FieldLength(tag, value) ==
    1 + (IF IsNumber(tag) THEN varint_length[value[1]] ELSE varint_length[Len(value)] + Len(value))

EncodeField(tag, value) ==
    <<tag>> \o (IF IsNumber(tag) THEN varint_encode[value[1]]
                                 ELSE varint_encode[Len(value)] \o value)

(* encode_message_length() and its like: what the caller makes room for.   *)
EncodedLength(f, message) ==
    LET length[n \in 0 .. Len(Tags[f])] ==
            IF n = 0 THEN 1
            ELSE length[n - 1] + FieldLength(Tags[f][n], message[Tags[f][n]])
    IN  length[Len(Tags[f])] + TrailerLength[f]

(* encode_message() and its like, the first n fields of it.                *)
EncodeFirst(f, message, n) ==
    LET bytes[i \in 0 .. Len(Tags[f])] ==
            IF i = 0 THEN <<PROTOCOL_VERSION>>
            ELSE bytes[i - 1] \o EncodeField(Tags[f][i], message[Tags[f][i]])
    IN  bytes[n]

(* The whole of it; the caller puts the MAC behind it.                     *)
Trailer(f) == [i \in 1 .. TrailerLength[f] |-> MESSAGE_TAG]
EncodeMessage(f, message) == EncodeFirst(f, message, Len(Tags[f])) \o Trailer(f)

-----------------------------------------------------------------------------
(* Reading.                                                                *)

(* Mutant: the length of a string is believed.                             *)
FitsAlways(bytes, end, start) == TRUE

(* The integer at start, and whether as many bytes follow it.              *)
LengthAt(bytes, end, start) ==
    VarintDecode(SubSeq(bytes, start + 1, VarintSkip(bytes, start, end)), SIZE_MODULUS)
Fits(bytes, end, start) ==
    LengthAt(bytes, end, start) <= end - VarintSkip(bytes, start, end)

(* Mutant: a field of another type is left where it is.                    *)
SkipUnknownStays(bytes, end, start) ==
    IF bytes[start + 1] % 8 = 0 THEN VarintSkip(bytes, VarintSkip(bytes, start, end), end)
    ELSE start

(* Mutant: the string of an unknown field is not passed over.              *)
SkipUnknownLength(bytes, end, start) ==
    IF bytes[start + 1] % 8 \in {0, 2}
    THEN VarintSkip(bytes, VarintSkip(bytes, start, end), end)
    ELSE end

(* skip_unknown(): the position behind the field there; the end of the     *)
(* message if it is of a type that has no known length.                    *)
SkipUnknown(bytes, end, start) ==
    LET tagged == VarintSkip(bytes, start, end)
        value == VarintSkip(bytes, tagged, end)
    IN  IF bytes[start + 1] % 8 = 0 THEN value
        ELSE IF bytes[start + 1] % 8 = 2 /\ Fits(bytes, end, tagged)
        THEN value + LengthAt(bytes, end, tagged)
        ELSE end

-----------------------------------------------------------------------------
(* A field of a later version: a tag no reader looks for, and behind it a  *)
(* number, or a length and as many bytes.                                  *)
ASSUME UnknownAssumption ==
    \A field \in UnknownFields :
        /\ field \in Seq(Byte)
        /\ \A f \in DOMAIN Tags : field[1] \notin TagsOf(f)
        /\ \E tagged \in 1 .. Len(field) : \E value \in tagged + 1 .. Len(field) :
             /\ IsVarint(field, 0, tagged) /\ IsVarint(field, tagged, value)
             /\ \/ field[1] % 8 = 0 /\ value = Len(field)
                \/ /\ field[1] % 8 = 2
                   /\ value + VarintDecode(SubSeq(field, tagged + 1, value), SIZE_MODULUS)
                        = Len(field)

(* What a reader is given.                                                 *)
Messages(f) ==
    LET last == Tags[f][Len(Tags[f])]
        Numbers == {<<counter>> : counter \in Counters}
    IN  {message \in [TagsOf(f) -> Keys \cup Numbers \cup Strings] :
            \A tag \in TagsOf(f) :
                message[tag] \in IF tag = last THEN Strings
                                 ELSE IF IsNumber(tag) THEN Numbers ELSE Keys}

WithUnknown(f, message) ==
    {EncodeFirst(f, message, n) \o field
     \o SubSeq(EncodeMessage(f, message), Len(EncodeFirst(f, message, n)) + 1,
               Len(EncodeMessage(f, message))) :
        n \in 0 .. Len(Tags[f]), field \in UnknownFields}

CutShort(whole) == {SubSeq(whole, 1, n) : n \in 0 .. Len(whole) - 1}

Init ==
    /\ format \in DOMAIN Tags
    /\ \/ \E message \in Messages(format) :
             /\ origin = message
             /\ \/ change = "none" /\ input = EncodeMessage(format, message)
                \/ change = "unknown" /\ input \in WithUnknown(format, message)
                \/ change = "cut" /\ input \in CutShort(EncodeMessage(format, message))
       \/ origin = <<>> /\ change = "any" /\ input \in BoundedSeq(Alphabet, MaxLength)
    /\ pos = 0
    /\ unknown = 0
    /\ version = 0
    /\ fields = [tag \in TagsOf(format) |-> <<>>]
    /\ next = 0
    /\ done = FALSE

End == Len(input) - TrailerLength[format]

(* decode_message() and its like: nothing but a MAC, or not even that.     *)
NothingToRead ==
    /\ ~done /\ pos = 0 /\ End <= 0
    /\ done' = TRUE
    /\ UNCHANGED <<message_vars, pos, unknown, version, fields, next>>

ReadVersion ==
    /\ ~done /\ pos = 0 /\ End > 0
    /\ version' = input[1]
    /\ pos' = 1 /\ unknown' = 1 /\ next' = 1
    /\ UNCHANGED <<message_vars, fields, done>>

(* decode(): reads the field at pos if it has the tag that is asked for.   *)
InLoop == ~done /\ next \in 1 .. Len(Tags[format]) /\ (next = 1 => pos # End)

AtTag(tag) == pos # End /\ input[pos + 1] = tag

DecodeNumber(tag) ==
    LET after == VarintSkip(input, pos + 1, End) IN
    /\ AtTag(tag) /\ IsNumber(tag)
    /\ fields' = [fields EXCEPT ![tag] =
                    <<VarintDecode(SubSeq(input, pos + 2, after), COUNTER_MODULUS)>>]
    /\ pos' = after

DecodeString(tag) ==
    LET start == VarintSkip(input, pos + 1, End)
        length == LengthAt(input, End, pos + 1) IN
    /\ AtTag(tag) /\ ~IsNumber(tag) /\ Fits(input, End, pos + 1)
    /\ fields' = [fields EXCEPT ![tag] = <<[start |-> start, length |-> length]>>]
    /\ pos' = start + length

(* Mutant: what there is of it is taken.                                   *)
StringTooLongTaken(tag) ==
    LET start == VarintSkip(input, pos + 1, End) IN
    /\ AtTag(tag) /\ ~IsNumber(tag) /\ ~Fits(input, End, pos + 1)
    /\ pos' = End
    /\ fields' = [fields EXCEPT ![tag] = <<[start |-> start, length |-> End - start]>>]

StringTooLong(tag) ==
    /\ AtTag(tag) /\ ~IsNumber(tag) /\ ~Fits(input, End, pos + 1)
    /\ pos' = End
    /\ UNCHANGED fields

OtherTag(tag) == ~AtTag(tag) /\ UNCHANGED <<pos, fields>>

Decode ==
    LET tag == Tags[format][next] IN
    /\ InLoop
    /\ DecodeNumber(tag) \/ DecodeString(tag) \/ StringTooLong(tag) \/ OtherTag(tag)
    /\ next' = next + 1
    /\ UNCHANGED <<message_vars, unknown, version, done>>

(* The end of a turn of the loop, in which something was read or not.      *)
EndTurn ==
    /\ ~done /\ next = Len(Tags[format]) + 1
    /\ pos' = IF unknown = pos THEN SkipUnknown(input, End, pos) ELSE pos
    /\ unknown' = pos'
    /\ next' = 1
    /\ UNCHANGED <<message_vars, version, fields, done>>

Return ==
    /\ ~done /\ next = 1 /\ pos = End
    /\ done' = TRUE
    /\ UNCHANGED <<message_vars, pos, unknown, version, fields, next>>

Next == NothingToRead \/ ReadVersion \/ Decode \/ EndTurn \/ Return

(* A call runs until it returns.                                           *)
Spec == Init /\ [][Next]_vars /\ WF_vars(Next)

-----------------------------------------------------------------------------
(* What the callers ask of the fields before they use them:                *)
(* Ratchet::decrypt(), _decrypt() of a group session, and                  *)
(* check_message_fields(), which goes without the sender's identity key    *)
(* when the application has given it.                                      *)
Has(tag) == fields[tag] # <<>>
HasKey(tag) == Has(tag) /\ \E key \in Keys : fields[tag][1].length = Len(key)

FieldsChecked(have_their_identity_key) ==
    /\ version = PROTOCOL_VERSION
    /\ \/ /\ format = "message"
          /\ Has(COUNTER_TAG) /\ Has(RATCHET_KEY_TAG) /\ Has(CIPHERTEXT_TAG)
       \/ /\ format = "pre_key"
          /\ HasKey(IDENTITY_KEY_TAG) \/ (have_their_identity_key /\ ~Has(IDENTITY_KEY_TAG))
          /\ HasKey(BASE_KEY_TAG) /\ HasKey(ONE_TIME_KEY_ID_TAG) /\ Has(MESSAGE_TAG)
       \/ /\ format = "group"
          /\ Has(GROUP_MESSAGE_INDEX_TAG) /\ Has(GROUP_CIPHERTEXT_TAG)

(* A reader never looks beyond the bytes before the MAC, and never returns *)
(* a string that reaches into it, whatever bytes arrive.                   *)
InsideInput ==
    /\ pos <= (IF End > 0 THEN End ELSE 0)
    /\ \A tag \in TagsOf(format) : Has(tag) /\ ~IsNumber(tag) =>
          /\ fields[tag][1].start > 0
          /\ fields[tag][1].start + fields[tag][1].length <= End

(* It reads every message to its end, whatever bytes arrive.               *)
Terminates == <>done

ReadAsWritten ==
    version = PROTOCOL_VERSION /\ \A tag \in TagsOf(format) :
        /\ Has(tag)
        /\ origin[tag] = IF IsNumber(tag) THEN fields[tag]
                         ELSE SubSeq(input, fields[tag][1].start + 1,
                                     fields[tag][1].start + fields[tag][1].length)

(* A message fits exactly into the room made for it, and is read as it was *)
(* written, also by a reader that does not know all of its fields.         *)
ReadWhole ==
    /\ change = "none" => Len(input) = EncodedLength(format, origin)
    /\ change \in {"none", "unknown"} /\ done => ReadAsWritten

(* A message that was cut short is refused for its fields, before any key  *)
(* is derived for it; but for one that ends within the length of its last  *)
(* field where the part that is left of it is nothing or has no digit but  *)
(* zeros: that is read as an empty string and left to the MAC.             *)
CutMessagesRefused ==
    LET last == Tags[format][Len(Tags[format])] IN
    done /\ change = "cut" /\ FieldsChecked(TRUE) =>
        /\ fields[last] = <<[start |-> End, length |-> 0]>>
        /\ \E n \in 1 .. End :
            input[n] = last /\ \A i \in n + 1 .. End : input[i] = 128
=============================================================================
