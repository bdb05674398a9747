----------------------------- MODULE Base64Proofs -----------------------------
(***************************************************************************)
(* base64.cpp on inputs of every length: the writer never catches up with  *)
(* the reader, although it goes faster, it stays within the length that    *)
(* the callers have made room for, what it writes is the base64 of the     *)
(* bytes it was given, and decoding that gives the bytes back.             *)
(***************************************************************************)
EXTENDS Base64, TLAPS

(* encode_base64() starts as far ahead of its output as it has turns to    *)
(* lose one byte in; decode_base64() only gains.                           *)
Ahead == op = "encode" => length \div 3 <= input

Shape ==
    /\ op \in {"encode", "decode"}
    /\ input \in Nat /\ length \in Nat /\ groups \in Nat
    /\ DOMAIN memory = DOMAIN before
    /\ \A i \in 0 .. length - 1 : input + i \in DOMAIN before
    /\ DOMAIN before \subseteq Nat

WritesWithin == Shape /\ OutsideUntouched

ReadsFirst == Shape /\ Ahead /\ UnreadIntact

-----------------------------------------------------------------------------
(* The room that callers make is enough for all the turns and the rest.    *)
LEMMA EncodedRoom ==
    ASSUME NEW n \in Nat
    PROVE  /\ n \div 3 \in Nat /\ n % 3 \in 0 .. 2 /\ n = 3 * (n \div 3) + (n % 3)
           /\ EncodedLength(n) \in Nat
           /\ EncodedLength(n) = 4 * (n \div 3) + (IF n % 3 = 0 THEN 0 ELSE (n % 3) + 1)
           /\ n \div 3 <= EncodedLength(n) - n
BY DEF EncodedLength

LEMMA DecodedRoom ==
    ASSUME NEW n \in Nat
    PROVE  /\ n \div 4 \in Nat /\ n % 4 \in 0 .. 3 /\ n = 4 * (n \div 4) + (n % 4)
           /\ DecodedLength(n) =
                 IF n % 4 = 1 THEN INVALID
                 ELSE 3 * (n \div 4) + (IF n % 4 = 0 THEN 0 ELSE (n % 4) - 1)
BY DEF DecodedLength, INVALID

LEMMA BoundedLength ==
    ASSUME NEW S, NEW max \in Nat, NEW seq \in BoundedSeq(S, max)
    PROVE  Len(seq) \in 0 .. max
<1>1. PICK m \in 0 .. max : seq \in [1 .. m -> S]
    BY DEF BoundedSeq, SeqOf
<1> QED
    BY <1>1

LEMMA MemoryShape ==
    ASSUME NEW bytes, NEW start, NEW size
    PROVE  LET m == MemoryWith(bytes, start, size) IN
           DOMAIN m = 0 .. size - 1
BY DEF MemoryWith

LEMMA InitShape == Init => Shape /\ memory = before /\ groups = 0 /\ result = NOT_YET
<1> SUFFICES ASSUME Init PROVE Shape
    BY DEF Init
<1>1. groups = 0 /\ memory = before
    BY DEF Init
<1>2. CASE /\ op = "encode"
           /\ raw \in BoundedSeq(Bytes, MaxLength)
           /\ length = Len(raw)
           /\ \E place \in Places : input = InputAt(place, length)
           /\ before = MemoryWith(raw, input, EncodedLength(length) + MaxLength + 1)
  <2>1. length \in 0 .. MaxLength /\ MaxLength \in Nat
    BY <1>2, BoundedLength, Base64Assumption
  <2> DEFINE e == EncodedLength(length)
  <2>2. e \in Nat /\ e >= length
    <3>1. length \in Nat
      BY <2>1
    <3> QED
      BY <3>1, EncodedRoom
  <2>3. DOMAIN before = 0 .. (e + MaxLength + 1) - 1
    BY <1>2, MemoryShape
  <2>4. input \in {e - length, e - length + 1, e, 0}
    BY <1>2, Base64Assumption DEF InputAt, OutputPos
  <2> HIDE DEF e
  <2>5. input \in Nat /\ \A i \in 0 .. length - 1 : input + i \in 0 .. (e + MaxLength + 1) - 1
    BY <2>1, <2>2, <2>4
  <2>6. \A i \in 0 .. length - 1 : input + i \in DOMAIN before
    BY <2>3, <2>5
  <2>7. DOMAIN before \subseteq Nat
    BY <2>3
  <2> QED
    BY <1>1, <1>2, <2>1, <2>3, <2>5, <2>6, <2>7 DEF Shape
<1>3. CASE /\ op = "decode" /\ input = 0
           /\ \/ /\ raw \in BoundedSeq(Bytes, MaxLength)
                 /\ length = EncodedLength(Len(raw))
                 /\ before = MemoryWith(AsBase64(raw), 0, length + 1)
              \/ /\ raw = NO_BYTES
                 /\ \E chars \in BoundedSeq(Chars, MaxLength) :
                       length = Len(chars) /\ before = MemoryWith(chars, 0, length + 1)
  <2>1. length \in Nat
    <3>1. CASE raw \in BoundedSeq(Bytes, MaxLength) /\ length = EncodedLength(Len(raw))
      <4>1. Len(raw) \in Nat
        BY <3>1, BoundedLength, Base64Assumption
      <4>2. EncodedLength(Len(raw)) \in Nat
        BY <4>1, EncodedRoom
      <4> QED
        BY <3>1, <4>2
    <3>2. CASE \E chars \in BoundedSeq(Chars, MaxLength) : length = Len(chars)
      BY <3>2, BoundedLength, Base64Assumption
    <3> QED
      BY <1>3, <3>1, <3>2
  <2>2. DOMAIN before = 0 .. (length + 1) - 1
    BY <1>3, MemoryShape
  <2> QED
    BY <1>1, <1>3, <2>1, <2>2 DEF Shape
<1> QED
  BY <1>2, <1>3 DEF Init

(* A turn of the loop writes four characters, or three bytes; what is done *)
(* with the rest writes fewer, and nothing else is written.                *)
Writes(places) ==
    /\ DOMAIN memory' = DOMAIN memory
    /\ \A a \in DOMAIN memory \ places : memory'[a] = memory[a]

LEMMA EncodeGroupWrites ==
    ASSUME Shape, EncodeGroup
    PROVE  Writes(4 * groups .. 4 * groups + 3)
<1> DEFINE pos == input + 3 * groups
           o == 4 * groups
           value == memory[pos] * 65536 + memory[pos + 1] * 256 + memory[pos + 2]
           v == Encode64(value % 64)
           w == Encode64((value \div 64) % 64)
           x == Encode64((value \div 4096) % 64)
           y == Encode64(value \div 262144)
<1>1. memory' = [memory EXCEPT ![o + 3] = v, ![o + 2] = w, ![o + 1] = x, ![o] = y]
    BY DEF EncodeGroup
<1> HIDE DEF value, v, w, x, y
<1>2. o \in Nat
    BY DEF Shape
<1> HIDE DEF o
<1>3. /\ DOMAIN memory' = DOMAIN memory
      /\ \A a \in DOMAIN memory : a \notin {o + 3, o + 2, o + 1, o} => memory'[a] = memory[a]
    BY <1>1
<1>4. {o + 3, o + 2, o + 1, o} \subseteq o .. o + 3
    BY <1>2
<1> QED
    BY <1>3, <1>4 DEF Writes, o

LEMMA EncodeRestWrites ==
    ASSUME Shape, EncodeRest
    PROVE  Writes(4 * groups .. EncodedLength(length) - 1)
<1> DEFINE pos == input + 3 * groups
           o == 4 * groups
           e == EncodedLength(length)
<1>1. length \in Nat /\ groups \in Nat /\ groups = length \div 3
    BY DEF Shape, EncodeRest
<1>2. e = o + (IF length % 3 = 0 THEN 0 ELSE (length % 3) + 1) /\ o \in Nat
  <2>1. length \in Nat
    BY <1>1
  <2>2. EncodedLength(length) =
            4 * (length \div 3) + (IF length % 3 = 0 THEN 0 ELSE (length % 3) + 1)
    BY <2>1, EncodedRoom
  <2> QED
    BY <1>1, <2>2
<1> HIDE DEF e
<1>3. CASE length % 3 = 2 /\ EncodeTwo(pos, o)
  <2> DEFINE value == (memory[pos] * 256 + memory[pos + 1]) * 4
             v == Encode64(value % 64)
             w == Encode64((value \div 64) % 64)
             x == Encode64(value \div 4096)
  <2>1. memory' = [memory EXCEPT ![o + 2] = v, ![o + 1] = w, ![o] = x]
    BY <1>3 DEF EncodeTwo
  <2> HIDE DEF value, v, w, x, o
  <2>2. /\ DOMAIN memory' = DOMAIN memory
        /\ \A a \in DOMAIN memory : a \notin {o + 2, o + 1, o} => memory'[a] = memory[a]
    BY <2>1
  <2>3. {o + 2, o + 1, o} \subseteq o .. e - 1
    BY <1>2, <1>3
  <2> QED
    BY <2>2, <2>3 DEF Writes, o, e
<1>4. CASE length % 3 = 1 /\ EncodeOne(pos, o)
  <2> DEFINE value == memory[pos] * 16
             v == Encode64(value % 64)
             w == Encode64(value \div 64)
  <2>1. memory' = [memory EXCEPT ![o + 1] = v, ![o] = w]
    BY <1>4 DEF EncodeOne
  <2> HIDE DEF value, v, w, o
  <2>2. /\ DOMAIN memory' = DOMAIN memory
        /\ \A a \in DOMAIN memory : a \notin {o + 1, o} => memory'[a] = memory[a]
    BY <2>1
  <2>3. {o + 1, o} \subseteq o .. e - 1
    BY <1>2, <1>4
  <2> QED
    BY <2>2, <2>3 DEF Writes, o, e
<1>5. CASE memory' = memory
    BY <1>5 DEF Writes
<1> QED
    BY <1>3, <1>4, <1>5 DEF EncodeRest

LEMMA DecodeGroupWrites ==
    ASSUME Shape, DecodeGroup
    PROVE  Writes(3 * groups .. 3 * groups + 2)
<1> DEFINE pos == input + 4 * groups
           o == 3 * groups
           value == Append64(Append64(Append64(Decode64(memory[pos]), Decode64(memory[pos + 1])),
                                      Decode64(memory[pos + 2])), Decode64(memory[pos + 3]))
           v == value % 256
           w == (value \div 256) % 256
           x == (value \div 65536) % 256
<1>1. memory' = [memory EXCEPT ![o + 2] = v, ![o + 1] = w, ![o] = x]
    BY DEF DecodeGroup
<1> HIDE DEF value, v, w, x
<1>2. o \in Nat
    BY DEF Shape
<1> HIDE DEF o
<1>3. /\ DOMAIN memory' = DOMAIN memory
      /\ \A a \in DOMAIN memory : a \notin {o + 2, o + 1, o} => memory'[a] = memory[a]
    BY <1>1
<1>4. {o + 2, o + 1, o} \subseteq o .. o + 2
    BY <1>2
<1> QED
    BY <1>3, <1>4 DEF Writes, o

LEMMA DecodeRestWrites ==
    ASSUME Shape, DecodeRest
    PROVE  Writes(3 * groups .. DecodedLength(length) - 1)
<1> DEFINE pos == input + 4 * groups
           o == 3 * groups
           e == DecodedLength(length)
           first == Append64(Decode64(memory[pos]), Decode64(memory[pos + 1]))
<1>1. length \in Nat /\ groups \in Nat /\ groups = length \div 4
    BY DEF Shape, DecodeRest
<1>2. length % 4 # 1 => e = o + (IF length % 4 = 0 THEN 0 ELSE (length % 4) - 1)
    BY <1>1, DecodedRoom
<1>3. o \in Nat
    BY <1>1
<1> HIDE DEF e
<1>4. CASE length % 4 = 3 /\ DecodeThree(pos, o)
  <2> DEFINE value == Append64(first, Decode64(memory[pos + 2])) \div 4
             v == value % 256
             w == (value \div 256) % 256
  <2>1. memory' = [memory EXCEPT ![o + 1] = v, ![o] = w]
    BY <1>4 DEF DecodeThree
  <2> HIDE DEF value, v, w, o
  <2>2. /\ DOMAIN memory' = DOMAIN memory
        /\ \A a \in DOMAIN memory : a \notin {o + 1, o} => memory'[a] = memory[a]
    BY <2>1
  <2>3. {o + 1, o} \subseteq o .. e - 1
    BY <1>2, <1>3, <1>4
  <2> QED
    BY <2>2, <2>3 DEF Writes, o, e
<1>5. CASE length % 4 = 2 /\ DecodeTwo(pos, o)
  <2> DEFINE v == (first \div 16) % 256
  <2>1. memory' = [memory EXCEPT ![o] = v]
    BY <1>5 DEF DecodeTwo
  <2> HIDE DEF v, first, o
  <2>2. /\ DOMAIN memory' = DOMAIN memory
        /\ \A a \in DOMAIN memory : a # o => memory'[a] = memory[a]
    BY <2>1
  <2>3. o \in o .. e - 1
    BY <1>2, <1>3, <1>5
  <2> QED
    BY <2>2, <2>3 DEF Writes, o, e
<1>6. CASE memory' = memory
    BY <1>6 DEF Writes
<1> QED
    BY <1>4, <1>5, <1>6 DEF DecodeRest

LEMMA ShapeKept == Shape /\ [Next]_vars => Shape'
<1> SUFFICES ASSUME Shape, [Next]_vars PROVE Shape'
    OBVIOUS
<1>1. /\ op' = op /\ input' = input /\ length' = length /\ before' = before
      /\ groups' \in {groups, groups + 1}
    BY DEF Next, vars, EncodeGroup, EncodeRest, DecodeRefused, DecodeGroup, DecodeRest
<1>2. DOMAIN memory' = DOMAIN memory
    BY EncodeGroupWrites, EncodeRestWrites, DecodeGroupWrites, DecodeRestWrites
    DEF Writes, Next, vars, DecodeRefused
<1> QED
    BY <1>1, <1>2 DEF Shape

(* A step that is not the last of its call leaves the call unfinished.     *)
LEMMA Returned ==
    ASSUME Shape
    PROVE  /\ EncodeRest => result' # NOT_YET
           /\ DecodeRest => result' # NOT_YET
           /\ DecodeRefused => result' # NOT_YET
<1>1. length \in Nat
    BY DEF Shape
<1>2. EncodedLength(length) # NOT_YET
  <2>1. EncodedLength(length) \in Nat
    BY <1>1, EncodedRoom
  <2> QED
    BY <2>1 DEF NOT_YET
<1>3. DecodedLength(length) # NOT_YET
  <2>1. DecodedLength(length) =
            IF length % 4 = 1 THEN INVALID
            ELSE 3 * (length \div 4) + (IF length % 4 = 0 THEN 0 ELSE (length % 4) - 1)
    BY <1>1, DecodedRoom
  <2>2. length \div 4 \in Nat /\ length % 4 \in 0 .. 3
    BY <1>1, DecodedRoom
  <2> QED
    BY <2>1, <2>2 DEF NOT_YET, INVALID
<1> QED
    BY <1>2, <1>3 DEF EncodeRest, DecodeRest, DecodeRefused, NOT_YET, INVALID

(* Nothing is written behind the output.                                   *)
LEMMA WithinKept ==
    ASSUME WritesWithin, [Next]_vars
    PROVE  WritesWithin'
<1>1. Shape /\ OutsideUntouched /\ Shape'
    BY ShapeKept DEF WritesWithin
<1>2. /\ length \in Nat /\ groups \in Nat /\ DOMAIN memory = DOMAIN before
      /\ DOMAIN before \subseteq Nat
    BY <1>1 DEF Shape
<1>3. op' = op /\ length' = length /\ before' = before
    BY DEF Next, vars, EncodeGroup, EncodeRest, DecodeRefused, DecodeGroup, DecodeRest
<1>4. OutputLength' = OutputLength
    BY <1>3 DEF OutputLength
<1> DEFINE out == OutputLength
<1>5. ASSUME NEW places, Writes(places), \A a \in DOMAIN memory : a \in places => a < out,
             out \in Int
      PROVE  WritesWithin'
  <2>1. \A a \in DOMAIN memory : a >= out => memory[a] = before[a]
    BY <1>1 DEF OutsideUntouched
  <2>2. \A a \in DOMAIN memory : a >= out => a \notin places
    BY <1>2, <1>5
  <2>3. DOMAIN memory' = DOMAIN memory
    BY <1>5 DEF Writes
  <2>4. ASSUME NEW a \in DOMAIN memory', a >= out PROVE memory'[a] = before[a]
    BY <1>5, <2>1, <2>2, <2>3, <2>4 DEF Writes
  <2>5. OutsideUntouched'
    BY <1>2, <1>3, <1>4, <2>3, <2>4 DEF OutsideUntouched
  <2> QED
    BY <1>1, <2>5 DEF WritesWithin
<1>6. out \in Int
  <2>1. EncodedLength(length) \in Int
    BY <1>2, EncodedRoom
  <2>2. DecodedLength(length) \in Int
    BY <1>2 DEF DecodedLength, INVALID
  <2> QED
    BY <2>1, <2>2 DEF OutputLength
<1>7. CASE EncodeGroup
  <2>1. op = "encode" /\ groups < length \div 3
    BY <1>7 DEF EncodeGroup
  <2>2. out = 4 * (length \div 3) + (IF length % 3 = 0 THEN 0 ELSE (length % 3) + 1)
    BY <1>2, <2>1, EncodedRoom DEF OutputLength
  <2>3. length \div 3 \in Nat /\ length % 3 \in 0 .. 2
    BY <1>2, EncodedRoom
  <2>4. 4 * groups + 3 < out
    BY <1>2, <2>1, <2>2, <2>3
  <2>5. \A a \in DOMAIN memory : a \in 4 * groups .. 4 * groups + 3 => a < out
    BY <1>2, <1>6, <2>4
  <2>6. Writes(4 * groups .. 4 * groups + 3)
    BY <1>1, <1>7, EncodeGroupWrites
  <2> QED
    BY <1>5, <1>6, <2>5, <2>6
<1>8. CASE EncodeRest
  <2>1. out = EncodedLength(length)
    BY <1>8 DEF EncodeRest, OutputLength
  <2>2. \A a \in DOMAIN memory : a \in 4 * groups .. EncodedLength(length) - 1 => a < out
    BY <1>2, <1>6, <2>1
  <2>3. Writes(4 * groups .. EncodedLength(length) - 1)
    BY <1>1, <1>8, EncodeRestWrites
  <2> QED
    BY <1>5, <1>6, <2>2, <2>3
<1>9. CASE DecodeGroup
  <2>1. op = "decode" /\ groups < length \div 4 /\ DecodedLength(length) # INVALID
    BY <1>9 DEF DecodeGroup
  <2>2. op # "encode"
    BY <2>1
  <2>3. out = DecodedLength(length)
    BY <2>2 DEF OutputLength
  <2>4. /\ DecodedLength(length) =
              IF length % 4 = 1 THEN INVALID
              ELSE 3 * (length \div 4) + (IF length % 4 = 0 THEN 0 ELSE (length % 4) - 1)
        /\ length \div 4 \in Nat /\ length % 4 \in 0 .. 3
    BY <1>2, DecodedRoom
  <2>5. 3 * groups + 2 < out
    BY <1>2, <2>1, <2>3, <2>4
  <2>6. \A a \in DOMAIN memory : a \in 3 * groups .. 3 * groups + 2 => a < out
    BY <1>2, <1>6, <2>5
  <2>7. Writes(3 * groups .. 3 * groups + 2)
    BY <1>1, <1>9, DecodeGroupWrites
  <2> QED
    BY <1>5, <1>6, <2>6, <2>7
<1>10. CASE DecodeRest
  <2>1. out = DecodedLength(length)
    BY <1>10 DEF DecodeRest, OutputLength
  <2>2. \A a \in DOMAIN memory : a \in 3 * groups .. DecodedLength(length) - 1 => a < out
    BY <1>2, <1>6, <2>1
  <2>3. Writes(3 * groups .. DecodedLength(length) - 1)
    BY <1>1, <1>10, DecodeRestWrites
  <2> QED
    BY <1>5, <1>6, <2>2, <2>3
<1>11. CASE UNCHANGED memory
  <2>1. Writes({})
    BY <1>11 DEF Writes
  <2> QED
    BY <1>5, <1>6, <2>1
<1> QED
    BY <1>7, <1>8, <1>9, <1>10, <1>11 DEF Next, vars, DecodeRefused

(* What encode_base64() and decode_base64() write lies within the lengths  *)
(* that encode_base64_length() and decode_base64_length() announce, at     *)
(* every moment, wherever the input is and whatever characters it has; of  *)
(* a length that no encoding has, nothing is written at all.               *)
THEOREM NothingBehindOutput == Spec => []OutsideUntouched
<1>1. Init => WritesWithin
    BY InitShape DEF WritesWithin, OutsideUntouched
<1>2. WritesWithin /\ [Next]_vars => WritesWithin'
    BY WithinKept
<1>3. WritesWithin => OutsideUntouched
    BY DEF WritesWithin
<1> QED
    BY <1>1, <1>2, <1>3, PTL DEF Spec

(* Where b64_output(), _olm_enc_output() and olm_pk_encrypt() put their    *)
(* bytes, and anywhere behind the output, is far enough ahead.             *)
LEMMA InitAhead ==
    ASSUME Init, Places \subseteq {"end", "further", "clear"}
    PROVE  Ahead
<1> SUFFICES ASSUME op = "encode" PROVE length \div 3 <= input
    BY DEF Ahead
<1>1. length \in Nat
    BY InitShape DEF Shape
<1> DEFINE e == EncodedLength(length)
           k == length \div 3
<1>2. e \in Nat /\ k \in Nat /\ k <= e - length
    BY <1>1, EncodedRoom
<1>3. \E place \in Places : input = InputAt(place, length)
    BY DEF Init
<1>4. input \in {e - length, e - length + 1, e}
    BY <1>3 DEF InputAt, OutputPos
<1> HIDE DEF e, k
<1>5. k <= input
    BY <1>1, <1>2, <1>4
<1> QED
    BY <1>5 DEF k

LEMMA AheadKept ==
    ASSUME ReadsFirst, [Next]_vars
    PROVE  ReadsFirst'
<1>1. Shape /\ Ahead /\ UnreadIntact /\ Shape'
    BY ShapeKept DEF ReadsFirst
<1>2. /\ length \in Nat /\ groups \in Nat /\ input \in Nat
      /\ \A i \in 0 .. length - 1 : input + i \in DOMAIN memory
    BY <1>1 DEF Shape
<1>3. /\ op' = op /\ length' = length /\ before' = before /\ input' = input
    BY DEF Next, vars, EncodeGroup, EncodeRest, DecodeRefused, DecodeGroup, DecodeRest
<1>4. Ahead'
    BY <1>1, <1>3 DEF Ahead
<1>5. CASE EncodeGroup
  <2>1. /\ op = "encode" /\ groups < length \div 3 /\ result = NOT_YET
        /\ groups' = groups + 1 /\ result' = NOT_YET
    BY <1>5 DEF EncodeGroup
  <2>2. groups + 1 <= input
    <3>1. length \div 3 \in Nat
      BY <1>2, EncodedRoom
    <3>2. length \div 3 <= input
      BY <1>1, <2>1 DEF Ahead
    <3> QED
      BY <1>2, <2>1, <3>1, <3>2
  <2>3. Writes(4 * groups .. 4 * groups + 3)
    BY <1>1, <1>5, EncodeGroupWrites
  <2>4. ASSUME NEW i \in 3 * groups + 3 .. length - 1
        PROVE  memory'[input + i] = before[input + i]
    <3>1. input + i \in DOMAIN memory /\ i \in 3 * groups .. length - 1
      BY <1>2
    <3>2. input + i \notin 4 * groups .. 4 * groups + 3
      BY <1>2, <2>2
    <3>3. memory'[input + i] = memory[input + i]
      BY <2>3, <3>1, <3>2 DEF Writes
    <3>4. memory[input + i] = before[input + i]
      BY <1>1, <2>1, <3>1 DEF UnreadIntact, Read
    <3> QED
      BY <3>3, <3>4
  <2>5. Read' = 3 * groups + 3
    BY <1>2, <1>3, <2>1 DEF Read
  <2>6. UnreadIntact'
    BY <1>3, <2>4, <2>5 DEF UnreadIntact
  <2> QED
    BY <1>1, <1>4, <2>6 DEF ReadsFirst
<1>6. CASE DecodeGroup
  <2>1. /\ op = "decode" /\ result = NOT_YET
        /\ groups' = groups + 1 /\ result' = NOT_YET
    BY <1>6 DEF DecodeGroup
  <2>2. Writes(3 * groups .. 3 * groups + 2)
    BY <1>1, <1>6, DecodeGroupWrites
  <2>3. op # "encode"
    BY <2>1
  <2>4. ASSUME NEW i \in 4 * groups + 4 .. length - 1
        PROVE  memory'[input + i] = before[input + i]
    <3>1. input + i \in DOMAIN memory /\ i \in 4 * groups .. length - 1
      BY <1>2
    <3>2. input + i \notin 3 * groups .. 3 * groups + 2
      BY <1>2
    <3>3. memory'[input + i] = memory[input + i]
      BY <2>2, <3>1, <3>2 DEF Writes
    <3>4. memory[input + i] = before[input + i]
      BY <1>1, <2>1, <2>3, <3>1 DEF UnreadIntact, Read
    <3> QED
      BY <3>3, <3>4
  <2>5. Read' = 4 * groups + 4
    BY <1>2, <1>3, <2>1, <2>3 DEF Read
  <2>6. UnreadIntact'
    BY <1>3, <2>4, <2>5 DEF UnreadIntact
  <2> QED
    BY <1>1, <1>4, <2>6 DEF ReadsFirst
<1>7. CASE EncodeRest \/ DecodeRefused \/ DecodeRest
  <2>1. result' # NOT_YET
    BY <1>1, <1>7, Returned
  <2> QED
    BY <1>1, <1>4, <2>1 DEF ReadsFirst, UnreadIntact, NOT_YET
<1>8. CASE UNCHANGED vars
  <2>1. UnreadIntact'
    BY <1>1, <1>8 DEF vars, UnreadIntact, Read
  <2> QED
    BY <1>1, <1>4, <2>1 DEF ReadsFirst
<1> QED
    BY <1>5, <1>6, <1>7, <1>8 DEF Next

(* In place, the bytes of an input are read before they are overwritten,   *)
(* for inputs of every length, wherever the library's callers put them but *)
(* for the one that has them where the output starts.                      *)
THEOREM ReadBeforeWritten ==
    ASSUME Places \subseteq {"end", "further", "clear"}
    PROVE  Spec => []UnreadIntact
<1>1. Init => ReadsFirst
    BY InitShape, InitAhead DEF ReadsFirst, UnreadIntact
<1>2. ReadsFirst /\ [Next]_vars => ReadsFirst'
    BY AheadKept
<1>3. ReadsFirst => UnreadIntact
    BY DEF ReadsFirst
<1> QED
    BY <1>1, <1>2, <1>3, PTL DEF Spec

-----------------------------------------------------------------------------
(* Three bytes are four times six bits; behind the last byte there are     *)
(* zeros, which is what the rest is filled up with.                        *)
ByteAt(bytes, k) == IF k < Len(bytes) THEN bytes[k + 1] ELSE 0

LEMMA ByteAtType ==
    ASSUME NEW bytes \in Seq(Byte), NEW k \in Nat
    PROVE  ByteAt(bytes, k) \in Byte
<1>1. k < Len(bytes) => bytes[k + 1] \in Byte
    OBVIOUS
<1>2. 0 \in Byte
    BY DEF Byte
<1> QED
    BY <1>1, <1>2 DEF ByteAt

LEMMA BitOfByte ==
    ASSUME NEW bytes \in Seq(Byte), NEW k \in Nat, NEW i \in 0 .. 7, NEW power \in Nat \ {0},
           2 ^ (7 - i) = power
    PROVE  Bit(bytes, (8 * k) + i) = (ByteAt(bytes, k) \div power) % 2
<1> DEFINE j == (8 * k) + i
<1>1. j \div 8 = k /\ j % 8 = i /\ (j < 8 * Len(bytes) <=> k < Len(bytes))
    <2>1. Len(bytes) \in Nat
      OBVIOUS
    <2> QED
      BY <2>1
<1>2. Bit(bytes, j) = IF k < Len(bytes) THEN (bytes[k + 1] \div power) % 2 ELSE 0
    BY <1>1 DEF Bit
<1>3. (0 \div power) % 2 = 0
    OBVIOUS
<1> QED
    BY <1>2, <1>3 DEF ByteAt

LEMMA BitsOfByte ==
    ASSUME NEW bytes \in Seq(Byte), NEW k \in Nat, NEW b, b = ByteAt(bytes, k)
    PROVE  /\ Bit(bytes, 8 * k) = (b \div 128) % 2
           /\ Bit(bytes, (8 * k) + 1) = (b \div 64) % 2
           /\ Bit(bytes, (8 * k) + 2) = (b \div 32) % 2
           /\ Bit(bytes, (8 * k) + 3) = (b \div 16) % 2
           /\ Bit(bytes, (8 * k) + 4) = (b \div 8) % 2
           /\ Bit(bytes, (8 * k) + 5) = (b \div 4) % 2
           /\ Bit(bytes, (8 * k) + 6) = (b \div 2) % 2
           /\ Bit(bytes, (8 * k) + 7) = b % 2
<1>1. /\ 2 ^ (7 - 0) = 128 /\ 2 ^ (7 - 1) = 64 /\ 2 ^ (7 - 2) = 32 /\ 2 ^ (7 - 3) = 16
      /\ 2 ^ (7 - 4) = 8 /\ 2 ^ (7 - 5) = 4 /\ 2 ^ (7 - 6) = 2 /\ 2 ^ (7 - 7) = 1
    OBVIOUS
<1>2. Bit(bytes, (8 * k) + 0) = (b \div 128) % 2
    BY <1>1, BitOfByte
<1>3. Bit(bytes, (8 * k) + 1) = (b \div 64) % 2
    BY <1>1, BitOfByte
<1>4. Bit(bytes, (8 * k) + 2) = (b \div 32) % 2
    BY <1>1, BitOfByte
<1>5. Bit(bytes, (8 * k) + 3) = (b \div 16) % 2
    BY <1>1, BitOfByte
<1>6. Bit(bytes, (8 * k) + 4) = (b \div 8) % 2
    BY <1>1, BitOfByte
<1>7. Bit(bytes, (8 * k) + 5) = (b \div 4) % 2
    BY <1>1, BitOfByte
<1>8. Bit(bytes, (8 * k) + 6) = (b \div 2) % 2
    BY <1>1, BitOfByte
<1>9. Bit(bytes, (8 * k) + 7) = (b \div 1) % 2
    BY <1>1, BitOfByte
<1>10. (8 * k) + 0 = 8 * k
    OBVIOUS
<1>11. b \div 1 = b
  <2>1. b \in Byte
    BY ByteAtType
  <2> QED
    BY <2>1 DEF Byte
<1> QED
    BY <1>2, <1>3, <1>4, <1>5, <1>6, <1>7, <1>8, <1>9, <1>10, <1>11

Six(u, v, w, x, y, z) == (32 * u) + (16 * v) + (8 * w) + (4 * x) + (2 * y) + z

LEMMA SixBits ==
    ASSUME NEW a \in Byte, NEW b \in Byte
    PROVE  /\ Six((a \div 128) % 2, (a \div 64) % 2, (a \div 32) % 2,
                  (a \div 16) % 2, (a \div 8) % 2, (a \div 4) % 2) = a \div 4
           /\ Six((a \div 2) % 2, a % 2, (b \div 128) % 2,
                  (b \div 64) % 2, (b \div 32) % 2, (b \div 16) % 2)
              = ((a % 4) * 16) + (b \div 16)
           /\ Six((a \div 8) % 2, (a \div 4) % 2, (a \div 2) % 2,
                  a % 2, (b \div 128) % 2, (b \div 64) % 2)
              = ((a % 16) * 4) + (b \div 64)
           /\ Six((a \div 32) % 2, (a \div 16) % 2, (a \div 8) % 2,
                  (a \div 4) % 2, (a \div 2) % 2, a % 2) = a % 64
<1>1. Six((a \div 128) % 2, (a \div 64) % 2, (a \div 32) % 2,
          (a \div 16) % 2, (a \div 8) % 2, (a \div 4) % 2) = a \div 4
    BY DEF Six, Byte
<1>2. (2 * ((a \div 2) % 2)) + (a % 2) = a % 4
    BY DEF Byte
<1>3. (8 * ((b \div 128) % 2)) + (4 * ((b \div 64) % 2)) + (2 * ((b \div 32) % 2))
      + ((b \div 16) % 2) = b \div 16
    BY DEF Byte
<1>4. (8 * ((a \div 8) % 2)) + (4 * ((a \div 4) % 2)) + (2 * ((a \div 2) % 2)) + (a % 2) = a % 16
    BY DEF Byte
<1>5. (2 * ((b \div 128) % 2)) + ((b \div 64) % 2) = b \div 64
    BY DEF Byte
<1>6. Six((a \div 32) % 2, (a \div 16) % 2, (a \div 8) % 2,
          (a \div 4) % 2, (a \div 2) % 2, a % 2) = a % 64
    BY DEF Six, Byte
<1>7. Six((a \div 2) % 2, a % 2, (b \div 128) % 2,
          (b \div 64) % 2, (b \div 32) % 2, (b \div 16) % 2) = ((a % 4) * 16) + (b \div 16)
    BY <1>2, <1>3 DEF Six, Byte
<1>8. Six((a \div 8) % 2, (a \div 4) % 2, (a \div 2) % 2,
          a % 2, (b \div 128) % 2, (b \div 64) % 2) = ((a % 16) * 4) + (b \div 64)
    BY <1>4, <1>5 DEF Six, Byte
<1> QED
    BY <1>1, <1>6, <1>7, <1>8

LEMMA Sextets ==
    ASSUME NEW bytes \in Seq(Byte), NEW g \in Nat,
           NEW a, NEW b, NEW c,
           a = ByteAt(bytes, 3 * g), b = ByteAt(bytes, (3 * g) + 1), c = ByteAt(bytes, (3 * g) + 2)
    PROVE  /\ a \in Byte /\ b \in Byte /\ c \in Byte
           /\ Sextet(bytes, 4 * g) = a \div 4
           /\ Sextet(bytes, (4 * g) + 1) = ((a % 4) * 16) + (b \div 16)
           /\ Sextet(bytes, (4 * g) + 2) = ((b % 16) * 4) + (c \div 64)
           /\ Sextet(bytes, (4 * g) + 3) = c % 64
<1>1. a \in Byte /\ b \in Byte /\ c \in Byte
    BY ByteAtType
<1> DEFINE B(i) == Bit(bytes, (24 * g) + i)
<1>2. /\ B(0) = (a \div 128) % 2 /\ B(1) = (a \div 64) % 2 /\ B(2) = (a \div 32) % 2
      /\ B(3) = (a \div 16) % 2 /\ B(4) = (a \div 8) % 2 /\ B(5) = (a \div 4) % 2
      /\ B(6) = (a \div 2) % 2 /\ B(7) = a % 2
  <2> DEFINE k == 3 * g
  <2>1. /\ k \in Nat /\ (24 * g) + 0 = 8 * k
        /\ (24 * g) + 1 = (8 * k) + 1
        /\ (24 * g) + 2 = (8 * k) + 2
        /\ (24 * g) + 3 = (8 * k) + 3
        /\ (24 * g) + 4 = (8 * k) + 4
        /\ (24 * g) + 5 = (8 * k) + 5
        /\ (24 * g) + 6 = (8 * k) + 6
        /\ (24 * g) + 7 = (8 * k) + 7
    OBVIOUS
  <2>2. a = ByteAt(bytes, k)
    OBVIOUS
  <2> HIDE DEF k
  <2> QED
    BY <2>1, <2>2, BitsOfByte
<1>3. /\ B(8) = (b \div 128) % 2 /\ B(9) = (b \div 64) % 2 /\ B(10) = (b \div 32) % 2
      /\ B(11) = (b \div 16) % 2 /\ B(12) = (b \div 8) % 2 /\ B(13) = (b \div 4) % 2
      /\ B(14) = (b \div 2) % 2 /\ B(15) = b % 2
  <2> DEFINE k == (3 * g) + 1
  <2>1. /\ k \in Nat /\ (24 * g) + 8 = 8 * k
        /\ (24 * g) + 9 = (8 * k) + 1
        /\ (24 * g) + 10 = (8 * k) + 2
        /\ (24 * g) + 11 = (8 * k) + 3
        /\ (24 * g) + 12 = (8 * k) + 4
        /\ (24 * g) + 13 = (8 * k) + 5
        /\ (24 * g) + 14 = (8 * k) + 6
        /\ (24 * g) + 15 = (8 * k) + 7
    OBVIOUS
  <2>2. b = ByteAt(bytes, k)
    OBVIOUS
  <2> HIDE DEF k
  <2> QED
    BY <2>1, <2>2, BitsOfByte
<1>4. /\ B(16) = (c \div 128) % 2 /\ B(17) = (c \div 64) % 2 /\ B(18) = (c \div 32) % 2
      /\ B(19) = (c \div 16) % 2 /\ B(20) = (c \div 8) % 2 /\ B(21) = (c \div 4) % 2
      /\ B(22) = (c \div 2) % 2 /\ B(23) = c % 2
  <2> DEFINE k == (3 * g) + 2
  <2>1. /\ k \in Nat /\ (24 * g) + 16 = 8 * k
        /\ (24 * g) + 17 = (8 * k) + 1
        /\ (24 * g) + 18 = (8 * k) + 2
        /\ (24 * g) + 19 = (8 * k) + 3
        /\ (24 * g) + 20 = (8 * k) + 4
        /\ (24 * g) + 21 = (8 * k) + 5
        /\ (24 * g) + 22 = (8 * k) + 6
        /\ (24 * g) + 23 = (8 * k) + 7
    OBVIOUS
  <2>2. c = ByteAt(bytes, k)
    OBVIOUS
  <2> HIDE DEF k
  <2> QED
    BY <2>1, <2>2, BitsOfByte
<1>5. /\ Sextet(bytes, 4 * g) = Six(B(0), B(1), B(2), B(3), B(4), B(5))
      /\ Sextet(bytes, (4 * g) + 1) = Six(B(6), B(7), B(8), B(9), B(10), B(11))
      /\ Sextet(bytes, (4 * g) + 2) = Six(B(12), B(13), B(14), B(15), B(16), B(17))
      /\ Sextet(bytes, (4 * g) + 3) = Six(B(18), B(19), B(20), B(21), B(22), B(23))
  <2>1. Sextet(bytes, 4 * g) = Six(B(0), B(1), B(2), B(3), B(4), B(5))
    <3>1. /\ 6 * (4 * g) = (24 * g) + 0
          /\ (6 * (4 * g)) + 1 = (24 * g) + 1
          /\ (6 * (4 * g)) + 2 = (24 * g) + 2
          /\ (6 * (4 * g)) + 3 = (24 * g) + 3
          /\ (6 * (4 * g)) + 4 = (24 * g) + 4
          /\ (6 * (4 * g)) + 5 = (24 * g) + 5
      OBVIOUS
    <3> QED
      BY <3>1 DEF Sextet, Six
  <2>2. Sextet(bytes, (4 * g) + 1) = Six(B(6), B(7), B(8), B(9), B(10), B(11))
    <3>1. /\ 6 * ((4 * g) + 1) = (24 * g) + 6
          /\ (6 * ((4 * g) + 1)) + 1 = (24 * g) + 7
          /\ (6 * ((4 * g) + 1)) + 2 = (24 * g) + 8
          /\ (6 * ((4 * g) + 1)) + 3 = (24 * g) + 9
          /\ (6 * ((4 * g) + 1)) + 4 = (24 * g) + 10
          /\ (6 * ((4 * g) + 1)) + 5 = (24 * g) + 11
      OBVIOUS
    <3> QED
      BY <3>1 DEF Sextet, Six
  <2>3. Sextet(bytes, (4 * g) + 2) = Six(B(12), B(13), B(14), B(15), B(16), B(17))
    <3>1. /\ 6 * ((4 * g) + 2) = (24 * g) + 12
          /\ (6 * ((4 * g) + 2)) + 1 = (24 * g) + 13
          /\ (6 * ((4 * g) + 2)) + 2 = (24 * g) + 14
          /\ (6 * ((4 * g) + 2)) + 3 = (24 * g) + 15
          /\ (6 * ((4 * g) + 2)) + 4 = (24 * g) + 16
          /\ (6 * ((4 * g) + 2)) + 5 = (24 * g) + 17
      OBVIOUS
    <3> QED
      BY <3>1 DEF Sextet, Six
  <2>4. Sextet(bytes, (4 * g) + 3) = Six(B(18), B(19), B(20), B(21), B(22), B(23))
    <3>1. /\ 6 * ((4 * g) + 3) = (24 * g) + 18
          /\ (6 * ((4 * g) + 3)) + 1 = (24 * g) + 19
          /\ (6 * ((4 * g) + 3)) + 2 = (24 * g) + 20
          /\ (6 * ((4 * g) + 3)) + 3 = (24 * g) + 21
          /\ (6 * ((4 * g) + 3)) + 4 = (24 * g) + 22
          /\ (6 * ((4 * g) + 3)) + 5 = (24 * g) + 23
      OBVIOUS
    <3> QED
      BY <3>1 DEF Sextet, Six
  <2> QED
    BY <2>1, <2>2, <2>3, <2>4
<1> HIDE DEF B
<1>6. /\ Sextet(bytes, 4 * g)
            = Six((a \div 128) % 2, (a \div 64) % 2, (a \div 32) % 2,
                  (a \div 16) % 2, (a \div 8) % 2, (a \div 4) % 2)
      /\ Sextet(bytes, (4 * g) + 1)
            = Six((a \div 2) % 2, a % 2, (b \div 128) % 2,
                  (b \div 64) % 2, (b \div 32) % 2, (b \div 16) % 2)
      /\ Sextet(bytes, (4 * g) + 2)
            = Six((b \div 8) % 2, (b \div 4) % 2, (b \div 2) % 2,
                  b % 2, (c \div 128) % 2, (c \div 64) % 2)
      /\ Sextet(bytes, (4 * g) + 3)
            = Six((c \div 32) % 2, (c \div 16) % 2, (c \div 8) % 2,
                  (c \div 4) % 2, (c \div 2) % 2, c % 2)
    BY <1>2, <1>3, <1>4, <1>5
<1>7. /\ Six((a \div 128) % 2, (a \div 64) % 2, (a \div 32) % 2,
             (a \div 16) % 2, (a \div 8) % 2, (a \div 4) % 2) = a \div 4
      /\ Six((a \div 2) % 2, a % 2, (b \div 128) % 2,
             (b \div 64) % 2, (b \div 32) % 2, (b \div 16) % 2) = ((a % 4) * 16) + (b \div 16)
    BY <1>1, SixBits
<1>8. /\ Six((b \div 8) % 2, (b \div 4) % 2, (b \div 2) % 2,
             b % 2, (c \div 128) % 2, (c \div 64) % 2) = ((b % 16) * 4) + (c \div 64)
      /\ Six((c \div 32) % 2, (c \div 16) % 2, (c \div 8) % 2,
             (c \div 4) % 2, (c \div 2) % 2, c % 2) = c % 64
    BY <1>1, SixBits
<1> QED
    BY <1>1, <1>6, <1>7, <1>8

LEMMA SextetsAt ==
    ASSUME NEW bytes \in Seq(Byte), NEW g \in Nat
    PROVE  /\ ByteAt(bytes, 3 * g) \in Byte
           /\ ByteAt(bytes, (3 * g) + 1) \in Byte
           /\ ByteAt(bytes, (3 * g) + 2) \in Byte
           /\ Sextet(bytes, 4 * g) = ByteAt(bytes, 3 * g) \div 4
           /\ Sextet(bytes, (4 * g) + 1)
                 = ((ByteAt(bytes, 3 * g) % 4) * 16) + (ByteAt(bytes, (3 * g) + 1) \div 16)
           /\ Sextet(bytes, (4 * g) + 2)
                 = ((ByteAt(bytes, (3 * g) + 1) % 16) * 4) + (ByteAt(bytes, (3 * g) + 2) \div 64)
           /\ Sextet(bytes, (4 * g) + 3) = ByteAt(bytes, (3 * g) + 2) % 64
<1> DEFINE a == ByteAt(bytes, 3 * g)
           b == ByteAt(bytes, (3 * g) + 1)
           c == ByteAt(bytes, (3 * g) + 2)
<1>1. a = ByteAt(bytes, 3 * g) /\ b = ByteAt(bytes, (3 * g) + 1) /\ c = ByteAt(bytes, (3 * g) + 2)
    OBVIOUS
<1> HIDE DEF a, b, c
<1>2. /\ a \in Byte /\ b \in Byte /\ c \in Byte
      /\ Sextet(bytes, 4 * g) = a \div 4
      /\ Sextet(bytes, (4 * g) + 1) = ((a % 4) * 16) + (b \div 16)
      /\ Sextet(bytes, (4 * g) + 2) = ((b % 16) * 4) + (c \div 64)
      /\ Sextet(bytes, (4 * g) + 3) = c % 64
    BY <1>1, Sextets
<1> QED
    BY <1>1, <1>2

LEMMA ThreeBytes ==
    ASSUME NEW a \in Byte, NEW b \in Byte, NEW c \in Byte, NEW value,
           value = (a * 65536) + (b * 256) + c
    PROVE  /\ value \div 262144 = a \div 4
           /\ (value \div 4096) % 64 = ((a % 4) * 16) + (b \div 16)
           /\ (value \div 64) % 64 = ((b % 16) * 4) + (c \div 64)
           /\ value % 64 = c % 64
<1>1. value \div 262144 = a \div 4
    BY DEF Byte
<1>2. (value \div 4096) % 64 = ((a % 4) * 16) + (b \div 16)
  <2>1. value \div 4096 = (a * 16) + (b \div 16)
    BY DEF Byte
  <2>2. b \div 16 \in 0 .. 15
    BY DEF Byte
  <2> QED
    BY <2>1, <2>2 DEF Byte
<1>3. (value \div 64) % 64 = ((b % 16) * 4) + (c \div 64)
  <2>1. value \div 64 = (a * 1024) + (b * 4) + (c \div 64)
    BY DEF Byte
  <2>2. c \div 64 \in 0 .. 3
    BY DEF Byte
  <2> QED
    BY <2>1, <2>2 DEF Byte
<1>4. value % 64 = c % 64
    BY DEF Byte
<1> QED
    BY <1>1, <1>2, <1>3, <1>4

LEMMA TwoBytes ==
    ASSUME NEW a \in Byte, NEW b \in Byte, NEW value, value = ((a * 256) + b) * 4
    PROVE  /\ value \div 4096 = a \div 4
           /\ (value \div 64) % 64 = ((a % 4) * 16) + (b \div 16)
           /\ value % 64 = (b % 16) * 4
<1>1. value \div 4096 = a \div 4
    BY DEF Byte
<1>2. (value \div 64) % 64 = ((a % 4) * 16) + (b \div 16)
    BY DEF Byte
<1>3. value % 64 = (b % 16) * 4
    BY DEF Byte
<1> QED
    BY <1>1, <1>2, <1>3

LEMMA OneByte ==
    ASSUME NEW a \in Byte, NEW value, value = a * 16
    PROVE  value \div 64 = a \div 4 /\ value % 64 = (a % 4) * 16
<1>1. value \div 64 = a \div 4
    BY DEF Byte
<1>2. value % 64 = (a % 4) * 16
    BY DEF Byte
<1> QED
    BY <1>1, <1>2

-----------------------------------------------------------------------------
(* What encode_base64() has written after so many turns, and all of it.    *)
Roomy == \A a \in 0 .. OutputLength - 1 : a \in DOMAIN before

EncodedTo(n) == \A k \in 0 .. n - 1 : memory[k] = Encode64(Sextet(raw, k))

EncodesFrom ==
    op = "encode" =>
        /\ raw \in Seq(Byte) /\ length = Len(raw)
        /\ \A i \in 0 .. length - 1 : before[input + i] = raw[i + 1]
        /\ groups <= length \div 3
        /\ EncodedTo(4 * groups)
        /\ result # NOT_YET => result = EncodedLength(length) /\ EncodedTo(result)

Encoding == ReadsFirst /\ WritesWithin /\ Roomy /\ EncodesFrom

LEMMA GroupFits ==
    ASSUME NEW n \in Nat, NEW g \in Nat, g < n \div 3
    PROVE  4 * g + 3 < EncodedLength(n) /\ EncodedLength(n) \in Nat
<1>1. EncodedLength(n) = 4 * (n \div 3) + (IF n % 3 = 0 THEN 0 ELSE (n % 3) + 1)
    BY EncodedRoom
<1>2. n \div 3 \in Nat /\ n % 3 \in 0 .. 2 /\ EncodedLength(n) \in Nat
    BY EncodedRoom
<1> QED
    BY <1>1, <1>2

(* The bytes a step reads are those of the input.                          *)
LEMMA ReadsInput ==
    ASSUME Encoding, op = "encode", result = NOT_YET,
           NEW i \in 0 .. 2, (3 * groups) + i < length
    PROVE  memory[(input + (3 * groups)) + i] = ByteAt(raw, (3 * groups) + i)
<1> DEFINE j == (3 * groups) + i
<1>1. /\ length \in Nat /\ groups \in Nat /\ input \in Nat /\ UnreadIntact
      /\ length = Len(raw) /\ \A k \in 0 .. length - 1 : before[input + k] = raw[k + 1]
    BY DEF Encoding, ReadsFirst, Shape, EncodesFrom
<1>2. j \in Read .. length - 1 /\ j \in 0 .. length - 1 /\ (input + (3 * groups)) + i = input + j
    BY <1>1 DEF Read
<1> HIDE DEF j
<1>3. memory[input + j] = before[input + j] /\ before[input + j] = raw[j + 1]
    BY <1>1, <1>2 DEF UnreadIntact
<1>4. j < Len(raw)
    BY <1>1, <1>2
<1> QED
    BY <1>2, <1>3, <1>4 DEF ByteAt, j

LEMMA EncodeGroupValues ==
    ASSUME Encoding, EncodeGroup
    PROVE  \A i \in 0 .. 3 :
              memory'[(4 * groups) + i] = Encode64(Sextet(raw, (4 * groups) + i))
<1> DEFINE g == groups
           o == 4 * groups
           pos == input + (3 * groups)
           value == memory[pos] * 65536 + memory[pos + 1] * 256 + memory[pos + 2]
           a == ByteAt(raw, 3 * g)
           b == ByteAt(raw, (3 * g) + 1)
           c == ByteAt(raw, (3 * g) + 2)
<1>1. /\ op = "encode" /\ result = NOT_YET /\ g < length \div 3 /\ g \in Nat /\ length \in Nat
      /\ input \in Nat /\ raw \in Seq(Byte) /\ DOMAIN memory = DOMAIN before
    BY DEF Encoding, ReadsFirst, Shape, EncodesFrom, EncodeGroup
<1>2. memory' = [memory EXCEPT ![o + 3] = Encode64(value % 64),
                               ![o + 2] = Encode64((value \div 64) % 64),
                               ![o + 1] = Encode64((value \div 4096) % 64),
                               ![o] = Encode64(value \div 262144)]
    BY DEF EncodeGroup
<1>3. (3 * g) + 2 < length
    BY <1>1, EncodedRoom
<1>4. a = memory[pos] /\ b = memory[pos + 1] /\ c = memory[pos + 2]
  <2>1. pos \in Nat /\ (3 * g) + 0 = 3 * g /\ pos + 0 = pos
    BY <1>1
  <2>2. (3 * g) + 0 < length /\ (3 * g) + 1 < length
    BY <1>1, <1>3
  <2>3. memory[pos + 0] = ByteAt(raw, (3 * g) + 0)
    BY <1>1, <2>2, ReadsInput
  <2>4. memory[pos + 1] = ByteAt(raw, (3 * g) + 1)
    BY <1>1, <2>2, ReadsInput
  <2>5. memory[pos + 2] = ByteAt(raw, (3 * g) + 2)
    BY <1>1, <1>3, ReadsInput
  <2> QED
    BY <2>1, <2>3, <2>4, <2>5
<1>5. /\ a \in Byte /\ b \in Byte /\ c \in Byte
      /\ Sextet(raw, o) = a \div 4
      /\ Sextet(raw, o + 1) = ((a % 4) * 16) + (b \div 16)
      /\ Sextet(raw, o + 2) = ((b % 16) * 4) + (c \div 64)
      /\ Sextet(raw, o + 3) = c % 64
    BY <1>1, SextetsAt
<1>6. value = (a * 65536) + (b * 256) + c
    BY <1>4
<1> HIDE DEF a, b, c, value
<1>7. /\ value \div 262144 = Sextet(raw, o)
      /\ (value \div 4096) % 64 = Sextet(raw, o + 1)
      /\ (value \div 64) % 64 = Sextet(raw, o + 2)
      /\ value % 64 = Sextet(raw, o + 3)
    BY <1>5, <1>6, ThreeBytes
<1>8. {o, o + 1, o + 2, o + 3} \subseteq DOMAIN memory /\ o \in Nat
  <2>1. OutputLength = EncodedLength(length)
    BY <1>1 DEF OutputLength
  <2>2. o + 3 < EncodedLength(length)
    BY <1>1, GroupFits
  <2>3. EncodedLength(length) \in Nat
    BY <1>1, EncodedRoom
  <2> HIDE DEF o
  <2>4. o \in Nat
    BY <1>1 DEF o
  <2>5. {o, o + 1, o + 2, o + 3} \subseteq 0 .. OutputLength - 1
    BY <2>1, <2>2, <2>3, <2>4
  <2> QED
    BY <1>1, <2>4, <2>5 DEF Encoding, Roomy
<1> HIDE DEF o
<1>9. /\ memory'[o] = Encode64(Sextet(raw, o))
      /\ memory'[o + 1] = Encode64(Sextet(raw, o + 1))
      /\ memory'[o + 2] = Encode64(Sextet(raw, o + 2))
      /\ memory'[o + 3] = Encode64(Sextet(raw, o + 3))
    BY <1>2, <1>7, <1>8
<1>10. \A i \in 0 .. 3 : i \in {0, 1, 2, 3}
    OBVIOUS
<1>11. o + 0 = o
    BY <1>8
<1>12. ASSUME NEW i \in {0, 1, 2, 3} PROVE memory'[o + i] = Encode64(Sextet(raw, o + i))
    BY <1>9, <1>11
<1> QED
    BY <1>10, <1>12 DEF o

LEMMA EncodeGroupKeeps ==
    ASSUME Encoding, EncodeGroup
    PROVE  EncodesFrom'
<1> DEFINE o == 4 * groups
<1>1. /\ op' = op /\ raw' = raw /\ before' = before /\ input' = input /\ length' = length
      /\ groups' = groups + 1 /\ result' = NOT_YET /\ op = "encode"
    BY DEF EncodeGroup
<1>2. /\ groups \in Nat /\ length \in Nat /\ groups < length \div 3
      /\ Shape /\ EncodesFrom /\ Roomy
    BY DEF Encoding, ReadsFirst, Shape, EncodeGroup
<1>3. Writes(o .. o + 3)
    BY <1>2, EncodeGroupWrites
<1>4. \A i \in 0 .. 3 : memory'[o + i] = Encode64(Sextet(raw, o + i))
    BY EncodeGroupValues
<1>5. o \in Nat /\ 4 * (groups + 1) = o + 4 /\ length \div 3 \in Nat
    BY <1>2, EncodedRoom
<1>6. \A k \in 0 .. o - 1 : k \in DOMAIN memory
  <2>1. EncodedLength(length) \in Nat /\ o + 3 < EncodedLength(length)
    BY <1>2, GroupFits
  <2>2. OutputLength = EncodedLength(length)
    BY <1>1 DEF OutputLength
  <2>3. \A k \in 0 .. o - 1 : k \in 0 .. OutputLength - 1
    BY <1>5, <2>1, <2>2
  <2>4. DOMAIN memory = DOMAIN before
    BY <1>2 DEF Shape
  <2> QED
    BY <1>2, <2>3, <2>4 DEF Roomy
<1>7. \A k \in 0 .. o - 1 : memory[k] = Encode64(Sextet(raw, k))
    BY <1>1, <1>2 DEF EncodesFrom, EncodedTo
<1> HIDE DEF o
<1>8. ASSUME NEW k \in 0 .. (o + 4) - 1 PROVE memory'[k] = Encode64(Sextet(raw, k))
  <2>1. CASE k < o
    <3>1. k \in 0 .. o - 1 /\ k \notin o .. o + 3
      BY <1>5, <2>1
    <3> QED
      BY <1>3, <1>6, <1>7, <3>1 DEF Writes
  <2>2. CASE k >= o
    <3>1. PICK i \in 0 .. 3 : k = o + i
      <4>1. k - o \in 0 .. 3 /\ k = o + (k - o)
        BY <1>5, <2>2
      <4> QED
        BY <4>1
    <3> QED
      BY <1>4, <3>1
  <2> QED
    BY <1>5, <2>1, <2>2
<1>9. EncodedTo(4 * groups)'
    BY <1>1, <1>5, <1>8 DEF EncodedTo
<1>10. groups + 1 <= length \div 3
    BY <1>2, <1>5
<1> QED
    BY <1>1, <1>2, <1>9, <1>10 DEF EncodesFrom, NOT_YET

LEMMA EncodeRestKeeps ==
    ASSUME Encoding, EncodeRest
    PROVE  EncodesFrom'
<1> DEFINE g == groups
           o == 4 * groups
           pos == input + (3 * groups)
           rest == length % 3
           e == EncodedLength(length)
           a == ByteAt(raw, 3 * g)
           b == ByteAt(raw, (3 * g) + 1)
           c == ByteAt(raw, (3 * g) + 2)
           Right(k) == memory'[k] = Encode64(Sextet(raw, k))
<1>1. /\ op' = op /\ raw' = raw /\ before' = before /\ input' = input /\ length' = length
      /\ groups' = groups /\ result' = e /\ op = "encode" /\ result = NOT_YET
      /\ groups = length \div 3
    BY DEF EncodeRest
<1>2. /\ g \in Nat /\ length \in Nat /\ input \in Nat /\ Shape /\ EncodesFrom /\ Roomy
      /\ raw \in Seq(Byte) /\ length = Len(raw) /\ DOMAIN memory = DOMAIN before
    BY <1>1 DEF Encoding, ReadsFirst, Shape, EncodesFrom
<1>3. /\ a \in Byte /\ b \in Byte /\ c \in Byte
      /\ Sextet(raw, o) = a \div 4
      /\ Sextet(raw, o + 1) = ((a % 4) * 16) + (b \div 16)
      /\ Sextet(raw, o + 2) = ((b % 16) * 4) + (c \div 64)
    BY <1>2, SextetsAt
<1>4. /\ e = o + (IF rest = 0 THEN 0 ELSE rest + 1) /\ rest \in 0 .. 2
      /\ length = (3 * g) + rest /\ e \in Nat /\ o \in Nat
  <2>1. e = 4 * (length \div 3) + (IF rest = 0 THEN 0 ELSE rest + 1)
    BY <1>2, EncodedRoom
  <2>2. e \in Nat /\ rest \in 0 .. 2 /\ length = 3 * (length \div 3) + rest
    BY <1>2, EncodedRoom
  <2> HIDE DEF e, rest
  <2> QED
    BY <1>1, <1>2, <2>1, <2>2
<1>5. \A k \in 0 .. e - 1 : k \in DOMAIN memory
    BY <1>1, <1>2 DEF Roomy, OutputLength
<1>6. pos \in Nat /\ pos + 0 = pos /\ (3 * g) + 0 = 3 * g
    BY <1>2
<1>7. rest >= 1 => memory[pos] = a
  <2>1. ASSUME rest >= 1 PROVE memory[pos + 0] = ByteAt(raw, (3 * g) + 0)
    <3>1. (3 * g) + 0 < length
      BY <1>2, <1>4, <2>1
    <3> QED
      BY <1>1, <3>1, ReadsInput
  <2> QED
    BY <1>6, <2>1
<1>8. rest = 2 => memory[pos + 1] = b
  <2>1. ASSUME rest = 2 PROVE memory[pos + 1] = ByteAt(raw, (3 * g) + 1)
    <3>1. (3 * g) + 1 < length
      BY <1>2, <1>4, <2>1
    <3> QED
      BY <1>1, <3>1, ReadsInput
  <2> QED
    BY <2>1
<1>9. (rest = 2 => c = 0) /\ (rest = 1 => b = 0)
    BY <1>2, <1>4 DEF ByteAt
<1> HIDE DEF a, b, c, e
<1>10. Writes(o .. e - 1)
    BY <1>1, <1>2, EncodeRestWrites DEF e
<1>11. \A k \in 0 .. o - 1 : memory'[k] = Encode64(Sextet(raw, k))
  <2>1. \A k \in 0 .. o - 1 : memory[k] = Encode64(Sextet(raw, k))
    BY <1>1, <1>2 DEF EncodesFrom, EncodedTo
  <2>2. \A k \in 0 .. o - 1 : k \in DOMAIN memory /\ k \notin o .. e - 1
    BY <1>4, <1>5
  <2> QED
    BY <1>10, <2>1, <2>2 DEF Writes
<1>12. ASSUME rest = 2 /\ EncodeTwo(pos, o)
      PROVE  \A k \in o .. e - 1 : Right(k)
  <2> DEFINE value == (memory[pos] * 256 + memory[pos + 1]) * 4
  <2>1. memory' = [memory EXCEPT ![o + 2] = Encode64(value % 64),
                                 ![o + 1] = Encode64((value \div 64) % 64),
                                 ![o] = Encode64(value \div 4096)]
    BY <1>12 DEF EncodeTwo
  <2>2. value = ((a * 256) + b) * 4
    BY <1>4, <1>7, <1>8, <1>12
  <2> HIDE DEF value
  <2>3. /\ value \div 4096 = a \div 4
        /\ (value \div 64) % 64 = ((a % 4) * 16) + (b \div 16)
        /\ value % 64 = (b % 16) * 4
    BY <1>3, <2>2, TwoBytes
  <2>4. ((b % 16) * 4) + (c \div 64) = (b % 16) * 4
    BY <1>3, <1>9, <1>12 DEF Byte
  <2>5. e = o + 3
    BY <1>4, <1>12
  <2> HIDE DEF o, pos, rest
  <2>6. {o, o + 1, o + 2} \subseteq DOMAIN memory /\ o \in Nat
    BY <1>4, <1>5, <2>5
  <2>7. Right(o) /\ Right(o + 1) /\ Right(o + 2)
    BY <1>3, <2>1, <2>3, <2>4, <2>6
  <2>8. \A k \in o .. e - 1 : k \in {o, o + 1, o + 2}
    BY <2>5, <2>6
  <2> QED
    BY <2>7, <2>8
<1>13. ASSUME rest = 1 /\ EncodeOne(pos, o)
      PROVE  \A k \in o .. e - 1 : Right(k)
  <2> DEFINE value == memory[pos] * 16
  <2>1. memory' = [memory EXCEPT ![o + 1] = Encode64(value % 64),
                                 ![o] = Encode64(value \div 64)]
    BY <1>13 DEF EncodeOne
  <2>2. value = a * 16
    BY <1>4, <1>7, <1>13
  <2> HIDE DEF value
  <2>3. value \div 64 = a \div 4 /\ value % 64 = (a % 4) * 16
    BY <1>3, <2>2, OneByte
  <2>4. ((a % 4) * 16) + (b \div 16) = (a % 4) * 16
    BY <1>3, <1>9, <1>13 DEF Byte
  <2>5. e = o + 2
    BY <1>4, <1>13
  <2> HIDE DEF o, pos, rest
  <2>6. {o, o + 1} \subseteq DOMAIN memory /\ o \in Nat
    BY <1>4, <1>5, <2>5
  <2>7. Right(o) /\ Right(o + 1)
    BY <1>3, <2>1, <2>3, <2>4, <2>6
  <2>8. \A k \in o .. e - 1 : k \in {o, o + 1}
    BY <2>5, <2>6
  <2> QED
    BY <2>7, <2>8
<1>14. ASSUME rest = 0
      PROVE  \A k \in o .. e - 1 : Right(k)
    BY <1>4, <1>14
<1>15. \A k \in o .. e - 1 : Right(k)
    BY <1>12, <1>13, <1>14 DEF EncodeRest
<1>16. \A k \in 0 .. e - 1 : memory'[k] = Encode64(Sextet(raw, k))
    BY <1>4, <1>11, <1>15
<1>17. EncodedTo(4 * groups)' /\ EncodedTo(result)'
    BY <1>1, <1>11, <1>16 DEF EncodedTo
<1> QED
    BY <1>1, <1>2, <1>17 DEF EncodesFrom, e

LEMMA BoundedBytes ==
    ASSUME NEW seq \in BoundedSeq(Bytes, MaxLength)
    PROVE  seq \in Seq(Byte) /\ Len(seq) \in 0 .. MaxLength
<1>1. Len(seq) \in 0 .. MaxLength
    BY BoundedLength, Base64Assumption
<1>2. PICK m \in 0 .. MaxLength : seq \in [1 .. m -> Bytes]
    BY DEF BoundedSeq, SeqOf
<1>3. m \in Nat /\ seq \in [1 .. m -> Byte]
    BY <1>2, Base64Assumption
<1>4. seq \in Seq(Byte)
    BY <1>3
<1> QED
    BY <1>1, <1>4

LEMMA InitRoomy == Init => Roomy
<1> SUFFICES ASSUME Init PROVE Roomy
    OBVIOUS
<1>1. Shape
    BY InitShape
<1>2. length \in Nat /\ MaxLength \in Nat
    BY <1>1, Base64Assumption DEF Shape
<1>3. CASE op = "encode"
  <2>1. DOMAIN before = 0 .. (EncodedLength(length) + MaxLength + 1) - 1
    BY <1>3, MemoryShape DEF Init
  <2>2. EncodedLength(length) \in Nat
    BY <1>2, EncodedRoom
  <2>3. \A a \in 0 .. EncodedLength(length) - 1 :
            a \in 0 .. (EncodedLength(length) + MaxLength + 1) - 1
    BY <1>2, <2>2
  <2> QED
    BY <1>3, <2>1, <2>3 DEF Roomy, OutputLength
<1>4. CASE op = "decode"
  <2>1. DOMAIN before = 0 .. (length + 1) - 1
    BY <1>4, MemoryShape DEF Init
  <2>2. DecodedLength(length) = IF length % 4 = 1 THEN INVALID
            ELSE 3 * (length \div 4) + (IF length % 4 = 0 THEN 0 ELSE (length % 4) - 1)
    BY <1>2, DecodedRoom
  <2>3. /\ length \div 4 \in Nat /\ length % 4 \in 0 .. 3
        /\ length = 4 * (length \div 4) + (length % 4)
    BY <1>2, DecodedRoom
  <2>4. DecodedLength(length) \in Int /\ DecodedLength(length) <= length
    BY <1>2, <2>2, <2>3 DEF INVALID
  <2>5. \A a \in 0 .. DecodedLength(length) - 1 : a \in 0 .. (length + 1) - 1
    BY <1>2, <2>4
  <2>6. OutputLength = DecodedLength(length)
    BY <1>4 DEF OutputLength
  <2> QED
    BY <2>1, <2>5, <2>6 DEF Roomy
<1> QED
    BY <1>1, <1>3, <1>4 DEF Shape

LEMMA RoomyKept == Roomy /\ [Next]_vars => Roomy'
<1> SUFFICES ASSUME Roomy, [Next]_vars PROVE Roomy'
    OBVIOUS
<1>1. op' = op /\ length' = length /\ before' = before
    BY DEF Next, vars, EncodeGroup, EncodeRest, DecodeRefused, DecodeGroup, DecodeRest
<1> QED
    BY <1>1 DEF Roomy, OutputLength

LEMMA MemoryHolds ==
    ASSUME NEW bytes, NEW start \in Nat, NEW size \in Nat, Len(bytes) \in Nat,
           NEW i \in 0 .. Len(bytes) - 1, start + i \in 0 .. size - 1
    PROVE  MemoryWith(bytes, start, size)[start + i] = bytes[i + 1]
<1>1. start + i \in start .. (start + Len(bytes)) - 1 /\ (start + i) - start = i
    OBVIOUS
<1> QED
    BY <1>1 DEF MemoryWith

LEMMA InitEncodes ==
    ASSUME Init
    PROVE  EncodesFrom
<1> SUFFICES ASSUME op = "encode" PROVE EncodesFrom
    BY DEF EncodesFrom
<1>1. /\ Shape /\ groups = 0 /\ result = NOT_YET
      /\ raw \in BoundedSeq(Bytes, MaxLength) /\ length = Len(raw)
      /\ before = MemoryWith(raw, input, EncodedLength(length) + MaxLength + 1)
    BY InitShape DEF Init
<1>2. raw \in Seq(Byte) /\ length \in Nat /\ input \in Nat /\ MaxLength \in Nat
    BY <1>1, BoundedBytes, Base64Assumption DEF Shape
<1> DEFINE size == EncodedLength(length) + MaxLength + 1
<1>3. size \in Nat
  <2>1. EncodedLength(length) \in Nat
    BY <1>2, EncodedRoom
  <2> QED
    BY <1>2, <2>1
<1>4. DOMAIN before = 0 .. size - 1
    BY <1>1, MemoryShape
<1> HIDE DEF size
<1>5. ASSUME NEW i \in 0 .. length - 1 PROVE before[input + i] = raw[i + 1]
  <2>1. input + i \in 0 .. size - 1
    BY <1>1, <1>4 DEF Shape
  <2> QED
    BY <1>1, <1>2, <1>3, <2>1, MemoryHolds DEF size
<1>6. groups <= length \div 3 /\ EncodedTo(4 * groups)
  <2>1. length \div 3 \in Nat
    BY <1>2, EncodedRoom
  <2> QED
    BY <1>1, <2>1 DEF EncodedTo
<1> QED
    BY <1>1, <1>2, <1>5, <1>6 DEF EncodesFrom

LEMMA EncodesKept ==
    ASSUME Encoding, [Next]_vars
    PROVE  EncodesFrom'
<1>1. CASE EncodeGroup
    BY <1>1, EncodeGroupKeeps
<1>2. CASE EncodeRest
    BY <1>2, EncodeRestKeeps
<1>3. CASE UNCHANGED vars
    BY <1>3 DEF Encoding, EncodesFrom, EncodedTo, vars
<1>4. CASE DecodeRefused \/ DecodeGroup \/ DecodeRest
    BY <1>4 DEF EncodesFrom, DecodeRefused, DecodeGroup, DecodeRest
<1> QED
    BY <1>1, <1>2, <1>3, <1>4 DEF Next

Tuple(seq, n) == seq = [i \in 1 .. n |-> seq[i]]

LEMMA CellsAre ==
    ASSUME NEW m, NEW n \in Int, NEW seq, Tuple(seq, n),
           \A i \in 0 .. n - 1 : m[i] = seq[i + 1]
    PROVE  Cells(m, 0, n) = seq
<1>1. \A i \in 1 .. n : m[(0 + i) - 1] = seq[i]
  <2>1. ASSUME NEW i \in 1 .. n PROVE i - 1 \in 0 .. n - 1 /\ (i - 1) + 1 = i /\ (0 + i) - 1 = i - 1
    OBVIOUS
  <2> QED
    BY <2>1
<1> QED
    BY <1>1 DEF Cells, Tuple

(* What encode_base64() leaves where its output starts is the base64 of    *)
(* the bytes that it was given, for inputs of every length and any bytes,  *)
(* in place or not; nothing else is changed.                               *)
THEOREM EncodedIsBase64 ==
    ASSUME Places \subseteq {"end", "further", "clear"}
    PROVE  Spec => []EncodesItsInput
<1>1. Init => Encoding
    BY InitShape, InitAhead, InitRoomy, InitEncodes
    DEF Encoding, ReadsFirst, WritesWithin, UnreadIntact, OutsideUntouched
<1>2. Encoding /\ [Next]_vars => Encoding'
    BY AheadKept, WithinKept, RoomyKept, EncodesKept DEF Encoding
<1>3. Encoding => EncodesItsInput
  <2> SUFFICES ASSUME Encoding, op = "encode", result # NOT_YET
               PROVE  Cells(memory, 0, result) = AsBase64(raw) /\ OutsideUntouched
    BY DEF EncodesItsInput
  <2>1. /\ raw \in Seq(Byte) /\ length = Len(raw) /\ result = EncodedLength(length)
        /\ \A k \in 0 .. result - 1 : memory[k] = Encode64(Sextet(raw, k))
    BY DEF Encoding, EncodesFrom, EncodedTo
  <2>2. result \in Nat
    BY <2>1, EncodedRoom
  <2> DEFINE seq == AsBase64(raw)
  <2>3. seq = [k \in 1 .. result |-> Encode64(Sextet(raw, k - 1))]
    BY <2>1 DEF AsBase64
  <2>4. ASSUME NEW i \in 0 .. result - 1 PROVE memory[i] = seq[i + 1]
    <3>1. i + 1 \in 1 .. result /\ (i + 1) - 1 = i
      BY <2>2
    <3>2. seq[i + 1] = Encode64(Sextet(raw, (i + 1) - 1))
      BY <2>3, <3>1
    <3> QED
      BY <2>1, <3>1, <3>2
  <2>5. Tuple(seq, result)
    BY <2>3 DEF Tuple
  <2> HIDE DEF seq
  <2>6. Cells(memory, 0, result) = seq
    BY <2>2, <2>4, <2>5, CellsAre
  <2> QED
    BY <2>6 DEF Encoding, WritesWithin, seq
<1> QED
    BY <1>1, <1>2, <1>3, PTL DEF Spec

-----------------------------------------------------------------------------
(* decode_base64() of what encode_base64() has written.                    *)
LEMMA DecodesSix ==
    ASSUME NEW value \in 0 .. 63
    PROVE  Decode64(Encode64(value)) = value
<1>1. CASE value < 26
    BY <1>1 DEF Encode64, Decode64
<1>2. CASE value >= 26 /\ value < 52
    BY <1>2 DEF Encode64, Decode64
<1>3. CASE value >= 52 /\ value < 62
    BY <1>3 DEF Encode64, Decode64
<1>4. CASE value = 62
    BY <1>4 DEF Encode64, Decode64
<1>5. CASE value = 63
    BY <1>5 DEF Encode64, Decode64
<1> QED
    BY <1>1, <1>2, <1>3, <1>4, <1>5

LEMMA SixBitsEach ==
    ASSUME NEW a \in Byte, NEW b \in Byte, NEW c \in Byte
    PROVE  /\ a \div 4 \in 0 .. 63 /\ ((a % 4) * 16) + (b \div 16) \in 0 .. 63
           /\ ((b % 16) * 4) + (c \div 64) \in 0 .. 63 /\ c % 64 \in 0 .. 63
<1>1. a \div 4 \in 0 .. 63 /\ a % 4 \in 0 .. 3 /\ b \div 16 \in 0 .. 15
    BY DEF Byte
<1>2. b % 16 \in 0 .. 15 /\ c \div 64 \in 0 .. 3 /\ c % 64 \in 0 .. 63
    BY DEF Byte
<1> QED
    BY <1>1, <1>2

LEMMA AppendSix ==
    ASSUME NEW value \in Nat, NEW six \in 0 .. 63
    PROVE  Append64(value, six) = (value * 64) + six /\ Append64(value, six) \in Nat
BY DEF Append64

(* The length of an encoding gives the number of its bytes.                *)
LEMMA LengthsFit ==
    ASSUME NEW n \in Nat, NEW len, len = EncodedLength(n)
    PROVE  /\ len \in Nat /\ len \div 4 = n \div 3
           /\ len % 4 = (IF n % 3 = 0 THEN 0 ELSE (n % 3) + 1)
           /\ DecodedLength(len) = n
<1> DEFINE q == n \div 3
           r == n % 3
           rest == IF r = 0 THEN 0 ELSE r + 1
<1>1. q \in Nat /\ r \in 0 .. 2 /\ n = 3 * q + r
    BY EncodedRoom
<1>2. len = 4 * q + rest
    BY EncodedRoom
<1> HIDE DEF q, r
<1>3. rest \in {0, 2, 3}
    BY <1>1
<1>4. len \in Nat /\ len \div 4 = q /\ len % 4 = rest
    BY <1>1, <1>2, <1>3
<1>5. DecodedLength(len) = IF len % 4 = 1 THEN INVALID
          ELSE 3 * (len \div 4) + (IF len % 4 = 0 THEN 0 ELSE (len % 4) - 1)
    BY <1>4, DecodedRoom
<1>6. DecodedLength(len) = n
    BY <1>1, <1>3, <1>4, <1>5
<1> QED
    BY <1>4, <1>6 DEF q, r

DecodedTo(n) == \A i \in 0 .. n - 1 : memory[i] = raw[i + 1]

DecodesFrom ==
    op = "decode" /\ raw # NO_BYTES =>
        /\ raw \in Seq(Byte) /\ length = EncodedLength(Len(raw)) /\ input = 0
        /\ \A k \in 0 .. length - 1 : before[k] = Encode64(Sextet(raw, k))
        /\ groups <= length \div 4
        /\ DecodedTo(3 * groups)
        /\ result # NOT_YET => result = Len(raw) /\ DecodedTo(result)

Decoding ==
    /\ WritesWithin /\ Roomy
    /\ op = "decode" => ReadsFirst
    /\ DecodesFrom

LEMMA ReadsEncoding ==
    ASSUME Decoding, op = "decode", raw # NO_BYTES, result = NOT_YET,
           NEW i \in 0 .. 3, (4 * groups) + i < length
    PROVE  memory[(input + (4 * groups)) + i] = Encode64(Sextet(raw, (4 * groups) + i))
<1> DEFINE j == (4 * groups) + i
<1>1. /\ length \in Nat /\ groups \in Nat /\ input = 0 /\ UnreadIntact
      /\ \A k \in 0 .. length - 1 : before[k] = Encode64(Sextet(raw, k))
    BY DEF Decoding, ReadsFirst, Shape, DecodesFrom
<1>2. Read = 4 * groups
    BY DEF Read
<1>3. j \in Read .. length - 1 /\ j \in 0 .. length - 1 /\ (input + (4 * groups)) + i = input + j
      /\ input + j = j
    BY <1>1, <1>2
<1> HIDE DEF j
<1>4. memory[input + j] = before[input + j]
    BY <1>3, <1>1 DEF UnreadIntact
<1>5. before[j] = Encode64(Sextet(raw, j))
    BY <1>1, <1>3
<1> QED
    BY <1>3, <1>4, <1>5 DEF j

(* The four values behind the characters of a turn, and of the rest.       *)
LEMMA ReadsSextet ==
    ASSUME Decoding, op = "decode", raw # NO_BYTES, result = NOT_YET,
           NEW i \in 0 .. 3, (4 * groups) + i < length,
           Sextet(raw, (4 * groups) + i) \in 0 .. 63
    PROVE  Decode64(memory[(input + (4 * groups)) + i]) = Sextet(raw, (4 * groups) + i)
BY ReadsEncoding, DecodesSix

LEMMA DecodingShape ==
    ASSUME Decoding, op = "decode", raw # NO_BYTES
    PROVE  /\ groups \in Nat /\ length \in Nat /\ input = 0 /\ raw \in Seq(Byte) /\ Len(raw) \in Nat
           /\ length \div 4 = Len(raw) \div 3
           /\ length % 4 = (IF Len(raw) % 3 = 0 THEN 0 ELSE (Len(raw) % 3) + 1)
           /\ DecodedLength(length) = Len(raw)
           /\ length = 4 * (length \div 4) + (length % 4)
           /\ Len(raw) = 3 * (Len(raw) \div 3) + (Len(raw) % 3) /\ Len(raw) % 3 \in 0 .. 2
           /\ Len(raw) \div 3 \in Nat
           /\ \A i \in 0 .. Len(raw) - 1 : i \in DOMAIN memory
<1>1. /\ Shape /\ raw \in Seq(Byte) /\ length = EncodedLength(Len(raw)) /\ input = 0
    BY DEF Decoding, ReadsFirst, DecodesFrom
<1>2. Len(raw) \in Nat /\ groups \in Nat /\ length \in Nat
    BY <1>1 DEF Shape
<1>3. /\ length \div 4 = Len(raw) \div 3
      /\ length % 4 = (IF Len(raw) % 3 = 0 THEN 0 ELSE (Len(raw) % 3) + 1)
      /\ DecodedLength(length) = Len(raw)
    BY <1>1, <1>2, LengthsFit
<1>4. length = 4 * (length \div 4) + (length % 4)
    BY <1>2, DecodedRoom
<1>5. Len(raw) = 3 * (Len(raw) \div 3) + (Len(raw) % 3) /\ Len(raw) % 3 \in 0 .. 2
      /\ Len(raw) \div 3 \in Nat
    BY <1>2, EncodedRoom
<1>6. OutputLength = Len(raw) /\ DOMAIN memory = DOMAIN before
    BY <1>1, <1>3 DEF OutputLength, Shape
<1>7. \A i \in 0 .. Len(raw) - 1 : i \in DOMAIN memory
    BY <1>6 DEF Decoding, Roomy
<1> QED
    BY <1>1, <1>2, <1>3, <1>4, <1>5, <1>7

(* The bytes that four, three or two sextets stand for.                    *)
LEMMA Joined ==
    ASSUME NEW a \in Byte, NEW b \in Byte, NEW c \in Byte,
           NEW s, NEW t, NEW u, NEW v,
           s = a \div 4, t = ((a % 4) * 16) + (b \div 16),
           u = ((b % 16) * 4) + (c \div 64), v = c % 64
    PROVE  /\ (s * 64) + t = (a * 16) + (b \div 16)
           /\ (((s * 64) + t) * 64) + u = (a * 1024) + (b * 4) + (c \div 64)
           /\ (((((s * 64) + t) * 64) + u) * 64) + v = (a * 65536) + (b * 256) + c
<1>1. /\ a \in Int /\ b \in Int /\ c \in Int
      /\ a = (4 * (a \div 4)) + (a % 4) /\ b = (16 * (b \div 16)) + (b % 16)
      /\ c = (64 * (c \div 64)) + (c % 64)
    BY DEF Byte
<1>2. /\ a \div 4 \in Int /\ a % 4 \in Int /\ b \div 16 \in Int /\ b % 16 \in Int
      /\ c \div 64 \in Int /\ c % 64 \in Int
    BY DEF Byte
<1> DEFINE a1 == a \div 4
           a2 == a % 4
           b1 == b \div 16
           b2 == b % 16
           c1 == c \div 64
           c2 == c % 64
<1>3. /\ s = a1 /\ t = (a2 * 16) + b1 /\ u = (b2 * 4) + c1 /\ v = c2
    OBVIOUS
<1> HIDE DEF a1, a2, b1, b2, c1, c2
<1>4. a1 \in Int /\ a2 \in Int /\ b1 \in Int /\ b2 \in Int /\ c1 \in Int /\ c2 \in Int
    BY <1>2 DEF a1, a2, b1, b2, c1, c2
<1>5. a = (4 * a1) + a2 /\ b = (16 * b1) + b2 /\ c = (64 * c1) + c2
    BY <1>1 DEF a1, a2, b1, b2, c1, c2
<1>6. /\ (s * 64) + t = (a * 16) + b1
      /\ (((s * 64) + t) * 64) + u = (a * 1024) + (b * 4) + c1
      /\ (((((s * 64) + t) * 64) + u) * 64) + v = (a * 65536) + (b * 256) + c
    BY <1>1, <1>3, <1>4, <1>5
<1> QED
    BY <1>6 DEF b1, c1

LEMMA SplitThree ==
    ASSUME NEW a \in Byte, NEW b \in Byte, NEW c \in Byte, NEW value,
           value = (a * 65536) + (b * 256) + c
    PROVE  (value \div 65536) % 256 = a /\ (value \div 256) % 256 = b /\ value % 256 = c
<1>1. (value \div 65536) % 256 = a
    BY DEF Byte
<1>2. (value \div 256) % 256 = b
  <2>1. value \div 256 = (a * 256) + b
    BY DEF Byte
  <2> QED
    BY <2>1 DEF Byte
<1>3. value % 256 = c
    BY DEF Byte
<1> QED
    BY <1>1, <1>2, <1>3

LEMMA SplitTwo ==
    ASSUME NEW a \in Byte, NEW b \in Byte, NEW value,
           value = ((a * 1024) + (b * 4) + 0) \div 4
    PROVE  (value \div 256) % 256 = a /\ value % 256 = b
<1>1. value = (a * 256) + b
    BY DEF Byte
<1>2. (value \div 256) % 256 = a
    BY <1>1 DEF Byte
<1>3. value % 256 = b
    BY <1>1 DEF Byte
<1> QED
    BY <1>2, <1>3

LEMMA SplitOne ==
    ASSUME NEW a \in Byte, NEW value, value = ((a * 16) + 0) \div 16
    PROVE  value % 256 = a
BY DEF Byte

LEMMA DecodeGroupKeeps ==
    ASSUME Decoding, DecodeGroup
    PROVE  DecodesFrom'
<1> DEFINE g == groups
           o == 3 * groups
           pos == input + (4 * groups)
           a == ByteAt(raw, 3 * g)
           b == ByteAt(raw, (3 * g) + 1)
           c == ByteAt(raw, (3 * g) + 2)
           s == Sextet(raw, 4 * g)
           t == Sextet(raw, (4 * g) + 1)
           u == Sextet(raw, (4 * g) + 2)
           v == Sextet(raw, (4 * g) + 3)
           first == Append64(Decode64(memory[pos]), Decode64(memory[pos + 1]))
           second == Append64(first, Decode64(memory[pos + 2]))
           value == Append64(second, Decode64(memory[pos + 3]))
<1>1. /\ op = "decode" /\ result = NOT_YET /\ g < length \div 4
      /\ op' = op /\ raw' = raw /\ before' = before /\ input' = input /\ length' = length
      /\ groups' = g + 1 /\ result' = result
      /\ memory' = [memory EXCEPT ![o + 2] = value % 256,
                                  ![o + 1] = (value \div 256) % 256,
                                  ![o] = (value \div 65536) % 256]
    BY DEF DecodeGroup
<1> SUFFICES ASSUME raw # NO_BYTES PROVE DecodesFrom'
    BY <1>1 DEF DecodesFrom
<1>2. /\ g \in Nat /\ input = 0 /\ raw \in Seq(Byte) /\ Len(raw) \in Nat
      /\ length \div 4 = Len(raw) \div 3 /\ length \in Nat
      /\ length = 4 * (length \div 4) + (length % 4)
      /\ Len(raw) = 3 * (Len(raw) \div 3) + (Len(raw) % 3) /\ Len(raw) % 3 \in 0 .. 2
      /\ Len(raw) \div 3 \in Nat
      /\ \A i \in 0 .. Len(raw) - 1 : i \in DOMAIN memory
    BY <1>1, DecodingShape
<1>0. /\ g \in Nat /\ raw \in Seq(Byte) /\ Len(raw) \in Nat
      /\ \A i \in 0 .. Len(raw) - 1 : i \in DOMAIN memory
    BY <1>2
<1>3. /\ a \in Byte /\ b \in Byte /\ c \in Byte
      /\ s = a \div 4 /\ t = ((a % 4) * 16) + (b \div 16)
      /\ u = ((b % 16) * 4) + (c \div 64) /\ v = c % 64
    BY <1>0, SextetsAt
<1>4. (4 * g) + 3 < length /\ (3 * g) + 2 < Len(raw)
  <2> DEFINE q == length \div 4
             r == length % 4
             q3 == Len(raw) \div 3
             r3 == Len(raw) % 3
  <2>1. r \in 0 .. 3 /\ q = q3 /\ q3 \in Nat /\ r3 \in 0 .. 2 /\ g < q
    BY <1>1, <1>2, DecodedRoom
  <2>2. length = 4 * q + r /\ Len(raw) = 3 * q3 + r3
    BY <1>2
  <2> HIDE DEF q, r, q3, r3
  <2> QED
    BY <1>2, <2>1, <2>2
<1>5. s \in 0 .. 63 /\ t \in 0 .. 63 /\ u \in 0 .. 63 /\ v \in 0 .. 63
    BY <1>3, SixBitsEach
<1>6. /\ Decode64(memory[pos]) = s /\ Decode64(memory[pos + 1]) = t
      /\ Decode64(memory[pos + 2]) = u /\ Decode64(memory[pos + 3]) = v
  <2>1. pos + 0 = pos /\ (4 * g) + 0 = 4 * g
    BY <1>2
  <2>2. (4 * g) + 0 < length /\ (4 * g) + 1 < length /\ (4 * g) + 2 < length
    BY <1>2, <1>4
  <2>3. Decode64(memory[pos + 0]) = Sextet(raw, (4 * g) + 0)
    BY <1>1, <1>5, <2>1, <2>2, ReadsSextet
  <2>4. Decode64(memory[pos + 1]) = Sextet(raw, (4 * g) + 1)
    BY <1>1, <1>5, <2>2, ReadsSextet
  <2>5. Decode64(memory[pos + 2]) = Sextet(raw, (4 * g) + 2)
    BY <1>1, <1>5, <2>2, ReadsSextet
  <2>6. Decode64(memory[pos + 3]) = Sextet(raw, (4 * g) + 3)
    BY <1>1, <1>4, <1>5, ReadsSextet
  <2> QED
    BY <2>1, <2>3, <2>4, <2>5, <2>6
<1>7. value = (((((s * 64) + t) * 64) + u) * 64) + v
  <2> HIDE DEF s, t, u, v
  <2>0. s \in Nat
    BY <1>5
  <2>1. first = (s * 64) + t /\ first \in Nat
    BY <2>0, <1>5, <1>6, AppendSix
  <2>2. second = (first * 64) + u /\ second \in Nat
    BY <1>5, <1>6, <2>1, AppendSix
  <2>3. value = (second * 64) + v
    BY <1>5, <1>6, <2>2, AppendSix
  <2> HIDE DEF first, second, value
  <2> QED
    BY <2>1, <2>2, <2>3
<1> HIDE DEF a, b, c, s, t, u, v, value
<1>8. value = (a * 65536) + (b * 256) + c
    BY <1>3, <1>7, Joined
<1>9. (value \div 65536) % 256 = a /\ (value \div 256) % 256 = b /\ value % 256 = c
  <2>1. a \in Byte /\ b \in Byte /\ c \in Byte
    BY <1>3
  <2> QED
    BY <1>8, <2>1, SplitThree
<1>10. {o, o + 1, o + 2} \subseteq DOMAIN memory /\ o \in Nat
  <2>1. o \in Nat /\ o + 2 < Len(raw) /\ Len(raw) \in Nat
    BY <1>0, <1>4
  <2> HIDE DEF o
  <2>2. {o, o + 1, o + 2} \subseteq 0 .. Len(raw) - 1
    BY <2>1
  <2> QED
    BY <1>0, <2>1, <2>2
<1>11. a = raw[o + 1] /\ b = raw[(o + 1) + 1] /\ c = raw[(o + 2) + 1]
    BY <1>0, <1>4 DEF a, b, c, ByteAt
<1> HIDE DEF o
<1>12. memory'[o] = raw[o + 1] /\ memory'[o + 1] = raw[(o + 1) + 1]
       /\ memory'[o + 2] = raw[(o + 2) + 1]
    BY <1>1, <1>9, <1>10, <1>11
<1>13. \A i \in 0 .. o - 1 : memory[i] = raw[i + 1]
    BY <1>1 DEF DecodesFrom, DecodedTo, Decoding, o
<1>14. \A i \in 0 .. o - 1 : memory'[i] = raw[i + 1]
  <2>1. ASSUME NEW i \in 0 .. o - 1 PROVE memory'[i] = memory[i]
    <3>1. i \in DOMAIN memory
      <4>1. o \in Nat /\ o + 2 < Len(raw) /\ Len(raw) \in Nat
        BY <1>0, <1>4 DEF o
      <4>2. i \in 0 .. Len(raw) - 1
        BY <4>1
      <4> QED
        BY <1>0, <4>2
    <3>2. i # o /\ i # o + 1 /\ i # o + 2
      BY <1>10
    <3> QED
      BY <1>1, <3>1, <3>2
  <2> QED
    BY <1>13, <2>1
<1>15. ASSUME NEW i \in 0 .. (o + 3) - 1 PROVE memory'[i] = raw[i + 1]
  <2>1. i \in 0 .. o - 1 \/ i \in {o, o + 1, o + 2}
    BY <1>10
  <2> QED
    BY <1>12, <1>14, <2>1
<1>16. 3 * (g + 1) = o + 3
    BY <1>0 DEF o
<1>17. DecodedTo(3 * groups)'
  <2>1. \A i \in 0 .. (3 * (g + 1)) - 1 : memory'[i] = raw[i + 1]
    BY <1>15, <1>16
  <2>2. raw' = raw /\ groups' = g + 1
    BY <1>1
  <2> HIDE DEF g
  <2>3. \A i \in 0 .. (3 * (g + 1)) - 1 : memory'[i] = raw'[i + 1]
    BY <2>1, <2>2
  <2> QED
    BY <2>2, <2>3 DEF DecodedTo
<1>18. g + 1 <= length \div 4
    BY <1>1, <1>2
<1> QED
    BY <1>1, <1>17, <1>18 DEF DecodesFrom, Decoding

LEMMA DecodeRestKeeps ==
    ASSUME Decoding, DecodeRest
    PROVE  DecodesFrom'
<1> DEFINE g == groups
           o == 3 * groups
           n == Len(raw)
           pos == input + (4 * groups)
           rest == length % 4
           a == ByteAt(raw, 3 * g)
           b == ByteAt(raw, (3 * g) + 1)
           c == ByteAt(raw, (3 * g) + 2)
           s == Sextet(raw, 4 * g)
           t == Sextet(raw, (4 * g) + 1)
           u == Sextet(raw, (4 * g) + 2)
           first == Append64(Decode64(memory[pos]), Decode64(memory[pos + 1]))
           Right(i) == memory'[i] = raw[i + 1]
<1>1. /\ op = "decode" /\ result = NOT_YET /\ g = length \div 4
      /\ op' = op /\ raw' = raw /\ before' = before /\ input' = input /\ length' = length
      /\ groups' = g /\ result' = DecodedLength(length)
    BY DEF DecodeRest
<1> SUFFICES ASSUME raw # NO_BYTES PROVE DecodesFrom'
    BY <1>1 DEF DecodesFrom
<1>2. /\ g \in Nat /\ input = 0 /\ raw \in Seq(Byte) /\ n \in Nat
      /\ length \div 4 = n \div 3 /\ length \in Nat
      /\ rest = (IF n % 3 = 0 THEN 0 ELSE (n % 3) + 1)
      /\ DecodedLength(length) = n
      /\ length = 4 * (length \div 4) + rest
      /\ n = 3 * (n \div 3) + (n % 3) /\ n % 3 \in 0 .. 2
      /\ \A i \in 0 .. n - 1 : i \in DOMAIN memory
    BY <1>1, DecodingShape
<1>0. g \in Nat /\ raw \in Seq(Byte)
    BY <1>2
<1>3. /\ a \in Byte /\ b \in Byte /\ c \in Byte
      /\ s = a \div 4 /\ t = ((a % 4) * 16) + (b \div 16)
      /\ u = ((b % 16) * 4) + (c \div 64)
    BY <1>0, SextetsAt
<1>4. /\ length = (4 * g) + rest /\ o \in Nat
      /\ \/ rest = 0 /\ n = o
         \/ rest = 2 /\ n = o + 1
         \/ rest = 3 /\ n = o + 2
  <2> DEFINE r3 == n % 3
             q3 == n \div 3
  <2>1. g = q3 /\ r3 \in 0 .. 2 /\ rest = (IF r3 = 0 THEN 0 ELSE r3 + 1)
    BY <1>1, <1>2
  <2>2. length = 4 * g + rest /\ n = 3 * q3 + r3 /\ g \in Nat
    BY <1>1, <1>2
  <2> HIDE DEF n, rest, r3, q3
  <2> QED
    BY <2>1, <2>2
<1>5. s \in 0 .. 63 /\ t \in 0 .. 63 /\ u \in 0 .. 63
    BY <1>3, SixBitsEach
<1>6. /\ \A i \in 0 .. o - 1 : memory[i] = raw[i + 1]
      /\ raw \in Seq(Byte) /\ length = EncodedLength(Len(raw)) /\ input = 0
      /\ \A k \in 0 .. length - 1 : before[k] = Encode64(Sextet(raw, k))
      /\ groups <= length \div 4
    BY <1>1 DEF Decoding, DecodesFrom, DecodedTo
<1>7. rest >= 2 => first = (a * 16) + (b \div 16)
  <2> SUFFICES ASSUME rest >= 2 PROVE first = (a * 16) + (b \div 16)
    OBVIOUS
  <2>1. pos + 0 = pos /\ (4 * g) + 0 = 4 * g
    BY <1>2
  <2>2. (4 * g) + 0 < length /\ (4 * g) + 1 < length
    BY <1>2, <1>4
  <2>3. Decode64(memory[pos + 0]) = Sextet(raw, (4 * g) + 0)
    BY <1>1, <1>5, <2>1, <2>2, ReadsSextet
  <2>4. Decode64(memory[pos + 1]) = Sextet(raw, (4 * g) + 1)
    BY <1>1, <1>5, <2>2, ReadsSextet
  <2>5. Decode64(memory[pos]) = s /\ Decode64(memory[pos + 1]) = t
    BY <2>1, <2>3, <2>4
  <2> HIDE DEF s, t, a, b, c
  <2>6. s \in Nat
    BY <1>5
  <2>7. first = (s * 64) + t
    BY <1>5, <2>5, <2>6, AppendSix
  <2>8. (s * 64) + t = (a * 16) + (b \div 16)
    BY <1>3, Joined
  <2> QED
    BY <2>7, <2>8
<1>8. rest = 3 => Decode64(memory[pos + 2]) = u
  <2>1. (4 * g) + 2 < length <=> rest = 3
    BY <1>2, <1>4
  <2>2. rest = 3 => Decode64(memory[pos + 2]) = Sextet(raw, (4 * g) + 2)
    BY <1>1, <1>5, <2>1, ReadsSextet
  <2> QED
    BY <2>2
<1>9. /\ n = o + 1 => a = raw[o + 1] /\ b = 0
      /\ n = o + 2 => a = raw[o + 1] /\ b = raw[(o + 1) + 1] /\ c = 0
    BY <1>2 DEF ByteAt
<1>10. ASSUME rest = 3, DecodeThree(pos, o)
       PROVE  \A i \in 0 .. n - 1 : Right(i)
  <2> DEFINE second == Append64(first, Decode64(memory[pos + 2]))
             value == second \div 4
  <2>1. memory' = [memory EXCEPT ![o + 1] = value % 256, ![o] = (value \div 256) % 256]
    BY <1>10 DEF DecodeThree
  <2>2. n = o + 2
    BY <1>4, <1>10
  <2>3. c \div 64 = 0
    BY <1>9, <2>2
  <2>4. second = (a * 1024) + (b * 4) + 0
    <3> HIDE DEF a, b, c, s, t, u, first
    <3>1. first \in Nat
      <4>1. b \div 16 \in Nat /\ a \in Nat
        BY <1>3 DEF Byte
      <4> QED
        BY <1>7, <1>10, <4>1
    <3>2. second = (first * 64) + u
      BY <1>5, <1>8, <1>10, <3>1, AppendSix
    <3>3. /\ (s * 64) + t = (a * 16) + (b \div 16)
          /\ (((s * 64) + t) * 64) + u = (a * 1024) + (b * 4) + (c \div 64)
      BY <1>3, Joined
    <3>4. first = (s * 64) + t
      BY <1>7, <1>10, <3>3
    <3> QED
      BY <2>3, <3>2, <3>3, <3>4
  <2> HIDE DEF a, b, c, s, t, u, first, second
  <2>5. value = ((a * 1024) + (b * 4) + 0) \div 4
    BY <2>4
  <2> HIDE DEF value
  <2>6. (value \div 256) % 256 = a /\ value % 256 = b
    BY <1>3, <2>5, SplitTwo
  <2>7. {o, o + 1} \subseteq DOMAIN memory
    BY <1>2, <1>4, <2>2
  <2> HIDE DEF o, n
  <2>8. Right(o) /\ Right(o + 1)
    BY <1>4, <1>9, <2>1, <2>2, <2>6, <2>7
  <2>9. ASSUME NEW i \in 0 .. o - 1 PROVE Right(i)
    <3>1. i \in DOMAIN memory /\ i # o /\ i # o + 1
      BY <1>2, <1>4, <2>2
    <3> QED
      BY <1>6, <2>1, <3>1
  <2>10. \A i \in 0 .. n - 1 : i \in 0 .. o - 1 \/ i \in {o, o + 1}
    BY <1>4, <2>2
  <2> QED
    BY <2>8, <2>9, <2>10
<1>11. ASSUME rest = 2, DecodeTwo(pos, o)
       PROVE  \A i \in 0 .. n - 1 : Right(i)
  <2> DEFINE value == first \div 16
  <2>1. memory' = [memory EXCEPT ![o] = value % 256]
    BY <1>11 DEF DecodeTwo
  <2>2. n = o + 1
    BY <1>4, <1>11
  <2>3. b \div 16 = 0
    BY <1>9, <2>2
  <2> HIDE DEF a, b, c, s, t, u, first
  <2>4. value = ((a * 16) + 0) \div 16
    BY <1>7, <1>11, <2>3
  <2> HIDE DEF value
  <2>5. value % 256 = a
    BY <1>3, <2>4, SplitOne
  <2>6. o \in DOMAIN memory
    BY <1>2, <1>4, <2>2
  <2> HIDE DEF o, n
  <2>7. Right(o)
    BY <1>9, <2>1, <2>2, <2>5, <2>6
  <2>8. ASSUME NEW i \in 0 .. o - 1 PROVE Right(i)
    <3>1. i \in DOMAIN memory /\ i # o
      BY <1>2, <1>4, <2>2
    <3> QED
      BY <1>6, <2>1, <3>1
  <2>9. \A i \in 0 .. n - 1 : i \in 0 .. o - 1 \/ i = o
    BY <1>4, <2>2
  <2> QED
    BY <2>7, <2>8, <2>9
<1>12. ASSUME rest = 0, memory' = memory
       PROVE  \A i \in 0 .. n - 1 : Right(i)
    BY <1>4, <1>6, <1>12
<1>13. \A i \in 0 .. n - 1 : Right(i)
  <2>1. \/ rest = 3 /\ DecodeThree(pos, o)
        \/ rest = 2 /\ DecodeTwo(pos, o)
        \/ rest = 0 /\ memory' = memory
    BY DEF DecodeRest
  <2> QED
    BY <2>1, <1>10, <1>11, <1>12
<1>14. 3 * groups <= n
    BY <1>4
<1>15. DecodedTo(3 * groups)' /\ DecodedTo(result)'
  <2>1. \A i \in 0 .. o - 1 : i \in 0 .. n - 1
    BY <1>2, <1>4, <1>14
  <2>2. \A i \in 0 .. o - 1 : memory'[i] = raw[i + 1]
    BY <1>13, <2>1
  <2> QED
    BY <1>1, <1>2, <1>13, <2>2 DEF DecodedTo
<1> QED
    BY <1>1, <1>2, <1>6, <1>15 DEF DecodesFrom

LEMMA InitDecodes ==
    ASSUME Init
    PROVE  DecodesFrom
<1> SUFFICES ASSUME op = "decode", raw # NO_BYTES PROVE DecodesFrom
    BY DEF DecodesFrom
<1>1. /\ groups = 0 /\ result = NOT_YET /\ input = 0
      /\ raw \in BoundedSeq(Bytes, MaxLength) /\ length = EncodedLength(Len(raw))
      /\ before = MemoryWith(AsBase64(raw), 0, length + 1)
    BY DEF Init
<1>2. raw \in Seq(Byte) /\ Len(raw) \in Nat
    BY <1>1, BoundedBytes
<1>3. length \in Nat
    BY <1>1, <1>2, EncodedRoom
<1> DEFINE chars == AsBase64(raw)
<1>4. chars = [k \in 1 .. length |-> Encode64(Sextet(raw, k - 1))]
    BY <1>1 DEF AsBase64
<1>5. Len(chars) = length
    BY <1>3, <1>4
<1>6. ASSUME NEW k \in 0 .. length - 1 PROVE before[k] = Encode64(Sextet(raw, k))
  <2>1. 0 + k \in 0 .. (length + 1) - 1 /\ 0 + k = k /\ k + 1 \in 1 .. length /\ (k + 1) - 1 = k
        /\ length + 1 \in Nat
    BY <1>3
  <2>2. chars[k + 1] = Encode64(Sextet(raw, (k + 1) - 1))
    BY <1>4, <2>1
  <2> HIDE DEF chars
  <2> DEFINE size == length + 1
  <2>3. size \in Nat /\ 0 + k \in 0 .. size - 1
    BY <2>1
  <2>4. before = MemoryWith(chars, 0, size)
    BY <1>1 DEF chars
  <2> HIDE DEF size
  <2>5. MemoryWith(chars, 0, size)[0 + k] = chars[k + 1]
    BY <1>3, <1>5, <2>3, MemoryHolds
  <2> QED
    BY <2>1, <2>2, <2>4, <2>5
<1>7. groups <= length \div 4 /\ DecodedTo(3 * groups)
  <2>1. length \div 4 \in Nat
    BY <1>3, DecodedRoom
  <2> QED
    BY <1>1, <2>1 DEF DecodedTo
<1> QED
    BY <1>1, <1>2, <1>6, <1>7 DEF DecodesFrom

LEMMA DecodesKept ==
    ASSUME Decoding, [Next]_vars
    PROVE  DecodesFrom'
<1>1. CASE DecodeGroup
    BY <1>1, DecodeGroupKeeps
<1>2. CASE DecodeRest
    BY <1>2, DecodeRestKeeps
<1>3. CASE UNCHANGED vars
    BY <1>3 DEF Decoding, DecodesFrom, DecodedTo, vars
<1>4. CASE EncodeGroup \/ EncodeRest
    BY <1>4 DEF DecodesFrom, EncodeGroup, EncodeRest
<1>5. CASE DecodeRefused
  <2>1. /\ op = "decode" /\ DecodedLength(length) = INVALID /\ op' = op /\ raw' = raw
    BY <1>5 DEF DecodeRefused
  <2>2. ASSUME raw # NO_BYTES PROVE FALSE
    <3>1. DecodedLength(length) = Len(raw) /\ Len(raw) \in Nat
      BY <2>1, <2>2, DecodingShape
    <3> QED
      BY <2>1, <3>1 DEF INVALID
  <2> QED
    BY <2>1, <2>2 DEF DecodesFrom
<1> QED
    BY <1>1, <1>2, <1>3, <1>4, <1>5 DEF Next

(* decode_base64() of what encode_base64() wrote gives back the bytes that *)
(* were encoded, however many and whatever they are, in place; no encoding *)
(* is refused, and whatever the characters nothing is written behind the   *)
(* result.                                                                 *)
THEOREM DecodedIsWhatWasEncoded == Spec => []DecodesWhatWasEncoded
<1>1. Init => Decoding
  <2>1. Init => Shape /\ memory = before /\ groups = 0 /\ result = NOT_YET
    BY InitShape
  <2>2. Init => Roomy /\ DecodesFrom
    BY InitRoomy, InitDecodes
  <2> QED
    BY <2>1, <2>2 DEF Decoding, ReadsFirst, WritesWithin, Ahead, UnreadIntact, OutsideUntouched
<1>2. Decoding /\ [Next]_vars => Decoding'
  <2> SUFFICES ASSUME Decoding, [Next]_vars PROVE Decoding'
    OBVIOUS
  <2>1. op' = op
    BY DEF Next, vars, EncodeGroup, EncodeRest, DecodeRefused, DecodeGroup, DecodeRest
  <2>2. WritesWithin' /\ Roomy' /\ DecodesFrom'
    BY WithinKept, RoomyKept, DecodesKept DEF Decoding
  <2>3. op = "decode" => ReadsFirst'
    BY AheadKept DEF Decoding
  <2> QED
    BY <2>1, <2>2, <2>3 DEF Decoding
<1>3. Decoding => DecodesWhatWasEncoded
  <2> SUFFICES ASSUME Decoding, op = "decode", result # NOT_YET
               PROVE  /\ raw # NO_BYTES => result = Len(raw) /\ Cells(memory, 0, result) = raw
                      /\ OutsideUntouched
    BY DEF DecodesWhatWasEncoded
  <2>1. OutsideUntouched
    BY DEF Decoding, WritesWithin
  <2>2. ASSUME raw # NO_BYTES PROVE result = Len(raw) /\ Cells(memory, 0, result) = raw
    <3>1. /\ raw \in Seq(Byte) /\ result = Len(raw)
          /\ \A i \in 0 .. result - 1 : memory[i] = raw[i + 1]
      BY <2>2 DEF Decoding, DecodesFrom, DecodedTo
    <3>2. Tuple(raw, result) /\ result \in Int
      BY <3>1 DEF Tuple
    <3> QED
      BY <3>1, <3>2, CellsAre
  <2> QED
    BY <2>1, <2>2
<1> QED
    BY <1>1, <1>2, <1>3, PTL DEF Spec
=============================================================================
