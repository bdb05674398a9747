------------------------- MODULE MessageCodecProofs -------------------------
(***************************************************************************)
(* Proofs about MessageCodec, for every message, every bytes, and every    *)
(* width and length.  First recursion, for what the codec is made of is    *)
(* recursive; then integers, which are read as they were written and never *)
(* beyond the end; then a call of a reader.                                *)
(***************************************************************************)
EXTENDS MessageCodec, WellFoundedInduction, SequenceTheorems, TLAPS

-----------------------------------------------------------------------------
(* Induction and recursion.                                                *)

(* A set of numbers that has each one whose predecessors it has.           *)
LEMMA StrongInduction ==
    ASSUME NEW T, \A n \in Nat : (\A m \in Nat : m < n => m \in T) => n \in T
    PROVE  Nat \subseteq T
<1> SUFFICES ASSUME NEW n \in Nat, n \notin T PROVE FALSE
    OBVIOUS
<1> DEFINE U == {k \in Nat : k \notin T}
           R == OpToRel(<, Nat)
<1>1. IsWellFoundedOn(R, Nat)
    BY NatLessThanWellFounded
<1>2. U \in SUBSET Nat /\ U # {}
    OBVIOUS
<1> HIDE DEF R
<1>3. PICK x \in U : \A y \in U : ~(<<y, x>> \in R)
    BY <1>1, <1>2, WFMin
<1>4. ASSUME NEW y \in Nat, y < x PROVE y \in T
    <2> SUFFICES ASSUME y \notin T PROVE FALSE
        OBVIOUS
    <2>1. y \in U /\ x \in Nat
        OBVIOUS
    <2>2. <<y, x>> \in OpToRel(<, Nat)
        BY <2>1, <1>4 DEF OpToRel
    <2> QED
        BY <1>3, <2>1, <2>2 DEF R
<1> QED
    BY <1>4

LEMMA Induction ==
    ASSUME NEW T, 0 \in T, \A n \in Nat : n \in T => n + 1 \in T
    PROVE  Nat \subseteq T
<1>1. ASSUME NEW n \in Nat, \A m \in Nat : m < n => m \in T PROVE n \in T
    <2>1. CASE n = 0
        BY <2>1
    <2>2. CASE n # 0
        <3>1. n - 1 \in Nat /\ n - 1 < n /\ (n - 1) + 1 = n
            BY <2>2
        <3> QED
            BY <1>1, <3>1
    <2> QED
        BY <2>1, <2>2
<1> QED
    BY <1>1, StrongInduction

LEMMA BoundedInduction ==
    ASSUME NEW n \in Nat, NEW T, 0 \in T, \A i \in 1 .. n : i - 1 \in T => i \in T
    PROVE  0 .. n \subseteq T
<1> DEFINE U == {i \in Nat : i <= n => i \in T}
<1>1. 0 \in U
    OBVIOUS
<1>2. ASSUME NEW i \in Nat, i \in U PROVE i + 1 \in U
    <2> SUFFICES ASSUME i + 1 <= n PROVE i + 1 \in T
        OBVIOUS
    <2> DEFINE k == i + 1
    <2>1. k \in 1 .. n /\ k - 1 = i /\ i \in T
        BY <1>2
    <2> HIDE DEF k
    <2>2. k \in T
        BY <2>1
    <2> QED
        BY <2>2 DEF k
<1> HIDE DEF U
<1>3. Nat \subseteq U
    BY <1>1, <1>2, Induction
<1> QED
    BY <1>3 DEF U

(* The values of F from x on, up to n.                                     *)
Follows(f, n, F, x) ==
    /\ f[0] = x
    /\ \A i \in 1 .. n : f[i] = F[<<i, f[i - 1]>>]

LEMMA FollowsOnce ==
    ASSUME NEW F, NEW x, NEW f, NEW g, NEW n \in Nat, Follows(f, n, F, x), Follows(g, n, F, x)
    PROVE  \A i \in 0 .. n : f[i] = g[i]
<1> DEFINE T == {i \in Nat : i <= n => f[i] = g[i]}
<1>1. 0 \in T
    BY DEF Follows
<1>2. ASSUME NEW i \in Nat, i \in T PROVE i + 1 \in T
    <2> SUFFICES ASSUME i + 1 <= n PROVE f[i + 1] = g[i + 1]
        OBVIOUS
    <2> DEFINE k == i + 1
    <2>1. k \in 1 .. n /\ k - 1 = i /\ f[i] = g[i]
        BY <1>2
    <2> HIDE DEF k
    <2>2. f[k] = F[<<k, f[k - 1]>>] /\ g[k] = F[<<k, g[k - 1]>>]
        BY <2>1 DEF Follows
    <2> QED
        BY <2>1, <2>2 DEF k
<1> HIDE DEF T
<1>3. Nat \subseteq T
    BY <1>1, <1>2, Induction
<1> QED
    BY <1>3 DEF T

LEMMA FollowsExists ==
    ASSUME NEW S, NEW n \in Nat, NEW F, NEW x \in S,
           \A i \in 1 .. n, v \in S : F[<<i, v>>] \in S
    PROVE  \E f \in [0 .. n -> S] : Follows(f, n, F, x)
<1> DEFINE T == {m \in Nat : m <= n => \E f \in [0 .. m -> S] : Follows(f, m, F, x)}
<1>1. 0 \in T
    <2>1. [i \in 0 .. 0 |-> x] \in [0 .. 0 -> S]
        OBVIOUS
    <2>2. Follows([i \in 0 .. 0 |-> x], 0, F, x)
        BY DEF Follows
    <2> QED
        BY <2>1, <2>2
<1>2. ASSUME NEW m \in Nat, m \in T PROVE m + 1 \in T
    <2> SUFFICES ASSUME m + 1 <= n PROVE \E f \in [0 .. m + 1 -> S] : Follows(f, m + 1, F, x)
        OBVIOUS
    <2>1. PICK f \in [0 .. m -> S] : Follows(f, m, F, x)
        BY <1>2
    <2> DEFINE y == F[<<m + 1, f[m]>>]
               g == [i \in 0 .. m + 1 |-> IF i <= m THEN f[i] ELSE y]
    <2>2. y \in S
        <3>1. f[m] \in S /\ m + 1 \in 1 .. n
            BY <2>1
        <3> QED
            BY <3>1
    <2>3. \A i \in 0 .. m + 1 : g[i] = IF i <= m THEN f[i] ELSE y
        OBVIOUS
    <2>4. g \in [0 .. m + 1 -> S]
        <3>1. \A i \in 0 .. m + 1 : i <= m => f[i] \in S
            BY <2>1
        <3> HIDE DEF y
        <3> QED
            BY <2>2, <3>1
    <2> HIDE DEF g
    <2>5. g[0] = x
        BY <2>1, <2>3 DEF Follows
    <2>6. ASSUME NEW i \in 1 .. m + 1 PROVE g[i] = F[<<i, g[i - 1]>>]
        <3>1. i - 1 \in 0 .. m + 1 /\ i - 1 <= m
            OBVIOUS
        <3>2. g[i - 1] = f[i - 1]
            BY <2>3, <3>1
        <3>3. CASE i <= m
            <4>1. i \in 1 .. m /\ g[i] = f[i]
                BY <2>3, <3>3
            <4>2. f[i] = F[<<i, f[i - 1]>>]
                BY <2>1, <4>1 DEF Follows
            <4> QED
                BY <3>2, <4>1, <4>2
        <3>4. CASE i = m + 1
            <4>1. g[m + 1] = y /\ (m + 1) - 1 = m
                BY <2>3
            <4> QED
                BY <3>2, <3>4, <4>1
        <3> QED
            BY <3>3, <3>4
    <2> QED
        BY <2>4, <2>5, <2>6 DEF Follows
<1> HIDE DEF T
<1>3. Nat \subseteq T
    BY <1>1, <1>2, Induction
<1> QED
    BY <1>3 DEF T

-----------------------------------------------------------------------------
(* Integers.                                                               *)

LEMMA ByteNat == Byte \subseteq Nat
BY DEF Byte

(* Reading one from its last byte on.                                      *)
DecodeSteps(value, bytes, modulus) ==
    /\ value[0] = 0
    /\ \A n \in 1 .. Len(bytes) :
        value[n] = (value[n - 1] * 128 + (bytes[Len(bytes) + 1 - n] % 128)) % modulus

LEMMA DecodeRuns ==
    ASSUME NEW bytes \in Seq(Nat), NEW modulus \in Nat \ {0}
    PROVE  \E value \in [0 .. Len(bytes) -> Nat] :
                DecodeSteps(value, bytes, modulus) /\ VarintDecode(bytes, modulus) = value[Len(bytes)]
<1> DEFINE l == Len(bytes)
           B(n) == bytes[l + 1 - n] % 128
           E(n, v) == (v * 128 + B(n)) % modulus
           F == [p \in (1 .. l) \X Nat |-> E(p[1], p[2])]
           Is(g) == g = [n \in 0 .. l |-> IF n = 0 THEN 0 ELSE E(n, g[n - 1])]
           f == CHOOSE g : Is(g)
<1>1. l \in Nat
    OBVIOUS
<1>2. ASSUME NEW n \in 1 .. l, NEW v \in Nat PROVE E(n, v) \in Nat
    <2>1. bytes[l + 1 - n] \in Nat
        <3>1. l + 1 - n \in 1 .. l
            BY <1>1
        <3> QED
            BY <3>1
    <2>2. B(n) \in Nat
        BY <2>1
    <2> HIDE DEF B
    <2>3. v * 128 + B(n) \in Nat
        BY <2>2
    <2> QED
        BY <2>3
<1>3. \A n \in 1 .. l, v \in Nat : F[<<n, v>>] = E(n, v)
    OBVIOUS
<1> HIDE DEF E, F
<1>4. PICK h \in [0 .. l -> Nat] : Follows(h, l, F, 0)
    <2>1. \A i \in 1 .. l, v \in Nat : F[<<i, v>>] \in Nat
        BY <1>2, <1>3
    <2> HIDE DEF l
    <2> DEFINE zero == 0
    <2>2. zero \in Nat
        OBVIOUS
    <2> HIDE DEF zero
    <2>3. \E h \in [0 .. l -> Nat] : Follows(h, l, F, zero)
        BY <1>1, <2>1, <2>2, FollowsExists
    <2> QED
        BY <2>3 DEF zero
<1> HIDE DEF l
<1>5. Is(h)
    <2>1. h[0] = 0 /\ \A n \in 1 .. l : h[n] = F[<<n, h[n - 1]>>]
        BY <1>4 DEF Follows
    <2>2. ASSUME NEW n \in 1 .. l PROVE h[n] = E(n, h[n - 1])
        <3>1. h[n - 1] \in Nat
            BY <1>1, <1>4
        <3>2. h[n] = F[<<n, h[n - 1]>>]
            BY <2>1
        <3> QED
            BY <1>3, <3>1, <3>2
    <2>3. \A n \in 0 .. l : h[n] = IF n = 0 THEN 0 ELSE E(n, h[n - 1])
        BY <1>1, <2>1, <2>2
    <2>4. h = [n \in 0 .. l |-> h[n]]
        BY <1>4
    <2> QED
        BY <2>3, <2>4
<1>6. Is(f)
    <2> HIDE DEF Is
    <2> QED
        BY <1>5
<1> HIDE DEF f
<1>7. f = [n \in 0 .. l |-> IF n = 0 THEN 0 ELSE E(n, f[n - 1])]
    BY <1>6
<1> HIDE DEF Is
<1>8. DOMAIN f = 0 .. l /\ \A n \in 0 .. l : f[n] = IF n = 0 THEN 0 ELSE E(n, f[n - 1])
    BY <1>7
<1>9. f[0] = 0 /\ \A n \in 1 .. l : f[n] = E(n, f[n - 1])
    BY <1>1, <1>8
<1>10. \A n \in 0 .. l : f[n] \in Nat
    <2> DEFINE T == {n \in Nat : f[n] \in Nat}
    <2>1. 0 \in T
        BY <1>9
    <2>2. ASSUME NEW n \in 1 .. l, n - 1 \in T PROVE n \in T
        <3>1. f[n - 1] \in Nat /\ n \in Nat
            BY <1>1, <2>2
        <3>2. f[n] = E(n, f[n - 1])
            BY <1>9
        <3> QED
            BY <1>2, <3>1, <3>2
    <2> HIDE DEF T
    <2>3. 0 .. l \subseteq T
        BY <1>1, <2>1, <2>2, BoundedInduction
    <2> QED
        BY <2>3 DEF T
<1>11. f \in [0 .. l -> Nat]
    <2>1. f = [n \in 0 .. l |-> f[n]]
        BY <1>7, <1>8
    <2> QED
        BY <1>10, <2>1
<1>12. DecodeSteps(f, bytes, modulus)
    BY <1>9 DEF DecodeSteps, E, l
<1>13. VarintDecode(bytes, modulus) = f[l]
    BY DEF VarintDecode, f, Is, E, l
<1> QED
    BY <1>11, <1>12, <1>13 DEF l

LEMMA DecodeType ==
    ASSUME NEW bytes \in Seq(Nat), NEW modulus \in Nat \ {0}
    PROVE  VarintDecode(bytes, modulus) \in Nat
<1>1. PICK value \in [0 .. Len(bytes) -> Nat] : VarintDecode(bytes, modulus) = value[Len(bytes)]
    BY DecodeRuns
<1>2. Len(bytes) \in 0 .. Len(bytes)
    OBVIOUS
<1> QED
    BY <1>1, <1>2

LEMMA DecodeNothing ==
    ASSUME NEW bytes \in Seq(Nat), Len(bytes) = 0, NEW modulus \in Nat \ {0}
    PROVE  VarintDecode(bytes, modulus) = 0
<1>1. PICK value : DecodeSteps(value, bytes, modulus) /\ VarintDecode(bytes, modulus) = value[Len(bytes)]
    BY DecodeRuns
<1> QED
    BY <1>1 DEF DecodeSteps

(* The first byte is read last.                                            *)
IsRest(rest, bytes) ==
    Len(bytes) = Len(rest) + 1 /\ \A i \in 1 .. Len(rest) : bytes[i + 1] = rest[i]

LEMMA DecodeFirst ==
    ASSUME NEW bytes \in Seq(Nat), NEW rest \in Seq(Nat), NEW modulus \in Nat \ {0},
           IsRest(rest, bytes)
    PROVE  VarintDecode(bytes, modulus)
             = (VarintDecode(rest, modulus) * 128 + (bytes[1] % 128)) % modulus
<1> USE DEF IsRest
<1> DEFINE l == Len(rest)
<1>1. PICK v : DecodeSteps(v, bytes, modulus) /\ VarintDecode(bytes, modulus) = v[l + 1]
    BY DecodeRuns
<1>2. PICK w : DecodeSteps(w, rest, modulus) /\ VarintDecode(rest, modulus) = w[l]
    BY DecodeRuns
<1>3. l \in Nat
    OBVIOUS
<1>4. v[l] = w[l]
    <2> DEFINE T == {n \in Nat : v[n] = w[n]}
    <2>1. 0 \in T
        BY <1>1, <1>2 DEF DecodeSteps
    <2>2. ASSUME NEW n \in 1 .. l, n - 1 \in T PROVE n \in T
        <3> DEFINE k == l + 1 - n
        <3>1. k \in 1 .. l /\ n \in 1 .. l + 1 /\ v[n - 1] = w[n - 1]
            BY <1>3, <2>2
        <3>2. bytes[k + 1] = rest[k]
            BY <3>1
        <3>3. Len(bytes) + 1 - n = k + 1 /\ n \in 1 .. Len(bytes)
            BY <1>3
        <3>4. v[n] = (v[n - 1] * 128 + (bytes[k + 1] % 128)) % modulus
            BY <1>1, <3>3 DEF DecodeSteps
        <3>5. w[n] = (w[n - 1] * 128 + (rest[k] % 128)) % modulus
            BY <1>2 DEF DecodeSteps
        <3> HIDE DEF k, l
        <3> QED
            BY <1>3, <3>1, <3>2, <3>4, <3>5
    <2> HIDE DEF T, l
    <2>3. 0 .. l \subseteq T
        BY <1>3, <2>1, <2>2, BoundedInduction
    <2> QED
        BY <1>3, <2>3 DEF T
<1>5. v[l + 1] = (v[l] * 128 + (bytes[1] % 128)) % modulus
    <2> DEFINE k == l + 1
    <2>1. k \in 1 .. Len(bytes) /\ k - 1 = l /\ Len(bytes) + 1 - k = 1
        BY <1>3
    <2> HIDE DEF k, l
    <2>2. v[k] = (v[k - 1] * 128 + (bytes[Len(bytes) + 1 - k] % 128)) % modulus
        BY <1>1, <2>1 DEF DecodeSteps
    <2> QED
        BY <2>1, <2>2 DEF k
<1> HIDE DEF l
<1> QED
    BY <1>1, <1>2, <1>4, <1>5

(* A function of a number that is given by that of its higher digits.      *)
Digits(g, n, A, F) ==
    \A v \in 0 .. n : g[v] = IF v < 128 THEN A[v] ELSE F[<<v, g[v \div 128]>>]

LEMMA DigitsOnce ==
    ASSUME NEW A, NEW F, NEW g, NEW h, NEW m \in Nat, NEW n \in Nat,
           Digits(g, m, A, F), Digits(h, n, A, F)
    PROVE  \A v \in Nat : v <= m /\ v <= n => g[v] = h[v]
<1> DEFINE T == {v \in Nat : v <= m /\ v <= n => g[v] = h[v]}
<1>1. ASSUME NEW v \in Nat, \A u \in Nat : u < v => u \in T PROVE v \in T
    <2> SUFFICES ASSUME v <= m, v <= n PROVE g[v] = h[v]
        OBVIOUS
    <2>1. /\ g[v] = IF v < 128 THEN A[v] ELSE F[<<v, g[v \div 128]>>]
          /\ h[v] = IF v < 128 THEN A[v] ELSE F[<<v, h[v \div 128]>>]
        BY DEF Digits
    <2>2. CASE v < 128
        BY <2>1, <2>2
    <2>3. CASE ~(v < 128)
        <3> DEFINE u == v \div 128
        <3>1. u \in Nat /\ u < v
            BY <2>3
        <3> HIDE DEF u
        <3>2. g[u] = h[u]
            BY <1>1, <3>1
        <3> QED
            BY <2>1, <2>3, <3>2 DEF u
    <2> QED
        BY <2>2, <2>3
<1> HIDE DEF T
<1>2. Nat \subseteq T
    BY <1>1, StrongInduction
<1> QED
    BY <1>2 DEF T

LEMMA DigitsExist ==
    ASSUME NEW S, NEW A, NEW F, NEW n \in Nat,
           \A v \in Nat : A[v] \in S, \A v \in Nat, w \in S : F[<<v, w>>] \in S
    PROVE  \E g \in [0 .. n -> S] : Digits(g, n, A, F)
<1> DEFINE T == {m \in Nat : \E g \in [0 .. m -> S] : Digits(g, m, A, F)}
<1>1. 0 \in T
    <2> DEFINE g == [v \in 0 .. 0 |-> A[v]]
    <2>1. g \in [0 .. 0 -> S]
        OBVIOUS
    <2>2. Digits(g, 0, A, F)
        BY DEF Digits
    <2> QED
        BY <2>1, <2>2
<1>2. ASSUME NEW m \in Nat, m \in T PROVE m + 1 \in T
    <2>1. PICK f \in [0 .. m -> S] : Digits(f, m, A, F)
        BY <1>2
    <2> DEFINE k == m + 1
               y == IF k < 128 THEN A[k] ELSE F[<<k, f[k \div 128]>>]
               g == [v \in 0 .. k |-> IF v <= m THEN f[v] ELSE y]
    <2>2. k \in Nat /\ k > m
        OBVIOUS
    <2>3. \A v \in 0 .. k : ~(v < 128) => v \div 128 \in 0 .. m
        OBVIOUS
    <2>4. \A v \in 0 .. k : v \in 0 .. m \/ v = k
        OBVIOUS
    <2> HIDE DEF k
    <2>5. y \in S
        <3>1. k < 128 => A[k] \in S
            BY <2>2
        <3>2. ~(k < 128) => f[k \div 128] \in S
            BY <2>1, <2>2, <2>3
        <3>3. ~(k < 128) => F[<<k, f[k \div 128]>>] \in S
            BY <2>2, <3>2
        <3> QED
            BY <3>1, <3>3
    <2> HIDE DEF y
    <2>6. g \in [0 .. k -> S]
        BY <2>1, <2>4, <2>5
    <2>7. /\ \A v \in 0 .. m : g[v] = f[v]
          /\ g[k] = y
        BY <2>2
    <2> HIDE DEF g
    <2>8. ASSUME NEW v \in 0 .. k
          PROVE  g[v] = IF v < 128 THEN A[v] ELSE F[<<v, g[v \div 128]>>]
        <3>1. ~(v < 128) => g[v \div 128] = f[v \div 128]
            BY <2>3, <2>7
        <3>2. CASE v \in 0 .. m
            BY <2>1, <2>7, <3>1, <3>2 DEF Digits
        <3>3. CASE v = k
            BY <2>7, <3>1, <3>3 DEF y
        <3> QED
            BY <2>4, <3>2, <3>3
    <2>9. Digits(g, k, A, F)
        BY <2>8 DEF Digits
    <2> QED
        BY <2>6, <2>9 DEF k
<1> HIDE DEF T
<1>3. Nat \subseteq T
    BY <1>1, <1>2, Induction
<1> QED
    BY <1>3 DEF T

DigitsWithin(S, A, F) ==
    /\ \A v \in Nat : A[v] \in S
    /\ \A v \in Nat, w \in S : F[<<v, w>>] \in S

LEMMA DigitsRecursion ==
    ASSUME NEW S, NEW A, NEW F, DigitsWithin(S, A, F)
    PROVE  \E g \in [Nat -> S] :
              \A v \in Nat : g[v] = IF v < 128 THEN A[v] ELSE F[<<v, g[v \div 128]>>]
<1> DEFINE G(n) == CHOOSE f \in [0 .. n -> S] : Digits(f, n, A, F)
           g == [n \in Nat |-> G(n)[n]]
<1>1. ASSUME NEW n \in Nat
      PROVE  G(n) \in [0 .. n -> S] /\ Digits(G(n), n, A, F)
    BY DigitsExist DEF DigitsWithin
<1> HIDE DEF G
<1>2. g \in [Nat -> S]
    BY <1>1
<1>3. ASSUME NEW v \in Nat
      PROVE  g[v] = IF v < 128 THEN A[v] ELSE F[<<v, g[v \div 128]>>]
    <2>1. G(v)[v] = IF v < 128 THEN A[v] ELSE F[<<v, G(v)[v \div 128]>>]
        <3>1. Digits(G(v), v, A, F)
            BY <1>1
        <3> QED
            BY <3>1 DEF Digits
    <2>2. CASE v < 128
        BY <2>1, <2>2
    <2>3. CASE ~(v < 128)
        <3> DEFINE u == v \div 128
        <3>1. u \in Nat /\ u <= v /\ u <= u
            OBVIOUS
        <3> HIDE DEF u
        <3>2. Digits(G(v), v, A, F) /\ Digits(G(u), u, A, F)
            BY <1>1, <3>1
        <3>3. G(v)[u] = G(u)[u]
            BY <3>1, <3>2, DigitsOnce
        <3>4. g[u] = G(u)[u] /\ g[v] = G(v)[v]
            BY <3>1
        <3> HIDE DEF g
        <3> QED
            BY <2>1, <2>3, <3>3, <3>4 DEF u
    <2> QED
        BY <2>2, <2>3
<1> HIDE DEF g
<1> QED
    BY <1>2, <1>3

LEMMA EncodeRuns ==
    /\ varint_encode \in [Nat -> Seq(Byte)]
    /\ \A v \in Nat : varint_encode[v] = IF v < 128 THEN <<v>>
                                         ELSE <<128 + (v % 128)>> \o varint_encode[v \div 128]
<1> DEFINE S == Seq(Byte)
           A == [v \in Nat |-> IF v < 128 THEN <<v>> ELSE <<>>]
           F == [p \in Nat \X S |-> <<128 + (p[1] % 128)>> \o p[2]]
           Is(g) == g = [v \in Nat |-> IF v < 128 THEN <<v>>
                                       ELSE <<128 + (v % 128)>> \o g[v \div 128]]
<1>1. ASSUME NEW v \in Nat PROVE A[v] \in S /\ (v < 128 => A[v] = <<v>>)
    <2>1. v < 128 => v \in Byte
        BY DEF Byte
    <2>2. v < 128 => <<v>> \in S
        BY <2>1
    <2>3. A[v] = IF v < 128 THEN <<v>> ELSE <<>>
        OBVIOUS
    <2> QED
        BY <2>2, <2>3
<1>2. ASSUME NEW v \in Nat, NEW w \in S
      PROVE  F[<<v, w>>] = <<128 + (v % 128)>> \o w /\ F[<<v, w>>] \in S
    <2>1. 128 + (v % 128) \in Byte
        BY DEF Byte
    <2>2. <<128 + (v % 128)>> \in S
        BY <2>1
    <2>3. <<128 + (v % 128)>> \o w \in S
        BY <2>2
    <2>4. <<v, w>> \in Nat \X S /\ <<v, w>>[1] = v /\ <<v, w>>[2] = w
        OBVIOUS
    <2> HIDE DEF S
    <2> QED
        BY <2>3, <2>4
<1> HIDE DEF S, A, F
<1>3. PICK g \in [Nat -> S] :
        \A v \in Nat : g[v] = IF v < 128 THEN A[v] ELSE F[<<v, g[v \div 128]>>]
    <2>1. DigitsWithin(S, A, F)
        BY <1>1, <1>2 DEF DigitsWithin
    <2> QED
        BY <2>1, DigitsRecursion
<1>4. ASSUME NEW v \in Nat PROVE v \div 128 \in Nat
    OBVIOUS
<1>5. Is(g)
    <2>1. ASSUME NEW v \in Nat
          PROVE  g[v] = IF v < 128 THEN <<v>> ELSE <<128 + (v % 128)>> \o g[v \div 128]
        <3> DEFINE q == v \div 128
        <3>1. q \in Nat
            BY <1>4
        <3> HIDE DEF q
        <3>2. g[q] \in S
            BY <1>3, <3>1
        <3>3. F[<<v, g[q]>>] = <<128 + (v % 128)>> \o g[q]
            BY <1>2, <3>2
        <3>4. g[v] = IF v < 128 THEN A[v] ELSE F[<<v, g[q]>>]
            BY <1>3 DEF q
        <3>5. v < 128 => A[v] = <<v>>
            BY <1>1
        <3> QED
            BY <3>3, <3>4, <3>5 DEF q
    <2>2. g = [v \in Nat |-> g[v]]
        BY <1>3
    <2> QED
        BY <2>1, <2>2
<1>6. varint_encode = CHOOSE h : Is(h)
    BY DEF varint_encode
<1> HIDE DEF Is
<1>7. Is(varint_encode)
    BY <1>5, <1>6
<1>8. /\ varint_encode = [v \in Nat |-> varint_encode[v]]
      /\ \A v \in Nat : varint_encode[v] = IF v < 128 THEN <<v>>
                                           ELSE <<128 + (v % 128)>> \o varint_encode[v \div 128]
    BY <1>7 DEF Is
<1>9. \A v \in Nat : varint_encode[v] \in S
    <2> DEFINE T == {v \in Nat : varint_encode[v] \in S}
    <2>1. ASSUME NEW v \in Nat, \A u \in Nat : u < v => u \in T PROVE v \in T
        <3>1. CASE v < 128
            <4>1. varint_encode[v] = <<v>>
                BY <1>8, <3>1
            <4>2. A[v] = <<v>> /\ A[v] \in S
                BY <1>1, <3>1
            <4> QED
                BY <4>1, <4>2
        <3>2. CASE ~(v < 128)
            <4> DEFINE u == v \div 128
            <4>1. u \in Nat /\ u < v
                BY <3>2
            <4>2. varint_encode[v] = <<128 + (v % 128)>> \o varint_encode[u]
                BY <1>8, <3>2
            <4> HIDE DEF u
            <4>3. varint_encode[u] \in S
                BY <2>1, <4>1
            <4>4. /\ F[<<v, varint_encode[u]>>] = <<128 + (v % 128)>> \o varint_encode[u]
                  /\ F[<<v, varint_encode[u]>>] \in S
                BY <1>2, <4>3
            <4> QED
                BY <4>2, <4>4
        <3> QED
            BY <3>1, <3>2
    <2> HIDE DEF T
    <2>2. Nat \subseteq T
        BY <2>1, StrongInduction
    <2> QED
        BY <2>2 DEF T
<1> QED
    BY <1>8, <1>9 DEF S

LEMMA LengthRuns ==
    \A v \in Nat : varint_length[v] = IF v < 128 THEN 1 ELSE 1 + varint_length[v \div 128]
<1> DEFINE A == [v \in Nat |-> 1]
           F == [p \in Nat \X Nat |-> 1 + p[2]]
           Is(g) == g = [v \in Nat |-> IF v < 128 THEN 1 ELSE 1 + g[v \div 128]]
<1>1. /\ \A v \in Nat : A[v] = 1
      /\ \A v \in Nat, w \in Nat : F[<<v, w>>] = 1 + w
    OBVIOUS
<1> HIDE DEF A, F
<1>2. PICK g \in [Nat -> Nat] :
        \A v \in Nat : g[v] = IF v < 128 THEN A[v] ELSE F[<<v, g[v \div 128]>>]
    <2>1. \A v \in Nat : A[v] \in Nat
        BY <1>1
    <2>2. ASSUME NEW v \in Nat, NEW w \in Nat PROVE F[<<v, w>>] \in Nat
        <3>1. F[<<v, w>>] = 1 + w
            BY <1>1
        <3> QED
            BY <3>1
    <2>3. DigitsWithin(Nat, A, F)
        BY <2>1, <2>2 DEF DigitsWithin
    <2> QED
        BY <2>3, DigitsRecursion
<1>3. Is(g)
    <2>1. ASSUME NEW v \in Nat PROVE g[v] = IF v < 128 THEN 1 ELSE 1 + g[v \div 128]
        <3>1. v \div 128 \in Nat
            OBVIOUS
        <3>2. g[v \div 128] \in Nat
            BY <1>2, <3>1
        <3>3. F[<<v, g[v \div 128]>>] = 1 + g[v \div 128] /\ A[v] = 1
            BY <1>1, <3>2
        <3>4. g[v] = IF v < 128 THEN A[v] ELSE F[<<v, g[v \div 128]>>]
            BY <1>2
        <3> QED
            BY <3>3, <3>4
    <2>2. g = [v \in Nat |-> g[v]]
        BY <1>2
    <2> QED
        BY <2>1, <2>2
<1>4. varint_length = CHOOSE h : Is(h)
    BY DEF varint_length
<1> HIDE DEF Is
<1>5. Is(varint_length)
    BY <1>3, <1>4
<1> QED
    BY <1>5 DEF Is

(* A longer one is the byte of its lowest digit, before the others.        *)
LEMMA EncodeLonger ==
    ASSUME NEW v \in Nat, v >= 128
    PROVE  /\ Len(varint_encode[v]) = Len(varint_encode[v \div 128]) + 1
           /\ varint_encode[v][1] = 128 + (v % 128)
           /\ \A i \in 1 .. Len(varint_encode[v \div 128]) :
                varint_encode[v][i + 1] = varint_encode[v \div 128][i]
<1> DEFINE r == varint_encode[v \div 128]
           b == 128 + (v % 128)
<1>1. varint_encode[v] = <<b>> \o r /\ r \in Seq(Byte) /\ b \in Nat
    <2>1. ~(v < 128) /\ v \div 128 \in Nat /\ b \in Nat
        OBVIOUS
    <2>2. varint_encode[v \div 128] \in Seq(Byte)
        BY <2>1, EncodeRuns
    <2>3. varint_encode[v] = <<128 + (v % 128)>> \o varint_encode[v \div 128]
        BY <2>1, EncodeRuns
    <2> QED
        BY <2>1, <2>2, <2>3
<1> HIDE DEF r, b
<1>2. <<b>> \in Seq(Nat) /\ Len(<<b>>) = 1 /\ <<b>>[1] = b /\ r \in Seq(Nat)
    <2>2. r \in Seq(Nat)
        BY <1>1, ByteNat, SeqMonotonic
    <2> QED
        BY <1>1, <2>2
<1>3. /\ Len(<<b>> \o r) = 1 + Len(r)
      /\ \A i \in 1 .. 1 + Len(r) : (<<b>> \o r)[i] = IF i <= 1 THEN <<b>>[i] ELSE r[i - 1]
    BY <1>2, ConcatProperties
<1>4. Len(r) \in Nat
    BY <1>1
<1>5. ASSUME NEW i \in 1 .. Len(r) PROVE (<<b>> \o r)[i + 1] = r[i]
    BY <1>3, <1>4
<1>6. (<<b>> \o r)[1] = b
    BY <1>2, <1>3, <1>4
<1> QED
    BY <1>1, <1>3, <1>4, <1>5, <1>6 DEF r, b

(* An integer ends with its first byte below 128, and is as long as        *)
(* varint_length() says.                                                   *)
LEMMA EncodedShape ==
    ASSUME NEW v \in Nat
    PROVE  /\ varint_encode[v] \in Seq(Byte)
           /\ Len(varint_encode[v]) \in Nat \ {0}
           /\ Len(varint_encode[v]) = varint_length[v]
           /\ IsVarint(varint_encode[v], 0, Len(varint_encode[v]))
<1> DEFINE Shape(e, l) ==
                /\ Len(e) \in Nat \ {0} /\ Len(e) = l
                /\ e[Len(e)] < 128
                /\ \A i \in 1 .. Len(e) - 1 : e[i] >= 128
           T == {u \in Nat : Shape(varint_encode[u], varint_length[u])}
<1>1. ASSUME NEW u \in Nat, \A t \in Nat : t < u => t \in T PROVE u \in T
    <2> DEFINE e == varint_encode[u]
    <2>1. CASE u < 128
        <3>1. e = <<u>> /\ varint_length[u] = 1
            BY <2>1, EncodeRuns, LengthRuns
        <3>2. Len(<<u>>) = 1 /\ <<u>>[1] = u
            OBVIOUS
        <3> HIDE DEF e
        <3>3. Shape(e, varint_length[u])
            BY <2>1, <3>1, <3>2
        <3> QED
            BY <3>3 DEF e
    <2>2. CASE ~(u < 128)
        <3> DEFINE t == u \div 128
                   r == varint_encode[t]
        <3>1. t \in Nat /\ t < u /\ u >= 128
            BY <2>2
        <3>2. varint_length[u] = 1 + varint_length[t]
            BY <2>2, LengthRuns
        <3>3. /\ Len(e) = Len(r) + 1
              /\ e[1] = 128 + (u % 128)
              /\ \A i \in 1 .. Len(r) : e[i + 1] = r[i]
            BY <3>1, EncodeLonger
        <3>4. e[1] >= 128
            BY <3>3
        <3> HIDE DEF t
        <3>5. Shape(r, varint_length[t])
            BY <1>1, <3>1
        <3> HIDE DEF e, r
        <3>6. Len(e) \in Nat \ {0} /\ Len(e) = varint_length[u] /\ e[Len(e)] < 128
            BY <3>2, <3>3, <3>5
        <3>7. ASSUME NEW i \in 1 .. Len(e) - 1 PROVE e[i] >= 128
            <4>1. CASE i = 1
                BY <3>4, <4>1
            <4>2. CASE i # 1
                <5> DEFINE j == i - 1
                <5>2. Len(r) \in Nat /\ Len(e) = Len(r) + 1
                    BY <3>3, <3>5
                <5>1. j \in 1 .. Len(r) - 1 /\ i = j + 1 /\ j \in 1 .. Len(r)
                    BY <5>2, <4>2
                <5> HIDE DEF j
                <5> QED
                    BY <3>3, <3>5, <5>1
            <4> QED
                BY <4>1, <4>2
        <3>8. Shape(e, varint_length[u])
            BY <3>6, <3>7
        <3> QED
            BY <3>8 DEF e
    <2> QED
        BY <2>1, <2>2
<1> HIDE DEF T
<1>2. v \in T
    BY <1>1, StrongInduction
<1>3. Shape(varint_encode[v], varint_length[v])
    BY <1>2 DEF T
<1> QED
    BY <1>3, EncodeRuns DEF IsVarint

(* b is the beginning of e.                                                *)
Begins(b, e) == Len(b) <= Len(e) /\ \A i \in 1 .. Len(b) : b[i] = e[i]

PrefixRead(v, b, modulus) ==
    /\ VarintDecode(b, modulus) <= v
    /\ Len(b) = Len(varint_encode[v]) => VarintDecode(b, modulus) = v
    /\ Len(b) < Len(varint_encode[v]) /\ VarintDecode(b, modulus) = 0 =>
        \A i \in 1 .. Len(b) : b[i] = 128

LEMMA PrefixOfDigit ==
    ASSUME NEW modulus \in Nat \ {0}, NEW v \in Nat, v < 128, v < modulus,
           NEW b \in Seq(Nat), Begins(b, varint_encode[v]), Len(b) # 0
    PROVE  PrefixRead(v, b, modulus)
<1>1. Len(varint_encode[v]) = 1 /\ varint_encode[v][1] = v
    <2>1. varint_encode[v] = <<v>>
        BY EncodeRuns
    <2> QED
        BY <2>1
<1>2. Len(b) = 1 /\ b[1] = v
    <2> DEFINE n == Len(b)
    <2>1. n <= 1 /\ n \in Nat /\ n # 0
        BY <1>1 DEF Begins
    <2> HIDE DEF n
    <2>2. n = 1
        BY <2>1
    <2> QED
        BY <1>1, <2>2 DEF n, Begins
<1> DEFINE rest == <<>>
<1>3. rest \in Seq(Nat) /\ Len(rest) = 0
    OBVIOUS
<1> HIDE DEF rest
<1>4. VarintDecode(rest, modulus) = 0
    BY <1>3, DecodeNothing
<1>5. VarintDecode(b, modulus) = (VarintDecode(rest, modulus) * 128 + (b[1] % 128)) % modulus
    <2>1. IsRest(rest, b)
        BY <1>2, <1>3 DEF IsRest
    <2>2. rest \in Seq(Nat)
        BY <1>3
    <2> QED
        BY <2>1, <2>2, DecodeFirst
<1>6. v % 128 = v /\ v % modulus = v /\ 0 * 128 + v = v
    OBVIOUS
<1>7. VarintDecode(b, modulus) = v
    BY <1>2, <1>4, <1>5, <1>6
<1> QED
    BY <1>1, <1>2, <1>7 DEF PrefixRead

LEMMA PrefixOfDigits ==
    ASSUME NEW modulus \in Nat \ {0}, NEW v \in Nat, v >= 128, v < modulus,
           NEW b \in Seq(Nat), Begins(b, varint_encode[v]), Len(b) # 0,
           \A r \in Seq(Nat) : Begins(r, varint_encode[v \div 128]) =>
                                    PrefixRead(v \div 128, r, modulus)
    PROVE  PrefixRead(v, b, modulus)
<1> DEFINE t == v \div 128
           c == v % 128
           e == varint_encode[v]
           f == varint_encode[t]
           r == Tail(b)
<1>1. t \in Nat /\ c \in 0 .. 127 /\ v = t * 128 + c
    <2>1. t \in Nat
        OBVIOUS
    <2>2. c \in 0 .. 127
        OBVIOUS
    <2>3. v = t * 128 + c
        OBVIOUS
    <2> QED
        BY <2>1, <2>2, <2>3
<1>2. Len(e) = Len(f) + 1 /\ e[1] = 128 + c /\ \A i \in 1 .. Len(f) : e[i + 1] = f[i]
    BY EncodeLonger
<1>3. Len(e) \in Nat /\ Len(f) \in Nat
    BY <1>1, EncodedShape
<1>4. r \in Seq(Nat) /\ Len(b) = Len(r) + 1 /\ \A i \in 1 .. Len(r) : b[i + 1] = r[i]
    BY HeadTailProperties
<1>5. Len(b) <= Len(e) /\ \A i \in 1 .. Len(b) : b[i] = e[i]
    BY DEF Begins
<1>6. \A s \in Seq(Nat) : Begins(s, f) => PrefixRead(t, s, modulus)
    OBVIOUS
<1> HIDE DEF c, e, r, t
<1>7. Begins(r, f)
    <2> HIDE DEF f
    <2>1. Len(r) <= Len(f)
        BY <1>2, <1>3, <1>4, <1>5
    <2>2. ASSUME NEW i \in 1 .. Len(r) PROVE r[i] = f[i]
        <3>1. i + 1 \in 1 .. Len(b) /\ i \in 1 .. Len(f)
            BY <1>3, <1>4, <2>1
        <3> QED
            BY <1>2, <1>4, <1>5, <3>1
    <2> QED
        BY <2>1, <2>2 DEF Begins
<1>8. PrefixRead(t, r, modulus)
    BY <1>4, <1>6, <1>7
<1> DEFINE d == VarintDecode(r, modulus)
<1>9. d \in Nat
    BY <1>4, DecodeType
<1>10. /\ d <= t
       /\ Len(r) = Len(f) => d = t
       /\ Len(r) < Len(f) /\ d = 0 => \A i \in 1 .. Len(r) : r[i] = 128
    BY <1>8 DEF PrefixRead
<1>11. b[1] = 128 + c
    <2>1. 1 \in 1 .. Len(b)
        BY <1>4
    <2> QED
        BY <1>2, <1>5, <2>1
<1>12. VarintDecode(b, modulus) = (d * 128 + (b[1] % 128)) % modulus
    <2>1. b \in Seq(Nat) /\ r \in Seq(Nat) /\ modulus \in Nat \ {0} /\ IsRest(r, b)
        BY <1>4 DEF IsRest
    <2> HIDE DEF f
    <2> QED
        BY <2>1, DecodeFirst
<1> HIDE DEF d, f
<1>13. b[1] % 128 = c
    <2>1. \A k \in 0 .. 127 : (128 + k) % 128 = k
        OBVIOUS
    <2> QED
        BY <1>1, <1>11, <2>1
<1>14. d * 128 + c \in Nat /\ d * 128 + c <= v
    BY <1>1, <1>9, <1>10
<1>15. VarintDecode(b, modulus) = d * 128 + c
    <2> DEFINE x == d * 128 + c
    <2>1. x \in Nat /\ x < modulus
        BY <1>14
    <2>2. VarintDecode(b, modulus) = x % modulus
        BY <1>12, <1>13
    <2> HIDE DEF x
    <2>3. x % modulus = x
        BY <2>1
    <2> QED
        BY <2>2, <2>3 DEF x
<1>16. Len(b) = Len(e) => d * 128 + c = v
    BY <1>1, <1>2, <1>3, <1>4, <1>10
<1>17. ASSUME Len(b) < Len(e), d * 128 + c = 0 PROVE \A i \in 1 .. Len(b) : b[i] = 128
    <2>1. d = 0 /\ c = 0 /\ Len(r) < Len(f)
        BY <1>1, <1>2, <1>3, <1>4, <1>9, <1>17
    <2>2. \A i \in 1 .. Len(r) : r[i] = 128
        BY <1>10, <2>1
    <2>3. ASSUME NEW i \in 1 .. Len(b), i # 1 PROVE b[i] = 128
        <3> DEFINE j == i - 1
        <3>1. j \in 1 .. Len(r) /\ i = j + 1
            BY <1>4, <2>3
        <3> HIDE DEF j
        <3> QED
            BY <1>4, <2>2, <3>1
    <2> QED
        BY <1>11, <2>1, <2>3
<1> QED
    BY <1>14, <1>15, <1>16, <1>17 DEF PrefixRead, e

(* What was written is read, and of its beginning nothing is read but when *)
(* it has no digit but zeros.                                              *)
LEMMA DecodePrefix ==
    ASSUME NEW modulus \in Nat \ {0}, NEW v \in Nat, v < modulus,
           NEW b \in Seq(Nat), Begins(b, varint_encode[v])
    PROVE  PrefixRead(v, b, modulus)
<1> DEFINE T == {u \in Nat : u < modulus =>
                    \A s \in Seq(Nat) : Begins(s, varint_encode[u]) => PrefixRead(u, s, modulus)}
<1>1. ASSUME NEW u \in Nat, \A t \in Nat : t < u => t \in T PROVE u \in T
    <2> SUFFICES ASSUME u < modulus, NEW s \in Seq(Nat), Begins(s, varint_encode[u])
                 PROVE  PrefixRead(u, s, modulus)
        OBVIOUS
    <2>1. CASE Len(s) = 0
        <3>1. VarintDecode(s, modulus) = 0
            BY <2>1, DecodeNothing
        <3>2. Len(varint_encode[u]) # 0
            BY EncodedShape
        <3> QED
            BY <2>1, <3>1, <3>2 DEF PrefixRead
    <2>2. CASE Len(s) # 0 /\ u < 128
        BY <2>2, PrefixOfDigit
    <2>3. CASE Len(s) # 0 /\ ~(u < 128)
        <3> DEFINE t == u \div 128
        <3>1. t \in Nat /\ t < u /\ t < modulus /\ u >= 128
            BY <2>3
        <3> HIDE DEF t
        <3>2. \A r \in Seq(Nat) : Begins(r, varint_encode[t]) => PrefixRead(t, r, modulus)
            BY <1>1, <3>1
        <3> QED
            BY <2>3, <3>1, <3>2, PrefixOfDigits DEF t
    <2> QED
        BY <2>1, <2>2, <2>3
<1> HIDE DEF T
<1>2. v \in T
    BY <1>1, StrongInduction
<1> QED
    BY <1>2 DEF T

(* Where an integer ends: behind the first byte below 128, if there is one.*)
LEMMA LeastNumber ==
    ASSUME NEW T \in SUBSET Nat, T # {}
    PROVE  \E x \in T : \A y \in T : x <= y
<1> SUFFICES ASSUME \A x \in T : \E y \in T : ~(x <= y) PROVE FALSE
    OBVIOUS
<1> DEFINE U == {n \in Nat : n \notin T}
<1>1. ASSUME NEW n \in Nat, \A m \in Nat : m < n => m \in U PROVE n \in U
    <2> SUFFICES ASSUME n \in T PROVE FALSE
        OBVIOUS
    <2>1. PICK y \in T : ~(n <= y)
        OBVIOUS
    <2> QED
        BY <1>1, <2>1
<1> HIDE DEF U
<1>2. Nat \subseteq U
    BY <1>1, StrongInduction
<1> QED
    BY <1>2 DEF U

SkipsTo(bytes, start, end, s) ==
    \/ s = end /\ \A i \in start + 1 .. end : ~(bytes[i] < 128)
    \/ /\ s \in start + 1 .. end /\ bytes[s] < 128
       /\ \A i \in start + 1 .. s - 1 : ~(bytes[i] < 128)

LEMMA SkipMeaning ==
    ASSUME NEW bytes, NEW start \in Nat, NEW end \in Nat
    PROVE  SkipsTo(bytes, start, end, VarintSkip(bytes, start, end))
<1> DEFINE last == {i \in start + 1 .. end : bytes[i] < 128}
           s == CHOOSE i \in last : \A j \in last : i <= j
<1>1. VarintSkip(bytes, start, end) = IF last = {} THEN end ELSE s
    BY DEF VarintSkip
<1>2. last \in SUBSET Nat
    OBVIOUS
<1>3. \A i \in start + 1 .. end : i \in last <=> bytes[i] < 128
    OBVIOUS
<1>4. \A i \in last : i \in start + 1 .. end
    OBVIOUS
<1> HIDE DEF last
<1>5. CASE last = {}
    BY <1>1, <1>3, <1>5 DEF SkipsTo
<1>6. CASE last # {}
    <2>1. \E x \in last : \A y \in last : x <= y
        BY <1>2, <1>6, LeastNumber
    <2>2. s \in last /\ \A j \in last : s <= j
        BY <2>1
    <2> HIDE DEF s
    <2>3. s \in start + 1 .. end /\ bytes[s] < 128
        BY <1>3, <1>4, <2>2
    <2>4. ASSUME NEW i \in start + 1 .. s - 1 PROVE ~(bytes[i] < 128)
        <3> SUFFICES ASSUME bytes[i] < 128 PROVE FALSE
            OBVIOUS
        <3>1. i \in start + 1 .. end /\ ~(s <= i)
            BY <2>3
        <3> QED
            BY <1>3, <2>2, <3>1
    <2>5. VarintSkip(bytes, start, end) = s
        BY <1>1, <1>6
    <2> QED
        BY <2>3, <2>4, <2>5 DEF SkipsTo
<1> QED
    BY <1>5, <1>6

(* It never skips beyond the end, and always at least a byte.              *)
LEMMA SkipBounds ==
    ASSUME NEW bytes, NEW start \in Nat, NEW end \in Nat, start <= end
    PROVE  /\ VarintSkip(bytes, start, end) \in start .. end
           /\ start < end => start < VarintSkip(bytes, start, end)
<1> DEFINE s == VarintSkip(bytes, start, end)
<1>1. SkipsTo(bytes, start, end, s)
    BY SkipMeaning
<1> HIDE DEF s
<1>2. s = end \/ s \in start + 1 .. end
    BY <1>1 DEF SkipsTo
<1>3. s \in start .. end /\ (start < end => start < s)
    BY <1>2
<1> QED
    BY <1>3 DEF s

(* The bytes behind start are those of e, as far as they are there.        *)
Lies(bytes, start, end, e) == \A i \in 1 .. Len(e) : start + i <= end => bytes[start + i] = e[i]

LEMMA SkipEnds ==
    ASSUME NEW bytes, NEW start \in Nat, NEW end \in Nat, NEW stop \in start + 1 .. end,
           bytes[stop] < 128, \A i \in start + 1 .. stop - 1 : ~(bytes[i] < 128)
    PROVE  VarintSkip(bytes, start, end) = stop
<1> DEFINE s == VarintSkip(bytes, start, end)
<1>1. SkipsTo(bytes, start, end, s)
    BY SkipMeaning
<1> HIDE DEF s
<1>2. CASE s = end /\ \A i \in start + 1 .. end : ~(bytes[i] < 128)
    BY <1>2
<1>3. CASE /\ s \in start + 1 .. end /\ bytes[s] < 128
           /\ \A i \in start + 1 .. s - 1 : ~(bytes[i] < 128)
    <2>1. ~(s < stop)
        <3> SUFFICES ASSUME s < stop PROVE FALSE
            OBVIOUS
        <3>1. s \in start + 1 .. stop - 1
            BY <1>3
        <3> QED
            BY <1>3, <3>1
    <2>2. ~(stop < s)
        <3> SUFFICES ASSUME stop < s PROVE FALSE
            OBVIOUS
        <3>1. stop \in start + 1 .. s - 1
            BY <1>3
        <3> QED
            BY <1>3, <3>1
    <2>3. s = stop
        BY <1>3, <2>1, <2>2
    <2> QED
        BY <2>3 DEF s
<1> QED
    BY <1>1, <1>2, <1>3 DEF SkipsTo, s

LEMMA SkipWhole ==
    ASSUME NEW bytes, NEW start \in Nat, NEW end \in Nat, NEW e \in Seq(Byte),
           Len(e) # 0, IsVarint(e, 0, Len(e)), Lies(bytes, start, end, e),
           start + Len(e) <= end
    PROVE  VarintSkip(bytes, start, end) = start + Len(e)
<1> DEFINE s == VarintSkip(bytes, start, end)
           l == Len(e)
<1>2. l \in Nat /\ l # 0 /\ start + l <= end
    OBVIOUS
<1>3. \A i \in 1 .. l : bytes[start + i] = e[i]
    <2> SUFFICES ASSUME NEW i \in 1 .. l PROVE bytes[start + i] = e[i]
        OBVIOUS
    <2>1. start + i <= end
        BY <1>2
    <2> QED
        BY <2>1 DEF Lies
<1>4. e[l] < 128
    BY DEF IsVarint
<1>5. \A i \in 1 .. l - 1 : ~(e[i] < 128)
    <2> SUFFICES ASSUME NEW i \in 1 .. l - 1 PROVE ~(e[i] < 128)
        OBVIOUS
    <2>1. i \in 1 .. Len(e)
        BY <1>2
    <2>5. e[i] \in Byte
        BY <2>1, ElementOfSeq
    <2>2. e[i] \in Nat
        BY <2>5, ByteNat
    <2>3. e[i] >= 128
        BY <1>2 DEF IsVarint
    <2> QED
        BY <2>2, <2>3
<1> HIDE DEF s, l
<1>6. bytes[start + l] < 128 /\ start + l \in start + 1 .. end
    BY <1>2, <1>3, <1>4
<1>7. ASSUME NEW k \in start + 1 .. (start + l) - 1 PROVE ~(bytes[k] < 128)
    <2> DEFINE i == k - start
    <2>1. i \in 1 .. l - 1 /\ i \in 1 .. l /\ k = start + i
        BY <1>2
    <2> HIDE DEF i
    <2> QED
        BY <1>3, <1>5, <2>1
<1>8. s = start + l
    <2> DEFINE stop == start + l
    <2>1. stop \in start + 1 .. end /\ bytes[stop] < 128
        BY <1>6
    <2>2. \A k \in start + 1 .. stop - 1 : ~(bytes[k] < 128)
        BY <1>7
    <2> HIDE DEF stop
    <2>3. s = stop
        BY <2>1, <2>2, SkipEnds DEF s
    <2> QED
        BY <2>3 DEF stop
<1> QED
    BY <1>8 DEF s, l

LEMMA SkipCut ==
    ASSUME NEW bytes, NEW start \in Nat, NEW end \in Nat, NEW e \in Seq(Byte),
           IsVarint(e, 0, Len(e)), Lies(bytes, start, end, e), start + Len(e) > end
    PROVE  VarintSkip(bytes, start, end) = end
<1> DEFINE s == VarintSkip(bytes, start, end)
           l == Len(e)
<1>1. SkipsTo(bytes, start, end, s)
    BY SkipMeaning
<1>2. l \in Nat /\ start + l > end
    OBVIOUS
<1>3. ASSUME NEW k \in start + 1 .. end PROVE ~(bytes[k] < 128)
    <2> DEFINE i == k - start
    <2>1. i \in 1 .. l - 1 /\ i \in 1 .. l /\ k = start + i /\ start + i <= end
        BY <1>2
    <2> HIDE DEF i
    <2>5. e[i] \in Byte
        BY <2>1, ElementOfSeq
    <2>2. e[i] \in Nat
        BY <2>5, ByteNat
    <2>3. bytes[k] = e[i]
        BY <2>1 DEF Lies
    <2>4. e[i] >= 128
        BY <2>1 DEF IsVarint
    <2> QED
        BY <2>2, <2>3, <2>4
<1> HIDE DEF s, l
<1>4. s = end
    BY <1>1, <1>3 DEF SkipsTo
<1> QED
    BY <1>4 DEF s

LEMMA Slice ==
    ASSUME NEW bytes \in Seq(Nat), NEW start \in Nat, NEW stop \in Nat,
           start <= stop, stop <= Len(bytes)
    PROVE  /\ SubSeq(bytes, start + 1, stop) \in Seq(Nat)
           /\ Len(SubSeq(bytes, start + 1, stop)) = stop - start
           /\ \A i \in 1 .. stop - start : SubSeq(bytes, start + 1, stop)[i] = bytes[start + i]
<1> DEFINE m == start + 1
<1>1. m \in Int /\ stop \in Int
    OBVIOUS
<1>2. ASSUME NEW i \in m .. stop PROVE bytes[i] \in Nat
    <2>1. i \in 1 .. Len(bytes)
        OBVIOUS
    <2> QED
        BY <2>1, ElementOfSeq
<1> HIDE DEF m
<1>3. /\ SubSeq(bytes, m, stop) \in Seq(Nat)
      /\ Len(SubSeq(bytes, m, stop)) = IF m <= stop THEN (stop - m) + 1 ELSE 0
      /\ \A i \in 1 .. (stop - m) + 1 : SubSeq(bytes, m, stop)[i] = bytes[m + (i - 1)]
    BY <1>1, <1>2, SubSeqProperties
<1>4. (stop - m) + 1 = stop - start /\ \A i \in 1 .. stop - start : m + (i - 1) = start + i
    BY DEF m
<1>5. Len(SubSeq(bytes, m, stop)) = stop - start
    BY <1>3, <1>4 DEF m
<1>6. \A i \in 1 .. stop - start : SubSeq(bytes, m, stop)[i] = bytes[start + i]
    BY <1>3, <1>4
<1> QED
    BY <1>3, <1>5, <1>6 DEF m

LEMMA SliceBegins ==
    ASSUME NEW bytes \in Seq(Nat), NEW start \in Nat, NEW stop \in Nat, NEW end \in Nat,
           NEW e \in Seq(Byte), start <= stop, stop <= end, stop <= Len(bytes),
           stop <= start + Len(e), Lies(bytes, start, end, e)
    PROVE  Begins(SubSeq(bytes, start + 1, stop), e)
<1> DEFINE b == SubSeq(bytes, start + 1, stop)
<1>1. Len(b) = stop - start /\ \A i \in 1 .. stop - start : b[i] = bytes[start + i]
    BY Slice
<1> HIDE DEF b
<1>2. Len(e) \in Nat
    OBVIOUS
<1>3. Len(b) <= Len(e)
    BY <1>1, <1>2
<1>4. ASSUME NEW i \in 1 .. Len(b) PROVE b[i] = e[i]
    <2>1. i \in 1 .. stop - start /\ i \in 1 .. Len(e) /\ start + i <= end
        BY <1>1, <1>2, <1>3
    <2> QED
        BY <1>1, <2>1 DEF Lies
<1>5. Begins(b, e)
    BY <1>3, <1>4 DEF Begins
<1> QED
    BY <1>5 DEF b

(* An integer among others is read as it was written ...                   *)
LEMMA IntegerWhole ==
    ASSUME NEW bytes \in Seq(Nat), NEW modulus \in Nat \ {0}, NEW v \in Nat, v < modulus,
           NEW start \in Nat, NEW end \in Nat, end <= Len(bytes),
           Lies(bytes, start, end, varint_encode[v]), start + Len(varint_encode[v]) <= end
    PROVE  /\ VarintSkip(bytes, start, end) = start + Len(varint_encode[v])
           /\ VarintDecode(SubSeq(bytes, start + 1, start + Len(varint_encode[v])), modulus) = v
<1> DEFINE e == varint_encode[v]
           stop == start + Len(e)
           b == SubSeq(bytes, start + 1, stop)
<1>1. e \in Seq(Byte) /\ Len(e) \in Nat /\ Len(e) # 0 /\ IsVarint(e, 0, Len(e))
    BY EncodedShape
<1>2. VarintSkip(bytes, start, end) = stop
    <2> HIDE DEF e
    <2> QED
        BY <1>1, SkipWhole DEF e
<1>3. stop \in Nat /\ start <= stop /\ stop <= end /\ stop <= Len(bytes) /\ stop <= start + Len(e)
    BY <1>1
<1>4. Begins(b, e) /\ b \in Seq(Nat) /\ Len(b) = Len(e)
    <2>1. stop - start = Len(e)
        BY <1>1
    <2> HIDE DEF e, stop
    <2>2. Begins(b, e)
        BY <1>1, <1>3, SliceBegins DEF e
    <2>3. b \in Seq(Nat) /\ Len(b) = stop - start
        BY <1>3, Slice
    <2> QED
        BY <2>1, <2>2, <2>3
<1> HIDE DEF b, stop
<1>5. PrefixRead(v, b, modulus)
    BY <1>4, DecodePrefix
<1>6. VarintDecode(b, modulus) = v
    BY <1>4, <1>5 DEF PrefixRead
<1> QED
    BY <1>2, <1>6 DEF b, stop

(* ... and one that is cut short is nothing, or its digits are not zeros.  *)
ZeroDigits(bytes, first, last) == \A i \in first .. last : bytes[i] = 128

LEMMA IntegerCut ==
    ASSUME NEW bytes \in Seq(Nat), NEW modulus \in Nat \ {0}, NEW v \in Nat, v < modulus,
           NEW start \in Nat, NEW end \in Nat, start <= end, end <= Len(bytes),
           Lies(bytes, start, end, varint_encode[v]), start + Len(varint_encode[v]) > end
    PROVE  /\ VarintSkip(bytes, start, end) = end
           /\ VarintDecode(SubSeq(bytes, start + 1, end), modulus) = 0 =>
                ZeroDigits(bytes, start + 1, end)
<1> DEFINE e == varint_encode[v]
           b == SubSeq(bytes, start + 1, end)
<1>1. e \in Seq(Byte) /\ Len(e) \in Nat /\ IsVarint(e, 0, Len(e))
    BY EncodedShape
<1>2. VarintSkip(bytes, start, end) = end
    <2> HIDE DEF e
    <2> QED
        BY <1>1, SkipCut DEF e
<1>3. end <= start + Len(e)
    BY <1>1
<1>4. Begins(b, e)
    <2> HIDE DEF e
    <2> QED
        BY <1>1, <1>3, SliceBegins DEF e
<1>5. b \in Seq(Nat) /\ Len(b) = end - start /\ \A i \in 1 .. end - start : b[i] = bytes[start + i]
    BY Slice
<1>6. Len(b) < Len(e)
    BY <1>1, <1>5
<1> HIDE DEF b
<1>7. PrefixRead(v, b, modulus)
    BY <1>4, <1>5, DecodePrefix
<1>8. VarintDecode(b, modulus) = 0 => \A i \in 1 .. Len(b) : b[i] = 128
    BY <1>6, <1>7 DEF PrefixRead
<1>9. ASSUME VarintDecode(b, modulus) = 0, NEW k \in start + 1 .. end PROVE bytes[k] = 128
    <2> DEFINE i == k - start
    <2>1. i \in 1 .. end - start /\ k = start + i
        OBVIOUS
    <2> HIDE DEF i
    <2>2. i \in 1 .. Len(b) /\ bytes[k] = b[i]
        BY <1>5, <2>1
    <2>3. b[i] = 128
        BY <1>8, <1>9, <2>2
    <2> QED
        BY <2>2, <2>3
<1> QED
    BY <1>2, <1>9 DEF b, ZeroDigits

-----------------------------------------------------------------------------
(* Messages.                                                               *)

LEMMA Formats ==
    ASSUME NEW f \in DOMAIN Tags
    PROVE  /\ f \in {"message", "pre_key", "group"}
           /\ Len(Tags[f]) \in Nat /\ Len(Tags[f]) >= 2
           /\ \A i \in 1 .. Len(Tags[f]) : Tags[f][i] \in Byte /\ Tags[f][i] \in TagsOf(f)
           /\ \A i, j \in 1 .. Len(Tags[f]) : Tags[f][i] = Tags[f][j] => i = j
           /\ ~IsNumber(Tags[f][Len(Tags[f])])
<1>1. f \in {"message", "pre_key", "group"}
    BY DEF Tags
<1> USE DEF Byte, IsNumber, TagsOf, RATCHET_KEY_TAG, COUNTER_TAG, CIPHERTEXT_TAG, PREKEY_ID_TAG,
        ONE_TIME_KEY_ID_TAG, BASE_KEY_TAG, IDENTITY_KEY_TAG, MESSAGE_TAG,
        GROUP_MESSAGE_INDEX_TAG, GROUP_CIPHERTEXT_TAG
<1>2. CASE f = "message"
    <2>1. Tags[f] = <<10, 16, 34>>
        BY <1>2 DEF Tags
    <2> QED
        BY <1>1, <2>1
<1>3. CASE f = "pre_key"
    <2>1. Tags[f] = <<42, 10, 18, 26, 34>>
        BY <1>3 DEF Tags
    <2> QED
        BY <1>1, <2>1
<1>4. CASE f = "group"
    <2>1. Tags[f] = <<8, 18>>
        BY <1>4 DEF Tags
    <2> QED
        BY <1>1, <2>1
<1> QED
    BY <1>1, <1>2, <1>3, <1>4

LEMMA MessageValues ==
    ASSUME NEW f \in DOMAIN Tags, NEW m \in Messages(f), NEW tag \in TagsOf(f)
    PROVE  /\ IsNumber(tag) => \E c \in Nat : c < COUNTER_MODULUS /\ m[tag] = <<c>>
           /\ ~IsNumber(tag) => m[tag] \in Seq(Byte) /\ Len(m[tag]) < SIZE_MODULUS
<1> DEFINE last == Tags[f][Len(Tags[f])]
           Numbers == {<<counter>> : counter \in Counters}
<1>1. m[tag] \in IF tag = last THEN Strings ELSE IF IsNumber(tag) THEN Numbers ELSE Keys
    BY DEF Messages
<1>2. ~IsNumber(last)
    BY Formats
<1>3. \A string \in Strings \cup Keys : string \in Seq(Byte) /\ Len(string) < SIZE_MODULUS
    BY BytesAssumption
<1>4. CASE IsNumber(tag)
    <2>1. m[tag] \in Numbers
        BY <1>1, <1>2, <1>4
    <2>2. PICK c \in Counters : m[tag] = <<c>>
        BY <2>1
    <2>3. c \in Nat /\ c < COUNTER_MODULUS
        BY CodecAssumption
    <2> QED
        BY <1>4, <2>2, <2>3
<1>5. CASE ~IsNumber(tag)
    <2> HIDE DEF last, Numbers
    <2>1. m[tag] \in Strings \cup Keys
        BY <1>1, <1>5
    <2> QED
        BY <1>3, <1>5, <2>1
<1> QED
    BY <1>4, <1>5

(* A field is its tag, an integer, and the string if the integer is its    *)
(* length.                                                                 *)
Text(tag, value) == IF IsNumber(tag) THEN <<>> ELSE value
Count(tag, value) == IF IsNumber(tag) THEN value[1] ELSE Len(value)

FieldIs(e, tag, value) ==
    /\ e \in Seq(Byte)
    /\ Count(tag, value) \in Nat
    /\ Count(tag, value) < IF IsNumber(tag) THEN COUNTER_MODULUS ELSE SIZE_MODULUS
    /\ Text(tag, value) \in Seq(Byte)
    /\ IsNumber(tag) => value = <<Count(tag, value)>>
    /\ e = <<tag>> \o (varint_encode[Count(tag, value)] \o Text(tag, value))

LEMMA FieldsEncoded ==
    ASSUME NEW f \in DOMAIN Tags, NEW m \in Messages(f), NEW tag \in TagsOf(f), tag \in Byte
    PROVE  /\ FieldIs(EncodeField(tag, m[tag]), tag, m[tag])
           /\ FieldLength(tag, m[tag]) = Len(EncodeField(tag, m[tag]))
<1> DEFINE c == Count(tag, m[tag])
           x == Text(tag, m[tag])
           e == varint_encode[c]
<1>1. c \in Nat /\ c < (IF IsNumber(tag) THEN COUNTER_MODULUS ELSE SIZE_MODULUS)
    <2>1. CASE IsNumber(tag)
        <3>1. PICK n \in Nat : n < COUNTER_MODULUS /\ m[tag] = <<n>>
            BY <2>1, MessageValues
        <3> QED
            BY <2>1, <3>1 DEF Count
    <2>2. CASE ~IsNumber(tag)
        <3>1. m[tag] \in Seq(Byte) /\ Len(m[tag]) < SIZE_MODULUS
            BY <2>2, MessageValues
        <3> QED
            BY <2>2, <3>1 DEF Count
    <2> QED
        BY <2>1, <2>2
<1>9. IsNumber(tag) => m[tag] = <<c>>
    <2> SUFFICES ASSUME IsNumber(tag) PROVE m[tag] = <<m[tag][1]>>
        BY DEF Count
    <2>1. PICK n \in Nat : m[tag] = <<n>>
        BY MessageValues
    <2> QED
        BY <2>1
<1>2. x \in Seq(Byte)
    <2>1. IsNumber(tag) => x = <<>>
        BY DEF Text
    <2>2. ~IsNumber(tag) => x \in Seq(Byte)
        BY MessageValues DEF Text
    <2> HIDE DEF x
    <2>3. <<>> \in Seq(Byte)
        OBVIOUS
    <2> QED
        BY <2>1, <2>2, <2>3
<1>3. e \in Seq(Byte) /\ Len(e) \in Nat /\ Len(e) = varint_length[c]
    BY <1>1, EncodedShape
<1>4. EncodeField(tag, m[tag]) = <<tag>> \o (e \o x)
    <2>1. CASE IsNumber(tag)
        <3>1. EncodeField(tag, m[tag]) = <<tag>> \o e /\ x = <<>>
            BY <2>1 DEF EncodeField, Count, Text
        <3>2. e \o <<>> = e
            BY <1>3, ConcatEmptySeq
        <3> QED
            BY <3>1, <3>2
    <2>2. CASE ~IsNumber(tag)
        BY <2>2 DEF EncodeField, Count, Text
    <2> QED
        BY <2>1, <2>2
<1>5. e \o x \in Seq(Byte) /\ Len(e \o x) = Len(e) + Len(x)
    <2> HIDE DEF e, x
    <2> QED
        BY <1>2, <1>3, ConcatProperties
<1>6. <<tag>> \o (e \o x) \in Seq(Byte) /\ Len(<<tag>> \o (e \o x)) = 1 + (Len(e) + Len(x))
    <2> DEFINE y == e \o x
    <2>1. <<tag>> \in Seq(Byte) /\ Len(<<tag>>) = 1
        OBVIOUS
    <2> HIDE DEF y
    <2>2. <<tag>> \o y \in Seq(Byte) /\ Len(<<tag>> \o y) = Len(<<tag>>) + Len(y)
        BY <1>5, <2>1, ConcatProperties DEF y
    <2> QED
        BY <1>5, <2>1, <2>2 DEF y
<1>7. FieldLength(tag, m[tag]) = 1 + (Len(e) + Len(x))
    <2>1. CASE IsNumber(tag)
        <3>1. FieldLength(tag, m[tag]) = 1 + varint_length[c] /\ Len(x) = 0
            BY <2>1 DEF FieldLength, Count, Text
        <3> QED
            BY <1>3, <3>1
    <2>2. CASE ~IsNumber(tag)
        <3>1. FieldLength(tag, m[tag]) = 1 + (varint_length[c] + Len(x))
            BY <2>2 DEF FieldLength, Count, Text
        <3> QED
            BY <1>3, <3>1
    <2> QED
        BY <2>1, <2>2
<1> HIDE DEF c, x, e
<1>8. FieldIs(EncodeField(tag, m[tag]), tag, m[tag])
    BY <1>1, <1>2, <1>4, <1>6, <1>9 DEF FieldIs, c, x, e
<1> QED
    BY <1>4, <1>6, <1>7, <1>8

(* The i-th field of a message, and the position behind the first i.       *)
Field(f, m, i) == EncodeField(Tags[f][i], m[Tags[f][i]])
Behind(f, m, i) == Len(EncodeFirst(f, m, i))

LEMMA FieldKnown ==
    ASSUME NEW f \in DOMAIN Tags, NEW m \in Messages(f), NEW i \in 1 .. Len(Tags[f])
    PROVE  /\ FieldIs(Field(f, m, i), Tags[f][i], m[Tags[f][i]])
           /\ Field(f, m, i) \in Seq(Byte)
           /\ FieldLength(Tags[f][i], m[Tags[f][i]]) = Len(Field(f, m, i))
<1> DEFINE tag == Tags[f][i]
<1>1. tag \in TagsOf(f) /\ tag \in Byte
    BY Formats
<1> HIDE DEF tag
<1>2. FieldIs(EncodeField(tag, m[tag]), tag, m[tag]) /\ FieldLength(tag, m[tag]) = Len(EncodeField(tag, m[tag]))
    BY <1>1, FieldsEncoded
<1>3. EncodeField(tag, m[tag]) \in Seq(Byte)
    BY <1>2 DEF FieldIs
<1> QED
    BY <1>2, <1>3 DEF Field, tag

LEMMA EncodeFirstRuns ==
    ASSUME NEW f \in DOMAIN Tags, NEW m \in Messages(f)
    PROVE  /\ \A i \in 0 .. Len(Tags[f]) : EncodeFirst(f, m, i) \in Seq(Byte)
           /\ EncodeFirst(f, m, 0) = <<3>>
           /\ \A i \in 1 .. Len(Tags[f]) :
                EncodeFirst(f, m, i) = EncodeFirst(f, m, i - 1) \o Field(f, m, i)
<1> DEFINE k == Len(Tags[f])
           S == Seq(Byte)
           first == <<PROTOCOL_VERSION>>
           F == [p \in (1 .. k) \X S |-> p[2] \o Field(f, m, p[1])]
           Is(g) == g = [i \in 0 .. k |-> IF i = 0 THEN first ELSE g[i - 1] \o Field(f, m, i)]
           bytes == CHOOSE g : Is(g)
<1>1. k \in Nat
    BY Formats
<1>2. first \in S /\ first = <<3>>
    BY DEF PROTOCOL_VERSION, Byte
<1>3. ASSUME NEW i \in 1 .. k, NEW w \in S
      PROVE  w \o Field(f, m, i) \in S
    <2>1. Field(f, m, i) \in Seq(Byte)
        BY FieldKnown
    <2> QED
        BY <2>1, ConcatProperties
<1>4. ASSUME NEW i \in 1 .. k, NEW w \in S
      PROVE  F[<<i, w>>] = w \o Field(f, m, i)
    <2>1. <<i, w>> \in (1 .. k) \X S /\ <<i, w>>[1] = i /\ <<i, w>>[2] = w
        OBVIOUS
    <2> QED
        BY <2>1
<1>5. ASSUME NEW n \in Nat PROVE EncodeFirst(f, m, n) = bytes[n]
    BY DEF EncodeFirst, Field
<1> HIDE DEF k, S, first, F, bytes
<1>6. PICK h \in [0 .. k -> S] : Follows(h, k, F, first)
    <2>1. \A i \in 1 .. k, w \in S : F[<<i, w>>] \in S
        BY <1>3, <1>4
    <2> QED
        BY <1>1, <1>2, <2>1, FollowsExists
<1>7. Is(h)
    <2>1. h[0] = first
        BY <1>6 DEF Follows
    <2>2. ASSUME NEW i \in 1 .. k PROVE h[i] = h[i - 1] \o Field(f, m, i)
        <3>1. h[i - 1] \in S
            BY <1>1, <1>6
        <3>2. h[i] = F[<<i, h[i - 1]>>]
            BY <1>6 DEF Follows
        <3> QED
            BY <1>4, <3>1, <3>2
    <2>3. ASSUME NEW i \in 0 .. k
          PROVE  h[i] = IF i = 0 THEN first ELSE h[i - 1] \o Field(f, m, i)
        <3>1. CASE i = 0
            BY <2>1, <3>1
        <3>2. CASE i # 0
            <4>1. i \in 1 .. k
                BY <1>1, <3>2
            <4> QED
                BY <2>2, <3>2, <4>1
        <3> QED
            BY <3>1, <3>2
    <2>4. h = [i \in 0 .. k |-> h[i]]
        BY <1>6
    <2> QED
        BY <2>3, <2>4
<1>8. Is(bytes)
    <2> HIDE DEF Is
    <2> QED
        BY <1>7 DEF bytes
<1>9. /\ bytes[0] = first
      /\ \A i \in 1 .. k : bytes[i] = bytes[i - 1] \o Field(f, m, i)
    <2>1. bytes = [i \in 0 .. k |-> IF i = 0 THEN first ELSE bytes[i - 1] \o Field(f, m, i)]
        BY <1>8
    <2> HIDE DEF Is
    <2>2. \A i \in 0 .. k : bytes[i] = IF i = 0 THEN first ELSE bytes[i - 1] \o Field(f, m, i)
        BY <2>1
    <2>3. bytes[0] = first
        BY <1>1, <2>2
    <2>4. ASSUME NEW i \in 1 .. k PROVE bytes[i] = bytes[i - 1] \o Field(f, m, i)
        <3>1. i \in 0 .. k /\ i # 0
            BY <1>1
        <3> QED
            BY <2>2, <3>1
    <2> QED
        BY <2>3, <2>4
<1>10. \A i \in 0 .. k : bytes[i] \in S
    <2> DEFINE T == {i \in Nat : bytes[i] \in S}
    <2>1. 0 \in T
        BY <1>2, <1>9
    <2>2. ASSUME NEW i \in 1 .. k, i - 1 \in T PROVE i \in T
        <3>1. bytes[i - 1] \in S /\ i \in Nat
            BY <1>1, <2>2
        <3>2. bytes[i] = bytes[i - 1] \o Field(f, m, i)
            BY <1>9
        <3> QED
            BY <1>3, <3>1, <3>2
    <2> HIDE DEF T
    <2>3. 0 .. k \subseteq T
        BY <1>1, <2>1, <2>2, BoundedInduction
    <2> QED
        BY <2>3 DEF T
<1>11. \A i \in 0 .. k : EncodeFirst(f, m, i) = bytes[i]
    BY <1>1, <1>5
<1>12. ASSUME NEW i \in 1 .. k
       PROVE  EncodeFirst(f, m, i) = EncodeFirst(f, m, i - 1) \o Field(f, m, i)
    <2>1. i \in 0 .. k /\ i - 1 \in 0 .. k
        BY <1>1
    <2> QED
        BY <1>9, <1>11, <2>1
<1>13. EncodeFirst(f, m, 0) = <<3>>
    <2>1. 0 \in 0 .. k
        BY <1>1
    <2> QED
        BY <1>2, <1>9, <1>11, <2>1
<1>14. \A i \in 0 .. k : EncodeFirst(f, m, i) \in S
    BY <1>10, <1>11
<1> QED
    BY <1>12, <1>13, <1>14 DEF k, S

(* The fields follow each other.                                           *)
LEMMA FieldsFollow ==
    ASSUME NEW f \in DOMAIN Tags, NEW m \in Messages(f)
    PROVE  /\ Behind(f, m, 0) = 1
           /\ \A i \in 0 .. Len(Tags[f]) : Behind(f, m, i) \in Nat /\ Behind(f, m, i) >= 1
           /\ \A i \in 1 .. Len(Tags[f]) :
                Behind(f, m, i) = Behind(f, m, i - 1) + Len(Field(f, m, i))
<1> DEFINE k == Len(Tags[f])
<1>1. k \in Nat
    BY Formats
<1>2. \A i \in 0 .. k : Behind(f, m, i) \in Nat
    BY EncodeFirstRuns DEF Behind
<1>3. Behind(f, m, 0) = 1
    BY EncodeFirstRuns DEF Behind
<1>4. ASSUME NEW i \in 1 .. k
      PROVE  Behind(f, m, i) = Behind(f, m, i - 1) + Len(Field(f, m, i))
    <2> DEFINE a == EncodeFirst(f, m, i - 1)
               b == Field(f, m, i)
    <2>1. i - 1 \in 0 .. k
        BY <1>1
    <2>2. a \in Seq(Byte) /\ b \in Seq(Byte)
        BY <2>1, EncodeFirstRuns, FieldKnown
    <2>3. EncodeFirst(f, m, i) = a \o b
        BY EncodeFirstRuns
    <2> HIDE DEF a, b
    <2>4. Len(a \o b) = Len(a) + Len(b)
        BY <2>2, ConcatProperties
    <2> QED
        BY <2>3, <2>4 DEF a, b, Behind
<1>5. \A i \in 0 .. k : Behind(f, m, i) >= 1
    <2> DEFINE T == {i \in Nat : Behind(f, m, i) >= 1}
    <2>1. 0 \in T
        BY <1>3
    <2>2. ASSUME NEW i \in 1 .. k, i - 1 \in T PROVE i \in T
        <3>1. i - 1 \in 0 .. k /\ i \in Nat /\ Behind(f, m, i - 1) >= 1
            BY <1>1, <2>2
        <3>2. Len(Field(f, m, i)) \in Nat
            BY FieldKnown
        <3>3. Behind(f, m, i - 1) \in Nat
            BY <1>2, <3>1
        <3> QED
            BY <1>4, <3>1, <3>2, <3>3
    <2> HIDE DEF T, k
    <2>3. 0 .. k \subseteq T
        BY <1>1, <2>1, <2>2, BoundedInduction
    <2> QED
        BY <2>3 DEF T
<1> QED
    BY <1>2, <1>3, <1>4, <1>5

(* The room that is made for a message is the room it takes.               *)
LEMMA RoomIsExact ==
    ASSUME NEW f \in DOMAIN Tags, NEW m \in Messages(f)
    PROVE  EncodedLength(f, m) = Behind(f, m, Len(Tags[f])) + TrailerLength[f]
<1> DEFINE k == Len(Tags[f])
           L(i) == FieldLength(Tags[f][i], m[Tags[f][i]])
           Is(g) == g = [n \in 0 .. k |-> IF n = 0 THEN 1 ELSE g[n - 1] + L(n)]
           length == CHOOSE g : Is(g)
           h == [n \in 0 .. k |-> Behind(f, m, n)]
<1>1. k \in Nat
    BY Formats
<1>2. \A i \in 1 .. k : L(i) = Len(Field(f, m, i))
    BY FieldKnown
<1>3. EncodedLength(f, m) = length[k] + TrailerLength[f]
    BY DEF EncodedLength
<1> HIDE DEF k, L, length
<1>4. /\ Behind(f, m, 0) = 1
      /\ \A i \in 1 .. k : Behind(f, m, i) = Behind(f, m, i - 1) + L(i)
    BY <1>2, FieldsFollow DEF k
<1>5. Is(h)
    <2>1. ASSUME NEW n \in 0 .. k PROVE h[n] = IF n = 0 THEN 1 ELSE h[n - 1] + L(n)
        <3>1. CASE n = 0
            BY <1>4, <3>1
        <3>2. CASE n # 0
            <4>1. n \in 1 .. k /\ n - 1 \in 0 .. k
                BY <1>1, <3>2
            <4> QED
                BY <1>4, <3>2, <4>1
        <3> QED
            BY <3>1, <3>2
    <2> QED
        BY <2>1
<1>6. Is(length)
    <2> HIDE DEF Is
    <2> QED
        BY <1>5 DEF length
<1>7. /\ length[0] = 1
      /\ \A i \in 1 .. k : length[i] = length[i - 1] + L(i)
    <2>1. length = [n \in 0 .. k |-> IF n = 0 THEN 1 ELSE length[n - 1] + L(n)]
        BY <1>6
    <2> HIDE DEF Is
    <2>2. \A n \in 0 .. k : length[n] = IF n = 0 THEN 1 ELSE length[n - 1] + L(n)
        BY <2>1
    <2>3. length[0] = 1
        BY <1>1, <2>2
    <2>4. ASSUME NEW i \in 1 .. k PROVE length[i] = length[i - 1] + L(i)
        <3>1. i \in 0 .. k /\ i # 0
            BY <1>1
        <3> QED
            BY <2>2, <3>1
    <2> QED
        BY <2>3, <2>4
<1>8. length[k] = Behind(f, m, k)
    <2> DEFINE T == {i \in Nat : length[i] = Behind(f, m, i)}
    <2>1. 0 \in T
        BY <1>4, <1>7
    <2>2. ASSUME NEW i \in 1 .. k, i - 1 \in T PROVE i \in T
        <3>1. length[i - 1] = Behind(f, m, i - 1) /\ i \in Nat
            BY <1>1, <2>2
        <3> QED
            BY <1>4, <1>7, <3>1
    <2> HIDE DEF T
    <2>3. 0 .. k \subseteq T
        BY <1>1, <2>1, <2>2, BoundedInduction
    <2> QED
        BY <1>1, <2>3 DEF T
<1> QED
    BY <1>3, <1>8 DEF k

(* Where the fields lie in the whole.                                      *)
LEMMA FieldsLie ==
    ASSUME NEW f \in DOMAIN Tags, NEW m \in Messages(f), NEW n \in 0 .. Len(Tags[f])
    PROVE  /\ Behind(f, m, n) <= Behind(f, m, Len(Tags[f]))
           /\ \A p \in 1 .. Behind(f, m, n) :
                EncodeFirst(f, m, Len(Tags[f]))[p] = EncodeFirst(f, m, n)[p]
<1> DEFINE k == Len(Tags[f])
           Same(i) == /\ Behind(f, m, n) <= Behind(f, m, i)
                      /\ \A p \in 1 .. Behind(f, m, n) :
                            EncodeFirst(f, m, i)[p] = EncodeFirst(f, m, n)[p]
           T == {i \in Nat : i >= n => Same(i)}
<1>1. k \in Nat /\ n \in Nat /\ n <= k
    BY Formats
<1> HIDE DEF k
<1>2. Behind(f, m, n) \in Nat /\ \A i \in 0 .. k : Behind(f, m, i) \in Nat
    BY FieldsFollow DEF k
<1>3. Same(n)
    BY <1>2
<1>4. ASSUME NEW i \in 1 .. k, i - 1 \in T PROVE i \in T
    <2> SUFFICES ASSUME i >= n, i # n PROVE Same(i)
        BY <1>1, <1>3
    <2>1. i - 1 >= n /\ i - 1 \in 0 .. k
        BY <1>1
    <2>2. Same(i - 1)
        BY <1>1, <1>4, <2>1
    <2> DEFINE a == EncodeFirst(f, m, i - 1)
               b == Field(f, m, i)
    <2>3. a \in Seq(Byte) /\ b \in Seq(Byte) /\ EncodeFirst(f, m, i) = a \o b
        BY <2>1, EncodeFirstRuns, FieldKnown DEF k
    <2>4. Len(a) = Behind(f, m, i - 1)
        BY DEF Behind
    <2> HIDE DEF a, b
    <2>5. /\ Len(a \o b) = Len(a) + Len(b)
          /\ \A p \in 1 .. Len(a) + Len(b) : (a \o b)[p] = IF p <= Len(a) THEN a[p] ELSE b[p - Len(a)]
        BY <2>3, ConcatProperties
    <2>6. Len(a) \in Nat /\ Len(b) \in Nat
        BY <2>3
    <2>7. \A p \in 1 .. Len(a) : (a \o b)[p] = a[p]
        BY <2>5, <2>6
    <2>8. Behind(f, m, i) = Len(a) + Len(b)
        BY <2>3, <2>5 DEF Behind
    <2>9. Behind(f, m, n) <= Len(a) /\ \A p \in 1 .. Behind(f, m, n) : a[p] = EncodeFirst(f, m, n)[p]
        BY <2>2, <2>4 DEF a
    <2>10. \A p \in 1 .. Behind(f, m, n) : p \in 1 .. Len(a)
        BY <1>2, <2>6, <2>9
    <2>11. Behind(f, m, n) <= Behind(f, m, i)
        BY <1>2, <2>6, <2>8, <2>9
    <2> QED
        BY <2>3, <2>7, <2>9, <2>10, <2>11
<1>5. 0 \in T
    BY <1>1, <1>3
<1> HIDE DEF T
<1>6. 0 .. k \subseteq T
    BY <1>1, <1>4, <1>5, BoundedInduction
<1>7. Same(k)
    BY <1>1, <1>6 DEF T
<1> QED
    BY <1>7 DEF k

(* Each field lies behind the one before it.                               *)
LEMMA FieldLies ==
    ASSUME NEW f \in DOMAIN Tags, NEW m \in Messages(f), NEW i \in 1 .. Len(Tags[f])
    PROVE  \A p \in 1 .. Len(Field(f, m, i)) :
             EncodeFirst(f, m, Len(Tags[f]))[Behind(f, m, i - 1) + p] = Field(f, m, i)[p]
<1> DEFINE a == EncodeFirst(f, m, i - 1)
           b == Field(f, m, i)
           w == EncodeFirst(f, m, Len(Tags[f]))
<1>1. Len(Tags[f]) \in Nat
    BY Formats
<1>2. i - 1 \in 0 .. Len(Tags[f]) /\ i \in 0 .. Len(Tags[f])
    BY <1>1
<1>3. a \in Seq(Byte) /\ b \in Seq(Byte) /\ EncodeFirst(f, m, i) = a \o b
    BY <1>2, EncodeFirstRuns, FieldKnown
<1>4. Len(a) = Behind(f, m, i - 1)
    BY DEF Behind
<1>5. \A p \in 1 .. Behind(f, m, i) : w[p] = EncodeFirst(f, m, i)[p]
    BY <1>2, FieldsLie
<1>6. Behind(f, m, i) = Len(a) + Len(b)
    BY <1>4, FieldsFollow
<1> HIDE DEF a, b, w
<1>7. \A p \in 1 .. Len(a) + Len(b) : (a \o b)[p] = IF p <= Len(a) THEN a[p] ELSE b[p - Len(a)]
    BY <1>3, ConcatProperties
<1>8. Len(a) \in Nat /\ Len(b) \in Nat
    BY <1>3
<1>9. ASSUME NEW p \in 1 .. Len(b) PROVE w[Len(a) + p] = b[p]
    <2> DEFINE q == Len(a) + p
    <2>1. q \in 1 .. Len(a) + Len(b) /\ ~(q <= Len(a)) /\ q - Len(a) = p
        BY <1>8
    <2> HIDE DEF q
    <2>2. (a \o b)[q] = b[p]
        BY <1>7, <2>1
    <2>3. w[q] = (a \o b)[q]
        BY <1>3, <1>5, <1>6, <2>1
    <2> QED
        BY <2>2, <2>3 DEF q
<1> QED
    BY <1>4, <1>9 DEF b, w

-----------------------------------------------------------------------------
(* Fields among the bytes of an input.                                     *)

LEMMA LiesParts ==
    ASSUME NEW bytes, NEW start \in Nat, NEW end \in Nat, NEW a \in Seq(Byte), NEW b \in Seq(Byte),
           Lies(bytes, start, end, a \o b)
    PROVE  Lies(bytes, start, end, a) /\ Lies(bytes, start + Len(a), end, b)
<1>1. /\ Len(a \o b) = Len(a) + Len(b)
      /\ \A p \in 1 .. Len(a) + Len(b) : (a \o b)[p] = IF p <= Len(a) THEN a[p] ELSE b[p - Len(a)]
    BY ConcatProperties
<1>2. Len(a) \in Nat /\ Len(b) \in Nat
    OBVIOUS
<1>3. ASSUME NEW p \in 1 .. Len(a) + Len(b), start + p <= end
      PROVE  bytes[start + p] = IF p <= Len(a) THEN a[p] ELSE b[p - Len(a)]
    BY <1>1, <1>3 DEF Lies
<1>4. ASSUME NEW p \in 1 .. Len(a), start + p <= end PROVE bytes[start + p] = a[p]
    <2>1. p \in 1 .. Len(a) + Len(b) /\ p <= Len(a)
        BY <1>2
    <2> QED
        BY <1>3, <1>4, <2>1
<1>5. ASSUME NEW p \in 1 .. Len(b), (start + Len(a)) + p <= end
      PROVE  bytes[(start + Len(a)) + p] = b[p]
    <2> DEFINE q == Len(a) + p
    <2>1. /\ q \in 1 .. Len(a) + Len(b) /\ ~(q <= Len(a)) /\ q - Len(a) = p
          /\ start + q = (start + Len(a)) + p
        BY <1>2
    <2> HIDE DEF q
    <2>2. start + q <= end
        BY <1>5, <2>1
    <2>3. bytes[start + q] = b[q - Len(a)]
        BY <1>3, <2>1, <2>2
    <2> QED
        BY <2>1, <2>3
<1>6. Lies(bytes, start, end, a)
    BY <1>4 DEF Lies
<1>7. Lies(bytes, start + Len(a), end, b)
    BY <1>5 DEF Lies
<1> QED
    BY <1>6, <1>7

(* The parts of a field at q.                                              *)
LEMMA FieldParts ==
    ASSUME NEW bytes, NEW q \in Nat, NEW end \in Nat, NEW e, NEW tag, NEW value, tag \in Byte,
           FieldIs(e, tag, value), Lies(bytes, q, end, e)
    PROVE  LET digits == varint_encode[Count(tag, value)] IN
           /\ digits \in Seq(Byte) /\ Len(digits) \in Nat \ {0}
           /\ Len(e) = (1 + Len(digits)) + Len(Text(tag, value))
           /\ q < end => bytes[q + 1] = tag
           /\ Lies(bytes, q + 1, end, digits)
           /\ Lies(bytes, (q + 1) + Len(digits), end, Text(tag, value))
<1> DEFINE d == varint_encode[Count(tag, value)]
           x == Text(tag, value)
           y == d \o x
<1>1. d \in Seq(Byte) /\ Len(d) \in Nat \ {0} /\ x \in Seq(Byte) /\ e = <<tag>> \o y
    BY EncodedShape DEF FieldIs
<1>2. <<tag>> \in Seq(Byte) /\ Len(<<tag>>) = 1 /\ <<tag>>[1] = tag
    OBVIOUS
<1> HIDE DEF d, x
<1>3. y \in Seq(Byte) /\ Len(y) = Len(d) + Len(x)
    BY <1>1, ConcatProperties
<1> HIDE DEF y
<1>4. Len(<<tag>> \o y) = Len(<<tag>>) + Len(y)
    BY <1>2, <1>3, ConcatProperties
<1>5. Lies(bytes, q, end, <<tag>>) /\ Lies(bytes, q + Len(<<tag>>), end, y)
    BY <1>1, <1>2, <1>3, LiesParts
<1>6. Lies(bytes, q + 1, end, y) /\ q + 1 \in Nat
    BY <1>2, <1>5
<1>7. Lies(bytes, q + 1, end, d) /\ Lies(bytes, (q + 1) + Len(d), end, x)
    BY <1>1, <1>6, LiesParts DEF y
<1>8. q < end => bytes[q + 1] = tag
    <2> SUFFICES ASSUME q < end PROVE bytes[q + 1] = tag
        OBVIOUS
    <2> DEFINE s == <<tag>>
    <2>1. 1 \in 1 .. Len(s) /\ q + 1 <= end /\ s[1] = tag
        BY <1>2
    <2>2. Lies(bytes, q, end, s)
        BY <1>5
    <2> HIDE DEF s
    <2> QED
        BY <2>1, <2>2 DEF Lies
<1>9. Len(e) = (1 + Len(d)) + Len(x)
    <2>1. Len(x) \in Nat
        BY <1>1
    <2> QED
        BY <1>1, <1>2, <1>3, <1>4, <2>1
<1> QED
    BY <1>1, <1>7, <1>8, <1>9 DEF d, x

(* What a reader makes of a field that is there as a whole ...             *)
ReadsWhole(bytes, q, end, e, tag, value) ==
    /\ bytes[q + 1] = tag
    /\ IsNumber(tag) =>
        /\ VarintSkip(bytes, q + 1, end) = q + Len(e)
        /\ value = <<VarintDecode(SubSeq(bytes, q + 2, q + Len(e)), COUNTER_MODULUS)>>
    /\ ~IsNumber(tag) =>
        /\ Fits(bytes, end, q + 1)
        /\ LengthAt(bytes, end, q + 1) = Len(value)
        /\ VarintSkip(bytes, q + 1, end) \in Nat
        /\ VarintSkip(bytes, q + 1, end) + Len(value) = q + Len(e)
        /\ SubSeq(bytes, VarintSkip(bytes, q + 1, end) + 1,
                  VarintSkip(bytes, q + 1, end) + Len(value)) = value

LEMMA FieldWhole ==
    ASSUME NEW bytes \in Seq(Nat), NEW q \in Nat, NEW end \in Nat, end <= Len(bytes),
           NEW e, NEW tag \in Byte, NEW value, FieldIs(e, tag, value),
           Lies(bytes, q, end, e), q + Len(e) <= end
    PROVE  ReadsWhole(bytes, q, end, e, tag, value)
<1> DEFINE c == Count(tag, value)
           d == varint_encode[c]
           x == Text(tag, value)
           modulus == IF IsNumber(tag) THEN COUNTER_MODULUS ELSE SIZE_MODULUS
           start == q + 1
           after == start + Len(d)
<1>1. /\ d \in Seq(Byte) /\ Len(d) \in Nat \ {0}
      /\ Len(e) = (1 + Len(d)) + Len(x)
      /\ q < end => bytes[q + 1] = tag
      /\ Lies(bytes, start, end, d)
      /\ Lies(bytes, after, end, x)
    BY FieldParts
<1>2. /\ c \in Nat /\ c < modulus /\ x \in Seq(Byte)
      /\ IsNumber(tag) => value = <<c>>
    BY DEF FieldIs
<1>3. modulus \in Nat \ {0} /\ start \in Nat
    <2>1. COUNTER_MODULUS \in Nat \ {0} /\ SIZE_MODULUS \in Nat \ {0}
        BY CodecAssumption
    <2> HIDE DEF c, d, x
    <2> QED
        BY <2>1
<1>4. Len(x) \in Nat
    BY <1>2
<1> HIDE DEF d, x, modulus, start, c
<1>5. after \in Nat /\ after + Len(x) = q + Len(e) /\ q < end /\ after <= end /\ start <= after
    <2>1. Len(d) \in Nat \ {0} /\ Len(e) = (1 + Len(d)) + Len(x)
        BY <1>1
    <2>2. start = q + 1
        BY DEF start
    <2> QED
        BY <1>4, <2>1, <2>2
<1>6. VarintSkip(bytes, start, end) = after /\ VarintDecode(SubSeq(bytes, start + 1, after), modulus) = c
    <2>1. /\ c \in Nat /\ c < modulus /\ modulus \in Nat \ {0} /\ start \in Nat
          /\ Lies(bytes, start, end, varint_encode[c]) /\ start + Len(varint_encode[c]) <= end
        BY <1>1, <1>2, <1>3, <1>5 DEF d
    <2>2. after = start + Len(varint_encode[c])
        BY DEF d
    <2> HIDE DEF after
    <2> QED
        BY <2>1, <2>2, IntegerWhole
<1>7. bytes[q + 1] = tag
    BY <1>1, <1>5
<1> HIDE DEF after
<1>8. ASSUME IsNumber(tag)
      PROVE  /\ VarintSkip(bytes, q + 1, end) = q + Len(e)
             /\ value = <<VarintDecode(SubSeq(bytes, q + 2, q + Len(e)), COUNTER_MODULUS)>>
    <2>1. Len(x) = 0
        BY <1>8 DEF x, Text
    <2>2. after = q + Len(e) /\ start + 1 = q + 2
        BY <1>5, <2>1 DEF start
    <2>3. modulus = COUNTER_MODULUS
        BY <1>8 DEF modulus
    <2> QED
        BY <1>2, <1>6, <1>8, <2>2, <2>3 DEF start
<1>9. ASSUME ~IsNumber(tag)
      PROVE  /\ Fits(bytes, end, q + 1)
             /\ LengthAt(bytes, end, q + 1) = Len(value)
             /\ after + Len(value) = q + Len(e)
             /\ SubSeq(bytes, after + 1, after + Len(value)) = value
    <2>1. x = value /\ c = Len(x) /\ modulus = SIZE_MODULUS
        BY <1>9 DEF x, c, Text, Count, modulus
    <2>2. LengthAt(bytes, end, start) = c
        BY <1>6, <2>1 DEF LengthAt
    <2>3. c <= end - after
        BY <1>4, <1>5, <2>1
    <2>4. Fits(bytes, end, start)
        BY <1>6, <2>2, <2>3 DEF Fits
    <2> DEFINE stop == after + Len(x)
               b == SubSeq(bytes, after + 1, stop)
    <2>5. stop \in Nat /\ after <= stop /\ stop <= end /\ stop <= Len(bytes) /\ stop - after = Len(x)
          /\ stop <= after + Len(x)
        BY <1>4, <1>5
    <2> HIDE DEF stop
    <2>6. b \in Seq(Nat) /\ Len(b) = Len(x)
        BY <1>5, <2>5, Slice
    <2>7. Begins(b, x)
        BY <1>1, <1>2, <1>5, <2>5, SliceBegins
    <2>8. x \in Seq(Nat)
        BY <1>2, ByteNat, SeqMonotonic
    <2> HIDE DEF b
    <2>9. b = x
        <3>1. \A i \in 1 .. Len(b) : b[i] = x[i]
            BY <2>7 DEF Begins
        <3> QED
            BY <2>6, <2>8, <3>1, SeqEqual
    <2> QED
        BY <1>5, <2>1, <2>2, <2>4, <2>9 DEF start, b, stop
<1> QED
    BY <1>5, <1>6, <1>7, <1>8, <1>9 DEF ReadsWhole, start

(* ... and of one that the input ends in.                                  *)
ReadsCut(bytes, q, end, tag) ==
    /\ bytes[q + 1] = tag
    /\ IsNumber(tag) => VarintSkip(bytes, q + 1, end) = end
    /\ ~IsNumber(tag) /\ Fits(bytes, end, q + 1) =>
        /\ VarintSkip(bytes, q + 1, end) = end
        /\ LengthAt(bytes, end, q + 1) = 0
        /\ ZeroDigits(bytes, q + 2, end)

LEMMA FieldCut ==
    ASSUME NEW bytes \in Seq(Nat), NEW q \in Nat, NEW end \in Nat, end <= Len(bytes),
           NEW e, NEW tag \in Byte, NEW value, FieldIs(e, tag, value),
           Lies(bytes, q, end, e), q < end, end < q + Len(e)
    PROVE  ReadsCut(bytes, q, end, tag)
<1> DEFINE c == Count(tag, value)
           d == varint_encode[c]
           x == Text(tag, value)
           modulus == IF IsNumber(tag) THEN COUNTER_MODULUS ELSE SIZE_MODULUS
           start == q + 1
           after == start + Len(d)
<1>1. /\ d \in Seq(Byte) /\ Len(d) \in Nat \ {0}
      /\ Len(e) = (1 + Len(d)) + Len(x)
      /\ q < end => bytes[q + 1] = tag
      /\ Lies(bytes, start, end, d)
      /\ Lies(bytes, after, end, x)
    BY FieldParts
<1>2. c \in Nat /\ c < modulus /\ x \in Seq(Byte)
    BY DEF FieldIs
<1>3. modulus \in Nat \ {0} /\ start \in Nat /\ start <= end
    BY CodecAssumption
<1>4. Len(x) \in Nat
    BY <1>2
<1>5. bytes[q + 1] = tag
    BY <1>1
<1> HIDE DEF d, x, modulus, start, c
<1>6. after \in Nat /\ end < after + Len(x)
    BY <1>1, <1>3, <1>4 DEF start
<1>7. CASE after > end
    <2>1. /\ VarintSkip(bytes, start, end) = end
          /\ VarintDecode(SubSeq(bytes, start + 1, end), modulus) = 0 =>
                ZeroDigits(bytes, start + 1, end)
        <3>1. /\ c \in Nat /\ c < modulus /\ modulus \in Nat \ {0} /\ start \in Nat /\ start <= end
              /\ Lies(bytes, start, end, varint_encode[c]) /\ start + Len(varint_encode[c]) > end
            BY <1>1, <1>2, <1>3, <1>7 DEF d
        <3> QED
            BY <3>1, IntegerCut
    <2>2. ASSUME ~IsNumber(tag), Fits(bytes, end, start)
          PROVE  LengthAt(bytes, end, start) = 0 /\ ZeroDigits(bytes, start + 1, end)
        <3> DEFINE n == VarintDecode(SubSeq(bytes, start + 1, end), modulus)
        <3>1. LengthAt(bytes, end, start) = n
            BY <2>1, <2>2 DEF LengthAt, modulus
        <3>2. n \in Nat
            <4>1. SubSeq(bytes, start + 1, end) \in Seq(Nat)
                BY <1>3, Slice
            <4> QED
                BY <1>3, <4>1, DecodeType
        <3> HIDE DEF n
        <3>3. n <= end - end
            BY <2>1, <2>2, <3>1 DEF Fits
        <3>4. n = 0
            BY <3>2, <3>3
        <3> QED
            BY <2>1, <3>1, <3>4 DEF n
    <2>3. start + 1 = q + 2
        BY DEF start
    <2> QED
        BY <1>5, <2>1, <2>2, <2>3 DEF ReadsCut, start
<1>8. CASE after <= end
    <2>1. VarintSkip(bytes, start, end) = after /\ VarintDecode(SubSeq(bytes, start + 1, after), modulus) = c
        <3>1. /\ c \in Nat /\ c < modulus /\ modulus \in Nat \ {0} /\ start \in Nat
              /\ Lies(bytes, start, end, varint_encode[c]) /\ start + Len(varint_encode[c]) <= end
            BY <1>1, <1>2, <1>3, <1>6, <1>8 DEF d
        <3>2. after = start + Len(varint_encode[c])
            BY DEF d
        <3> HIDE DEF after
        <3> QED
            BY <3>1, <3>2, IntegerWhole
    <2>2. ~IsNumber(tag)
        <3> SUFFICES ASSUME IsNumber(tag) PROVE FALSE
            OBVIOUS
        <3>1. Len(x) = 0
            BY DEF x, Text
        <3> QED
            BY <1>6, <1>8, <3>1
    <2>3. c = Len(x) /\ modulus = SIZE_MODULUS
        BY <2>2 DEF c, x, Count, Text, modulus
    <2> HIDE DEF after
    <2>4. LengthAt(bytes, end, start) = c
        BY <2>1, <2>3 DEF LengthAt
    <2>5. ~(c <= end - after)
        BY <1>4, <1>6, <1>8, <2>3
    <2>6. ~Fits(bytes, end, start)
        BY <2>1, <2>4, <2>5 DEF Fits
    <2> QED
        BY <1>5, <2>2, <2>6 DEF ReadsCut, start
<1> QED
    BY <1>6, <1>7, <1>8

(* A field of a later version is passed over.                              *)
Inside(bytes, q, end, u, a, b, start, stop) ==
    /\ u \in Seq(Byte) /\ Lies(bytes, q, end, u)
    /\ q \in Nat /\ end \in Nat /\ a \in Nat /\ b \in Nat
    /\ q + Len(u) <= end /\ a < b /\ b <= Len(u) /\ IsVarint(u, a, b)
    /\ start = q + a /\ stop = q + b

LEMMA SkipInside ==
    ASSUME NEW bytes, NEW q, NEW end, NEW u, NEW a, NEW b, NEW start, NEW stop,
           Inside(bytes, q, end, u, a, b, start, stop)
    PROVE  VarintSkip(bytes, start, end) = stop
<1> USE DEF Inside
<1> DEFINE l == Len(u)
<1>1. l \in Nat /\ start \in Nat /\ stop \in start + 1 .. end /\ end \in Nat
    OBVIOUS
<1>2. \A i \in 1 .. l : bytes[q + i] = u[i]
    <2> SUFFICES ASSUME NEW i \in 1 .. l PROVE bytes[q + i] = u[i]
        OBVIOUS
    <2>1. q + i <= end
        BY <1>1
    <2> QED
        BY <2>1 DEF Lies
<1>3. b \in 1 .. l /\ u[b] < 128
    BY DEF IsVarint
<1>4. \A i \in a + 1 .. b - 1 : u[i] >= 128
    BY DEF IsVarint
<1>5. ASSUME NEW i \in 1 .. l PROVE u[i] \in Nat
    <2>1. u[i] \in Byte
        BY ElementOfSeq
    <2> QED
        BY <2>1, ByteNat
<1>6. ASSUME NEW k \in start + 1 .. stop - 1 PROVE ~(bytes[k] < 128)
    <2> DEFINE i == k - q
    <2>1. i \in a + 1 .. b - 1 /\ i \in 1 .. l /\ k = q + i
        BY <1>1
    <2> HIDE DEF i, l
    <2>2. bytes[k] = u[i] /\ u[i] >= 128 /\ u[i] \in Nat
        BY <1>2, <1>4, <1>5, <2>1
    <2> QED
        BY <2>2
<1>7. bytes[stop] < 128
    BY <1>2, <1>3
<1> QED
    BY <1>1, <1>6, <1>7, SkipEnds

LEMMA UnknownWhole ==
    ASSUME NEW bytes \in Seq(Nat), NEW q \in Nat, NEW end \in Nat, end <= Len(bytes),
           NEW u \in UnknownFields, Lies(bytes, q, end, u), q + Len(u) <= end
    PROVE  /\ u \in Seq(Byte) /\ Len(u) \in Nat \ {0}
           /\ \A f \in DOMAIN Tags : bytes[q + 1] \notin TagsOf(f)
           /\ SkipUnknown(bytes, end, q) = q + Len(u)
<1>1. /\ u \in Seq(Byte)
      /\ \A f \in DOMAIN Tags : u[1] \notin TagsOf(f)
      /\ \E tagged \in 1 .. Len(u) : \E value \in tagged + 1 .. Len(u) :
           /\ IsVarint(u, 0, tagged) /\ IsVarint(u, tagged, value)
           /\ \/ u[1] % 8 = 0 /\ value = Len(u)
              \/ /\ u[1] % 8 = 2
                 /\ value + VarintDecode(SubSeq(u, tagged + 1, value), SIZE_MODULUS) = Len(u)
    BY UnknownAssumption
<1>2. PICK a \in 1 .. Len(u) : \E value \in a + 1 .. Len(u) :
           /\ IsVarint(u, 0, a) /\ IsVarint(u, a, value)
           /\ \/ u[1] % 8 = 0 /\ value = Len(u)
              \/ /\ u[1] % 8 = 2
                 /\ value + VarintDecode(SubSeq(u, a + 1, value), SIZE_MODULUS) = Len(u)
    BY <1>1
<1>3. PICK b \in a + 1 .. Len(u) :
           /\ IsVarint(u, 0, a) /\ IsVarint(u, a, b)
           /\ \/ u[1] % 8 = 0 /\ b = Len(u)
              \/ /\ u[1] % 8 = 2
                 /\ b + VarintDecode(SubSeq(u, a + 1, b), SIZE_MODULUS) = Len(u)
    BY <1>2
<1>4. Len(u) \in Nat \ {0} /\ a \in Nat /\ b \in Nat /\ a <= b /\ b <= Len(u) /\ a \in 0 + 1 .. Len(u)
    BY <1>1
<1>5. bytes[q + 1] = u[1]
    <2>1. 1 \in 1 .. Len(u) /\ q + 1 <= end
        BY <1>4
    <2> QED
        BY <2>1 DEF Lies
<1>6. VarintSkip(bytes, q, end) = q + a
    <2> DEFINE zero == 0
               stop == q + a
    <2>1. Inside(bytes, q, end, u, zero, a, q, stop)
        BY <1>1, <1>3, <1>4 DEF Inside
    <2> HIDE DEF zero, stop
    <2>2. VarintSkip(bytes, q, end) = stop
        BY <2>1, SkipInside
    <2> QED
        BY <2>2 DEF stop
<1>7. VarintSkip(bytes, q + a, end) = q + b
    <2> DEFINE start == q + a
               stop == q + b
    <2>1. Inside(bytes, q, end, u, a, b, start, stop)
        BY <1>1, <1>3, <1>4 DEF Inside
    <2> HIDE DEF start, stop
    <2>2. VarintSkip(bytes, start, end) = stop
        BY <2>1, SkipInside
    <2> QED
        BY <2>2 DEF start, stop
<1> DEFINE n == VarintDecode(SubSeq(u, a + 1, b), SIZE_MODULUS)
<1>8. LengthAt(bytes, end, q + a) = n
    <2> DEFINE start == q + a
               stop == q + b
               v == SubSeq(u, a + 1, b)
               w == SubSeq(bytes, start + 1, stop)
    <2>1. u \in Seq(Nat)
        BY <1>1, ByteNat, SeqMonotonic
    <2>2. v \in Seq(Nat) /\ Len(v) = b - a /\ \A i \in 1 .. b - a : v[i] = u[a + i]
        BY <1>4, <2>1, Slice
    <2>3. start \in Nat /\ stop \in Nat /\ start <= stop /\ stop <= Len(bytes) /\ stop - start = b - a
        BY <1>4
    <2>4. \A i \in 1 .. b - a : bytes[start + i] = u[a + i]
        <3> SUFFICES ASSUME NEW i \in 1 .. b - a PROVE bytes[start + i] = u[a + i]
            OBVIOUS
        <3> DEFINE p == a + i
        <3>1. p \in 1 .. Len(u) /\ q + p <= end /\ start + i = q + p
            BY <1>4
        <3> HIDE DEF p, start
        <3>2. bytes[q + p] = u[p]
            BY <3>1 DEF Lies
        <3> QED
            BY <3>1, <3>2 DEF p
    <2> HIDE DEF start, stop, v
    <2>5. w \in Seq(Nat) /\ Len(w) = stop - start /\ \A i \in 1 .. stop - start : w[i] = bytes[start + i]
        BY <2>3, Slice
    <2> HIDE DEF w
    <2>6. Len(w) = Len(v)
        BY <2>2, <2>3, <2>5
    <2>7. \A i \in 1 .. Len(w) : w[i] = v[i]
        BY <2>2, <2>3, <2>4, <2>5
    <2>8. w = v
        BY <2>2, <2>5, <2>6, <2>7, SeqEqual
    <2>9. LengthAt(bytes, end, start) = VarintDecode(w, SIZE_MODULUS)
        BY <1>7 DEF LengthAt, w, start, stop
    <2> QED
        BY <2>8, <2>9 DEF v, start
<1> HIDE DEF n
<1>9. SkipUnknown(bytes, end, q) = q + Len(u)
    <2> DEFINE tagged == q + a
               value == q + b
    <2>1. SkipUnknown(bytes, end, q) =
              IF bytes[q + 1] % 8 = 0 THEN value
              ELSE IF bytes[q + 1] % 8 = 2 /\ Fits(bytes, end, tagged)
              THEN value + LengthAt(bytes, end, tagged)
              ELSE end
        BY <1>6, <1>7 DEF SkipUnknown
    <2>2. CASE u[1] % 8 = 0 /\ b = Len(u)
        BY <1>5, <2>1, <2>2
    <2>3. CASE u[1] % 8 = 2 /\ b + n = Len(u)
        <3>1. n \in Nat
            <4>1. SubSeq(u, a + 1, b) \in Seq(Nat)
                <5>1. u \in Seq(Nat)
                    BY <1>1, ByteNat, SeqMonotonic
                <5> QED
                    BY <1>4, <5>1, Slice
            <4> QED
                BY <4>1, CodecAssumption, DecodeType DEF n
        <3>2. n <= end - value /\ value + n = q + Len(u)
            <4> DEFINE l == Len(u)
            <4>1. l \in Nat /\ b \in Nat /\ b + n = l /\ q + l <= end
                BY <1>4, <2>3
            <4> HIDE DEF l
            <4>2. n <= end - value /\ value + n = q + l
                BY <3>1, <4>1
            <4> QED
                BY <4>2 DEF l
        <3> HIDE DEF value
        <3>3. Fits(bytes, end, tagged)
            BY <1>7, <1>8, <3>2 DEF Fits, value
        <3> QED
            BY <1>5, <1>8, <2>1, <2>3, <3>2, <3>3
    <2> QED
        BY <1>3, <2>2, <2>3 DEF n
<1> QED
    BY <1>1, <1>4, <1>5, <1>9

(* Every field takes bytes, so that each is further on than the one before.*)
LEMMA BehindGrows ==
    ASSUME NEW f \in DOMAIN Tags, NEW m \in Messages(f),
           NEW a \in 0 .. Len(Tags[f]), NEW b \in 0 .. Len(Tags[f]), a < b
    PROVE  Behind(f, m, a) < Behind(f, m, b)
<1> DEFINE k == Len(Tags[f])
           T == {i \in Nat : a < i => Behind(f, m, a) < Behind(f, m, i)}
<1>1. k \in Nat /\ a \in Nat /\ b \in Nat
    BY Formats
<1>2. \A i \in 0 .. k : Behind(f, m, i) \in Nat
    BY FieldsFollow
<1>3. ASSUME NEW i \in 1 .. k PROVE Behind(f, m, i - 1) < Behind(f, m, i)
    <2>1. Len(Field(f, m, i)) \in Nat \ {0}
        <3> DEFINE tag == Tags[f][i]
                   e == Field(f, m, i)
                   x == varint_encode[Count(tag, m[tag])] \o Text(tag, m[tag])
        <3>1. FieldIs(e, tag, m[tag]) /\ tag \in Byte
            BY FieldKnown, Formats
        <3>2. /\ varint_encode[Count(tag, m[tag])] \in Seq(Byte)
              /\ Text(tag, m[tag]) \in Seq(Byte) /\ e = <<tag>> \o x
            BY <3>1, EncodedShape DEF FieldIs
        <3>3. x \in Seq(Byte) /\ <<tag>> \in Seq(Byte) /\ Len(<<tag>>) = 1
            BY <3>1, <3>2, ConcatProperties
        <3> HIDE DEF x, e, tag
        <3>4. Len(<<tag>> \o x) = Len(<<tag>>) + Len(x) /\ Len(x) \in Nat
            BY <3>3, ConcatProperties
        <3>5. Len(e) \in Nat \ {0}
            BY <3>2, <3>3, <3>4
        <3> QED
            BY <3>5 DEF e
    <2>2. i - 1 \in 0 .. k
        BY <1>1
    <2>3. Behind(f, m, i) = Behind(f, m, i - 1) + Len(Field(f, m, i))
        BY FieldsFollow
    <2>4. Behind(f, m, i - 1) \in Nat
        BY <1>2, <2>2
    <2> QED
        BY <2>1, <2>3, <2>4
<1> HIDE DEF k
<1>4. 0 \in T
    BY <1>1
<1>5. ASSUME NEW i \in 1 .. k, i - 1 \in T PROVE i \in T
    <2> SUFFICES ASSUME a < i PROVE Behind(f, m, a) < Behind(f, m, i)
        BY <1>1
    <2>1. i - 1 \in 0 .. k /\ i \in 0 .. k
        BY <1>1
    <2>2. CASE a = i - 1
        BY <1>3, <2>2
    <2>3. CASE a # i - 1
        <3>1. a < i - 1
            BY <1>1, <2>3
        <3>2. Behind(f, m, a) < Behind(f, m, i - 1)
            BY <1>5, <3>1
        <3>3. a \in 0 .. k
            BY DEF k
        <3> QED
            BY <1>2, <1>3, <2>1, <3>2, <3>3
    <2> QED
        BY <2>2, <2>3
<1> HIDE DEF T
<1>6. 0 .. k \subseteq T
    BY <1>1, <1>4, <1>5, BoundedInduction
<1>7. b \in T
    BY <1>6 DEF k
<1> QED
    BY <1>7 DEF T

(* The whole of a message, with the room for the MAC.                      *)
LEMMA WholeMessage ==
    ASSUME NEW f \in DOMAIN Tags, NEW m \in Messages(f)
    PROVE  /\ EncodeMessage(f, m) \in Seq(Byte)
           /\ Len(EncodeMessage(f, m)) = Behind(f, m, Len(Tags[f])) + TrailerLength[f]
           /\ \A p \in 1 .. Behind(f, m, Len(Tags[f])) :
                EncodeMessage(f, m)[p] = EncodeFirst(f, m, Len(Tags[f]))[p]
<1> DEFINE a == EncodeFirst(f, m, Len(Tags[f]))
           b == Trailer(f)
<1>1. Len(Tags[f]) \in 0 .. Len(Tags[f])
    BY Formats
<1>2. a \in Seq(Byte) /\ Len(a) = Behind(f, m, Len(Tags[f]))
    BY <1>1, EncodeFirstRuns DEF Behind
<1>3. TrailerLength[f] \in Nat
    BY Formats, CodecAssumption
<1>4. b \in Seq(Byte) /\ Len(b) = TrailerLength[f]
    BY <1>3 DEF Trailer, Byte, MESSAGE_TAG
<1>5. EncodeMessage(f, m) = a \o b
    BY DEF EncodeMessage
<1> HIDE DEF a, b
<1>6. a \o b \in Seq(Byte) /\ Len(a \o b) = Len(a) + Len(b)
    BY <1>2, <1>4, ConcatProperties
<1>7. \A p \in 1 .. Len(a) + Len(b) : (a \o b)[p] = IF p <= Len(a) THEN a[p] ELSE b[p - Len(a)]
    BY <1>2, <1>4, ConcatProperties
<1>8. Len(a) \in Nat /\ Len(b) \in Nat
    BY <1>2, <1>4
<1>9. \A p \in 1 .. Len(a) : (a \o b)[p] = a[p]
    BY <1>7, <1>8
<1> QED
    BY <1>2, <1>4, <1>5, <1>6, <1>9 DEF a

(* Where each field lies in it.                                            *)
LEMMA WholeFields ==
    ASSUME NEW f \in DOMAIN Tags, NEW m \in Messages(f), NEW i \in 1 .. Len(Tags[f])
    PROVE  /\ Behind(f, m, i) <= Behind(f, m, Len(Tags[f]))
           /\ \A p \in 1 .. Len(Field(f, m, i)) :
                EncodeMessage(f, m)[Behind(f, m, i - 1) + p] = Field(f, m, i)[p]
<1> DEFINE k == Len(Tags[f])
           e == Field(f, m, i)
           s == Behind(f, m, i - 1)
<1>1. k \in Nat /\ i \in 0 .. k /\ i - 1 \in 0 .. k /\ k \in 0 .. k
    BY Formats
<1>2. Behind(f, m, i) <= Behind(f, m, k)
    BY <1>1, FieldsLie
<1>3. /\ s \in Nat /\ Behind(f, m, k) \in Nat /\ Len(e) \in Nat
      /\ Behind(f, m, i) = s + Len(e)
    <2>1. s \in Nat /\ Behind(f, m, k) \in Nat
        BY <1>1, FieldsFollow
    <2>2. Behind(f, m, i) = s + Len(e)
        BY FieldsFollow
    <2>3. Len(e) \in Nat
        BY FieldKnown
    <2> QED
        BY <2>1, <2>2, <2>3
<1>4. \A p \in 1 .. Len(e) : EncodeFirst(f, m, k)[s + p] = e[p]
    BY FieldLies
<1>5. \A p \in 1 .. Behind(f, m, k) : EncodeMessage(f, m)[p] = EncodeFirst(f, m, k)[p]
    BY WholeMessage
<1> HIDE DEF k, e, s
<1>6. ASSUME NEW p \in 1 .. Len(e) PROVE EncodeMessage(f, m)[s + p] = e[p]
    <2> DEFINE q == s + p
    <2>1. q \in 1 .. Behind(f, m, k)
        BY <1>2, <1>3
    <2> HIDE DEF q
    <2>2. EncodeMessage(f, m)[q] = EncodeFirst(f, m, k)[q]
        BY <1>5, <2>1
    <2> QED
        BY <1>4, <2>2 DEF q
<1> QED
    BY <1>2, <1>6 DEF k, e, s

-----------------------------------------------------------------------------
(* A call of a reader.                                                     *)

(* What is known whatever bytes arrive.                                    *)
Typed ==
    /\ format \in DOMAIN Tags /\ input \in Seq(Nat)
    /\ pos \in Nat /\ next \in Nat /\ (next > 0 => pos > 0) /\ (pos > 0 => pos <= End)
    /\ DOMAIN fields = TagsOf(format)
    /\ \A tag \in TagsOf(format) : fields[tag] # <<>> /\ ~IsNumber(tag) =>
          /\ fields[tag][1].start \in Nat /\ fields[tag][1].length \in Nat
          /\ fields[tag][1].start > 0
          /\ fields[tag][1].start + fields[tag][1].length <= End

(* How a message lies in the input: with the field u of a later version    *)
(* behind its first n fields, or without one.                              *)
K == Len(Tags[format])
B(i) == Behind(format, origin, i)
At(n, u, i) == B(i - 1) + (IF i > n THEN Len(u) ELSE 0)

Laid(n, u) ==
    /\ n \in 0 .. K
    /\ \/ u = <<>> /\ n = K
       \/ u \in UnknownFields /\ change # "cut"
    /\ \A i \in 1 .. K : Lies(input, At(n, u, i), End, Field(format, origin, i))
    /\ Lies(input, B(n), End, u)
    /\ End > 0 => input[1] = PROTOCOL_VERSION
    /\ End \in Int /\ End <= Len(input)
    /\ IF change = "cut" THEN End < B(K) ELSE End = B(K) + Len(u)

(* Where a reader is: behind i fields, and the one it does not know if j   *)
(* says so, with those read and none of the others.  It does not reach the *)
(* end of a turn in which it could read a field, nor begin one at the end. *)
ReadRight(tag) ==
    /\ Has(tag)
    /\ origin[tag] = IF IsNumber(tag) THEN fields[tag]
                     ELSE SubSeq(input, fields[tag][1].start + 1,
                                 fields[tag][1].start + fields[tag][1].length)

Tag(i) == Tags[format][i]
AtField(n, u, i, j) == i < n \/ j = Len(u)

Where(n, u, i, j) ==
    /\ i < n => j = 0
    /\ i > n => j = Len(u)
    /\ pos = B(i) + j
    /\ \A h \in 1 .. i : ReadRight(Tag(h))
    /\ \A h \in i + 1 .. K : fields[Tag(h)] = <<>>
    /\ i < K /\ unknown = pos /\ AtField(n, u, i, j) => next <= i + 1

Reading(n, u) == \E i \in 0 .. K, j \in {0, Len(u)} : Where(n, u, i, j)

(* Or it has come to the end of a message that is cut short in a field.    *)
EmptyLast ==
    /\ fields[Tag(K)] = <<[start |-> End, length |-> 0]>>
    /\ \E p \in 1 .. End : input[p] = Tag(K) /\ ZeroDigits(input, p + 1, End)

Stopped == change = "cut" /\ pos = End /\ (fields[Tag(K)] = <<>> \/ EmptyLast)

Turn ==
    /\ version = PROTOCOL_VERSION
    /\ unknown \in Nat /\ unknown <= pos /\ next \in 1 .. K + 1
    /\ unknown = pos /\ pos = End => next = 1
    /\ done => pos = End

NotBegun ==
    /\ pos = 0 /\ next = 0 /\ (done => End <= 0)
    /\ \A i \in 1 .. K : fields[Tag(i)] = <<>>

Called(n, u) == NotBegun \/ (pos > 0 /\ Turn /\ (Reading(n, u) \/ Stopped))

Sent == change # "any"

MessageRead ==
    Sent => /\ origin \in Messages(format)
            /\ \E n \in 0 .. K, u \in {<<>>} \cup UnknownFields : Laid(n, u) /\ Called(n, u)

RoomMade == change = "none" => Len(input) = EncodedLength(format, origin)

(* What a reader is given are bytes.                                       *)
LEMMA AnyBytes ==
    ASSUME NEW n \in Nat, NEW s \in BoundedSeq(Alphabet, n)
    PROVE  s \in Seq(Byte)
<1>1. PICK l \in 0 .. n : s \in [1 .. l -> Alphabet]
    BY DEF BoundedSeq, SeqOf
<1>2. Alphabet \subseteq Byte
    BY BytesAssumption
<1>3. s \in [1 .. l -> Byte] /\ l \in Nat
    BY <1>1, <1>2
<1> QED
    BY <1>3

LEMMA CutOff ==
    ASSUME NEW w \in Seq(Byte), NEW n \in 0 .. Len(w) - 1
    PROVE  /\ SubSeq(w, 1, n) \in Seq(Byte) /\ Len(SubSeq(w, 1, n)) = n
           /\ \A p \in 1 .. n : SubSeq(w, 1, n)[p] = w[p]
<1> DEFINE one == 1
<1>1. n \in Nat /\ n < Len(w) /\ Len(w) \in Nat /\ one \in Int /\ n \in Int
    OBVIOUS
<1>2. ASSUME NEW i \in one .. n PROVE w[i] \in Byte
    <2>1. i \in 1 .. Len(w)
        BY <1>1
    <2> QED
        BY <2>1, ElementOfSeq
<1> HIDE DEF one
<1>3. /\ SubSeq(w, one, n) \in Seq(Byte)
      /\ Len(SubSeq(w, one, n)) = IF one <= n THEN (n - one) + 1 ELSE 0
      /\ \A i \in 1 .. (n - one) + 1 : SubSeq(w, one, n)[i] = w[one + (i - 1)]
    BY <1>1, <1>2, SubSeqProperties
<1>4. Len(SubSeq(w, 1, n)) = n
    BY <1>1, <1>3 DEF one
<1>5. ASSUME NEW p \in 1 .. n PROVE SubSeq(w, 1, n)[p] = w[p]
    <2>1. p \in 1 .. (n - one) + 1 /\ one + (p - 1) = p
        BY <1>1 DEF one
    <2>2. SubSeq(w, one, n)[p] = w[p]
        BY <1>3, <2>1
    <2> QED
        BY <2>2 DEF one
<1> QED
    BY <1>3, <1>4, <1>5 DEF one

(* A field put between the first bytes of a message and the others.        *)
LEMMA PutBetween ==
    ASSUME NEW w \in Seq(Byte), NEW a \in Seq(Byte), NEW u \in Seq(Byte), Len(a) <= Len(w),
           \A p \in 1 .. Len(a) : a[p] = w[p]
    PROVE  LET s == (a \o u) \o SubSeq(w, Len(a) + 1, Len(w)) IN
           /\ s \in Seq(Byte) /\ Len(s) = Len(w) + Len(u)
           /\ \A p \in 1 .. Len(a) : s[p] = w[p]
           /\ \A p \in 1 .. Len(u) : s[Len(a) + p] = u[p]
           /\ \A p \in Len(a) + 1 .. Len(w) : s[p + Len(u)] = w[p]
<1> DEFINE r == SubSeq(w, Len(a) + 1, Len(w))
           x == a \o u
           s == x \o r
<1>1. Len(a) \in Nat /\ Len(w) \in Nat /\ Len(u) \in Nat /\ w \in Seq(Nat)
    <2>1. Len(a) \in Nat /\ Len(w) \in Nat /\ Len(u) \in Nat
        OBVIOUS
    <2> QED
        BY <2>1, ByteNat, SeqMonotonic
<1>2. /\ Len(r) = Len(w) - Len(a)
      /\ \A i \in 1 .. Len(w) - Len(a) : r[i] = w[Len(a) + i]
    <2> DEFINE start == Len(a)
               stop == Len(w)
    <2>1. start \in Nat /\ stop \in Nat /\ start <= stop /\ stop <= Len(w)
        BY <1>1
    <2> HIDE DEF start, stop
    <2>2. /\ Len(SubSeq(w, start + 1, stop)) = stop - start
          /\ \A i \in 1 .. stop - start : SubSeq(w, start + 1, stop)[i] = w[start + i]
        BY <1>1, <2>1, Slice
    <2> QED
        BY <2>2 DEF start, stop
<1>3. r \in Seq(Byte)
    <2>1. ASSUME NEW i \in Len(a) + 1 .. Len(w) PROVE w[i] \in Byte
        <3>1. i \in 1 .. Len(w)
            BY <1>1
        <3> QED
            BY <3>1, ElementOfSeq
    <2>2. Len(a) + 1 \in Int /\ Len(w) \in Int
        BY <1>1
    <2> QED
        BY <2>1, <2>2, SubSeqProperties
<1> HIDE DEF r
<1>4. /\ x \in Seq(Byte) /\ Len(x) = Len(a) + Len(u)
      /\ \A p \in 1 .. Len(a) + Len(u) : x[p] = IF p <= Len(a) THEN a[p] ELSE u[p - Len(a)]
    BY ConcatProperties
<1> HIDE DEF x
<1> HIDE DEF s
<1>5. /\ s \in Seq(Byte) /\ Len(s) = Len(x) + Len(r)
      /\ \A p \in 1 .. Len(x) + Len(r) : s[p] = IF p <= Len(x) THEN x[p] ELSE r[p - Len(x)]
    <2>1. x \in Seq(Byte) /\ r \in Seq(Byte)
        BY <1>3, <1>4
    <2>2. /\ x \o r \in Seq(Byte) /\ Len(x \o r) = Len(x) + Len(r)
          /\ \A p \in 1 .. Len(x) + Len(r) :
                (x \o r)[p] = IF p <= Len(x) THEN x[p] ELSE r[p - Len(x)]
        BY <2>1, ConcatProperties
    <2> QED
        BY <2>2 DEF s
<1>6. Len(s) = Len(w) + Len(u)
    BY <1>1, <1>2, <1>4, <1>5
<1>7. ASSUME NEW p \in 1 .. Len(a) PROVE s[p] = w[p]
    <2>1. p \in 1 .. Len(a) + Len(u) /\ p \in 1 .. Len(x) + Len(r) /\ p <= Len(x) /\ p <= Len(a)
        BY <1>1, <1>2, <1>4
    <2>2. s[p] = x[p] /\ x[p] = a[p]
        BY <1>4, <1>5, <2>1
    <2> QED
        BY <2>2
<1>8. ASSUME NEW p \in 1 .. Len(u) PROVE s[Len(a) + p] = u[p]
    <2> DEFINE q == Len(a) + p
    <2>1. /\ q \in 1 .. Len(a) + Len(u) /\ q \in 1 .. Len(x) + Len(r)
          /\ q <= Len(x) /\ ~(q <= Len(a)) /\ q - Len(a) = p
        BY <1>1, <1>2, <1>4
    <2> HIDE DEF q
    <2>2. s[q] = x[q] /\ x[q] = u[p]
        BY <1>4, <1>5, <2>1
    <2> QED
        BY <2>2 DEF q
<1>9. ASSUME NEW p \in Len(a) + 1 .. Len(w) PROVE s[p + Len(u)] = w[p]
    <2> DEFINE q == p + Len(u)
               i == p - Len(a)
    <2>1. /\ q \in 1 .. Len(x) + Len(r) /\ ~(q <= Len(x)) /\ q - Len(x) = i
          /\ i \in 1 .. Len(w) - Len(a) /\ Len(a) + i = p
        BY <1>1, <1>2, <1>4
    <2> HIDE DEF q, i
    <2>2. s[q] = r[i] /\ r[i] = w[p]
        BY <1>2, <1>5, <2>1
    <2> QED
        BY <2>2 DEF q
<1> QED
    BY <1>5, <1>6, <1>7, <1>8, <1>9 DEF s, x, r

(* The bytes before each field are the first bytes of the whole.           *)
LEMMA Beginning ==
    ASSUME NEW f \in DOMAIN Tags, NEW m \in Messages(f), NEW n \in 0 .. Len(Tags[f])
    PROVE  /\ Len(EncodeFirst(f, m, n)) <= Len(EncodeMessage(f, m))
           /\ \A p \in 1 .. Len(EncodeFirst(f, m, n)) :
                EncodeFirst(f, m, n)[p] = EncodeMessage(f, m)[p]
<1> DEFINE k == Len(Tags[f])
           a == EncodeFirst(f, m, n)
           b == EncodeFirst(f, m, k)
           w == EncodeMessage(f, m)
<1>1. k \in 0 .. k
    BY Formats
<1>2. TrailerLength[f] \in Nat
    BY Formats, CodecAssumption
<1>3. /\ Len(a) <= Behind(f, m, k)
      /\ \A p \in 1 .. Len(a) : b[p] = a[p]
    BY FieldsLie DEF Behind
<1>4. /\ Len(w) = Behind(f, m, k) + TrailerLength[f]
      /\ \A p \in 1 .. Behind(f, m, k) : w[p] = b[p]
    BY WholeMessage
<1>5. Len(a) \in Nat /\ Behind(f, m, k) \in Nat
    BY <1>1, FieldsFollow DEF Behind
<1> HIDE DEF a, b, w, k
<1>6. Len(a) <= Len(w)
    BY <1>2, <1>3, <1>4, <1>5
<1>7. ASSUME NEW p \in 1 .. Len(a) PROVE a[p] = w[p]
    <2>1. p \in 1 .. Behind(f, m, k)
        BY <1>3, <1>5
    <2> QED
        BY <1>3, <1>4, <2>1
<1> QED
    BY <1>6, <1>7 DEF a, w

(* A length is a number, whatever the bytes are ...                        *)
LEMMA LengthIsNumber ==
    ASSUME NEW bytes \in Seq(Nat), NEW end \in Nat, NEW start \in Nat,
           start <= end, end <= Len(bytes)
    PROVE  LengthAt(bytes, end, start) \in Nat
<1> DEFINE stop == VarintSkip(bytes, start, end)
<1>1. stop \in start .. end
    BY SkipBounds
<1> HIDE DEF stop
<1>2. stop \in Nat /\ start <= stop /\ stop <= Len(bytes)
    BY <1>1
<1>3. SubSeq(bytes, start + 1, stop) \in Seq(Nat)
    BY <1>2, Slice
<1>4. VarintDecode(SubSeq(bytes, start + 1, stop), SIZE_MODULUS) \in Nat
    BY <1>3, CodecAssumption, DecodeType
<1> QED
    BY <1>4 DEF LengthAt, stop

(* ... and an unknown field is not passed over beyond the end.             *)
LEMMA UnknownInside ==
    ASSUME NEW bytes \in Seq(Nat), NEW end \in Nat, NEW start \in Nat,
           start <= end, end <= Len(bytes)
    PROVE  /\ SkipUnknown(bytes, end, start) \in start .. end
           /\ start < end => start < SkipUnknown(bytes, end, start)
<1> DEFINE tagged == VarintSkip(bytes, start, end)
           value == VarintSkip(bytes, tagged, end)
           n == LengthAt(bytes, end, tagged)
<1>1. tagged \in start .. end /\ (start < end => start < tagged)
    BY SkipBounds
<1> HIDE DEF tagged
<1>2. tagged \in Nat /\ tagged <= end
    BY <1>1
<1>3. value \in tagged .. end
    BY <1>2, SkipBounds
<1>4. n \in Nat
    BY <1>2, LengthIsNumber
<1>5. SkipUnknown(bytes, end, start) =
          IF bytes[start + 1] % 8 = 0 THEN value
          ELSE IF bytes[start + 1] % 8 = 2 /\ Fits(bytes, end, tagged) THEN value + n ELSE end
    BY DEF SkipUnknown, tagged
<1>6. Fits(bytes, end, tagged) => n <= end - value
    BY DEF Fits
<1> HIDE DEF value, n
<1> QED
    BY <1>1, <1>3, <1>4, <1>5, <1>6

(* A field u of a later version behind the first n.                        *)
Between(f, m, n, u) ==
    (EncodeFirst(f, m, n) \o u)
    \o SubSeq(EncodeMessage(f, m), Len(EncodeFirst(f, m, n)) + 1, Len(EncodeMessage(f, m)))

LEMMA WithUnknownMeans ==
    ASSUME NEW f, NEW m, NEW s \in WithUnknown(f, m)
    PROVE  \E n \in 0 .. Len(Tags[f]), u \in UnknownFields : s = Between(f, m, n, u)
<1>1. WithUnknown(f, m) = {Between(f, m, n, u) : n \in 0 .. Len(Tags[f]), u \in UnknownFields}
    BY DEF WithUnknown, Between
<1>2. s \in {Between(f, m, n, u) : n \in 0 .. Len(Tags[f]), u \in UnknownFields}
    BY <1>1
<1> QED
    BY <1>2

LEMMA InputTyped == Init => input \in Seq(Nat)
<1> SUFFICES ASSUME Init PROVE input \in Seq(Nat)
    OBVIOUS
<1>1. format \in DOMAIN Tags
    BY DEF Init
<1> SUFFICES input \in Seq(Byte)
    BY ByteNat, SeqMonotonic
<1>2. ASSUME NEW m \in Messages(format), input = EncodeMessage(format, m) PROVE input \in Seq(Byte)
    BY <1>1, <1>2, WholeMessage
<1>3. ASSUME NEW m \in Messages(format), input \in CutShort(EncodeMessage(format, m))
      PROVE  input \in Seq(Byte)
    <2> DEFINE w == EncodeMessage(format, m)
    <2>1. w \in Seq(Byte)
        BY <1>1, WholeMessage
    <2>2. PICK n \in 0 .. Len(w) - 1 : input = SubSeq(w, 1, n)
        BY <1>3 DEF CutShort
    <2> HIDE DEF w
    <2> QED
        BY <2>1, <2>2, CutOff
<1>4. ASSUME NEW m \in Messages(format), input \in WithUnknown(format, m)
      PROVE  input \in Seq(Byte)
    <2> DEFINE w == EncodeMessage(format, m)
    <2>1. PICK n \in 0 .. Len(Tags[format]), u \in UnknownFields :
              input = Between(format, m, n, u)
        BY <1>4, WithUnknownMeans
    <2> DEFINE a == EncodeFirst(format, m, n)
    <2>2. w \in Seq(Byte) /\ a \in Seq(Byte) /\ u \in Seq(Byte)
        BY <1>1, WholeMessage, EncodeFirstRuns, UnknownAssumption
    <2>3. Len(a) <= Len(w) /\ \A p \in 1 .. Len(a) : a[p] = w[p]
        BY <1>1, Beginning
    <2> HIDE DEF w, a
    <2>4. (a \o u) \o SubSeq(w, Len(a) + 1, Len(w)) \in Seq(Byte)
        BY <2>2, <2>3, PutBetween
    <2> QED
        BY <2>1, <2>4 DEF a, w, Between
<1>5. CASE input \in BoundedSeq(Alphabet, MaxLength)
    BY <1>5, AnyBytes, CodecAssumption
<1> QED
    BY <1>2, <1>3, <1>4, <1>5 DEF Init

(* The position and the strings stay inside, whatever bytes arrive.        *)
LEMMA TypedStays == Typed /\ [Next]_vars => Typed'
<1> SUFFICES ASSUME Typed, [Next]_vars PROVE Typed'
    OBVIOUS
<1> DEFINE end == End
<1>1. /\ end \in Int /\ end <= Len(input) /\ input \in Seq(Nat) /\ format \in DOMAIN Tags
      /\ pos \in Nat /\ next \in Nat
    <2>1. TrailerLength[format] \in Nat
        BY Formats, CodecAssumption DEF Typed
    <2> QED
        BY <2>1 DEF Typed, End
<1>2. CASE UNCHANGED <<message_vars, pos, fields>> /\ (next' > 0 => pos > 0) /\ next' \in Nat
    BY <1>2 DEF Typed, message_vars, End
<1>3. CASE NothingToRead
    BY <1>2, <1>3 DEF NothingToRead, Typed
<1>4. CASE ReadVersion
    BY <1>1, <1>4 DEF ReadVersion, Typed, message_vars, End
<1>5. CASE Decode
    <2> DEFINE tag == Tags[format][next]
               start == VarintSkip(input, pos + 1, end)
               length == LengthAt(input, end, pos + 1)
    <2>1. /\ next \in 1 .. Len(Tags[format]) /\ next' = next + 1 /\ UNCHANGED message_vars
          /\ DecodeNumber(tag) \/ DecodeString(tag) \/ StringTooLong(tag) \/ OtherTag(tag)
        BY <1>5 DEF Decode, InLoop
    <2>2. pos > 0 /\ pos <= end /\ end \in Nat /\ next' \in Nat
        BY <1>1, <2>1 DEF Typed
    <2>3. tag \in TagsOf(format)
        BY <1>1, <2>1, Formats
    <2>4. end' = end /\ format' = format /\ input' = input
        BY <2>1 DEF message_vars, End
    <2>5. pos # end =>
             /\ start \in pos + 1 .. end /\ length \in Nat
             /\ Fits(input, end, pos + 1) => length <= end - start
        <3> SUFFICES ASSUME pos # end
                     PROVE  /\ start \in pos + 1 .. end /\ length \in Nat
                            /\ Fits(input, end, pos + 1) => length <= end - start
            OBVIOUS
        <3> DEFINE q == pos + 1
        <3>1. q \in Nat /\ q <= end
            BY <1>1, <2>2
        <3> HIDE DEF end, q
        <3>2. VarintSkip(input, q, end) \in q .. end
            BY <2>2, <3>1, SkipBounds
        <3>3. LengthAt(input, end, q) \in Nat
            BY <1>1, <2>2, <3>1, LengthIsNumber
        <3>4. Fits(input, end, q) => LengthAt(input, end, q) <= end - VarintSkip(input, q, end)
            BY DEF Fits
        <3> QED
            BY <3>2, <3>3, <3>4 DEF q
    <2>6. CASE DecodeNumber(tag)
        <3>1. /\ pos # end /\ IsNumber(tag) /\ pos' = start
              /\ \E v : fields' = [fields EXCEPT ![tag] = v]
            BY <2>6 DEF DecodeNumber, AtTag
        <3> HIDE DEF start, length, tag, end
        <3>2. pos' \in Nat /\ pos' > 0 /\ pos' <= end
            BY <1>1, <2>2, <2>5, <3>1
        <3> QED
            BY <2>2, <2>3, <2>4, <3>1, <3>2 DEF Typed, end
    <2>7. CASE DecodeString(tag)
        <3>1. /\ pos # end /\ Fits(input, end, pos + 1) /\ pos' = start + length
              /\ fields' = [fields EXCEPT ![tag] = <<[start |-> start, length |-> length]>>]
            BY <2>7 DEF DecodeString, AtTag
        <3> HIDE DEF start, length, tag, end
        <3>2. /\ pos' \in Nat /\ pos' > 0 /\ pos' <= end
              /\ start \in Nat /\ start > 0 /\ length \in Nat /\ start + length <= end
            BY <1>1, <2>2, <2>5, <3>1
        <3> QED
            BY <2>2, <2>3, <2>4, <3>1, <3>2 DEF Typed, end
    <2>8. CASE StringTooLong(tag)
        <3>1. pos' = end /\ fields' = fields
            BY <2>8 DEF StringTooLong
        <3> QED
            BY <2>2, <2>4, <3>1 DEF Typed
    <2>9. CASE OtherTag(tag)
        BY <2>2, <2>4, <2>9 DEF OtherTag, Typed
    <2> QED
        BY <2>1, <2>6, <2>7, <2>8, <2>9
<1>6. CASE EndTurn
    <2>1. /\ next = Len(Tags[format]) + 1 /\ next' = 1 /\ UNCHANGED <<message_vars, fields>>
          /\ pos' = IF unknown = pos THEN SkipUnknown(input, end, pos) ELSE pos
        BY <1>6 DEF EndTurn
    <2>2. pos > 0 /\ pos <= end /\ end \in Nat
        BY <1>1, <2>1, Formats DEF Typed
    <2> HIDE DEF end
    <2>3. SkipUnknown(input, end, pos) \in pos .. end
        BY <1>1, <2>2, UnknownInside
    <2>4. pos' \in Nat /\ pos' > 0 /\ pos' <= end
        BY <1>1, <2>1, <2>2, <2>3
    <2> QED
        BY <2>1, <2>4 DEF Typed, message_vars, End, end
<1>7. CASE Return
    BY <1>7 DEF Return, Typed, message_vars, End
<1>8. CASE UNCHANGED vars
    BY <1>8 DEF vars, Typed, message_vars, End
<1> QED
    BY <1>3, <1>4, <1>5, <1>6, <1>7, <1>8 DEF Next

LEMMA InitTyped == Init => Typed
<1> SUFFICES ASSUME Init PROVE Typed
    OBVIOUS
<1>1. \A tag \in TagsOf(format) : fields[tag] = <<>>
    BY DEF Init
<1>2. input \in Seq(Nat)
    BY InputTyped
<1> QED
    BY <1>1, <1>2 DEF Init, Typed

LEMMA CallTyped == Spec => []Typed
BY InitTyped, TypedStays, PTL DEF Spec

(* A reader never looks beyond the bytes before the MAC, nor returns a     *)
(* string that reaches into it, whatever bytes arrive: where it is and     *)
(* where its strings are is checked against the end at each of its steps.  *)
THEOREM StaysInside == Spec => []InsideInput
<1>1. Typed => InsideInput
    <2> SUFFICES ASSUME Typed PROVE InsideInput
        OBVIOUS
    <2>1. End \in Int
        BY Formats, CodecAssumption DEF Typed, End
    <2>2. pos <= (IF End > 0 THEN End ELSE 0)
        BY <2>1 DEF Typed
    <2> QED
        BY <2>2 DEF Typed, InsideInput, Has
<1> QED
    BY <1>1, CallTyped, PTL

(* What does not change during a call.                                     *)
LEMMA Unmoved ==
    ASSUME UNCHANGED message_vars
    PROVE  /\ format' = format /\ input' = input /\ origin' = origin /\ change' = change
           /\ K' = K /\ End' = End
           /\ \A i : B(i)' = B(i) /\ Tag(i)' = Tag(i)
           /\ \A n, u : Laid(n, u)' = Laid(n, u)
<1>1. format' = format /\ input' = input /\ origin' = origin /\ change' = change
    BY DEF message_vars
<1>2. K' = K /\ End' = End
    BY <1>1 DEF K, End
<1>3. \A i : B(i)' = B(i) /\ Tag(i)' = Tag(i)
    BY <1>1 DEF B, Tag
<1>4. ASSUME NEW n, NEW u PROVE Laid(n, u)' = Laid(n, u)
    <2>1. \A i : At(n, u, i)' = At(n, u, i)
        BY <1>3 DEF At
    <2> QED
        BY <1>1, <1>2, <1>3, <2>1 DEF Laid
<1> QED
    BY <1>1, <1>2, <1>3, <1>4

(* How the positions lie.                                                  *)
LEMMA Places ==
    ASSUME Typed, origin \in Messages(format), NEW n, NEW u, Laid(n, u)
    PROVE  /\ K \in Nat /\ K >= 2 /\ n \in 0 .. K /\ u \in Seq(Byte) /\ Len(u) \in Nat
           /\ End \in Int /\ End <= Len(input)
           /\ B(0) = 1
           /\ \A i \in 0 .. K : B(i) \in Nat /\ B(i) >= 1
           /\ \A i \in 1 .. K : B(i) = B(i - 1) + Len(Field(format, origin, i))
           /\ \A a, b \in 0 .. K : a < b => B(a) < B(b)
           /\ \A a, b \in 0 .. K : a <= b => B(a) <= B(b)
           /\ \A i \in 1 .. K : Tag(i) \in Byte /\ Tag(i) \in TagsOf(format)
           /\ \A i, j \in 1 .. K : Tag(i) = Tag(j) => i = j
           /\ ~IsNumber(Tag(K))
<1>1. format \in DOMAIN Tags
    BY DEF Typed
<1>2. /\ K \in Nat /\ K >= 2
      /\ \A i \in 1 .. K : Tag(i) \in Byte /\ Tag(i) \in TagsOf(format)
      /\ \A i, j \in 1 .. K : Tag(i) = Tag(j) => i = j
      /\ ~IsNumber(Tag(K))
    BY <1>1, Formats DEF K, Tag
<1>3. n \in 0 .. K /\ End \in Int /\ End <= Len(input) /\ (u = <<>> \/ u \in UnknownFields)
    BY DEF Laid
<1>4. u \in Seq(Byte) /\ Len(u) \in Nat
    <2>1. \A field \in UnknownFields : field \in Seq(Byte)
        BY UnknownAssumption
    <2>2. <<>> \in Seq(Byte)
        OBVIOUS
    <2>3. u \in Seq(Byte)
        BY <1>3, <2>1, <2>2
    <2> QED
        BY <2>3
<1>5. /\ B(0) = 1 /\ \A i \in 0 .. K : B(i) \in Nat /\ B(i) >= 1
      /\ \A i \in 1 .. K : B(i) = B(i - 1) + Len(Field(format, origin, i))
    BY <1>1, FieldsFollow DEF B, K
<1>6. \A a, b \in 0 .. K : a < b => B(a) < B(b)
    BY <1>1, BehindGrows DEF B, K
<1>7. ASSUME NEW a \in 0 .. K, NEW b \in 0 .. K, a <= b PROVE B(a) <= B(b)
    <2>1. CASE a = b
        BY <1>5, <2>1
    <2>2. CASE a # b
        <3>1. a < b
            BY <1>7, <2>2
        <3> QED
            BY <1>5, <1>6, <3>1
    <2> QED
        BY <2>1, <2>2
<1> QED
    BY <1>2, <1>3, <1>4, <1>5, <1>6, <1>7

(* A reader is at the end, at a field that it does not know, or at the     *)
(* next of those it does, of which the last may be cut short.              *)
AtUnknown(n, u, i, j) ==
    /\ i = n /\ j = 0 /\ change # "cut" /\ ~AtField(n, u, i, j)
    /\ Len(u) \in Nat \ {0} /\ B(n) + Len(u) <= End
    /\ input[pos + 1] \notin TagsOf(format)
    /\ SkipUnknown(input, End, pos) = B(n) + Len(u)

AtNext(n, u, i, j) ==
    /\ i + 1 \in 1 .. K /\ AtField(n, u, i, j)
    /\ \/ ReadsWhole(input, pos, End, Field(format, origin, i + 1), Tag(i + 1), origin[Tag(i + 1)])
       \/ change = "cut" /\ ReadsCut(input, pos, End, Tag(i + 1))

LEMMA WhereNow ==
    ASSUME Typed, origin \in Messages(format), NEW n, NEW u, Laid(n, u),
           NEW i \in 0 .. K, NEW j \in {0, Len(u)}, Where(n, u, i, j), pos > 0, pos # End
    PROVE  pos < End /\ (AtUnknown(n, u, i, j) \/ AtNext(n, u, i, j))
<1> DEFINE end == End
           L == Len(u)
<1>1. /\ K \in Nat /\ n \in 0 .. K /\ u \in Seq(Byte) /\ L \in Nat
      /\ end \in Int /\ end <= Len(input) /\ K \in 0 .. K
      /\ \A a \in 0 .. K : B(a) \in Nat
      /\ \A a, b \in 0 .. K : a <= b => B(a) <= B(b)
      /\ \A a \in 1 .. K : B(a) = B(a - 1) + Len(Field(format, origin, a))
    <2>1. /\ K \in Nat /\ n \in 0 .. K /\ u \in Seq(Byte) /\ L \in Nat
          /\ end \in Int /\ end <= Len(input)
        BY Places
    <2>2. /\ \A a \in 0 .. K : B(a) \in Nat
          /\ \A a, b \in 0 .. K : a <= b => B(a) <= B(b)
          /\ \A a \in 1 .. K : B(a) = B(a - 1) + Len(Field(format, origin, a))
        BY Places
    <2>3. K \in 0 .. K
        BY <2>1
    <2> QED
        BY <2>1, <2>2, <2>3
<1>2. /\ pos = B(i) + j /\ j \in Nat /\ j <= L
      /\ (i < n => j = 0) /\ (i > n => j = L)
    <2>1. pos = B(i) + j /\ (i < n => j = 0) /\ (i > n => j = L)
        BY DEF Where
    <2>2. j \in Nat /\ j <= L
        <3>1. L \in Nat /\ j \in {0, L}
            BY <1>1
        <3> HIDE DEF L
        <3> QED
            BY <3>1
    <2> QED
        BY <2>1, <2>2
<1>3. /\ Lies(input, B(n), end, u)
      /\ IF change = "cut" THEN end < B(K) ELSE end = B(K) + L
      /\ (u = <<>> /\ n = K) \/ (u \in UnknownFields /\ change # "cut")
      /\ \A a \in 1 .. K : Lies(input, At(n, u, a), end, Field(format, origin, a))
    BY DEF Laid
<1>4. pos \in Nat /\ pos < end /\ end \in Nat /\ input \in Seq(Nat)
    BY <1>1 DEF Typed
<1> HIDE DEF end
<1>5. CASE ~AtField(n, u, i, j)
    <2>1. i >= n /\ j # L
        BY <1>1, <1>5 DEF AtField
    <2>2. i = n /\ j = 0
        BY <1>1, <1>2, <2>1
    <2>3. u \in UnknownFields /\ change # "cut"
        <3>1. u # <<>>
            BY <2>1, <2>2
        <3> QED
            BY <1>3, <3>1
    <2>4. pos = B(n) /\ B(n) \in Nat /\ B(K) \in Nat /\ B(n) <= B(K) /\ n <= K
        BY <1>1, <1>2, <2>2
    <2>5. B(n) + L <= end
        BY <1>1, <1>3, <2>3, <2>4
    <2> HIDE DEF L
    <2>6. Lies(input, pos, end, u) /\ pos + Len(u) <= end
        BY <1>3, <2>4, <2>5 DEF L
    <2>7. /\ Len(u) \in Nat \ {0}
          /\ \A f \in DOMAIN Tags : input[pos + 1] \notin TagsOf(f)
          /\ SkipUnknown(input, end, pos) = pos + Len(u)
        BY <1>1, <1>4, <2>3, <2>6, UnknownWhole
    <2>8. input[pos + 1] \notin TagsOf(format)
        BY <2>7 DEF Typed
    <2> QED
        BY <1>4, <1>5, <2>2, <2>3, <2>4, <2>5, <2>7, <2>8 DEF AtUnknown, L, end
<1>6. CASE AtField(n, u, i, j)
    <2>1. i < n \/ j = L
        BY <1>6 DEF AtField
    <2>2. i < K
        <3> SUFFICES ASSUME i = K PROVE FALSE
            BY <1>1
        <3>1. j = L
            BY <1>1, <2>1
        <3>2. B(K) \in Nat /\ pos = B(K) + L
            BY <1>1, <1>2, <3>1
        <3> QED
            BY <1>1, <1>3, <1>4, <3>2
    <2> DEFINE k == i + 1
               e == Field(format, origin, k)
               tag == Tag(k)
    <2>3. k \in 1 .. K /\ k - 1 = i /\ k \in 0 .. K
        BY <1>1, <2>2
    <2>4. At(n, u, k) = pos
        BY <1>1, <1>2, <2>1, <2>3 DEF At
    <2> HIDE DEF k
    <2>5. Lies(input, pos, end, e)
        BY <1>3, <2>3, <2>4
    <2>6. tag \in Byte /\ FieldIs(e, tag, origin[tag]) /\ Len(e) \in Nat
        <3>1. k \in 1 .. Len(Tags[format]) /\ format \in DOMAIN Tags
            BY <2>3 DEF K, Typed
        <3> QED
            BY <3>1, FieldKnown, Formats DEF Tag
    <2>7. B(k) = B(i) + Len(e) /\ B(k) \in Nat /\ B(k) <= B(K) /\ B(K) \in Nat /\ B(i) \in Nat
        BY <1>1, <2>3
    <2> HIDE DEF e, tag, L
    <2>8. CASE pos + Len(e) <= end
        <3>1. ReadsWhole(input, pos, end, e, tag, origin[tag])
            BY <1>1, <1>4, <2>5, <2>6, <2>8, FieldWhole
        <3> QED
            BY <1>4, <1>6, <2>3, <3>1 DEF AtNext, e, tag, k, end
    <2>9. CASE end < pos + Len(e)
        <3>1. ReadsCut(input, pos, end, tag)
            BY <1>1, <1>4, <2>5, <2>6, <2>9, FieldCut
        <3>2. change = "cut"
            <4> SUFFICES ASSUME change # "cut" PROVE FALSE
                OBVIOUS
            <4>1. end = B(K) + L /\ pos = B(i) + j /\ j <= L /\ j \in Nat /\ L \in Nat
                BY <1>1, <1>2, <1>3
            <4> QED
                BY <2>6, <2>7, <2>9, <4>1
        <3> QED
            BY <1>4, <1>6, <2>3, <3>1, <3>2 DEF AtNext, tag, k, end
    <2> QED
        BY <1>4, <2>6, <2>8, <2>9
<1> QED
    BY <1>5, <1>6

LEMMA WhereStays ==
    ASSUME NEW n, NEW u, NEW i, NEW j, Where(n, u, i, j), UNCHANGED <<message_vars, pos, fields>>,
           i < K /\ unknown' = pos /\ AtField(n, u, i, j) => next' <= i + 1
    PROVE  Where(n, u, i, j)'
<1>1. /\ K' = K /\ \A h : B(h)' = B(h) /\ Tag(h)' = Tag(h)
      /\ input' = input /\ origin' = origin /\ fields' = fields /\ pos' = pos
    BY Unmoved
<1>2. \A h \in 1 .. i : ReadRight(Tag(h))'
    <2> SUFFICES ASSUME NEW h \in 1 .. i PROVE ReadRight(Tag(h))'
        OBVIOUS
    <2> DEFINE tag == Tag(h)
    <2>1. ReadRight(tag)
        BY DEF Where
    <2>2. Tag(h)' = Tag(h)
        BY <1>1
    <2> QED
        BY <1>1, <2>1, <2>2 DEF ReadRight, Has
<1>4. \A h \in i + 1 .. K : fields'[Tag(h)'] = <<>>
    BY <1>1 DEF Where
<1> QED
    BY <1>1, <1>2, <1>4 DEF Where

(* A turn in which no field is read at this tag.                           *)
LEMMA OtherTagCalled ==
    ASSUME Typed, NEW n, NEW u, Called(n, u), next \in 1 .. K, UNCHANGED <<message_vars, unknown, version>>,
           pos' = pos, fields' = fields, ~done, done' = done, next' = next + 1,
           next = 1 => pos # End,
           \A i \in 0 .. K, j \in {0, Len(u)} :
             Where(n, u, i, j) /\ i < K /\ AtField(n, u, i, j) /\ pos # End => next # i + 1
    PROVE  Called(n, u)'
<1>1. pos > 0 /\ Turn /\ (Reading(n, u) \/ Stopped)
    BY DEF Called, NotBegun
<1>2. K' = K /\ End' = End /\ change' = change /\ input' = input /\ \A i : Tag(i)' = Tag(i)
    BY Unmoved
<1>3. K \in Nat
    BY Formats DEF Typed, K
<1>4. unknown # pos \/ pos # End
    BY <1>1 DEF Turn
<1>5. Turn'
    BY <1>1, <1>2, <1>3, <1>4 DEF Turn
<1>6. CASE Stopped
    <2>1. Stopped'
        BY <1>2, <1>6 DEF Stopped, EmptyLast, ZeroDigits
    <2> QED
        BY <1>1, <1>5, <2>1 DEF Called
<1>7. CASE Reading(n, u)
    <2>1. PICK i \in 0 .. K, j \in {0, Len(u)} : Where(n, u, i, j)
        BY <1>7 DEF Reading
    <2>2. i < K /\ unknown' = pos /\ AtField(n, u, i, j) => next' <= i + 1
        <3> SUFFICES ASSUME i < K, unknown = pos, AtField(n, u, i, j) PROVE next + 1 <= i + 1
            OBVIOUS
        <3>1. next <= i + 1
            BY <2>1 DEF Where
        <3>2. next # i + 1
            BY <1>4, <2>1
        <3> QED
            BY <1>3, <3>1, <3>2
    <2>3. Where(n, u, i, j)'
        BY <2>1, <2>2, WhereStays
    <2>4. Reading(n, u)'
        BY <1>2, <2>3 DEF Reading
    <2> QED
        BY <1>1, <1>5, <2>4 DEF Called
<1> QED
    BY <1>1, <1>6, <1>7

LEMMA OneThing == \A v : <<v>> # <<>> /\ <<v>>[1] = v
OBVIOUS

(* A turn in which the next field is read as a whole ...                   *)
LEMMA FieldCalled ==
    ASSUME Typed, origin \in Messages(format), NEW n, NEW u, Laid(n, u), Called(n, u), Decode,
           NEW i \in 0 .. K, NEW j \in {0, Len(u)}, Where(n, u, i, j), AtField(n, u, i, j),
           pos > 0, pos < End, NEW k \in 1 .. K, next = k, k = i + 1,
           ReadsWhole(input, pos, End, Field(format, origin, k), Tag(k), origin[Tag(k)])
    PROVE  Called(n, u)'
<1> DEFINE tag == Tag(k)
           e == Field(format, origin, k)
           start == VarintSkip(input, pos + 1, End)
           length == LengthAt(input, End, pos + 1)
<1>1. /\ K \in Nat /\ tag \in TagsOf(format) /\ Len(u) \in Nat
      /\ \A a \in 0 .. K : B(a) \in Nat
      /\ \A a \in 1 .. K : B(a) = B(a - 1) + Len(Field(format, origin, a))
      /\ \A a, b \in 0 .. K : a < b => B(a) < B(b)
      /\ \A a, b \in 1 .. K : Tag(a) = Tag(b) => a = b
    BY Places
<1>2. /\ K' = K /\ End' = End /\ input' = input /\ origin' = origin
      /\ \A h : B(h)' = B(h) /\ Tag(h)' = Tag(h)
    BY Unmoved DEF Decode
<1>3. /\ ~done /\ next' = next + 1 /\ done' = done /\ unknown' = unknown /\ version' = version
      /\ DecodeNumber(tag) \/ DecodeString(tag) \/ StringTooLong(tag) \/ OtherTag(tag)
    BY DEF Decode, InLoop, Tag
<1>4. /\ input[pos + 1] = tag
      /\ IsNumber(tag) =>
           /\ start = pos + Len(e)
           /\ origin[tag] = <<VarintDecode(SubSeq(input, pos + 2, pos + Len(e)), COUNTER_MODULUS)>>
      /\ ~IsNumber(tag) =>
           /\ Fits(input, End, pos + 1) /\ start + length = pos + Len(e)
           /\ SubSeq(input, start + 1, start + length) = origin[tag]
    BY DEF ReadsWhole
<1>5. Turn /\ End \in Int /\ pos \in Nat /\ DOMAIN fields = TagsOf(format)
    BY Places DEF Called, NotBegun, Typed
<1>6. /\ k \in 0 .. K /\ k - 1 = i /\ B(k) = B(i) + Len(e) /\ B(i) < B(k)
      /\ B(i) \in Nat /\ B(k) \in Nat /\ i < k
    <2>1. k \in 0 .. K /\ k - 1 = i /\ i < k
        BY <1>1
    <2> QED
        BY <1>1, <2>1
<1> HIDE DEF tag, e, start, length
<1> DEFINE Right(t, value) ==
               /\ value # <<>>
               /\ origin[t] = IF IsNumber(t) THEN value
                              ELSE SubSeq(input, value[1].start + 1, value[1].start + value[1].length)
<1>7. AtTag(tag)
    BY <1>4, <1>5 DEF AtTag
<1>8. /\ pos' = pos + Len(e) /\ Right(tag, fields'[tag])
      /\ \A t \in TagsOf(format) : t # tag => fields'[t] = fields[t]
    <2>1. CASE IsNumber(tag)
        <3>1. DecodeNumber(tag)
            BY <1>3, <1>7, <2>1 DEF DecodeString, StringTooLong, OtherTag
        <3> DEFINE v == VarintDecode(SubSeq(input, pos + 2, start), COUNTER_MODULUS)
        <3>2. pos' = start /\ fields' = [fields EXCEPT ![tag] = <<v>>]
            BY <3>1 DEF DecodeNumber, start
        <3>3. origin[tag] = <<v>> /\ start = pos + Len(e)
            BY <1>4, <2>1
        <3> HIDE DEF v
        <3>4. fields'[tag] = <<v>> /\ \A t \in TagsOf(format) : t # tag => fields'[t] = fields[t]
            BY <1>1, <1>5, <3>2
        <3> QED
            BY <2>1, <3>2, <3>3, <3>4, OneThing
    <2>2. CASE ~IsNumber(tag)
        <3>1. DecodeString(tag)
            BY <1>3, <1>4, <1>7, <2>2 DEF DecodeNumber, StringTooLong, OtherTag
        <3> DEFINE v == [start |-> start, length |-> length]
        <3>2. pos' = start + length /\ fields' = [fields EXCEPT ![tag] = <<v>>]
            BY <3>1 DEF DecodeString, start, length
        <3>3. v.start = start /\ v.length = length
            OBVIOUS
        <3> HIDE DEF v
        <3>4. fields'[tag] = <<v>> /\ \A t \in TagsOf(format) : t # tag => fields'[t] = fields[t]
            BY <1>1, <1>5, <3>2
        <3>5. fields'[tag] # <<>> /\ fields'[tag][1] = v
            BY <3>4, OneThing
        <3> QED
            BY <1>4, <2>2, <3>2, <3>3, <3>4, <3>5
    <2> QED
        BY <2>1, <2>2
<1>9. \A h \in 1 .. k : ReadRight(Tag(h))'
    <2> SUFFICES ASSUME NEW h \in 1 .. k PROVE ReadRight(Tag(h))'
        OBVIOUS
    <2>3. h \in 1 .. K /\ h <= k
        BY <1>1
    <2>1. CASE h = k
        BY <1>2, <1>8, <2>1 DEF ReadRight, Has, tag
    <2>2. CASE h # k
        <3> DEFINE t == Tag(h)
        <3>1. h \in 1 .. i
            BY <1>1, <1>6, <2>2, <2>3
        <3>2. t # tag /\ t \in TagsOf(format)
            BY <1>1, <2>2, <2>3, Places DEF tag
        <3>3. ReadRight(t)
            BY <3>1 DEF Where
        <3>4. fields'[t] = fields[t] /\ Tag(h)' = t
            BY <1>2, <1>8, <3>2
        <3> QED
            BY <1>2, <3>3, <3>4 DEF ReadRight, Has
    <2> QED
        BY <2>1, <2>2
<1>10. \A h \in k + 1 .. K : fields'[Tag(h)'] = <<>>
    <2> SUFFICES ASSUME NEW h \in k + 1 .. K PROVE fields'[Tag(h)'] = <<>>
        OBVIOUS
    <2> DEFINE t == Tag(h)
    <2>1. h \in 1 .. K /\ h \in i + 1 .. K /\ h # k
        BY <1>1, <1>6
    <2>2. t # tag /\ t \in TagsOf(format)
        BY <1>1, <2>1, Places DEF tag
    <2>3. fields[t] = <<>>
        BY <2>1 DEF Where
    <2> QED
        BY <1>2, <1>8, <2>2, <2>3
<1>11. /\ pos = B(i) + j /\ j \in Nat /\ unknown \in Nat /\ unknown <= pos
       /\ version = PROTOCOL_VERSION
    BY <1>1, <1>5 DEF Where, Turn
<1>12. pos' = B(k) + j /\ pos < pos' /\ unknown # pos' /\ unknown <= pos'
    <2>1. Len(e) \in Nat
        BY FieldKnown DEF e, K, Typed
    <2> QED
        BY <1>6, <1>8, <1>11, <2>1
<1>13. Turn'
    BY <1>1, <1>2, <1>3, <1>11, <1>12 DEF Turn
<1>14. (k < n => j = 0) /\ (k > n => j = Len(u))
    <2>1. n \in Nat /\ i \in Nat
        BY Places
    <2> QED
        BY <1>6, <2>1 DEF Where, AtField
<1>15. Where(n, u, k, j)'
    BY <1>2, <1>3, <1>9, <1>10, <1>12, <1>14 DEF Where
<1>16. Reading(n, u)'
    BY <1>2, <1>6, <1>15 DEF Reading
<1> QED
    BY <1>12, <1>13, <1>16, <1>11 DEF Called

(* ... and one in which it is the last that is left of a message.          *)
LEMMA CutCalled ==
    ASSUME Typed, origin \in Messages(format), NEW n, NEW u, Laid(n, u), Called(n, u), Decode,
           NEW i \in 0 .. K, NEW j \in {0, Len(u)}, Where(n, u, i, j), change = "cut",
           pos > 0, pos < End, NEW k \in 1 .. K, next = k, k = i + 1,
           ReadsCut(input, pos, End, Tag(k))
    PROVE  Called(n, u)'
<1> DEFINE tag == Tag(k)
           last == Tag(K)
           start == VarintSkip(input, pos + 1, End)
           length == LengthAt(input, End, pos + 1)
<1>1. /\ K \in Nat /\ tag \in TagsOf(format) /\ last \in TagsOf(format) /\ ~IsNumber(last)
      /\ K \in 1 .. K /\ \A a, b \in 1 .. K : Tag(a) = Tag(b) => a = b
    <2>1. K \in Nat /\ K >= 2
        BY Places
    <2>2. K \in 1 .. K
        BY <2>1
    <2> QED
        BY <2>2, Places
<1>2. /\ K' = K /\ End' = End /\ input' = input /\ change' = change
      /\ \A h : Tag(h)' = Tag(h)
    BY Unmoved DEF Decode
<1>3. /\ ~done /\ next' = next + 1 /\ done' = done /\ unknown' = unknown /\ version' = version
      /\ DecodeNumber(tag) \/ DecodeString(tag) \/ StringTooLong(tag) \/ OtherTag(tag)
    BY DEF Decode, InLoop, Tag
<1>4. /\ input[pos + 1] = tag
      /\ IsNumber(tag) => start = End
      /\ ~IsNumber(tag) /\ Fits(input, End, pos + 1) =>
            start = End /\ length = 0 /\ ZeroDigits(input, pos + 2, End)
    BY DEF ReadsCut
<1>5. Turn /\ End \in Int /\ pos \in Nat /\ DOMAIN fields = TagsOf(format)
    BY Places DEF Called, NotBegun, Typed
<1>6. fields[last] = <<>>
    <2>1. K \in i + 1 .. K
        BY <1>1
    <2> QED
        BY <2>1 DEF Where
<1> HIDE DEF tag, last, start, length
<1> DEFINE Empty(value) ==
               /\ value = <<[start |-> End, length |-> 0]>>
               /\ \E p \in 1 .. End : input[p] = last /\ ZeroDigits(input, p + 1, End)
<1>7. AtTag(tag)
    BY <1>4, <1>5 DEF AtTag
<1>8. pos' = End /\ (fields'[last] = <<>> \/ Empty(fields'[last]))
    <2>1. CASE IsNumber(tag)
        <3>1. DecodeNumber(tag)
            BY <1>3, <1>7, <2>1 DEF DecodeString, StringTooLong, OtherTag
        <3> DEFINE v == <<VarintDecode(SubSeq(input, pos + 2, start), COUNTER_MODULUS)>>
        <3>2. pos' = start /\ fields' = [fields EXCEPT ![tag] = v]
            BY <3>1 DEF DecodeNumber, start
        <3> HIDE DEF v
        <3>3. tag # last
            BY <1>1, <2>1
        <3>4. fields'[last] = <<>>
            BY <1>1, <1>5, <1>6, <3>2, <3>3
        <3> QED
            BY <1>4, <2>1, <3>2, <3>4
    <2>2. CASE ~IsNumber(tag) /\ ~Fits(input, End, pos + 1)
        <3>1. StringTooLong(tag)
            BY <1>3, <1>7, <2>2 DEF DecodeNumber, DecodeString, OtherTag
        <3> QED
            BY <1>6, <3>1 DEF StringTooLong
    <2>3. CASE ~IsNumber(tag) /\ Fits(input, End, pos + 1)
        <3>1. DecodeString(tag)
            BY <1>3, <1>7, <2>3 DEF DecodeNumber, StringTooLong, OtherTag
        <3> DEFINE v == <<[start |-> start, length |-> length]>>
        <3>2. pos' = start + length /\ fields' = [fields EXCEPT ![tag] = v]
            BY <3>1 DEF DecodeString, start, length
        <3>3. v = <<[start |-> End, length |-> 0]>> /\ pos' = End /\ ZeroDigits(input, pos + 2, End)
            BY <1>4, <1>5, <2>3, <3>2
        <3> HIDE DEF v
        <3>4. CASE tag # last
            BY <1>1, <1>5, <1>6, <3>2, <3>3, <3>4
        <3>5. CASE tag = last
            <4>1. fields'[last] = v
                BY <1>1, <1>5, <3>2, <3>5
            <4> DEFINE p == pos + 1
            <4>2. p \in 1 .. End /\ p + 1 = pos + 2
                BY <1>5
            <4> HIDE DEF p
            <4>3. input[p] = last /\ ZeroDigits(input, p + 1, End)
                BY <1>4, <3>3, <3>5, <4>2 DEF p
            <4> QED
                BY <3>3, <4>1, <4>2, <4>3
        <3> QED
            BY <3>4, <3>5
    <2> QED
        BY <2>1, <2>2, <2>3
<1>9. Stopped'
    <2>1. Tag(K)' = last
        BY <1>2 DEF last
    <2>2. EmptyLast' = Empty(fields'[last])
        BY <1>2, <2>1 DEF EmptyLast, ZeroDigits
    <2> QED
        BY <1>2, <1>8, <2>1, <2>2 DEF Stopped
<1>10. Turn'
    <2>1. unknown \in Nat /\ unknown <= pos /\ version = PROTOCOL_VERSION
        BY <1>5 DEF Turn
    <2> QED
        BY <1>1, <1>2, <1>3, <1>5, <1>8, <2>1 DEF Turn
<1>11. pos' > 0
    BY <1>5, <1>8
<1> QED
    BY <1>9, <1>10, <1>11 DEF Called

LEMMA DecodeCalled ==
    ASSUME Typed, origin \in Messages(format), NEW n, NEW u, Laid(n, u), Called(n, u), Decode
    PROVE  Called(n, u)'
<1>1. /\ ~done /\ next \in 1 .. K /\ next' = next + 1 /\ (next = 1 => pos # End)
      /\ UNCHANGED <<message_vars, unknown, version, done>>
      /\ DecodeNumber(Tag(next)) \/ DecodeString(Tag(next)) \/ StringTooLong(Tag(next))
         \/ OtherTag(Tag(next))
    BY DEF Decode, InLoop, Tag, K
<1>2. pos > 0 /\ Turn /\ (Reading(n, u) \/ Stopped)
    BY <1>1 DEF Called, NotBegun
<1>3. K \in Nat /\ \A a, b \in 1 .. K : Tag(a) = Tag(b) => a = b
    BY Places
<1>4. ASSUME ~AtTag(Tag(next)),
             \A i \in 0 .. K, j \in {0, Len(u)} :
               Where(n, u, i, j) /\ i < K /\ AtField(n, u, i, j) /\ pos # End => next # i + 1
      PROVE  Called(n, u)'
    <2>1. pos' = pos /\ fields' = fields
        BY <1>1, <1>4 DEF DecodeNumber, DecodeString, StringTooLong, OtherTag
    <2> QED
        BY <1>1, <1>4, <2>1, OtherTagCalled
<1>5. CASE pos = End
    BY <1>4, <1>5 DEF AtTag
<1>6. CASE pos # End
    <2>1. Reading(n, u)
        BY <1>2, <1>6 DEF Stopped
    <2> SUFFICES ASSUME ~Called(n, u)' PROVE FALSE
        OBVIOUS
    <2>2. ASSUME NEW i \in 0 .. K, NEW j \in {0, Len(u)}, Where(n, u, i, j)
          PROVE  pos < End /\ (AtUnknown(n, u, i, j) \/ AtNext(n, u, i, j))
        BY <1>2, <1>6, <2>2, WhereNow
    <2>3. ASSUME NEW i \in 0 .. K, NEW j \in {0, Len(u)}, Where(n, u, i, j), AtNext(n, u, i, j),
                 next = i + 1
          PROVE  FALSE
        <3> DEFINE k == i + 1
        <3>1. /\ k \in 1 .. K /\ AtField(n, u, i, j) /\ next = k /\ pos < End /\ k = i + 1
              /\ \/ ReadsWhole(input, pos, End, Field(format, origin, k), Tag(k), origin[Tag(k)])
                 \/ change = "cut" /\ ReadsCut(input, pos, End, Tag(k))
            BY <2>2, <2>3 DEF AtNext
        <3> HIDE DEF k
        <3>2. CASE ReadsWhole(input, pos, End, Field(format, origin, k), Tag(k), origin[Tag(k)])
            BY <1>2, <2>1, <2>3, <3>1, <3>2, FieldCalled
        <3>3. CASE change = "cut" /\ ReadsCut(input, pos, End, Tag(k))
            BY <1>2, <2>1, <2>3, <3>1, <3>3, CutCalled
        <3> QED
            BY <3>1, <3>2, <3>3
    <2>4. ASSUME NEW i \in 0 .. K, NEW j \in {0, Len(u)}, Where(n, u, i, j), AtField(n, u, i, j)
          PROVE  next # i + 1
        BY <2>2, <2>3, <2>4 DEF AtUnknown
    <2>5. PICK i \in 0 .. K, j \in {0, Len(u)} : Where(n, u, i, j)
        BY <2>1 DEF Reading
    <2>6. ~AtTag(Tag(next))
        <3>1. CASE AtUnknown(n, u, i, j)
            <4>1. Tag(next) \in TagsOf(format)
                BY <1>1, Places
            <4> QED
                BY <3>1, <4>1 DEF AtUnknown, AtTag
        <3>2. CASE AtNext(n, u, i, j)
            <4> DEFINE k == i + 1
            <4>1. k \in 1 .. K /\ input[pos + 1] = Tag(k) /\ next # k
                BY <2>4, <2>5, <3>2 DEF AtNext, ReadsWhole, ReadsCut
            <4> HIDE DEF k
            <4>2. Tag(next) # Tag(k)
                BY <1>1, <1>3, <4>1
            <4> QED
                BY <4>1, <4>2 DEF AtTag
        <3> QED
            BY <2>2, <2>5, <3>1, <3>2
    <2> QED
        BY <1>4, <2>4, <2>6
<1> QED
    BY <1>5, <1>6

(* At the end of a turn in which nothing was read, the field is passed     *)
(* over.                                                                   *)
LEMMA EndTurnCalled ==
    ASSUME Typed, origin \in Messages(format), NEW n, NEW u, Laid(n, u), Called(n, u), EndTurn
    PROVE  Called(n, u)'
<1>1. /\ ~done /\ next = K + 1 /\ next' = 1 /\ unknown' = pos'
      /\ UNCHANGED <<message_vars, version, fields, done>>
      /\ pos' = IF unknown = pos THEN SkipUnknown(input, End, pos) ELSE pos
    BY DEF EndTurn, K
<1>2. /\ K \in Nat /\ K >= 2 /\ n \in 0 .. K
      /\ \A i \in 0 .. K : B(i) \in Nat
    BY Places
<1>3. pos > 0 /\ Turn /\ (Reading(n, u) \/ Stopped)
    BY <1>1, <1>2 DEF Called, NotBegun
<1>4. /\ K' = K /\ End' = End /\ change' = change /\ input' = input /\ origin' = origin
      /\ \A i : Tag(i)' = Tag(i) /\ B(i)' = B(i)
    BY <1>1, Unmoved
<1>5. pos \in Nat
    BY DEF Typed
<1>6. CASE unknown # pos
    <2>1. pos' = pos
        BY <1>1, <1>6
    <2>2. Turn'
        BY <1>1, <1>2, <1>3, <1>4, <1>5, <2>1 DEF Turn
    <2>3. CASE Stopped
        <3>1. Stopped'
            BY <1>1, <1>4, <2>1, <2>3 DEF Stopped, EmptyLast, ZeroDigits
        <3> QED
            BY <1>3, <2>1, <2>2, <3>1 DEF Called
    <2>4. CASE Reading(n, u)
        <3>1. PICK i \in 0 .. K, j \in {0, Len(u)} : Where(n, u, i, j)
            BY <2>4 DEF Reading
        <3>2. next' <= i + 1 /\ UNCHANGED <<message_vars, pos, fields>>
            BY <1>1, <1>2, <2>1
        <3>3. Where(n, u, i, j)'
            BY <3>1, <3>2, WhereStays
        <3>4. Reading(n, u)'
            BY <1>4, <3>3 DEF Reading
        <3> QED
            BY <1>3, <2>1, <2>2, <3>4 DEF Called
    <2> QED
        BY <1>3, <2>3, <2>4
<1>7. CASE unknown = pos
    <2>1. pos # End
        BY <1>1, <1>2, <1>3, <1>7 DEF Turn
    <2>2. PICK i \in 0 .. K, j \in {0, Len(u)} : Where(n, u, i, j)
        BY <1>3, <2>1 DEF Reading, Stopped
    <2>3. pos < End /\ (AtUnknown(n, u, i, j) \/ AtNext(n, u, i, j))
        BY <1>3, <2>1, <2>2, WhereNow
    <2>4. ~AtNext(n, u, i, j)
        <3> SUFFICES ASSUME AtNext(n, u, i, j) PROVE FALSE
            OBVIOUS
        <3>1. i + 1 \in 1 .. K /\ AtField(n, u, i, j)
            BY DEF AtNext
        <3>2. next <= i + 1
            BY <1>2, <1>7, <2>2, <3>1 DEF Where
        <3> QED
            BY <1>1, <1>2, <3>1, <3>2
    <2>5. /\ i = n /\ pos' = B(n) + Len(u) /\ Len(u) \in Nat
        BY <1>1, <1>7, <2>3, <2>4 DEF AtUnknown
    <2> DEFINE l == Len(u)
    <2>6. Where(n, u, n, l)'
        <3>1. \A h \in 1 .. n : ReadRight(Tag(h))'
            <4> SUFFICES ASSUME NEW h \in 1 .. n PROVE ReadRight(Tag(h))'
                OBVIOUS
            <4> DEFINE tag == Tag(h)
            <4>1. ReadRight(tag)
                BY <2>2, <2>5 DEF Where
            <4>2. Tag(h)' = Tag(h)
                BY <1>4
            <4> QED
                BY <1>1, <1>4, <4>1, <4>2 DEF ReadRight, Has
        <3>2. \A h \in n + 1 .. K : fields'[Tag(h)'] = <<>>
            BY <1>1, <1>4, <2>2, <2>5 DEF Where
        <3>3. pos' = B(n)' + l
            BY <1>4, <2>5
        <3>4. next' <= n + 1
            BY <1>1, <1>2
        <3>5. ~(n < n) /\ ~(n > n)
            BY <1>2
        <3> QED
            BY <1>4, <3>1, <3>2, <3>3, <3>4, <3>5 DEF Where
    <2>7. Reading(n, u)'
        BY <1>2, <1>4, <2>6 DEF Reading
    <2>8. pos' \in Nat /\ pos' > 0
        <3>1. B(n) \in Nat /\ B(n) >= 1
            BY <1>2, Places
        <3> QED
            BY <2>5, <3>1
    <2>9. Turn'
        BY <1>1, <1>2, <1>3, <1>4, <2>8 DEF Turn
    <2> QED
        BY <2>7, <2>8, <2>9 DEF Called
<1> QED
    BY <1>6, <1>7

LEMMA ReadVersionCalled ==
    ASSUME Typed, origin \in Messages(format), NEW n, NEW u, Laid(n, u), Called(n, u), ReadVersion
    PROVE  Called(n, u)'
<1>1. /\ ~done /\ pos = 0 /\ End > 0 /\ version' = input[1] /\ pos' = 1 /\ unknown' = 1
      /\ next' = 1 /\ UNCHANGED <<message_vars, fields, done>>
    BY DEF ReadVersion
<1>2. K \in Nat /\ K >= 2 /\ n \in 0 .. K /\ B(0) = 1 /\ Len(u) \in Nat
    BY Places
<1>3. /\ K' = K /\ End' = End
      /\ \A i : Tag(i)' = Tag(i) /\ B(i)' = B(i)
    BY <1>1, Unmoved
<1>4. \A i \in 1 .. K : fields[Tag(i)] = <<>>
    BY <1>1 DEF Called, NotBegun
<1>5. version' = PROTOCOL_VERSION
    BY <1>1 DEF Laid
<1>6. Turn'
    BY <1>1, <1>2, <1>3, <1>5 DEF Turn
<1> DEFINE zero == 0
<1>7. Where(n, u, zero, zero)'
    <2>1. B(zero)' = 1 /\ pos' = B(zero)' + zero
        BY <1>1, <1>2, <1>3
    <2>2. \A h \in zero + 1 .. K' : fields'[Tag(h)'] = <<>>
        BY <1>1, <1>3, <1>4
    <2>3. ~(zero > n) /\ next' <= zero + 1
        BY <1>1, <1>2
    <2> QED
        BY <2>1, <2>2, <2>3 DEF Where
<1>8. zero \in 0 .. K' /\ zero \in {0, Len(u)}
    BY <1>2, <1>3
<1> HIDE DEF zero
<1>9. Reading(n, u)'
    BY <1>7, <1>8 DEF Reading
<1> QED
    BY <1>1, <1>6, <1>9 DEF Called

LEMMA OtherwiseCalled ==
    ASSUME Typed, NEW n, NEW u, Called(n, u),
           NothingToRead \/ Return \/ UNCHANGED vars
    PROVE  Called(n, u)'
<1>1. UNCHANGED <<message_vars, pos, unknown, version, fields, next>>
    BY DEF NothingToRead, Return, vars
<1>2. /\ K' = K /\ End' = End /\ change' = change /\ input' = input /\ origin' = origin
      /\ \A i : Tag(i)' = Tag(i) /\ B(i)' = B(i)
    BY <1>1, Unmoved
<1>3. CASE NotBegun
    <2>1. done' => End <= 0
        <3>1. CASE NothingToRead
            BY <3>1 DEF NothingToRead
        <3>2. CASE Return
            BY <1>3, <3>2 DEF NotBegun, Return
        <3>3. CASE UNCHANGED vars
            <4>1. done' = done
                BY <3>3 DEF vars
            <4>2. done => End <= 0
                BY <1>3 DEF NotBegun
            <4> QED
                BY <4>1, <4>2, Zenon
        <3> QED
            BY <3>1, <3>2, <3>3
    <2>2. NotBegun'
        BY <1>1, <1>2, <1>3, <2>1 DEF NotBegun
    <2> QED
        BY <2>2 DEF Called
<1>4. CASE ~NotBegun
    <2>1. pos > 0 /\ Turn /\ (Reading(n, u) \/ Stopped)
        BY <1>4 DEF Called
    <2>2. done' => pos = End
        <3>1. CASE NothingToRead
            BY <2>1, <3>1 DEF NothingToRead
        <3>2. CASE Return
            BY <3>2 DEF Return
        <3>3. CASE UNCHANGED vars
            <4>1. done' = done
                BY <3>3 DEF vars
            <4>2. done => pos = End
                BY <2>1 DEF Turn
            <4> QED
                BY <4>1, <4>2, Zenon
        <3> QED
            BY <3>1, <3>2, <3>3
    <2>3. Turn'
        BY <1>1, <1>2, <2>1, <2>2 DEF Turn
    <2>4. CASE Stopped
        <3>1. Stopped'
            BY <1>1, <1>2, <2>4 DEF Stopped, EmptyLast, ZeroDigits
        <3> QED
            BY <1>1, <2>1, <2>3, <3>1 DEF Called
    <2>5. CASE Reading(n, u)
        <3>1. PICK i \in 0 .. K, j \in {0, Len(u)} : Where(n, u, i, j)
            BY <2>5 DEF Reading
        <3>2. /\ UNCHANGED <<message_vars, pos, fields>>
              /\ i < K /\ unknown' = pos /\ AtField(n, u, i, j) => next' <= i + 1
            BY <1>1, <3>1 DEF Where
        <3>3. Where(n, u, i, j)'
            BY <3>1, <3>2, WhereStays
        <3>4. Reading(n, u)'
            BY <1>2, <3>3 DEF Reading
        <3> QED
            BY <1>1, <2>1, <2>3, <3>4 DEF Called
    <2> QED
        BY <2>1, <2>4, <2>5
<1> QED
    BY <1>3, <1>4

LEMMA FirstByte ==
    ASSUME NEW f \in DOMAIN Tags, NEW m \in Messages(f)
    PROVE  EncodeFirst(f, m, Len(Tags[f]))[1] = PROTOCOL_VERSION
<1> DEFINE zero == 0
           one == 1
<1>1. zero \in 0 .. Len(Tags[f])
    BY Formats
<1>2. EncodeFirst(f, m, zero) = <<3>> /\ Behind(f, m, zero) = 1
    BY EncodeFirstRuns, FieldsFollow
<1>3. one \in 1 .. Behind(f, m, zero) /\ EncodeFirst(f, m, zero)[one] = 3
    BY <1>2
<1> HIDE DEF zero, one
<1>4. EncodeFirst(f, m, Len(Tags[f]))[one] = EncodeFirst(f, m, zero)[one]
    BY <1>1, <1>3, FieldsLie
<1> QED
    BY <1>3, <1>4 DEF one, PROTOCOL_VERSION

(* A call begins with a message that lies in the input in one of the ways  *)
(* in which one can.                                                       *)
LEMMA LaidBegins ==
    ASSUME Init, Typed, origin \in Messages(format), NEW w, w = EncodeMessage(format, origin),
           (change = "none" /\ input = w) \/ (change = "cut" /\ input \in CutShort(w))
    PROVE  Laid(K, <<>>)
<1> DEFINE u == <<>>
           trailer == TrailerLength[format]
<1>1. format \in DOMAIN Tags /\ trailer \in Nat
    BY Formats, CodecAssumption DEF Typed
<1>2. /\ w \in Seq(Byte) /\ Len(w) = B(K) + trailer
      /\ \A p \in 1 .. B(K) : w[p] = EncodeFirst(format, origin, K)[p]
    BY <1>1, WholeMessage DEF B, K
<1>3. /\ K \in Nat /\ B(0) = 1 /\ B(K) \in Nat /\ K \in 0 .. K /\ B(K) >= 1
      /\ \A i \in 0 .. K : B(i) \in Nat
    <2>1. K \in Nat
        BY <1>1, Formats DEF K
    <2>2. B(0) = 1 /\ \A i \in 0 .. K : B(i) \in Nat /\ B(i) >= 1
        BY <1>1, FieldsFollow DEF B, K
    <2> QED
        BY <2>1, <2>2
<1>4. \A i \in 1 .. K : \A p \in 1 .. Len(Field(format, origin, i)) :
          w[B(i - 1) + p] = Field(format, origin, i)[p]
    BY <1>1, WholeFields DEF B, K
<1>5. /\ Len(input) \in Nat /\ End = Len(input) - trailer
      /\ IF change = "cut" THEN End < B(K) ELSE End = B(K)
      /\ \A p \in 1 .. Len(input) : input[p] = w[p]
    <2>1. CASE change = "none" /\ input = w
        BY <1>1, <1>2, <1>3, <2>1 DEF End
    <2>2. CASE change = "cut" /\ input \in CutShort(w)
        <3>1. PICK n \in 0 .. Len(w) - 1 : input = SubSeq(w, 1, n)
            BY <2>2 DEF CutShort
        <3>2. Len(input) = n /\ \A p \in 1 .. n : input[p] = w[p]
            BY <1>2, <3>1, CutOff
        <3>3. n \in Nat /\ n < B(K) + trailer
            BY <1>1, <1>2, <1>3
        <3> QED
            BY <1>1, <1>3, <2>2, <3>2, <3>3 DEF End
    <2> QED
        BY <2>1, <2>2
<1>6. End \in Int /\ End <= Len(input)
    BY <1>1, <1>5
<1> HIDE DEF trailer
<1>7. ASSUME NEW i \in 1 .. K PROVE Lies(input, At(K, u, i), End, Field(format, origin, i))
    <2>1. At(K, u, i) = B(i - 1) /\ B(i - 1) \in Nat
        <3>1. i - 1 \in 0 .. K /\ ~(i > K)
            BY <1>3
        <3> QED
            BY <1>3, <3>1 DEF At
    <2> DEFINE s == B(i - 1)
               e == Field(format, origin, i)
    <2>2. ASSUME NEW p \in 1 .. Len(e), s + p <= End PROVE input[s + p] = e[p]
        <3> DEFINE q == s + p
        <3>1. q \in 1 .. Len(input)
            BY <1>5, <1>6, <2>1, <2>2
        <3> HIDE DEF q
        <3>2. input[q] = w[q]
            BY <1>5, <3>1
        <3> QED
            BY <1>4, <3>2 DEF q
    <2> HIDE DEF s, e
    <2>3. Lies(input, s, End, e)
        BY <2>2 DEF Lies
    <2> QED
        BY <2>1, <2>3 DEF s, e
<1>8. Lies(input, B(K), End, u)
    BY DEF Lies
<1>9. End > 0 => input[1] = PROTOCOL_VERSION
    <2> SUFFICES ASSUME End > 0 PROVE input[1] = PROTOCOL_VERSION
        OBVIOUS
    <2>1. 1 \in 1 .. Len(input) /\ 1 \in 1 .. B(K)
        BY <1>3, <1>5, <1>6
    <2>2. input[1] = EncodeFirst(format, origin, K)[1]
        BY <1>2, <1>5, <2>1
    <2> QED
        BY <1>1, <2>2, FirstByte DEF K
<1>10. Len(u) = 0
    OBVIOUS
<1> HIDE DEF u
<1>11. K \in 0 .. K /\ (IF change = "cut" THEN End < B(K) ELSE End = B(K) + Len(u))
    BY <1>3, <1>5, <1>10
<1>12. Laid(K, u)
    BY <1>6, <1>7, <1>8, <1>9, <1>11 DEF Laid, u
<1> QED
    BY <1>12 DEF u

LEMMA LaidWithUnknown ==
    ASSUME Typed, origin \in Messages(format), change = "unknown",
           NEW n \in 0 .. K, NEW u \in UnknownFields, input = Between(format, origin, n, u)
    PROVE  Laid(n, u)
<1> DEFINE w == EncodeMessage(format, origin)
           a == EncodeFirst(format, origin, n)
           trailer == TrailerLength[format]
           L == Len(u)
<1>1. format \in DOMAIN Tags /\ trailer \in Nat
    BY Formats, CodecAssumption DEF Typed
<1>2. w \in Seq(Byte) /\ Len(w) = B(K) + trailer
    BY <1>1, WholeMessage DEF B, K
<1>3. /\ K \in Nat /\ B(0) = 1 /\ B(K) \in Nat /\ K \in 0 .. K /\ B(K) >= 1
      /\ \A i \in 0 .. K : B(i) \in Nat /\ B(i) <= B(K)
      /\ \A i \in 1 .. K : B(i) = B(i - 1) + Len(Field(format, origin, i))
    <2>1. K \in Nat
        BY <1>1, Formats DEF K
    <2>2. /\ B(0) = 1 /\ \A i \in 0 .. K : B(i) \in Nat /\ B(i) >= 1
          /\ \A i \in 1 .. K : B(i) = B(i - 1) + Len(Field(format, origin, i))
        BY <1>1, FieldsFollow DEF B, K
    <2>3. \A i \in 0 .. K : B(i) <= B(K)
        BY <1>1, FieldsLie DEF B, K
    <2> QED
        BY <2>1, <2>2, <2>3
<1>4. \A i \in 1 .. K : \A p \in 1 .. Len(Field(format, origin, i)) :
          w[B(i - 1) + p] = Field(format, origin, i)[p]
    BY <1>1, WholeFields DEF B, K
<1>5. a \in Seq(Byte) /\ u \in Seq(Byte) /\ Len(a) = B(n)
    <2>1. \A field \in UnknownFields : field \in Seq(Byte)
        BY UnknownAssumption
    <2> QED
        BY <1>1, <2>1, EncodeFirstRuns DEF K, B, Behind
<1>6. Len(a) <= Len(w) /\ \A p \in 1 .. Len(a) : a[p] = w[p]
    BY <1>1, Beginning DEF K
<1>7. input = (a \o u) \o SubSeq(w, Len(a) + 1, Len(w))
    BY DEF Between
<1>8. w[1] = PROTOCOL_VERSION
    <2>1. 1 \in 1 .. B(K)
        BY <1>3
    <2>2. w[1] = EncodeFirst(format, origin, K)[1]
        BY <1>1, <2>1, WholeMessage DEF B, K
    <2> QED
        BY <1>1, <2>2, FirstByte DEF K
<1>9. L \in Nat /\ B(n) \in Nat /\ B(n) >= 1
    <2>1. B(n) >= 1
        BY <1>1, FieldsFollow DEF B, K
    <2> QED
        BY <1>3, <1>5, <2>1
<1> HIDE DEF w, a, trailer
<1>10. /\ Len(input) = Len(w) + L
       /\ \A p \in 1 .. Len(a) : input[p] = w[p]
       /\ \A p \in 1 .. L : input[Len(a) + p] = u[p]
       /\ \A p \in Len(a) + 1 .. Len(w) : input[p + L] = w[p]
    <2> DEFINE s == (a \o u) \o SubSeq(w, Len(a) + 1, Len(w))
    <2>1. /\ Len(s) = Len(w) + Len(u)
          /\ \A p \in 1 .. Len(a) : s[p] = w[p]
          /\ \A p \in 1 .. Len(u) : s[Len(a) + p] = u[p]
          /\ \A p \in Len(a) + 1 .. Len(w) : s[p + Len(u)] = w[p]
        BY <1>2, <1>5, <1>6, PutBetween
    <2>2. input = s
        BY <1>7
    <2> HIDE DEF s
    <2> QED
        BY <2>1, <2>2
<1> HIDE DEF L
<1>11. End = B(K) + L /\ End \in Int /\ End <= Len(input)
    <2>1. End = Len(input) - trailer
        BY DEF End, trailer
    <2> QED
        BY <1>1, <1>2, <1>3, <1>9, <1>10, <2>1
<1>12. ASSUME NEW i \in 1 .. K PROVE Lies(input, At(n, u, i), End, Field(format, origin, i))
    <2> DEFINE s == B(i - 1)
               e == Field(format, origin, i)
    <2>1. i - 1 \in 0 .. K /\ i \in 0 .. K
        BY <1>3
    <2>2. s \in Nat /\ B(i) = s + Len(e) /\ B(i) \in Nat /\ B(i) <= B(K) /\ Len(e) \in Nat
        BY <1>1, <1>3, <2>1, FieldKnown DEF K
    <2>3. \A p \in 1 .. Len(e) : w[s + p] = e[p]
        BY <1>4
    <2>4. IF i > n THEN B(n) <= s ELSE B(i) <= B(n)
        <3>1. ASSUME NEW x \in 0 .. K, NEW y \in 0 .. K, x <= y PROVE B(x) <= B(y)
            <4>1. CASE x = y
                BY <1>3, <4>1
            <4>2. CASE x # y
                <5>1. x < y
                    BY <1>3, <3>1, <4>2
                <5>2. B(x) < B(y)
                    BY <1>1, <5>1, BehindGrows DEF B, K
                <5> QED
                    BY <1>3, <5>2
            <4> QED
                BY <4>1, <4>2
        <3> DEFINE h == i - 1
        <3>2. h \in 0 .. K /\ (i > n => n <= h) /\ (~(i > n) => i <= n)
            BY <1>3
        <3> HIDE DEF h, s
        <3>3. IF i > n THEN B(n) <= B(h) ELSE B(i) <= B(n)
            BY <2>1, <3>1, <3>2
        <3> QED
            BY <3>3 DEF h, s
    <2> DEFINE at == At(n, u, i)
    <2>5. at = s + (IF i > n THEN L ELSE 0)
        BY DEF At, L
    <2> HIDE DEF s, e, at
    <2>6. ASSUME NEW p \in 1 .. Len(e) PROVE input[at + p] = e[p]
        <3> DEFINE q == s + p
        <3>1. q \in 1 .. Len(w) /\ q <= B(i) /\ q > s /\ q \in Nat
            BY <1>1, <1>2, <1>3, <2>2
        <3>2. w[q] = e[p]
            BY <2>3
        <3>3. CASE i > n
            <4>1. q \in Len(a) + 1 .. Len(w) /\ at + p = q + L
                BY <1>2, <1>5, <1>9, <2>2, <2>4, <2>5, <3>1, <3>3
            <4> HIDE DEF q
            <4> QED
                BY <1>10, <3>2, <4>1
        <3>4. CASE ~(i > n)
            <4>1. q \in 1 .. Len(a) /\ at + p = q
                BY <1>5, <1>9, <2>2, <2>4, <2>5, <3>1, <3>4
            <4> HIDE DEF q
            <4> QED
                BY <1>10, <3>2, <4>1
        <3> QED
            BY <3>3, <3>4
    <2>7. Lies(input, at, End, e)
        BY <2>6 DEF Lies
    <2> QED
        BY <2>7 DEF at, e
<1>13. Lies(input, B(n), End, u)
    BY <1>5, <1>10 DEF Lies, L
<1>14. input[1] = PROTOCOL_VERSION
    <2>1. 1 \in 1 .. Len(a)
        BY <1>5, <1>9
    <2> QED
        BY <1>8, <1>10, <2>1
<1>15. End = B(K) + Len(u) /\ change # "cut" /\ n \in 0 .. K /\ u \in UnknownFields
    BY <1>11 DEF L
<1> QED
    BY <1>11, <1>12, <1>13, <1>14, <1>15 DEF Laid

LEMMA MessageBegins == Init => MessageRead /\ RoomMade
<1> SUFFICES ASSUME Init PROVE MessageRead /\ RoomMade
    OBVIOUS
<1>1. Typed
    BY InitTyped
<1>2. K \in Nat
    BY <1>1, Formats DEF Typed, K
<1>3. Sent => /\ origin \in Messages(format)
              /\ \/ change = "none" /\ input = EncodeMessage(format, origin)
                 \/ change = "unknown" /\ input \in WithUnknown(format, origin)
                 \/ change = "cut" /\ input \in CutShort(EncodeMessage(format, origin))
    BY DEF Init, Sent
<1>4. NotBegun
    <2>1. \A tag \in TagsOf(format) : fields[tag] = <<>>
        BY DEF Init
    <2>2. \A i \in 1 .. K : Tag(i) \in TagsOf(format)
        BY <1>1, Formats DEF Typed, K, Tag
    <2> QED
        BY <2>1, <2>2 DEF Init, NotBegun
<1>5. ASSUME Sent PROVE \E n \in 0 .. K, u \in {<<>>} \cup UnknownFields : Laid(n, u)
    <2>1. CASE change = "unknown"
        <3>1. PICK n \in 0 .. K, u \in UnknownFields : input = Between(format, origin, n, u)
            BY <1>3, <1>5, <2>1, WithUnknownMeans DEF K
        <3> QED
            BY <1>1, <1>3, <1>5, <2>1, <3>1, LaidWithUnknown
    <2>2. CASE change # "unknown"
        <3> DEFINE w == EncodeMessage(format, origin)
        <3>1. (change = "none" /\ input = w) \/ (change = "cut" /\ input \in CutShort(w))
            BY <1>3, <1>5, <2>2
        <3> HIDE DEF w
        <3>2. Laid(K, <<>>)
            BY <1>1, <1>3, <1>5, <3>1, LaidBegins DEF w
        <3> QED
            BY <1>2, <3>2
    <2> QED
        BY <2>1, <2>2
<1>6. MessageRead
    <2>1. \A n, u : Called(n, u)
        BY <1>4 DEF Called
    <2> QED
        BY <1>3, <1>5, <2>1 DEF MessageRead
<1>7. RoomMade
    <2> SUFFICES ASSUME change = "none" PROVE Len(input) = EncodedLength(format, origin)
        BY DEF RoomMade
    <2>1. origin \in Messages(format) /\ input = EncodeMessage(format, origin)
        BY <1>3 DEF Sent
    <2> QED
        BY <1>1, <2>1, WholeMessage, RoomIsExact DEF Typed
<1> QED
    BY <1>6, <1>7

LEMMA MessageStays == Typed /\ MessageRead /\ RoomMade /\ [Next]_vars => (MessageRead /\ RoomMade)'
<1> SUFFICES ASSUME Typed, MessageRead, RoomMade, [Next]_vars PROVE (MessageRead /\ RoomMade)'
    OBVIOUS
<1>1. UNCHANGED message_vars
    BY DEF Next, NothingToRead, ReadVersion, Decode, EndTurn, Return, vars
<1>2. format' = format /\ input' = input /\ origin' = origin /\ change' = change
    BY <1>1, Unmoved
<1>3. RoomMade'
    BY <1>2 DEF RoomMade
<1>4. ASSUME Sent
      PROVE  \E n \in 0 .. K, u \in {<<>>} \cup UnknownFields : Laid(n, u) /\ Called(n, u)'
    <2>1. origin \in Messages(format)
        BY <1>4 DEF MessageRead
    <2>2. PICK n \in 0 .. K, u \in {<<>>} \cup UnknownFields : Laid(n, u) /\ Called(n, u)
        BY <1>4 DEF MessageRead
    <2>3. CASE ReadVersion
        BY <2>1, <2>2, <2>3, ReadVersionCalled
    <2>4. CASE Decode
        BY <2>1, <2>2, <2>4, DecodeCalled
    <2>5. CASE EndTurn
        BY <2>1, <2>2, <2>5, EndTurnCalled
    <2>6. CASE NothingToRead \/ Return \/ UNCHANGED vars
        BY <2>2, <2>6, OtherwiseCalled
    <2> QED
        BY <2>3, <2>4, <2>5, <2>6 DEF Next
<1>5. MessageRead'
    <2> SUFFICES ASSUME Sent'
                 PROVE  /\ origin' \in Messages(format')
                        /\ \E n \in 0 .. K', u \in {<<>>} \cup UnknownFields :
                             Laid(n, u)' /\ Called(n, u)'
        BY DEF MessageRead
    <2>1. Sent
        BY <1>2 DEF Sent
    <2>2. K' = K /\ \A n, u : Laid(n, u)' = Laid(n, u)
        BY <1>1, Unmoved
    <2>3. origin' \in Messages(format')
        BY <1>2, <2>1 DEF MessageRead
    <2>4. PICK n \in 0 .. K, u \in {<<>>} \cup UnknownFields : Laid(n, u) /\ Called(n, u)'
        BY <1>4, <2>1
    <2>5. Laid(n, u)'
        BY <2>2, <2>4
    <2> QED
        BY <2>2, <2>3, <2>4, <2>5
<1> QED
    BY <1>3, <1>5

LEMMA CallReads == Spec => [](Typed /\ MessageRead /\ RoomMade)
<1>1. Init => Typed /\ MessageRead /\ RoomMade
    BY InitTyped, MessageBegins
<1>2. Typed /\ MessageRead /\ RoomMade /\ [Next]_vars => (Typed /\ MessageRead /\ RoomMade)'
    BY TypedStays, MessageStays
<1> QED
    BY <1>1, <1>2, PTL DEF Spec

(* A message fits exactly into the room made for it, and is read as it was *)
(* written, also when it holds a field that the reader does not know: the  *)
(* reader comes to the end behind all of the fields, with each of them     *)
(* read.                                                                   *)
THEOREM ReadsWholeMessages == Spec => []ReadWhole
<1>1. Typed /\ MessageRead /\ RoomMade => ReadWhole
    <2> SUFFICES ASSUME Typed, MessageRead, RoomMade, change \in {"none", "unknown"}, done
                 PROVE  ReadAsWritten
        BY DEF ReadWhole, RoomMade
    <2>1. Sent
        BY DEF Sent
    <2>2. origin \in Messages(format)
        BY <2>1 DEF MessageRead
    <2>3. PICK n \in 0 .. K, u \in {<<>>} \cup UnknownFields : Laid(n, u) /\ Called(n, u)
        BY <2>1 DEF MessageRead
    <2>4. /\ K \in Nat /\ Len(u) \in Nat /\ B(K) \in Nat /\ B(K) >= 1 /\ n \in 0 .. K /\ K \in 0 .. K
          /\ \A i \in 0 .. K : B(i) \in Nat
          /\ \A a, b \in 0 .. K : a < b => B(a) < B(b)
        BY <2>2, <2>3, Places
    <2>5. End = B(K) + Len(u)
        BY <2>3 DEF Laid
    <2>6. ~NotBegun
        BY <2>4, <2>5 DEF NotBegun
    <2>7. Turn /\ Reading(n, u) /\ pos = End
        BY <2>3, <2>6 DEF Called, Stopped, Turn
    <2>8. PICK i \in 0 .. K, j \in {0, Len(u)} : Where(n, u, i, j)
        BY <2>7 DEF Reading
    <2>9. i = K
        <3> SUFFICES ASSUME i < K PROVE FALSE
            BY <2>4
        <3>1. B(i) < B(K) /\ B(i) \in Nat /\ pos = B(i) + j
            BY <2>4, <2>8 DEF Where
        <3>2. j \in Nat /\ j <= Len(u)
            BY <2>4
        <3> DEFINE l == Len(u)
        <3>3. l \in Nat /\ j <= l /\ pos = B(K) + l
            BY <2>4, <2>5, <2>7, <3>2
        <3> HIDE DEF l
        <3> QED
            BY <2>4, <3>1, <3>2, <3>3
    <2>10. \A h \in 1 .. K : ReadRight(Tag(h))
        BY <2>8, <2>9 DEF Where
    <2>11. version = PROTOCOL_VERSION
        BY <2>7 DEF Turn
    <2>12. \A tag \in TagsOf(format) : \E h \in 1 .. K : tag = Tag(h)
        BY DEF TagsOf, K, Tag
    <2>13. \A tag \in TagsOf(format) : ReadRight(tag)
        BY <2>10, <2>12
    <2> QED
        BY <2>11, <2>13 DEF ReadAsWritten, ReadRight
<1> QED
    BY <1>1, CallReads, PTL

(* A message that was cut short is refused for its fields, but for one     *)
(* that ends within the length of its last field where what is left of it  *)
(* is read as a zero: the reader comes to the end within one of the        *)
(* fields, and reads none behind it.                                       *)
THEOREM RefusesCutMessages == Spec => []CutMessagesRefused
<1>1. Typed /\ MessageRead => CutMessagesRefused
    <2> SUFFICES ASSUME Typed, MessageRead, done, change = "cut", FieldsChecked(TRUE)
                 PROVE  EmptyLast
        BY DEF CutMessagesRefused, EmptyLast, ZeroDigits, Tag, K
    <2>1. Sent
        BY DEF Sent
    <2>2. origin \in Messages(format)
        BY <2>1 DEF MessageRead
    <2>3. PICK n \in 0 .. K, u \in {<<>>} \cup UnknownFields : Laid(n, u) /\ Called(n, u)
        BY <2>1 DEF MessageRead
    <2>4. fields[Tag(K)] # <<>>
        <3>1. format \in {"message", "pre_key", "group"}
            BY Formats DEF Typed
        <3> USE DEF FieldsChecked, Has, Tag, K
        <3>2. CASE format = "message"
            <4>1. Tags[format] = <<RATCHET_KEY_TAG, COUNTER_TAG, CIPHERTEXT_TAG>>
                BY <3>2 DEF Tags
            <4> QED
                BY <3>2, <4>1
        <3>3. CASE format = "pre_key"
            <4>1. Tags[format] = <<PREKEY_ID_TAG, ONE_TIME_KEY_ID_TAG, BASE_KEY_TAG,
                                   IDENTITY_KEY_TAG, MESSAGE_TAG>>
                BY <3>3 DEF Tags
            <4> QED
                BY <3>3, <4>1
        <3>4. CASE format = "group"
            <4>1. Tags[format] = <<GROUP_MESSAGE_INDEX_TAG, GROUP_CIPHERTEXT_TAG>>
                BY <3>4 DEF Tags
            <4> QED
                BY <3>4, <4>1
        <3> QED
            BY <3>1, <3>2, <3>3, <3>4
    <2>5. /\ K \in Nat /\ Len(u) \in Nat /\ K \in 1 .. K /\ End \in Int
          /\ B(K) \in Nat
        <3>1. /\ K \in Nat /\ K >= 2 /\ Len(u) \in Nat /\ End \in Int
              /\ \A i \in 0 .. K : B(i) \in Nat
            BY <2>2, <2>3, Places
        <3>2. K \in 1 .. K /\ K \in 0 .. K
            BY <3>1
        <3> QED
            BY <3>1, <3>2
    <2>6. End < B(K)
        BY <2>3 DEF Laid
    <2>7. ~NotBegun
        BY <2>4, <2>5 DEF NotBegun
    <2>8. Turn /\ (Reading(n, u) \/ Stopped) /\ pos = End
        BY <2>3, <2>7 DEF Called, Turn
    <2>9. ~Reading(n, u)
        <3> SUFFICES ASSUME Reading(n, u) PROVE FALSE
            OBVIOUS
        <3>1. PICK i \in 0 .. K, j \in {0, Len(u)} : Where(n, u, i, j)
            BY DEF Reading
        <3>2. CASE i = K
            <4>1. pos = B(K) + j /\ j \in Nat /\ B(K) \in Nat
                BY <2>5, <3>1, <3>2 DEF Where
            <4> QED
                BY <2>5, <2>6, <2>8, <4>1
        <3>3. CASE i # K
            <4>1. K \in i + 1 .. K
                BY <2>5, <3>3
            <4> QED
                BY <2>4, <3>1, <4>1 DEF Where
        <3> QED
            BY <3>2, <3>3
    <2> QED
        BY <2>4, <2>8, <2>9 DEF Stopped
<1> QED
    BY <1>1, CallReads, PTL

-----------------------------------------------------------------------------
(* A call comes to its end, whatever bytes it is given.  What is unknown   *)
(* moves on with every turn of the loop, for a turn that reads nothing     *)
(* passes over something.                                                  *)
Room == IF End > 0 THEN End ELSE 0
StepsLeft == (K + 2) * (Room - unknown) + (K + 1 - next) + (IF done THEN 0 ELSE 1)

Going ==
    /\ unknown \in Nat /\ unknown <= pos /\ next <= K + 1 /\ done \in BOOLEAN
    /\ pos > 0 => next > 0
    /\ unknown = pos /\ pos = End => next <= 1

(* A step that is closer to the end: it lets the turn go on, begins another*)
(* turn further on, or returns.                                            *)
Closer ==
    /\ UNCHANGED message_vars
    /\ \/ unknown' = unknown /\ next' = next + 1 /\ done' = done
       \/ unknown' > unknown /\ next' > 0 /\ done' = done
       \/ unknown' = unknown /\ next' = next /\ ~done /\ done'

Progress == StepsLeft \in Nat /\ StepsLeft' \in Nat /\ StepsLeft' < StepsLeft

LEMMA RoomThere ==
    ASSUME Typed
    PROVE  /\ K \in Nat /\ K >= 2 /\ End \in Int /\ End <= Len(input) /\ Room \in Nat
           /\ pos \in Nat /\ pos <= Room /\ next \in Nat /\ (next > 0 => pos > 0)
           /\ (pos > 0 => pos <= End /\ End \in Nat /\ Room = End)
<1>1. TrailerLength[format] \in Nat /\ Len(input) \in Nat
    BY Formats, CodecAssumption DEF Typed
<1>2. End \in Int /\ End <= Len(input)
    BY <1>1 DEF End
<1>3. K \in Nat /\ K >= 2
    BY Formats DEF Typed, K
<1>4. /\ pos \in Nat /\ next \in Nat /\ (next > 0 => pos > 0) /\ (pos > 0 => pos <= End)
    BY DEF Typed
<1> QED
    BY <1>2, <1>3, <1>4 DEF Room

(* More than a whole turn is left for each byte that is unknown.           *)
LEMMA TurnsLeft ==
    ASSUME NEW k \in Nat, NEW x \in Nat, NEW y \in Nat, y < x
    PROVE  /\ (k + 2) * x \in Nat /\ (k + 2) * y \in Nat
           /\ (k + 2) * y + (k + 2) <= (k + 2) * x
<1> DEFINE a == k + 2
<1>1. a \in Nat
    OBVIOUS
<1> HIDE DEF a
<1>2. PICK d \in Nat : x = y + 1 + d
    <2>1. x - y - 1 \in Nat /\ x = y + 1 + (x - y - 1)
        OBVIOUS
    <2> QED
        BY <2>1
<1>3. a * x = a * y + a + a * d
    BY <1>1, <1>2
<1>4. a * d \in Nat /\ a * y \in Nat /\ a * x \in Nat
    BY <1>1, <1>2
<1> QED
    BY <1>1, <1>3, <1>4 DEF a

LEMMA MeasureFalls ==
    ASSUME NEW k \in Nat, NEW r \in Nat, NEW u \in Nat, NEW v \in Nat, NEW n \in Nat,
           NEW m \in Nat, NEW d \in {0, 1}, NEW e \in {0, 1},
           u <= r, v <= r, n <= k + 1, m <= k + 1,
           \/ v = u /\ m = n + 1 /\ e = d
           \/ v > u /\ m > 0 /\ e = d
           \/ v = u /\ m = n /\ d = 1 /\ e = 0
    PROVE  LET before == (k + 2) * (r - u) + (k + 1 - n) + d
               after  == (k + 2) * (r - v) + (k + 1 - m) + e
           IN  before \in Nat /\ after \in Nat /\ after < before
<1>1. PICK x \in Nat, y \in Nat : x = r - u /\ y = r - v
    <2>1. r - u \in Nat /\ r - v \in Nat
        OBVIOUS
    <2> QED
        BY <2>1
<1>2. PICK a \in Nat, b \in Nat : a = (k + 2) * x /\ b = (k + 2) * y
    <2>1. (k + 2) * x \in Nat /\ (k + 2) * y \in Nat
        BY <1>1
    <2> QED
        BY <2>1
<1>3. PICK p \in Nat, q \in Nat : p = k + 1 - n /\ q = k + 1 - m
    <2>1. k + 1 - n \in Nat /\ k + 1 - m \in Nat
        OBVIOUS
    <2> QED
        BY <2>1
<1>4. a + p + d \in Nat /\ b + q + e \in Nat /\ b + q + e < a + p + d
    <2>1. d \in Nat /\ e \in Nat
        OBVIOUS
    <2>2. CASE v = u
        <3>1. a = b
            BY <1>1, <1>2, <2>2
        <3>2. q + e < p + d
            BY <1>3, <2>1, <2>2
        <3> QED
            BY <2>1, <3>1, <3>2
    <2>3. CASE v > u
        <3>1. y < x
            BY <1>1, <2>3
        <3>2. b + (k + 2) <= a
            BY <1>2, <3>1, TurnsLeft
        <3>3. q < k + 2 /\ e = d
            BY <1>3, <2>3
        <3> QED
            BY <2>1, <3>2, <3>3
    <2> QED
        BY <2>2, <2>3
<1> QED
    BY <1>1, <1>2, <1>3, <1>4

LEMMA CloserIsProgress ==
    ASSUME Typed, Typed', Going, Going', Closer
    PROVE  Progress
<1>1. /\ K \in Nat /\ Room \in Nat /\ next \in Nat /\ next <= K + 1
      /\ unknown \in Nat /\ unknown <= Room
    BY RoomThere DEF Going
<1>2. K' = K /\ Room' = Room
    BY Unmoved DEF Closer, Room
<1>3. next' \in Nat /\ next' <= K + 1 /\ unknown' \in Nat /\ unknown' <= Room
    <2>1. pos' <= Room'
        <3>1. End' = End /\ End \in Int
            BY RoomThere, Unmoved DEF Closer
        <3> QED
            BY <3>1 DEF Typed, Room
    <2>2. /\ next' \in Nat /\ next' <= K' + 1 /\ unknown' \in Nat /\ unknown' <= pos'
          /\ pos' \in Nat
        BY DEF Going, Typed
    <2> QED
        BY <1>1, <1>2, <2>1, <2>2
<1>4. PICK k \in Nat, r \in Nat, u \in Nat, v \in Nat, n \in Nat, m \in Nat,
           d \in {0, 1}, e \in {0, 1} :
        /\ k = K /\ r = Room /\ u = unknown /\ v = unknown' /\ n = next /\ m = next'
        /\ d = IF done THEN 0 ELSE 1
        /\ e = IF done' THEN 0 ELSE 1
    <2>1. (IF done THEN 0 ELSE 1) \in {0, 1} /\ (IF done' THEN 0 ELSE 1) \in {0, 1}
        OBVIOUS
    <2> QED
        BY <1>1, <1>3, <2>1
<1>5. \/ v = u /\ m = n + 1 /\ e = d
      \/ v > u /\ m > 0 /\ e = d
      \/ v = u /\ m = n /\ d = 1 /\ e = 0
    BY <1>4 DEF Closer
<1>6. u <= r /\ v <= r /\ n <= k + 1 /\ m <= k + 1
    BY <1>1, <1>3, <1>4
<1>7. /\ StepsLeft = (k + 2) * (r - u) + (k + 1 - n) + d
      /\ StepsLeft' = (k + 2) * (r - v) + (k + 1 - m) + e
    BY <1>2, <1>4 DEF StepsLeft
<1> QED
    BY <1>5, <1>6, <1>7, MeasureFalls DEF Progress

LEMMA DecodeMoves ==
    ASSUME Typed, Going, Decode
    PROVE  /\ UNCHANGED <<message_vars, unknown, done>>
           /\ next' = next + 1 /\ next' <= K + 1 /\ next > 0
           /\ pos' = pos \/ pos' > pos
           /\ next = 1 => pos # End
<1> DEFINE tag == Tags[format][next]
           start == VarintSkip(input, pos + 1, End)
           length == LengthAt(input, End, pos + 1)
<1>1. /\ next \in 1 .. K /\ next' = next + 1 /\ UNCHANGED <<message_vars, unknown, done>>
      /\ next = 1 => pos # End
      /\ DecodeNumber(tag) \/ DecodeString(tag) \/ StringTooLong(tag) \/ OtherTag(tag)
    BY DEF Decode, InLoop, K
<1>2. pos \in Nat /\ pos > 0 /\ pos <= End /\ End \in Nat /\ End <= Len(input) /\ K \in Nat
    BY <1>1, RoomThere
<1>3. pos # End => start \in Nat /\ start > pos /\ length \in Nat
    <2> SUFFICES ASSUME pos # End PROVE start \in Nat /\ start > pos /\ length \in Nat
        OBVIOUS
    <2> DEFINE q == pos + 1
               end == End
    <2>1. q \in Nat /\ q <= end /\ end \in Nat /\ end <= Len(input) /\ input \in Seq(Nat)
        BY <1>2 DEF Typed
    <2> HIDE DEF q, end
    <2>2. VarintSkip(input, q, end) \in q .. end /\ LengthAt(input, end, q) \in Nat
        BY <2>1, SkipBounds, LengthIsNumber
    <2>3. start = VarintSkip(input, q, end) /\ length = LengthAt(input, end, q) /\ q = pos + 1
        BY DEF q, end
    <2> QED
        BY <1>2, <2>1, <2>2, <2>3
<1>4. pos' = pos \/ (pos # End /\ pos' \in {start, start + length, End})
    BY <1>1 DEF DecodeNumber, DecodeString, StringTooLong, OtherTag, AtTag
<1> HIDE DEF tag, start, length
<1>5. pos' = pos \/ pos' > pos
    BY <1>2, <1>3, <1>4
<1> QED
    BY <1>1, <1>2, <1>5

LEMMA EndTurnMoves ==
    ASSUME Typed, Going, EndTurn
    PROVE  /\ UNCHANGED <<message_vars, done>> /\ next' = 1
           /\ unknown' = pos' /\ pos' \in Nat /\ pos' > unknown
<1>1. /\ next = K + 1 /\ next' = 1 /\ UNCHANGED <<message_vars, done>>
      /\ pos' = IF unknown = pos THEN SkipUnknown(input, End, pos) ELSE pos
      /\ unknown' = pos'
    BY DEF EndTurn, K
<1>2. /\ K >= 2 /\ K \in Nat /\ pos \in Nat /\ pos > 0 /\ pos <= End
      /\ End \in Nat /\ End <= Len(input)
    BY <1>1, RoomThere
<1>3. unknown \in Nat /\ unknown <= pos /\ (unknown = pos => pos < End)
    BY <1>1, <1>2 DEF Going
<1>4. pos < End => SkipUnknown(input, End, pos) \in Nat /\ SkipUnknown(input, End, pos) > pos
    <2>1. input \in Seq(Nat)
        BY DEF Typed
    <2> QED
        BY <1>2, <2>1, UnknownInside
<1> QED
    BY <1>1, <1>2, <1>3, <1>4

LEMMA NextIsCloser == ASSUME Typed, Typed', Going, Next PROVE Going' /\ Closer
<1>1. /\ K \in Nat /\ K >= 2 /\ End \in Int /\ Room \in Nat
      /\ pos \in Nat /\ pos <= Room /\ next \in Nat /\ (next > 0 => pos > 0)
      /\ (pos > 0 => pos <= End /\ End \in Nat)
    BY RoomThere
<1>2. /\ unknown \in Nat /\ unknown <= pos /\ next <= K + 1 /\ done \in BOOLEAN
      /\ pos > 0 => next > 0
      /\ unknown = pos /\ pos = End => next <= 1
    BY DEF Going
<1>3. UNCHANGED message_vars => K' = K /\ End' = End
    BY Unmoved
<1>4. CASE NothingToRead \/ Return
    <2>1. UNCHANGED <<message_vars, pos, unknown, next>> /\ ~done /\ done' = TRUE
        BY <1>4 DEF NothingToRead, Return
    <2> QED
        BY <1>2, <1>3, <2>1 DEF Going, Closer
<1>5. CASE ReadVersion
    <2>1. /\ UNCHANGED <<message_vars, done>> /\ pos = 0 /\ pos' = 1 /\ unknown' = 1 /\ next' = 1
        BY <1>5 DEF ReadVersion
    <2>2. UNCHANGED message_vars /\ done' = done /\ unknown = 0
        BY <1>2, <2>1
    <2>3. Closer
        BY <2>1, <2>2 DEF Closer
    <2>4. K' = K /\ done' \in BOOLEAN
        BY <1>2, <1>3, <2>2
    <2> QED
        BY <1>1, <2>1, <2>3, <2>4 DEF Going
<1>6. CASE Decode
    <2>1. /\ UNCHANGED <<message_vars, unknown, done>>
          /\ next' = next + 1 /\ next' <= K + 1 /\ next > 0
          /\ pos' = pos \/ pos' > pos
          /\ next = 1 => pos # End
        BY <1>6, DecodeMoves
    <2>2. UNCHANGED message_vars /\ done' = done /\ unknown' = unknown /\ K' = K /\ End' = End
        BY <1>3, <2>1
    <2>3. Closer
        BY <2>1, <2>2 DEF Closer
    <2>4. pos' \in Nat
        BY DEF Typed
    <2>5. ~(unknown' = pos' /\ pos' = End)
        BY <1>1, <1>2, <2>1, <2>2, <2>4
    <2>6. done' \in BOOLEAN
        BY <1>2, <2>2
    <2>7. unknown' \in Nat /\ unknown' <= pos' /\ next' <= K' + 1 /\ next' > 0
        BY <1>1, <1>2, <2>1, <2>2, <2>4
    <2> QED
        BY <2>2, <2>3, <2>5, <2>6, <2>7 DEF Going
<1>7. CASE EndTurn
    <2>1. /\ UNCHANGED <<message_vars, done>> /\ next' = 1
          /\ unknown' = pos' /\ pos' \in Nat /\ pos' > unknown
        BY <1>7, EndTurnMoves
    <2>2. UNCHANGED message_vars /\ done' = done /\ K' = K /\ done' \in BOOLEAN
        BY <1>2, <1>3, <2>1
    <2>3. Closer
        BY <2>1, <2>2 DEF Closer
    <2> QED
        BY <1>1, <2>1, <2>2, <2>3 DEF Going
<1> QED
    BY <1>4, <1>5, <1>6, <1>7 DEF Next

LEMMA InitGoing == Init => Going
<1> SUFFICES ASSUME Init PROVE Going
    OBVIOUS
<1>1. K \in Nat
    BY InitTyped, RoomThere
<1>2. pos = 0 /\ unknown = 0 /\ next = 0 /\ done \in BOOLEAN
    BY DEF Init
<1>3. next <= K + 1 /\ ~(pos > 0) /\ unknown \in Nat /\ unknown <= pos
    BY <1>1, <1>2
<1> QED
    BY <1>2, <1>3 DEF Going

LEMMA GoingStays == Typed /\ Going /\ [Next]_vars => Going'
<1>1. ASSUME Typed, Going, UNCHANGED vars PROVE Going'
    BY <1>1 DEF Going, vars, message_vars, K, End
<1> QED
    BY <1>1, NextIsCloser, TypedStays

(* Every step of a reader brings it closer to the end of its call, by a    *)
(* measure that the length of the input bounds: it makes at most so many   *)
(* steps, and until it has returned it can make another one.  Whatever     *)
(* bytes arrive, it neither loops nor hangs; that it therefore returns if  *)
(* it is run (Terminates) is checked.                                      *)
CanGoOn ==
    \/ pos = 0
    \/ InLoop
    \/ next = Len(Tags[format]) + 1
    \/ next = 1 /\ pos = End

THEOREM CallsAdvance == Spec => [](~done => CanGoOn) /\ [][Progress]_vars
<1>1. Typed /\ Going => (~done => CanGoOn)
    <2> SUFFICES ASSUME Typed, Going, ~done, pos # 0, next # K + 1, ~(next = 1 /\ pos = End)
                 PROVE  InLoop
        BY DEF CanGoOn, K
    <2>1. next \in Nat /\ next > 0 /\ next <= K + 1 /\ K \in Nat
        BY RoomThere DEF Going
    <2>2. next \in 1 .. K
        BY <2>1
    <2> QED
        BY <2>2 DEF InLoop, K
<1>2. Typed /\ Going /\ Typed' /\ [Next]_vars => [Progress]_vars
    BY NextIsCloser, CloserIsProgress
<1> QED
    BY <1>1, <1>2, InitGoing, GoingStays, InitTyped, TypedStays, PTL DEF Spec
=============================================================================
