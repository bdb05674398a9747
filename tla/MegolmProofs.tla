---------------------------- MODULE MegolmProofs ----------------------------
(***************************************************************************)
(* Proofs about Megolm and group sessions, for every number of parts and   *)
(* every base, every set of members, every damage and every bound.         *)
(*                                                                         *)
(* First the ratchet: At(n) is its value after n steps, which              *)
(* megolm_advance_to() reaches from any earlier one, and each value can be *)
(* computed from those before it only.  Then the group: its invariant says *)
(* which of these values every session, session key, export, pickle and    *)
(* message holds, and the properties follow from what is known of them.    *)
(***************************************************************************)
EXTENDS GroupRestart, MegolmSteps, OlmListProofs, FiniteSetTheorems, WellFoundedInduction

-----------------------------------------------------------------------------
(* Induction and iteration.                                                *)

(* A nonempty set of natural numbers has a least one.                      *)
LEMMA LeastNumber ==
    ASSUME NEW T \in SUBSET Nat, T # {}
    PROVE  \E x \in T : \A y \in T : x <= y
<1> DEFINE R == OpToRel(<, Nat)
<1>1. IsWellFoundedOn(R, Nat)
    BY NatLessThanWellFounded
<1> HIDE DEF R
<1>2. PICK x \in T : \A y \in T : ~(<<y, x>> \in R)
    BY <1>1, WFMin
<1>3. ASSUME NEW y \in T PROVE x <= y
    <2>1. ~(<<y, x>> \in OpToRel(<, Nat))
        BY <1>2 DEF R
    <2> QED
        BY <2>1 DEF OpToRel
<1> QED
    BY <1>3

LEMMA Induction ==
    ASSUME NEW T, 0 \in T, \A n \in Nat : n \in T => n + 1 \in T
    PROVE  Nat \subseteq T
<1> SUFFICES ASSUME NEW n \in Nat, n \notin T PROVE FALSE
    OBVIOUS
<1> DEFINE U == {k \in Nat : k \notin T}
<1>1. U \in SUBSET Nat /\ U # {}
    OBVIOUS
<1>2. PICK x \in U : \A y \in U : x <= y
    BY <1>1, LeastNumber
<1>3. x # 0 /\ x \in Nat /\ x - 1 \in Nat /\ x - 1 < x
    BY <1>2
<1>4. x - 1 \in T
    BY <1>2, <1>3
<1> QED
    BY <1>2, <1>3, <1>4

(* What is F applied again and again, for n steps.                         *)
StepsOf(f, n, F, x) ==
    /\ f[0] = x
    /\ \A i \in 0 .. n - 1 : f[i + 1] = F[f[i]]

LEMMA StepsAgree ==
    ASSUME NEW F, NEW x, NEW f, NEW g, NEW m \in Nat, NEW n \in Nat,
           StepsOf(f, m, F, x), StepsOf(g, n, F, x)
    PROVE  \A i \in Nat : i <= m /\ i <= n => f[i] = g[i]
<1> DEFINE T == {i \in Nat : i <= m /\ i <= n => f[i] = g[i]}
<1>1. 0 \in T
    BY DEF StepsOf
<1>2. ASSUME NEW i \in Nat, i \in T PROVE i + 1 \in T
    <2> SUFFICES ASSUME i + 1 <= m, i + 1 <= n PROVE f[i + 1] = g[i + 1]
        OBVIOUS
    <2>1. i \in 0 .. m - 1 /\ i \in 0 .. n - 1 /\ f[i] = g[i]
        BY <1>2
    <2> QED
        BY <2>1 DEF StepsOf
<1> HIDE DEF T
<1>3. Nat \subseteq T
    BY <1>1, <1>2, Induction
<1> QED
    BY <1>3 DEF T

LEMMA StepsExist ==
    ASSUME NEW S, NEW F \in [S -> S], NEW x \in S, NEW n \in Nat
    PROVE  \E f \in [0 .. n -> S] : StepsOf(f, n, F, x)
<1> DEFINE T == {m \in Nat : \E f \in [0 .. m -> S] : StepsOf(f, m, F, x)}
<1>1. 0 \in T
    <2>1. [i \in 0 .. 0 |-> x] \in [0 .. 0 -> S]
        OBVIOUS
    <2>2. StepsOf([i \in 0 .. 0 |-> x], 0, F, x)
        BY DEF StepsOf
    <2> QED
        BY <2>1, <2>2
<1>2. ASSUME NEW m \in Nat, m \in T PROVE m + 1 \in T
    <2>1. PICK f \in [0 .. m -> S] : StepsOf(f, m, F, x)
        BY <1>2
    <2> DEFINE g == [i \in 0 .. m + 1 |-> IF i <= m THEN f[i] ELSE F[f[m]]]
    <2>2. g \in [0 .. m + 1 -> S]
        <3>1. f[m] \in S /\ F[f[m]] \in S
            BY <2>1
        <3>2. \A i \in 0 .. m + 1 : i <= m => f[i] \in S
            BY <2>1
        <3> QED
            BY <3>1, <3>2
    <2>3. StepsOf(g, m + 1, F, x)
        <3>1. g[0] = x
            BY <2>1 DEF StepsOf
        <3>2. ASSUME NEW i \in 0 .. m PROVE g[i + 1] = F[g[i]]
            <4>1. g[i] = f[i]
                OBVIOUS
            <4>2. CASE i < m
                <5>1. g[i + 1] = f[i + 1] /\ i \in 0 .. m - 1
                    BY <4>2
                <5> QED
                    BY <2>1, <4>1, <5>1 DEF StepsOf
            <4>3. CASE i = m
                BY <4>1, <4>3
            <4> QED
                BY <4>2, <4>3
        <3> HIDE DEF g
        <3> QED
            BY <3>1, <3>2 DEF StepsOf
    <2> QED
        BY <2>2, <2>3
<1> HIDE DEF T
<1>3. Nat \subseteq T
    BY <1>1, <1>2, Induction
<1> QED
    BY <1>3 DEF T

Iterates(f, F, x, S) ==
    f \in [Nat -> S] /\ f[0] = x /\ \A n \in Nat : f[n + 1] = F[f[n]]

LEMMA Iteration ==
    ASSUME NEW S, NEW F \in [S -> S], NEW x \in S
    PROVE  \E f : Iterates(f, F, x, S)
<1> DEFINE G(n) == CHOOSE f \in [0 .. n -> S] : StepsOf(f, n, F, x)
           f == [n \in Nat |-> G(n)[n]]
<1>1. ASSUME NEW n \in Nat
      PROVE  G(n) \in [0 .. n -> S] /\ StepsOf(G(n), n, F, x)
    BY StepsExist
<1> HIDE DEF G
<1>2. f \in [Nat -> S]
    BY <1>1
<1>3. f[0] = x
    BY <1>1 DEF StepsOf
<1>4. ASSUME NEW n \in Nat PROVE f[n + 1] = F[f[n]]
    <2>1. G(n + 1)[n] = G(n)[n]
        BY <1>1, StepsAgree
    <2>2. G(n + 1)[n + 1] = F[G(n + 1)[n]]
        <3>1. StepsOf(G(n + 1), n + 1, F, x) /\ n \in 0 .. (n + 1) - 1
            BY <1>1
        <3> QED
            BY <3>1 DEF StepsOf
    <2> QED
        BY <2>1, <2>2
<1> QED
    BY <1>2, <1>3, <1>4 DEF Iterates

-----------------------------------------------------------------------------
(* The digits of the counter.                                              *)
LEMMA PowerFacts ==
    /\ Power \in [0 .. MEGOLM_RATCHET_PARTS -> Nat \ {0}]
    /\ Power[0] = 1
    /\ \A n \in 0 .. MEGOLM_RATCHET_PARTS - 1 : Power[n + 1] = PART_BASE * Power[n]
<1> DEFINE S == Nat \ {0}
           F == [v \in S |-> PART_BASE * v]
           N == MEGOLM_RATCHET_PARTS
           Is(p) == p = [n \in 0 .. N |-> IF n = 0 THEN 1 ELSE PART_BASE * p[n - 1]]
<1>1. PART_BASE \in Nat /\ PART_BASE > 1 /\ N \in Nat
    BY MegolmAssumption
<1>2. ASSUME NEW v \in S PROVE F[v] \in S /\ F[v] = PART_BASE * v
    BY <1>1
<1> HIDE DEF F
<1>3. PICK f \in [Nat -> S] : f[0] = 1 /\ \A n \in Nat : f[n + 1] = F[f[n]]
    <2> DEFINE one == 1
    <2>1. one \in S /\ F \in [S -> S]
        BY <1>1 DEF F
    <2> HIDE DEF S, one
    <2>2. \E f : Iterates(f, F, one, S)
        BY <2>1, Iteration
    <2> QED
        BY <2>2 DEF one, Iterates
<1> DEFINE p == [n \in 0 .. N |-> f[n]]
<1>4. Is(p)
    <2>1. ASSUME NEW n \in 0 .. N, n # 0 PROVE f[n] = PART_BASE * f[n - 1]
        <3>1. n - 1 \in Nat /\ (n - 1) + 1 = n /\ f[n - 1] \in S
            BY <1>1, <1>3, <2>1
        <3> QED
            BY <1>2, <1>3, <3>1
    <2>2. ASSUME NEW n \in 0 .. N, n # 0 PROVE n - 1 \in 0 .. N /\ p[n - 1] = f[n - 1]
        BY <1>1, <2>2
    <2> QED
        BY <1>3, <2>1, <2>2
<1>5. Is(Power)
    <2>1. Power = CHOOSE q : Is(q)
        BY DEF Power
    <2> HIDE DEF Is
    <2> QED
        BY <1>4, <2>1
<1> HIDE DEF p
<1>9. \A n \in 0 .. N - 1 : Power[n + 1] = PART_BASE * Power[n]
    <2> SUFFICES ASSUME NEW n \in 0 .. N - 1 PROVE Power[n + 1] = PART_BASE * Power[n]
        OBVIOUS
    <2> DEFINE k == n + 1
    <2>1. k \in 0 .. N /\ k # 0 /\ k - 1 = n
        BY <1>1
    <2> HIDE DEF k
    <2>2. Power[k] = PART_BASE * Power[k - 1]
        BY <1>5, <2>1
    <2> QED
        BY <2>1, <2>2 DEF k
<1>6. ASSUME NEW n \in Nat, n <= N PROVE Power[n] = f[n]
    <2> DEFINE T == {k \in Nat : k <= N => Power[k] = f[k]}
    <2>1. 0 \in T
        BY <1>3, <1>5
    <2>2. ASSUME NEW k \in Nat, k \in T PROVE k + 1 \in T
        <3> SUFFICES ASSUME k + 1 <= N PROVE Power[k + 1] = f[k + 1]
            OBVIOUS
        <3>1. Power[k + 1] = PART_BASE * Power[k]
            BY <1>1, <1>9
        <3>2. Power[k] = f[k]
            BY <1>1, <2>2
        <3> QED
            BY <1>2, <1>3, <3>1, <3>2
    <2> HIDE DEF T
    <2>3. Nat \subseteq T
        BY <2>1, <2>2, Induction
    <2> QED
        BY <1>6, <2>3 DEF T
<1>7. Power = [n \in 0 .. N |-> Power[n]]
    BY <1>5
<1>8. ASSUME NEW n \in 0 .. N PROVE Power[n] \in S
    BY <1>3, <1>6
<1> QED
    <2>1. Power \in [0 .. N -> S]
        BY <1>7, <1>8
    <2>2. Power[0] = 1
        BY <1>1, <1>5
    <2> QED
        BY <1>9, <2>1, <2>2


LEMMA UnitFacts ==
    /\ \A j \in Parts : Unit(j) \in Nat \ {0}
    /\ Unit(MEGOLM_RATCHET_PARTS - 1) = 1
    /\ \A j \in Parts : j > 0 => Unit(j - 1) = PART_BASE * Unit(j)
    /\ Modulus \in Nat \ {0} /\ Modulus = PART_BASE * Unit(0)
    /\ 0 \in Parts /\ MEGOLM_RATCHET_PARTS - 1 \in Parts /\ Parts \subseteq Nat
<1> DEFINE N == MEGOLM_RATCHET_PARTS
<1>1. N \in Nat /\ N > 0
    BY MegolmAssumption
<1>2. ASSUME NEW j \in Parts PROVE N - 1 - j \in 0 .. N /\ j \in Nat
    BY <1>1 DEF Parts
<1>3. ASSUME NEW j \in Parts, j > 0 PROVE Unit(j - 1) = PART_BASE * Unit(j)
    <2> DEFINE n == N - 1 - j
    <2>1. n \in 0 .. N - 1 /\ N - 1 - (j - 1) = n + 1
        BY <1>1, <1>3 DEF Parts
    <2>2. Power[n + 1] = PART_BASE * Power[n]
        BY <2>1, PowerFacts
    <2> QED
        BY <2>1, <2>2 DEF Unit
<1>4. Modulus = PART_BASE * Unit(0)
    <2> DEFINE n == N - 1
    <2>1. n \in 0 .. N - 1 /\ N - 1 - 0 = n /\ n + 1 = N
        BY <1>1
    <2>2. Power[n + 1] = PART_BASE * Power[n]
        BY <2>1, PowerFacts
    <2> QED
        BY <2>1, <2>2 DEF Unit, Modulus
<1>5. Modulus \in Nat \ {0}
    BY <1>1, PowerFacts DEF Modulus
<1>6. Unit(N - 1) = 1
    <2>1. N - 1 - (N - 1) = 0
        BY <1>1
    <2> QED
        BY <2>1, PowerFacts DEF Unit
<1> QED
    BY <1>1, <1>2, <1>3, <1>4, <1>5, <1>6, PowerFacts DEF Unit, Parts

(* Division by a unit.                                                     *)
LEMMA Division ==
    ASSUME NEW n \in Int, NEW u \in Nat, u > 0
    PROVE  /\ n \div u \in Int /\ n % u \in 0 .. u - 1
           /\ n = u * (n \div u) + (n % u)
           /\ n \in Nat => n \div u \in Nat
OBVIOUS

LEMMA NoMultipleBetween ==
    ASSUME NEW u \in Nat, u > 0, NEW d \in Int, 0 - u < u * d, u * d < u
    PROVE  d = 0
<1>1. d >= 1 => u * d >= u
    OBVIOUS
<1>2. d <= 0 - 1 => u * d <= 0 - u
    OBVIOUS
<1> QED
    BY <1>1, <1>2

LEMMA DivisionUnique ==
    ASSUME NEW n \in Int, NEW u \in Nat, u > 0, NEW q \in Int, NEW r \in 0 .. u - 1,
           n = u * q + r
    PROVE  n \div u = q /\ n % u = r
<1> DEFINE p == n \div u
           s == n % u
<1>1. p \in Int /\ s \in 0 .. u - 1 /\ n = u * p + s
    BY Division
<1> HIDE DEF p, s
<1>2. u * (p - q) = u * p - u * q
    BY <1>1
<1>3. u * (p - q) = r - s
    BY <1>1, <1>2
<1>4. p - q = 0
    <2> DEFINE d == p - q
    <2>1. d \in Int /\ 0 - u < u * d /\ u * d < u
        BY <1>1, <1>3
    <2> HIDE DEF d
    <2>2. d = 0
        BY <2>1, NoMultipleBetween
    <2> QED
        BY <2>2 DEF d
<1>5. p = q
    BY <1>1, <1>4
<1>6. s = r
    BY <1>1, <1>5
<1> QED
    BY <1>5, <1>6 DEF p, s

LEMMA NextQuotient ==
    ASSUME NEW n \in Nat, NEW u \in Nat, u > 0
    PROVE  (n + 1) \div u = IF (n + 1) % u = 0 THEN n \div u + 1 ELSE n \div u
<1> DEFINE p == n \div u
           s == n % u
<1>1. p \in Int /\ s \in 0 .. u - 1 /\ n = u * p + s
    BY Division
<1> HIDE DEF p, s
<1>2. CASE s + 1 < u
    <2>1. s + 1 \in 0 .. u - 1 /\ n + 1 = u * p + (s + 1) /\ n + 1 \in Int
        BY <1>1, <1>2
    <2>2. (n + 1) \div u = p /\ (n + 1) % u = s + 1
        BY <1>1, <2>1, DivisionUnique
    <2> QED
        BY <1>1, <2>2 DEF p
<1>3. CASE s + 1 = u
    <2>1. u * (p + 1) = u * p + u
        BY <1>1
    <2>2. 0 \in 0 .. u - 1 /\ n + 1 = u * (p + 1) + 0 /\ n + 1 \in Int /\ p + 1 \in Int
        BY <1>1, <1>3, <2>1
    <2>3. (n + 1) \div u = p + 1 /\ (n + 1) % u = 0
        BY <2>2, DivisionUnique
    <2> QED
        BY <2>3 DEF p
<1> QED
    BY <1>1, <1>2, <1>3

(* A larger unit, b times u.                                               *)
LEMMA LargerUnit ==
    ASSUME NEW n \in Int, NEW u \in Nat, u > 0, NEW b \in Nat, b > 0
    PROVE  /\ n \div (b * u) = (n \div u) \div b
           /\ n % (b * u) = u * ((n \div u) % b) + (n % u)
<1> DEFINE p == n \div u
           s == n % u
           q == p \div b
           r == p % b
<1>1. p \in Int /\ s \in 0 .. u - 1 /\ n = u * p + s
    BY Division
<1> HIDE DEF p, s
<1>2. q \in Int /\ r \in 0 .. b - 1 /\ p = b * q + r
    BY <1>1, Division
<1> HIDE DEF q, r
<1>3. n = (b * u) * q + (u * r + s)
    <2>1. u * p = u * (b * q) + u * r
        BY <1>2
    <2>2. u * (b * q) = (b * u) * q
        BY <1>2
    <2> QED
        BY <1>1, <1>2, <2>1, <2>2
<1>4. u * r + s \in 0 .. (b * u) - 1
    <2>1. u * r >= 0 /\ u * r \in Int
        BY <1>2
    <2>2. u * r <= u * (b - 1)
        BY <1>2
    <2>3. u * (b - 1) = b * u - u /\ b * u \in Int
        OBVIOUS
    <2> QED
        BY <1>1, <2>1, <2>2, <2>3
<1>5. b * u \in Nat /\ b * u > 0
    OBVIOUS
<1>6. n \div (b * u) = q /\ n % (b * u) = u * r + s
    <2> DEFINE v == b * u
               w == u * r + s
    <2>1. v \in Nat /\ v > 0 /\ w \in 0 .. v - 1 /\ n = v * q + w
        BY <1>3, <1>4, <1>5
    <2> HIDE DEF v, w
    <2>2. n \div v = q /\ n % v = w
        BY <1>2, <2>1, DivisionUnique
    <2> QED
        BY <2>2 DEF v, w
<1> QED
    BY <1>6 DEF p, q, r, s


LEMMA QuotientMonotone ==
    ASSUME NEW a \in Int, NEW b \in Int, a <= b, NEW u \in Nat, u > 0
    PROVE  a \div u <= b \div u
<1> DEFINE p == a \div u
           q == b \div u
           d == q - p
<1>1. /\ p \in Int /\ a % u \in 0 .. u - 1 /\ a = u * p + (a % u)
      /\ q \in Int /\ b % u \in 0 .. u - 1 /\ b = u * q + (b % u)
    BY Division
<1> HIDE DEF p, q
<1>2. d \in Int /\ u * d = u * q - u * p
    BY <1>1
<1>3. u * d > 0 - u
    BY <1>1, <1>2
<1> HIDE DEF d
<1>4. d <= 0 - 1 => u * d <= 0 - u
    BY <1>2
<1>5. d >= 0
    BY <1>2, <1>3, <1>4
<1> QED
    BY <1>1, <1>5 DEF p, q, d

LEMMA WholeMultiples ==
    ASSUME NEW d \in Int, NEW b \in Nat, b > 0, NEW k \in Int
    PROVE  /\ (d + b * k) % b = d % b
           /\ (d + b * k) \div b = d \div b + k
<1> DEFINE p == d \div b
           r == d % b
           n == d + b * k
<1>1. p \in Int /\ r \in 0 .. b - 1 /\ d = b * p + r
    BY Division
<1> HIDE DEF p, r
<1>2. b * (p + k) = b * p + b * k /\ b * k \in Int /\ p + k \in Int
    BY <1>1
<1>3. n \in Int /\ n = b * (p + k) + r
    BY <1>1, <1>2
<1> HIDE DEF n
<1>4. n \div b = p + k /\ n % b = r
    BY <1>1, <1>2, <1>3, DivisionUnique
<1> QED
    BY <1>4 DEF n, p, r

(* What divides by the unit of a digit divides by those behind it.         *)
LEMMA NextUnit ==
    ASSUME NEW n \in Int, NEW j \in Parts, j > 0
    PROVE  /\ n \div Unit(j - 1) = (n \div Unit(j)) \div PART_BASE
           /\ n % Unit(j - 1) = 0 <=> n % Unit(j) = 0 /\ (n \div Unit(j)) % PART_BASE = 0
<1> DEFINE u == Unit(j)
           r == (n \div u) % PART_BASE
           s == n % u
<1>1. u \in Nat /\ u > 0 /\ PART_BASE \in Nat /\ PART_BASE > 0 /\ Unit(j - 1) = PART_BASE * u
    BY UnitFacts, MegolmAssumption
<1> HIDE DEF u
<1>2. /\ n \div (PART_BASE * u) = (n \div u) \div PART_BASE
      /\ n % (PART_BASE * u) = u * r + s
    BY <1>1, LargerUnit
<1>3. r \in Nat /\ s \in Nat
    BY <1>1, Division
<1> HIDE DEF r, s
<1>4. u * r >= 0 /\ u * r \in Int /\ (r > 0 => u * r > 0) /\ (r = 0 => u * r = 0)
    BY <1>1, <1>3
<1>5. u * r + s = 0 <=> r = 0 /\ s = 0
    BY <1>3, <1>4
<1> QED
    BY <1>1, <1>2, <1>5 DEF u, r, s

LEMMA MultiplesBehind ==
    ASSUME NEW n \in Int, NEW i \in Parts, NEW j \in Parts, i <= j, n % Unit(i) = 0
    PROVE  n % Unit(j) = 0
<1> DEFINE T == {k \in Nat : i + k \in Parts => n % Unit(i + k) = 0}
<1>1. i \in Nat /\ j \in Nat /\ i + 0 = i
    BY UnitFacts
<1>2. 0 \in T
    BY <1>1
<1>3. ASSUME NEW k \in Nat, k \in T PROVE k + 1 \in T
    <2> SUFFICES ASSUME i + (k + 1) \in Parts PROVE n % Unit(i + (k + 1)) = 0
        OBVIOUS
    <2> DEFINE l == i + (k + 1)
    <2>1. l \in Parts /\ l > 0 /\ l - 1 = i + k /\ i + k \in Parts
        BY <1>1, MegolmAssumption DEF Parts
    <2>2. n % Unit(l - 1) = 0
        BY <1>3, <2>1
    <2> HIDE DEF l
    <2>3. n % Unit(l) = 0
        BY <2>1, <2>2, NextUnit
    <2> QED
        BY <2>3 DEF l
<1> HIDE DEF T
<1>4. j - i \in T
    BY <1>1, <1>2, <1>3, Induction
<1>5. i + (j - i) = j
    BY <1>1
<1> QED
    BY <1>4, <1>5 DEF T

LEMMA QuotientsBefore ==
    ASSUME NEW a \in Int, NEW b \in Int, NEW i \in Parts, NEW j \in Parts, i <= j,
           a \div Unit(j) = b \div Unit(j)
    PROVE  a \div Unit(i) = b \div Unit(i)
<1> DEFINE T == {k \in Nat : j - k \in Parts => a \div Unit(j - k) = b \div Unit(j - k)}
<1>1. i \in Nat /\ j \in Nat /\ j - 0 = j
    BY UnitFacts
<1>2. 0 \in T
    BY <1>1
<1>3. ASSUME NEW k \in Nat, k \in T PROVE k + 1 \in T
    <2> SUFFICES ASSUME j - (k + 1) \in Parts
                 PROVE  a \div Unit(j - (k + 1)) = b \div Unit(j - (k + 1))
        OBVIOUS
    <2> DEFINE l == j - k
    <2>1. l \in Parts /\ l > 0 /\ l - 1 = j - (k + 1)
        BY <1>1, MegolmAssumption DEF Parts
    <2>2. a \div Unit(l) = b \div Unit(l)
        BY <1>3, <2>1
    <2> HIDE DEF l
    <2>3. a \div Unit(l - 1) = b \div Unit(l - 1)
        BY <2>1, <2>2, NextUnit
    <2> QED
        BY <2>1, <2>3
<1> HIDE DEF T
<1>4. j - i \in T
    BY <1>1, <1>2, <1>3, Induction
<1>5. j - (j - i) = i
    BY <1>1
<1> QED
    BY <1>4, <1>5 DEF T

(* The counter has the digits of the number of steps.                      *)
LEMMA ModulusMultiple ==
    ASSUME NEW j \in Parts
    PROVE  \E k \in Nat : Modulus = Unit(j) * (PART_BASE * k)
<1> DEFINE T == {i \in Nat : i \in Parts => \E k \in Nat : Modulus = Unit(i) * (PART_BASE * k)}
<1>1. PART_BASE \in Nat /\ Parts \subseteq Nat
    BY MegolmAssumption, UnitFacts
<1>2. 0 \in T
    <2>1. Modulus = Unit(0) * (PART_BASE * 1)
        BY <1>1, UnitFacts
    <2> QED
        BY <2>1
<1>3. ASSUME NEW i \in Nat, i \in T PROVE i + 1 \in T
    <2> SUFFICES ASSUME i + 1 \in Parts
                 PROVE  \E k \in Nat : Modulus = Unit(i + 1) * (PART_BASE * k)
        OBVIOUS
    <2> DEFINE l == i + 1
    <2>1. l \in Parts /\ l > 0 /\ l - 1 = i /\ i \in Parts
        BY MegolmAssumption DEF Parts
    <2>2. PICK k \in Nat : Modulus = Unit(i) * (PART_BASE * k)
        BY <1>3, <2>1
    <2> HIDE DEF l
    <2>3. Unit(l) \in Nat /\ Unit(i) = PART_BASE * Unit(l)
        BY <2>1, UnitFacts
    <2> DEFINE u == Unit(l)
    <2>4. (PART_BASE * u) * (PART_BASE * k) = u * (PART_BASE * (PART_BASE * k))
        BY <1>1, <2>3
    <2>5. PART_BASE * k \in Nat
        BY <1>1
    <2>6. Modulus = u * (PART_BASE * (PART_BASE * k))
        BY <2>2, <2>3, <2>4
    <2> QED
        BY <2>5, <2>6 DEF l
<1> HIDE DEF T
<1>4. j \in T
    BY <1>1, <1>2, <1>3, Induction
<1> QED
    BY <1>4 DEF T

LEMMA CounterDigits ==
    ASSUME NEW n \in Int, NEW j \in Parts
    PROVE  /\ (n % Modulus) % Unit(j) = n % Unit(j)
           /\ \E k \in Int : (n % Modulus) \div Unit(j) = n \div Unit(j) + PART_BASE * k
<1> DEFINE u == Unit(j)
           q == n \div Modulus
           c == n % Modulus
<1>1. u \in Nat /\ u > 0 /\ PART_BASE \in Nat
    BY UnitFacts, MegolmAssumption
<1>2. PICK k \in Nat : Modulus = u * (PART_BASE * k)
    BY ModulusMultiple
<1>3. c \in Int /\ q \in Int /\ n = Modulus * q + c
    BY Division, UnitFacts
<1> DEFINE e == (PART_BASE * k) * q
<1>4. e \in Int /\ PART_BASE * (k * (0 - q)) = 0 - e /\ k * (0 - q) \in Int
    BY <1>1, <1>3
<1>5. c = n + u * (0 - e)
    <2> HIDE DEF u, c, q
    <2>1. Modulus * q = u * e
        BY <1>1, <1>2, <1>3
    <2> HIDE DEF e
    <2>2. u * (0 - e) = 0 - u * e
        BY <1>1, <1>4
    <2> QED
        BY <1>1, <1>3, <1>4, <2>1, <2>2
<1> HIDE DEF u, c, q, e
<1>6. c % u = n % u /\ c \div u = n \div u + (0 - e)
    <2> DEFINE f == 0 - e
    <2>1. f \in Int /\ c = n + u * f
        BY <1>4, <1>5
    <2> HIDE DEF f
    <2>2. (n + u * f) % u = n % u /\ (n + u * f) \div u = n \div u + f
        BY <1>1, <2>1, WholeMultiples
    <2> QED
        BY <2>1, <2>2 DEF f
<1> QED
    BY <1>4, <1>6 DEF u, c


-----------------------------------------------------------------------------
(* Ratchets, whose parts need not be those the ratchet started from.       *)
LEMMA RehashFacts ==
    ASSUME NEW d \in PartValues, NEW seed \in Int, NEW times \in Nat
    PROVE  /\ Rehash(d, seed, times) \in PartValues
           /\ Rehash(d, seed, times).random = d.random
           /\ Rehash(d, seed, times).hashes \in Seq(Int)
           /\ Len(Rehash(d, seed, times).hashes) = Len(d.hashes) + times
           /\ \A i \in 1 .. Len(d.hashes) + times :
                 Rehash(d, seed, times).hashes[i] =
                    IF i <= Len(d.hashes) THEN d.hashes[i] ELSE seed
<1> DEFINE new == [i \in 1 .. times |-> seed]
           all == d.hashes \o new
<1>1. d.hashes \in Seq(Int) /\ d.random \in Parts
    BY DEF PartValues
<1>2. new \in Seq(Int) /\ Len(new) = times /\ \A i \in 1 .. times : new[i] = seed
    <2>1. new \in [1 .. times -> Int]
        OBVIOUS
    <2> QED
        BY <2>1
<1> HIDE DEF new
<1>3. /\ all \in Seq(Int) /\ Len(all) = Len(d.hashes) + times
      /\ \A i \in 1 .. Len(d.hashes) + times :
            all[i] = IF i <= Len(d.hashes) THEN d.hashes[i] ELSE new[i - Len(d.hashes)]
    BY <1>1, <1>2, ConcatProperties
<1>4. Len(d.hashes) \in Nat
    BY <1>1
<1>5. \A i \in 1 .. Len(d.hashes) + times : i > Len(d.hashes) => new[i - Len(d.hashes)] = seed
    BY <1>2, <1>4
<1>6. Rehash(d, seed, times) = [d EXCEPT !.hashes = all]
    BY DEF Rehash, new
<1> HIDE DEF all
<1>7. Rehash(d, seed, times) = [random |-> d.random, hashes |-> all]
    BY <1>6 DEF PartValues
<1>8. \A i \in 1 .. Len(d.hashes) + times :
         all[i] = IF i <= Len(d.hashes) THEN d.hashes[i] ELSE seed
    <2> SUFFICES ASSUME NEW i \in 1 .. Len(d.hashes) + times
                 PROVE  all[i] = IF i <= Len(d.hashes) THEN d.hashes[i] ELSE seed
        OBVIOUS
    <2>1. all[i] = IF i <= Len(d.hashes) THEN d.hashes[i] ELSE new[i - Len(d.hashes)]
        BY <1>3
    <2>2. ~(i <= Len(d.hashes)) => new[i - Len(d.hashes)] = seed
        BY <1>4, <1>5
    <2> QED
        BY <2>1, <2>2
<1> DEFINE e == Rehash(d, seed, times)
<1>9. e = [random |-> d.random, hashes |-> all]
    BY <1>7
<1> HIDE DEF e
<1>10. e.random = d.random /\ e.hashes = all /\ e \in PartValues
    BY <1>1, <1>3, <1>9 DEF PartValues
<1>11. /\ e \in PartValues /\ e.random = d.random /\ e.hashes \in Seq(Int)
       /\ Len(e.hashes) = Len(d.hashes) + times
    BY <1>3, <1>10
<1>12. \A i \in 1 .. Len(d.hashes) + times :
          e.hashes[i] = IF i <= Len(d.hashes) THEN d.hashes[i] ELSE seed
    BY <1>8, <1>10
<1> QED
    BY <1>11, <1>12 DEF e

(* Two parts with the same hashes are the same.                            *)
LEMMA SamePart ==
    ASSUME NEW d \in PartValues, NEW e \in PartValues, d.random = e.random,
           Len(d.hashes) = Len(e.hashes),
           \A i \in 1 .. Len(d.hashes) : d.hashes[i] = e.hashes[i]
    PROVE  d = e
<1>1. d.hashes \in Seq(Int) /\ e.hashes \in Seq(Int)
    BY DEF PartValues
<1>2. d.hashes = e.hashes
    BY <1>1, SeqEqual
<1> QED
    BY <1>2 DEF PartValues

LEMMA RehashNone ==
    ASSUME NEW d \in PartValues, NEW seed \in Int
    PROVE  Rehash(d, seed, 0) = d
<1> DEFINE e == Rehash(d, seed, 0)
<1>1. d.hashes \in Seq(Int) /\ Len(d.hashes) \in Nat
    BY DEF PartValues
<1>2. /\ e \in PartValues /\ e.random = d.random /\ Len(e.hashes) = Len(d.hashes)
      /\ \A i \in 1 .. Len(d.hashes) : e.hashes[i] = d.hashes[i]
    BY <1>1, RehashFacts
<1> HIDE DEF e
<1>3. e = d
    BY <1>2, SamePart
<1> QED
    BY <1>3 DEF e

LEMMA RehashMore ==
    ASSUME NEW d \in PartValues, NEW seed \in Int, NEW a \in Nat, NEW b \in Nat
    PROVE  Rehash(Rehash(d, seed, a), seed, b) = Rehash(d, seed, a + b)
<1> DEFINE e == Rehash(d, seed, a)
           f == Rehash(e, seed, b)
           g == Rehash(d, seed, a + b)
<1>1. d.hashes \in Seq(Int) /\ Len(d.hashes) \in Nat
    BY DEF PartValues
<1>2. /\ e \in PartValues /\ e.random = d.random /\ Len(e.hashes) = Len(d.hashes) + a
      /\ \A i \in 1 .. Len(d.hashes) + a :
            e.hashes[i] = IF i <= Len(d.hashes) THEN d.hashes[i] ELSE seed
    BY RehashFacts
<1> HIDE DEF e
<1>3. /\ f \in PartValues /\ f.random = e.random /\ Len(f.hashes) = Len(e.hashes) + b
      /\ \A i \in 1 .. Len(e.hashes) + b :
            f.hashes[i] = IF i <= Len(e.hashes) THEN e.hashes[i] ELSE seed
    BY <1>2, RehashFacts
<1>4. /\ g \in PartValues /\ g.random = d.random /\ Len(g.hashes) = Len(d.hashes) + (a + b)
      /\ \A i \in 1 .. Len(d.hashes) + (a + b) :
            g.hashes[i] = IF i <= Len(d.hashes) THEN d.hashes[i] ELSE seed
    <2> DEFINE n == a + b
    <2>1. n \in Nat
        OBVIOUS
    <2> HIDE DEF n
    <2>2. /\ Rehash(d, seed, n) \in PartValues /\ Rehash(d, seed, n).random = d.random
          /\ Len(Rehash(d, seed, n).hashes) = Len(d.hashes) + n
          /\ \A i \in 1 .. Len(d.hashes) + n :
                Rehash(d, seed, n).hashes[i] = IF i <= Len(d.hashes) THEN d.hashes[i] ELSE seed
        BY <2>1, RehashFacts
    <2> QED
        BY <2>2 DEF n
<1> HIDE DEF f, g
<1>5. Len(f.hashes) = Len(g.hashes)
    <2> DEFINE m == Len(d.hashes)
               n == Len(f.hashes)
    <2>1. n = (m + a) + b
        BY <1>2, <1>3
    <2>2. Len(g.hashes) = m + (a + b)
        BY <1>4
    <2>3. m \in Nat
        BY <1>1
    <2> HIDE DEF m, n
    <2>4. (m + a) + b = m + (a + b)
        BY <2>3
    <2> QED
        BY <2>1, <2>2, <2>4 DEF n
<1>6. ASSUME NEW i \in 1 .. Len(f.hashes) PROVE f.hashes[i] = g.hashes[i]
    <2>1. i \in 1 .. Len(d.hashes) + (a + b)
        BY <1>4, <1>5
    <2>2. g.hashes[i] = IF i <= Len(d.hashes) THEN d.hashes[i] ELSE seed
        BY <1>4, <2>1
    <2>3. f.hashes[i] = IF i <= Len(e.hashes) THEN e.hashes[i] ELSE seed
        BY <1>3
    <2>4. i <= Len(e.hashes) =>
             e.hashes[i] = IF i <= Len(d.hashes) THEN d.hashes[i] ELSE seed
        BY <1>1, <1>2, <2>1
    <2>5. ~(i <= Len(e.hashes)) => ~(i <= Len(d.hashes))
        BY <1>1, <1>2, <2>1
    <2> QED
        BY <2>2, <2>3, <2>4, <2>5
<1>7. f.random = g.random
    BY <1>2, <1>3, <1>4
<1> QED
    BY <1>3, <1>4, <1>5, <1>6, <1>7, SamePart DEF f, g, e

LEMMA RehashFromFacts ==
    ASSUME NEW data \in Datas, NEW h \in Parts
    PROVE  /\ RehashFrom(data, h) \in Datas
           /\ \A i \in Parts : RehashFrom(data, h)[i] =
                 IF i < h THEN data[i] ELSE Rehash(data[h], i, 1)
<1>1. data[h] \in PartValues /\ \A i \in Parts : data[i] \in PartValues
    BY DEF Datas
<1>2. \A i \in Parts : Rehash(data[h], i, 1) \in PartValues
    <2>1. \A i \in Parts : i \in Int
        BY UnitFacts
    <2> QED
        BY <1>1, <2>1, RehashFacts
<1> QED
    BY <1>1, <1>2 DEF RehashFrom, Datas

(* The first digit that changes.                                           *)
ChangesFirst(n, h) ==
    /\ h \in Parts /\ n % Unit(h) = 0
    /\ \A i \in Parts : i < h => n % Unit(i) # 0

LEMMA FirstChange ==
    ASSUME NEW n \in Int
    PROVE  \E h : ChangesFirst(n, h)
<1> DEFINE T == {h \in Parts : n % Unit(h) = 0}
           last == MEGOLM_RATCHET_PARTS - 1
<1>1. last \in T
    <2>1. last \in Parts /\ Unit(last) = 1
        BY UnitFacts
    <2>2. n % 1 = 0
        OBVIOUS
    <2> QED
        BY <2>1, <2>2
<1>2. T \in SUBSET Nat /\ T # {}
    BY <1>1, UnitFacts
<1>3. PICK h \in T : \A y \in T : h <= y
    BY <1>2, LeastNumber
<1>4. ASSUME NEW i \in Parts, i < h PROVE n % Unit(i) # 0
    BY <1>2, <1>3, <1>4, UnitFacts
<1> QED
    BY <1>3, <1>4 DEF ChangesFirst

LEMMA OneFirstChange ==
    ASSUME NEW n \in Int, NEW h, NEW g, ChangesFirst(n, h), ChangesFirst(n, g)
    PROVE  h = g
<1>1. h \in Nat /\ g \in Nat
    BY UnitFacts DEF ChangesFirst
<1> QED
    BY <1>1 DEF ChangesFirst

LEMMA AdvanceFacts ==
    ASSUME NEW x \in Megolms, NEW n \in Nat, x.counter = n % Modulus
    PROVE  \E h : /\ ChangesFirst(n + 1, h)
                  /\ MegolmAdvance(x) = [data |-> RehashFrom(x.data, h),
                                         counter |-> (n + 1) % Modulus]
<1> DEFINE c == (x.counter + 1) % Modulus
           Is(h) == /\ c % Unit(h) = 0
                    /\ \A i \in 0 .. h - 1 : c % Unit(i) # 0
<1>1. Modulus \in Nat /\ Modulus > 0
    BY UnitFacts
<1>2. c = (n + 1) % Modulus
    <2> DEFINE q == n \div Modulus
               r == n % Modulus
    <2>1. q \in Int /\ r \in Int /\ n = Modulus * q + r
        BY <1>1, Division
    <2> HIDE DEF q, r
    <2> DEFINE e == r + 1
    <2>2. e \in Int /\ n + 1 = e + Modulus * q
        BY <1>1, <2>1
    <2> HIDE DEF e
    <2>3. (e + Modulus * q) % Modulus = e % Modulus
        BY <1>1, <2>1, <2>2, WholeMultiples
    <2>4. x.counter = r
        BY DEF r
    <2> QED
        BY <2>2, <2>3, <2>4 DEF e
<1>3. \A i \in Parts : c % Unit(i) = (n + 1) % Unit(i)
    BY <1>2, CounterDigits
<1>4. PICK h : ChangesFirst(n + 1, h)
    BY FirstChange
<1> HIDE DEF c
<1>5. h \in Parts /\ Is(h)
    <2>1. h \in Parts
        BY <1>4 DEF ChangesFirst
    <2>2. \A i \in 0 .. h - 1 : i \in Parts /\ i < h
        BY <2>1, MegolmAssumption DEF Parts
    <2> QED
        BY <1>3, <1>4, <2>1, <2>2 DEF ChangesFirst
<1>6. ASSUME NEW g \in Parts, Is(g) PROVE ChangesFirst(n + 1, g)
    <2>1. (n + 1) % Unit(g) = 0
        BY <1>3, <1>6
    <2>2. ASSUME NEW i \in Parts, i < g PROVE (n + 1) % Unit(i) # 0
        <3>1. i \in 0 .. g - 1
            BY <2>2, UnitFacts
        <3> QED
            BY <1>3, <1>6, <3>1
    <2> QED
        BY <2>1, <2>2 DEF ChangesFirst
<1> DEFINE g == CHOOSE g \in Parts : Is(g)
<1>7. g \in Parts /\ Is(g)
    <2> HIDE DEF Is
    <2> QED
        BY <1>5
<1>8. MegolmAdvance(x) = [data |-> RehashFrom(x.data, g), counter |-> c]
    BY DEF MegolmAdvance, c
<1> HIDE DEF g, Is
<1>9. g = h
    BY <1>4, <1>6, <1>7, OneFirstChange
<1> QED
    BY <1>2, <1>4, <1>8, <1>9


LEMMA AdvanceType ==
    ASSUME NEW x \in Megolms
    PROVE  MegolmAdvance(x) \in Megolms
<1>1. x.counter \in Nat /\ x.counter = x.counter % Modulus /\ x.data \in Datas
    <2>1. x.counter \in 0 .. Modulus - 1 /\ x.data \in Datas
        BY DEF Megolms
    <2> DEFINE c == x.counter
    <2>2. Modulus \in Nat /\ Modulus > 0 /\ c \in 0 .. Modulus - 1
        BY <2>1, UnitFacts
    <2> HIDE DEF c
    <2>3. c \in Int /\ c = Modulus * 0 + c /\ 0 \in Int
        BY <2>2
    <2>4. c % Modulus = c
        BY <2>2, <2>3, DivisionUnique
    <2> QED
        BY <2>1, <2>2, <2>4 DEF c
<1>2. PICK h : /\ ChangesFirst(x.counter + 1, h)
               /\ MegolmAdvance(x) = [data |-> RehashFrom(x.data, h),
                                      counter |-> (x.counter + 1) % Modulus]
    BY <1>1, AdvanceFacts
<1>3. RehashFrom(x.data, h) \in Datas
    BY <1>1, <1>2, RehashFromFacts DEF ChangesFirst
<1>4. (x.counter + 1) % Modulus \in 0 .. Modulus - 1
    BY <1>1, UnitFacts, Division
<1> QED
    BY <1>2, <1>3, <1>4 DEF Megolms

(* The ratchet after n single steps.                                       *)
Walk(x) ==
    CHOOSE f : /\ f \in [Nat -> Megolms] /\ f[0] = x
               /\ \A n \in Nat : f[n + 1] = MegolmAdvance(f[n])

LEMMA WalkFacts ==
    ASSUME NEW x \in Megolms
    PROVE  /\ Walk(x) \in [Nat -> Megolms]
           /\ Walk(x)[0] = x
           /\ \A n \in Nat : Walk(x)[n + 1] = MegolmAdvance(Walk(x)[n])
<1> DEFINE F == [y \in Megolms |-> MegolmAdvance(y)]
<1>1. F \in [Megolms -> Megolms]
    BY AdvanceType
<1>2. PICK f : Iterates(f, F, x, Megolms)
    BY <1>1, Iteration
<1>3. f \in [Nat -> Megolms] /\ f[0] = x /\ \A n \in Nat : f[n + 1] = MegolmAdvance(f[n])
    BY <1>2 DEF Iterates
<1> QED
    BY <1>3 DEF Walk

LEMMA WalkOn ==
    ASSUME NEW x \in Megolms, NEW m \in Nat, NEW n \in Nat
    PROVE  Walk(Walk(x)[m])[n] = Walk(x)[m + n]
<1> DEFINE y == Walk(x)[m]
           T == {k \in Nat : Walk(y)[k] = Walk(x)[m + k]}
<1>1. y \in Megolms
    BY WalkFacts
<1> HIDE DEF y
<1>2. 0 \in T
    <2>1. Walk(y)[0] = y /\ m + 0 = m
        BY <1>1, WalkFacts
    <2> QED
        BY <2>1 DEF y
<1>3. ASSUME NEW k \in Nat, k \in T PROVE k + 1 \in T
    <2>1. Walk(y)[k + 1] = MegolmAdvance(Walk(y)[k])
        BY <1>1, WalkFacts
    <2> DEFINE l == m + k
    <2>2. l \in Nat /\ m + (k + 1) = l + 1
        OBVIOUS
    <2>3. Walk(y)[k] = Walk(x)[l]
        BY <1>3
    <2> HIDE DEF l
    <2>4. Walk(x)[l + 1] = MegolmAdvance(Walk(x)[l])
        BY <2>2, WalkFacts
    <2> QED
        BY <2>1, <2>2, <2>3, <2>4
<1> HIDE DEF T
<1>4. n \in T
    BY <1>2, <1>3, Induction
<1> QED
    BY <1>4 DEF T, y

(* A ratchet that is n steps away from a start.                            *)
LEMMA WalkCounter ==
    ASSUME NEW x \in Megolms, NEW n \in Nat, x.counter = n % Modulus, NEW k \in Nat
    PROVE  Walk(x)[k].counter = (n + k) % Modulus
<1> DEFINE T == {i \in Nat : Walk(x)[i].counter = (n + i) % Modulus}
<1>1. 0 \in T
    <2>1. n + 0 = n
        OBVIOUS
    <2> QED
        BY <2>1, WalkFacts
<1>2. ASSUME NEW i \in Nat, i \in T PROVE i + 1 \in T
    <2> DEFINE y == Walk(x)[i]
               m == n + i
    <2>1. y \in Megolms /\ Walk(x)[i + 1] = MegolmAdvance(y)
        BY WalkFacts
    <2>2. y.counter = m % Modulus
        BY <1>2
    <2>3. m \in Nat /\ m + 1 = n + (i + 1)
        OBVIOUS
    <2> HIDE DEF y, m
    <2>4. MegolmAdvance(y).counter = (m + 1) % Modulus
        BY <2>1, <2>2, <2>3, AdvanceFacts
    <2> QED
        BY <2>1, <2>3, <2>4
<1> HIDE DEF T
<1>3. k \in T
    BY <1>1, <1>2, Induction
<1> QED
    BY <1>3 DEF T

(* Two numbers of steps whose digits before j are the same.                *)
SameBefore(a, b, j) == j > 0 => a \div Unit(j - 1) = b \div Unit(j - 1)

(* While no digit before j changes, R(j) is hashed as often as its digit   *)
(* steps, and the parts before it not at all.                              *)
LEMMA WalkPart ==
    ASSUME NEW x \in Megolms, NEW n \in Nat, x.counter = n % Modulus, NEW j \in Parts,
           NEW k \in Nat, SameBefore(n + k, n, j)
    PROVE  /\ \A i \in Parts : i < j => Walk(x)[k].data[i] = x.data[i]
           /\ Walk(x)[k].data[j] =
                 Rehash(x.data[j], j, (n + k) \div Unit(j) - n \div Unit(j))
<1> DEFINE u == Unit(j)
           Times(l) == (n + l) \div u - n \div u
           Fine(l) == /\ \A i \in Parts : i < j => Walk(x)[l].data[i] = x.data[i]
                      /\ Walk(x)[l].data[j] = Rehash(x.data[j], j, Times(l))
           T == {l \in Nat : SameBefore(n + l, n, j) => Fine(l)}
<1>1. u \in Nat /\ u > 0 /\ j \in Nat /\ (j > 0 => j - 1 \in Parts /\ Unit(j - 1) \in Nat /\ Unit(j - 1) > 0)
    BY UnitFacts DEF Parts
<1>2. x.data \in Datas /\ x.data[j] \in PartValues
    BY DEF Megolms, Datas
<1>3. ASSUME NEW l \in Nat PROVE Times(l) \in Nat
    <2>1. n \div u <= (n + l) \div u
        BY <1>1, QuotientMonotone
    <2>2. n \div u \in Int /\ (n + l) \div u \in Int
        BY <1>1, Division
    <2> QED
        BY <2>1, <2>2
<1>4. 0 \in T
    <2>1. n + 0 = n /\ Times(0) = 0
        <3>1. n \div u \in Int
            BY <1>1, Division
        <3> QED
            BY <3>1
    <2> HIDE DEF Times
    <2>2. Rehash(x.data[j], j, 0) = x.data[j]
        BY <1>1, <1>2, RehashNone
    <2> QED
        BY <2>1, <2>2, WalkFacts
<1>5. ASSUME NEW l \in Nat, l \in T PROVE l + 1 \in T
    <2> SUFFICES ASSUME SameBefore(n + (l + 1), n, j) PROVE Fine(l + 1)
        OBVIOUS
    <2> DEFINE m == n + l
               y == Walk(x)[l]
    <2>1. m \in Nat /\ m + 1 = n + (l + 1)
        OBVIOUS
    <2>2. y \in Megolms /\ Walk(x)[l + 1] = MegolmAdvance(y) /\ y.counter = m % Modulus
        BY WalkFacts, WalkCounter
    <2>3. SameBefore(m, n, j) /\ SameBefore(m + 1, m, j)
        <3> SUFFICES ASSUME j > 0
                     PROVE  /\ m \div Unit(j - 1) = n \div Unit(j - 1)
                            /\ (m + 1) \div Unit(j - 1) = m \div Unit(j - 1)
            BY DEF SameBefore
        <3> DEFINE v == Unit(j - 1)
        <3>1. v \in Nat /\ v > 0 /\ (m + 1) \div v = n \div v
            BY <1>1, <2>1 DEF SameBefore
        <3> HIDE DEF v
        <3>2. n \div v <= m \div v /\ m \div v <= (m + 1) \div v
            BY <3>1, QuotientMonotone
        <3>3. n \div v \in Int /\ m \div v \in Int
            BY <3>1, Division
        <3> QED
            BY <3>1, <3>2, <3>3 DEF v
    <2>4. Fine(l)
        BY <1>5, <2>3
    <2>5. PICK h : /\ ChangesFirst(m + 1, h)
                   /\ MegolmAdvance(y) = [data |-> RehashFrom(y.data, h),
                                          counter |-> (m + 1) % Modulus]
        BY <2>1, <2>2, AdvanceFacts
    <2>6. h \in Parts /\ h \in Nat
        BY <2>5, UnitFacts DEF ChangesFirst
    <2> HIDE DEF m, y
    <2>7. h >= j
        <3> SUFFICES ASSUME h < j PROVE FALSE
            BY <1>1, <2>6
        <3>1. j > 0 /\ j - 1 \in Parts /\ h <= j - 1
            BY <1>1, <2>6
        <3>2. (m + 1) % Unit(j - 1) = 0
            BY <2>1, <2>5, <3>1, MultiplesBehind DEF ChangesFirst
        <3>3. (m + 1) \div Unit(j - 1) = m \div Unit(j - 1) + 1
            BY <1>1, <2>1, <3>1, <3>2, NextQuotient
        <3>4. m \div Unit(j - 1) \in Int
            BY <1>1, <2>1, <3>1, Division
        <3> QED
            BY <2>3, <3>1, <3>3, <3>4 DEF SameBefore
    <2>8. /\ y.data \in Datas
          /\ \A i \in Parts : RehashFrom(y.data, h)[i] =
                IF i < h THEN y.data[i] ELSE Rehash(y.data[h], i, 1)
        BY <2>2, <2>6, RehashFromFacts DEF Megolms
    <2>9. ASSUME NEW i \in Parts, i < j PROVE Walk(x)[l + 1].data[i] = x.data[i]
        <3>1. i < h
            BY <1>1, <2>6, <2>7, <2>9, UnitFacts
        <3>2. Walk(x)[l + 1].data[i] = y.data[i]
            BY <2>2, <2>5, <2>8, <3>1
        <3> QED
            BY <2>4, <2>9, <3>2 DEF y
    <2>10. Walk(x)[l + 1].data[j] = Rehash(x.data[j], j, Times(l + 1))
        <3>1. y.data[j] = Rehash(x.data[j], j, Times(l)) /\ Times(l) \in Nat
            BY <1>3, <2>4 DEF y
        <3>2. CASE h = j
            <4>1. Walk(x)[l + 1].data[j] = Rehash(y.data[j], j, 1)
                <5>1. RehashFrom(y.data, h)[j] = Rehash(y.data[h], j, 1)
                    BY <1>1, <2>8, <3>2
                <5>2. MegolmAdvance(y).data[j] = RehashFrom(y.data, h)[j]
                    BY <2>5
                <5> QED
                    BY <2>2, <3>2, <5>1, <5>2
            <4>2. (m + 1) % u = 0
                BY <2>5, <3>2 DEF ChangesFirst
            <4>3. (m + 1) \div u = m \div u + 1
                BY <1>1, <2>1, <4>2, NextQuotient
            <4>4. m \div u \in Int /\ n \div u \in Int
                BY <1>1, <2>1, Division
            <4>5. Times(l + 1) = Times(l) + 1
                BY <2>1, <4>3, <4>4 DEF m
            <4> HIDE DEF Times
            <4> QED
                BY <1>1, <1>2, <3>1, <4>1, <4>5, RehashMore
        <3>3. CASE h > j
            <4>1. Walk(x)[l + 1].data[j] = y.data[j]
                BY <2>2, <2>5, <2>8, <3>3
            <4>2. (m + 1) % u # 0
                BY <2>5, <3>3 DEF ChangesFirst
            <4>3. (m + 1) \div u = m \div u
                BY <1>1, <2>1, <4>2, NextQuotient
            <4>4. Times(l + 1) = Times(l)
                BY <2>1, <4>3 DEF m
            <4> QED
                BY <3>1, <4>1, <4>4
        <3> QED
            BY <1>1, <2>6, <2>7, <3>2, <3>3
    <2> QED
        BY <2>9, <2>10
<1> HIDE DEF T
<1>6. k \in T
    BY <1>4, <1>5, Induction
<1> QED
    BY <1>6 DEF T


(* Walking on to where a digit has stepped and all behind it are zero.     *)
LEMMA WalkToPart ==
    ASSUME NEW x \in Megolms, NEW n \in Nat, x.counter = n % Modulus, NEW j \in Parts,
           NEW m \in Nat, n < m, m % Unit(j) = 0, SameBefore(m, n, j)
    PROVE  LET turns == m \div Unit(j) - n \div Unit(j) IN
           /\ turns \in Nat \ {0}
           /\ Walk(x)[m - n] =
                 [data |-> RehashFrom([x.data EXCEPT ![j] = Rehash(@, j, turns - 1)], j),
                  counter |-> m % Modulus]
<1> DEFINE u == Unit(j)
           l == m - 1
           k == l - n
           y == Walk(x)[k]
           turns == m \div u - n \div u
           part == Rehash(x.data[j], j, turns - 1)
           moved == [x.data EXCEPT ![j] = part]
<1>1. /\ u \in Nat /\ u > 0 /\ j \in Nat
      /\ j > 0 => j - 1 \in Parts /\ Unit(j - 1) \in Nat /\ Unit(j - 1) > 0
    BY UnitFacts DEF Parts
<1>2. /\ l \in Nat /\ k \in Nat /\ n + k = l /\ l + 1 = m /\ k + 1 = m - n /\ n <= l
    OBVIOUS
<1>3. x.data \in Datas /\ x.data[j] \in PartValues
    BY DEF Megolms, Datas
<1> HIDE DEF l, k
<1>4. SameBefore(l, n, j) /\ SameBefore(m, l, j)
    <2> SUFFICES ASSUME j > 0
                 PROVE  /\ l \div Unit(j - 1) = n \div Unit(j - 1)
                        /\ m \div Unit(j - 1) = l \div Unit(j - 1)
        BY DEF SameBefore
    <2> DEFINE v == Unit(j - 1)
    <2>1. v \in Nat /\ v > 0 /\ m \div v = n \div v
        BY <1>1 DEF SameBefore
    <2> HIDE DEF v
    <2>2. n \div v <= l \div v /\ l \div v <= m \div v
        BY <1>2, <2>1, QuotientMonotone
    <2>3. n \div v \in Int /\ l \div v \in Int
        BY <1>2, <2>1, Division
    <2> QED
        BY <2>1, <2>2, <2>3 DEF v
<1>5. /\ \A i \in Parts : i < j => y.data[i] = x.data[i]
      /\ y.data[j] = Rehash(x.data[j], j, l \div u - n \div u)
    BY <1>2, <1>4, WalkPart
<1>6. y \in Megolms /\ y.counter = l % Modulus /\ Walk(x)[m - n] = MegolmAdvance(y)
    <2>1. y \in Megolms /\ Walk(x)[k + 1] = MegolmAdvance(y)
        BY <1>2, WalkFacts
    <2>2. y.counter = (n + k) % Modulus
        BY <1>2, WalkCounter
    <2> QED
        BY <1>2, <2>1, <2>2
<1> HIDE DEF y
<1>7. PICK h : /\ ChangesFirst(m, h)
               /\ MegolmAdvance(y) = [data |-> RehashFrom(y.data, h), counter |-> m % Modulus]
    BY <1>2, <1>6, AdvanceFacts
<1>8. h = j
    <2>1. ChangesFirst(m, j)
        <3> SUFFICES ASSUME NEW i \in Parts, i < j, m % Unit(i) = 0 PROVE FALSE
            BY DEF ChangesFirst
        <3>1. j > 0 /\ j - 1 \in Parts /\ i <= j - 1
            BY <1>1, UnitFacts
        <3>2. m % Unit(j - 1) = 0
            BY <3>1, MultiplesBehind
        <3>3. m \div Unit(j - 1) = l \div Unit(j - 1) + 1
            BY <1>1, <1>2, <3>1, <3>2, NextQuotient
        <3>4. l \div Unit(j - 1) \in Int
            BY <1>1, <1>2, <3>1, Division
        <3> QED
            BY <1>4, <3>1, <3>3, <3>4 DEF SameBefore
    <2> QED
        BY <1>7, <2>1, OneFirstChange
<1>9. m \div u = l \div u + 1 /\ l \div u \in Int /\ n \div u \in Int /\ n \div u <= l \div u
    BY <1>1, <1>2, NextQuotient, Division, QuotientMonotone
<1>10. turns \in Nat \ {0} /\ turns - 1 = l \div u - n \div u
    BY <1>9
<1> HIDE DEF turns, u
<1>11. y.data[j] = part
    BY <1>5, <1>10
<1>12. part \in PartValues
    BY <1>1, <1>3, <1>10, RehashFacts
<1> HIDE DEF part
<1>13. moved \in Datas /\ moved[j] = part /\ \A i \in Parts : i # j => moved[i] = x.data[i]
    BY <1>3, <1>12 DEF Datas
<1> HIDE DEF moved
<1>14. RehashFrom(y.data, j) = RehashFrom(moved, j)
    <2> DEFINE Of(data) == [i \in Parts |-> IF i < j THEN data[i] ELSE Rehash(data[j], i, 1)]
    <2>1. RehashFrom(y.data, j) = Of(y.data) /\ RehashFrom(moved, j) = Of(moved)
        BY DEF RehashFrom
    <2>2. ASSUME NEW i \in Parts, i < j PROVE y.data[i] = moved[i]
        <3>1. i # j
            BY <1>1, <2>2, UnitFacts
        <3> QED
            BY <1>5, <1>13, <2>2, <3>1
    <2>3. y.data[j] = moved[j]
        BY <1>11, <1>13
    <2>4. Of(y.data) = Of(moved)
        BY <2>2, <2>3
    <2> QED
        BY <2>1, <2>4
<1>15. Walk(x)[m - n] = [data |-> RehashFrom(moved, j), counter |-> m % Modulus]
    BY <1>6, <1>7, <1>8, <1>14
<1> QED
    BY <1>10, <1>15 DEF moved, part, turns, u


(* The rounds of megolm_advance_to().  What a digit has to step is what    *)
(* its quotient does, also where the counter wraps.                        *)
LEMMA SameCounters ==
    ASSUME NEW n \in Nat, NEW m \in Nat, n <= m, n \div Modulus = m \div Modulus
    PROVE  n % Modulus <= m % Modulus
<1> DEFINE q == n \div Modulus
           c == n % Modulus
           d == m % Modulus
<1>1. Modulus \in Nat /\ Modulus > 0
    BY UnitFacts
<1>2. q \in Int /\ c \in Int /\ d \in Int /\ n = Modulus * q + c /\ m = Modulus * q + d
    BY <1>1, Division
<1> HIDE DEF q, c, d
<1>3. Modulus * q \in Int
    BY <1>1, <1>2
<1> QED
    BY <1>2, <1>3 DEF c, d

DigitSteps(counter, advance_to, j) ==
    LET digits == (advance_to \div Unit(j) - counter \div Unit(j)) % PART_BASE
    IN  IF digits = 0 /\ advance_to < counter THEN PART_BASE ELSE digits

LEMMA DigitStepsFacts ==
    ASSUME NEW n \in Nat, NEW m \in Nat, n <= m, NEW j \in Parts,
           SameBefore(m, n, j), j = 0 => m - n < Modulus
    PROVE  /\ DigitSteps(n % Modulus, m % Modulus, j) = m \div Unit(j) - n \div Unit(j)
           /\ m \div Unit(j) - n \div Unit(j) \in Nat
<1> DEFINE u == Unit(j)
           p == n \div u
           q == m \div u
           s == q - p
           c == n % Modulus
           t == m % Modulus
           digits == (t \div u - c \div u) % PART_BASE
<1>1. /\ u \in Nat /\ u > 0 /\ j \in Nat /\ PART_BASE \in Nat /\ PART_BASE > 0
      /\ Modulus \in Nat /\ Modulus > 0
    BY UnitFacts, MegolmAssumption
<1>2. p \in Nat /\ q \in Nat /\ p <= q /\ s \in Nat
    <2>1. p \in Nat /\ q \in Nat /\ p <= q
        BY <1>1, Division, QuotientMonotone
    <2> QED
        BY <2>1
<1>3. c \in Int /\ t \in Int
    BY <1>1, Division
<1>4. digits = s % PART_BASE
    <2>1. PICK k \in Int : c \div u = p + PART_BASE * k
        BY CounterDigits
    <2>2. PICK l \in Int : t \div u = q + PART_BASE * l
        BY CounterDigits
    <2> DEFINE e == l - k
    <2>3. PART_BASE * l \in Int /\ PART_BASE * k \in Int /\ PART_BASE * e = PART_BASE * l - PART_BASE * k
        BY <1>1
    <2>4. e \in Int
        OBVIOUS
    <2> HIDE DEF c, t, p, q, u, e
    <2>5. t \div u - c \div u = s + PART_BASE * e
        <3> DEFINE pl == PART_BASE * l
                   pk == PART_BASE * k
                   pe == PART_BASE * e
        <3>1. pl \in Int /\ pk \in Int /\ pe = pl - pk /\ p \in Nat /\ q \in Nat
            BY <1>2, <2>3
        <3>2. c \div u = p + pk /\ t \div u = q + pl
            BY <2>1, <2>2
        <3> HIDE DEF pl, pk, pe
        <3>3. t \div u - c \div u = s + pe
            BY <3>1, <3>2
        <3> QED
            BY <3>3 DEF pe
    <2> HIDE DEF s
    <2>6. (s + PART_BASE * e) % PART_BASE = s % PART_BASE
        <3>1. PART_BASE \in Nat /\ PART_BASE > 0 /\ s \in Int /\ e \in Int
            BY <1>1, <1>2, <2>4
        <3> QED
            BY <3>1, WholeMultiples
    <2> DEFINE r == t \div u - c \div u
    <2>7. digits = r % PART_BASE
        OBVIOUS
    <2>8. r = s + PART_BASE * e
        BY <2>5
    <2> HIDE DEF r, digits
    <2> QED
        BY <2>6, <2>7, <2>8
<1>5. ASSUME s < PART_BASE PROVE s % PART_BASE = s
    <2> HIDE DEF s
    <2>1. s \in 0 .. PART_BASE - 1 /\ s = PART_BASE * 0 + s /\ 0 \in Int
        BY <1>1, <1>2, <1>5
    <2> QED
        BY <1>1, <1>2, <2>1, DivisionUnique
<1>6. ASSUME n \div Unit(0) = m \div Unit(0) PROVE c <= t
    <2>1. /\ n \div (PART_BASE * Unit(0)) = (n \div Unit(0)) \div PART_BASE
          /\ m \div (PART_BASE * Unit(0)) = (m \div Unit(0)) \div PART_BASE
        BY <1>1, UnitFacts, LargerUnit
    <2>2. n \div Modulus = m \div Modulus
        BY <1>6, <2>1, UnitFacts
    <2> QED
        BY <2>2, SameCounters
<1>7. CASE j > 0
    <2>1. j - 1 \in Parts
        BY <1>1, <1>7, MegolmAssumption DEF Parts
    <2>2. p \div PART_BASE = q \div PART_BASE
        <3>1. n \div Unit(j - 1) = p \div PART_BASE /\ m \div Unit(j - 1) = q \div PART_BASE
            BY <1>7, NextUnit
        <3> QED
            BY <1>7, <3>1 DEF SameBefore
    <2>3. s < PART_BASE
        <3> HIDE DEF p, q
        <3> DEFINE e == p \div PART_BASE
        <3>1. /\ p = PART_BASE * e + (p % PART_BASE) /\ p % PART_BASE \in 0 .. PART_BASE - 1
              /\ q = PART_BASE * e + (q % PART_BASE) /\ q % PART_BASE \in 0 .. PART_BASE - 1
              /\ e \in Int
            BY <1>1, <1>2, <2>2, Division
        <3> HIDE DEF e
        <3>2. PART_BASE * e \in Int
            BY <1>1, <3>1
        <3> QED
            BY <1>1, <3>1, <3>2
    <2>4. c <= t
        <3>1. n \div Unit(j - 1) = m \div Unit(j - 1) /\ 0 \in Parts /\ 0 <= j - 1
            BY <1>7, UnitFacts DEF SameBefore
        <3>2. n \div Unit(0) = m \div Unit(0)
            BY <2>1, <3>1, QuotientsBefore
        <3> QED
            BY <1>6, <3>2
    <2> HIDE DEF s, digits, c, t
    <2>5. digits = s
        BY <1>4, <1>5, <2>3
    <2>6. ~(t < c)
        BY <1>3, <2>4
    <2> QED
        BY <1>2, <2>5, <2>6 DEF DigitSteps, s, digits, c, t
<1>8. CASE j = 0
    <2>1. m - n < Modulus /\ Modulus = PART_BASE * u
        BY <1>8, UnitFacts
    <2>2. s <= PART_BASE
        <3>1. (n + u * PART_BASE) \div u = p + PART_BASE
            BY <1>1, WholeMultiples
        <3>2. u * PART_BASE \in Int /\ m <= n + u * PART_BASE
            BY <1>1, <2>1
        <3>3. q <= (n + u * PART_BASE) \div u
            BY <1>1, <3>2, QuotientMonotone
        <3> HIDE DEF p, q
        <3> QED
            BY <1>1, <1>2, <3>1, <3>3
    <2>3. CASE s = 0
        <3>1. p = q
            BY <1>2, <2>3
        <3>2. c <= t
            BY <1>6, <1>8, <3>1
        <3> HIDE DEF s, digits, c, t
        <3>3. digits = 0
            BY <1>1, <1>4, <1>5, <2>3
        <3>4. ~(t < c)
            BY <1>3, <3>2
        <3> QED
            BY <1>2, <2>3, <3>3, <3>4 DEF DigitSteps, s, digits, c, t
    <2>4. CASE s = PART_BASE
        <3>1. m \div Modulus = n \div Modulus + 1
            <4>1. n \div Modulus = p \div PART_BASE /\ m \div Modulus = q \div PART_BASE
                BY <1>1, <2>1, LargerUnit
            <4>2. q = p + PART_BASE * 1
                BY <1>1, <1>2, <2>4
            <4> HIDE DEF p, q
            <4>3. (p + PART_BASE * 1) \div PART_BASE = p \div PART_BASE + 1
                BY <1>1, <1>2, WholeMultiples
            <4> QED
                BY <4>1, <4>2, <4>3
        <3>2. t < c
            <4> DEFINE e == n \div Modulus
            <4>1. /\ e \in Int /\ n = Modulus * e + c /\ m = Modulus * (e + 1) + t
                  /\ c \in Int /\ t \in Int
                BY <1>1, <3>1, Division
            <4> HIDE DEF c, t, e
            <4>2. Modulus * (e + 1) = Modulus * e + Modulus /\ Modulus * e \in Int
                BY <1>1, <4>1
            <4> QED
                BY <1>1, <2>1, <4>1, <4>2
        <3> HIDE DEF s, digits, c, t
        <3>3. digits = 0
            <4>1. PART_BASE = PART_BASE * 1 + 0 /\ 1 \in Int /\ 0 \in 0 .. PART_BASE - 1
                BY <1>1
            <4>2. PART_BASE % PART_BASE = 0
                BY <1>1, <4>1, DivisionUnique
            <4> QED
                BY <1>4, <2>4, <4>2
        <3> QED
            BY <1>2, <2>4, <3>2, <3>3 DEF DigitSteps, s, digits, c, t
    <2>5. CASE s # 0 /\ s # PART_BASE
        <3> HIDE DEF s, digits, c, t
        <3>1. s < PART_BASE
            BY <1>1, <1>2, <2>2, <2>5
        <3>2. digits = s
            BY <1>4, <1>5, <3>1
        <3> QED
            BY <1>2, <2>5, <3>2 DEF DigitSteps, s, digits, c, t
    <2> QED
        BY <2>3, <2>4, <2>5
<1> QED
    BY <1>1, <1>7, <1>8


(* Where the counter of a round of megolm_advance_to() stands afterwards.  *)
LEMMA TargetCounter ==
    ASSUME NEW m \in Nat, NEW j \in Parts
    PROVE  LET u == Unit(j)
               k == u * (m \div u)
               t == m % Modulus
           IN  /\ k \in Nat /\ k <= m /\ k % u = 0 /\ k \div u = m \div u
               /\ t - (t % u) = k % Modulus
<1> DEFINE u == Unit(j)
           q == m \div u
           k == u * q
           t == m % Modulus
           r == m % u
           e == m \div Modulus
<1>1. u \in Nat /\ u > 0 /\ Modulus \in Nat /\ Modulus > 0
    BY UnitFacts
<1>2. q \in Nat /\ r \in 0 .. u - 1 /\ m = u * q + r
    <2> HIDE DEF u
    <2> QED
        BY <1>1, Division
<1>3. t \in 0 .. Modulus - 1 /\ e \in Int /\ m = Modulus * e + t
    BY <1>1, Division
<1>4. t % u = r
    BY CounterDigits
<1>5. t \div u \in Nat /\ t = u * (t \div u) + (t % u)
    <2>1. t \in Nat
        BY <1>1, <1>3
    <2> HIDE DEF t, u
    <2> QED
        BY <1>1, <2>1, Division
<1> HIDE DEF u, q, r, e
<1>6. u * q \in Nat /\ k \in Nat /\ k <= m
    BY <1>1, <1>2
<1>7. k % u = 0 /\ k \div u = q
    <2>1. k = u * q + 0 /\ 0 \in 0 .. u - 1 /\ q \in Int /\ k \in Int
        BY <1>1, <1>2, <1>6
    <2> HIDE DEF k
    <2> QED
        BY <1>1, <2>1, DivisionUnique
<1> HIDE DEF t
<1>8. k % Modulus = t - r
    <2> DEFINE c == t - r
    <2>1. u * (t \div u) \in Nat
        BY <1>1, <1>5
    <2> DEFINE w == u * (t \div u)
    <2>2. t = w + r /\ w \in Nat
        BY <1>4, <1>5, <2>1
    <2> HIDE DEF w
    <2>3. c \in 0 .. Modulus - 1
        BY <1>1, <1>2, <1>3, <2>2
    <2>4. Modulus * e \in Int
        BY <1>1, <1>3
    <2>5. k = Modulus * e + c
        BY <1>2, <1>3, <1>6, <2>4
    <2> HIDE DEF k, c
    <2>6. k % Modulus = c
        BY <1>1, <1>3, <1>6, <2>3, <2>5, DivisionUnique
    <2> QED
        BY <2>6 DEF c
<1> QED
    BY <1>4, <1>6, <1>7, <1>8 DEF k, t, q, r, u

(* Where round j leaves a ratchet that is to walk from n to m.             *)
Reached(n, m, j) ==
    IF m \div Unit(j) = n \div Unit(j) THEN n ELSE Unit(j) * (m \div Unit(j))

LEMMA Round ==
    ASSUME NEW x \in Megolms, NEW n \in Nat, x.counter = n % Modulus, NEW m \in Nat, n <= m,
           NEW j \in Parts, SameBefore(m, n, j), j = 0 => m - n < Modulus
    PROVE  /\ Reached(n, m, j) \in n .. m
           /\ Reached(n, m, j) \div Unit(j) = m \div Unit(j)
           /\ AdvancePart(x, j, m % Modulus) = Walk(x)[Reached(n, m, j) - n]
<1> DEFINE u == Unit(j)
           t == m % Modulus
           k == u * (m \div u)
           turns == m \div u - n \div u
           moved == [data |-> RehashFrom([x.data EXCEPT ![j] = Rehash(@, j, turns - 1)], j),
                     counter |-> t - (t % u)]
<1>1. u \in Nat /\ u > 0 /\ j \in Nat
    BY UnitFacts
<1>2. DigitSteps(x.counter, t, j) = turns /\ turns \in Nat
    BY DigitStepsFacts
<1>3. AdvancePart(x, j, t) = IF turns = 0 THEN x ELSE moved
    <2> DEFINE d == DigitSteps(x.counter, t, j)
    <2>1. AdvancePart(x, j, t) =
             IF d = 0 THEN x
             ELSE [data |-> RehashFrom([x.data EXCEPT ![j] = Rehash(@, j, d - 1)], j),
                   counter |-> t - (t % u)]
        BY DEF AdvancePart, DigitSteps
    <2> HIDE DEF d, t, turns
    <2>2. d = turns
        BY <1>2 DEF d
    <2> QED
        BY <2>1, <2>2
<1>4. n \div u \in Int /\ m \div u \in Int
    BY <1>1, Division
<1>5. CASE m \div u = n \div u
    <2>1. turns = 0
        BY <1>4, <1>5
    <2>2. Reached(n, m, j) = n /\ n - n = 0
        BY <1>5 DEF Reached
    <2> HIDE DEF turns, moved
    <2>3. Walk(x)[0] = x
        BY WalkFacts
    <2> QED
        BY <1>3, <1>5, <2>1, <2>2, <2>3
<1>6. CASE m \div u # n \div u
    <2>1. turns # 0
        BY <1>4, <1>6
    <2>2. Reached(n, m, j) = k
        BY <1>6 DEF Reached
    <2>3. /\ k \in Nat /\ k <= m /\ k % u = 0 /\ k \div u = m \div u
          /\ t - (t % u) = k % Modulus
        BY TargetCounter
    <2>4. n < k
        <3> SUFFICES ASSUME k <= n PROVE FALSE
            BY <2>3
        <3>1. k \div u <= n \div u
            BY <1>1, <2>3, QuotientMonotone
        <3>2. n \div u <= m \div u
            BY <1>1, QuotientMonotone
        <3> HIDE DEF k
        <3> QED
            BY <1>4, <1>6, <2>3, <3>1, <3>2
    <2>5. SameBefore(k, n, j)
        <3> SUFFICES ASSUME j > 0 PROVE k \div Unit(j - 1) = n \div Unit(j - 1)
            BY DEF SameBefore
        <3> DEFINE v == Unit(j - 1)
        <3>1. v \in Nat /\ v > 0
            BY <1>1, UnitFacts, MegolmAssumption DEF Parts
        <3>2. m \div v = n \div v
            BY DEF SameBefore
        <3> HIDE DEF v, k
        <3>3. n \div v <= k \div v /\ k \div v <= m \div v
            BY <2>3, <2>4, <3>1, QuotientMonotone
        <3>4. n \div v \in Int /\ k \div v \in Int
            BY <2>3, <3>1, Division
        <3> QED
            BY <3>2, <3>3, <3>4 DEF v
    <2> HIDE DEF k, t
    <2>6. Walk(x)[k - n] =
             [data |-> RehashFrom([x.data EXCEPT ![j] = Rehash(@, j, turns - 1)], j),
              counter |-> k % Modulus]
        <3>1. LET s == k \div Unit(j) - n \div Unit(j) IN
              Walk(x)[k - n] =
                 [data |-> RehashFrom([x.data EXCEPT ![j] = Rehash(@, j, s - 1)], j),
                  counter |-> k % Modulus]
            BY <2>3, <2>4, <2>5, WalkToPart
        <3>2. k \div Unit(j) - n \div Unit(j) = turns
            BY <2>3
        <3> HIDE DEF turns, u
        <3> QED
            BY <3>1, <3>2
    <2> HIDE DEF turns, u
    <2>7. AdvancePart(x, j, t) = Walk(x)[k - n]
        BY <1>3, <2>1, <2>3, <2>6
    <2> QED
        BY <2>2, <2>3, <2>4, <2>7 DEF t, u
<1> QED
    BY <1>5, <1>6

(* The rounds of megolm_advance_to() up to the k-th.                       *)
Rounds(g, k, x, t) ==
    /\ g \in [0 .. k -> Megolms]
    /\ g[0] = x
    /\ \A i \in 0 .. k - 1 : g[i + 1] = AdvancePart(g[i], i, t)

LEMMA RoundsWalk ==
    ASSUME NEW x \in Megolms, NEW n \in Nat, x.counter = n % Modulus,
           NEW m \in Nat, n <= m, m - n < Modulus
    PROVE  \A k \in Nat : k <= MEGOLM_RATCHET_PARTS =>
              \E g : /\ Rounds(g, k, x, m % Modulus)
                     /\ \E p \in n .. m : /\ g[k] = Walk(x)[p - n]
                                          /\ SameBefore(m, p, k)
<1> DEFINE t == m % Modulus
           Fine(g, k, p) == g[k] = Walk(x)[p - n] /\ SameBefore(m, p, k)
           T == {k \in Nat : k <= MEGOLM_RATCHET_PARTS =>
                    \E g : Rounds(g, k, x, t) /\ \E p \in n .. m : Fine(g, k, p)}
<1>1. 0 \in T
    <2> DEFINE g == [i \in 0 .. 0 |-> x]
    <2>1. Rounds(g, 0, x, t)
        BY DEF Rounds
    <2>2. Fine(g, 0, n) /\ n \in n .. m
        <3>1. Walk(x)[0] = x /\ n - n = 0
            BY WalkFacts
        <3> QED
            BY <3>1 DEF SameBefore
    <2> QED
        BY <2>1, <2>2
<1>2. ASSUME NEW k \in Nat, k \in T PROVE k + 1 \in T
    <2> SUFFICES ASSUME k + 1 <= MEGOLM_RATCHET_PARTS
                 PROVE  \E h : Rounds(h, k + 1, x, t) /\ \E p \in n .. m : Fine(h, k + 1, p)
        OBVIOUS
    <2>1. k \in Parts /\ k <= MEGOLM_RATCHET_PARTS
        BY MegolmAssumption DEF Parts
    <2>2. PICK g : Rounds(g, k, x, t) /\ \E p \in n .. m : Fine(g, k, p)
        BY <1>2, <2>1
    <2>3. PICK p \in n .. m : Fine(g, k, p)
        BY <2>2
    <2> DEFINE y == g[k]
               r == Reached(p, m, k)
               next == AdvancePart(y, k, t)
               h == [i \in 0 .. k + 1 |-> IF i <= k THEN g[i] ELSE next]
    <2>4. y = Walk(x)[p - n] /\ p - n \in Nat /\ p \in Nat
        BY <2>3
    <2>5. y \in Megolms /\ y.counter = p % Modulus
        <3>1. Walk(x)[p - n].counter = (n + (p - n)) % Modulus /\ n + (p - n) = p
            BY <2>4, WalkCounter
        <3> QED
            BY <2>4, <3>1, WalkFacts
    <2> HIDE DEF y
    <2>6. /\ r \in p .. m
          /\ r \div Unit(k) = m \div Unit(k)
          /\ next = Walk(y)[r - p]
        <3>1. k = 0 => m - p < Modulus
            BY <2>3, UnitFacts
        <3>2. SameBefore(m, p, k) /\ p <= m
            BY <2>3
        <3> QED
            BY <2>1, <2>4, <2>5, <3>1, <3>2, Round
    <2> HIDE DEF r, next
    <2>7. next = Walk(x)[r - n] /\ next \in Megolms /\ r \in n .. m
        <3>1. r - p \in Nat /\ (p - n) + (r - p) = r - n /\ r - n \in Nat
            BY <2>4, <2>6
        <3>2. Walk(Walk(x)[p - n])[r - p] = Walk(x)[(p - n) + (r - p)]
            BY <2>4, <3>1, WalkOn
        <3> QED
            BY <2>4, <2>6, <3>1, <3>2, WalkFacts
    <2>8. Rounds(h, k + 1, x, t)
        <3>1. h \in [0 .. k + 1 -> Megolms]
            BY <2>2, <2>7 DEF Rounds
        <3>2. h[0] = x
            BY <2>2 DEF Rounds
        <3>3. ASSUME NEW i \in 0 .. k PROVE h[i + 1] = AdvancePart(h[i], i, t)
            <4>1. CASE i < k
                <5>1. h[i] = g[i] /\ h[i + 1] = g[i + 1] /\ i \in 0 .. k - 1
                    BY <4>1
                <5> QED
                    BY <2>2, <5>1 DEF Rounds
            <4>2. CASE i = k
                <5>1. h[i] = y /\ h[i + 1] = next
                    BY <4>2 DEF y
                <5> QED
                    BY <4>2, <5>1 DEF next
            <4> QED
                BY <4>1, <4>2
        <3> HIDE DEF h, t
        <3> QED
            BY <3>1, <3>2, <3>3 DEF Rounds
    <2>9. Fine(h, k + 1, r)
        <3>1. h[k + 1] = next
            OBVIOUS
        <3>2. SameBefore(m, r, k + 1)
            BY <2>6 DEF SameBefore
        <3> QED
            BY <2>7, <3>1, <3>2
    <2> HIDE DEF h, Fine
    <2> QED
        BY <2>7, <2>8, <2>9
<1> HIDE DEF T
<1>3. Nat \subseteq T
    BY <1>1, <1>2, Induction
<1> QED
    BY <1>3 DEF T

(* megolm_advance_to() is as many single steps as the target is ahead.     *)
LEMMA AdvanceToIsWalk ==
    ASSUME NEW x \in Megolms, NEW n \in Nat, x.counter = n % Modulus,
           NEW m \in Nat, n <= m, m - n < Modulus
    PROVE  MegolmAdvanceTo(x, m % Modulus) = Walk(x)[m - n]
<1> DEFINE N == MEGOLM_RATCHET_PARTS
           t == m % Modulus
           Is(a) == a = [j \in 0 .. N |-> IF j = 0 THEN x ELSE AdvancePart(a[j - 1], j - 1, t)]
           after == CHOOSE a : Is(a)
<1>1. N \in Nat /\ N > 0
    BY MegolmAssumption
<1>2. PICK g : Rounds(g, N, x, t) /\ \E p \in n .. m : g[N] = Walk(x)[p - n] /\ SameBefore(m, p, N)
    BY <1>1, RoundsWalk
<1>3. PICK p \in n .. m : g[N] = Walk(x)[p - n] /\ SameBefore(m, p, N)
    BY <1>2
<1>4. p = m
    <2>1. Unit(N - 1) = 1
        <3>1. N - 1 - (N - 1) = 0
            BY <1>1
        <3> QED
            BY <3>1, PowerFacts DEF Unit
    <2>2. m \div 1 = p \div 1
        BY <1>1, <1>3, <2>1 DEF SameBefore
    <2> QED
        BY <1>3, <2>2
<1>5. Is(g)
    <2>1. ASSUME NEW j \in 0 .. N, j # 0 PROVE g[j] = AdvancePart(g[j - 1], j - 1, t)
        <3>1. j - 1 \in 0 .. N - 1 /\ (j - 1) + 1 = j
            BY <1>1, <2>1
        <3> QED
            BY <1>2, <3>1 DEF Rounds
    <2> HIDE DEF t
    <2> QED
        BY <1>2, <2>1 DEF Rounds
<1>6. Is(after)
    <2> HIDE DEF Is
    <2> QED
        BY <1>5
<1> HIDE DEF t
<1>7. after[0] = x /\ \A j \in 0 .. N : j # 0 => after[j] = AdvancePart(after[j - 1], j - 1, t)
    <2> HIDE DEF after, N
    <2>1. after = [j \in 0 .. N |-> IF j = 0 THEN x ELSE AdvancePart(after[j - 1], j - 1, t)]
        BY <1>6
    <2>2. ASSUME NEW j \in 0 .. N
          PROVE  after[j] = IF j = 0 THEN x ELSE AdvancePart(after[j - 1], j - 1, t)
        BY <2>1
    <2>3. 0 \in 0 .. N
        BY <1>1
    <2> QED
        BY <2>2, <2>3
<1> HIDE DEF after
<1>8. after[N] = g[N]
    <2> DEFINE T == {j \in Nat : j <= N => after[j] = g[j]}
    <2>1. 0 \in T
        BY <1>2, <1>7 DEF Rounds
    <2>2. ASSUME NEW j \in Nat, j \in T PROVE j + 1 \in T
        <3> SUFFICES ASSUME j + 1 <= N PROVE after[j + 1] = g[j + 1]
            OBVIOUS
        <3>1. j + 1 \in 0 .. N /\ j + 1 # 0 /\ (j + 1) - 1 = j /\ j \in 0 .. N - 1
            BY <1>1
        <3>2. after[j + 1] = AdvancePart(after[j], j, t)
            BY <1>7, <3>1
        <3>3. g[j + 1] = AdvancePart(g[j], j, t)
            BY <1>2, <3>1 DEF Rounds
        <3> QED
            BY <1>1, <2>2, <3>2, <3>3
    <2> HIDE DEF T
    <2>3. Nat \subseteq T
        BY <2>1, <2>2, Induction
    <2> QED
        BY <1>1, <2>3 DEF T
<1>9. MegolmAdvanceTo(x, t) = after[N]
    BY DEF MegolmAdvanceTo, after
<1> QED
    BY <1>3, <1>4, <1>8, <1>9 DEF t

-----------------------------------------------------------------------------
(* The ratchet of megolm_init() after n steps.                             *)
Start == MegolmInit(RandomData, 0)
At(n) == Walk(Start)[n]

LEMMA StartFacts == Start \in Megolms /\ Start.counter = 0 % Modulus /\ Start.data = RandomData
<1>1. Modulus \in Nat /\ Modulus > 0
    BY UnitFacts
<1>2. 0 % Modulus = 0
    <2>1. 0 = Modulus * 0 + 0
        BY <1>1
    <2> QED
        BY <1>1, <2>1, DivisionUnique
<1>3. RandomData \in Datas
    BY DEF RandomData, Datas, PartValues
<1> QED
    BY <1>1, <1>2, <1>3 DEF Start, MegolmInit, Megolms

LEMMA AtFacts ==
    ASSUME NEW n \in Nat
    PROVE  /\ At(n) \in Megolms
           /\ At(n).counter = n % Modulus
           /\ At(n).data \in Datas
           /\ \A j \in Parts : At(n).data[j] \in PartValues
           /\ At(n + 1) = MegolmAdvance(At(n))
           /\ At(0) = Start
<1>1. At(n) \in Megolms /\ At(n + 1) = MegolmAdvance(At(n)) /\ At(0) = Start
    BY StartFacts, WalkFacts DEF At
<1>2. At(n).counter = n % Modulus
    <2>1. 0 + n = n
        OBVIOUS
    <2> QED
        BY <2>1, StartFacts, WalkCounter DEF At
<1> QED
    BY <1>1, <1>2 DEF Megolms, Datas

LEMMA AtOn ==
    ASSUME NEW n \in Nat, NEW m \in Nat, n <= m
    PROVE  At(m) = Walk(At(n))[m - n]
<1>1. m - n \in Nat /\ n + (m - n) = m
    OBVIOUS
<1> QED
    BY <1>1, StartFacts, WalkOn DEF At

LEMMA AtPart ==
    ASSUME NEW a \in Nat, NEW b \in Nat, a <= b, NEW j \in Parts, SameBefore(b, a, j)
    PROVE  At(b).data[j] = Rehash(At(a).data[j], j, b \div Unit(j) - a \div Unit(j))
<1> DEFINE k == b - a
           x == At(a)
<1>1. k \in Nat /\ a + k = b
    OBVIOUS
<1>2. x \in Megolms /\ x.counter = a % Modulus
    BY AtFacts
<1>3. Walk(x)[k] = At(b)
    BY AtOn
<1> HIDE DEF k, x
<1>4. Walk(x)[k].data[j] = Rehash(x.data[j], j, (a + k) \div Unit(j) - a \div Unit(j))
    BY <1>1, <1>2, WalkPart
<1> QED
    BY <1>1, <1>3, <1>4 DEF x

LEMMA AtChange ==
    ASSUME NEW c \in Nat, c > 0, NEW h, ChangesFirst(c, h), NEW j \in Parts, h <= j
    PROVE  At(c).data[j] = Rehash(At(c - 1).data[h], j, 1)
<1> DEFINE b == c - 1
<1>1. b \in Nat /\ b + 1 = c
    OBVIOUS
<1> HIDE DEF b
<1>2. At(b) \in Megolms /\ At(b).counter = b % Modulus /\ At(c) = MegolmAdvance(At(b)) /\ At(b).data \in Datas
    BY <1>1, AtFacts
<1>3. PICK g : /\ ChangesFirst(b + 1, g)
               /\ MegolmAdvance(At(b)) = [data |-> RehashFrom(At(b).data, g),
                                          counter |-> (b + 1) % Modulus]
    BY <1>1, <1>2, AdvanceFacts
<1>4. g = h /\ h \in Parts /\ h \in Nat /\ j \in Nat
    BY <1>1, <1>3, OneFirstChange, UnitFacts DEF ChangesFirst
<1>5. At(c).data = RehashFrom(At(b).data, h)
    BY <1>2, <1>3, <1>4
<1>6. RehashFrom(At(b).data, h)[j] = Rehash(At(b).data[h], j, 1)
    BY <1>2, <1>4, RehashFromFacts
<1> QED
    BY <1>5, <1>6 DEF b

-----------------------------------------------------------------------------
(* The digits of an index.                                                 *)
UnitStart(n, j) == Unit(j) * (n \div Unit(j))

LEMMA DigitFacts ==
    ASSUME NEW n \in Nat, NEW j \in Parts
    PROVE  /\ Digit(n, j) \in Nat
           /\ n \div Unit(j) \in Nat
           /\ j = 0 => n \div Unit(j) = Digit(n, j)
           /\ j > 0 => n \div Unit(j) = PART_BASE * (n \div Unit(j - 1)) + Digit(n, j)
<1>1. Unit(j) \in Nat /\ Unit(j) > 0 /\ j \in Nat /\ PART_BASE \in Nat /\ PART_BASE > 0
    BY UnitFacts, MegolmAssumption
<1> DEFINE q == n \div Unit(j)
<1>2. q \in Nat
    BY <1>1, Division
<1> HIDE DEF q
<1>3. q = PART_BASE * (q \div PART_BASE) + (q % PART_BASE) /\ q % PART_BASE \in Nat
    BY <1>1, <1>2, Division
<1>4. j > 0 => n \div Unit(j - 1) = q \div PART_BASE
    BY NextUnit DEF q
<1>5. Digit(n, j) = IF j = 0 THEN q ELSE q % PART_BASE
    BY DEF Digit, q
<1> QED
    BY <1>1, <1>2, <1>3, <1>4, <1>5 DEF q

LEMMA WholeFacts ==
    ASSUME NEW n \in Nat, NEW j \in Parts
    PROVE  /\ UnitStart(n, j) \in Nat /\ UnitStart(n, j) <= n
           /\ UnitStart(n, j) % Unit(j) = 0 /\ UnitStart(n, j) \div Unit(j) = n \div Unit(j)
BY TargetCounter DEF UnitStart

LEMMA ZerosBehind ==
    ASSUME NEW c \in Nat, NEW j \in Parts, j > 0, c % Unit(j - 1) = 0
    PROVE  c \div Unit(j) = PART_BASE * (c \div Unit(j - 1)) /\ c % Unit(j) = 0
<1>1. Unit(j) \in Nat /\ Unit(j) > 0 /\ PART_BASE \in Nat /\ PART_BASE > 0
    BY UnitFacts, MegolmAssumption
<1> DEFINE q == c \div Unit(j)
<1>2. q \in Nat
    BY <1>1, Division
<1>3. c \div Unit(j - 1) = q \div PART_BASE /\ c % Unit(j) = 0 /\ q % PART_BASE = 0
    BY NextUnit
<1> HIDE DEF q
<1>4. q = PART_BASE * (q \div PART_BASE) + (q % PART_BASE) /\ q \div PART_BASE \in Nat
    BY <1>1, <1>2, Division
<1>5. PART_BASE * (q \div PART_BASE) \in Nat
    BY <1>1, <1>4
<1> DEFINE w == PART_BASE * (q \div PART_BASE)
<1>6. q = w
    <2>1. w \in Nat /\ q = w + (q % PART_BASE) /\ q % PART_BASE = 0
        BY <1>3, <1>4, <1>5
    <2> HIDE DEF w
    <2> QED
        BY <2>1
<1> QED
    BY <1>3, <1>6 DEF q

(* Between h and j the digits of n are zero, as those of UnitStart(n, h) are.  *)
LEMMA WholeDigits ==
    ASSUME NEW n \in Nat, NEW h \in Parts, NEW j \in Parts, h < j,
           \A i \in h + 1 .. j - 1 : Digit(n, i) = 0
    PROVE  LET c == UnitStart(n, h) IN
           /\ c \div Unit(j - 1) = n \div Unit(j - 1)
           /\ n \div Unit(j) = c \div Unit(j) + Digit(n, j)
<1> DEFINE c == UnitStart(n, h)
           T == {i \in Nat : h + i <= j - 1 =>
                    c % Unit(h + i) = 0 /\ c \div Unit(h + i) = n \div Unit(h + i)}
<1>1. /\ h \in Nat /\ j \in Nat /\ c \in Nat /\ PART_BASE \in Nat
      /\ \A i \in Nat : i <= j => i \in Parts
    <2>1. h \in Nat /\ j \in Nat
        BY UnitFacts
    <2>2. \A i \in Nat : i <= j => i \in Parts
        BY <2>1, MegolmAssumption DEF Parts
    <2> QED
        BY <2>1, <2>2, WholeFacts, MegolmAssumption
<1>2. 0 \in T
    <2>1. h + 0 = h
        BY <1>1
    <2> HIDE DEF c
    <2>2. c % Unit(h) = 0 /\ c \div Unit(h) = n \div Unit(h)
        BY WholeFacts DEF c
    <2> QED
        BY <2>1, <2>2
<1> HIDE DEF c
<1>3. ASSUME NEW i \in Nat, i \in T PROVE i + 1 \in T
    <2> DEFINE k == h + (i + 1)
    <2> SUFFICES ASSUME k <= j - 1
                 PROVE  c % Unit(k) = 0 /\ c \div Unit(k) = n \div Unit(k)
        OBVIOUS
    <2>1. k - 1 = h + i /\ k \in Parts /\ k > 0 /\ h + i <= j - 1 /\ k \in h + 1 .. j - 1
        BY <1>1
    <2> HIDE DEF k
    <2>2. c % Unit(k - 1) = 0 /\ c \div Unit(k - 1) = n \div Unit(k - 1)
        BY <1>3, <2>1
    <2>3. c \div Unit(k) = PART_BASE * (c \div Unit(k - 1)) /\ c % Unit(k) = 0
        BY <1>1, <2>1, <2>2, ZerosBehind
    <2>4. n \div Unit(k) = PART_BASE * (n \div Unit(k - 1)) + Digit(n, k) /\ Digit(n, k) = 0
        BY <2>1, DigitFacts
    <2>5. n \div Unit(k) \in Nat /\ k - 1 \in Parts /\ n \div Unit(k - 1) \in Nat
        <3>1. k - 1 \in Parts
            BY <1>1, <2>1
        <3> QED
            BY <2>1, <3>1, DigitFacts
    <2> DEFINE q == n \div Unit(k - 1)
    <2>6. PART_BASE * q \in Nat /\ n \div Unit(k) = PART_BASE * q + 0
        BY <1>1, <2>4, <2>5
    <2>7. c \div Unit(k) = PART_BASE * q
        BY <2>2, <2>3
    <2> HIDE DEF q
    <2> QED
        BY <2>3, <2>6, <2>7
<1> HIDE DEF T
<1>4. (j - 1) - h \in T
    <2>1. Nat \subseteq T
        BY <1>2, <1>3, Induction
    <2> QED
        BY <1>1, <2>1
<1>5. c % Unit(j - 1) = 0 /\ c \div Unit(j - 1) = n \div Unit(j - 1)
    <2>1. h + ((j - 1) - h) = j - 1
        BY <1>1
    <2> QED
        BY <1>1, <1>4, <2>1 DEF T
<1>6. c \div Unit(j) = PART_BASE * (c \div Unit(j - 1))
    BY <1>1, <1>5, ZerosBehind
<1>7. n \div Unit(j) = PART_BASE * (n \div Unit(j - 1)) + Digit(n, j)
    BY <1>1, DigitFacts
<1> QED
    BY <1>5, <1>6, <1>7 DEF c

(* All digits before j are zero.                                           *)
LEMMA NoDigits ==
    ASSUME NEW n \in Nat, NEW j \in Parts, \A i \in 0 .. j - 1 : Digit(n, i) = 0
    PROVE  /\ j > 0 => n \div Unit(j - 1) = 0
           /\ n \div Unit(j) = Digit(n, j)
<1> DEFINE T == {i \in Nat : i < j => n \div Unit(i) = 0}
<1>1. j \in Nat /\ PART_BASE \in Nat /\ \A i \in Nat : i <= j => i \in Parts
    <2>1. j \in Nat
        BY UnitFacts
    <2> QED
        BY <2>1, MegolmAssumption DEF Parts
<1>2. 0 \in T
    <2> SUFFICES ASSUME 0 < j PROVE n \div Unit(0) = 0
        OBVIOUS
    <2>1. 0 \in Parts /\ 0 \in 0 .. j - 1
        BY <1>1
    <2> QED
        BY <2>1, DigitFacts
<1>3. ASSUME NEW i \in Nat, i \in T PROVE i + 1 \in T
    <2> DEFINE k == i + 1
    <2> SUFFICES ASSUME k < j PROVE n \div Unit(k) = 0
        OBVIOUS
    <2>1. k - 1 = i /\ k \in Parts /\ k > 0 /\ k \in 0 .. j - 1
        BY <1>1
    <2> HIDE DEF k
    <2>2. n \div Unit(k - 1) = 0
        BY <1>3, <2>1
    <2>3. n \div Unit(k) = PART_BASE * (n \div Unit(k - 1)) + Digit(n, k) /\ Digit(n, k) = 0
        BY <2>1, DigitFacts
    <2> QED
        BY <1>1, <2>2, <2>3
<1> HIDE DEF T
<1>4. Nat \subseteq T
    BY <1>2, <1>3, Induction
<1>5. ASSUME j > 0 PROVE n \div Unit(j - 1) = 0
    <2>1. j - 1 \in Nat /\ j - 1 < j
        BY <1>1, <1>5
    <2> QED
        BY <1>4, <2>1 DEF T
<1>6. n \div Unit(j) = Digit(n, j)
    <2>1. CASE j = 0
        BY <2>1, DigitFacts
    <2>2. CASE j > 0
        <3>1. /\ n \div Unit(j) = PART_BASE * (n \div Unit(j - 1)) + Digit(n, j)
              /\ Digit(n, j) \in Nat /\ n \div Unit(j - 1) = 0
            BY <1>5, <2>2, DigitFacts
        <3> QED
            BY <1>1, <3>1
    <2> QED
        BY <1>1, <2>1, <2>2
<1> QED
    BY <1>5, <1>6

-----------------------------------------------------------------------------
(* The closed form is the ratchet after n steps.                           *)

(* The part that part j was last derived from, if it was from another.     *)
SourceOf(n, j, h) ==
    h \in 0 .. j - 1 /\ Digit(n, h) # 0 /\ \A i \in h + 1 .. j - 1 : Digit(n, i) = 0

(* At UnitStart(n, h) digit h was the first to change.                         *)
LEMMA WholeChange ==
    ASSUME NEW n \in Nat, NEW h \in Parts, Digit(n, h) # 0
    PROVE  /\ UnitStart(n, h) > 0
           /\ ChangesFirst(UnitStart(n, h), h)
           /\ (UnitStart(n, h) - 1) \div Unit(h) = n \div Unit(h) - 1
           /\ h > 0 => (UnitStart(n, h) - 1) \div Unit(h - 1) = n \div Unit(h - 1)
<1> DEFINE u == Unit(h)
           q == n \div u
           c == UnitStart(n, h)
           b == c - 1
<1>1. u \in Nat /\ u > 0 /\ q \in Nat /\ h \in Nat /\ PART_BASE \in Nat /\ PART_BASE > 0
    BY UnitFacts, DigitFacts, MegolmAssumption
<1>2. c \in Nat /\ c <= n /\ c % u = 0 /\ c \div u = q
    BY WholeFacts
<1>3. q > 0 /\ (h > 0 => q % PART_BASE # 0)
    <2>1. CASE h = 0
        BY <1>1, <2>1, DigitFacts
    <2>2. CASE h > 0
        <3>1. q % PART_BASE # 0
            BY <2>2 DEF Digit
        <3>2. 0 % PART_BASE = 0
            <4>1. 0 = PART_BASE * 0 + 0 /\ 0 \in 0 .. PART_BASE - 1
                BY <1>1
            <4> QED
                BY <1>1, <4>1, DivisionUnique
        <3> HIDE DEF q
        <3> QED
            BY <1>1, <2>2, <3>1, <3>2
    <2> QED
        BY <1>1, <2>1, <2>2
<1>4. c = u * q
    BY DEF UnitStart
<1> HIDE DEF u, q, c
<1>5. c > 0
    <2>1. 0 \div u = 0
        <3>1. 0 = u * 0 + 0 /\ 0 \in 0 .. u - 1
            BY <1>1
        <3> QED
            BY <1>1, <3>1, DivisionUnique
    <2> QED
        BY <1>2, <1>3, <2>1
<1>6. b \in Nat /\ b + 1 = c
    BY <1>2, <1>5
<1> HIDE DEF b
<1>7. b \div u = q - 1
    <2>1. c \div u = b \div u + 1
        <3>1. (b + 1) \div u = IF (b + 1) % u = 0 THEN b \div u + 1 ELSE b \div u
            BY <1>1, <1>6, NextQuotient
        <3> QED
            BY <1>2, <1>6, <3>1
    <2>2. b \div u \in Nat
        BY <1>1, <1>6, Division
    <2> QED
        BY <1>1, <1>2, <2>1, <2>2
<1>8. ASSUME h > 0 PROVE c % Unit(h - 1) # 0
    <2>1. c \div Unit(h) = q
        BY <1>2 DEF u
    <2>2. (c \div Unit(h)) % PART_BASE # 0
        BY <1>3, <1>8, <2>1
    <2> QED
        BY <1>2, <1>8, <2>2, NextUnit
<1>9. ChangesFirst(c, h)
    <2>1. ASSUME NEW i \in Parts, i < h PROVE c % Unit(i) # 0
        <3>1. h - 1 \in Parts /\ i <= h - 1 /\ h > 0
            BY <1>1, <2>1, UnitFacts DEF Parts
        <3> QED
            BY <1>2, <1>8, <3>1, MultiplesBehind
    <2> QED
        BY <1>2, <2>1 DEF ChangesFirst, u
<1>10. ASSUME h > 0 PROVE b \div Unit(h - 1) = n \div Unit(h - 1)
    <2> DEFINE v == Unit(h - 1)
    <2>1. v \in Nat /\ v > 0 /\ h - 1 \in Parts /\ h - 1 <= h
        BY <1>1, <1>10, UnitFacts DEF Parts
    <2>2. c % v # 0
        BY <1>8, <1>10
    <2>3. c \div v = n \div v
        <3>1. c \div Unit(h) = n \div Unit(h)
            BY <1>2 DEF u, q
        <3> QED
            BY <1>2, <2>1, <3>1, QuotientsBefore
    <2> HIDE DEF v
    <2>4. (b + 1) \div v = IF (b + 1) % v = 0 THEN b \div v + 1 ELSE b \div v
        BY <1>6, <2>1, NextQuotient
    <2> QED
        BY <1>6, <2>2, <2>3, <2>4 DEF v
<1> QED
    BY <1>5, <1>7, <1>9, <1>10 DEF b, c, q, u

(* A part derived from another, up to index n.                             *)
LEMMA DerivedPart ==
    ASSUME NEW n \in Nat, NEW j \in Parts, NEW h, SourceOf(n, j, h),
           NEW m \in Nat, UnitStart(n, h) <= m, m <= n
    PROVE  /\ h \in Parts
           /\ At(m).data[j] =
                 Rehash(At(UnitStart(n, h) - 1).data[h], j,
                        1 + (m \div Unit(j) - (n \div Unit(j) - Digit(n, j))))
<1> DEFINE c == UnitStart(n, h)
           u == Unit(j)
           d == At(c - 1).data[h]
           s == m \div u - c \div u
<1>1. j \in Nat /\ h \in Nat /\ h \in Parts /\ h < j /\ j - 1 \in Parts /\ u \in Nat /\ u > 0
    <2>1. j \in Nat
        BY UnitFacts
    <2> QED
        BY <2>1, UnitFacts, MegolmAssumption DEF Parts, SourceOf
<1>2. c \in Nat /\ c > 0 /\ ChangesFirst(c, h)
    BY <1>1, WholeChange, WholeFacts DEF SourceOf
<1>3. c \div Unit(j - 1) = n \div Unit(j - 1) /\ n \div u = c \div u + Digit(n, j)
    BY <1>1, WholeDigits DEF SourceOf
<1>4. n \div u \in Nat /\ c \div u \in Nat /\ m \div u \in Nat /\ Digit(n, j) \in Nat
    BY <1>2, DigitFacts
<1>5. At(c).data[j] = Rehash(d, j, 1) /\ d \in PartValues
    <2>1. c - 1 \in Nat
        BY <1>2
    <2> QED
        BY <1>1, <1>2, <2>1, AtChange, AtFacts
<1>6. SameBefore(m, c, j)
    <2> DEFINE v == Unit(j - 1)
    <2>1. v \in Nat /\ v > 0
        BY <1>1, UnitFacts
    <2>2. c \div v = n \div v
        BY <1>3
    <2> HIDE DEF v, c
    <2>3. c <= m
        BY DEF c
    <2>4. c \div v <= m \div v /\ m \div v <= n \div v
        BY <1>2, <2>1, <2>3, QuotientMonotone
    <2>5. c \div v \in Nat /\ m \div v \in Nat /\ n \div v \in Nat
        BY <1>2, <2>1, Division
    <2> QED
        BY <2>2, <2>4, <2>5 DEF v, SameBefore
<1>7. c <= m
    OBVIOUS
<1> HIDE DEF c
<1>8. At(m).data[j] = Rehash(At(c).data[j], j, s)
    BY <1>2, <1>6, <1>7, AtPart
<1>9. s \in Nat
    <2>1. c \div u <= m \div u
        BY <1>1, <1>2, <1>7, QuotientMonotone
    <2> HIDE DEF u
    <2> QED
        BY <1>4, <2>1
<1> HIDE DEF d, s
<1>10. Rehash(Rehash(d, j, 1), j, s) = Rehash(d, j, 1 + s)
    <2>1. 1 \in Nat /\ j \in Int
        BY <1>1
    <2> DEFINE one == 1
    <2> HIDE DEF one
    <2>2. Rehash(Rehash(d, j, one), j, s) = Rehash(d, j, one + s)
        BY <1>5, <1>9, <2>1, RehashMore DEF one
    <2> QED
        BY <2>2 DEF one
<1>11. s = m \div u - (n \div u - Digit(n, j))
    <2> HIDE DEF u
    <2> QED
        BY <1>3, <1>4 DEF s
<1> QED
    BY <1>1, <1>5, <1>8, <1>10, <1>11 DEF c, d, u

(* A part never derived from another, up to index n.                       *)
LEMMA OwnPart ==
    ASSUME NEW n \in Nat, NEW j \in Parts, \A h : ~SourceOf(n, j, h), NEW m \in Nat, m <= n
    PROVE  /\ At(m).data[j] = Rehash(RandomData[j], j, m \div Unit(j))
           /\ n \div Unit(j) = Digit(n, j)
<1>1. j \in Nat /\ Unit(j) \in Nat /\ Unit(j) > 0
    BY UnitFacts
<1>2. \A i \in 0 .. j - 1 : Digit(n, i) = 0
    <2> DEFINE U == {k \in Nat : j - 1 - k >= 0 /\ Digit(n, j - 1 - k) # 0}
    <2> SUFFICES ASSUME NEW i \in 0 .. j - 1, Digit(n, i) # 0 PROVE FALSE
        OBVIOUS
    <2>1. j - 1 - i \in U
        <3>1. j - 1 - (j - 1 - i) = i /\ j - 1 - i \in Nat
            BY <1>1
        <3> QED
            BY <3>1
    <2>2. PICK k \in U : \A l \in U : k <= l
        <3>1. U \in SUBSET Nat /\ U # {}
            BY <2>1
        <3> HIDE DEF U
        <3> QED
            BY <3>1, LeastNumber
    <2> DEFINE h == j - 1 - k
    <2>3. h \in 0 .. j - 1 /\ Digit(n, h) # 0
        BY <1>1, <2>2
    <2>4. ASSUME NEW l \in h + 1 .. j - 1 PROVE Digit(n, l) = 0
        <3>1. j - 1 - l \in Nat /\ j - 1 - l < k /\ j - 1 - (j - 1 - l) = l /\ l >= 0
            BY <1>1, <2>2, <2>3
        <3>2. ~(j - 1 - l \in U)
            BY <2>2, <3>1
        <3> QED
            BY <3>1, <3>2
    <2> HIDE DEF h
    <2> QED
        BY <2>3, <2>4 DEF SourceOf
<1>3. (j > 0 => n \div Unit(j - 1) = 0) /\ n \div Unit(j) = Digit(n, j)
    BY <1>2, NoDigits
<1>4. \A u \in Nat : u > 0 => 0 \div u = 0
    <2>1. ASSUME NEW u \in Nat, u > 0 PROVE 0 \div u = 0
        <3>1. 0 = u * 0 + 0 /\ 0 \in 0 .. u - 1
            BY <2>1
        <3> QED
            BY <2>1, <3>1, DivisionUnique
    <2> QED
        BY <2>1
<1> DEFINE zero == 0
<1>5. SameBefore(m, zero, j)
    <2> SUFFICES ASSUME j > 0 PROVE m \div Unit(j - 1) = 0 \div Unit(j - 1)
        BY DEF SameBefore
    <2> DEFINE v == Unit(j - 1)
    <2>1. v \in Nat /\ v > 0
        BY <1>1, UnitFacts DEF Parts
    <2>2. n \div v = 0
        BY <1>3
    <2> HIDE DEF v
    <2>3. 0 \div v = 0
        BY <1>4, <2>1
    <2>4. m \div v <= n \div v /\ m \div v \in Nat
        BY <2>1, Division, QuotientMonotone
    <2> QED
        BY <2>2, <2>3, <2>4 DEF v
<1>6. zero \in Nat /\ zero <= m /\ zero \div Unit(j) = 0
    BY <1>1, <1>4
<1>7. At(zero).data[j] = RandomData[j]
    BY AtFacts, StartFacts
<1> HIDE DEF zero
<1>8. At(m).data[j] = Rehash(At(zero).data[j], j, m \div Unit(j) - zero \div Unit(j))
    BY <1>5, <1>6, AtPart
<1> DEFINE q == m \div Unit(j)
<1>9. q \in Nat
    BY <1>1, Division
<1>10. q - zero \div Unit(j) = q
    <2> HIDE DEF q
    <2> QED
        BY <1>6, <1>9
<1> QED
    BY <1>3, <1>7, <1>8, <1>10

LEMMA ValueAt ==
    ASSUME NEW n \in Nat
    PROVE  Value(n) = At(n).data
<1> DEFINE Source(j) == {h \in 0 .. j - 1 : Digit(n, h) # 0 /\ \A i \in h + 1 .. j - 1 : Digit(n, i) = 0}
           From(j) == CHOOSE h \in Source(j) : TRUE
           Is(f) == f = [j \in Parts |->
                            IF Source(j) = {} THEN Rehash(RandomData[j], j, Digit(n, j) - 1)
                            ELSE Rehash(f[From(j)], j, Digit(n, j))]
           before == CHOOSE f : Is(f)
           Ago(h) == At(UnitStart(n, h) - 1).data[h]
           ago == [j \in Parts |->
                      IF Source(j) = {} THEN Rehash(RandomData[j], j, Digit(n, j) - 1)
                      ELSE Rehash(Ago(From(j)), j, Digit(n, j))]
<1>1. Value(n) = [j \in Parts |->
                     IF Source(j) = {} THEN Rehash(RandomData[j], j, Digit(n, j))
                     ELSE Rehash(before[From(j)], j, Digit(n, j) + 1)]
    BY DEF Value
<1>2. ASSUME NEW j \in Parts, Source(j) = {}
      PROVE  \A h : ~SourceOf(n, j, h)
    BY <1>2 DEF SourceOf
<1>3. ASSUME NEW j \in Parts, Source(j) # {}
      PROVE  SourceOf(n, j, From(j)) /\ From(j) \in Parts /\ From(j) < j /\ Digit(n, From(j)) # 0
    <2>1. From(j) \in Source(j)
        BY <1>3
    <2> DEFINE h == From(j)
    <2> HIDE DEF h
    <2>2. SourceOf(n, j, h)
        BY <2>1 DEF SourceOf, h
    <2>3. j \in Nat /\ \A i \in Nat : i <= j => i \in Parts
        BY MegolmAssumption DEF Parts
    <2>4. h \in Parts /\ h < j /\ Digit(n, h) # 0
        BY <2>2, <2>3 DEF SourceOf
    <2> QED
        BY <2>2, <2>4 DEF h
<1> HIDE DEF Source, From
<1>4. ASSUME NEW j \in Parts, Digit(n, j) # 0 PROVE ago[j] = Ago(j)
    <2> DEFINE m == UnitStart(n, j) - 1
               d == Digit(n, j)
               q == n \div Unit(j)
    <2>1. m \in Nat /\ m <= n /\ m \div Unit(j) = q - 1
        BY <1>4, WholeFacts, WholeChange
    <2>2. d \in Nat /\ q \in Nat /\ j \in Nat
        BY DigitFacts, UnitFacts
    <2>3. CASE Source(j) = {}
        <3> HIDE DEF m
        <3>1. At(m).data[j] = Rehash(RandomData[j], j, m \div Unit(j)) /\ q = d
            BY <1>2, <2>1, <2>3, OwnPart
        <3> HIDE DEF q, d
        <3>2. Ago(j) = Rehash(RandomData[j], j, d - 1)
            BY <2>1, <3>1 DEF m
        <3> QED
            BY <2>3, <3>2 DEF d
    <2>4. CASE Source(j) # {}
        <3> DEFINE h == From(j)
        <3>1. SourceOf(n, j, h) /\ h \in Parts
            BY <1>3, <2>4
        <3> HIDE DEF h
        <3>2. UnitStart(n, h) <= m
            <4>1. UnitStart(n, h) <= n /\ UnitStart(n, h) \in Nat /\ UnitStart(n, j) \in Nat
                BY <3>1, WholeFacts
            <4>2. n \div Unit(j) = UnitStart(n, h) \div Unit(j) + d
                <5>1. h < j
                    BY <2>2, <3>1 DEF SourceOf
                <5> QED
                    BY <3>1, <5>1, WholeDigits DEF SourceOf
            <4> SUFFICES ASSUME m < UnitStart(n, h) PROVE FALSE
                BY <2>1, <4>1
            <4>3. UnitStart(n, j) <= UnitStart(n, h)
                BY <2>1, <4>1
            <4>4. UnitStart(n, j) \div Unit(j) <= UnitStart(n, h) \div Unit(j)
                BY <4>1, <4>3, UnitFacts, QuotientMonotone
            <4> DEFINE w == UnitStart(n, h) \div Unit(j)
            <4>5. UnitStart(n, j) \div Unit(j) = q /\ w \in Nat
                <5>1. w \in Nat
                    BY <4>1, DigitFacts
                <5>2. UnitStart(n, j) \div Unit(j) = q
                    BY WholeFacts
                <5> QED
                    BY <5>1, <5>2
            <4>6. q <= w /\ w \in Nat /\ q = w + d
                BY <4>2, <4>4, <4>5
            <4> HIDE DEF w, q, d
            <4> QED
                BY <1>4, <2>2, <4>6 DEF d
        <3> HIDE DEF m
        <3>3. At(m).data[j] = Rehash(Ago(h), j, 1 + (m \div Unit(j) - (q - d)))
            BY <2>1, <3>1, <3>2, DerivedPart
        <3> HIDE DEF q, d
        <3>4. 1 + (m \div Unit(j) - (q - d)) = d
            BY <2>1, <2>2
        <3>5. Ago(j) = Rehash(Ago(h), j, d)
            BY <3>3, <3>4 DEF m
        <3> QED
            BY <2>4, <3>5 DEF h, d
    <2> QED
        BY <2>3, <2>4
<1> HIDE DEF Ago
<1>5. Is(ago)
    <2>1. ASSUME NEW j \in Parts, Source(j) # {} PROVE ago[From(j)] = Ago(From(j))
        BY <1>3, <1>4, <2>1
    <2>2. ASSUME NEW j \in Parts
          PROVE  ago[j] = IF Source(j) = {} THEN Rehash(RandomData[j], j, Digit(n, j) - 1)
                          ELSE Rehash(ago[From(j)], j, Digit(n, j))
        BY <2>1
    <2> QED
        BY <2>2
<1>6. Is(before)
    <2> HIDE DEF Is
    <2> QED
        BY <1>5
<1> HIDE DEF before
<1>7. ASSUME NEW j \in Parts
      PROVE  before[j] = IF Source(j) = {} THEN Rehash(RandomData[j], j, Digit(n, j) - 1)
                         ELSE Rehash(before[From(j)], j, Digit(n, j))
    BY <1>6
<1> HIDE DEF Is
<1>8. ASSUME NEW j \in Parts, Digit(n, j) # 0 PROVE before[j] = Ago(j)
    <2> DEFINE U == {i \in Parts : Digit(n, i) # 0 /\ before[i] # Ago(i)}
    <2> SUFFICES ASSUME U # {} PROVE FALSE
        BY <1>8
    <2>1. U \in SUBSET Nat
        BY UnitFacts
    <2>2. PICK i \in U : \A k \in U : i <= k
        BY <2>1, LeastNumber
    <2>3. i \in Parts /\ i \in Nat /\ before[i] # ago[i]
        BY <1>4, <2>1, <2>2
    <2>4. CASE Source(i) = {}
        BY <1>7, <2>3, <2>4
    <2>5. CASE Source(i) # {}
        <3>1. From(i) \in Parts /\ From(i) < i /\ Digit(n, From(i)) # 0 /\ From(i) \in Nat
            BY <1>3, <2>3, <2>5, UnitFacts
        <3>2. before[From(i)] = Ago(From(i))
            BY <2>2, <2>3, <3>1
        <3> QED
            BY <1>7, <2>3, <2>5, <3>2
    <2> QED
        BY <2>4, <2>5
<1> HIDE DEF ago
<1>9. ASSUME NEW j \in Parts PROVE Value(n)[j] = At(n).data[j]
    <2> DEFINE d == Digit(n, j)
               q == n \div Unit(j)
    <2>1. d \in Nat /\ q \in Nat
        BY DigitFacts
    <2>2. CASE Source(j) = {}
        <3>1. At(n).data[j] = Rehash(RandomData[j], j, q) /\ q = d
            BY <1>2, <2>2, OwnPart
        <3> HIDE DEF d, q
        <3> QED
            BY <1>1, <2>2, <3>1 DEF d
    <2>3. CASE Source(j) # {}
        <3> DEFINE h == From(j)
        <3>1. SourceOf(n, j, h) /\ h \in Parts /\ Digit(n, h) # 0
            BY <1>3, <2>3
        <3> HIDE DEF h
        <3>2. UnitStart(n, h) <= n
            BY <3>1, WholeFacts
        <3>3. At(n).data[j] = Rehash(Ago(h), j, 1 + (q - (q - d)))
            BY <3>1, <3>2, DerivedPart DEF Ago
        <3> HIDE DEF d, q
        <3>4. 1 + (q - (q - d)) = d + 1
            BY <2>1
        <3>5. before[h] = Ago(h)
            BY <1>8, <3>1
        <3>6. Value(n)[j] = Rehash(before[h], j, d + 1)
            BY <1>1, <2>3 DEF h, d
        <3> QED
            BY <3>3, <3>4, <3>5, <3>6
    <2> QED
        BY <2>2, <2>3
<1>10. At(n).data = [j \in Parts |-> At(n).data[j]]
    <2>1. At(n).data \in Datas
        BY AtFacts
    <2> QED
        BY <2>1 DEF Datas
<1>11. Value(n) = [j \in Parts |-> Value(n)[j]]
    BY <1>1
<1> QED
    BY <1>9, <1>10, <1>11

-----------------------------------------------------------------------------
(* IndexDeterminesValue: megolm_advance() and megolm_advance_to() in any   *)
(* mixture, by any distance and past the wrap of the counter, leave the    *)
(* ratchet with the value of its index.                                    *)
THEOREM JumpsAreSteps == StepsSpec => []IndexDeterminesValue
<1> DEFINE Inv == steps \in Nat /\ megolm = At(steps)
<1>1. StepsInit => Inv
    BY AtFacts DEF StepsInit, Start
<1>2. Inv /\ [StepsNext]_stepsvars => Inv'
    <2> SUFFICES ASSUME Inv, [StepsNext]_stepsvars PROVE Inv'
        OBVIOUS
    <2>1. CASE Advance
        BY <2>1, AtFacts DEF Advance
    <2>2. ASSUME NEW advance_to \in 0 .. Modulus - 1, AdvanceTo(advance_to) PROVE Inv'
        <3> DEFINE s == (advance_to - megolm.counter) % Modulus
                   m == steps + s
        <3>1. Modulus \in Nat /\ Modulus > 0 /\ advance_to \in Nat
            BY UnitFacts
        <3>2. megolm \in Megolms /\ megolm.counter = steps % Modulus /\ steps % Modulus \in Nat
            <4>1. megolm \in Megolms /\ megolm.counter = steps % Modulus
                BY AtFacts
            <4>2. megolm.counter \in 0 .. Modulus - 1
                BY <4>1 DEF Megolms
            <4> QED
                BY <3>1, <4>1, <4>2
        <3>3. s \in 0 .. Modulus - 1
            <4> DEFINE d == advance_to - megolm.counter
            <4>1. d \in Int
                BY <3>2
            <4> HIDE DEF d
            <4> QED
                BY <3>1, <4>1, Division DEF d
        <3>4. m % Modulus = advance_to
            <4> DEFINE c == steps % Modulus
                       p == steps \div Modulus
                       d == advance_to - c
                       e == d \div Modulus
            <4>1. c \in Nat /\ p \in Nat /\ steps = Modulus * p + c
                BY <3>1, Division
            <4> HIDE DEF c, p
            <4>2. d \in Int
                BY <4>1
            <4> HIDE DEF d
            <4>3. e \in Int /\ d = Modulus * e + s
                <5>1. s = d % Modulus
                    BY <3>2 DEF d, c
                <5> HIDE DEF s
                <5> QED
                    BY <3>1, <4>2, <5>1, Division
            <4> HIDE DEF e, s
            <4>4. Modulus * (p - e) = Modulus * p - Modulus * e
                BY <3>1, <4>1, <4>3
            <4>5. Modulus * p \in Int /\ Modulus * e \in Int
                BY <3>1, <4>1, <4>3
            <4>6. m = Modulus * (p - e) + advance_to
                BY <3>1, <3>3, <4>1, <4>2, <4>3, <4>4, <4>5 DEF d
            <4>7. m \in Int /\ p - e \in Int
                BY <3>3, <4>1, <4>3
            <4> HIDE DEF m
            <4> QED
                BY <3>1, <4>6, <4>7, DivisionUnique
        <3> HIDE DEF s
        <3>5. m \in Nat /\ steps <= m /\ m - steps < Modulus
            BY <3>1, <3>3
        <3>6. steps' = m /\ megolm' = MegolmAdvanceTo(megolm, advance_to)
            BY <2>2 DEF AdvanceTo, s
        <3> HIDE DEF m
        <3>7. MegolmAdvanceTo(megolm, m % Modulus) = Walk(megolm)[m - steps]
            BY <3>2, <3>5, AdvanceToIsWalk
        <3>8. At(m) = Walk(At(steps))[m - steps]
            BY <3>5, AtOn
        <3> QED
            BY <3>4, <3>5, <3>6, <3>7, <3>8
    <2>3. CASE UNCHANGED stepsvars
        BY <2>3 DEF stepsvars
    <2> QED
        BY <2>1, <2>2, <2>3 DEF StepsNext
<1>3. Inv => IndexDeterminesValue
    <2> SUFFICES ASSUME Inv PROVE IndexDeterminesValue
        OBVIOUS
    <2>1. megolm \in Megolms /\ megolm.counter = steps % Modulus /\ megolm.data = Value(steps)
        BY AtFacts, ValueAt
    <2>2. megolm = [data |-> megolm.data, counter |-> megolm.counter]
        BY <2>1 DEF Megolms
    <2> QED
        BY <2>1, <2>2 DEF IndexDeterminesValue
<1> QED
    BY <1>1, <1>2, <1>3, PTL DEF StepsSpec

-----------------------------------------------------------------------------
(* What cannot be computed from a ratchet: nothing of an earlier index.    *)

(* Hashing d on may lead to e.                                             *)
Begins(d, e) ==
    /\ d.random = e.random
    /\ Len(d.hashes) <= Len(e.hashes)
    /\ \A k \in 1 .. Len(d.hashes) : d.hashes[k] = e.hashes[k]

LEMMA BeginsOf ==
    ASSUME NEW data \in Datas, NEW target \in Datas, Derivable(data, target), NEW j \in Parts
    PROVE  \E i \in Parts : Begins(data[i], target[j])
<1>1. PICK i \in Parts : /\ data[i].random = target[j].random
                         /\ Len(data[i].hashes) <= Len(target[j].hashes)
                         /\ SubSeq(target[j].hashes, 1, Len(data[i].hashes)) = data[i].hashes
    BY DEF Derivable
<1> DEFINE d == data[i].hashes
           e == target[j].hashes
<1>2. d \in Seq(Int) /\ e \in Seq(Int)
    BY DEF Datas, PartValues
<1> HIDE DEF d, e
<1>3. SubSeq(e, 1, Len(d)) = d /\ Len(d) <= Len(e)
    BY <1>1 DEF d, e
<1>4. ASSUME NEW k \in 1 .. Len(d) PROVE d[k] = e[k]
    <2>1. Len(d) \in Nat /\ Len(e) \in Nat /\ k \in 1 .. Len(e)
        BY <1>2, <1>3
    <2>2. SubSeq(e, 1, Len(d))[k] = e[k]
        BY <1>2, <2>1
    <2> QED
        BY <1>3, <2>2
<1>5. Begins(data[i], target[j])
    BY <1>1, <1>4 DEF Begins, d, e
<1> QED
    BY <1>5

LEMMA DerivableSelf ==
    ASSUME NEW data \in Datas
    PROVE  Derivable(data, data)
<1> SUFFICES ASSUME NEW j \in Parts
             PROVE  SubSeq(data[j].hashes, 1, Len(data[j].hashes)) = data[j].hashes
                    /\ Len(data[j].hashes) <= Len(data[j].hashes)
    BY DEF Derivable
<1> DEFINE d == data[j].hashes
<1>1. d \in Seq(Int)
    BY DEF Datas, PartValues
<1> HIDE DEF d
<1>2. SubSeq(d, 1, Len(d)) = d /\ Len(d) <= Len(d)
    BY <1>1
<1> QED
    BY <1>2 DEF d

LEMMA BeginsEarlier ==
    ASSUME NEW d \in PartValues, NEW seed \in Int, NEW e, Begins(Rehash(d, seed, 1), e),
           Len(e.hashes) \in Nat
    PROVE  Begins(d, e)
<1> DEFINE one == 1
           r == Rehash(d, seed, one)
<1>1. d.hashes \in Seq(Int) /\ Len(d.hashes) \in Nat /\ one \in Nat
    BY DEF PartValues
<1> HIDE DEF one
<1>2. /\ r.random = d.random
      /\ Len(r.hashes) = Len(d.hashes) + one
      /\ \A i \in 1 .. Len(d.hashes) + one :
            r.hashes[i] = IF i <= Len(d.hashes) THEN d.hashes[i] ELSE seed
    BY <1>1, RehashFacts
<1>3. Begins(r, e)
    BY DEF one
<1> HIDE DEF r
<1>4. r.random = e.random /\ Len(r.hashes) <= Len(e.hashes)
      /\ \A k \in 1 .. Len(r.hashes) : r.hashes[k] = e.hashes[k]
    BY <1>3 DEF Begins
<1>5. ASSUME NEW k \in 1 .. Len(d.hashes) PROVE d.hashes[k] = e.hashes[k]
    <2>1. k \in 1 .. Len(r.hashes) /\ k \in 1 .. Len(d.hashes) + one /\ k <= Len(d.hashes)
        BY <1>1, <1>2 DEF one
    <2> QED
        BY <1>2, <1>4, <2>1
<1>6. Len(d.hashes) <= Len(e.hashes)
    BY <1>1, <1>2, <1>4 DEF one
<1> QED
    BY <1>2, <1>4, <1>5, <1>6 DEF Begins

(* No part of a ratchet leads to one behind it, and a part is hashed with  *)
(* no seed beyond its own.                                                 *)
Parted(data) ==
    \A i \in Parts :
        /\ \A k \in 1 .. Len(data[i].hashes) : data[i].hashes[k] <= i
        /\ \A j \in Parts : i < j => ~Begins(data[i], data[j])

LEMMA PartedOn ==
    ASSUME NEW data \in Datas, Parted(data), NEW h \in Parts
    PROVE  Parted(RehashFrom(data, h))
<1> DEFINE new == RehashFrom(data, h)
           d == data[h]
           one == 1
           n == Len(d.hashes)
<1>1. /\ d \in PartValues /\ n \in Nat /\ one \in Nat /\ Parts \subseteq Nat
      /\ \A i \in Parts : data[i] \in PartValues /\ Len(data[i].hashes) \in Nat
    BY UnitFacts DEF Datas, PartValues
<1>2. ASSUME NEW i \in Parts
      PROVE  new[i] = IF i < h THEN data[i] ELSE Rehash(d, i, one)
    BY RehashFromFacts
<1> HIDE DEF new, d, one
<1>3. ASSUME NEW i \in Parts, ~(i < h)
      PROVE  /\ Len(new[i].hashes) = n + 1
             /\ \A k \in 1 .. n + 1 : new[i].hashes[k] = IF k <= n THEN d.hashes[k] ELSE i
             /\ new[i] = Rehash(d, i, 1)
    <2>1. new[i] = Rehash(d, i, one) /\ i \in Int
        BY <1>1, <1>2, <1>3
    <2>2. /\ Len(Rehash(d, i, one).hashes) = n + one
          /\ \A k \in 1 .. n + one :
                Rehash(d, i, one).hashes[k] = IF k <= n THEN d.hashes[k] ELSE i
        BY <1>1, <2>1, RehashFacts
    <2> QED
        BY <2>1, <2>2 DEF one
<1>4. ASSUME NEW i \in Parts, i < h PROVE new[i] = data[i]
    BY <1>2, <1>4
<1>5. /\ \A k \in 1 .. n : d.hashes[k] <= h
      /\ \A i \in Parts : i < h => ~Begins(data[i], d)
    BY DEF Parted, d
<1> HIDE DEF n
<1>6. ASSUME NEW i \in Parts, NEW k \in 1 .. Len(new[i].hashes)
      PROVE  new[i].hashes[k] <= i
    <2>1. CASE i < h
        BY <1>4, <1>6, <2>1 DEF Parted
    <2>2. CASE ~(i < h)
        <3>1. k \in 1 .. n + 1 /\ new[i].hashes[k] = IF k <= n THEN d.hashes[k] ELSE i
            BY <1>3, <2>2
        <3>2. CASE k <= n
            <4>1. k \in 1 .. n
                BY <1>1, <3>1, <3>2
            <4>2. d.hashes[k] <= h /\ d.hashes[k] \in Int
                <5>1. d.hashes \in Seq(Int)
                    BY <1>1 DEF PartValues
                <5> QED
                    BY <1>5, <4>1, <5>1 DEF n
            <4> QED
                BY <1>1, <2>2, <3>1, <3>2, <4>2
        <3>3. CASE ~(k <= n)
            BY <1>1, <3>1, <3>3
        <3> QED
            BY <3>2, <3>3
    <2> QED
        BY <2>1, <2>2
<1>7. ASSUME NEW i \in Parts, NEW j \in Parts, i < j, Begins(new[i], new[j])
      PROVE  FALSE
    <2>1. i \in Nat /\ j \in Nat /\ h \in Nat
        BY <1>1
    <2>2. CASE j < h
        BY <1>4, <1>7, <2>1, <2>2 DEF Parted
    <2>3. CASE i < h /\ ~(j < h)
        <3> DEFINE c == data[i]
                   l == Len(c.hashes)
        <3>1. Begins(c, new[j]) /\ l \in Nat /\ new[j] = Rehash(d, j, 1)
            BY <1>1, <1>3, <1>4, <1>7, <2>3
        <3>2. /\ c.random = new[j].random /\ l <= n + 1
              /\ \A k \in 1 .. l : c.hashes[k] = new[j].hashes[k]
            BY <1>3, <2>3, <3>1 DEF Begins
        <3>3. new[j].random = d.random
            BY <1>1, <2>1, <3>1, RehashFacts
        <3>4. \A k \in 1 .. l : c.hashes[k] <= i
            BY DEF Parted
        <3> HIDE DEF c, l
        <3>5. l # n + 1
            <4> SUFFICES ASSUME l = n + 1 PROVE FALSE
                OBVIOUS
            <4>1. n + 1 \in 1 .. l /\ n + 1 \in 1 .. n + 1 /\ ~(n + 1 <= n)
                BY <1>1
            <4>2. new[j].hashes[n + 1] = j
                BY <1>3, <2>3, <4>1
            <4>3. c.hashes[n + 1] = new[j].hashes[n + 1] /\ c.hashes[n + 1] <= i
                BY <3>2, <3>4, <4>1
            <4> QED
                BY <1>7, <2>1, <4>2, <4>3
        <3>6. l <= n
            BY <1>1, <3>1, <3>2, <3>5
        <3>7. ASSUME NEW k \in 1 .. l PROVE c.hashes[k] = d.hashes[k]
            <4>1. k \in 1 .. n + 1 /\ k <= n
                BY <1>1, <3>1, <3>6
            <4>2. new[j].hashes[k] = d.hashes[k]
                BY <1>3, <2>3, <4>1
            <4> QED
                BY <3>2, <4>2
        <3>8. Begins(c, d)
            BY <3>2, <3>3, <3>6, <3>7 DEF Begins, l, n
        <3> QED
            BY <1>5, <2>3, <3>8 DEF c
    <2>4. CASE ~(i < h)
        <3>1. ~(j < h)
            BY <1>7, <2>1, <2>4
        <3>2. n + 1 \in 1 .. n + 1 /\ ~(n + 1 <= n)
            BY <1>1
        <3>3. new[i].hashes[n + 1] = i /\ Len(new[i].hashes) = n + 1
            BY <1>3, <2>4, <3>2
        <3>4. new[j].hashes[n + 1] = j
            BY <1>3, <3>1, <3>2
        <3>5. new[i].hashes[n + 1] = new[j].hashes[n + 1]
            BY <1>7, <3>2, <3>3 DEF Begins
        <3> QED
            BY <1>7, <2>1, <3>3, <3>4, <3>5
    <2> QED
        BY <2>2, <2>3, <2>4
<1>8. Parted(new)
    BY <1>6, <1>7 DEF Parted
<1> QED
    BY <1>8 DEF new

LEMMA AtParted ==
    ASSUME NEW n \in Nat
    PROVE  Parted(At(n).data)
<1> DEFINE T == {k \in Nat : Parted(At(k).data)}
<1>1. 0 \in T
    <2>1. At(0).data = RandomData
        BY AtFacts, StartFacts
    <2>2. Parted(RandomData)
        <3>1. \A i \in Parts : RandomData[i].random = i /\ Len(RandomData[i].hashes) = 0
            BY DEF RandomData
        <3>2. Parts \subseteq Nat
            BY UnitFacts
        <3> QED
            BY <3>1, <3>2 DEF Parted, Begins
    <2> QED
        BY <2>1, <2>2
<1>2. ASSUME NEW k \in Nat, k \in T PROVE k + 1 \in T
    <2>1. At(k) \in Megolms /\ At(k).counter = k % Modulus /\ At(k).data \in Datas
          /\ At(k + 1) = MegolmAdvance(At(k))
        BY AtFacts
    <2>2. PICK h : /\ ChangesFirst(k + 1, h)
                   /\ MegolmAdvance(At(k)) = [data |-> RehashFrom(At(k).data, h),
                                              counter |-> (k + 1) % Modulus]
        BY <2>1, AdvanceFacts
    <2>3. h \in Parts
        BY <2>2 DEF ChangesFirst
    <2>4. At(k + 1).data = RehashFrom(At(k).data, h)
        BY <2>1, <2>2
    <2> QED
        BY <1>2, <2>1, <2>3, <2>4, PartedOn
<1> HIDE DEF T
<1>3. Nat \subseteq T
    BY <1>1, <1>2, Induction
<1> QED
    BY <1>3 DEF T

(* Whoever holds the ratchet of index n cannot compute that of index t.    *)
LEMMA ForwardSecrecy ==
    ASSUME NEW t \in Nat, NEW n \in Nat, t < n
    PROVE  ~Derivable(At(n).data, At(t).data)
<1> DEFINE last == MEGOLM_RATCHET_PARTS - 1
           e == At(t).data[last]
           Hidden(m) == \A i \in Parts : ~Begins(At(m).data[i], e)
           T == {k \in Nat : Hidden(t + 1 + k)}
<1>1. last \in Parts /\ Parts \subseteq Nat /\ \A i \in Parts : i <= last
    BY UnitFacts, MegolmAssumption DEF Parts
<1> HIDE DEF last
<1>2. e \in PartValues /\ e.hashes \in Seq(Int) /\ Len(e.hashes) \in Nat
    <2>1. e \in PartValues
        BY <1>1, AtFacts
    <2> QED
        BY <2>1 DEF PartValues
<1>3. ASSUME NEW m \in Nat
      PROVE  \E h \in Parts : \A i \in Parts :
                At(m + 1).data[i] = IF i < h THEN At(m).data[i] ELSE Rehash(At(m).data[h], i, 1)
    <2>1. At(m) \in Megolms /\ At(m).counter = m % Modulus /\ At(m).data \in Datas
          /\ At(m + 1) = MegolmAdvance(At(m))
        BY AtFacts
    <2>2. PICK h : /\ ChangesFirst(m + 1, h)
                   /\ MegolmAdvance(At(m)) = [data |-> RehashFrom(At(m).data, h),
                                              counter |-> (m + 1) % Modulus]
        BY <2>1, AdvanceFacts
    <2>3. h \in Parts
        BY <2>2 DEF ChangesFirst
    <2> DEFINE data == At(m).data
    <2>4. At(m + 1).data = RehashFrom(data, h) /\ data \in Datas
        BY <2>1, <2>2
    <2> HIDE DEF data
    <2>5. \A i \in Parts :
             RehashFrom(data, h)[i] = IF i < h THEN data[i] ELSE Rehash(data[h], i, 1)
        BY <2>3, <2>4, RehashFromFacts
    <2>6. \A i \in Parts :
             At(m + 1).data[i] = IF i < h THEN data[i] ELSE Rehash(data[h], i, 1)
        BY <2>4, <2>5
    <2> QED
        BY <2>3, <2>6 DEF data
<1>4. ASSUME NEW m \in Nat, NEW i \in Parts PROVE At(m).data[i] \in PartValues /\ i \in Int
    BY <1>1, AtFacts
<1> HIDE DEF e
<1>5. 0 \in T
    <2> SUFFICES ASSUME NEW i \in Parts, Begins(At(t + 1).data[i], e) PROVE FALSE
        OBVIOUS
    <2>1. PICK h \in Parts : At(t + 1).data[i] =
                                IF i < h THEN At(t).data[i] ELSE Rehash(At(t).data[h], i, 1)
        BY <1>3
    <2>2. \A j \in Parts : j < last => ~Begins(At(t).data[j], e)
        BY <1>1, AtParted DEF Parted, e
    <2>3. i \in Nat /\ h \in Nat /\ last \in Nat /\ i <= last /\ h <= last
        BY <1>1
    <2>4. CASE i < h
        BY <2>1, <2>2, <2>3, <2>4
    <2>5. CASE ~(i < h)
        <3>1. Begins(Rehash(At(t).data[h], i, 1), e)
            BY <2>1, <2>5
        <3>2. Begins(At(t).data[h], e)
            BY <1>2, <1>4, <3>1, BeginsEarlier
        <3>3. h = last
            BY <2>2, <2>3, <3>2
        <3>4. Len(Rehash(e, i, 1).hashes) = Len(e.hashes) + 1
            BY <1>2, <1>4, RehashFacts
        <3>5. Len(Rehash(e, i, 1).hashes) <= Len(e.hashes)
            BY <3>1, <3>3 DEF Begins, e
        <3> QED
            BY <1>2, <3>4, <3>5
    <2> QED
        BY <2>4, <2>5
<1>6. ASSUME NEW k \in Nat, k \in T PROVE k + 1 \in T
    <2> DEFINE m == t + 1 + k
    <2>1. m \in Nat /\ t + 1 + (k + 1) = m + 1 /\ Hidden(m)
        BY <1>6
    <2> HIDE DEF m
    <2>2. Hidden(m + 1)
        <3> SUFFICES ASSUME NEW i \in Parts, Begins(At(m + 1).data[i], e) PROVE FALSE
            OBVIOUS
        <3>1. PICK h \in Parts : At(m + 1).data[i] =
                                    IF i < h THEN At(m).data[i] ELSE Rehash(At(m).data[h], i, 1)
            BY <1>3, <2>1
        <3>2. CASE i < h
            BY <2>1, <3>1, <3>2
        <3>3. CASE ~(i < h)
            <4>1. Begins(Rehash(At(m).data[h], i, 1), e)
                BY <3>1, <3>3
            <4>2. Begins(At(m).data[h], e)
                BY <1>2, <1>4, <2>1, <4>1, BeginsEarlier
            <4> QED
                BY <2>1, <4>2
        <3> QED
            BY <3>2, <3>3
    <2> QED
        BY <2>1, <2>2
<1> HIDE DEF T
<1>7. n - t - 1 \in T
    <2>1. Nat \subseteq T
        BY <1>5, <1>6, Induction
    <2> QED
        BY <2>1
<1>8. Hidden(n)
    <2>1. t + 1 + (n - t - 1) = n
        OBVIOUS
    <2> QED
        BY <1>7, <2>1 DEF T
<1> QED
    BY <1>1, <1>8, AtFacts, BeginsOf DEF e

LEMMA KeysDiffer ==
    ASSUME NEW a \in Nat, NEW b \in Nat, At(a).data = At(b).data
    PROVE  a = b
<1>1. Derivable(At(a).data, At(a).data)
    BY AtFacts, DerivableSelf
<1>2. ~(a < b) /\ ~(b < a)
    BY <1>1, ForwardSecrecy
<1> QED
    BY <1>2

-----------------------------------------------------------------------------
(* What _get_megolm() finds.                                               *)
LEMMA HalfFacts ==
    /\ Half \in Nat /\ Modulus \in Nat /\ Half + Half <= Modulus /\ Half < Modulus
    /\ MaxSends \in Nat /\ MaxAhead \in Nat /\ MaxSends + MaxAhead <= Half
<1>1. Modulus \in Nat /\ Modulus > 0
    BY UnitFacts
<1> DEFINE M == Modulus
<1>2. M \in Nat /\ M > 0 /\ Half = M \div 2
    BY <1>1 DEF Half
<1>3. MaxSends \in Nat /\ MaxAhead \in Nat /\ MaxSends + MaxAhead <= M \div 2
    BY GroupAssumption
<1> HIDE DEF M
<1>4. M \div 2 \in Nat /\ M \div 2 + M \div 2 <= M
    BY <1>2
<1> QED
    BY <1>2, <1>3, <1>4 DEF M

LEMMA SmallRemainder ==
    ASSUME NEW n \in Nat, n < Modulus
    PROVE  n % Modulus = n
<1>1. Modulus \in Nat /\ Modulus > 0
    BY UnitFacts
<1>2. n = Modulus * 0 + n /\ n \in 0 .. Modulus - 1
    BY <1>1
<1> QED
    BY <1>1, <1>2, DivisionUnique

(* The steps from one counter to another.                                  *)
Gap(c, i) == IF c <= i THEN i - c ELSE i - c + Modulus

LEMMA GapFacts ==
    ASSUME NEW c \in 0 .. Modulus - 1, NEW i \in 0 .. Modulus - 1
    PROVE  (i - c) % Modulus = Gap(c, i) /\ Gap(c, i) \in 0 .. Modulus - 1
<1>1. Modulus \in Nat /\ Modulus > 0
    BY UnitFacts
<1>2. CASE c <= i
    <2> DEFINE d == i - c
    <2>1. d = Modulus * 0 + d /\ d \in 0 .. Modulus - 1
        BY <1>1, <1>2
    <2> HIDE DEF d
    <2>2. d % Modulus = d
        BY <1>1, <2>1, DivisionUnique
    <2> QED
        BY <1>2, <2>1, <2>2 DEF Gap, d
<1>3. CASE ~(c <= i)
    <2> DEFINE d == i - c
               e == i - c + Modulus
               q == 0 - 1
    <2>1. Modulus * q = 0 - Modulus /\ q \in Int
        BY <1>1
    <2>2. d \in Int /\ d = Modulus * q + e /\ e \in 0 .. Modulus - 1
        BY <1>1, <1>3, <2>1
    <2> HIDE DEF d, e, q
    <2>3. d % Modulus = e
        BY <1>1, <2>1, <2>2, DivisionUnique
    <2> QED
        BY <1>3, <2>2, <2>3 DEF Gap, d, e
<1> QED
    BY <1>2, <1>3

LEMMA AdvanceToTarget ==
    ASSUME NEW x \in Megolms, NEW i \in 0 .. Modulus - 1
    PROVE  /\ MegolmAdvanceTo(x, i) = Walk(x)[Gap(x.counter, i)]
           /\ MegolmAdvanceTo(x, i) \in Megolms
           /\ MegolmAdvanceTo(x, i).counter = i
<1> DEFINE c == x.counter
           k == Gap(c, i)
           m == c + k
<1>1. Modulus \in Nat /\ Modulus > 0 /\ c \in 0 .. Modulus - 1
    BY UnitFacts DEF Megolms
<1>2. k \in 0 .. Modulus - 1 /\ k \in Nat
    <2>1. k \in 0 .. Modulus - 1
        <3> HIDE DEF c
        <3> QED
            BY <1>1, GapFacts
    <2> HIDE DEF k
    <2> QED
        BY <1>1, <2>1
<1>3. c % Modulus = c
    <2> HIDE DEF c
    <2> QED
        BY <1>1, SmallRemainder
<1>4. m % Modulus = i
    <2>1. m = IF c <= i THEN i ELSE i + Modulus
        <3> HIDE DEF c
        <3> QED
            BY <1>1 DEF Gap
    <2> HIDE DEF m
    <2>2. CASE m = i
        <3>1. i \in Nat /\ i < Modulus
            BY <1>1
        <3> QED
            BY <2>2, <3>1, SmallRemainder
    <2>3. CASE m = i + Modulus
        <3>1. m = Modulus * 1 + i /\ m \in Int
            BY <1>1, <2>3
        <3> QED
            BY <1>1, <3>1, DivisionUnique
    <2> QED
        BY <2>1, <2>2, <2>3
<1> HIDE DEF k
<1>5. m \in Nat /\ c <= m /\ m - c = k /\ m - c < Modulus /\ c \in Nat
    <2> HIDE DEF c
    <2> QED
        BY <1>1, <1>2
<1> HIDE DEF m
<1>6. MegolmAdvanceTo(x, m % Modulus) = Walk(x)[m - c]
    <2>1. x.counter = c % Modulus
        BY <1>3
    <2> HIDE DEF c
    <2> QED
        BY <1>5, <2>1, AdvanceToIsWalk
<1>7. Walk(x)[k].counter = (c + k) % Modulus
    <2>1. x.counter = c % Modulus
        BY <1>3
    <2> HIDE DEF c
    <2> QED
        BY <1>2, <1>5, <2>1, WalkCounter
<1>8. Walk(x)[k] \in Megolms
    BY <1>2, WalkFacts
<1> QED
    BY <1>4, <1>5, <1>6, <1>7, <1>8 DEF k, m

(* The ratchet of index i, and with it those behind, are reached from x    *)
(* without a wrap of the counter.                                          *)
TrueFrom(x, i) == i \in Nat /\ x.counter <= i /\ Walk(x)[i - x.counter] = At(i)

LEMMA TrueLater ==
    ASSUME NEW x \in Megolms, NEW i, TrueFrom(x, i), NEW j \in Nat, i <= j
    PROVE  TrueFrom(x, j)
<1> DEFINE c == x.counter
<1>1. c \in Nat /\ i \in Nat /\ c <= i /\ Walk(x)[i - c] = At(i)
    BY UnitFacts DEF Megolms, TrueFrom
<1> HIDE DEF c
<1>2. i - c \in Nat /\ j - i \in Nat /\ (i - c) + (j - i) = j - c /\ c <= j
    BY <1>1
<1>3. Walk(Walk(x)[i - c])[j - i] = Walk(x)[(i - c) + (j - i)]
    BY <1>2, WalkOn
<1>4. At(j) = Walk(At(i))[j - i]
    BY <1>1, AtOn
<1> QED
    BY <1>1, <1>2, <1>3, <1>4 DEF TrueFrom, c

(* A counter that wraps hashes R(0) once more than the sender ever does.   *)
LEMMA WrappedDiffers ==
    ASSUME NEW x \in Megolms, NEW i \in 0 .. Modulus - 1, i < x.counter
    PROVE  Walk(x)[Gap(x.counter, i)].data # At(i).data
<1> DEFINE c == x.counter
           k == Gap(c, i)
           u == Unit(0)
           zero == 0
           d == x.data[zero]
           b == c \div u
           q == i \div u
           t == (c + k) \div u - c \div u
<1>1. /\ Modulus \in Nat /\ Modulus > 0 /\ c \in 0 .. Modulus - 1 /\ u \in Nat /\ u > 0
      /\ PART_BASE \in Nat /\ PART_BASE > 0 /\ Modulus = PART_BASE * u /\ 0 \in Parts
    BY UnitFacts, MegolmAssumption DEF Megolms
<1>2. d \in PartValues /\ RandomData[zero] \in PartValues
    <2>1. RandomData \in Datas
        BY AtFacts, StartFacts
    <2> QED
        BY <1>1, <2>1 DEF Megolms, Datas
<1> HIDE DEF d, u
<1>3. c + k = i + Modulus /\ k \in Nat /\ c \in Nat
    <2>1. k = i - c + Modulus
        <3> HIDE DEF c
        <3> QED
            BY <1>1 DEF Gap, c
    <2> HIDE DEF c, k
    <2> QED
        BY <1>1, <2>1
<1>4. c % Modulus = c
    <2> HIDE DEF c
    <2> QED
        BY <1>1, <1>3, SmallRemainder
<1> HIDE DEF k
<1>5. Walk(x)[k].data[zero] = Rehash(d, zero, t)
    <2>1. SameBefore(c + k, c, zero) /\ zero \in Parts /\ x.counter = c % Modulus
        BY <1>1, <1>4 DEF SameBefore
    <2> HIDE DEF c, zero
    <2>2. Walk(x)[k].data[zero] =
             Rehash(x.data[zero], zero, (c + k) \div Unit(zero) - c \div Unit(zero))
        BY <1>3, <2>1, WalkPart
    <2> QED
        BY <2>2 DEF d, u, zero
<1>6. At(i).data[zero] = Rehash(RandomData[zero], zero, q)
    <2>1. \A h : ~SourceOf(i, zero, h)
        BY DEF SourceOf
    <2>2. i \in Nat /\ i <= i /\ zero \in Parts
        BY <1>1
    <2> HIDE DEF zero
    <2>3. At(i).data[zero] = Rehash(RandomData[zero], zero, i \div Unit(zero))
        BY <2>1, <2>2, OwnPart
    <2> QED
        BY <2>3 DEF zero, u
<1>7. b \in Nat /\ q \in Nat /\ b < PART_BASE
    <2> HIDE DEF c
    <2>1. b \in Nat /\ q \in Nat /\ c % u \in Nat /\ c = u * b + (c % u)
        BY <1>1, <1>3, Division
    <2> HIDE DEF b, q
    <2> SUFFICES ASSUME PART_BASE <= b PROVE FALSE
        BY <1>1, <2>1
    <2>2. u * (b - PART_BASE) \in Nat
        BY <1>1, <2>1
    <2>3. u * (b - PART_BASE) = u * b - PART_BASE * u
        BY <1>1, <2>1
    <2>4. u * b \in Nat
        BY <1>1, <2>1
    <2> QED
        BY <1>1, <2>1, <2>2, <2>3, <2>4
<1>8. (c + k) \div u = q + PART_BASE
    <2>1. (i + u * PART_BASE) \div u = i \div u + PART_BASE
        BY <1>1, WholeMultiples
    <2>2. c + k = i + u * PART_BASE
        BY <1>1, <1>3
    <2> QED
        BY <2>1, <2>2
<1>9. t \in Nat /\ q < t
    <2> DEFINE w == (c + k) \div u
    <2>1. t = q + PART_BASE - b
        <3>1. w = q + PART_BASE /\ t = w - b
            BY <1>8
        <3> HIDE DEF w, t, b, q
        <3> QED
            BY <1>1, <1>7, <3>1
    <2> HIDE DEF t, q, b
    <2> QED
        BY <1>1, <1>7, <2>1
<1> HIDE DEF t, q
<1>10. Len(Rehash(d, zero, t).hashes) = Len(d.hashes) + t /\ Len(d.hashes) \in Nat
    <2>1. zero \in Int
        OBVIOUS
    <2> HIDE DEF zero
    <2> QED
        BY <1>2, <1>9, <2>1, RehashFacts DEF PartValues
<1>11. Len(Rehash(RandomData[zero], zero, q).hashes) = q
    <2>1. zero \in Int /\ Len(RandomData[zero].hashes) = 0
        BY <1>1 DEF RandomData
    <2>2. Len(Rehash(RandomData[zero], zero, q).hashes) = Len(RandomData[zero].hashes) + q
        BY <1>2, <1>7, <2>1, RehashFacts
    <2> QED
        BY <1>7, <2>1, <2>2
<1> HIDE DEF zero
<1>12. Rehash(d, zero, t) # Rehash(RandomData[zero], zero, q)
    BY <1>7, <1>9, <1>10, <1>11
<1> QED
    BY <1>5, <1>6, <1>12 DEF k

-----------------------------------------------------------------------------
(* A member's session: its latest ratchet is what its first one leads to,  *)
(* by way of the indices there are to read, or else it still is the first. *)
SessionOk(s) ==
    /\ s \in InboundSessions
    /\ LET x == s.initial_ratchet
           c == x.counter
           b == s.latest_ratchet.counter
       IN  \/ s.latest_ratchet = x
           \/ b <= Half /\ c <= b /\ s.latest_ratchet = Walk(x)[b - c]
           \/ b <= Half /\ c > Half /\ s.latest_ratchet = Walk(x)[b - c + Modulus]

LEMMA SessionTypes ==
    ASSUME NEW s, SessionOk(s)
    PROVE  /\ s.initial_ratchet \in Megolms /\ s.latest_ratchet \in Megolms
           /\ s.initial_ratchet.counter \in 0 .. Modulus - 1
           /\ s.latest_ratchet.counter \in 0 .. Modulus - 1
           /\ s.signing_key_verified \in BOOLEAN
           /\ s = [initial_ratchet |-> s.initial_ratchet, latest_ratchet |-> s.latest_ratchet,
                   signing_key_verified |-> s.signing_key_verified]
BY DEF SessionOk, InboundSessions, Megolms

LEMMA FromLatestWalk ==
    ASSUME NEW s, SessionOk(s), NEW i \in 0 .. Half, FromLatest(s, i)
    PROVE  /\ MegolmAdvanceTo(s.latest_ratchet, i) =
                 Walk(s.initial_ratchet)[Gap(s.initial_ratchet.counter, i)]
           /\ s.initial_ratchet.counter <= i \/ s.initial_ratchet.counter > Half
<1> DEFINE x == s.initial_ratchet
           y == s.latest_ratchet
           c == x.counter
           b == y.counter
<1>1. /\ x \in Megolms /\ y \in Megolms /\ c \in 0 .. Modulus - 1 /\ b \in 0 .. Modulus - 1
    BY SessionTypes
<1>2. i \in 0 .. Modulus - 1 /\ i \in Nat
    BY HalfFacts
<1>3. MegolmAdvanceTo(y, i) = Walk(y)[Gap(b, i)]
    BY <1>1, <1>2, AdvanceToTarget
<1>4. Gap(b, i) < Half
    BY <1>1, <1>2, GapFacts DEF FromLatest
<1>5. \/ y = x
      \/ b <= Half /\ c <= b /\ y = Walk(x)[b - c]
      \/ b <= Half /\ c > Half /\ y = Walk(x)[b - c + Modulus]
    BY DEF SessionOk
<1>6. CASE y = x
    <2>1. c <= i \/ c > Half
        <3>1. Gap(c, i) < Half
            BY <1>4, <1>6
        <3> HIDE DEF c
        <3> QED
            BY <1>1, <1>2, <3>1, HalfFacts DEF Gap
    <2> QED
        BY <1>3, <1>6, <2>1
<1> HIDE DEF x, y
<1>7. ASSUME b <= Half PROVE b <= i /\ Gap(b, i) = i - b
    <2> HIDE DEF b
    <2> QED
        BY <1>1, <1>2, <1>4, <1>7, HalfFacts DEF Gap
<1>8. CASE b <= Half /\ c <= b /\ y = Walk(x)[b - c]
    <2>1. b <= i /\ MegolmAdvanceTo(y, i) = Walk(Walk(x)[b - c])[i - b]
        BY <1>3, <1>7, <1>8
    <2> HIDE DEF b, c
    <2>2. b - c \in Nat /\ i - b \in Nat /\ (b - c) + (i - b) = i - c /\ c <= i
        BY <1>1, <1>2, <1>8, <2>1
    <2>3. Walk(Walk(x)[b - c])[i - b] = Walk(x)[(b - c) + (i - b)]
        BY <1>1, <2>2, WalkOn
    <2>4. Gap(c, i) = i - c
        BY <2>2 DEF Gap
    <2>5. MegolmAdvanceTo(y, i) = Walk(x)[Gap(c, i)]
        BY <2>1, <2>2, <2>3, <2>4
    <2> QED
        BY <2>2, <2>5 DEF c, x, y
<1>9. CASE b <= Half /\ c > Half /\ y = Walk(x)[b - c + Modulus]
    <2>1. b <= i /\ MegolmAdvanceTo(y, i) = Walk(Walk(x)[b - c + Modulus])[i - b]
        BY <1>3, <1>7, <1>9
    <2> HIDE DEF b, c
    <2> DEFINE k == b - c + Modulus
    <2>2. k \in Nat /\ i - b \in Nat /\ k + (i - b) = i - c + Modulus
        BY <1>1, <1>2, <1>9, <2>1, HalfFacts
    <2>3. ~(c <= i)
        BY <1>1, <1>2, <1>9, HalfFacts
    <2>4. Gap(c, i) = i - c + Modulus
        BY <2>3 DEF Gap
    <2>5. MegolmAdvanceTo(y, i) = Walk(Walk(x)[k])[i - b]
        BY <2>1
    <2> HIDE DEF k
    <2>6. Walk(Walk(x)[k])[i - b] = Walk(x)[k + (i - b)]
        BY <1>1, <2>2, WalkOn
    <2>7. MegolmAdvanceTo(y, i) = Walk(x)[Gap(c, i)]
        BY <2>2, <2>4, <2>5, <2>6
    <2> QED
        BY <1>9, <2>7 DEF c, x, y
<1> QED
    BY <1>5, <1>6, <1>8, <1>9 DEF x, y

(* _get_megolm(), of whichever ratchet, leads to what the first leads to.  *)
LEMMA GetMegolmWalk ==
    ASSUME NEW s, SessionOk(s), NEW i \in 0 .. Half, ~Unknown(s, i)
    PROVE  /\ GetMegolm(s, i) = Walk(s.initial_ratchet)[Gap(s.initial_ratchet.counter, i)]
           /\ GetMegolm(s, i) \in Megolms /\ GetMegolm(s, i).counter = i
           /\ s.initial_ratchet.counter <= i \/ s.initial_ratchet.counter > Half
<1> DEFINE x == s.initial_ratchet
           c == x.counter
<1>1. x \in Megolms /\ c \in 0 .. Modulus - 1 /\ i \in 0 .. Modulus - 1 /\ i \in Nat
    BY SessionTypes, HalfFacts
<1>2. MegolmAdvanceTo(x, i) = Walk(x)[Gap(c, i)]
    BY <1>1, AdvanceToTarget
<1>3. GetMegolm(s, i) = Walk(x)[Gap(c, i)] /\ (c <= i \/ c > Half)
    <2>1. CASE FromLatest(s, i)
        BY <2>1, FromLatestWalk DEF GetMegolm
    <2>2. CASE ~FromLatest(s, i)
        <3>1. Gap(c, i) < Half
            <4>1. ~((i - c) % Modulus >= Half)
                BY <2>2 DEF Unknown
            <4>2. (i - c) % Modulus = Gap(c, i) /\ Gap(c, i) \in 0 .. Modulus - 1
                BY <1>1, GapFacts
            <4> DEFINE g == Gap(c, i)
            <4>3. ~(g >= Half) /\ g \in Int
                BY <4>1, <4>2
            <4> HIDE DEF g
            <4>4. g < Half
                BY <4>3, HalfFacts
            <4> QED
                BY <4>4 DEF g
        <3>2. GetMegolm(s, i) = MegolmAdvanceTo(x, i)
            BY <2>2 DEF GetMegolm
        <3>3. c <= i \/ c > Half
            <4> HIDE DEF c
            <4> QED
                BY <1>1, <3>1, HalfFacts DEF Gap
        <3> QED
            BY <1>2, <3>2, <3>3
    <2> QED
        BY <2>1, <2>2
<1>4. GetMegolm(s, i) \in Megolms /\ GetMegolm(s, i).counter = i
    BY <1>1, <1>2, <1>3, AdvanceToTarget
<1> QED
    BY <1>3, <1>4

LEMMA AfterGetMegolmOk ==
    ASSUME NEW s, SessionOk(s), NEW i \in 0 .. Half
    PROVE  /\ SessionOk(AfterGetMegolm(s, i))
           /\ AfterGetMegolm(s, i).initial_ratchet = s.initial_ratchet
           /\ AfterGetMegolm(s, i).signing_key_verified = s.signing_key_verified
<1>1. CASE ~FromLatest(s, i)
    BY <1>1 DEF AfterGetMegolm
<1>2. CASE FromLatest(s, i)
    <2> DEFINE x == s.initial_ratchet
               c == x.counter
               y == MegolmAdvanceTo(s.latest_ratchet, i)
               a == AfterGetMegolm(s, i)
    <2>1. a = [initial_ratchet |-> x, latest_ratchet |-> y,
               signing_key_verified |-> s.signing_key_verified]
        BY <1>2, SessionTypes DEF AfterGetMegolm
    <2>2. y = Walk(x)[Gap(c, i)] /\ (c <= i \/ c > Half)
        BY <1>2, FromLatestWalk
    <2>3. x \in Megolms /\ y \in Megolms /\ y.counter = i /\ c \in 0 .. Modulus - 1
        BY SessionTypes, AdvanceToTarget, HalfFacts
    <2>4. a \in InboundSessions
        BY <2>1, <2>3, SessionTypes DEF InboundSessions
    <2>5. a.initial_ratchet = x /\ a.latest_ratchet = y
        BY <2>1
    <2> HIDE DEF a, y, x
    <2>6. \/ i <= Half /\ c <= i /\ y = Walk(x)[i - c]
          \/ i <= Half /\ c > Half /\ y = Walk(x)[i - c + Modulus]
        <3>1. CASE c <= i
            BY <2>2, <3>1 DEF Gap
        <3>2. CASE ~(c <= i)
            BY <2>2, <3>2 DEF Gap
        <3> QED
            BY <3>1, <3>2
    <2>7. SessionOk(a)
        BY <2>3, <2>4, <2>5, <2>6 DEF SessionOk
    <2> QED
        BY <2>1, <2>7 DEF a, x
<1> QED
    BY <1>1, <1>2

(* What a session opens it got without a wrap, and so it opens the rest.   *)
LEMMA OpenedTrue ==
    ASSUME NEW s, SessionOk(s), NEW i \in 0 .. Half, ~Unknown(s, i),
           GetMegolm(s, i).data = At(i).data
    PROVE  TrueFrom(s.initial_ratchet, i)
<1> DEFINE x == s.initial_ratchet
           c == x.counter
           y == GetMegolm(s, i)
<1>1. x \in Megolms /\ c \in 0 .. Modulus - 1 /\ i \in 0 .. Modulus - 1 /\ i \in Nat
    BY SessionTypes, HalfFacts
<1>2. y = Walk(x)[Gap(c, i)] /\ y \in Megolms /\ y.counter = i
    BY GetMegolmWalk
<1>3. c <= i
    <2> SUFFICES ASSUME i < c PROVE FALSE
        BY <1>1
    <2>1. Walk(x)[Gap(c, i)].data # At(i).data
        BY <1>1, WrappedDiffers
    <2> QED
        BY <1>2, <2>1
<1>4. y = At(i)
    <2>1. At(i) \in Megolms /\ At(i).counter = i % Modulus /\ i % Modulus = i
        <3>1. i < Modulus
            BY <1>1, HalfFacts
        <3> QED
            BY <1>1, <3>1, AtFacts, SmallRemainder
    <2>2. y.data = At(i).data /\ y.counter = At(i).counter
        BY <1>2, <2>1
    <2> HIDE DEF y
    <2> QED
        BY <1>2, <2>1, <2>2 DEF Megolms
<1>5. Gap(c, i) = i - c
    BY <1>3 DEF Gap
<1> QED
    BY <1>1, <1>2, <1>3, <1>4, <1>5 DEF TrueFrom

LEMMA TrueOpens ==
    ASSUME NEW s, SessionOk(s), NEW i, TrueFrom(s.initial_ratchet, i), i < Half
    PROVE  ~Unknown(s, i) /\ GetMegolm(s, i) = At(i)
<1> DEFINE x == s.initial_ratchet
           c == x.counter
<1>1. /\ x \in Megolms /\ c \in 0 .. Modulus - 1 /\ c <= i /\ Walk(x)[i - c] = At(i)
      /\ i \in Nat /\ i \in 0 .. Half /\ i \in 0 .. Modulus - 1
    BY SessionTypes, HalfFacts DEF TrueFrom
<1>2. Gap(c, i) = i - c
    BY <1>1 DEF Gap
<1>3. ~Unknown(s, i)
    <2>1. (i - c) % Modulus = i - c
        BY <1>1, <1>2, GapFacts
    <2> DEFINE g == (i - c) % Modulus
    <2>2. ~(g >= Half)
        <3> HIDE DEF c, g
        <3>1. g = i - c
            BY <2>1 DEF g
        <3> QED
            BY <1>1, <3>1, HalfFacts
    <2> QED
        BY <2>2 DEF Unknown
<1> QED
    BY <1>1, <1>2, <1>3, GetMegolmWalk

(* What a session that is true from its first index on cannot read.        *)
LEMMA BeforeFirst ==
    ASSUME NEW s, SessionOk(s), s.initial_ratchet.counter <= Half,
           TrueFrom(s.initial_ratchet, s.initial_ratchet.counter),
           NEW i \in Nat, i < s.initial_ratchet.counter
    PROVE  /\ Unknown(s, i)
           /\ ~Derivable(s.initial_ratchet.data, At(i).data)
           /\ ~Derivable(s.latest_ratchet.data, At(i).data)
<1> DEFINE x == s.initial_ratchet
           y == s.latest_ratchet
           c == x.counter
           b == y.counter
<1>1. /\ x \in Megolms /\ c \in 0 .. Modulus - 1 /\ b \in 0 .. Modulus - 1 /\ c \in Nat
      /\ i \in 0 .. Modulus - 1
    BY SessionTypes, HalfFacts
<1>2. x = At(c)
    <2>1. Walk(x)[c - c] = At(c) /\ c - c = 0
        BY <1>1 DEF TrueFrom
    <2> HIDE DEF c, x
    <2> QED
        BY <1>1, <2>1, WalkFacts
<1>3. b <= Half /\ c <= b /\ y = At(b)
    <2>1. CASE y = x
        BY <1>1, <1>2, <2>1
    <2>2. CASE b <= Half /\ c <= b /\ y = Walk(x)[b - c]
        <3> HIDE DEF x, y, c, b
        <3>1. TrueFrom(x, c)
            BY DEF x, c
        <3>2. TrueFrom(x, b)
            BY <1>1, <2>2, <3>1, TrueLater
        <3>3. Walk(x)[b - c] = At(b)
            BY <3>2 DEF TrueFrom, c
        <3> QED
            BY <2>2, <3>3
    <2>3. ~(b <= Half /\ c > Half /\ y = Walk(x)[b - c + Modulus])
        <3> HIDE DEF y
        <3>1. c <= Half /\ c \in Nat
            BY <1>1
        <3> HIDE DEF c
        <3> QED
            BY <3>1, HalfFacts
    <2> QED
        BY <2>1, <2>2, <2>3 DEF SessionOk
<1>4. Unknown(s, i)
    <2> HIDE DEF c, b
    <2>1. i < c /\ c <= Half
        BY DEF c
    <2>2. Gap(c, i) >= Half /\ Gap(b, i) >= Half
        BY <1>1, <1>3, <2>1, HalfFacts DEF Gap
    <2>3. (i - c) % Modulus = Gap(c, i) /\ (i - b) % Modulus = Gap(b, i)
        BY <1>1, GapFacts
    <2>4. Gap(c, i) \in Int /\ Gap(b, i) \in Int
        BY <1>1, GapFacts
    <2> DEFINE g == Gap(b, i)
    <2>5. ~(g < Half)
        <3>1. g >= Half /\ g \in Int
            BY <2>2, <2>4
        <3> HIDE DEF g
        <3> QED
            BY <3>1, HalfFacts
    <2> QED
        BY <2>2, <2>3, <2>5 DEF Unknown, FromLatest, c, b
<1>5. ~Derivable(x.data, At(i).data)
    <2> HIDE DEF x, c
    <2>1. i < c
        BY DEF c, x
    <2> QED
        BY <1>1, <1>2, <2>1, ForwardSecrecy
<1>6. ~Derivable(y.data, At(i).data)
    <2> HIDE DEF y, b, x
    <2>1. i < b /\ b \in Nat
        BY <1>1, <1>3 DEF x
    <2> QED
        BY <1>3, <2>1, ForwardSecrecy
<1> QED
    BY <1>4, <1>5, <1>6

-----------------------------------------------------------------------------
(* The pickles of group sessions.                                          *)
(* v is the sequence of these items.                                       *)
Items1(T, v, a) == v \in Seq(T) /\ Len(v) = 1 /\ v[1] = a
Items2(T, v, a, b) == v \in Seq(T) /\ Len(v) = 2 /\ v[1] = a /\ v[2] = b
Items3(T, v, a, b, c) == v \in Seq(T) /\ Len(v) = 3 /\ v[1] = a /\ v[2] = b /\ v[3] = c
Items5(T, v, a, b, c, d, e) ==
    v \in Seq(T) /\ Len(v) = 5 /\ v[1] = a /\ v[2] = b /\ v[3] = c /\ v[4] = d /\ v[5] = e

LEMMA ThreeItems ==
    ASSUME NEW T, NEW x, NEW y, NEW a, NEW b, NEW c, Items1(T, x, a), Items2(T, y, b, c)
    PROVE  Items3(T, x \o y, a, b, c)
<1> DEFINE z == x \o y
<1>1. x \in Seq(T) /\ y \in Seq(T)
    BY DEF Items1, Items2
<1>2. Join(z, x, y, T)
    BY <1>1, JoinedItems
<1> HIDE DEF z
<1>3. z[1] = a /\ z[1 + 1] = b /\ z[1 + 2] = c /\ Len(z) = 1 + 2 /\ z \in Seq(T)
    BY <1>2 DEF Join, Items1, Items2
<1>4. Items3(T, z, a, b, c)
    BY <1>3 DEF Items3
<1> QED
    BY <1>4 DEF z

LEMMA FiveItems ==
    ASSUME NEW T, NEW x, NEW y, NEW a, NEW b, NEW c, NEW d, NEW e,
           Items3(T, x, a, b, c), Items2(T, y, d, e)
    PROVE  Items5(T, x \o y, a, b, c, d, e)
<1> DEFINE z == x \o y
<1>1. x \in Seq(T) /\ y \in Seq(T)
    BY DEF Items3, Items2
<1>2. Join(z, x, y, T)
    BY <1>1, JoinedItems
<1> HIDE DEF z
<1>3. z[1] = a /\ z[2] = b /\ z[3] = c /\ z[3 + 1] = d /\ z[3 + 2] = e
      /\ Len(z) = 3 + 2 /\ z \in Seq(T)
    BY <1>2 DEF Join, Items3, Items2
<1>4. Items5(T, z, a, b, c, d, e)
    BY <1>3 DEF Items5
<1> QED
    BY <1>4 DEF z

LEMMA FourItems ==
    ASSUME NEW a, NEW b, NEW c, NEW d
    PROVE  <<a>> \o <<b, c>> \o <<d>> = <<a, b, c, d>>
<1> DEFINE T == {a, b, c, d}
           p == <<a>>
           q == <<b, c>>
           w == p \o q
           x == <<d>>
           v == w \o x
           u == <<a, b, c, d>>
<1>1. Items1(T, p, a) /\ Items2(T, q, b, c) /\ Items1(T, x, d)
    BY DEF Items1, Items2
<1>2. u \in Seq(T) /\ Len(u) = 4 /\ u[1] = a /\ u[2] = b /\ u[3] = c /\ u[4] = d
    OBVIOUS
<1> HIDE DEF T, p, q, x, u
<1>3. Items3(T, w, a, b, c)
    BY <1>1, ThreeItems
<1> HIDE DEF w
<1>4. Join(v, w, x, T)
    <2>1. w \in Seq(T) /\ x \in Seq(T)
        BY <1>1, <1>3 DEF Items1, Items3
    <2> QED
        BY <2>1, JoinedItems
<1> HIDE DEF v
<1>5. v[1] = a /\ v[2] = b /\ v[3] = c /\ v[3 + 1] = d /\ Len(v) = 3 + 1 /\ v \in Seq(T)
    BY <1>1, <1>3, <1>4 DEF Join, Items1, Items3
<1>6. \A i \in 1 .. Len(v) : v[i] = u[i]
    BY <1>2, <1>5
<1>7. Len(v) = Len(u)
    BY <1>2, <1>5
<1>8. v = u
    BY <1>2, <1>5, <1>6, <1>7, SeqEqual
<1> QED
    BY <1>8 DEF v, u, w, x, p, q

LEMMA OutboundPickle ==
    ASSUME NEW r \in Megolms
    PROVE  /\ PickleOutbound(r) =
                 [items |-> <<1, r.data, r.counter, "signing_key">>, partial |-> FALSE]
           /\ UnpickleOutbound(PickleOutbound(r)) = r
           /\ UnpickleOutboundError(PickleOutbound(r)) = "OLM_SUCCESS"
<1> DEFINE p == [items |-> <<1, r.data, r.counter, "signing_key">>, partial |-> FALSE]
<1>1. PickleOutbound(r) = p
    BY FourItems DEF PickleOutbound, PickleMegolm, Whole, OUTBOUND_PICKLE_VERSION
<1>2. p.items[1] = 1 /\ p.items[2] = r.data /\ p.items[3] = r.counter /\ Len(p.items) = 4
      /\ p.partial = FALSE
    OBVIOUS
<1> HIDE DEF p
<1>3. UnpickleOutbound(p) = [data |-> r.data, counter |-> r.counter]
    BY <1>2 DEF UnpickleOutbound, MegolmAt
<1>4. UnpickleOutbound(p) = r
    BY <1>3 DEF Megolms
<1>5. UnpickleOutboundError(p) = "OLM_SUCCESS"
    BY <1>2 DEF UnpickleOutboundError, UnpickleError, After, Available, End, NULL,
                OUTBOUND_PICKLE_VERSION
<1> QED
    BY <1>1, <1>4, <1>5 DEF p

SevenJoined(a, b, c, d, e, f, g) ==
    /\ <<a>> \o <<b, c>> \o <<d, e>> \o <<f, g>> = <<a, b, c, d, e, f, g>>
    /\ <<a>> \o <<b, c>> \o <<d, e>> \o <<f>> = <<a, b, c, d, e, f>>

LEMMA SevenItems ==
    ASSUME NEW a, NEW b, NEW c, NEW d, NEW e, NEW f, NEW g
    PROVE  SevenJoined(a, b, c, d, e, f, g)
<1> DEFINE T == {a, b, c, d, e, f, g}
           r == <<a>>
           s == <<b, c>>
           w == r \o s
           x == <<d, e>>
           v == w \o x
           p == <<f, g>>
           q == <<f>>
           vp == v \o p
           vq == v \o q
           l == <<a, b, c, d, e, f, g>>
           k == <<a, b, c, d, e, f>>
<1>1. /\ Items1(T, r, a) /\ Items2(T, s, b, c) /\ Items2(T, x, d, e) /\ Items2(T, p, f, g)
      /\ Items1(T, q, f)
    BY DEF Items1, Items2
<1>2. l \in Seq(T) /\ Len(l) = 7
    OBVIOUS
<1>3. l[1] = a /\ l[2] = b /\ l[3] = c /\ l[4] = d /\ l[5] = e /\ l[6] = f /\ l[7] = g
    OBVIOUS
<1>4. k \in Seq(T) /\ Len(k) = 6
    OBVIOUS
<1>5. k[1] = a /\ k[2] = b /\ k[3] = c /\ k[4] = d /\ k[5] = e /\ k[6] = f
    OBVIOUS
<1> HIDE DEF r, s, x, p, q, l, k, T
<1>6. Items5(T, v, a, b, c, d, e)
    <2>1. Items3(T, w, a, b, c)
        BY <1>1, ThreeItems
    <2> HIDE DEF w
    <2> QED
        BY <1>1, <2>1, FiveItems
<1> HIDE DEF v
<1>7. v \in Seq(T) /\ p \in Seq(T) /\ q \in Seq(T)
    BY <1>1, <1>6 DEF Items1, Items2, Items5
<1>8. vp = l
    <2>1. Join(vp, v, p, T)
        BY <1>7, JoinedItems
    <2> HIDE DEF vp
    <2>2. vp[1] = a /\ vp[2] = b /\ vp[3] = c /\ vp[4] = d /\ vp[5] = e /\ vp \in Seq(T)
        BY <1>6, <2>1 DEF Join, Items5
    <2>3. vp[5 + 1] = f /\ vp[5 + 2] = g /\ Len(vp) = 5 + 2
        BY <1>1, <1>6, <2>1 DEF Join, Items2, Items5
    <2>4. \A i \in 1 .. Len(vp) : vp[i] = l[i]
        BY <1>3, <2>2, <2>3
    <2>5. Len(vp) = Len(l)
        BY <1>2, <2>3
    <2> QED
        BY <1>2, <2>2, <2>4, <2>5, SeqEqual
<1>9. vq = k
    <2>1. Join(vq, v, q, T)
        BY <1>7, JoinedItems
    <2> HIDE DEF vq
    <2>2. vq[1] = a /\ vq[2] = b /\ vq[3] = c /\ vq[4] = d /\ vq[5] = e /\ vq \in Seq(T)
        BY <1>6, <2>1 DEF Join, Items5
    <2>3. vq[5 + 1] = f /\ Len(vq) = 5 + 1
        BY <1>1, <1>6, <2>1 DEF Join, Items1, Items5
    <2>4. \A i \in 1 .. Len(vq) : vq[i] = k[i]
        BY <1>5, <2>2, <2>3
    <2>5. Len(vq) = Len(k)
        BY <1>4, <2>3
    <2> QED
        BY <1>4, <2>2, <2>4, <2>5, SeqEqual
<1> QED
    BY <1>8, <1>9 DEF SevenJoined, vp, vq, v, w, x, p, q, l, k, r, s

LEMMA InboundPickle ==
    ASSUME NEW s \in InboundSessions
    PROVE  LET x == s.initial_ratchet
               y == s.latest_ratchet
           IN  /\ PickleInbound(s) =
                     [items |-> <<2, x.data, x.counter, y.data, y.counter, "signing_key",
                                  s.signing_key_verified>>,
                      partial |-> FALSE]
               /\ PickleInboundV1(s) =
                     [items |-> <<1, x.data, x.counter, y.data, y.counter, "signing_key">>,
                      partial |-> FALSE]
               /\ UnpickleInbound(PickleInbound(s)) = s
               /\ UnpickleInbound(PickleInboundV1(s)) = [s EXCEPT !.signing_key_verified = TRUE]
               /\ UnpickleInboundError(PickleInbound(s)) = "OLM_SUCCESS"
               /\ UnpickleInboundError(PickleInboundV1(s)) = "OLM_SUCCESS"
<1> DEFINE x == s.initial_ratchet
           y == s.latest_ratchet
           v == s.signing_key_verified
           p == [items |-> <<2, x.data, x.counter, y.data, y.counter, "signing_key", v>>,
                 partial |-> FALSE]
           q == [items |-> <<1, x.data, x.counter, y.data, y.counter, "signing_key">>,
                 partial |-> FALSE]
<1>1. PickleInbound(s) = p
    <2>1. PickleInbound(s) =
             Whole(<<2>> \o <<x.data, x.counter>> \o <<y.data, y.counter>> \o <<"signing_key", v>>)
        BY DEF PickleInbound, PickleMegolm, INBOUND_PICKLE_VERSION
    <2> DEFINE two == 2
               key == "signing_key"
               dx == x.data
               cx == x.counter
               dy == y.data
               cy == y.counter
    <2>2. <<two>> \o <<dx, cx>> \o <<dy, cy>> \o <<key, v>> = <<two, dx, cx, dy, cy, key, v>>
        <3> HIDE DEF two, key, dx, cx, dy, cy, v
        <3>1. SevenJoined(two, dx, cx, dy, cy, key, v)
            BY SevenItems
        <3> QED
            BY <3>1 DEF SevenJoined
    <2> HIDE DEF x, y, v
    <2> QED
        BY <2>1, <2>2 DEF Whole
<1>2. PickleInboundV1(s) = q
    <2>1. PickleInboundV1(s) =
             Whole(<<1>> \o <<x.data, x.counter>> \o <<y.data, y.counter>> \o <<"signing_key">>)
        BY DEF PickleInboundV1, PickleMegolm
    <2> DEFINE one == 1
               key == "signing_key"
               dx == x.data
               cx == x.counter
               dy == y.data
               cy == y.counter
    <2>2. <<one>> \o <<dx, cx>> \o <<dy, cy>> \o <<key>> = <<one, dx, cx, dy, cy, key>>
        <3> HIDE DEF one, key, dx, cx, dy, cy
        <3>1. SevenJoined(one, dx, cx, dy, cy, key, key)
            BY SevenItems
        <3> QED
            BY <3>1 DEF SevenJoined
    <2> HIDE DEF x, y
    <2> QED
        BY <2>1, <2>2 DEF Whole
<1>3. /\ p.items[1] = 2 /\ p.items[2] = x.data /\ p.items[3] = x.counter
      /\ p.items[4] = y.data /\ p.items[5] = y.counter /\ p.items[7] = v
      /\ Len(p.items) = 7 /\ p.partial = FALSE
    OBVIOUS
<1>4. /\ q.items[1] = 1 /\ q.items[2] = x.data /\ q.items[3] = x.counter
      /\ q.items[4] = y.data /\ q.items[5] = y.counter
      /\ Len(q.items) = 6 /\ q.partial = FALSE
    OBVIOUS
<1> HIDE DEF p, q
<1>5. x = [data |-> x.data, counter |-> x.counter] /\ y = [data |-> y.data, counter |-> y.counter]
    BY DEF InboundSessions, Megolms
<1>6. s = [initial_ratchet |-> x, latest_ratchet |-> y, signing_key_verified |-> v]
    BY DEF InboundSessions
<1>7. MegolmAt(p, 2) = x /\ MegolmAt(p, 4) = y /\ MegolmAt(q, 2) = x /\ MegolmAt(q, 4) = y
    <2>1. \A r, i : MegolmAt(r, i) = [data |-> r.items[i], counter |-> r.items[i + 1]]
        BY DEF MegolmAt
    <2>2. 2 + 1 = 3 /\ 4 + 1 = 5
        OBVIOUS
    <2> HIDE DEF x, y
    <2> QED
        BY <1>3, <1>4, <1>5, <2>1, <2>2
<1> HIDE DEF x, y, v
<1>8. UnpickleInbound(p) = s
    BY <1>3, <1>6, <1>7 DEF UnpickleInbound
<1>9. UnpickleInbound(q) = [s EXCEPT !.signing_key_verified = TRUE]
    <2>1. UnpickleInbound(q) =
             [initial_ratchet |-> x, latest_ratchet |-> y, signing_key_verified |-> TRUE]
        BY <1>4, <1>7 DEF UnpickleInbound
    <2>2. [s EXCEPT !.signing_key_verified = TRUE] =
             [initial_ratchet |-> x, latest_ratchet |-> y, signing_key_verified |-> TRUE]
        <3>1. ASSUME NEW t
              PROVE  [s EXCEPT !.signing_key_verified = t] =
                        [initial_ratchet |-> x, latest_ratchet |-> y, signing_key_verified |-> t]
            BY <1>6
        <3> QED
            BY <3>1
    <2> QED
        BY <2>1, <2>2
<1>10. UnpickleInboundError(p) = "OLM_SUCCESS"
    BY <1>3 DEF UnpickleInboundError, UnpickleError, After, Available, End, NULL,
                INBOUND_PICKLE_VERSION
<1>11. UnpickleInboundError(q) = "OLM_SUCCESS"
    BY <1>4 DEF UnpickleInboundError, UnpickleError, After, Available, End, NULL,
                INBOUND_PICKLE_VERSION
<1> QED
    BY <1>1, <1>2, <1>8, <1>9, <1>10, <1>11 DEF p, q, x, y, v

LEMMA OtherVersion ==
    ASSUME NEW T, NEW items \in Seq(T), Len(items) > 0, NEW version \in T
    PROVE  /\ Len([Whole(items) EXCEPT !.items[1] = version].items) = Len(items)
           /\ [Whole(items) EXCEPT !.items[1] = version].items[1] = version
<1> DEFINE new == [items EXCEPT ![1] = version]
<1>1. Len(new) = Len(items) /\ new[1] = version
    <2>1. 1 \in 1 .. Len(items)
        BY LenProperties
    <2> QED
        BY <2>1, ExceptSeq
<1>2. ASSUME NEW partial
      PROVE  [[items |-> items, partial |-> partial] EXCEPT !.items[1] = version].items = new
    OBVIOUS
<1>3. [Whole(items) EXCEPT !.items[1] = version]
         = [[items |-> items, partial |-> FALSE] EXCEPT !.items[1] = version]
    BY DEF Whole
<1> HIDE DEF new
<1>4. [Whole(items) EXCEPT !.items[1] = version].items = new
    BY <1>2, <1>3
<1> QED
    BY <1>1, <1>4

LEMMA OutboundRefused ==
    ASSUME NEW p, Len(p.items) \in Nat, Len(p.items) # 4
    PROVE  UnpickleOutboundError(p) # "OLM_SUCCESS"
<1> DEFINE n == Len(p.items)
           one == 1
           four == 4
<1>1. /\ one \in Nat \ {0} /\ four \in Nat /\ one = 1 /\ four = 4
      /\ n \in Nat /\ Len(p.items) = n /\ n # 4
    OBVIOUS
<1> HIDE DEF n, one, four
<1>2. /\ End(p) = n + 1
      /\ one + four <= n + 1 => After(p, one, four) = one + four
      /\ ~(one + four <= n + 1) => After(p, one, four) = NULL
    BY <1>1, AfterAt
<1>3. After(p, one, four) = NULL \/ After(p, one, four) # End(p)
    BY <1>1, <1>2
<1>4. UnpickleError(p, After(p, one, four)) # "OLM_SUCCESS"
    BY <1>3, ErrorAt
<1>5. "OLM_UNKNOWN_PICKLE_VERSION" # "OLM_SUCCESS"
    OBVIOUS
<1> QED
    BY <1>1, <1>4, <1>5, Zenon DEF UnpickleOutboundError

LEMMA InboundRefused ==
    ASSUME NEW p, Len(p.items) \in Nat, Len(p.items) # 7, Len(p.items) > 0 => p.items[1] = 2
    PROVE  UnpickleInboundError(p) # "OLM_SUCCESS"
<1> DEFINE n == Len(p.items)
           one == 1
           six == 6
           seven == 7
           key == After(p, one, six)
           pos == IF key # NULL /\ p.items[1] > 1 THEN After(p, key, 1) ELSE key
<1>1. /\ one \in Nat \ {0} /\ six \in Nat /\ one = 1 /\ six = 6
      /\ seven \in Nat \ {0} /\ seven = 7
      /\ n \in Nat /\ Len(p.items) = n /\ n # 7 /\ (n > 0 => p.items[1] = 2)
    OBVIOUS
<1> HIDE DEF n, one, six, seven
<1>2. /\ End(p) = n + 1
      /\ one + six <= n + 1 => key = one + six
      /\ ~(one + six <= n + 1) => key = NULL
    BY <1>1, AfterAt
<1> HIDE DEF key, pos
<1>3. /\ seven + one <= n + 1 => After(p, seven, one) = seven + one
      /\ ~(seven + one <= n + 1) => After(p, seven, one) = NULL
    <2>1. /\ one \in Nat /\ seven \in Nat \ {0} /\ n \in Nat
          /\ Len(p.items) \in Nat /\ Len(p.items) = n
        BY <1>1
    <2> QED
        BY <2>1, AfterAt
<1>4. ASSUME n < 6 PROVE pos = NULL \/ pos # End(p)
    <2>1. key = NULL
        BY <1>1, <1>2, <1>4
    <2> QED
        BY <2>1 DEF pos
<1>5. ASSUME 6 <= n PROVE pos = NULL \/ pos # End(p)
    <2>1. key = seven /\ key # NULL /\ p.items[1] > 1
        BY <1>1, <1>2, <1>5 DEF NULL
    <2>2. pos = After(p, seven, one)
        BY <1>1, <2>1 DEF pos
    <2>3. pos = NULL \/ pos # End(p)
        BY <1>1, <1>2, <1>3, <2>2
    <2> QED
        BY <2>3
<1>6. pos = NULL \/ pos # End(p)
    BY <1>1, <1>4, <1>5
<1>7. UnpickleError(p, pos) # "OLM_SUCCESS"
    BY <1>6, ErrorAt
<1>8. "OLM_UNKNOWN_PICKLE_VERSION" # "OLM_SUCCESS"
    OBVIOUS
<1> QED
    BY <1>1, <1>7, <1>8, Zenon DEF UnpickleInboundError, pos, key

LEMMA InboundVersionRefused ==
    ASSUME NEW p, Len(p.items) \in Nat, Len(p.items) > 0, p.items[1] \in {0, 3}
    PROVE  UnpickleInboundError(p) = "OLM_UNKNOWN_PICKLE_VERSION"
<1>1. Available(p, 1, 1)
    BY DEF Available, End, NULL
<1>2. p.items[1] \notin 1 .. INBOUND_PICKLE_VERSION
    BY DEF INBOUND_PICKLE_VERSION
<1> QED
    BY <1>1, <1>2 DEF UnpickleInboundError

LEMMA OutboundPickledWhole ==
    ASSUME NEW r \in Megolms
    PROVE  /\ \A cut \in Cuts(PickleOutbound(r)) : UnpickleOutboundError(cut) # "OLM_SUCCESS"
           /\ UnpickleOutboundError(Extended(PickleOutbound(r), 0)) # "OLM_SUCCESS"
<1> DEFINE items == <<1, r.data, r.counter, "signing_key">>
           zero == 0
           T == {1, r.data, r.counter, "signing_key", zero}
           whole == Whole(items)
<1>1. PickleOutbound(r) = whole
    BY OutboundPickle DEF Whole
<1>2. items \in Seq(T) /\ Len(items) = 4 /\ zero \in T
    OBVIOUS
<1> HIDE DEF items, T, zero
<1>3. whole.items = items
    BY DEF Whole
<1>4. Len(Extended(whole, zero).items) = 5
    <2>1. Len(Extended(whole, zero).items) = Len(items) + 1
        BY <1>2, ExtendedFacts
    <2> QED
        BY <1>2, <2>1
<1> HIDE DEF whole
<1>5. ASSUME NEW cut \in Cuts(whole) PROVE UnpickleOutboundError(cut) # "OLM_SUCCESS"
    <2>1. whole.items \in Seq(T)
        BY <1>2, <1>3
    <2>2. Len(cut.items) \in Nat /\ Len(cut.items) < Len(whole.items)
        BY <2>1, CutFacts
    <2>3. Len(cut.items) # 4
        BY <1>2, <1>3, <2>2
    <2> QED
        BY <2>2, <2>3, OutboundRefused
<1>6. UnpickleOutboundError(Extended(whole, zero)) # "OLM_SUCCESS"
    <2>1. /\ Len(Extended(whole, zero).items) \in Nat
          /\ Len(Extended(whole, zero).items) # 4
        BY <1>4
    <2> QED
        BY <2>1, OutboundRefused
<1> QED
    BY <1>1, <1>5, <1>6 DEF zero

LEMMA InboundPickledWhole ==
    ASSUME NEW s \in InboundSessions
    PROVE  /\ \A cut \in Cuts(PickleInbound(s)) : UnpickleInboundError(cut) # "OLM_SUCCESS"
           /\ UnpickleInboundError(Extended(PickleInbound(s), 0)) # "OLM_SUCCESS"
           /\ \A version \in {0, 3} :
                 UnpickleInboundError([PickleInbound(s) EXCEPT !.items[1] = version])
                     = "OLM_UNKNOWN_PICKLE_VERSION"
<1> DEFINE x == s.initial_ratchet
           y == s.latest_ratchet
           zero == 0
           items == <<2, x.data, x.counter, y.data, y.counter, "signing_key",
                      s.signing_key_verified>>
           T == {2, x.data, x.counter, y.data, y.counter, "signing_key",
                 s.signing_key_verified, zero, 3}
           whole == Whole(items)
<1>1. PickleInbound(s) = whole
    BY InboundPickle DEF Whole
<1>2. items \in Seq(T) /\ Len(items) = 7 /\ items[1] = 2
    OBVIOUS
<1>3. zero \in T /\ 0 \in T /\ 3 \in T
    OBVIOUS
<1> HIDE DEF items, T, zero
<1>4. whole.items = items
    BY DEF Whole
<1>5. Len(Extended(whole, zero).items) = 8 /\ Extended(whole, zero).items[1] = 2
    <2>1. /\ Len(Extended(whole, zero).items) = Len(items) + 1
          /\ \A i \in 1 .. Len(items) : Extended(whole, zero).items[i] = items[i]
        BY <1>2, <1>3, ExtendedFacts
    <2> QED
        BY <1>2, <2>1
<1>6. ASSUME NEW version \in {0, 3}
      PROVE  UnpickleInboundError([whole EXCEPT !.items[1] = version]) = "OLM_UNKNOWN_PICKLE_VERSION"
    <2>1. version \in T
        BY <1>3
    <2>2. Len(items) > 0
        BY <1>2
    <2> DEFINE other == [whole EXCEPT !.items[1] = version]
    <2>3. Len(other.items) = Len(items) /\ other.items[1] = version
        BY <1>2, <2>1, <2>2, OtherVersion
    <2> HIDE DEF other
    <2>4. Len(other.items) \in Nat /\ Len(other.items) > 0 /\ other.items[1] \in {0, 3}
        BY <1>2, <2>3
    <2>5. UnpickleInboundError(other) = "OLM_UNKNOWN_PICKLE_VERSION"
        BY <2>4, InboundVersionRefused
    <2> QED
        BY <2>5 DEF other
<1> HIDE DEF whole
<1>7. ASSUME NEW cut \in Cuts(whole) PROVE UnpickleInboundError(cut) # "OLM_SUCCESS"
    <2>1. whole.items \in Seq(T)
        BY <1>2, <1>4
    <2>2. /\ Len(cut.items) \in Nat /\ Len(cut.items) < Len(whole.items)
          /\ \A i \in 1 .. Len(cut.items) : cut.items[i] = whole.items[i]
        BY <2>1, CutFacts
    <2>3. Len(cut.items) # 7 /\ (Len(cut.items) > 0 => cut.items[1] = 2)
        BY <1>2, <1>4, <2>2
    <2> QED
        BY <2>2, <2>3, InboundRefused
<1>8. UnpickleInboundError(Extended(whole, zero)) # "OLM_SUCCESS"
    <2> DEFINE longer == Extended(whole, zero)
    <2>1. Len(longer.items) \in Nat /\ Len(longer.items) # 7 /\ longer.items[1] = 2
        BY <1>5
    <2> HIDE DEF longer
    <2>2. UnpickleInboundError(longer) # "OLM_SUCCESS"
        BY <2>1, InboundRefused
    <2> QED
        BY <2>2 DEF longer
<1> QED
    BY <1>1, <1>6, <1>7, <1>8 DEF zero

-----------------------------------------------------------------------------
(* The inductive invariant of a group and its members.                     *)

(* The sender: encrypted is the index it has reached, saved the one of its *)
(* last pickle.  A message that has left has an index before the saved     *)
(* one, one that has not yet left an index between the two.                *)
MessageOk(msg, from, to) ==
    /\ msg.index \in Nat /\ from <= msg.index /\ msg.index < to
    /\ msg.key = At(msg.index).data

OutboundAt(encrypted, saved) ==
    /\ encrypted \in Nat /\ saved \in Nat /\ saved <= encrypted
    /\ plaintexts \in 0 .. MaxSends /\ encrypted <= plaintexts
    /\ outbound = At(encrypted)
    /\ stored_outbound = PickleOutbound(At(saved))
    /\ \A msg \in sent : MessageOk(msg, 0, saved)
    /\ \A msg \in unsaved : MessageOk(msg, saved, encrypted)

OneMessageEach == \A a, b \in sent \cup unsaved : a.index = b.index => a = b

FewMessages ==
    /\ IsFiniteSet(sent) /\ IsFiniteSet(unsaved)
    /\ Cardinality(sent) + Cardinality(unsaved) <= plaintexts

OutboundInv ==
    /\ \E encrypted, saved \in Nat : OutboundAt(encrypted, saved)
    /\ OneMessageEach
    /\ FewMessages

(* What was handed out: a session key is a value of the sender's ratchet,  *)
(* an export of a genuine session too.                                     *)
SharedInv ==
    /\ \A key \in session_keys :
          key \in Megolms /\ key.counter <= MaxSends /\ key = At(key.counter)
    /\ \A export \in exports :
          /\ export.ratchet \in Megolms /\ export.genuine \in BOOLEAN
          /\ export.genuine => /\ export.ratchet.counter <= Half
                               /\ export.ratchet = At(export.ratchet.counter)

(* A member whose first ratchet is first: a genuine one is a value of the  *)
(* sender's ratchet, and any one leads to the sender's values from the     *)
(* first index on of which it decrypted a message.                         *)
Reads(first, is_genuine, indices) ==
    /\ is_genuine => first.counter <= Half /\ TrueFrom(first, first.counter)
    /\ \A i \in indices : TrueFrom(first, i)

Evidence(s, indices) == s.signing_key_verified => indices # {}

(* A pickle of it has the same first ratchet.                              *)
SavedOk(saved, first, indices) ==
    saved = <<>> \/ \E s : /\ saved = <<PickleInbound(s)>> /\ SessionOk(s)
                           /\ s.initial_ratchet = first /\ Evidence(s, indices)

MemberOk(s, is_genuine, indices, saved) ==
    /\ s = NoSession => indices = {} /\ saved = <<>>
    /\ s # NoSession => /\ SessionOk(s) /\ Evidence(s, indices)
                        /\ Reads(s.initial_ratchet, is_genuine, indices)
                        /\ SavedOk(saved, s.initial_ratchet, indices)

Stores == {<<>>} \cup {<<PickleInbound(s)>> : s \in InboundSessions}

MembersTypeOK ==
    /\ inbound \in [Members -> InboundSessions \cup {NoSession}]
    /\ genuine \in [Members -> BOOLEAN]
    /\ opened \in [Members -> SUBSET Nat]
    /\ stored_inbound \in [Members -> Stores]

MembersInv ==
    /\ MembersTypeOK
    /\ \A m \in Members : MemberOk(inbound[m], genuine[m], opened[m], stored_inbound[m])

GroupInv == OutboundInv /\ SharedInv /\ MembersInv

-----------------------------------------------------------------------------
(* The sender's steps.                                                     *)
LEMMA SmallIndex ==
    ASSUME NEW n \in Nat, n <= Half
    PROVE  At(n) \in Megolms /\ At(n).counter = n /\ TrueFrom(At(n), n)
<1>1. At(n) \in Megolms /\ At(n).counter = n % Modulus
    BY AtFacts
<1>2. n % Modulus = n
    BY HalfFacts, SmallRemainder
<1>3. n - n = 0 /\ Walk(At(n))[0] = At(n)
    BY <1>1, WalkFacts
<1> QED
    BY <1>1, <1>2, <1>3 DEF TrueFrom

LEMMA OutboundFacts ==
    ASSUME NEW encrypted, NEW saved, OutboundAt(encrypted, saved)
    PROVE  /\ encrypted \in Nat /\ saved \in Nat /\ encrypted <= MaxSends /\ MaxSends <= Half
           /\ outbound \in Megolms /\ outbound.counter = encrypted /\ outbound = At(encrypted)
           /\ outbound.data = At(encrypted).data
           /\ MegolmAdvance(outbound) = At(encrypted + 1)
           /\ UnpickleOutbound(stored_outbound) = At(saved)
<1>1. /\ encrypted \in Nat /\ saved \in Nat /\ outbound = At(encrypted)
      /\ stored_outbound = PickleOutbound(At(saved))
    BY DEF OutboundAt
<1>2. MaxSends <= Half /\ encrypted <= MaxSends /\ encrypted <= Half
    <2>1. plaintexts \in 0 .. MaxSends /\ encrypted <= plaintexts
        BY DEF OutboundAt
    <2> QED
        BY <1>1, <2>1, HalfFacts
<1>3. outbound \in Megolms /\ outbound.counter = encrypted /\ MegolmAdvance(outbound) = At(encrypted + 1)
    BY <1>1, <1>2, SmallIndex, AtFacts
<1>4. At(saved) \in Megolms
    BY <1>1, AtFacts
<1> QED
    BY <1>1, <1>2, <1>3, <1>4, OutboundPickle

LEMMA SentFacts ==
    ASSUME OutboundInv, NEW msg \in sent
    PROVE  /\ msg.index \in Nat /\ msg.index < Half /\ msg.index \in 0 .. Half
           /\ msg.key = At(msg.index).data
<1>1. PICK encrypted \in Nat, saved \in Nat : OutboundAt(encrypted, saved)
    BY DEF OutboundInv
<1>2. encrypted <= MaxSends /\ MaxSends <= Half /\ MaxSends \in Nat /\ Half \in Nat
    BY <1>1, OutboundFacts, HalfFacts
<1>3. saved <= encrypted /\ MessageOk(msg, 0, saved)
    BY <1>1 DEF OutboundAt
<1> QED
    BY <1>2, <1>3 DEF MessageOk

LEMMA FewSent == OutboundInv => Cardinality(sent) \in Nat /\ Cardinality(sent) <= MaxSends
<1> SUFFICES ASSUME OutboundInv PROVE Cardinality(sent) \in Nat /\ Cardinality(sent) <= MaxSends
    OBVIOUS
<1>1. Cardinality(sent) \in Nat /\ Cardinality(unsaved) \in Nat
    BY FS_CardinalityType DEF OutboundInv, FewMessages
<1>2. plaintexts \in 0 .. MaxSends /\ MaxSends \in Nat
    BY HalfFacts DEF OutboundInv, OutboundAt
<1> QED
    BY <1>1, <1>2 DEF OutboundInv, FewMessages

LEMMA EncryptOk == OutboundInv /\ EncryptUnsaved => OutboundInv'
<1> SUFFICES ASSUME OutboundInv, EncryptUnsaved PROVE OutboundInv'
    OBVIOUS
<1>1. PICK encrypted \in Nat, saved \in Nat : OutboundAt(encrypted, saved)
    BY DEF OutboundInv
<1> DEFINE new == NextMessage
<1>2. /\ plaintexts < MaxSends /\ unsaved' = unsaved \cup {new} /\ plaintexts' = plaintexts + 1
      /\ outbound' = MegolmAdvance(outbound) /\ sent' = sent /\ stored_outbound' = stored_outbound
    BY DEF EncryptUnsaved
<1>3. /\ saved <= encrypted /\ plaintexts \in 0 .. MaxSends /\ encrypted <= plaintexts
      /\ stored_outbound = PickleOutbound(At(saved)) /\ MaxSends \in Nat
      /\ \A msg \in sent : MessageOk(msg, 0, saved)
      /\ \A msg \in unsaved : MessageOk(msg, saved, encrypted)
    BY <1>1, HalfFacts DEF OutboundAt
<1>4. /\ new.index = encrypted /\ new.key = At(encrypted).data
      /\ MegolmAdvance(outbound) = At(encrypted + 1)
    BY <1>1, OutboundFacts DEF NextMessage
<1> HIDE DEF new
<1> DEFINE next == encrypted + 1
<1>5. next \in Nat /\ encrypted < next /\ saved <= next /\ next <= plaintexts' /\ plaintexts' \in 0 .. MaxSends
    BY <1>2, <1>3
<1>6. \A msg \in unsaved' : MessageOk(msg, saved, next)
    <2>1. MessageOk(new, saved, next)
        BY <1>3, <1>4, <1>5 DEF MessageOk
    <2>2. ASSUME NEW msg \in unsaved PROVE MessageOk(msg, saved, next)
        BY <1>3, <1>5 DEF MessageOk
    <2> QED
        BY <1>2, <2>1, <2>2
<1>7. OutboundAt(next, saved)'
    BY <1>1, <1>2, <1>3, <1>4, <1>5, <1>6 DEF OutboundAt
<1>8. OneMessageEach'
    <2>1. \A msg \in sent \cup unsaved : msg.index # encrypted
        BY <1>3 DEF MessageOk
    <2> QED
        BY <1>2, <1>4, <2>1 DEF OutboundInv, OneMessageEach
<1>9. FewMessages'
    <2>1. /\ IsFiniteSet(unsaved') /\ Cardinality(unsaved') <= Cardinality(unsaved) + 1
          /\ Cardinality(unsaved') \in Nat
        <3>1. IsFiniteSet(unsaved)
            BY DEF OutboundInv, FewMessages
        <3>2. Cardinality(unsaved) \in Nat
            BY <3>1, FS_CardinalityType
        <3>3. /\ IsFiniteSet(unsaved \cup {new})
              /\ Cardinality(unsaved \cup {new}) =
                    IF new \in unsaved THEN Cardinality(unsaved) ELSE Cardinality(unsaved) + 1
            BY <3>1, FS_AddElement
        <3> QED
            BY <1>2, <3>2, <3>3
    <2>2. Cardinality(sent) \in Nat /\ Cardinality(unsaved) \in Nat
        BY FS_CardinalityType DEF OutboundInv, FewMessages
    <2> QED
        BY <1>2, <1>3, <2>1, <2>2 DEF OutboundInv, FewMessages
<1> QED
    BY <1>5, <1>7, <1>8, <1>9 DEF OutboundInv

LEMMA SaveOk == OutboundInv /\ SaveOutbound => OutboundInv'
<1> SUFFICES ASSUME OutboundInv, SaveOutbound PROVE OutboundInv'
    OBVIOUS
<1>1. PICK encrypted \in Nat, saved \in Nat : OutboundAt(encrypted, saved)
    BY DEF OutboundInv
<1>2. /\ stored_outbound' = PickleOutbound(outbound) /\ sent' = sent \cup unsaved
      /\ unsaved' = {} /\ plaintexts' = plaintexts /\ outbound' = outbound
    BY DEF SaveOutbound
<1>3. OutboundAt(encrypted, encrypted)'
    <2>1. \A msg \in sent' : MessageOk(msg, 0, encrypted)
        <3>1. ASSUME NEW msg \in sent PROVE MessageOk(msg, 0, encrypted)
            BY <1>1 DEF OutboundAt, MessageOk
        <3>2. ASSUME NEW msg \in unsaved PROVE MessageOk(msg, 0, encrypted)
            BY <1>1 DEF OutboundAt, MessageOk
        <3> QED
            BY <1>2, <3>1, <3>2
    <2> QED
        BY <1>1, <1>2, <2>1 DEF OutboundAt
<1>4. OneMessageEach'
    BY <1>2 DEF OutboundInv, OneMessageEach
<1>5. FewMessages'
    <2>1. IsFiniteSet(sent) /\ IsFiniteSet(unsaved)
        BY DEF OutboundInv, FewMessages
    <2>2. /\ Cardinality(sent) \in Nat /\ Cardinality(unsaved) \in Nat
          /\ Cardinality(sent \cap unsaved) \in Nat
        BY <2>1, FS_CardinalityType, FS_Intersection
    <2>3. /\ IsFiniteSet(sent \cup unsaved)
          /\ Cardinality(sent \cup unsaved) =
                Cardinality(sent) + Cardinality(unsaved) - Cardinality(sent \cap unsaved)
        BY <2>1, FS_Union
    <2>4. Cardinality({}) = 0 /\ IsFiniteSet({})
        BY FS_EmptySet
    <2>5. plaintexts \in Nat
        BY <1>1, HalfFacts DEF OutboundAt
    <2> QED
        BY <1>2, <2>2, <2>3, <2>4, <2>5 DEF OutboundInv, FewMessages
<1> QED
    BY <1>3, <1>4, <1>5 DEF OutboundInv

LEMMA RestartSenderOk == OutboundInv /\ RestartOutbound => OutboundInv'
<1> SUFFICES ASSUME OutboundInv, RestartOutbound PROVE OutboundInv'
    OBVIOUS
<1>1. PICK encrypted \in Nat, saved \in Nat : OutboundAt(encrypted, saved)
    BY DEF OutboundInv
<1>2. /\ outbound' = UnpickleOutbound(stored_outbound) /\ unsaved' = {} /\ sent' = sent
      /\ plaintexts' = plaintexts /\ stored_outbound' = stored_outbound
    BY DEF RestartOutbound
<1>3. outbound' = At(saved)
    BY <1>1, <1>2, OutboundFacts
<1>4. OutboundAt(saved, saved)'
    <2>1. saved <= plaintexts /\ plaintexts \in 0 .. MaxSends /\ MaxSends \in Nat
        BY <1>1, HalfFacts DEF OutboundAt
    <2> QED
        BY <1>1, <1>2, <1>3, <2>1 DEF OutboundAt
<1>5. OneMessageEach'
    BY <1>2 DEF OutboundInv, OneMessageEach
<1>6. FewMessages'
    <2>1. Cardinality(sent) \in Nat /\ Cardinality(unsaved) \in Nat
        BY FS_CardinalityType DEF OutboundInv, FewMessages
    <2>2. Cardinality({}) = 0 /\ IsFiniteSet({})
        BY FS_EmptySet
    <2>3. plaintexts \in Nat
        BY <1>1, HalfFacts DEF OutboundAt
    <2> QED
        BY <1>2, <2>1, <2>2, <2>3 DEF OutboundInv, FewMessages
<1> QED
    BY <1>4, <1>5, <1>6 DEF OutboundInv

-----------------------------------------------------------------------------
(* The members' steps.                                                     *)
LEMMA OneMember ==
    ASSUME MembersInv, NEW m \in Members, MembersTypeOK',
           \A n \in Members \ {m} : /\ inbound'[n] = inbound[n] /\ genuine'[n] = genuine[n]
                                    /\ opened'[n] = opened[n]
                                    /\ stored_inbound'[n] = stored_inbound[n],
           MemberOk(inbound'[m], genuine'[m], opened'[m], stored_inbound'[m])
    PROVE  MembersInv'
<1>1. ASSUME NEW n \in Members
      PROVE  MemberOk(inbound'[n], genuine'[n], opened'[n], stored_inbound'[n])
    <2>1. CASE n = m
        BY <2>1
    <2>2. CASE n # m
        <3>1. MemberOk(inbound[n], genuine[n], opened[n], stored_inbound[n])
            BY DEF MembersInv
        <3> QED
            BY <2>2, <3>1
    <2> QED
        BY <2>1, <2>2
<1> QED
    BY <1>1 DEF MembersInv

LEMMA NoSessionFacts == \A s : SessionOk(s) => s # NoSession /\ s \in InboundSessions
BY NoSessionAssumption DEF SessionOk

LEMMA FreshSession ==
    ASSUME NEW first \in Megolms, NEW verified \in BOOLEAN
    PROVE  LET s == InboundFrom(first, verified) IN
           /\ SessionOk(s) /\ s # NoSession /\ s \in InboundSessions
           /\ s.initial_ratchet = first /\ s.signing_key_verified = verified
<1>1. /\ InboundFrom(first, verified) \in InboundSessions
      /\ InboundFrom(first, verified).initial_ratchet = first
      /\ InboundFrom(first, verified).latest_ratchet = first
      /\ InboundFrom(first, verified).signing_key_verified = verified
    BY DEF InboundFrom, InboundSessions
<1>2. SessionOk(InboundFrom(first, verified))
    BY <1>1 DEF SessionOk
<1> QED
    BY <1>1, <1>2, NoSessionFacts

LEMMA InitOk ==
    ASSUME SharedInv, MembersInv, NEW m \in Members, InitInbound(m), UNCHANGED stored_inbound
    PROVE  MembersInv'
<1>1. PICK key \in session_keys :
          /\ inbound[m] = NoSession
          /\ inbound' = [inbound EXCEPT ![m] = InboundFrom(key, TRUE)]
          /\ opened' = [opened EXCEPT ![m] = {key.counter}]
          /\ genuine' = genuine
    BY DEF InitInbound
<1>2. key \in Megolms /\ key.counter <= MaxSends /\ key = At(key.counter) /\ key.counter \in Nat
    BY <1>1, UnitFacts DEF SharedInv, Megolms
<1>3. key.counter <= Half
    BY <1>2, HalfFacts
<1>4. TrueFrom(key, key.counter)
    BY <1>2, <1>3, SmallIndex
<1> DEFINE s == InboundFrom(key, TRUE)
<1>5. /\ SessionOk(s) /\ s # NoSession /\ s \in InboundSessions
      /\ s.initial_ratchet = key /\ s.signing_key_verified = TRUE
    BY <1>2, FreshSession
<1> HIDE DEF s
<1>6. MembersTypeOK /\ MemberOk(inbound[m], genuine[m], opened[m], stored_inbound[m])
    BY DEF MembersInv
<1>7. stored_inbound[m] = <<>>
    BY <1>1, <1>6 DEF MemberOk
<1>8. /\ inbound'[m] = s /\ genuine'[m] = genuine[m] /\ opened'[m] = {key.counter}
      /\ stored_inbound'[m] = <<>>
    BY <1>1, <1>6, <1>7 DEF MembersTypeOK, s
<1>9. MembersTypeOK'
    BY <1>1, <1>2, <1>5, <1>6 DEF MembersTypeOK, s
<1>10. MemberOk(s, genuine[m], {key.counter}, <<>>)
    BY <1>3, <1>4, <1>5 DEF MemberOk, Reads, Evidence, SavedOk
<1>11. \A n \in Members \ {m} : /\ inbound'[n] = inbound[n] /\ genuine'[n] = genuine[n]
                                /\ opened'[n] = opened[n]
                                /\ stored_inbound'[n] = stored_inbound[n]
    BY <1>1, <1>6 DEF MembersTypeOK
<1> QED
    BY <1>8, <1>9, <1>10, <1>11, OneMember

LEMMA DamagedTypes ==
    ASSUME NEW ratchet \in Megolms, NEW damaged \in DamagedExports(ratchet)
    PROVE  damaged \in Megolms
<1>1. ASSUME NEW i \in DamagedIndices PROVE [ratchet EXCEPT !.counter = i] \in Megolms
    BY GroupAssumption DEF Megolms
<1>2. ASSUME NEW j \in Parts PROVE [ratchet EXCEPT !.data[j].hashes = <<-1>>] \in Megolms
    <2> DEFINE v == <<-1>>
               d == [ratchet.data EXCEPT ![j].hashes = v]
    <2>1. v \in Seq(Int)
        OBVIOUS
    <2> HIDE DEF v
    <2>2. ratchet.data \in Datas /\ ratchet.counter \in 0 .. Modulus - 1
        BY DEF Megolms
    <2>3. d \in Datas
        BY <2>1, <2>2 DEF Datas, PartValues
    <2>4. [ratchet EXCEPT !.data[j].hashes = v] = [ratchet EXCEPT !.data = d]
        BY DEF Megolms
    <2> HIDE DEF d
    <2>5. [ratchet EXCEPT !.data = d] \in Megolms
        BY <2>3 DEF Megolms
    <2> QED
        BY <2>4, <2>5 DEF v
<1> QED
    BY <1>1, <1>2 DEF DamagedExports

LEMMA ImportOk ==
    ASSUME SharedInv, MembersInv, NEW m \in Members, ImportInbound(m), UNCHANGED stored_inbound
    PROVE  MembersInv'
<1>1. PICK export \in exports :
          /\ inbound[m] = NoSession
          /\ \/ /\ inbound' = [inbound EXCEPT ![m] = InboundFrom(export.ratchet, FALSE)]
                /\ genuine' = [genuine EXCEPT ![m] = export.genuine]
             \/ \E damaged \in DamagedExports(export.ratchet) :
                   /\ inbound' = [inbound EXCEPT ![m] = InboundFrom(damaged, FALSE)]
                   /\ genuine' = [genuine EXCEPT ![m] = FALSE]
          /\ opened' = opened
    BY DEF ImportInbound
<1>2. /\ export.ratchet \in Megolms /\ export.genuine \in BOOLEAN
      /\ export.genuine => /\ export.ratchet.counter <= Half
                           /\ export.ratchet = At(export.ratchet.counter)
    BY DEF SharedInv
<1>3. PICK first \in Megolms, is_genuine \in BOOLEAN :
          /\ inbound' = [inbound EXCEPT ![m] = InboundFrom(first, FALSE)]
          /\ genuine' = [genuine EXCEPT ![m] = is_genuine]
          /\ is_genuine => first.counter <= Half /\ first = At(first.counter)
    <2>1. CASE /\ inbound' = [inbound EXCEPT ![m] = InboundFrom(export.ratchet, FALSE)]
               /\ genuine' = [genuine EXCEPT ![m] = export.genuine]
        BY <1>2, <2>1
    <2>2. ASSUME NEW damaged \in DamagedExports(export.ratchet),
                 inbound' = [inbound EXCEPT ![m] = InboundFrom(damaged, FALSE)],
                 genuine' = [genuine EXCEPT ![m] = FALSE]
          PROVE  \E first \in Megolms, is_genuine \in BOOLEAN :
                    /\ inbound' = [inbound EXCEPT ![m] = InboundFrom(first, FALSE)]
                    /\ genuine' = [genuine EXCEPT ![m] = is_genuine]
                    /\ is_genuine => first.counter <= Half /\ first = At(first.counter)
        <3>1. damaged \in Megolms
            BY <1>2, DamagedTypes
        <3> QED
            BY <2>2, <3>1
    <2> QED
        BY <1>1, <2>1, <2>2
<1> DEFINE s == InboundFrom(first, FALSE)
<1>4. /\ SessionOk(s) /\ s # NoSession /\ s \in InboundSessions
      /\ s.initial_ratchet = first /\ s.signing_key_verified = FALSE
    BY FreshSession
<1> HIDE DEF s
<1>5. MembersTypeOK /\ MemberOk(inbound[m], genuine[m], opened[m], stored_inbound[m])
    BY DEF MembersInv
<1>6. stored_inbound[m] = <<>> /\ opened[m] = {}
    BY <1>1, <1>5 DEF MemberOk
<1>7. /\ inbound'[m] = s /\ genuine'[m] = is_genuine /\ opened'[m] = {}
      /\ stored_inbound'[m] = <<>>
    BY <1>1, <1>3, <1>5, <1>6 DEF MembersTypeOK, s
<1>8. MembersTypeOK'
    BY <1>1, <1>3, <1>4, <1>5 DEF MembersTypeOK, s
<1>9. MemberOk(s, is_genuine, {}, <<>>)
    <2>1. is_genuine => first.counter <= Half /\ TrueFrom(first, first.counter)
        <3>1. first.counter \in Nat
            BY UnitFacts DEF Megolms
        <3> QED
            BY <1>3, <3>1, SmallIndex
    <2> QED
        BY <1>4, <2>1 DEF MemberOk, Reads, Evidence, SavedOk
<1>10. \A n \in Members \ {m} : /\ inbound'[n] = inbound[n] /\ genuine'[n] = genuine[n]
                                /\ opened'[n] = opened[n]
                                /\ stored_inbound'[n] = stored_inbound[n]
    BY <1>1, <1>3, <1>5 DEF MembersTypeOK
<1> QED
    BY <1>7, <1>8, <1>9, <1>10, OneMember

LEMMA SameFirst ==
    ASSUME NEW s, NEW is_genuine, NEW indices, NEW saved,
           MemberOk(s, is_genuine, indices, saved), s # NoSession,
           NEW t, SessionOk(t), t.initial_ratchet = s.initial_ratchet,
           NEW more, indices # {} => more # {},
           \A i \in more : TrueFrom(s.initial_ratchet, i),
           t.signing_key_verified => more # {}
    PROVE  MemberOk(t, is_genuine, more, saved)
<1>1. t # NoSession
    BY NoSessionFacts
<1>2. /\ Reads(s.initial_ratchet, is_genuine, indices)
      /\ SavedOk(saved, s.initial_ratchet, indices)
    BY DEF MemberOk
<1>3. SavedOk(saved, t.initial_ratchet, more)
    BY <1>2 DEF SavedOk, Evidence
<1> QED
    BY <1>1, <1>2, <1>3 DEF MemberOk, Reads, Evidence

LEMMA AfterDecryptOk ==
    ASSUME NEW s, SessionOk(s), NEW msg, msg.index \in 0 .. Half
    PROVE  /\ SessionOk(AfterDecrypt(s, msg))
           /\ AfterDecrypt(s, msg).initial_ratchet = s.initial_ratchet
           /\ ~MacMatches(s, msg) =>
                 AfterDecrypt(s, msg).signing_key_verified = s.signing_key_verified
<1> DEFINE t == AfterGetMegolm(s, msg.index)
<1>1. /\ SessionOk(t) /\ t.initial_ratchet = s.initial_ratchet
      /\ t.signing_key_verified = s.signing_key_verified
    BY AfterGetMegolmOk
<1> HIDE DEF t
<1> DEFINE u == [t EXCEPT !.signing_key_verified = TRUE]
<1>2. /\ u \in InboundSessions /\ u.initial_ratchet = t.initial_ratchet
      /\ u.latest_ratchet = t.latest_ratchet
    <2>1. t \in InboundSessions
        BY <1>1, NoSessionFacts
    <2>2. ASSUME NEW b \in BOOLEAN
          PROVE  LET v == [t EXCEPT !.signing_key_verified = b] IN
                 /\ v \in InboundSessions /\ v.initial_ratchet = t.initial_ratchet
                 /\ v.latest_ratchet = t.latest_ratchet
        BY <2>1 DEF InboundSessions
    <2> QED
        BY <2>2
<1>3. AfterDecrypt(s, msg) = IF MacMatches(s, msg) THEN u ELSE t
    BY DEF AfterDecrypt, t
<1> HIDE DEF u
<1>4. SessionOk(u)
    BY <1>1, <1>2 DEF SessionOk
<1> QED
    BY <1>1, <1>2, <1>3, <1>4

LEMMA DecryptOk ==
    ASSUME OutboundInv, MembersInv, NEW m \in Members, Decrypt(m), UNCHANGED stored_inbound
    PROVE  MembersInv'
<1>1. MembersTypeOK /\ MemberOk(inbound[m], genuine[m], opened[m], stored_inbound[m])
    BY DEF MembersInv
<1>2. inbound[m] # NoSession
    BY DEF Decrypt
<1>3. /\ SessionOk(inbound[m]) /\ Evidence(inbound[m], opened[m])
      /\ Reads(inbound[m].initial_ratchet, genuine[m], opened[m])
    BY <1>1, <1>2 DEF MemberOk
<1>4. ASSUME NEW msg \in sent, DecryptSucceeds(m, msg) PROVE MembersInv'
    <2> DEFINE t == AfterDecrypt(inbound[m], msg)
               more == IF \E i \in opened[m] : i <= msg.index THEN opened[m] ELSE {msg.index}
    <2>1. msg.index \in Nat /\ msg.index \in 0 .. Half /\ msg.key = At(msg.index).data
        BY SentFacts
    <2>2. SessionOk(t) /\ t.initial_ratchet = inbound[m].initial_ratchet
        BY <1>3, <2>1, AfterDecryptOk
    <2>3. TrueFrom(inbound[m].initial_ratchet, msg.index)
        <3>1. ~Unknown(inbound[m], msg.index) /\ GetMegolm(inbound[m], msg.index).data = msg.key
            BY <1>4 DEF DecryptSucceeds, Opens, MacMatches
        <3> QED
            BY <1>3, <2>1, <3>1, OpenedTrue
    <2>4. more \in SUBSET Nat /\ more # {} /\ \A i \in more : TrueFrom(inbound[m].initial_ratchet, i)
        BY <1>1, <1>3, <2>1, <2>3 DEF Reads, MembersTypeOK
    <2>5. /\ inbound' = [inbound EXCEPT ![m] = t] /\ opened' = [opened EXCEPT ![m] = more]
          /\ genuine' = genuine
        BY <1>4 DEF DecryptSucceeds
    <2> HIDE DEF t, more
    <2>6. MemberOk(t, genuine[m], more, stored_inbound[m])
        BY <1>1, <1>2, <2>2, <2>4, SameFirst
    <2>7. MembersTypeOK'
        BY <1>1, <2>2, <2>4, <2>5, NoSessionFacts DEF MembersTypeOK
    <2>8. /\ inbound'[m] = t /\ opened'[m] = more /\ genuine'[m] = genuine[m]
          /\ stored_inbound'[m] = stored_inbound[m]
        BY <1>1, <2>5 DEF MembersTypeOK
    <2>9. \A n \in Members \ {m} : /\ inbound'[n] = inbound[n] /\ genuine'[n] = genuine[n]
                                   /\ opened'[n] = opened[n]
                                   /\ stored_inbound'[n] = stored_inbound[n]
        BY <1>1, <2>5 DEF MembersTypeOK
    <2> QED
        BY <2>6, <2>7, <2>8, <2>9, OneMember
<1>5. ASSUME NEW msg \in sent, DecryptBadMac(m, msg) PROVE MembersInv'
    <2> DEFINE t == AfterDecrypt(inbound[m], msg)
    <2>1. msg.index \in 0 .. Half /\ ~MacMatches(inbound[m], msg)
        BY <1>5, SentFacts DEF DecryptBadMac
    <2>2. /\ SessionOk(t) /\ t.initial_ratchet = inbound[m].initial_ratchet
          /\ t.signing_key_verified = inbound[m].signing_key_verified
        BY <1>3, <2>1, AfterDecryptOk
    <2>3. /\ inbound' = [inbound EXCEPT ![m] = t] /\ opened' = opened /\ genuine' = genuine
        BY <1>5 DEF DecryptBadMac
    <2> HIDE DEF t
    <2>4. MemberOk(t, genuine[m], opened[m], stored_inbound[m])
        BY <1>1, <1>2, <1>3, <2>2, SameFirst DEF Reads, Evidence
    <2>5. MembersTypeOK'
        BY <1>1, <2>2, <2>3, NoSessionFacts DEF MembersTypeOK
    <2>6. inbound'[m] = t
        BY <1>1, <2>3 DEF MembersTypeOK
    <2>7. \A n \in Members \ {m} : inbound'[n] = inbound[n]
        BY <1>1, <2>3 DEF MembersTypeOK
    <2> QED
        BY <2>3, <2>4, <2>5, <2>6, <2>7, OneMember
<1>6. CASE UNCHANGED vars
    BY <1>6 DEF vars, MembersInv, MembersTypeOK
<1> QED
    BY <1>4, <1>5, <1>6 DEF Decrypt, DecryptUnknownIndex, DecryptBadSignature

LEMMA ExportIndex ==
    ASSUME OutboundInv, NEW index \in 0 .. Cardinality(sent) + MaxAhead
    PROVE  index \in 0 .. Half /\ index \in Nat
<1> DEFINE n == Cardinality(sent)
<1>1. n \in Nat /\ n <= MaxSends
    BY FewSent
<1>2. index \in 0 .. n + MaxAhead
    OBVIOUS
<1> HIDE DEF n
<1> QED
    BY <1>1, <1>2, HalfFacts

LEMMA ExportOk ==
    ASSUME OutboundInv, SharedInv, MembersInv, NEW m \in Members, ExportInbound(m),
           UNCHANGED stored_inbound
    PROVE  SharedInv' /\ MembersInv'
<1>1. PICK index \in 0 .. Cardinality(sent) + MaxAhead :
          /\ ~Unknown(inbound[m], index)
          /\ exports' = exports \cup {[ratchet |-> ExportOf(inbound[m], index),
                                       genuine |-> genuine[m]]}
          /\ inbound' = [inbound EXCEPT ![m] = AfterGetMegolm(@, index)]
    BY DEF ExportInbound
<1>2. inbound[m] # NoSession /\ opened' = opened /\ genuine' = genuine /\ session_keys' = session_keys
    BY DEF ExportInbound
<1>3. MembersTypeOK /\ MemberOk(inbound[m], genuine[m], opened[m], stored_inbound[m])
    BY DEF MembersInv
<1>4. /\ SessionOk(inbound[m]) /\ Evidence(inbound[m], opened[m])
      /\ Reads(inbound[m].initial_ratchet, genuine[m], opened[m])
    BY <1>2, <1>3 DEF MemberOk
<1>5. index \in 0 .. Half /\ index \in Nat
    BY ExportIndex
<1> DEFINE s == inbound[m]
           got == GetMegolm(s, index)
           export == [ratchet |-> ExportOf(s, index), genuine |-> genuine[m]]
<1>6. /\ got = Walk(s.initial_ratchet)[Gap(s.initial_ratchet.counter, index)]
      /\ got \in Megolms /\ got.counter = index
    BY <1>1, <1>4, <1>5, GetMegolmWalk
<1>7. export.ratchet = got /\ export.genuine = genuine[m] /\ genuine[m] \in BOOLEAN
    <2>1. got = [data |-> got.data, counter |-> got.counter]
        BY <1>6 DEF Megolms
    <2>2. ExportOf(s, index) = [data |-> got.data, counter |-> index]
        BY DEF ExportOf, MegolmInit
    <2>3. ExportOf(s, index) = got
        BY <1>6, <2>1, <2>2
    <2> HIDE DEF got, s
    <2> QED
        BY <1>3, <2>3 DEF MembersTypeOK
<1>8. genuine[m] => got.counter <= Half /\ got = At(got.counter)
    <2> SUFFICES ASSUME genuine[m] PROVE got.counter <= Half /\ got = At(got.counter)
        OBVIOUS
    <2> DEFINE x == s.initial_ratchet
    <2>1. x.counter <= Half /\ TrueFrom(x, x.counter) /\ x \in Megolms /\ x.counter \in Nat
        <3>1. x \in Megolms
            BY <1>4, SessionTypes
        <3> QED
            BY <1>4, <3>1, UnitFacts DEF Reads, Megolms
    <2>2. x.counter <= index
        <3>1. ~(index < x.counter)
            BY <1>1, <1>4, <1>5, <2>1, BeforeFirst
        <3> QED
            BY <1>5, <2>1, <3>1
    <2>3. TrueFrom(x, index)
        BY <1>5, <2>1, <2>2, TrueLater
    <2>4. Gap(x.counter, index) = index - x.counter
        BY <2>2 DEF Gap
    <2>5. got = At(index)
        BY <1>6, <2>3, <2>4 DEF TrueFrom
    <2> HIDE DEF got, s, x
    <2> QED
        BY <1>5, <1>6, <2>5
<1>9. exports' = exports \cup {export}
    BY <1>1
<1> HIDE DEF got, export
<1>10. SharedInv'
    BY <1>2, <1>6, <1>7, <1>8, <1>9 DEF SharedInv
<1> DEFINE t == AfterGetMegolm(s, index)
<1>11. /\ SessionOk(t) /\ t.initial_ratchet = inbound[m].initial_ratchet
       /\ t.signing_key_verified = inbound[m].signing_key_verified
    BY <1>4, <1>5, AfterGetMegolmOk
<1>12. inbound' = [inbound EXCEPT ![m] = t]
    BY <1>1
<1> HIDE DEF t
<1>13. MemberOk(t, genuine[m], opened[m], stored_inbound[m])
    BY <1>2, <1>3, <1>4, <1>11, SameFirst DEF Reads, Evidence
<1>14. MembersTypeOK'
    BY <1>2, <1>3, <1>11, <1>12, NoSessionFacts DEF MembersTypeOK
<1>15. inbound'[m] = t /\ \A n \in Members \ {m} : inbound'[n] = inbound[n]
    BY <1>3, <1>12 DEF MembersTypeOK
<1>16. MembersInv'
    BY <1>2, <1>13, <1>14, <1>15, OneMember
<1> QED
    BY <1>10, <1>16

LEMMA SaveInboundOk ==
    ASSUME MembersInv, NEW m \in Members, SaveInbound(m)
    PROVE  MembersInv'
<1>1. MembersTypeOK /\ MemberOk(inbound[m], genuine[m], opened[m], stored_inbound[m])
    BY DEF MembersInv
<1>2. /\ inbound[m] # NoSession /\ inbound' = inbound /\ genuine' = genuine /\ opened' = opened
      /\ stored_inbound' = [stored_inbound EXCEPT ![m] = <<PickleInbound(inbound[m])>>]
    BY DEF SaveInbound, vars
<1> DEFINE saved == <<PickleInbound(inbound[m])>>
<1>3. /\ SessionOk(inbound[m]) /\ Evidence(inbound[m], opened[m])
      /\ Reads(inbound[m].initial_ratchet, genuine[m], opened[m])
      /\ inbound[m] \in InboundSessions
    BY <1>1, <1>2, NoSessionFacts DEF MemberOk
<1>4. SavedOk(saved, inbound[m].initial_ratchet, opened[m])
    BY <1>3 DEF SavedOk
<1>5. saved \in Stores
    BY <1>3 DEF Stores
<1> HIDE DEF saved
<1>6. MemberOk(inbound[m], genuine[m], opened[m], saved)
    BY <1>2, <1>3, <1>4 DEF MemberOk
<1>7. stored_inbound' = [stored_inbound EXCEPT ![m] = saved]
    BY <1>2 DEF saved
<1>8. MembersTypeOK'
    BY <1>1, <1>2, <1>5, <1>7 DEF MembersTypeOK
<1>9. /\ stored_inbound'[m] = saved
      /\ \A n \in Members \ {m} : stored_inbound'[n] = stored_inbound[n]
    BY <1>1, <1>7 DEF MembersTypeOK
<1> QED
    BY <1>2, <1>6, <1>8, <1>9, OneMember

(* A session that was saved comes back with its first ratchet.             *)
LEMMA Reloaded ==
    ASSUME NEW saved, NEW first, NEW indices, SavedOk(saved, first, indices), saved # <<>>
    PROVE  LET s == UnpickleInbound(saved[1]) IN
           /\ SessionOk(s) /\ s.initial_ratchet = first /\ Evidence(s, indices)
<1>1. PICK s : /\ saved = <<PickleInbound(s)>> /\ SessionOk(s)
               /\ s.initial_ratchet = first /\ Evidence(s, indices)
    BY DEF SavedOk
<1>2. UnpickleInbound(PickleInbound(s)) = s
    BY <1>1, NoSessionFacts, InboundPickle
<1>3. saved[1] = PickleInbound(s)
    BY <1>1
<1> QED
    BY <1>1, <1>2, <1>3

LEMMA RestartInboundOk ==
    ASSUME MembersInv, NEW m \in Members, RestartInbound(m)
    PROVE  MembersInv'
<1>1. MembersTypeOK /\ MemberOk(inbound[m], genuine[m], opened[m], stored_inbound[m])
    BY DEF MembersInv
<1>2. stored_inbound' = stored_inbound
    BY DEF RestartInbound, stored
<1>3. CASE /\ stored_inbound[m] # <<>>
           /\ inbound' = [inbound EXCEPT ![m] = UnpickleInbound(stored_inbound[m][1])]
           /\ UNCHANGED <<genuine, opened>>
    <2> DEFINE t == UnpickleInbound(stored_inbound[m][1])
    <2>1. /\ inbound[m] # NoSession /\ Evidence(inbound[m], opened[m])
          /\ Reads(inbound[m].initial_ratchet, genuine[m], opened[m])
          /\ SavedOk(stored_inbound[m], inbound[m].initial_ratchet, opened[m])
        BY <1>1, <1>3 DEF MemberOk
    <2>2. SessionOk(t) /\ t.initial_ratchet = inbound[m].initial_ratchet /\ Evidence(t, opened[m])
        BY <1>3, <2>1, Reloaded
    <2>3. inbound' = [inbound EXCEPT ![m] = t] /\ genuine' = genuine /\ opened' = opened
        BY <1>3
    <2> HIDE DEF t
    <2>4. MemberOk(t, genuine[m], opened[m], stored_inbound[m])
        BY <1>1, <2>1, <2>2, SameFirst DEF Reads, Evidence
    <2>5. MembersTypeOK'
        BY <1>1, <1>2, <2>2, <2>3, NoSessionFacts DEF MembersTypeOK
    <2>6. inbound'[m] = t /\ \A n \in Members \ {m} : inbound'[n] = inbound[n]
        BY <1>1, <2>3 DEF MembersTypeOK
    <2> QED
        BY <1>2, <2>3, <2>4, <2>5, <2>6, OneMember
<1>4. CASE /\ stored_inbound[m] = <<>>
           /\ inbound' = [inbound EXCEPT ![m] = NoSession]
           /\ genuine' = [genuine EXCEPT ![m] = TRUE]
           /\ opened' = [opened EXCEPT ![m] = {}]
    <2>1. MembersTypeOK'
        BY <1>1, <1>2, <1>4 DEF MembersTypeOK
    <2>2. inbound'[m] = NoSession /\ opened'[m] = {} /\ stored_inbound'[m] = <<>>
        BY <1>1, <1>2, <1>4 DEF MembersTypeOK
    <2>3. MemberOk(inbound'[m], genuine'[m], opened'[m], stored_inbound'[m])
        BY <2>2 DEF MemberOk
    <2>4. \A n \in Members \ {m} : /\ inbound'[n] = inbound[n] /\ genuine'[n] = genuine[n]
                                   /\ opened'[n] = opened[n]
                                   /\ stored_inbound'[n] = stored_inbound[n]
        BY <1>1, <1>2, <1>4 DEF MembersTypeOK
    <2> QED
        BY <2>1, <2>3, <2>4, OneMember
<1> QED
    BY <1>3, <1>4 DEF RestartInbound

-----------------------------------------------------------------------------
(* The group's invariant holds at first and after every step.              *)
LEMMA GroupInitially == RInit => GroupInv
<1> SUFFICES ASSUME RInit PROVE GroupInv
    OBVIOUS
<1>1. /\ outbound = Start /\ sent = {} /\ session_keys = {} /\ exports = {}
      /\ inbound = [m \in Members |-> NoSession] /\ genuine = [m \in Members |-> TRUE]
      /\ opened = [m \in Members |-> {}] /\ stored_outbound = PickleOutbound(outbound)
      /\ unsaved = {} /\ plaintexts = 0 /\ stored_inbound = [m \in Members |-> <<>>]
    BY DEF RInit, Init, Start
<1>2. At(0) = Start /\ MaxSends \in Nat
    BY AtFacts, HalfFacts
<1>3. OutboundAt(0, 0)
    BY <1>1, <1>2 DEF OutboundAt
<1>4. OneMessageEach
    BY <1>1 DEF OneMessageEach
<1>5. FewMessages
    <2>1. IsFiniteSet({}) /\ Cardinality({}) = 0
        BY FS_EmptySet
    <2> QED
        BY <1>1, <2>1 DEF FewMessages
<1>6. SharedInv
    BY <1>1 DEF SharedInv
<1>7. MembersTypeOK
    BY <1>1 DEF MembersTypeOK, Stores
<1>8. ASSUME NEW m \in Members PROVE MemberOk(inbound[m], genuine[m], opened[m], stored_inbound[m])
    BY <1>1 DEF MemberOk
<1> QED
    BY <1>3, <1>4, <1>5, <1>6, <1>7, <1>8 DEF GroupInv, OutboundInv, MembersInv

LEMMA GroupStep == GroupInv /\ [RNext]_rvars => GroupInv'
<1> SUFFICES ASSUME GroupInv, [RNext]_rvars PROVE GroupInv'
    OBVIOUS
<1>1. OutboundInv /\ SharedInv /\ MembersInv
    BY DEF GroupInv
<1>2. UNCHANGED <<outbound, sent, unsaved, plaintexts, stored_outbound>> => OutboundInv'
    BY <1>1 DEF OutboundInv, OutboundAt, OneMessageEach, FewMessages
<1>3. UNCHANGED <<session_keys, exports>> => SharedInv'
    BY <1>1 DEF SharedInv
<1>4. UNCHANGED <<inbound, genuine, opened, stored_inbound>> => MembersInv'
    BY <1>1 DEF MembersInv, MembersTypeOK
<1>5. CASE EncryptUnsaved
    BY <1>1, <1>3, <1>4, <1>5, EncryptOk DEF GroupInv, EncryptUnsaved
<1>6. CASE SaveOutbound
    BY <1>1, <1>3, <1>4, <1>6, SaveOk DEF GroupInv, SaveOutbound
<1>7. CASE RestartOutbound
    BY <1>1, <1>3, <1>4, <1>7, RestartSenderOk DEF GroupInv, RestartOutbound
<1>8. CASE ShareSessionKey /\ UNCHANGED stored
    <2>1. SharedInv'
        <3>1. PICK encrypted \in Nat, saved \in Nat : OutboundAt(encrypted, saved)
            BY <1>1 DEF OutboundInv
        <3>2. outbound \in Megolms /\ outbound.counter <= MaxSends /\ outbound = At(outbound.counter)
            BY <3>1, OutboundFacts
        <3> QED
            BY <1>1, <1>8, <3>2 DEF SharedInv, ShareSessionKey
    <2> QED
        BY <1>2, <1>4, <1>8, <2>1 DEF GroupInv, ShareSessionKey, stored
<1>9. ASSUME NEW m \in Members, MemberStep(m), UNCHANGED stored PROVE GroupInv'
    <2>1. stored_inbound' = stored_inbound
        BY <1>9 DEF stored
    <2>2. CASE InitInbound(m)
        BY <1>1, <1>2, <1>3, <1>9, <2>1, <2>2, InitOk DEF GroupInv, InitInbound, stored
    <2>3. CASE ImportInbound(m)
        BY <1>1, <1>2, <1>3, <1>9, <2>1, <2>3, ImportOk DEF GroupInv, ImportInbound, stored
    <2>4. CASE Decrypt(m)
        <3>1. UNCHANGED <<outbound, sent, session_keys, exports>>
            BY <2>4 DEF Decrypt, DecryptSucceeds, DecryptBadMac, DecryptUnknownIndex,
                        DecryptBadSignature, vars
        <3> QED
            BY <1>1, <1>2, <1>3, <1>9, <2>1, <2>4, <3>1, DecryptOk DEF GroupInv, stored
    <2>5. CASE ExportInbound(m)
        BY <1>1, <1>2, <1>9, <2>1, <2>5, ExportOk DEF GroupInv, ExportInbound, stored
    <2> QED
        BY <1>9, <2>2, <2>3, <2>4, <2>5 DEF MemberStep
<1>10. ASSUME NEW m \in Members, SaveInbound(m) PROVE GroupInv'
    BY <1>1, <1>2, <1>3, <1>10, SaveInboundOk DEF GroupInv, SaveInbound, vars
<1>11. ASSUME NEW m \in Members, RestartInbound(m) PROVE GroupInv'
    BY <1>1, <1>2, <1>3, <1>11, RestartInboundOk DEF GroupInv, RestartInbound, stored
<1>12. CASE UNCHANGED rvars
    BY <1>2, <1>3, <1>4, <1>12 DEF GroupInv, rvars, vars, stored
<1> QED
    BY <1>5, <1>6, <1>7, <1>8, <1>9, <1>10, <1>11, <1>12 DEF RNext

(* Where the sender, its session keys and the members' sessions are: in    *)
(* step with the sender's ratchet, whatever stops and starts again.        *)
THEOREM GroupInvariant == RSpec => []GroupInv
<1> QED
    BY GroupInitially, GroupStep, PTL DEF RSpec

-----------------------------------------------------------------------------
(* What follows for the messages and the members.                          *)

(* MessageKeysUnique: the sender saves before messages leave, so that no   *)
(* restart makes two messages of one key.                                  *)
THEOREM OneKeyEach == RSpec => []MessageKeysUnique
<1>1. GroupInv => MessageKeysUnique
    <2> SUFFICES ASSUME GroupInv, NEW a \in sent, NEW b \in sent, a.key = b.key PROVE a = b
        BY DEF MessageKeysUnique
    <2>1. OutboundInv
        BY DEF GroupInv
    <2>2. /\ a.index \in Nat /\ a.key = At(a.index).data
          /\ b.index \in Nat /\ b.key = At(b.index).data
        BY <2>1, SentFacts
    <2>3. a.index = b.index
        BY <2>2, KeysDiffer
    <2> QED
        BY <2>1, <2>3 DEF OutboundInv, OneMessageEach
<1> QED
    BY <1>1, GroupInvariant, PTL

LEMMA OpensFrom ==
    ASSUME OutboundInv, NEW s, SessionOk(s), NEW i, TrueFrom(s.initial_ratchet, i),
           NEW msg \in sent, i <= msg.index
    PROVE  Opens(s, msg)
<1>1. msg.index \in Nat /\ msg.index < Half /\ msg.key = At(msg.index).data
    BY SentFacts
<1>2. TrueFrom(s.initial_ratchet, msg.index)
    BY <1>1, SessionTypes, TrueLater
<1>3. ~Unknown(s, msg.index) /\ GetMegolm(s, msg.index) = At(msg.index)
    BY <1>1, <1>2, TrueOpens
<1> QED
    BY <1>1, <1>3 DEF Opens, MacMatches

LEMMA OpensTrue ==
    ASSUME OutboundInv, NEW s, SessionOk(s), NEW msg \in sent, Opens(s, msg)
    PROVE  TrueFrom(s.initial_ratchet, msg.index)
<1>1. msg.index \in 0 .. Half /\ msg.key = At(msg.index).data
    BY SentFacts
<1> QED
    BY <1>1, OpenedTrue DEF Opens, MacMatches

LEMMA MemberFacts ==
    ASSUME GroupInv, NEW m \in Members, inbound[m] # NoSession
    PROVE  /\ OutboundInv /\ SessionOk(inbound[m]) /\ Evidence(inbound[m], opened[m])
           /\ Reads(inbound[m].initial_ratchet, genuine[m], opened[m])
           /\ inbound[m].initial_ratchet.counter \in Nat
<1>1. /\ SessionOk(inbound[m]) /\ Evidence(inbound[m], opened[m])
      /\ Reads(inbound[m].initial_ratchet, genuine[m], opened[m])
    BY DEF GroupInv, MembersInv, MemberOk
<1>2. inbound[m].initial_ratchet.counter \in Nat
    BY <1>1, SessionTypes, UnitFacts
<1> QED
    BY <1>1, <1>2 DEF GroupInv

(* ReadsFromFirstIndexOn: _get_megolm() finds the value of every index     *)
(* from the first on, from the latest ratchet or anew from the first.      *)
THEOREM EveryLaterMessageOpens == RSpec => []ReadsFromFirstIndexOn
<1>1. GroupInv => ReadsFromFirstIndexOn
    <2> SUFFICES ASSUME GroupInv, NEW m \in Members, NEW msg \in sent,
                        inbound[m] # NoSession, genuine[m], msg.index >= FirstIndex(m)
                 PROVE  Opens(inbound[m], msg)
        BY DEF ReadsFromFirstIndexOn
    <2> DEFINE x == inbound[m].initial_ratchet
    <2>1. /\ OutboundInv /\ SessionOk(inbound[m]) /\ Reads(x, genuine[m], opened[m])
          /\ x.counter \in Nat
        BY MemberFacts
    <2>2. TrueFrom(x, x.counter)
        BY <2>1 DEF Reads
    <2>3. x.counter <= msg.index
        BY <2>1, SentFacts DEF FirstIndex
    <2> QED
        BY <2>1, <2>2, <2>3, OpensFrom
<1> QED
    BY <1>1, GroupInvariant, PTL

(* NothingBeforeFirstIndex: neither a session nor an export lets its       *)
(* holder compute an earlier value of the ratchet.                         *)
THEOREM EarlierMessagesClosed == RSpec => []NothingBeforeFirstIndex
<1>1. GroupInv => NothingBeforeFirstIndex
    <2> SUFFICES ASSUME GroupInv PROVE NothingBeforeFirstIndex
        OBVIOUS
    <2>1. OutboundInv /\ SharedInv
        BY DEF GroupInv
    <2>2. ASSUME NEW m \in Members, NEW msg \in sent,
                 inbound[m] # NoSession, genuine[m], msg.index < FirstIndex(m)
          PROVE  /\ Unknown(inbound[m], msg.index)
                 /\ ~Derivable(inbound[m].initial_ratchet.data, msg.key)
                 /\ ~Derivable(inbound[m].latest_ratchet.data, msg.key)
        <3> DEFINE x == inbound[m].initial_ratchet
        <3>1. SessionOk(inbound[m]) /\ Reads(x, genuine[m], opened[m])
            BY <2>2, MemberFacts
        <3>2. x.counter <= Half /\ TrueFrom(x, x.counter) /\ msg.index < x.counter
            BY <2>2, <3>1 DEF Reads, FirstIndex
        <3>3. msg.index \in Nat /\ msg.key = At(msg.index).data
            BY <2>1, SentFacts
        <3> QED
            BY <3>1, <3>2, <3>3, BeforeFirst
    <2>3. ASSUME NEW export \in exports, NEW msg \in sent,
                 export.genuine, msg.index < export.ratchet.counter
          PROVE  ~Derivable(export.ratchet.data, msg.key)
        <3>1. export.ratchet = At(export.ratchet.counter) /\ export.ratchet \in Megolms
            BY <2>1, <2>3 DEF SharedInv
        <3>2. export.ratchet.counter \in Nat
            BY <3>1, UnitFacts DEF Megolms
        <3>3. msg.index \in Nat /\ msg.key = At(msg.index).data
            BY <2>1, SentFacts
        <3>4. ~Derivable(At(export.ratchet.counter).data, At(msg.index).data)
            BY <2>3, <3>2, <3>3, ForwardSecrecy
        <3> QED
            BY <3>1, <3>3, <3>4
    <2> QED
        BY <2>2, <2>3 DEF NothingBeforeFirstIndex
<1> QED
    BY <1>1, GroupInvariant, PTL

(* VerifiedReadsOn: a MAC that matched proves the ratchet, for the damaged *)
(* part of a ratchet would have shown.                                     *)
THEOREM VerifiedIsEvidence == RSpec => []VerifiedReadsOn
<1>1. GroupInv => VerifiedReadsOn
    <2> SUFFICES ASSUME GroupInv, NEW m \in Members,
                        inbound[m] # NoSession, inbound[m].signing_key_verified
                 PROVE  /\ opened[m] # {}
                        /\ \A msg \in sent : (\E i \in opened[m] : i <= msg.index)
                                             => Opens(inbound[m], msg)
        BY DEF VerifiedReadsOn
    <2>1. /\ OutboundInv /\ SessionOk(inbound[m]) /\ Evidence(inbound[m], opened[m])
          /\ Reads(inbound[m].initial_ratchet, genuine[m], opened[m])
        BY MemberFacts
    <2>2. ASSUME NEW msg \in sent, NEW i \in opened[m], i <= msg.index
          PROVE  Opens(inbound[m], msg)
        <3>1. TrueFrom(inbound[m].initial_ratchet, i)
            BY <2>1 DEF Reads
        <3> QED
            BY <2>1, <2>2, <3>1, OpensFrom
    <2> QED
        BY <2>1, <2>2 DEF Evidence
<1> QED
    BY <1>1, GroupInvariant, PTL

(* The first ratchet of a session stays what it is as long as there is a   *)
(* session.                                                                *)
LEMMA FirstRatchetKept ==
    ASSUME GroupInv, [RNext]_rvars, NEW m \in Members,
           inbound[m] # NoSession, inbound'[m] # NoSession
    PROVE  inbound'[m].initial_ratchet = inbound[m].initial_ratchet
<1>1. MembersInv /\ MembersTypeOK /\ OutboundInv
    BY DEF GroupInv, MembersInv
<1>2. SessionOk(inbound[m])
    BY MemberFacts
<1>3. inbound \in [Members -> InboundSessions \cup {NoSession}]
    BY <1>1 DEF MembersTypeOK
<1>4. inbound' = inbound => inbound'[m].initial_ratchet = inbound[m].initial_ratchet
    OBVIOUS
<1>5. ASSUME NEW n \in Members, NEW t, inbound' = [inbound EXCEPT ![n] = t],
             n = m => t.initial_ratchet = inbound[m].initial_ratchet
      PROVE  inbound'[m].initial_ratchet = inbound[m].initial_ratchet
    BY <1>3, <1>5
<1>6. CASE EncryptUnsaved \/ SaveOutbound \/ RestartOutbound
    BY <1>6 DEF EncryptUnsaved, SaveOutbound, RestartOutbound
<1>7. CASE ShareSessionKey
    BY <1>7 DEF ShareSessionKey
<1>8. ASSUME NEW n \in Members, InitInbound(n) \/ ImportInbound(n)
      PROVE  inbound'[m].initial_ratchet = inbound[m].initial_ratchet
    <2>1. n # m
        BY <1>8 DEF InitInbound, ImportInbound
    <2>2. PICK t : inbound' = [inbound EXCEPT ![n] = t]
        BY <1>8 DEF InitInbound, ImportInbound
    <2> QED
        BY <1>5, <2>1, <2>2
<1>9. ASSUME NEW n \in Members, Decrypt(n)
      PROVE  inbound'[m].initial_ratchet = inbound[m].initial_ratchet
    <2>1. ASSUME NEW msg \in sent, inbound' = [inbound EXCEPT ![n] = AfterDecrypt(@, msg)]
          PROVE  inbound'[m].initial_ratchet = inbound[m].initial_ratchet
        <3>1. msg.index \in 0 .. Half
            BY <1>1, SentFacts
        <3>2. AfterDecrypt(inbound[m], msg).initial_ratchet = inbound[m].initial_ratchet
            BY <1>2, <3>1, AfterDecryptOk
        <3> QED
            BY <1>5, <2>1, <3>2
    <2>2. (\E msg \in sent : inbound' = [inbound EXCEPT ![n] = AfterDecrypt(@, msg)])
          \/ inbound' = inbound
        BY <1>9 DEF Decrypt, DecryptSucceeds, DecryptBadMac, DecryptUnknownIndex,
                    DecryptBadSignature, vars
    <2> QED
        BY <2>1, <2>2
<1>10. ASSUME NEW n \in Members, ExportInbound(n)
       PROVE  inbound'[m].initial_ratchet = inbound[m].initial_ratchet
    <2>1. PICK index \in 0 .. Cardinality(sent) + MaxAhead :
             inbound' = [inbound EXCEPT ![n] = AfterGetMegolm(@, index)]
        BY <1>10 DEF ExportInbound
    <2>2. index \in 0 .. Half
        BY <1>1, ExportIndex
    <2>3. AfterGetMegolm(inbound[m], index).initial_ratchet = inbound[m].initial_ratchet
        BY <1>2, <2>2, AfterGetMegolmOk
    <2> QED
        BY <1>5, <2>1, <2>3
<1>11. ASSUME NEW n \in Members, SaveInbound(n)
       PROVE  inbound'[m].initial_ratchet = inbound[m].initial_ratchet
    BY <1>11 DEF SaveInbound, vars
<1>12. ASSUME NEW n \in Members, RestartInbound(n)
       PROVE  inbound'[m].initial_ratchet = inbound[m].initial_ratchet
    <2>1. CASE n # m
        <3>1. PICK t : inbound' = [inbound EXCEPT ![n] = t]
            BY <1>12 DEF RestartInbound
        <3> QED
            BY <1>5, <2>1, <3>1
    <2>2. CASE n = m
        <3>1. stored_inbound[m] # <<>> /\
              inbound' = [inbound EXCEPT ![m] = UnpickleInbound(stored_inbound[m][1])]
            BY <1>3, <1>12, <2>2 DEF RestartInbound
        <3>2. SavedOk(stored_inbound[m], inbound[m].initial_ratchet, opened[m])
            BY <1>1 DEF MembersInv, MemberOk
        <3>3. UnpickleInbound(stored_inbound[m][1]).initial_ratchet = inbound[m].initial_ratchet
            BY <3>1, <3>2, Reloaded
        <3> QED
            BY <1>5, <3>1, <3>3
    <2> QED
        BY <2>1, <2>2
<1>13. CASE UNCHANGED rvars
    BY <1>13 DEF rvars, vars
<1> QED
    BY <1>6, <1>7, <1>8, <1>9, <1>10, <1>11, <1>12, <1>13 DEF RNext, MemberStep

(* StaysReadable: what a member can read it can read after any step.       *)
THEOREM ReadableForGood == RSpec => StaysReadable
<1>1. GroupInv /\ GroupInv' /\ [RNext]_rvars =>
         [\A m \in Members : \A msg \in sent :
             inbound[m] # NoSession /\ inbound'[m] # NoSession /\ Opens(inbound[m], msg)
             => Opens(inbound'[m], msg)]_vars
    <2> SUFFICES ASSUME GroupInv, GroupInv', [RNext]_rvars,
                        NEW m \in Members, NEW msg \in sent,
                        inbound[m] # NoSession, inbound'[m] # NoSession, Opens(inbound[m], msg)
                 PROVE  Opens(inbound'[m], msg)
        OBVIOUS
    <2>1. OutboundInv /\ SessionOk(inbound[m])
        BY MemberFacts
    <2>2. TrueFrom(inbound[m].initial_ratchet, msg.index)
        BY <2>1, OpensTrue
    <2>3. SessionOk(inbound'[m])
        BY DEF GroupInv, MembersInv, MemberOk
    <2>4. TrueFrom(inbound'[m].initial_ratchet, msg.index)
        BY <2>2, FirstRatchetKept
    <2>5. msg.index <= msg.index
        BY <2>1, SentFacts
    <2> QED
        BY <2>1, <2>3, <2>4, <2>5, OpensFrom
<1> QED
    BY <1>1, GroupInvariant, PTL DEF RSpec, StaysReadable

(* GroupPicklesWhole: what the pickle functions write they read back, and  *)
(* they refuse what is too short, too long or of another version.          *)
THEOREM GroupsPickledWhole == RSpec => []GroupPicklesWhole
<1>1. GroupInv => GroupPicklesWhole
    <2> SUFFICES ASSUME GroupInv PROVE GroupPicklesWhole
        OBVIOUS
    <2>1. outbound \in Megolms
        BY OutboundFacts DEF GroupInv, OutboundInv
    <2>2. ASSUME NEW m \in Members, inbound[m] # NoSession PROVE inbound[m] \in InboundSessions
        BY <2>2, MemberFacts, NoSessionFacts
    <2>3. LET pickle == PickleOutbound(outbound) IN
          /\ UnpickleOutboundError(pickle) = "OLM_SUCCESS"
          /\ UnpickleOutbound(pickle) = outbound
          /\ \A cut \in Cuts(pickle) : UnpickleOutboundError(cut) # "OLM_SUCCESS"
          /\ UnpickleOutboundError(Extended(pickle, 0)) # "OLM_SUCCESS"
        BY <2>1, OutboundPickle, OutboundPickledWhole
    <2>4. ASSUME NEW m \in Members, inbound[m] # NoSession
          PROVE  LET pickle == PickleInbound(inbound[m]) IN
                 /\ UnpickleInboundError(pickle) = "OLM_SUCCESS"
                 /\ UnpickleInbound(pickle) = inbound[m]
                 /\ \A cut \in Cuts(pickle) : UnpickleInboundError(cut) # "OLM_SUCCESS"
                 /\ UnpickleInboundError(Extended(pickle, 0)) # "OLM_SUCCESS"
                 /\ \A version \in {0, 3} :
                       UnpickleInboundError([pickle EXCEPT !.items[1] = version])
                           = "OLM_UNKNOWN_PICKLE_VERSION"
                 /\ UnpickleInboundError(PickleInboundV1(inbound[m])) = "OLM_SUCCESS"
                 /\ UnpickleInbound(PickleInboundV1(inbound[m]))
                       = [inbound[m] EXCEPT !.signing_key_verified = TRUE]
        BY <2>2, <2>4, InboundPickle, InboundPickledWhole
    <2> QED
        BY <2>3, <2>4 DEF GroupPicklesWhole
<1> QED
    BY <1>1, GroupInvariant, PTL
=============================================================================
