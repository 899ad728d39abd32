------------------------------ MODULE Arithmetic ------------------------------
(* Facts about numbers the other proof modules rest on.  Induction comes in a *)
(* form the provers can use: on a set of numbers, not on a predicate.  A      *)
(* proof by induction on n defines the set of the numbers for which its claim *)
(* holds, hides the definition, and cites one of the lemmas.  It rests on `<` *)
(* being well founded.                                                        *)
EXTENDS Binary, FiniteSets, FiniteSetTheorems, FunctionTheorems, WellFoundedInduction, TLAPS

(* A set of numbers that is not empty has a least. *)
LEMMA LeastElement ==
  ASSUME NEW T, T \subseteq Nat, T # {}
  PROVE  \E m \in T : \A k \in T : m <= k
<1>1. PICK R : R = OpToRel(<, Nat)
  OBVIOUS
<1>2. IsWellFoundedOn(R, Nat)
  BY <1>1, NatLessThanWellFounded
<1>3. \A x, y \in Nat : x < y => <<x, y>> \in R
  BY <1>1 DEF OpToRel
<1>4. PICK x \in T : \A y \in T : ~ (<<y, x>> \in R)
  BY <1>2, WFMin
<1>5. ASSUME NEW y \in T PROVE ~(y < x)
  BY <1>3, <1>4
<1>6. \A y \in T : x <= y
  BY <1>5
<1> QED BY <1>6

(* Induction from n to n + 1. *)
LEMMA SetInduction ==
  ASSUME NEW S, 0 \in S, \A n \in Nat : n \in S => n + 1 \in S
  PROVE  Nat \subseteq S
<1> SUFFICES ASSUME Nat \ S # {} PROVE FALSE
  OBVIOUS
<1>1. PICK m \in Nat \ S : \A k \in Nat \ S : m <= k
  BY LeastElement
<1>2. m # 0 /\ m - 1 \in Nat /\ ~(m <= m - 1)
  BY <1>1
<1>3. m - 1 \in S
  BY <1>1, <1>2
<1>4. (m - 1) + 1 \in S
  BY <1>2, <1>3
<1> QED BY <1>1, <1>4

(* Course-of-values induction. *)
LEMMA StrongSetInduction ==
  ASSUME NEW S, \A n \in Nat : (\A k \in 0 .. n - 1 : k \in S) => n \in S
  PROVE  Nat \subseteq S
<1> SUFFICES ASSUME Nat \ S # {} PROVE FALSE
  OBVIOUS
<1>1. PICK m \in Nat \ S : \A k \in Nat \ S : m <= k
  BY LeastElement
<1>2. \A k \in 0 .. m - 1 : k \in S
  BY <1>1
<1> QED BY <1>1, <1>2

(* A bounded set of numbers that is not empty has a largest. *)
LEMMA LargestElement ==
  ASSUME NEW T, T \subseteq Nat, T # {}, NEW n \in Nat, \A k \in T : k <= n
  PROVE  \E m \in T : \A k \in T : k <= m
<1> DEFINE U == {b \in Nat : \A k \in T : k <= b}
<1>1. PICK b \in U : \A c \in U : b <= c
  <2>1. U \subseteq Nat /\ n \in U
    OBVIOUS
  <2> HIDE DEF U
  <2> QED BY <2>1, LeastElement
<1>2. b \in T
  <2> SUFFICES ASSUME b \notin T PROVE FALSE
    OBVIOUS
  <2>1. \A k \in T : k <= b - 1 /\ b - 1 \in Nat
    BY <1>1
  <2>2. b - 1 \in U
    BY <2>1
  <2> QED BY <1>1, <2>2
<1> QED BY <1>1, <1>2

-----------------------------------------------------------------------------
(* Powers of two. *)

(* f is the recursion that starts from base and takes step.                   *)
Recurs(f, base, step) ==
  f = [n \in Nat |-> IF n = 0 THEN base ELSE step[n - 1][f[n - 1]]]

(* A recursion over the numbers that gives each value from the one before it  *)
(* has a solution.                                                            *)
LEMMA RecursionSolved ==
  ASSUME NEW V, NEW base \in V, NEW step \in [Nat -> [V -> V]]
  PROVE  \E f \in [Nat -> V] : Recurs(f, base, step)
<1> DEFINE Upto(n, g) == /\ g \in [0 .. n -> V] /\ g[0] = base
                         /\ \A k \in 0 .. n - 1 : g[k + 1] = step[k][g[k]]
           S == {n \in Nat : \E g : Upto(n, g)}
<1>1. 0 \in S
  <2>1. Upto(0, [k \in 0 .. 0 |-> base])
    OBVIOUS
  <2> QED BY <2>1
<1>2. ASSUME NEW n \in Nat, n \in S PROVE n + 1 \in S
  <2>1. PICK g : Upto(n, g)
    BY <1>2
  <2>2. PICK v \in V : v = step[n][g[n]]
    BY <2>1
  <2> DEFINE h == [k \in 0 .. n + 1 |-> IF k = n + 1 THEN v ELSE g[k]]
  <2>3. Upto(n + 1, h)
    <3>1. h \in [0 .. n + 1 -> V] /\ h[0] = base
      BY <2>1
    <3>2. ASSUME NEW k \in 0 .. n PROVE h[k + 1] = step[k][h[k]]
      <4>1. CASE k = n
        <5>1. n \in 0 .. n + 1 /\ n + 1 \in 0 .. n + 1 /\ n # n + 1
          OBVIOUS
        <5>2. h[n + 1] = v /\ h[n] = g[n]
          BY <5>1
        <5> HIDE DEF h
        <5> QED BY <4>1, <5>2, <2>2
      <4>2. CASE k # n
        <5>1. /\ k \in 0 .. n - 1 /\ k \in 0 .. n + 1 /\ k + 1 \in 0 .. n + 1
              /\ k # n + 1 /\ k + 1 # n + 1
          BY <4>2
        <5>2. h[k + 1] = g[k + 1] /\ h[k] = g[k]
          BY <5>1
        <5> HIDE DEF h
        <5> QED BY <5>1, <5>2, <2>1
      <4> QED BY <4>1, <4>2
    <3> HIDE DEF h
    <3> QED BY <3>1, <3>2
  <2> HIDE DEF h, Upto
  <2> QED BY <2>3
<1>3. Nat \subseteq S
  <2> HIDE DEF S
  <2> QED BY <1>1, <1>2, SetInduction
<1>4. ASSUME NEW n \in Nat, NEW m \in Nat, n <= m, NEW g, NEW h, Upto(n, g), Upto(m, h)
      PROVE  \A k \in 0 .. n : g[k] = h[k]
  <2> DEFINE T == {k \in Nat : k <= n => g[k] = h[k]}
  <2>1. 0 \in T
    BY <1>4
  <2>2. ASSUME NEW k \in Nat, k \in T PROVE k + 1 \in T
    <3> SUFFICES ASSUME k + 1 <= n PROVE g[k + 1] = h[k + 1]
      OBVIOUS
    <3>1. k \in 0 .. n - 1 /\ k \in 0 .. m - 1 /\ g[k] = h[k]
      BY <1>4, <2>2
    <3> QED BY <1>4, <3>1
  <2>3. Nat \subseteq T
    <3> HIDE DEF T
    <3> QED BY <2>1, <2>2, SetInduction
  <2> QED BY <2>3
<1> DEFINE A(n) == CHOOSE g : Upto(n, g)
           f == [n \in Nat |-> A(n)[n]]
<1>5. \A n \in Nat : Upto(n, A(n))
  BY <1>3
<1> HIDE DEF A, S
<1>6. f[0] = base /\ f \in [Nat -> V]
  BY <1>5
<1>7. ASSUME NEW n \in Nat PROVE f[n + 1] = step[n][f[n]]
  <2>1. Upto(n, A(n)) /\ Upto(n + 1, A(n + 1))
    <3> HIDE DEF Upto
    <3> QED BY <1>5
  <2>2. A(n)[n] = A(n + 1)[n]
    <3> HIDE DEF Upto
    <3> QED BY <1>4, <2>1
  <2>3. f[n + 1] = A(n + 1)[n + 1] /\ f[n] = A(n)[n] /\ n \in 0 .. (n + 1) - 1
    OBVIOUS
  <2>4. A(n + 1)[n + 1] = step[n][A(n + 1)[n]]
    BY <2>1, <2>3
  <2> HIDE DEF f
  <2> QED BY <2>2, <2>3, <2>4
<1>8. f = [n \in Nat |-> IF n = 0 THEN base ELSE step[n - 1][f[n - 1]]]
  <2>1. ASSUME NEW n \in Nat
        PROVE  f[n] = IF n = 0 THEN base ELSE step[n - 1][f[n - 1]]
    <3>1. CASE n = 0
      BY <1>6, <3>1
    <3>2. CASE n # 0
      <4>1. n - 1 \in Nat /\ (n - 1) + 1 = n
        BY <3>2
      <4> HIDE DEF f
      <4> QED BY <3>2, <1>7, <4>1
    <3> QED BY <3>1, <3>2
  <2> QED BY <2>1
<1> HIDE DEF f
<1> QED BY <1>6, <1>8 DEF Recurs

(* 2^n is the number of sets of numbers up to n; of those up to n + 1, half   *)
(* have n + 1 in them.                                                        *)
LEMMA Pow2Facts ==
  /\ Pow2(0) = 1
  /\ \A n \in Nat : Pow2(n) \in Nat \ {0} /\ Pow2(n + 1) = 2 * Pow2(n)
<1>1. ASSUME NEW n \in Nat
      PROVE  /\ IsFiniteSet(SUBSET (1 .. n)) /\ Cardinality(SUBSET (1 .. n)) = Pow2(n)
             /\ Pow2(n) \in Nat
  <2>1. IsFiniteSet(1 .. n) /\ Cardinality(1 .. n) = n
    BY FS_Interval
  <2>2. IsFiniteSet(SUBSET (1 .. n)) /\ Cardinality(SUBSET (1 .. n)) = 2^Cardinality(1 .. n)
    BY <2>1, FS_SUBSET
  <2>3. Cardinality(SUBSET (1 .. n)) = Pow2(n)
    BY <2>1, <2>2 DEF Pow2
  <2> QED BY <2>2, <2>3, FS_CardinalityType
<1>2. Pow2(0) = 1
  <2>1. SUBSET (1 .. 0) = {{}}
    OBVIOUS
  <2> QED BY <1>1, <2>1, FS_Singleton
<1>3. ASSUME NEW n \in Nat PROVE Pow2(n + 1) = 2 * Pow2(n)
  <2>1. PICK S, T : S = SUBSET (1 .. n) /\ T = {B \cup {n + 1} : B \in S}
    OBVIOUS
  <2>2. ExistsBijection(S, T)
    <3> DEFINE f == [B \in S |-> B \cup {n + 1}]
    <3>1. f \in Injection(S, T)
      <4>1. f \in [S -> T]
        BY <2>1
      <4>2. ASSUME NEW A \in S, NEW B \in S, f[A] = f[B] PROVE A = B
        <5>1. n + 1 \notin A /\ n + 1 \notin B
          BY <2>1
        <5>2. A \cup {n + 1} = B \cup {n + 1}
          BY <4>2
        <5> QED BY <5>1, <5>2
      <4> HIDE DEF f
      <4> QED BY <4>1, <4>2 DEF Injection, IsInjective
    <3>2. f \in Surjection(S, T)
      BY <2>1 DEF Surjection
    <3> QED BY <3>1, <3>2 DEF ExistsBijection, Bijection
  <2>3. IsFiniteSet(S) /\ Cardinality(S) = Pow2(n) /\ Pow2(n) \in Nat
    BY <1>1, <2>1
  <2>4. IsFiniteSet(T) /\ Cardinality(T) = Pow2(n)
    BY <2>2, <2>3, FS_Bijection
  <2>5. S \cap T = {} /\ S \cup T = SUBSET (1 .. n + 1)
    <3>1. ASSUME NEW X, X \in S, X \in T PROVE FALSE
      BY <2>1, <3>1
    <3>2. ASSUME NEW X \in SUBSET (1 .. n + 1) PROVE X \in S \cup T
      <4>1. CASE n + 1 \in X
        <5>1. X \ {n + 1} \in S /\ X = (X \ {n + 1}) \cup {n + 1}
          BY <2>1, <4>1
        <5> QED BY <2>1, <5>1
      <4>2. CASE n + 1 \notin X
        BY <2>1, <4>2
      <4> QED BY <4>1, <4>2
    <3>3. ASSUME NEW X \in S \cup T PROVE X \in SUBSET (1 .. n + 1)
      <4>1. 1 .. n \subseteq 1 .. n + 1 /\ n + 1 \in 1 .. n + 1
        OBVIOUS
      <4> QED BY <2>1, <3>3, <4>1
    <3> QED BY <3>1, <3>2, <3>3
  <2>6. Cardinality(S \cup T) = Cardinality(S) + Cardinality(T) - Cardinality(S \cap T)
    BY <2>3, <2>4, FS_Union
  <2>7. Cardinality(S \cap T) = 0
    BY <2>5, FS_EmptySet
  <2>8. Cardinality(S \cup T) = Pow2(n + 1)
    <3>1. PICK m \in Nat : m = n + 1
      OBVIOUS
    <3>2. Cardinality(SUBSET (1 .. m)) = Pow2(m)
      BY <1>1
    <3> QED BY <2>5, <3>1, <3>2
  <2> QED BY <2>3, <2>4, <2>6, <2>7, <2>8
<1> DEFINE T == {n \in Nat : Pow2(n) \in Nat \ {0}}
<1>4. 0 \in T
  BY <1>2
<1>5. \A n \in Nat : n \in T => n + 1 \in T
  BY <1>1, <1>3
<1>6. Nat \subseteq T
  <2> HIDE DEF T
  <2> QED BY <1>4, <1>5, SetInduction
<1> QED BY <1>2, <1>3, <1>6

LEMMA Pow2Monotone ==
  ASSUME NEW m \in Nat, NEW n \in Nat, m <= n PROVE Pow2(m) <= Pow2(n)
<1> DEFINE S == {d \in Nat : Pow2(m) <= Pow2(m + d)}
<1>1. 0 \in S
  <2>1. m + 0 = m /\ Pow2(m) \in Nat
    BY Pow2Facts
  <2> QED BY <2>1
<1>2. ASSUME NEW d \in Nat, d \in S PROVE d + 1 \in S
  <2>1. PICK k \in Nat : k = m + d /\ m + (d + 1) = k + 1
    OBVIOUS
  <2>2. Pow2(m) \in Nat /\ Pow2(k) \in Nat /\ Pow2(k + 1) = 2 * Pow2(k)
    BY Pow2Facts
  <2> QED BY <1>2, <2>1, <2>2
<1>3. Nat \subseteq S
  <2> HIDE DEF S
  <2> QED BY <1>1, <1>2, SetInduction
<1>4. PICK d \in Nat : n = m + d
  <2>1. n - m \in Nat /\ n = m + (n - m)
    OBVIOUS
  <2> QED BY <2>1
<1> QED BY <1>3, <1>4

(* The powers of a sum and a difference of exponents. *)
LEMMA Pow2Sum ==
  ASSUME NEW m \in Nat, NEW n \in Nat PROVE Pow2(m + n) = Pow2(m) * Pow2(n)
<1> DEFINE S == {d \in Nat : Pow2(m + d) = Pow2(m) * Pow2(d)}
<1>1. 0 \in S
  <2>1. m + 0 = m /\ Pow2(m) \in Nat /\ Pow2(0) = 1
    BY Pow2Facts
  <2> QED BY <2>1
<1>2. ASSUME NEW d \in Nat, d \in S PROVE d + 1 \in S
  <2>1. PICK k \in Nat : k = m + d /\ m + (d + 1) = k + 1
    OBVIOUS
  <2>2. PICK p \in Nat, q \in Nat : p = Pow2(m) /\ q = Pow2(d) /\ Pow2(d + 1) = 2 * q
    BY Pow2Facts
  <2>3. Pow2(k) = p * q /\ Pow2(k + 1) = 2 * Pow2(k)
    BY <1>2, <2>1, <2>2, Pow2Facts
  <2>4. 2 * (p * q) = p * (2 * q)
    OBVIOUS
  <2> QED BY <2>1, <2>2, <2>3, <2>4
<1>3. Nat \subseteq S
  <2> HIDE DEF S
  <2> QED BY <1>1, <1>2, SetInduction
<1> QED BY <1>3

-----------------------------------------------------------------------------
(* Remainders. *)

(* Division with a remainder. *)
LEMMA DivMod ==
  ASSUME NEW x \in Int, NEW m \in Nat \ {0}
  PROVE  /\ x \div m \in Int /\ x % m \in 0 .. m - 1
         /\ x = m * (x \div m) + (x % m)
  OBVIOUS

(* A multiple of m below m in magnitude is zero. *)
LEMMA SmallMultiple ==
  ASSUME NEW m \in Nat \ {0}, NEW q \in Int, m * q < m, m * q > -m
  PROVE  q = 0
<1>1. CASE q >= 1
  BY <1>1
<1>2. CASE q <= -1
  BY <1>2
<1> QED BY <1>1, <1>2

LEMMA ModMultiple ==
  ASSUME NEW m \in Nat \ {0}, NEW q \in Int
  PROVE  (m * q) % m = 0
<1>1. PICK d \in Int, r \in 0 .. m - 1 : m * q = m * d + r /\ r = (m * q) % m
  BY DivMod
<1>2. m * (q - d) = r
  BY <1>1
<1>3. q - d = 0
  BY <1>2, SmallMultiple
<1> QED BY <1>1, <1>2, <1>3

(* The remainder, and the quotient, are the only ones there are. *)
LEMMA RemainderIs ==
  ASSUME NEW m \in Nat \ {0}, NEW q \in Int, NEW r \in 0 .. m - 1, NEW x \in Int, x = m * q + r
  PROVE  x % m = r /\ x \div m = q
<1>1. PICK d \in Int, e \in 0 .. m - 1 : x = m * d + e /\ d = x \div m /\ e = x % m
  BY DivMod
<1>2. m * (q - d) = e - r
  BY <1>1
<1>3. q - d = 0
  BY <1>2, SmallMultiple
<1>4. m * (q - d) = 0
  BY <1>3
<1> QED BY <1>1, <1>2, <1>3, <1>4

(* Numbers closer than m and equal modulo m are equal. *)
LEMMA ModZero ==
  ASSUME NEW m \in Nat \ {0}, NEW x \in Int, NEW y \in Int, (x - y) % m = 0,
         x - y < m, y - x < m
  PROVE  x = y
<1>1. x - y = m * ((x - y) \div m)
  BY DivMod
<1> QED BY <1>1, SmallMultiple

(* Numbers a multiple of m apart have the same remainder, and those with the  *)
(* same remainder are a multiple of m apart.                                  *)
Congruent(m, x, y) == \E k \in Int : x = y + m * k

LEMMA SameRemainder ==
  ASSUME NEW m \in Nat \ {0}, NEW x \in Int, NEW y \in Int
  PROVE  x % m = y % m <=> Congruent(m, x, y)
<1>1. ASSUME NEW k \in Int, x = y + m * k PROVE x % m = y % m
  <2>1. PICK q \in Int, t \in 0 .. m - 1 : y = m * q + t /\ t = y % m
    BY DivMod
  <2>2. PICK d \in Int, e \in 0 .. m - 1 : x = m * d + e /\ e = x % m
    BY DivMod
  <2>3. PICK j \in Int : j = d - q - k
    OBVIOUS
  <2>4. m * j = m * d - m * q - m * k
    BY <2>3
  <2>5. m * j = t - e
    <3>1. PICK u \in Int, v \in Int, z \in Int : u = m * d /\ v = m * q /\ z = m * k
      OBVIOUS
    <3>2. x = y + z /\ y = v + t /\ x = u + e
      BY <1>1, <2>1, <2>2, <3>1
    <3>3. m * j = u - v - z
      BY <2>4, <3>1
    <3> QED BY <3>2, <3>3
  <2>6. j = 0
    <3>1. m * j < m /\ m * j > -m
      BY <2>5
    <3> QED BY <3>1, SmallMultiple
  <2>7. t = e
    <3>1. m * j = 0
      BY <2>6
    <3> QED BY <2>5, <3>1
  <2> QED BY <2>1, <2>2, <2>7
<1>2. ASSUME x % m = y % m PROVE \E k \in Int : x = y + m * k
  <2>1. PICK q \in Int, p \in Int, t \in 0 .. m - 1 : x = m * q + t /\ y = m * p + t
    BY <1>2, DivMod, ZenonT(60)
  <2>2. x = y + m * (q - p) /\ q - p \in Int
    BY <2>1
  <2> QED BY <2>2
<1> QED BY <1>1, <1>2 DEF Congruent

(* Sums and differences of congruent numbers are congruent. *)
LEMMA ModSum ==
  ASSUME NEW m \in Nat \ {0}, NEW x \in Int, NEW y \in Int, NEW u \in Int, NEW v \in Int,
         Congruent(m, x, u), Congruent(m, y, v)
  PROVE  (x + y) % m = (u + v) % m /\ (x - y) % m = (u - v) % m
<1>1. PICK j \in Int, k \in Int : x = u + m * j /\ y = v + m * k
  BY DEF Congruent
<1>2. PICK l \in Int, n \in Int : l = j + k /\ n = j - k
  OBVIOUS
<1>3. m * l = m * j + m * k /\ m * n = m * j - m * k
  BY <1>2
<1>4. x + y = (u + v) + m * l /\ x - y = (u - v) + m * n
  BY <1>1, <1>3
<1>5. Congruent(m, x + y, u + v) /\ Congruent(m, x - y, u - v)
  BY <1>4 DEF Congruent
<1>6. x + y \in Int /\ u + v \in Int /\ x - y \in Int /\ u - v \in Int
  OBVIOUS
<1> QED BY <1>5, <1>6, SameRemainder, Zenon

(* A remainder is its own remainder. *)
LEMMA ModSmall ==
  ASSUME NEW m \in Nat \ {0}, NEW x \in 0 .. m - 1
  PROVE  x % m = x
<1>1. PICK q \in Int, r \in 0 .. m - 1 : x = m * q + r /\ r = x % m
  BY DivMod
<1>2. m * q < m /\ m * q > -m
  BY <1>1
<1>3. q = 0
  BY <1>2, SmallMultiple
<1>4. m * q = 0
  BY <1>3
<1> QED BY <1>1, <1>4

LEMMA ProductMonotone ==
  ASSUME NEW x \in Nat, NEW u \in Nat, NEW y \in Nat, NEW v \in Nat, x <= u, y <= v
  PROVE  x * y <= u * v
<1>1. PICK d \in Nat, e \in Nat : u = x + d /\ v = y + e
  <2>1. u - x \in Nat /\ v - y \in Nat /\ u = x + (u - x) /\ v = y + (v - y)
    OBVIOUS
  <2> QED BY <2>1
<1>2. u * v = x * y + (x * e + d * y + d * e)
  BY <1>1
<1>3. x * e \in Nat /\ d * y \in Nat /\ d * e \in Nat /\ x * y \in Nat
  OBVIOUS
<1> QED BY <1>2, <1>3

LEMMA DivMonotone ==
  ASSUME NEW m \in Nat \ {0}, NEW x \in Int, NEW y \in Int, x <= y
  PROVE  x \div m <= y \div m
<1>1. PICK p \in Int, s \in 0 .. m - 1 : p = x \div m /\ x = m * p + s
  BY DivMod
<1>2. PICK q \in Int, t \in 0 .. m - 1 : q = y \div m /\ y = m * q + t
  BY DivMod
<1>3. SUFFICES ASSUME q < p PROVE FALSE
  BY <1>1, <1>2
<1>4. PICK d \in Nat : p = q + 1 + d
  <2>1. p - q - 1 \in Nat /\ p = q + 1 + (p - q - 1)
    BY <1>3
  <2> QED BY <2>1
<1>5. m * p = m * q + m + m * d /\ m * d \in Nat
  BY <1>4
<1> QED BY <1>1, <1>2, <1>5

(* Dividing a number makes it no larger. *)
LEMMA DivSmaller ==
  ASSUME NEW m \in Nat \ {0}, NEW x \in Nat
  PROVE  x \div m \in Nat /\ x \div m <= x
<1>1. PICK q \in Int, t \in 0 .. m - 1 : q = x \div m /\ x = m * q + t
  BY DivMod
<1>2. q >= 0
  <2> SUFFICES ASSUME q < 0 PROVE FALSE
    BY <1>1
  <2>1. PICK d \in Nat : q = -1 - d
    <3>1. -1 - q \in Nat /\ q = -1 - (-1 - q)
      OBVIOUS
    <3> QED BY <3>1
  <2>2. m * q = -m - m * d /\ m * d \in Nat
    BY <2>1
  <2> QED BY <1>1, <2>2
<1>3. PICK e \in Nat : m = 1 + e
  <2>1. m - 1 \in Nat /\ m = 1 + (m - 1)
    OBVIOUS
  <2> QED BY <2>1
<1>4. m * q = q + e * q /\ e * q \in Nat
  BY <1>2, <1>3
<1> QED BY <1>1, <1>2, <1>4

(* Dividing twice. *)
LEMMA DivTwice ==
  ASSUME NEW m \in Nat \ {0}, NEW n \in Nat \ {0}, NEW x \in Int
  PROVE  (x \div m) \div n = x \div (m * n)
<1>1. PICK q \in Int, s \in 0 .. m - 1 : q = x \div m /\ x = m * q + s
  BY DivMod
<1>2. PICK p \in Int, t \in 0 .. n - 1 : p = q \div n /\ q = n * p + t
  BY DivMod
<1>3. PICK e \in Nat \ {0} : e = m * n
  <2>1. m * n \in Nat /\ m * n # 0
    OBVIOUS
  <2> QED BY <2>1
<1>4. x = e * p + (m * t + s)
  <2>1. m * (n * p + t) = (m * n) * p + m * t
    OBVIOUS
  <2>2. m * q = (m * n) * p + m * t
    BY <1>2, <2>1
  <2>3. (m * n) * p = e * p
    BY <1>3
  <2> QED BY <1>1, <1>3, <2>2, <2>3
<1>5. m * t + s \in 0 .. e - 1
  <2>1. PICK d \in Nat : n = t + 1 + d
    <3>1. n - t - 1 \in Nat /\ n = t + 1 + (n - t - 1)
      OBVIOUS
    <3> QED BY <3>1
  <2>2. e = m * t + m + m * d /\ m * d \in Nat /\ m * t \in Nat
    BY <1>3, <2>1
  <2> QED BY <2>2
<1>6. PICK u \in 0 .. e - 1 : u = m * t + s
  BY <1>5
<1>7. x \div e = p
  BY <1>4, <1>6, RemainderIs
<1> QED BY <1>1, <1>2, <1>3, <1>7
=============================================================================
