---------------------------- MODULE DomainProofs ----------------------------
(***************************************************************************)
(* Soundness of the domain for every width: bit patterns and the numbers   *)
(* they stand for; the values of a type; what abstract integers allow and  *)
(* what making one keeps; narrowing; casts; single bits and the operators; *)
(* comparisons and the join; and the invariant from which the properties   *)
(* of MCDomain follow.                                                     *)
(***************************************************************************)
EXTENDS MCDomain, Arithmetic

-----------------------------------------------------------------------------
(* Bit patterns and their numbers. *)

(* A pattern of n + 1 bits is one of n bits and its highest. *)
LEMMA NumberFacts ==
  ASSUME NEW B
  PROVE  /\ Number(0, B) = 0
         /\ \A n \in Nat :
              /\ Number(n, B) \in Nat /\ Number(n, B) < Pow2(n)
              /\ Number(n + 1, B) = Number(n, B) + (IF n \in B THEN Pow2(n) ELSE 0)
<1> DEFINE step == [n \in Nat |-> [v \in Nat |-> v + (IF n \in B THEN Pow2(n) ELSE 0)]]
           Fixed(f) == f = [n \in Nat |-> IF n = 0 THEN 0
                                          ELSE f[n - 1] + (IF n - 1 \in B THEN Pow2(n - 1) ELSE 0)]
<1>1. step \in [Nat -> [Nat -> Nat]]
  BY Pow2Facts
<1>2. PICK f \in [Nat -> Nat] : Recurs(f, 0, step)
  <2> HIDE DEF step
  <2> QED BY <1>1, RecursionSolved
<1>3. Fixed(f)
  <2>1. ASSUME NEW n \in Nat
        PROVE  f[n] = IF n = 0 THEN 0 ELSE f[n - 1] + (IF n - 1 \in B THEN Pow2(n - 1) ELSE 0)
    <3>1. CASE n = 0
      BY <1>2, <3>1 DEF Recurs
    <3>2. CASE n # 0
      <4>1. n - 1 \in Nat /\ f[n - 1] \in Nat
        BY <3>2
      <4>2. step[n - 1][f[n - 1]] = f[n - 1] + (IF n - 1 \in B THEN Pow2(n - 1) ELSE 0)
        BY <4>1
      <4> HIDE DEF step
      <4> QED BY <1>2, <3>2, <4>2 DEF Recurs
    <3> QED BY <3>1, <3>2
  <2> QED BY <2>1
<1>4. PICK g : Fixed(g) /\ \A n : Number(n, B) = g[n]
  <2>1. \A n : Number(n, B) = (CHOOSE g : Fixed(g))[n]
    BY Zenon DEF Number
  <2> HIDE DEF Fixed
  <2> QED BY <1>3, <2>1
<1>5. \A n \in Nat : g[n] = IF n = 0 THEN 0 ELSE g[n - 1] + (IF n - 1 \in B THEN Pow2(n - 1) ELSE 0)
  BY <1>4
<1>6. g[0] = 0 /\ \A n \in Nat : g[n + 1] = g[n] + (IF n \in B THEN Pow2(n) ELSE 0)
  <2>1. ASSUME NEW n \in Nat PROVE g[n + 1] = g[n] + (IF n \in B THEN Pow2(n) ELSE 0)
    <3>1. n + 1 \in Nat /\ n + 1 # 0 /\ (n + 1) - 1 = n
      OBVIOUS
    <3> QED BY <1>5, <3>1
  <2> QED BY <1>5, <2>1
<1> DEFINE T == {n \in Nat : g[n] \in Nat /\ g[n] < Pow2(n)}
<1>7. 0 \in T
  BY <1>6, Pow2Facts, SMTT(60)
<1>8. ASSUME NEW n \in Nat, n \in T PROVE n + 1 \in T
  <2>1. Pow2(n) \in Nat /\ Pow2(n + 1) = 2 * Pow2(n)
    BY Pow2Facts
  <2>2. g[n] \in Nat /\ g[n] < Pow2(n)
    BY <1>8
  <2> QED BY <1>6, <2>1, <2>2
<1>9. Nat \subseteq T
  <2> HIDE DEF T
  <2> QED BY <1>7, <1>8, SetInduction
<1> QED BY <1>4, <1>6, <1>9

LEMMA NumberStep ==
  ASSUME NEW n \in Nat, NEW B
  PROVE  /\ Pow2(n) \in Nat /\ Number(n, B) \in Nat /\ Number(n, B) < Pow2(n)
         /\ n \in B => Number(n + 1, B) = Number(n, B) + Pow2(n)
         /\ n \notin B => Number(n + 1, B) = Number(n, B)
<1>1. /\ Number(n, B) \in Nat /\ Number(n, B) < Pow2(n)
      /\ Number(n + 1, B) = Number(n, B) + (IF n \in B THEN Pow2(n) ELSE 0)
  BY NumberFacts
<1>2. Pow2(n) \in Nat
  BY Pow2Facts
<1> QED BY <1>1, <1>2

(* More bits make a larger number. *)
LEMMA NumberMonotone ==
  ASSUME NEW w \in Nat, NEW B, NEW C, \A k \in Ones(w) : k \in B => k \in C
  PROVE  Number(w, B) <= Number(w, C)
<1> DEFINE S == {n \in Nat : n <= w => Number(n, B) <= Number(n, C)}
<1>1. 0 \in S
  BY NumberFacts
<1>2. ASSUME NEW n \in Nat, n \in S PROVE n + 1 \in S
  <2> SUFFICES ASSUME n + 1 <= w PROVE Number(n + 1, B) <= Number(n + 1, C)
    OBVIOUS
  <2>1. Number(n, B) <= Number(n, C) /\ (n \in B => n \in C)
    BY <1>2 DEF Ones
  <2>2. /\ Pow2(n) \in Nat /\ Number(n, B) \in Nat /\ Number(n, C) \in Nat
        /\ Number(n + 1, B) = Number(n, B) + (IF n \in B THEN Pow2(n) ELSE 0)
        /\ Number(n + 1, C) = Number(n, C) + (IF n \in C THEN Pow2(n) ELSE 0)
    BY NumberFacts, Pow2Facts
  <2> QED BY <2>1, <2>2
<1>3. Nat \subseteq S
  <2> HIDE DEF S
  <2> QED BY <1>1, <1>2, SetInduction
<1> QED BY <1>3

(* Patterns that agree from bit n on differ by what they do below. *)
LEMMA NumberAbove ==
  ASSUME NEW w \in Nat, NEW n \in Nat, n <= w, NEW B, NEW C,
         \A k \in Ones(w) : k >= n => (k \in B <=> k \in C)
  PROVE  Number(w, B) - Number(n, B) = Number(w, C) - Number(n, C)
<1> DEFINE S == {m \in Nat : n + m <= w =>
                   Number(n + m, B) - Number(n, B) = Number(n + m, C) - Number(n, C)}
<1>1. 0 \in S
  <2>1. Number(n, B) \in Nat /\ Number(n, C) \in Nat
    BY NumberFacts
  <2>2. n + 0 = n
    OBVIOUS
  <2> QED BY <2>1, <2>2
<1>2. ASSUME NEW m \in Nat, m \in S PROVE m + 1 \in S
  <2> SUFFICES ASSUME n + (m + 1) <= w
               PROVE  Number(n + (m + 1), B) - Number(n, B)
                        = Number(n + (m + 1), C) - Number(n, C)
    OBVIOUS
  <2>1. /\ Number(n + m, B) - Number(n, B) = Number(n + m, C) - Number(n, C)
        /\ n + m \in B <=> n + m \in C
    BY <1>2 DEF Ones
  <2>2. PICK l \in Nat : l = n + m /\ n + (m + 1) = l + 1
    OBVIOUS
  <2>3. /\ Pow2(l) \in Nat /\ Number(l, B) \in Nat /\ Number(l, C) \in Nat
        /\ Number(n, B) \in Nat /\ Number(n, C) \in Nat
        /\ Number(l + 1, B) = Number(l, B) + (IF l \in B THEN Pow2(l) ELSE 0)
        /\ Number(l + 1, C) = Number(l, C) + (IF l \in C THEN Pow2(l) ELSE 0)
    BY NumberFacts, Pow2Facts
  <2> QED BY <2>1, <2>2, <2>3
<1>3. Nat \subseteq S
  <2> HIDE DEF S
  <2> QED BY <1>1, <1>2, SetInduction
<1>4. PICK m \in Nat : n + m = w
  <2>1. w - n \in Nat /\ n + (w - n) = w
    OBVIOUS
  <2> QED BY <2>1
<1> QED BY <1>3, <1>4

(* Only the bits below w count. *)
LEMMA NumberSame ==
  ASSUME NEW w \in Nat, NEW B, NEW C, \A k \in Ones(w) : k \in B <=> k \in C
  PROVE  Number(w, B) = Number(w, C)
<1>1. Number(w, B) - Number(0, B) = Number(w, C) - Number(0, C)
  BY NumberAbove
<1> QED BY <1>1, NumberFacts

(* The numbers between two that agree from bit n on agree with them.          *)
LEMMA NumberBetween ==
  ASSUME NEW w \in Nat, NEW n \in Nat, NEW L, NEW V, NEW H,
         Number(w, L) <= Number(w, V), Number(w, V) <= Number(w, H),
         \A k \in Ones(w) : k >= n => (k \in L <=> k \in H)
  PROVE  \A k \in Ones(w) : k >= n => (k \in V <=> k \in L)
<1> DEFINE In(m) == /\ Number(m, L) <= Number(m, V) /\ Number(m, V) <= Number(m, H)
                    /\ \A k \in Ones(w) : k >= m /\ k >= n => (k \in V <=> k \in L)
           S == {d \in Nat : w - d >= n => d <= w /\ In(w - d)}
<1>1. 0 \in S
  <2>1. In(w) /\ w - 0 = w
    BY DEF Ones
  <2> HIDE DEF In
  <2> QED BY <2>1
<1>2. ASSUME NEW d \in Nat, d \in S PROVE d + 1 \in S
  <2> SUFFICES ASSUME w - (d + 1) >= n PROVE d + 1 <= w /\ In(w - (d + 1))
    OBVIOUS
  <2>1. PICK m \in Nat : m = w - (d + 1) /\ m >= n /\ m + 1 = w - d /\ m \in Ones(w)
    <3>1. w - (d + 1) \in Nat /\ (w - (d + 1)) + 1 = w - d /\ w - (d + 1) \in 0 .. w - 1
      OBVIOUS
    <3> QED BY <3>1 DEF Ones
  <2>2. In(m + 1)
    BY <1>2, <2>1
  <2>3. m \in L <=> m \in H
    BY <2>1
  <2>4. (m \in V <=> m \in L) /\ Number(m, L) <= Number(m, V) /\ Number(m, V) <= Number(m, H)
    <3>1. \A X \in {L, V, H} :
             /\ Pow2(m) \in Nat /\ Number(m, X) \in Nat /\ Number(m, X) < Pow2(m)
             /\ Number(m + 1, X) = Number(m, X) + (IF m \in X THEN Pow2(m) ELSE 0)
      BY NumberFacts, Pow2Facts
    <3>2. Number(m + 1, L) <= Number(m + 1, V) /\ Number(m + 1, V) <= Number(m + 1, H)
      BY <2>2
    <3> QED BY <2>3, <3>1, <3>2
  <2>5. ASSUME NEW k \in Ones(w), k >= m, k >= n PROVE k \in V <=> k \in L
    <3>1. CASE k = m
      BY <2>4, <3>1
    <3>2. CASE k # m
      <4>1. k >= m + 1
        BY <2>5, <3>2 DEF Ones
      <4> QED BY <2>2, <2>5, <4>1
    <3> QED BY <3>1, <3>2
  <2>6. In(m)
    BY <2>4, <2>5
  <2> HIDE DEF In
  <2> QED BY <2>1, <2>6
<1>3. Nat \subseteq S
  <2> HIDE DEF S
  <2> QED BY <1>1, <1>2, SetInduction
<1>4. CASE n >= w
  BY <1>4 DEF Ones
<1>5. CASE n < w
  <2>1. w - n \in Nat /\ w - (w - n) = n
    BY <1>5
  <2>2. In(n)
    <3>1. w - n \in S
      BY <1>3, <2>1
    <3> HIDE DEF In
    <3> QED BY <2>1, <3>1
  <2> QED BY <2>2
<1> QED BY <1>4, <1>5

(* A number of w bits has one pattern. *)
LEMMA NumberInjective ==
  ASSUME NEW w \in Nat, NEW B, NEW C, Number(w, B) = Number(w, C)
  PROVE  \A k \in Ones(w) : k \in B <=> k \in C
<1>1. /\ Number(w, B) <= Number(w, C) /\ Number(w, C) <= Number(w, B) /\ 0 \in Nat
      /\ \A k \in Ones(w) : k >= 0 => (k \in B <=> k \in B)
  BY NumberFacts
<1>2. \A k \in Ones(w) : k >= 0 => (k \in C <=> k \in B)
  BY <1>1, NumberBetween, Zenon
<1> QED BY <1>2 DEF Ones


(* The pattern of v has the number v modulo 2^w. *)
LEMMA NumberOfBits ==
  ASSUME NEW w \in Nat, NEW v \in Int
  PROVE  Number(w, ToBits(w, v)) = v % Pow2(w)
<1> DEFINE S == {n \in Nat : n <= w => Number(n, ToBits(w, v)) = v % Pow2(n)}
<1>1. 0 \in S
  <2>1. v % Pow2(0) = 0
    BY Pow2Facts
  <2> QED BY <2>1, NumberFacts
<1>2. ASSUME NEW n \in Nat, n \in S PROVE n + 1 \in S
  <2> SUFFICES ASSUME n + 1 <= w PROVE Number(n + 1, ToBits(w, v)) = v % Pow2(n + 1)
    OBVIOUS
  <2>1. PICK p \in Nat \ {0} : p = Pow2(n) /\ Pow2(n + 1) = 2 * p
    BY Pow2Facts
  <2>2. PICK q \in Int, r \in 0 .. p - 1 : q = v \div p /\ r = v % p /\ v = p * q + r
    BY DivMod
  <2>3. PICK e \in Int, t \in 0 .. 1 : t = q % 2 /\ q = 2 * e + t
    BY DivMod
  <2>4. n \in ToBits(w, v) <=> t = 1
    <3>1. n \in Ones(w) /\ q = v \div Pow2(n) /\ t = q % 2
      BY <2>1, <2>2, <2>3 DEF Ones
    <3> QED BY <3>1, Zenon DEF ToBits
  <2>5. Number(n, ToBits(w, v)) = r
    BY <1>2, <2>1, <2>2
  <2>6. Number(n + 1, ToBits(w, v)) = r + (IF t = 1 THEN p ELSE 0)
    BY <2>1, <2>4, <2>5, NumberStep
  <2>7. v % (2 * p) = r + (IF t = 1 THEN p ELSE 0)
    <3>1. PICK u \in 0 .. 2 * p - 1 : u = r + (IF t = 1 THEN p ELSE 0)
      OBVIOUS
    <3>2. p * (2 * e + t) = (2 * p) * e + p * t /\ p * t = IF t = 1 THEN p ELSE 0
      <4>1. t = 0 \/ t = 1
        OBVIOUS
      <4>2. p * (2 * e) = (2 * p) * e
        OBVIOUS
      <4> QED BY <4>1, <4>2
    <3>3. v = (2 * p) * e + u
      <4>1. v = p * (2 * e + t) + r
        BY <2>2, <2>3
      <4> QED BY <3>1, <3>2, <4>1
    <3>4. PICK m \in Nat \ {0} : m = 2 * p
      OBVIOUS
    <3>5. v = m * e + u /\ u \in 0 .. m - 1
      BY <3>1, <3>3, <3>4
    <3>6. v % m = u
      BY <3>5, RemainderIs
    <3> QED BY <3>1, <3>4, <3>6
  <2> QED BY <2>1, <2>6, <2>7
<1>3. Nat \subseteq S
  <2> HIDE DEF S
  <2> QED BY <1>1, <1>2, SetInduction
<1> QED BY <1>3

(* The pattern of a number of w bits is the one it is the number of. *)
LEMMA BitsOfNumber ==
  ASSUME NEW w \in Nat, NEW B, B \subseteq Ones(w)
  PROVE  ToBits(w, Number(w, B)) = B
<1>1. PICK n \in Nat : n = Number(w, B) /\ n < Pow2(w) /\ Pow2(w) \in Nat \ {0}
  BY NumberFacts, Pow2Facts, ZenonT(60)
<1>2. n % Pow2(w) = n
  BY <1>1
<1>3. Number(w, ToBits(w, n)) = Number(w, B)
  BY <1>1, <1>2, NumberOfBits
<1>4. \A k \in Ones(w) : k \in ToBits(w, n) <=> k \in B
  BY <1>3, NumberInjective
<1> QED BY <1>1, <1>4 DEF ToBits

(* Numbers equal modulo 2^w have the same w bits. *)
LEMMA BitsModulo ==
  ASSUME NEW w \in Nat, NEW u \in Int, NEW v \in Int, u % Pow2(w) = v % Pow2(w)
  PROVE  ToBits(w, u) = ToBits(w, v)
<1>1. Number(w, ToBits(w, u)) = Number(w, ToBits(w, v))
  BY NumberOfBits
<1>2. \A k \in Ones(w) : k \in ToBits(w, u) <=> k \in ToBits(w, v)
  BY <1>1, NumberInjective
<1> QED BY <1>2 DEF ToBits

-----------------------------------------------------------------------------
(* The values of a type. *)

Type(signed, w) == TypeLo(signed, w) .. TypeHi(signed, w)

LEMMA TypeFacts ==
  ASSUME NEW signed \in BOOLEAN, NEW w \in Nat \ {0}
  PROVE  \E h \in Nat \ {0} :
           /\ h = Pow2(w - 1) /\ Pow2(w) = 2 * h
           /\ TypeLo(signed, w) = (IF signed THEN 0 - h ELSE 0)
           /\ TypeHi(signed, w) = (IF signed THEN h - 1 ELSE 2 * h - 1)
<1>1. w - 1 \in Nat /\ (w - 1) + 1 = w
  OBVIOUS
<1>2. PICK h \in Nat \ {0} : h = Pow2(w - 1) /\ Pow2(w) = 2 * h
  BY <1>1, Pow2Facts
<1> QED BY <1>2 DEF TypeLo, TypeHi

LEMMA TypeEnds ==
  ASSUME NEW signed \in BOOLEAN, NEW w \in Nat \ {0}
  PROVE  /\ TypeLo(signed, w) \in Int /\ TypeHi(signed, w) \in Int
         /\ TypeLo(signed, w) <= 0 /\ 0 <= TypeHi(signed, w)
<1>1. PICK h \in Nat \ {0} : /\ TypeLo(signed, w) = (IF signed THEN 0 - h ELSE 0)
                            /\ TypeHi(signed, w) = (IF signed THEN h - 1 ELSE 2 * h - 1)
  BY TypeFacts, ZenonT(60)
<1>2. CASE signed
  BY <1>1, <1>2
<1>3. CASE ~signed
  BY <1>1, <1>3
<1> QED BY <1>2, <1>3

(* Wrapping is into the type, is equal modulo 2^w, and leaves what is in the  *)
(* type as it is.                                                             *)
LEMMA WrapFacts ==
  ASSUME NEW signed \in BOOLEAN, NEW w \in Nat \ {0}, NEW v \in Int
  PROVE  /\ Wrap(signed, w, v) \in Type(signed, w)
         /\ Wrap(signed, w, v) \in Int
         /\ Wrap(signed, w, v) % Pow2(w) = v % Pow2(w)
         /\ ToBits(w, Wrap(signed, w, v)) = ToBits(w, v)
         /\ v \in Type(signed, w) => Wrap(signed, w, v) = v
<1>1. PICK h \in Nat \ {0} :
        /\ h = Pow2(w - 1) /\ Pow2(w) = 2 * h
        /\ TypeLo(signed, w) = (IF signed THEN 0 - h ELSE 0)
        /\ TypeHi(signed, w) = (IF signed THEN h - 1 ELSE 2 * h - 1)
  BY TypeFacts
<1>m. PICK m \in Nat \ {0} : m = 2 * h
  OBVIOUS
<1>2. PICK q \in Int, n \in 0 .. m - 1 : n = v % m /\ v = m * q + n
  BY DivMod
<1>3. PICK x \in Int : x = Wrap(signed, w, v) /\ x = IF signed /\ n >= h THEN n - m ELSE n
  BY <1>1, <1>m, <1>2 DEF Wrap
<1>d. PICK d \in Int : x = m * d + n
  <2>1. m * 0 = 0 /\ m * (-1) = -m
    OBVIOUS
  <2> QED BY <1>3, <2>1
<1>4. x % m = n
  BY <1>d, RemainderIs
<1>5. ToBits(w, x) = ToBits(w, v)
  BY <1>1, <1>m, <1>2, <1>4, BitsModulo
<1>6. ASSUME v \in Type(signed, w) PROVE x = v
  <2>1. (v - x) % m = 0
    <3>1. v - x = m * (q - d) /\ q - d \in Int
      BY <1>2, <1>d, SMTT(60)
    <3>2. (m * (q - d)) % m = 0
      BY <3>1, ModMultiple
    <3> QED BY <3>1, <3>2
  <2>2. v - x < m /\ x - v < m
    <3>1. n \in Int /\ 0 <= n /\ n < m /\ m = 2 * h /\ x = IF signed /\ n >= h THEN n - m ELSE n
      BY <1>m, <1>3
    <3>2. CASE signed
      BY <1>1, <1>6, <3>1, <3>2 DEF Type
    <3>3. CASE ~signed
      BY <1>1, <1>6, <3>1, <3>3 DEF Type
    <3> QED BY <3>2, <3>3
  <2> QED BY <2>1, <2>2, ModZero
<1>7. x \in Type(signed, w)
  <2>1. n \in Int /\ 0 <= n /\ n < m /\ m = 2 * h /\ x = IF signed /\ n >= h THEN n - m ELSE n
    BY <1>m, <1>3
  <2>2. CASE signed
    BY <1>1, <2>1, <2>2 DEF Type
  <2>3. CASE ~signed
    BY <1>1, <2>1, <2>3 DEF Type
  <2> QED BY <2>2, <2>3
<1> QED BY <1>1, <1>m, <1>2, <1>3, <1>4, <1>5, <1>6, <1>7

(* Reading a pattern as a value of the type: into the type, and what has the  *)
(* bits of v is v wrapped.                                                    *)
LEMMA FromBitsFacts ==
  ASSUME NEW signed \in BOOLEAN, NEW w \in Nat \ {0}, NEW B
  PROVE  /\ FromBits(signed, w, B) \in Type(signed, w) /\ FromBits(signed, w, B) \in Int
         /\ FromBits(signed, w, B) =
              IF signed THEN Number(w - 1, B) - (IF Sign(w) \in B THEN Pow2(w - 1) ELSE 0)
              ELSE Number(w, B)
         /\ \A v \in Int : B = ToBits(w, v) => FromBits(signed, w, B) = Wrap(signed, w, v)
<1>1. PICK h \in Nat \ {0} :
        /\ h = Pow2(w - 1) /\ Pow2(w) = 2 * h
        /\ TypeLo(signed, w) = (IF signed THEN 0 - h ELSE 0)
        /\ TypeHi(signed, w) = (IF signed THEN h - 1 ELSE 2 * h - 1)
  BY TypeFacts
<1>2. w - 1 \in Nat /\ (w - 1) + 1 = w /\ Sign(w) = w - 1
  BY DEF Sign
<1>3. PICK m \in 0 .. h - 1, n \in 0 .. 2 * h - 1 :
        /\ m = Number(w - 1, B) /\ n = Number(w, B)
        /\ n = m + (IF Sign(w) \in B THEN h ELSE 0)
  <2>1. PICK p \in Nat : p = w - 1 /\ p + 1 = w
    BY <1>2
  <2>2. /\ Number(p, B) \in Nat /\ Number(p, B) < Pow2(p)
        /\ Number(p + 1, B) = Number(p, B) + (IF p \in B THEN Pow2(p) ELSE 0)
    BY NumberFacts
  <2> QED BY <1>1, <1>2, <2>1, <2>2
<1>4. FromBits(signed, w, B) = n - (IF signed /\ Sign(w) \in B THEN 2 * h ELSE 0)
  BY <1>1, <1>3 DEF FromBits
<1>5. ASSUME NEW v \in Int, B = ToBits(w, v) PROVE FromBits(signed, w, B) = Wrap(signed, w, v)
  <2>1. v % Pow2(w) = n
    BY <1>3, <1>5, NumberOfBits
  <2> QED BY <1>1, <1>3, <1>4, <2>1 DEF Wrap
<1>6. FromBits(signed, w, B) \in Type(signed, w) /\ FromBits(signed, w, B) \in Int
  <2>1. CASE signed
    BY <1>1, <1>3, <1>4, <2>1 DEF Type
  <2>2. CASE ~signed
    BY <1>1, <1>3, <1>4, <2>2 DEF Type
  <2> QED BY <2>1, <2>2
<1>7. FromBits(signed, w, B) =
        IF signed THEN Number(w - 1, B) - (IF Sign(w) \in B THEN Pow2(w - 1) ELSE 0)
        ELSE Number(w, B)
  BY <1>1, <1>3, <1>4
<1> QED BY <1>5, <1>6, <1>7

(* One pattern is a smaller value than another with more of the bits that     *)
(* count up and fewer of the one that counts down.                            *)
LEMMA FromBitsOrder ==
  ASSUME NEW signed \in BOOLEAN, NEW w \in Nat \ {0}, NEW B, NEW C,
         \A k \in Ones(w) : ~(signed /\ k = Sign(w)) /\ k \in B => k \in C,
         signed /\ Sign(w) \in C => Sign(w) \in B
  PROVE  FromBits(signed, w, B) <= FromBits(signed, w, C)
<1>1. CASE signed
  <2>1. PICK p \in Nat : p = w - 1 /\ Sign(w) = p
    BY DEF Sign
  <2>2. \A k \in Ones(p) : k \in B => k \in C
    BY <1>1, <2>1 DEF Ones
  <2>3. Number(p, B) <= Number(p, C)
    BY <2>2, NumberMonotone
  <2>4. /\ FromBits(signed, w, B) = Number(p, B) - (IF p \in B THEN Pow2(p) ELSE 0)
        /\ FromBits(signed, w, C) = Number(p, C) - (IF p \in C THEN Pow2(p) ELSE 0)
    <3>1. \A X : FromBits(signed, w, X) =
            IF signed THEN Number(w - 1, X) - (IF Sign(w) \in X THEN Pow2(w - 1) ELSE 0)
            ELSE Number(w, X)
      BY FromBitsFacts, ZenonT(60)
    <3> QED BY <1>1, <2>1, <3>1, Zenon
  <2>5. Number(p, B) \in Nat /\ Number(p, C) \in Nat /\ Pow2(p) \in Nat
    BY NumberFacts, Pow2Facts
  <2>6. p \in C => p \in B
    BY <1>1, <2>1
  <2> QED BY <2>3, <2>4, <2>5, <2>6
<1>2. CASE ~signed
  <2>1. Number(w, B) <= Number(w, C)
    BY <1>2, NumberMonotone
  <2> QED BY <1>2, <2>1, FromBitsFacts
<1> QED BY <1>1, <1>2

(* The highest bit of a value is set when it is negative, or large. *)
LEMMA SignIsBit ==
  ASSUME NEW signed \in BOOLEAN, NEW w \in Nat \ {0}, NEW v \in Type(signed, w)
  PROVE  Sign(w) \in ToBits(w, v) <=> IF signed THEN v < 0 ELSE v >= Pow2(w - 1)
<1>1. PICK h \in Nat \ {0} :
        /\ h = Pow2(w - 1) /\ Pow2(w) = 2 * h
        /\ TypeLo(signed, w) = (IF signed THEN 0 - h ELSE 0)
        /\ TypeHi(signed, w) = (IF signed THEN h - 1 ELSE 2 * h - 1)
  BY TypeFacts
<1>0. PICK p \in Nat : p = w - 1 /\ Sign(w) = p /\ w = p + 1
  BY DEF Sign
<1>2. PICK X : p = w - 1 /\ Sign(w) = p /\ w = p + 1 /\ X = ToBits(w, v)
  BY <1>0
<1>3. v \in Int /\ FromBits(signed, w, X) = v
  BY <1>2, FromBitsFacts, WrapFacts DEF Type
<1>4. PICK n \in 0 .. h - 1 : n = Number(p, X)
  <2>1. Number(p, X) \in Nat /\ Number(p, X) < Pow2(p)
    BY NumberFacts
  <2> QED BY <1>1, <1>2, <2>1
<1>5. /\ signed => v = n - (IF p \in X THEN h ELSE 0)
      /\ ~signed => v = n + (IF p \in X THEN h ELSE 0)
  <2>1. FromBits(signed, w, X) = IF signed THEN n - (IF p \in X THEN h ELSE 0) ELSE Number(w, X)
    BY <1>1, <1>2, <1>4, FromBitsFacts
  <2>2. Number(p + 1, X) = n + (IF p \in X THEN h ELSE 0)
    BY <1>1, <1>2, <1>4, NumberFacts, ZenonT(60)
  <2> QED BY <1>2, <1>3, <2>1, <2>2
<1>6. CASE signed
  BY <1>1, <1>2, <1>4, <1>5, <1>6
<1>7. CASE ~signed
  BY <1>1, <1>2, <1>4, <1>5, <1>7
<1> QED BY <1>6, <1>7

(* Three patterns in the order of their numbers are in the order of their     *)
(* values when the outer two are.                                             *)
LEMMA ReadInOrder ==
  ASSUME NEW signed \in BOOLEAN, NEW w \in Nat \ {0}, NEW L, NEW V, NEW H,
         Number(w, L) <= Number(w, V), Number(w, V) <= Number(w, H),
         FromBits(signed, w, L) <= FromBits(signed, w, H)
  PROVE  /\ FromBits(signed, w, L) <= FromBits(signed, w, V)
         /\ FromBits(signed, w, V) <= FromBits(signed, w, H)
<1>0. PICK p \in Nat : p = w - 1 /\ Sign(w) = p /\ w = p + 1
  BY DEF Sign
<1>1. PICK h \in Nat \ {0} : h = Pow2(p) /\ Pow2(w) = 2 * h
  BY <1>0, Pow2Facts
<1>2. ASSUME NEW B
      PROVE  /\ Number(w, B) \in Nat /\ Number(p, B) \in Nat /\ Number(p, B) < h
             /\ Number(w, B) = Number(p, B) + (IF p \in B THEN h ELSE 0)
             /\ FromBits(signed, w, B) = Number(w, B) - (IF signed /\ p \in B THEN 2 * h ELSE 0)
  <2>1. /\ Number(p, B) \in Nat /\ Number(p, B) < Pow2(p)
        /\ Number(p + 1, B) = Number(p, B) + (IF p \in B THEN Pow2(p) ELSE 0)
    BY NumberFacts
  <2>2. FromBits(signed, w, B) = Number(w, B) - (IF signed /\ p \in B THEN 2 * h ELSE 0)
    BY <1>0, <1>1 DEF FromBits
  <2> QED BY <1>0, <1>1, <2>1, <2>2
<1>3. PICK l \in Nat, v \in Nat, u \in Nat, l1 \in Nat, v1 \in Nat, u1 \in Nat :
        /\ l = Number(w, L) /\ v = Number(w, V) /\ u = Number(w, H)
        /\ l1 = Number(p, L) /\ v1 = Number(p, V) /\ u1 = Number(p, H)
        /\ l1 < h /\ v1 < h /\ u1 < h
        /\ l = l1 + (IF p \in L THEN h ELSE 0) /\ v = v1 + (IF p \in V THEN h ELSE 0)
        /\ u = u1 + (IF p \in H THEN h ELSE 0)
        /\ FromBits(signed, w, L) = l - (IF signed /\ p \in L THEN 2 * h ELSE 0)
        /\ FromBits(signed, w, V) = v - (IF signed /\ p \in V THEN 2 * h ELSE 0)
        /\ FromBits(signed, w, H) = u - (IF signed /\ p \in H THEN 2 * h ELSE 0)
  <2>1. \A B \in {L, V, H} :
             /\ Number(w, B) \in Nat /\ Number(p, B) \in Nat /\ Number(p, B) < h
             /\ Number(w, B) = Number(p, B) + (IF p \in B THEN h ELSE 0)
             /\ FromBits(signed, w, B) = Number(w, B) - (IF signed /\ p \in B THEN 2 * h ELSE 0)
    BY <1>2
  <2> QED BY <2>1
<1>4. l <= v /\ v <= u
  BY <1>3
<1>5. CASE ~signed
  BY <1>3, <1>4, <1>5
<1>6. CASE signed
  <2>1. (p \in L => p \in V) /\ (p \in V => p \in H)
    BY <1>3, <1>4
  <2>2. p \in H => p \in L
    BY <1>3, <1>4, <1>6
  <2> QED BY <1>3, <1>4, <1>6, <2>1, <2>2
<1> QED BY <1>5, <1>6

-----------------------------------------------------------------------------
(* Abstract integers. *)

IntAbs == [signed : BOOLEAN, w : Nat \ {0}, lo : Int, hi : Int,
           kv : SUBSET Nat, km : SUBSET Nat]

(* What Consistent says of one of them. *)
Sound(r) ==
  /\ r \in IntAbs /\ Fits(r, r.lo, r.hi)
  /\ r.kv \subseteq r.km /\ r.km \subseteq Ones(r.w)

(* t is of r's type and allows what r allows. *)
Covers(t, r) == Sound(t) /\ SameType(t, r) /\ Concrete(r) \subseteq Concrete(t)

LEMMA ConcreteBounds ==
  ASSUME NEW r \in IntAbs, NEW x \in Concrete(r)
  PROVE  x \in Int /\ r.lo <= x /\ x <= r.hi /\ ToBits(r.w, x) \cap r.km = r.kv
  BY DEF Concrete, IntAbs

(* A value it stands for is in the type, and is what its pattern says. *)
LEMMA ConcreteInType ==
  ASSUME NEW r, Sound(r), NEW x \in Concrete(r)
  PROVE  /\ r.signed \in BOOLEAN /\ r.w \in Nat \ {0} /\ x \in Int
         /\ x \in Type(r.signed, r.w)
         /\ Wrap(r.signed, r.w, x) = x
         /\ FromBits(r.signed, r.w, ToBits(r.w, x)) = x
<1>1. /\ r.signed \in BOOLEAN /\ r.w \in Nat \ {0} /\ r.lo \in Int /\ r.hi \in Int
      /\ TypeLo(r.signed, r.w) <= r.lo /\ r.hi <= TypeHi(r.signed, r.w)
  BY DEF Sound, IntAbs, Fits
<1>2. x \in Int /\ r.lo <= x /\ x <= r.hi
  BY ConcreteBounds DEF Sound
<1>3. TypeLo(r.signed, r.w) \in Int /\ TypeHi(r.signed, r.w) \in Int
  BY <1>1, TypeEnds
<1>4. x \in Type(r.signed, r.w)
  BY <1>1, <1>2, <1>3 DEF Type
<1> QED BY <1>1, <1>2, <1>4, WrapFacts, FromBitsFacts

LEMMA CoversSelf ==
  ASSUME NEW r, Sound(r) PROVE Covers(r, r)
BY DEF Covers, SameType

LEMMA CoversOver ==
  ASSUME NEW r, NEW s, NEW t, Covers(s, r), Covers(t, s) PROVE Covers(t, r)
BY DEF Covers, SameType

(* The empty value is of the type. *)
LEMMA EmptySound ==
  ASSUME NEW r, Sound(r)
  PROVE  Sound(Empty(r)) /\ SameType(Empty(r), r) /\ Concrete(Empty(r)) = {}
<1>1. r \in IntAbs
  BY DEF Sound
<1>2. PICK e : e = Empty(r)
  OBVIOUS
<1>3. /\ e \in IntAbs /\ e.signed = r.signed /\ e.w = r.w /\ e.lo = 1 /\ e.hi = 0
      /\ e.kv = r.kv /\ e.km = r.km
  <2>1. r = [signed |-> r.signed, w |-> r.w, lo |-> r.lo, hi |-> r.hi, kv |-> r.kv, km |-> r.km]
    BY <1>1 DEF IntAbs
  <2>2. e = [signed |-> r.signed, w |-> r.w, lo |-> 1, hi |-> 0, kv |-> r.kv, km |-> r.km]
    BY <1>2, <2>1 DEF Empty
  <2> QED BY <1>1, <2>2 DEF IntAbs
<1>4. TypeLo(r.signed, r.w) <= 1 /\ 0 <= TypeHi(r.signed, r.w)
  <2>1. r.signed \in BOOLEAN /\ r.w \in Nat \ {0}
    BY <1>1 DEF IntAbs
  <2>2. /\ TypeLo(r.signed, r.w) \in Int /\ TypeLo(r.signed, r.w) <= 0
        /\ 0 <= TypeHi(r.signed, r.w)
    BY <2>1, TypeEnds
  <2> QED BY <2>2
<1>5. Concrete(e) = {}
  BY <1>3 DEF Concrete
<1> QED BY <1>2, <1>3, <1>4, <1>5 DEF Sound, Fits, SameType

LEMMA BitsToIntervalCovers ==
  ASSUME NEW r, Sound(r) PROVE Covers(BitsToInterval(r), r)
<1>1. /\ r \in IntAbs /\ r.signed \in BOOLEAN /\ r.w \in Nat \ {0} /\ r.lo \in Int /\ r.hi \in Int
      /\ TypeLo(r.signed, r.w) <= r.lo /\ r.hi <= TypeHi(r.signed, r.w)
      /\ r.kv \subseteq r.km /\ r.km \subseteq Ones(r.w)
  BY DEF Sound, IntAbs, Fits
<1>2. TypeLo(r.signed, r.w) \in Int /\ TypeHi(r.signed, r.w) \in Int
  BY <1>1, TypeEnds
<1>3. PICK sign : sign = IF r.signed THEN {Sign(r.w)} \ r.km ELSE {}
  OBVIOUS
<1>4. PICK B, C : /\ B = (r.kv \cap r.km) \cup sign
                  /\ C = ((r.kv \cap r.km) \cup Unknown(r)) \ sign
  OBVIOUS
<1>5. PICK lo \in Int, hi \in Int : lo = FromBits(r.signed, r.w, B) /\ hi = FromBits(r.signed, r.w, C)
  BY <1>1, FromBitsFacts
<1>6. ASSUME NEW x \in Concrete(r) PROVE x \in Int /\ lo <= x /\ x <= hi
  <2>1. PICK X : X = ToBits(r.w, x)
    OBVIOUS
  <2>2. x \in Int /\ X \cap r.km = r.kv /\ x = FromBits(r.signed, r.w, X) /\ X \subseteq Ones(r.w)
    BY <1>1, <2>1, ConcreteBounds, ConcreteInType DEF ToBits
  <2>3. FromBits(r.signed, r.w, B) <= FromBits(r.signed, r.w, X)
    <3>1. \A k \in Ones(r.w) : ~(r.signed /\ k = Sign(r.w)) /\ k \in B => k \in X
      BY <1>3, <1>4, <2>2
    <3>2. r.signed /\ Sign(r.w) \in X => Sign(r.w) \in B
      BY <1>3, <1>4, <2>2
    <3> QED BY <1>1, <3>1, <3>2, FromBitsOrder
  <2>4. FromBits(r.signed, r.w, X) <= FromBits(r.signed, r.w, C)
    <3>1. \A k \in Ones(r.w) : ~(r.signed /\ k = Sign(r.w)) /\ k \in X => k \in C
      BY <1>3, <1>4, <2>2 DEF Unknown
    <3>2. r.signed /\ Sign(r.w) \in C => Sign(r.w) \in X
      BY <1>3, <1>4, <2>2 DEF Unknown
    <3> QED BY <1>1, <3>1, <3>2, FromBitsOrder
  <2> QED BY <1>5, <2>2, <2>3, <2>4
<1>7. PICK t : t = AtMost(AtLeast(r, lo), hi)
  OBVIOUS
<1>8. /\ t \in IntAbs /\ t.signed = r.signed /\ t.w = r.w /\ t.kv = r.kv /\ t.km = r.km
      /\ t.lo = Larger(r.lo, lo) /\ t.hi = Smaller(r.hi, hi)
  BY <1>1, <1>5, <1>7 DEF AtMost, AtLeast, IntAbs, Larger, Smaller
<1>9. Covers(t, r)
  <2>1. TypeLo(r.signed, r.w) <= t.lo /\ t.hi <= TypeHi(r.signed, r.w)
    BY <1>1, <1>2, <1>5, <1>8 DEF Larger, Smaller
  <2>2. ASSUME NEW x \in Concrete(r) PROVE x \in Concrete(t)
    <3>1. x \in Int /\ r.lo <= x /\ x <= r.hi /\ ToBits(r.w, x) \cap r.km = r.kv
      BY <1>1, ConcreteBounds
    <3>2. x \in t.lo .. t.hi
      BY <1>1, <1>5, <1>6, <1>8, <3>1 DEF Larger, Smaller
    <3> QED BY <1>8, <3>1, <3>2 DEF Concrete
  <2> QED BY <1>1, <1>8, <2>1, <2>2 DEF Covers, Sound, Fits, SameType
<1>10. BitsToInterval(r) = IF r.km = {} THEN r ELSE t
  BY <1>3, <1>4, <1>5, <1>7 DEF BitsToInterval
<1> QED BY <1>9, <1>10, CoversSelf

(* Values of one sign are in the order of their patterns' numbers. *)
LEMMA PatternOrder ==
  ASSUME NEW signed \in BOOLEAN, NEW w \in Nat \ {0},
         NEW u \in Type(signed, w), NEW v \in Type(signed, w), u <= v, u < 0 <=> v < 0
  PROVE  Number(w, ToBits(w, u)) <= Number(w, ToBits(w, v))
<1>1. PICK h \in Nat \ {0} :
        /\ h = Pow2(w - 1) /\ Pow2(w) = 2 * h
        /\ TypeLo(signed, w) = (IF signed THEN 0 - h ELSE 0)
        /\ TypeHi(signed, w) = (IF signed THEN h - 1 ELSE 2 * h - 1)
  BY TypeFacts
<1>2. PICK m \in Nat \ {0} : m = Pow2(w) /\ m = 2 * h
  BY <1>1
<1>3. ASSUME NEW x \in Type(signed, w)
      PROVE  x \in Int /\ x % m = IF x < 0 THEN x + m ELSE x
  <2>1. x \in Int /\ 0 - m < x /\ x < m
    BY <1>1, <1>2 DEF Type
  <2>2. CASE x < 0
    <3>1. PICK t \in Int, j \in Int : t = x + m /\ t \in 0 .. m - 1 /\ j = -1
      BY <2>1, <2>2
    <3>2. m * j = -m
      BY <3>1
    <3>3. Congruent(m, x, t)
      <4>1. PICK z \in Int : z = m * j
        OBVIOUS
      <4>2. x = t + z
        BY <2>1, <3>1, <3>2, <4>1
      <4> QED BY <4>1, <4>2 DEF Congruent
    <3>4. x % m = t % m
      BY <2>1, <3>3, SameRemainder
    <3>5. t % m = t
      BY <3>1, ModSmall
    <3> QED BY <2>1, <2>2, <3>1, <3>4, <3>5
  <2>3. CASE x >= 0
    BY <2>1, <2>3
  <2> QED BY <2>1, <2>2, <2>3
<1>4. u \in Int /\ v \in Int /\ u % m <= v % m
  BY <1>3
<1> QED BY <1>2, <1>4, NumberOfBits

LEMMA IntervalToBitsCovers ==
  ASSUME NEW r, Sound(r) PROVE Covers(IntervalToBits(r), r)
<1>1. /\ r \in IntAbs /\ r.signed \in BOOLEAN /\ r.w \in Nat \ {0} /\ r.lo \in Int /\ r.hi \in Int
      /\ TypeLo(r.signed, r.w) <= r.lo /\ r.hi <= TypeHi(r.signed, r.w)
      /\ r.kv \subseteq r.km /\ r.km \subseteq Ones(r.w)
      /\ r = [signed |-> r.signed, w |-> r.w, lo |-> r.lo, hi |-> r.hi, kv |-> r.kv, km |-> r.km]
  BY DEF Sound, IntAbs, Fits
<1>2. TypeLo(r.signed, r.w) \in Int /\ TypeHi(r.signed, r.w) \in Int
  BY <1>1, TypeEnds
<1>3. CASE IsEmpty(r) \/ (r.lo < 0) # (r.hi < 0)
  BY <1>3, CoversSelf DEF IntervalToBits
<1>4. CASE ~IsEmpty(r) /\ (r.lo < 0 <=> r.hi < 0)
  <2>1. PICK l, h : l = ToBits(r.w, r.lo) /\ h = ToBits(r.w, r.hi)
    OBVIOUS
  <2>2. PICK high : high = Leading(r.w, l, h) /\ high \subseteq Ones(r.w)
    BY DEF Leading
  <2>3. IntervalToBits(r) = Fixing(r, l, high)
    BY <1>4, <2>1, <2>2 DEF IntervalToBits
  <2>4. ASSUME NEW x \in Concrete(r)
        PROVE  /\ x \in Int /\ r.lo <= x /\ x <= r.hi
               /\ ToBits(r.w, x) \cap r.km = r.kv /\ ToBits(r.w, x) \cap high = l \cap high
    <3>1. x \in Int /\ r.lo <= x /\ x <= r.hi /\ ToBits(r.w, x) \cap r.km = r.kv
      BY <1>1, ConcreteBounds
    <3>2. PICK X : X = ToBits(r.w, x)
      OBVIOUS
    <3>3. x \in Type(r.signed, r.w) /\ r.lo \in Type(r.signed, r.w) /\ r.hi \in Type(r.signed, r.w)
      BY <1>1, <1>2, <3>1 DEF Type
    <3>4. (r.lo < 0 <=> x < 0) /\ (x < 0 <=> r.hi < 0)
      BY <1>1, <1>4, <3>1
    <3>5. Number(r.w, l) <= Number(r.w, X) /\ Number(r.w, X) <= Number(r.w, h)
      BY <1>1, <2>1, <3>1, <3>2, <3>3, <3>4, PatternOrder
    <3>6. ASSUME NEW i \in high PROVE i \in X <=> i \in l
      <4>1. i \in Nat /\ i \in Ones(r.w) /\ i >= i /\ r.w \in Nat
        BY <1>1, <2>2 DEF Ones
      <4>2. \A k \in Ones(r.w) : k >= i => (k \in l <=> k \in h)
        <5> SUFFICES ASSUME NEW k \in Ones(r.w), k >= i, (k \in l) # (k \in h) PROVE FALSE
          OBVIOUS
        <5>1. k \in SymDiff(l, h)
          BY DEF SymDiff
        <5>2. k < i
          BY <2>2, <5>1 DEF Leading
        <5> QED BY <4>1, <5>2 DEF Ones
      <4>3. \A k \in Ones(r.w) : k >= i => (k \in X <=> k \in l)
        BY <3>5, <4>1, <4>2, NumberBetween, Zenon
      <4> QED BY <4>1, <4>3
    <3> QED BY <3>1, <3>2, <3>6
  <2>5. CASE SymDiff(r.kv, l) \cap r.km \cap high # {}
    <3>1. PICK j : j \in r.km /\ j \in high /\ (j \in r.kv) # (j \in l)
      BY <2>5 DEF SymDiff
    <3>2. Concrete(r) = {}
      BY <2>4, <3>1
    <3>3. Fixing(r, l, high) = Empty(r)
      BY <2>5 DEF Fixing
    <3> QED BY <2>3, <3>2, <3>3, EmptySound DEF Covers
  <2>6. CASE SymDiff(r.kv, l) \cap r.km \cap high = {}
    <3>1. PICK t : t = [r EXCEPT !.kv = (@ \cap r.km) \cup (l \cap high), !.km = @ \cup high]
      OBVIOUS
    <3>2. t = [signed |-> r.signed, w |-> r.w, lo |-> r.lo, hi |-> r.hi,
               kv |-> (r.kv \cap r.km) \cup (l \cap high), km |-> r.km \cup high]
      BY <1>1, <3>1
    <3>3. high \in SUBSET Nat /\ r.kv \in SUBSET Nat /\ r.km \in SUBSET Nat
      BY <1>1, <2>2 DEF IntAbs, Ones
    <3>4. t \in IntAbs
      BY <1>1, <3>2, <3>3 DEF IntAbs
    <3>5. ASSUME NEW x \in Concrete(r) PROVE x \in Concrete(t)
      <4>1. ToBits(r.w, x) \cap t.km = t.kv
        BY <1>1, <2>4, <3>2
      <4> QED BY <2>4, <3>2, <4>1 DEF Concrete
    <3>6. Covers(t, r)
      BY <1>1, <2>2, <3>2, <3>4, <3>5 DEF Covers, Sound, Fits, SameType
    <3>7. Fixing(r, l, high) = t
      BY <2>6, <3>1 DEF Fixing
    <3> QED BY <2>3, <3>6, <3>7
  <2> QED BY <2>5, <2>6
<1> QED BY <1>3, <1>4

LEMMA ReduceCovers ==
  ASSUME NEW r, Sound(r) PROVE Covers(Reduce(r), r)
<1>1. PICK s : s = BitsToInterval(r) /\ Covers(s, r)
  BY BitsToIntervalCovers
<1>2. PICK t : t = IntervalToBits(s) /\ Covers(t, s)
  BY <1>1, IntervalToBitsCovers DEF Covers
<1>3. PICK u : u = BitsToInterval(t) /\ Covers(u, t)
  BY <1>2, BitsToIntervalCovers DEF Covers
<1>4. Covers(u, r)
  BY <1>1, <1>2, <1>3, CoversOver
<1> QED BY <1>1, <1>2, <1>3, <1>4, CoversSelf DEF Reduce

(* The forms every transfer function ends in.  A value they must allow is in  *)
(* the type and has the bits and the bounds they are given.                   *)
LEMMA MadeAllows ==
  ASSUME NEW signed \in BOOLEAN, NEW w \in Nat \ {0}, NEW lo \in Int, NEW hi \in Int, NEW kv, NEW km,
         TypeLo(signed, w) <= lo, hi <= TypeHi(signed, w), kv \subseteq km, km \subseteq Ones(w),
         NEW r, r = Reduce(Abs(signed, w, lo, hi, kv, km))
  PROVE  /\ Sound(r) /\ r.signed = signed /\ r.w = w
         /\ \A v \in Int : lo <= v /\ v <= hi /\ ToBits(w, v) \cap km = kv => v \in Concrete(r)
<1>1. PICK s : s = Abs(signed, w, lo, hi, kv, km)
  OBVIOUS
<1>2. s = [signed |-> signed, w |-> w, lo |-> lo, hi |-> hi, kv |-> kv, km |-> km]
  BY <1>1 DEF Abs
<1>3. kv \in SUBSET Nat /\ km \in SUBSET Nat
  BY DEF Ones
<1>4. s \in IntAbs
  BY <1>2, <1>3 DEF IntAbs
<1>5. Sound(s)
  BY <1>2, <1>4 DEF Sound, Fits
<1>6. Covers(r, s)
  BY <1>1, <1>5, ReduceCovers
<1>7. ASSUME NEW v \in Int, lo <= v, v <= hi, ToBits(w, v) \cap km = kv PROVE v \in Concrete(s)
  BY <1>2, <1>7 DEF Concrete
<1> QED BY <1>2, <1>6, <1>7 DEF Covers, SameType

(* The fields of a sound value. *)
LEMMA SoundFields ==
  ASSUME NEW r, Sound(r)
  PROVE  /\ r.signed \in BOOLEAN /\ r.w \in Nat \ {0} /\ r.lo \in Int /\ r.hi \in Int
         /\ TypeLo(r.signed, r.w) \in Int /\ TypeHi(r.signed, r.w) \in Int
         /\ TypeLo(r.signed, r.w) <= 0 /\ 0 <= TypeHi(r.signed, r.w)
         /\ TypeLo(r.signed, r.w) <= r.lo /\ r.hi <= TypeHi(r.signed, r.w)
         /\ r.kv \subseteq r.km /\ r.km \subseteq Ones(r.w)
         /\ r = Abs(r.signed, r.w, r.lo, r.hi, r.kv, r.km)
<1>1. r.signed \in BOOLEAN /\ r.w \in Nat \ {0} /\ r.lo \in Int /\ r.hi \in Int
  BY DEF Sound, IntAbs
<1>2. r = Abs(r.signed, r.w, r.lo, r.hi, r.kv, r.km)
  BY DEF Sound, IntAbs, Abs
<1>3. /\ TypeLo(r.signed, r.w) \in Int /\ TypeHi(r.signed, r.w) \in Int
      /\ TypeLo(r.signed, r.w) <= 0 /\ 0 <= TypeHi(r.signed, r.w)
  BY <1>1, TypeEnds
<1> QED BY <1>1, <1>2, <1>3 DEF Sound, Fits

LEMMA BetweenAllows ==
  ASSUME NEW t, Sound(t), NEW lo \in Int, NEW hi \in Int, Fits(t, lo, hi)
  PROVE  /\ Sound(Between(t, lo, hi)) /\ SameType(Between(t, lo, hi), t)
         /\ \A v \in Int : lo <= v /\ v <= hi /\ ToBits(t.w, v) \cap t.km = t.kv
                             => v \in Concrete(Between(t, lo, hi))
         /\ \A v \in Concrete(t) : lo <= v /\ v <= hi => v \in Concrete(Between(t, lo, hi))
<1>1. /\ t.signed \in BOOLEAN /\ t.w \in Nat \ {0} /\ t.kv \subseteq t.km /\ t.km \subseteq Ones(t.w)
      /\ t = Abs(t.signed, t.w, t.lo, t.hi, t.kv, t.km)
  BY SoundFields
<1>2. TypeLo(t.signed, t.w) <= lo /\ hi <= TypeHi(t.signed, t.w)
  BY DEF Fits
<1>3. PICK s : s = Abs(t.signed, t.w, lo, hi, t.kv, t.km)
  OBVIOUS
<1>4. [t EXCEPT !.lo = lo, !.hi = hi] = s
  <2>1. PICK e : e = [t EXCEPT !.lo = lo, !.hi = hi]
    OBVIOUS
  <2>2. t = [signed |-> t.signed, w |-> t.w, lo |-> t.lo, hi |-> t.hi, kv |-> t.kv, km |-> t.km]
    BY <1>1 DEF Abs
  <2>3. e = [signed |-> t.signed, w |-> t.w, lo |-> lo, hi |-> hi, kv |-> t.kv, km |-> t.km]
    BY <2>1, <2>2
  <2> QED BY <1>3, <2>1, <2>3 DEF Abs
<1>5. PICK r : r = Between(t, lo, hi) /\ r = Reduce(s)
  BY <1>4 DEF Between
<1>6. /\ Sound(r) /\ r.signed = t.signed /\ r.w = t.w
      /\ \A v \in Int : lo <= v /\ v <= hi /\ ToBits(t.w, v) \cap t.km = t.kv => v \in Concrete(r)
  BY <1>1, <1>2, <1>3, <1>5, MadeAllows
<1>7. \A v \in Concrete(t) : v \in Int /\ ToBits(t.w, v) \cap t.km = t.kv
  BY ConcreteBounds DEF Sound
<1> QED BY <1>5, <1>6, <1>7 DEF SameType

LEMMA TopAllows ==
  ASSUME NEW signed \in BOOLEAN, NEW w \in Nat \ {0}
  PROVE  /\ Sound(Top(signed, w)) /\ Top(signed, w).signed = signed /\ Top(signed, w).w = w
         /\ Top(signed, w).lo = TypeLo(signed, w) /\ Top(signed, w).hi = TypeHi(signed, w)
         /\ Concrete(Top(signed, w)) = Type(signed, w) /\ ~IsEmpty(Top(signed, w))
<1>1. PICK t : t = Top(signed, w)
  OBVIOUS
<1>2. t = [signed |-> signed, w |-> w, lo |-> TypeLo(signed, w), hi |-> TypeHi(signed, w),
           kv |-> {}, km |-> {}]
  BY <1>1 DEF Top, Abs
<1>3. /\ TypeLo(signed, w) \in Int /\ TypeHi(signed, w) \in Int
      /\ TypeLo(signed, w) <= 0 /\ 0 <= TypeHi(signed, w)
  BY TypeEnds
<1>4. Sound(t)
  BY <1>2, <1>3 DEF Sound, IntAbs, Fits
<1>5. Concrete(t) = Type(signed, w)
  BY <1>2 DEF Concrete, Type
<1> QED BY <1>1, <1>2, <1>3, <1>4, <1>5 DEF IsEmpty

LEMMA ConstAllows ==
  ASSUME NEW signed \in BOOLEAN, NEW w \in Nat \ {0}, NEW v \in Int
  PROVE  /\ Sound(Const(signed, w, v)) /\ Const(signed, w, v).signed = signed
         /\ Const(signed, w, v).w = w
         /\ Wrap(signed, w, v) \in Concrete(Const(signed, w, v)) /\ ~IsEmpty(Const(signed, w, v))
<1>1. PICK c \in Int : c = Wrap(signed, w, v) /\ c \in Type(signed, w) /\ ToBits(w, c) = ToBits(w, v)
  BY WrapFacts
<1>2. PICK t : t = Const(signed, w, v)
  OBVIOUS
<1>3. t = [signed |-> signed, w |-> w, lo |-> c, hi |-> c, kv |-> ToBits(w, v), km |-> Ones(w)]
  BY <1>1, <1>2 DEF Const, Abs
<1>4. ToBits(w, v) \subseteq Ones(w) /\ Ones(w) \subseteq Nat
  BY DEF ToBits, Ones
<1>5. Sound(t)
  BY <1>1, <1>3, <1>4 DEF Sound, IntAbs, Fits, Type
<1>6. c \in Concrete(t)
  BY <1>1, <1>3, <1>4 DEF Concrete
<1> QED BY <1>1, <1>2, <1>3, <1>5, <1>6 DEF IsEmpty

LEMMA WithBitsAllows ==
  ASSUME NEW t, t.signed \in BOOLEAN, t.w \in Nat \ {0}, NEW kv, NEW km
  PROVE  /\ Sound(WithBits(t, kv, km)) /\ SameType(WithBits(t, kv, km), t)
         /\ \A v \in Type(t.signed, t.w) :
              (\A i \in Ones(t.w) \cap km : i \in ToBits(t.w, v) <=> i \in kv)
                => v \in Concrete(WithBits(t, kv, km))
<1>1. PICK lo \in Int, hi \in Int : lo = TypeLo(t.signed, t.w) /\ hi = TypeHi(t.signed, t.w)
  BY TypeEnds
<1>2. PICK B, C : B = kv \cap km \cap Ones(t.w) /\ C = km \cap Ones(t.w)
  OBVIOUS
<1>3. PICK s : s = Abs(t.signed, t.w, lo, hi, B, C)
  OBVIOUS
<1>4. [Top(t.signed, t.w) EXCEPT !.kv = kv \cap km \cap Ones(t.w), !.km = km \cap Ones(t.w)] = s
  <2>1. PICK t0 : t0 = Top(t.signed, t.w)
    OBVIOUS
  <2>2. t0 = [signed |-> t.signed, w |-> t.w, lo |-> lo, hi |-> hi, kv |-> {}, km |-> {}]
    BY <1>1, <2>1 DEF Top, Abs
  <2>3. PICK e : e = [t0 EXCEPT !.kv = kv \cap km \cap Ones(t.w), !.km = km \cap Ones(t.w)]
    OBVIOUS
  <2>4. e = [signed |-> t.signed, w |-> t.w, lo |-> lo, hi |-> hi, kv |-> B, km |-> C]
    BY <1>2, <2>2, <2>3
  <2> QED BY <1>3, <2>1, <2>3, <2>4 DEF Abs
<1>5. PICK r : r = WithBits(t, kv, km) /\ r = Reduce(s)
  BY <1>4 DEF WithBits
<1>6. /\ Sound(r) /\ r.signed = t.signed /\ r.w = t.w
      /\ \A v \in Int : lo <= v /\ v <= hi /\ ToBits(t.w, v) \cap C = B => v \in Concrete(r)
  BY <1>1, <1>2, <1>3, <1>5, MadeAllows
<1>7. ASSUME NEW v \in Type(t.signed, t.w),
             \A i \in Ones(t.w) \cap km : i \in ToBits(t.w, v) <=> i \in kv
      PROVE  v \in Concrete(r)
  <2>1. v \in Int /\ lo <= v /\ v <= hi
    BY <1>1 DEF Type
  <2>2. ToBits(t.w, v) \cap C = B
    BY <1>2, <1>7 DEF ToBits
  <2> QED BY <1>6, <2>1, <2>2
<1> QED BY <1>5, <1>6, <1>7 DEF SameType

LEMMA WithIntervalAllows ==
  ASSUME NEW t, Sound(t), NEW lo \in Int, NEW hi \in Int
  PROVE  /\ Sound(WithInterval(t, lo, hi)) /\ SameType(WithInterval(t, lo, hi), t)
         /\ \A v \in Concrete(t) : lo <= v /\ v <= hi => v \in Concrete(WithInterval(t, lo, hi))
<1>1. CASE Fits(t, lo, hi)
  BY <1>1, BetweenAllows DEF WithInterval
<1>2. CASE ~Fits(t, lo, hi)
  <2>1. PICK l \in Int, h \in Int : l = TypeLo(t.signed, t.w) /\ h = TypeHi(t.signed, t.w)
    BY SoundFields
  <2>2. Fits(t, l, h)
    BY <2>1 DEF Fits
  <2>3. WithInterval(t, lo, hi) = Between(t, l, h)
    BY <1>2, <2>1 DEF WithInterval
  <2>4. \A v \in Concrete(t) : l <= v /\ v <= h
    BY <2>1, ConcreteInType DEF Type
  <2> QED BY <2>2, <2>3, <2>4, BetweenAllows
<1> QED BY <1>1, <1>2

LEMMA MeetAllows ==
  ASSUME NEW r, NEW s, Sound(r), Sound(s), SameType(r, s)
  PROVE  /\ Sound(Meet(r, s)) /\ SameType(Meet(r, s), r)
         /\ Concrete(r) \cap Concrete(s) \subseteq Concrete(Meet(r, s))
<1>1. /\ r.signed \in BOOLEAN /\ r.w \in Nat \ {0} /\ r.lo \in Int /\ r.hi \in Int
      /\ TypeLo(r.signed, r.w) <= r.lo /\ r.hi <= TypeHi(r.signed, r.w)
      /\ r.kv \subseteq r.km /\ r.km \subseteq Ones(r.w)
      /\ r = Abs(r.signed, r.w, r.lo, r.hi, r.kv, r.km)
      /\ TypeLo(r.signed, r.w) \in Int /\ TypeHi(r.signed, r.w) \in Int
  BY SoundFields
<1>2. /\ s.signed = r.signed /\ s.w = r.w /\ s.lo \in Int /\ s.hi \in Int
      /\ TypeLo(r.signed, r.w) <= s.lo /\ s.hi <= TypeHi(r.signed, r.w)
      /\ s.kv \subseteq s.km /\ s.km \subseteq Ones(r.w)
  BY SoundFields DEF SameType
<1>3. ASSUME NEW v \in Concrete(r) \cap Concrete(s)
      PROVE  /\ v \in Int /\ r.lo <= v /\ v <= r.hi /\ s.lo <= v /\ v <= s.hi
             /\ ToBits(r.w, v) \cap r.km = r.kv /\ ToBits(r.w, v) \cap s.km = s.kv
  BY <1>2, ConcreteBounds DEF Sound
<1>4. CASE SymDiff(r.kv, s.kv) \cap r.km \cap s.km # {}
  <2>1. PICK j : j \in r.km /\ j \in s.km /\ (j \in r.kv) # (j \in s.kv)
    BY <1>4 DEF SymDiff
  <2>2. Concrete(r) \cap Concrete(s) = {}
    BY <1>3, <2>1
  <2> QED BY <1>4, <2>2, EmptySound DEF Meet
<1>5. CASE SymDiff(r.kv, s.kv) \cap r.km \cap s.km = {}
  <2>1. PICK lo \in Int, hi \in Int : lo = Larger(r.lo, s.lo) /\ hi = Smaller(r.hi, s.hi)
    BY <1>1, <1>2 DEF Larger, Smaller
  <2>2. PICK B, C : B = (r.kv \cap r.km) \cup (s.kv \cap s.km) /\ C = r.km \cup s.km
    OBVIOUS
  <2>3. PICK t : t = Abs(r.signed, r.w, lo, hi, B, C)
    OBVIOUS
  <2>4. [r EXCEPT !.lo = Larger(@, s.lo), !.hi = Smaller(@, s.hi),
                  !.kv = (@ \cap r.km) \cup (s.kv \cap s.km), !.km = @ \cup s.km] = t
    <3>1. PICK e : e = [r EXCEPT !.lo = Larger(@, s.lo), !.hi = Smaller(@, s.hi),
                                 !.kv = (@ \cap r.km) \cup (s.kv \cap s.km), !.km = @ \cup s.km]
      OBVIOUS
    <3>2. r = [signed |-> r.signed, w |-> r.w, lo |-> r.lo, hi |-> r.hi, kv |-> r.kv, km |-> r.km]
      BY <1>1 DEF Abs
    <3>3. e = [signed |-> r.signed, w |-> r.w, lo |-> lo, hi |-> hi, kv |-> B, km |-> C]
      BY <2>1, <2>2, <3>1, <3>2
    <3> QED BY <2>3, <3>1, <3>3 DEF Abs
  <2>5. PICK m : m = Meet(r, s) /\ m = Reduce(t)
    BY <1>5, <2>4 DEF Meet
  <2>6. /\ TypeLo(r.signed, r.w) <= lo /\ hi <= TypeHi(r.signed, r.w)
        /\ B \subseteq C /\ C \subseteq Ones(r.w)
    BY <1>1, <1>2, <2>1, <2>2 DEF Larger, Smaller
  <2>7. /\ Sound(m) /\ m.signed = r.signed /\ m.w = r.w
        /\ \A v \in Int : lo <= v /\ v <= hi /\ ToBits(r.w, v) \cap C = B => v \in Concrete(m)
    BY <1>1, <2>3, <2>5, <2>6, MadeAllows
  <2>8. ASSUME NEW v \in Concrete(r) \cap Concrete(s)
        PROVE  v \in Int /\ lo <= v /\ v <= hi /\ ToBits(r.w, v) \cap C = B
    <3>1. lo <= v /\ v <= hi
      BY <1>1, <1>2, <1>3, <2>1 DEF Larger, Smaller
    <3>2. ToBits(r.w, v) \cap C = B
      BY <1>3, <2>2
    <3> QED BY <1>3, <3>1, <3>2
  <2> QED BY <2>5, <2>7, <2>8 DEF SameType
<1> QED BY <1>4, <1>5

-----------------------------------------------------------------------------
(* Narrowing on the assumption of a comparison. *)

LEMMA BelowAbove ==
  ASSUME NEW r, Sound(r), NEW n \in Int
  PROVE  /\ Sound(Below(r, n)) /\ SameType(Below(r, n), r)
         /\ Sound(Above(r, n)) /\ SameType(Above(r, n), r)
         /\ \A v \in Concrete(r) : v <= n => v \in Concrete(Below(r, n))
         /\ \A v \in Concrete(r) : v >= n => v \in Concrete(Above(r, n))
<1>1. /\ r.lo \in Int /\ r.hi \in Int /\ Smaller(r.hi, n) \in Int /\ Larger(r.lo, n) \in Int
  BY SoundFields DEF Smaller, Larger
<1>2. \A v \in Concrete(r) : v \in Int /\ r.lo <= v /\ v <= r.hi
  BY ConcreteBounds DEF Sound
<1>3. ASSUME NEW v \in Concrete(r), v <= n PROVE v \in Concrete(Below(r, n))
  <2>1. r.lo <= v /\ v <= Smaller(r.hi, n)
    BY <1>1, <1>2, <1>3 DEF Smaller
  <2> QED BY <1>1, <2>1, WithIntervalAllows DEF Below
<1>4. ASSUME NEW v \in Concrete(r), v >= n PROVE v \in Concrete(Above(r, n))
  <2>1. Larger(r.lo, n) <= v /\ v <= r.hi
    BY <1>1, <1>2, <1>4 DEF Larger
  <2> QED BY <1>1, <2>1, WithIntervalAllows DEF Above
<1>5. /\ Sound(Below(r, n)) /\ SameType(Below(r, n), r)
      /\ Sound(Above(r, n)) /\ SameType(Above(r, n), r)
  BY <1>1, WithIntervalAllows DEF Below, Above
<1> QED BY <1>3, <1>4, <1>5

LEMMA WithoutAllows ==
  ASSUME NEW r, NEW s, Sound(r), Sound(s)
  PROVE  /\ Sound(Without(r, s)) /\ SameType(Without(r, s), r)
         /\ \A x \in Concrete(r), y \in Concrete(s) : x # y => x \in Concrete(Without(r, s))
<1>1. r.lo \in Int /\ r.hi \in Int /\ s.lo \in Int /\ s.hi \in Int
  BY SoundFields
<1>2. \A v \in Concrete(r) : v \in Int /\ r.lo <= v /\ v <= r.hi
  BY ConcreteBounds DEF Sound
<1>3. \A v \in Concrete(s) : v \in Int /\ s.lo <= v /\ v <= s.hi
  BY ConcreteBounds DEF Sound
<1>4. CASE ~IsConst(s) \/ (r.lo # s.lo /\ r.hi # s.lo)
  BY <1>4 DEF Without, SameType
<1>5. CASE IsConst(s) /\ r.lo = s.lo
  <2>1. Without(r, s) = WithInterval(r, r.lo + 1, r.hi)
    BY <1>5 DEF Without
  <2>2. \A x \in Concrete(r), y \in Concrete(s) : x # y => r.lo + 1 <= x /\ x <= r.hi
    BY <1>1, <1>2, <1>3, <1>5 DEF IsConst
  <2>3. r.lo + 1 \in Int
    BY <1>1
  <2> QED BY <1>1, <2>1, <2>2, <2>3, WithIntervalAllows
<1>6. CASE IsConst(s) /\ r.lo # s.lo /\ r.hi = s.lo
  <2>1. Without(r, s) = WithInterval(r, r.lo, r.hi - 1)
    BY <1>6 DEF Without
  <2>2. \A x \in Concrete(r), y \in Concrete(s) : x # y => r.lo <= x /\ x <= r.hi - 1
    BY <1>1, <1>2, <1>3, <1>6 DEF IsConst
  <2>3. r.hi - 1 \in Int
    BY <1>1
  <2> QED BY <1>1, <2>1, <2>2, <2>3, WithIntervalAllows
<1> QED BY <1>4, <1>5, <1>6

LEMMA NarrowAllows ==
  ASSUME NEW r, NEW s, Sound(r), Sound(s), SameType(r, s), NEW op \in CmpOps
  PROVE  /\ Sound(Narrow(op, r, s)[1]) /\ SameType(Narrow(op, r, s)[1], r)
         /\ Sound(Narrow(op, r, s)[2]) /\ SameType(Narrow(op, r, s)[2], s)
         /\ \A x \in Concrete(r), y \in Concrete(s) :
              Compare(op, x, y) => /\ x \in Concrete(Narrow(op, r, s)[1])
                                   /\ y \in Concrete(Narrow(op, r, s)[2])
<1>1. /\ r.lo \in Int /\ r.hi \in Int /\ s.lo \in Int /\ s.hi \in Int
      /\ s.hi - 1 \in Int /\ r.lo + 1 \in Int /\ s.lo + 1 \in Int /\ r.hi - 1 \in Int
  BY SoundFields
<1>2. \A v \in Concrete(r) : v \in Int /\ r.lo <= v /\ v <= r.hi
  BY ConcreteBounds DEF Sound
<1>3. \A v \in Concrete(s) : v \in Int /\ s.lo <= v /\ v <= s.hi
  BY ConcreteBounds DEF Sound
<1>4. CASE op = "lt"
  <2>1. Narrow(op, r, s) = <<Below(r, s.hi - 1), Above(s, r.lo + 1)>>
    BY <1>4 DEF Narrow
  <2>2. \A x \in Concrete(r), y \in Concrete(s) :
          Compare(op, x, y) => x <= s.hi - 1 /\ y >= r.lo + 1
    BY <1>1, <1>2, <1>3, <1>4 DEF Compare
  <2>3. /\ Sound(Below(r, s.hi - 1)) /\ SameType(Below(r, s.hi - 1), r)
        /\ \A v \in Concrete(r) : v <= s.hi - 1 => v \in Concrete(Below(r, s.hi - 1))
    BY <1>1, BelowAbove
  <2>4. /\ Sound(Above(s, r.lo + 1)) /\ SameType(Above(s, r.lo + 1), s)
        /\ \A v \in Concrete(s) : v >= r.lo + 1 => v \in Concrete(Above(s, r.lo + 1))
    BY <1>1, BelowAbove
  <2> QED BY <2>1, <2>2, <2>3, <2>4
<1>5. CASE op = "le"
  <2>1. Narrow(op, r, s) = <<Below(r, s.hi), Above(s, r.lo)>>
    BY <1>5 DEF Narrow
  <2>2. \A x \in Concrete(r), y \in Concrete(s) : Compare(op, x, y) => x <= s.hi /\ y >= r.lo
    BY <1>1, <1>2, <1>3, <1>5 DEF Compare
  <2>3. /\ Sound(Below(r, s.hi)) /\ SameType(Below(r, s.hi), r)
        /\ \A v \in Concrete(r) : v <= s.hi => v \in Concrete(Below(r, s.hi))
    BY <1>1, BelowAbove
  <2>4. /\ Sound(Above(s, r.lo)) /\ SameType(Above(s, r.lo), s)
        /\ \A v \in Concrete(s) : v >= r.lo => v \in Concrete(Above(s, r.lo))
    BY <1>1, BelowAbove
  <2> QED BY <2>1, <2>2, <2>3, <2>4
<1>6. CASE op = "gt"
  <2>1. Narrow(op, r, s) = <<Above(r, s.lo + 1), Below(s, r.hi - 1)>>
    BY <1>6 DEF Narrow
  <2>2. \A x \in Concrete(r), y \in Concrete(s) :
          Compare(op, x, y) => x >= s.lo + 1 /\ y <= r.hi - 1
    BY <1>1, <1>2, <1>3, <1>6 DEF Compare
  <2>3. /\ Sound(Above(r, s.lo + 1)) /\ SameType(Above(r, s.lo + 1), r)
        /\ \A v \in Concrete(r) : v >= s.lo + 1 => v \in Concrete(Above(r, s.lo + 1))
    BY <1>1, BelowAbove
  <2>4. /\ Sound(Below(s, r.hi - 1)) /\ SameType(Below(s, r.hi - 1), s)
        /\ \A v \in Concrete(s) : v <= r.hi - 1 => v \in Concrete(Below(s, r.hi - 1))
    BY <1>1, BelowAbove
  <2> QED BY <2>1, <2>2, <2>3, <2>4
<1>7. CASE op = "ge"
  <2>1. Narrow(op, r, s) = <<Above(r, s.lo), Below(s, r.hi)>>
    BY <1>7 DEF Narrow
  <2>2. \A x \in Concrete(r), y \in Concrete(s) : Compare(op, x, y) => x >= s.lo /\ y <= r.hi
    BY <1>1, <1>2, <1>3, <1>7 DEF Compare
  <2>3. /\ Sound(Above(r, s.lo)) /\ SameType(Above(r, s.lo), r)
        /\ \A v \in Concrete(r) : v >= s.lo => v \in Concrete(Above(r, s.lo))
    BY <1>1, BelowAbove
  <2>4. /\ Sound(Below(s, r.hi)) /\ SameType(Below(s, r.hi), s)
        /\ \A v \in Concrete(s) : v <= r.hi => v \in Concrete(Below(s, r.hi))
    BY <1>1, BelowAbove
  <2> QED BY <2>1, <2>2, <2>3, <2>4
<1>8. CASE op = "eq"
  <2>1. PICK m : m = Meet(r, s) /\ Narrow(op, r, s) = <<m, m>>
    BY <1>8 DEF Narrow
  <2>2. \A x \in Concrete(r), y \in Concrete(s) : Compare(op, x, y) => x = y
    BY <1>8 DEF Compare
  <2>3. Sound(m) /\ SameType(m, r) /\ Concrete(r) \cap Concrete(s) \subseteq Concrete(m)
    BY <2>1, MeetAllows
  <2> QED BY <2>1, <2>2, <2>3 DEF SameType
<1>9. CASE op = "ne"
  <2>1. Narrow(op, r, s) = <<Without(r, s), Without(s, r)>>
    BY <1>9 DEF Narrow
  <2>2. \A x \in Concrete(r), y \in Concrete(s) : Compare(op, x, y) => x # y
    BY <1>9 DEF Compare
  <2>3. /\ Sound(Without(r, s)) /\ SameType(Without(r, s), r)
        /\ \A x \in Concrete(r), y \in Concrete(s) : x # y => x \in Concrete(Without(r, s))
    BY WithoutAllows
  <2>4. /\ Sound(Without(s, r)) /\ SameType(Without(s, r), s)
        /\ \A y \in Concrete(s), x \in Concrete(r) : y # x => y \in Concrete(Without(s, r))
    BY WithoutAllows
  <2> QED BY <2>1, <2>2, <2>3, <2>4
<1> QED BY <1>4, <1>5, <1>6, <1>7, <1>8, <1>9 DEF CmpOps

-----------------------------------------------------------------------------
(* Casts. *)

(* Fewer bits of a pattern. *)
LEMMA FewerBits ==
  ASSUME NEW w \in Nat, NEW n \in Nat, n <= w, NEW v \in Int
  PROVE  ToBits(n, v) = ToBits(w, v) \cap Ones(n)
BY DEF ToBits, Ones

(* A cast to fewer bits. *)
LEMMA TruncateAllows ==
  ASSUME NEW r, Sound(r), ~IsEmpty(r), NEW signed \in BOOLEAN, NEW w \in Nat \ {0}, w < r.w
  PROVE  /\ Sound(Truncate(r, signed, w))
         /\ Truncate(r, signed, w).signed = signed /\ Truncate(r, signed, w).w = w
         /\ \A x \in Concrete(r) : Wrap(signed, w, x) \in Concrete(Truncate(r, signed, w))
<1>1. /\ r.signed \in BOOLEAN /\ r.w \in Nat \ {0} /\ r.lo \in Int /\ r.hi \in Int /\ r.lo <= r.hi
      /\ TypeLo(r.signed, r.w) \in Int /\ TypeHi(r.signed, r.w) \in Int
      /\ TypeLo(r.signed, r.w) <= r.lo /\ r.hi <= TypeHi(r.signed, r.w)
  BY SoundFields DEF IsEmpty
<1>2. PICK l, h : l = ToBits(r.w, r.lo) /\ h = ToBits(r.w, r.hi)
  OBVIOUS
<1>3. PICK lo \in Int, hi \in Int :
        /\ lo = FromBits(signed, w, l \cap Ones(w)) /\ lo \in Type(signed, w)
        /\ hi = FromBits(signed, w, h \cap Ones(w)) /\ hi \in Type(signed, w)
  BY FromBitsFacts
<1>4. PICK t : t = WithBits(Top(signed, w), r.kv, r.km)
  OBVIOUS
<1>5. /\ Sound(t) /\ t.signed = signed /\ t.w = w
      /\ \A v \in Type(signed, w) :
           (\A i \in Ones(w) \cap r.km : i \in ToBits(w, v) <=> i \in r.kv) => v \in Concrete(t)
  BY <1>4, TopAllows, WithBitsAllows DEF SameType
<1>6. ASSUME NEW x \in Concrete(r)
      PROVE  /\ x \in Int /\ r.lo <= x /\ x <= r.hi /\ x \in Type(r.signed, r.w)
             /\ Wrap(signed, w, x) \in Concrete(t)
  <2>1. x \in Int /\ r.lo <= x /\ x <= r.hi /\ ToBits(r.w, x) \cap r.km = r.kv
    BY ConcreteBounds DEF Sound
  <2>2. Wrap(signed, w, x) \in Type(signed, w) /\ ToBits(w, Wrap(signed, w, x)) = ToBits(w, x)
    BY <2>1, WrapFacts
  <2>3. ToBits(w, x) = ToBits(r.w, x) \cap Ones(w)
    BY <1>1, <2>1, FewerBits
  <2> QED BY <1>5, <2>1, <2>2, <2>3, ConcreteInType
<1>7. CASE r.hi - r.lo < Pow2(w) /\ l \ Ones(w) = h \ Ones(w) /\ lo <= hi
  <2>1. Truncate(r, signed, w) = Between(t, lo, hi)
    BY <1>2, <1>3, <1>4, <1>7 DEF Truncate
  <2>2. Fits(t, lo, hi)
    BY <1>3, <1>5 DEF Fits, Type
  <2>3. r.lo < 0 <=> r.hi < 0
    <3>1. r.lo \in Type(r.signed, r.w) /\ r.hi \in Type(r.signed, r.w)
      BY <1>1 DEF Type
    <3>2. Sign(r.w) \in Ones(r.w) \ Ones(w)
      BY <1>1 DEF Sign, Ones
    <3>3. Sign(r.w) \in l <=> Sign(r.w) \in h
      BY <1>7, <3>2
    <3>4. CASE r.signed
      <4>1. (Sign(r.w) \in l <=> r.lo < 0) /\ (Sign(r.w) \in h <=> r.hi < 0)
        BY <1>1, <1>2, <3>1, <3>4, SignIsBit
      <4> QED BY <3>3, <4>1
    <3>5. CASE ~r.signed
      BY <1>1, <3>5 DEF TypeLo
    <3> QED BY <3>4, <3>5
  <2>4. ASSUME NEW x \in Concrete(r)
        PROVE  lo <= Wrap(signed, w, x) /\ Wrap(signed, w, x) <= hi
    <3>1. PICK X : X = ToBits(r.w, x)
      OBVIOUS
    <3>2. /\ x \in Int /\ r.lo <= x /\ x <= r.hi /\ x \in Type(r.signed, r.w)
          /\ r.lo \in Type(r.signed, r.w) /\ r.hi \in Type(r.signed, r.w)
          /\ (r.lo < 0 <=> x < 0) /\ (x < 0 <=> r.hi < 0)
      BY <1>1, <1>6, <2>3 DEF Type
    <3>3. Number(r.w, l) <= Number(r.w, X) /\ Number(r.w, X) <= Number(r.w, h)
      BY <1>1, <1>2, <3>1, <3>2, PatternOrder
    <3>4. /\ w \in Nat /\ r.w \in Nat /\ w <= r.w
          /\ \A k \in Ones(r.w) : k >= w => (k \in l <=> k \in h)
      BY <1>1, <1>7 DEF Ones
    <3>5. \A k \in Ones(r.w) : k >= w => (k \in X <=> k \in l)
      BY <3>3, <3>4, NumberBetween, ZenonT(60)
    <3>6. \A k \in Ones(r.w) : k >= w => (k \in X <=> k \in h)
      BY <3>4, <3>5
    <3>7. /\ Number(r.w, X) - Number(w, X) = Number(r.w, l) - Number(w, l)
          /\ Number(r.w, X) - Number(w, X) = Number(r.w, h) - Number(w, h)
      BY <3>4, <3>5, <3>6, NumberAbove
    <3>8. Number(w, l) <= Number(w, X) /\ Number(w, X) <= Number(w, h)
      <4>1. \A Y \in {l, X, h} : Number(r.w, Y) \in Nat /\ Number(w, Y) \in Nat
        BY <3>4, NumberFacts
      <4> QED BY <3>3, <3>7, <4>1
    <3>9. PICK y \in Int : y = Wrap(signed, w, x) /\ y = FromBits(signed, w, X \cap Ones(w))
      <4>1. ToBits(w, x) = X \cap Ones(w)
        BY <3>1, <3>2, <3>4, FewerBits
      <4>2. FromBits(signed, w, ToBits(w, x)) = Wrap(signed, w, x) /\ Wrap(signed, w, x) \in Int
        BY <3>2, FromBitsFacts, WrapFacts
      <4> QED BY <4>1, <4>2
    <3>10. \A Y : Number(w, Y \cap Ones(w)) = Number(w, Y)
      BY NumberSame
    <3>11. lo <= y /\ y <= hi
      <4>1. PICK L, V, H : L = l \cap Ones(w) /\ V = X \cap Ones(w) /\ H = h \cap Ones(w)
        OBVIOUS
      <4>2. Number(w, L) <= Number(w, V) /\ Number(w, V) <= Number(w, H)
        BY <3>8, <3>10, <4>1
      <4>3. FromBits(signed, w, L) <= FromBits(signed, w, H)
        BY <1>3, <1>7, <4>1
      <4>4. /\ FromBits(signed, w, L) <= FromBits(signed, w, V)
            /\ FromBits(signed, w, V) <= FromBits(signed, w, H)
        BY <4>2, <4>3, ReadInOrder, Zenon
      <4> QED BY <1>3, <3>9, <4>1, <4>4
    <3> QED BY <3>9, <3>11
  <2> QED BY <1>5, <1>6, <2>1, <2>2, <2>4, BetweenAllows DEF SameType
<1>8. CASE ~(r.hi - r.lo < Pow2(w) /\ l \ Ones(w) = h \ Ones(w) /\ lo <= hi)
  <2>1. Truncate(r, signed, w) = t
    BY <1>2, <1>3, <1>4, <1>8 DEF Truncate
  <2> QED BY <1>5, <1>6, <2>1
<1> QED BY <1>7, <1>8

(* More bits of a value: copies of its sign. *)
LEMMA MoreBits ==
  ASSUME NEW signed \in BOOLEAN, NEW n \in Nat \ {0}, NEW w \in Nat, n <= w,
         NEW v \in Type(signed, n)
  PROVE  ToBits(w, v) = ToBits(n, v) \cup (IF v < 0 THEN Ones(w) \ Ones(n) ELSE {})
<1>1. PICK m \in Nat : v \in Int /\ m = Pow2(n) /\ 0 - m <= v /\ v < m
  <2>1. PICK h \in Nat \ {0} :
          /\ Pow2(n) = 2 * h
          /\ TypeLo(signed, n) = (IF signed THEN 0 - h ELSE 0)
          /\ TypeHi(signed, n) = (IF signed THEN h - 1 ELSE 2 * h - 1)
    BY TypeFacts, ZenonT(60)
  <2>2. v \in Int /\ TypeLo(signed, n) <= v /\ v <= TypeHi(signed, n)
    BY TypeEnds DEF Type
  <2>3. CASE signed
    BY <2>1, <2>2, <2>3
  <2>4. CASE ~signed
    BY <2>1, <2>2, <2>4
  <2> QED BY <2>3, <2>4
<1>2. ASSUME NEW k \in Ones(w) \ Ones(n) PROVE k \in ToBits(w, v) <=> v < 0
  <2>1. k \in Nat /\ n <= k
    BY <1>2 DEF Ones
  <2>2. PICK p \in Nat \ {0} : p = Pow2(k) /\ m <= p
    BY <1>1, <2>1, Pow2Facts, Pow2Monotone
  <2>3. k \in ToBits(w, v) <=> (v \div p) % 2 = 1
    BY <1>2, <2>2 DEF ToBits
  <2>4. CASE v < 0
    <3>1. PICK q \in Int, t \in 0 .. p - 1 : q = -1 /\ v = p * q + t
      <4>1. v = p * (-1) + (v + p) /\ v + p \in 0 .. p - 1
        BY <1>1, <2>2, <2>4
      <4> QED BY <4>1
    <3>2. v \div p = q
      BY <1>1, <3>1, RemainderIs
    <3>3. q % 2 = 1
      <4>1. q = 2 * q + 1 /\ 1 \in 0 .. 2 - 1 /\ 2 \in Nat \ {0}
        BY <3>1
      <4> QED BY <4>1, RemainderIs
    <3> QED BY <2>3, <2>4, <3>2, <3>3
  <2>5. CASE v >= 0
    <3>1. 0 \in Int /\ v = p * 0 + v /\ v \in 0 .. p - 1
      BY <1>1, <2>2, <2>5
    <3>2. v \div p = 0
      BY <1>1, <2>2, <2>5
    <3> QED BY <1>1, <2>3, <2>5, <3>2
  <2> QED BY <1>1, <2>4, <2>5
<1>3. ToBits(n, v) = ToBits(w, v) \cap Ones(n) /\ ToBits(w, v) \subseteq Ones(w)
  BY <1>1, FewerBits DEF ToBits
<1> QED BY <1>2, <1>3

LEMMA ExtendAllows ==
  ASSUME NEW r, Sound(r), NEW signed \in BOOLEAN, NEW w \in Nat \ {0}, r.w < w
  PROVE  /\ Sound(Extend(r, signed, w))
         /\ Extend(r, signed, w).signed = signed /\ Extend(r, signed, w).w = w
         /\ \A x \in Concrete(r) : Wrap(signed, w, x) \in Concrete(Extend(r, signed, w))
<1>1. /\ r.signed \in BOOLEAN /\ r.w \in Nat \ {0} /\ r.lo \in Int /\ r.hi \in Int
      /\ TypeLo(r.signed, r.w) <= r.lo /\ r.hi <= TypeHi(r.signed, r.w)
      /\ r.kv \subseteq r.km /\ r.km \subseteq Ones(r.w)
  BY SoundFields
<1>2. PICK high : high = Ones(w) \ Ones(r.w)
  OBVIOUS
<1>3. ASSUME NEW x \in Concrete(r)
      PROVE  /\ x \in Int /\ r.lo <= x /\ x <= r.hi /\ x \in Type(r.signed, r.w)
             /\ ToBits(r.w, x) \cap r.km = r.kv
             /\ ToBits(w, x) = ToBits(r.w, x) \cup (IF x < 0 THEN high ELSE {})
  BY <1>1, <1>2, ConcreteBounds, ConcreteInType, MoreBits DEF Sound
<1>4. CASE ~r.signed
  <2>1. TypeLo(signed, w) <= r.lo /\ r.hi <= TypeHi(signed, w) /\ 0 <= r.lo
    <3>1. r.w <= w - 1 /\ w - 1 \in Nat
      BY <1>1
    <3>2. Pow2(r.w) <= Pow2(w - 1) /\ Pow2(r.w) \in Nat
      BY <1>1, <3>1, Pow2Monotone, Pow2Facts
    <3>3. r.hi <= Pow2(r.w) - 1 /\ 0 <= r.lo
      BY <1>1, <1>4 DEF TypeLo, TypeHi
    <3>4. PICK h \in Nat \ {0} : /\ h = Pow2(w - 1)
                                /\ TypeLo(signed, w) = (IF signed THEN 0 - h ELSE 0)
                                /\ TypeHi(signed, w) = (IF signed THEN h - 1 ELSE 2 * h - 1)
      BY TypeFacts
    <3>5. CASE signed
      BY <1>1, <3>2, <3>3, <3>4, <3>5
    <3>6. CASE ~signed
      BY <1>1, <3>2, <3>3, <3>4, <3>6
    <3> QED BY <3>5, <3>6
  <2>2. r.kv \subseteq r.km \cup high /\ r.km \cup high \subseteq Ones(w)
    BY <1>1, <1>2 DEF Ones
  <2>3. PICK t : t = Extend(r, signed, w) /\ t = Reduce(Abs(signed, w, r.lo, r.hi, r.kv, r.km \cup high))
    BY <1>2, <1>4 DEF Extend
  <2>4. /\ Sound(t) /\ t.signed = signed /\ t.w = w
        /\ \A v \in Int : r.lo <= v /\ v <= r.hi /\ ToBits(w, v) \cap (r.km \cup high) = r.kv
                            => v \in Concrete(t)
    BY <1>1, <2>1, <2>2, <2>3, MadeAllows
  <2>5. ASSUME NEW x \in Concrete(r) PROVE Wrap(signed, w, x) \in Concrete(t)
    <3>1. x \in Type(signed, w) /\ x >= 0
      BY <1>1, <1>3, <2>1, TypeEnds DEF Type
    <3>2. ToBits(w, x) \cap (r.km \cup high) = r.kv
      BY <1>1, <1>2, <1>3, <3>1 DEF ToBits
    <3>3. Wrap(signed, w, x) = x
      BY <1>3, <3>1, WrapFacts
    <3> QED BY <1>3, <2>4, <3>2, <3>3
  <2> QED BY <2>3, <2>4, <2>5
<1>5. CASE r.signed
  <2>1. PICK kv, km : /\ kv = (IF Sign(r.w) \in r.kv THEN r.kv \cup high ELSE r.kv)
                      /\ km = (IF Sign(r.w) \in r.km THEN r.km \cup high ELSE r.km)
    OBVIOUS
  <2>2. PICK t : t = WithBits(Top(signed, w), kv, km)
    OBVIOUS
  <2>3. /\ Sound(t) /\ t.signed = signed /\ t.w = w
        /\ \A v \in Type(signed, w) :
             (\A i \in Ones(w) \cap km : i \in ToBits(w, v) <=> i \in kv) => v \in Concrete(t)
    BY <2>2, TopAllows, WithBitsAllows DEF SameType
  <2>4. ASSUME NEW x \in Concrete(r) PROVE Wrap(signed, w, x) \in Concrete(t)
    <3>1. PICK X : X = ToBits(r.w, x)
      OBVIOUS
    <3>2. Wrap(signed, w, x) \in Type(signed, w) /\ ToBits(w, Wrap(signed, w, x)) = ToBits(w, x)
      BY <1>3, WrapFacts
    <3>3. Sign(r.w) \in X <=> x < 0
      BY <1>1, <1>3, <1>5, <3>1, SignIsBit
    <3>4. ToBits(w, x) = X \cup (IF x < 0 THEN high ELSE {}) /\ X \cap r.km = r.kv
      BY <1>3, <3>1
    <3>5. ASSUME NEW i \in Ones(w) \cap km PROVE i \in ToBits(w, x) <=> i \in kv
      <4>1. CASE i \in high
        <5>1. i \notin r.km /\ i \notin r.kv /\ i \notin X
          BY <1>1, <1>2, <3>1, <4>1 DEF ToBits
        <5>2. Sign(r.w) \in r.km
          BY <2>1, <3>5, <5>1
        <5>3. Sign(r.w) \in r.kv <=> x < 0
          BY <3>3, <3>4, <5>2
        <5> QED BY <2>1, <3>4, <4>1, <5>1, <5>3
      <4>2. CASE i \notin high
        <5>1. i \in r.km
          BY <2>1, <3>5, <4>2
        <5> QED BY <2>1, <3>4, <4>2, <5>1
      <4> QED BY <4>1, <4>2
    <3> QED BY <2>3, <3>2, <3>5
  <2>5. Extend(r, signed, w) = IF Fits(t, r.lo, r.hi) THEN Between(t, r.lo, r.hi) ELSE t
    BY <1>2, <1>5, <2>1, <2>2 DEF Extend
  <2>6. CASE Fits(t, r.lo, r.hi)
    <3>1. ASSUME NEW x \in Concrete(r) PROVE Wrap(signed, w, x) = x
      <4>1. x \in Type(signed, w)
        BY <1>1, <1>3, <2>3, <2>6, TypeEnds DEF Type, Fits
      <4> QED BY <1>3, <4>1, WrapFacts
    <3> QED BY <1>1, <1>3, <2>3, <2>4, <2>5, <2>6, <3>1, BetweenAllows DEF SameType
  <2>7. CASE ~Fits(t, r.lo, r.hi)
    BY <2>3, <2>4, <2>5, <2>7
  <2> QED BY <2>6, <2>7
<1> QED BY <1>1, <1>4, <1>5

LEMMA RereadAllows ==
  ASSUME NEW r, Sound(r), NEW signed \in BOOLEAN
  PROVE  /\ Sound(Reread(r, signed))
         /\ Reread(r, signed).signed = signed /\ Reread(r, signed).w = r.w
         /\ \A x \in Concrete(r) : Wrap(signed, r.w, x) \in Concrete(Reread(r, signed))
<1>1. /\ r.signed \in BOOLEAN /\ r.w \in Nat \ {0} /\ r.lo \in Int /\ r.hi \in Int
      /\ r.kv \subseteq r.km /\ r.km \subseteq Ones(r.w)
  BY SoundFields
<1>2. ASSUME NEW x \in Concrete(r)
      PROVE  /\ x \in Int /\ r.lo <= x /\ x <= r.hi /\ ToBits(r.w, x) \cap r.km = r.kv
             /\ Wrap(r.signed, r.w, x) = x
  BY ConcreteBounds, ConcreteInType DEF Sound
<1>3. CASE signed = r.signed
  BY <1>1, <1>2, <1>3 DEF Reread
<1>4. CASE signed # r.signed
  <2>1. PICK t : t = WithBits(Top(signed, r.w), r.kv, r.km)
    OBVIOUS
  <2>2. /\ Sound(t) /\ t.signed = signed /\ t.w = r.w
        /\ \A v \in Type(signed, r.w) :
             (\A i \in Ones(r.w) \cap r.km : i \in ToBits(r.w, v) <=> i \in r.kv) => v \in Concrete(t)
    BY <1>1, <2>1, TopAllows, WithBitsAllows DEF SameType
  <2>3. ASSUME NEW x \in Concrete(r) PROVE Wrap(signed, r.w, x) \in Concrete(t)
    <3>1. /\ Wrap(signed, r.w, x) \in Type(signed, r.w)
          /\ ToBits(r.w, Wrap(signed, r.w, x)) = ToBits(r.w, x)
      BY <1>1, <1>2, WrapFacts
    <3> QED BY <1>2, <2>2, <3>1
  <2>4. CASE r.lo >= 0 /\ r.hi < Pow2(r.w - 1)
    <3>1. PICK h \in Nat \ {0} : /\ h = Pow2(r.w - 1) /\ Pow2(r.w) = 2 * h
                                /\ TypeLo(signed, r.w) = (IF signed THEN 0 - h ELSE 0)
                                /\ TypeHi(signed, r.w) = (IF signed THEN h - 1 ELSE 2 * h - 1)
      BY <1>1, TypeFacts, ZenonT(60)
    <3>2. TypeLo(signed, r.w) <= r.lo /\ r.hi <= TypeHi(signed, r.w)
      BY <1>1, <2>4, <3>1
    <3>3. Fits(t, r.lo, r.hi)
      BY <2>2, <3>2 DEF Fits
    <3>4. ASSUME NEW x \in Concrete(r) PROVE Wrap(signed, r.w, x) = x
      <4>1. x \in Type(signed, r.w)
        BY <1>1, <1>2, <3>2, TypeEnds DEF Type
      <4> QED BY <1>1, <1>2, <4>1, WrapFacts
    <3>5. Reread(r, signed) = Between(t, r.lo, r.hi)
      BY <1>4, <2>1, <2>4 DEF Reread
    <3> QED BY <1>1, <1>2, <2>2, <2>3, <3>3, <3>4, <3>5, BetweenAllows DEF SameType
  <2>5. CASE ~(r.lo >= 0 /\ r.hi < Pow2(r.w - 1))
    <3>1. Reread(r, signed) = t
      BY <1>4, <2>1, <2>5 DEF Reread
    <3> QED BY <2>2, <2>3, <3>1
  <2> QED BY <2>4, <2>5
<1> QED BY <1>3, <1>4

LEMMA CastAllows ==
  ASSUME NEW r, Sound(r), NEW signed \in BOOLEAN, NEW w \in Nat \ {0}
  PROVE  /\ Sound(Cast(r, signed, w))
         /\ Cast(r, signed, w).signed = signed /\ Cast(r, signed, w).w = w
         /\ \A x \in Concrete(r) : Wrap(signed, w, x) \in Concrete(Cast(r, signed, w))
<1>1. r.w \in Nat \ {0} /\ r.lo \in Int /\ r.hi \in Int
  BY SoundFields
<1>2. CASE IsEmpty(r)
  <2>1. Concrete(r) = {}
    <3>1. \A x \in Concrete(r) : x \in Int /\ r.lo <= x /\ x <= r.hi
      BY ConcreteBounds DEF Sound
    <3> QED BY <1>1, <1>2, <3>1 DEF IsEmpty
  <2>2. Cast(r, signed, w) = Empty(Top(signed, w))
    BY <1>2 DEF Cast
  <2> QED BY <2>1, <2>2, TopAllows, EmptySound DEF SameType
<1>3. CASE ~IsEmpty(r) /\ w < r.w
  BY <1>3, TruncateAllows DEF Cast
<1>4. CASE ~IsEmpty(r) /\ w > r.w
  BY <1>1, <1>4, ExtendAllows DEF Cast
<1>5. CASE ~IsEmpty(r) /\ w = r.w
  BY <1>1, <1>5, RereadAllows DEF Cast
<1> QED BY <1>1, <1>2, <1>3, <1>4, <1>5

-----------------------------------------------------------------------------
(* Single bits. *)

(* Bit i of a number is what its remainder by 2^(i + 1) says. *)
LEMMA BitIs ==
  ASSUME NEW w \in Nat, NEW i \in Ones(w), NEW v \in Int
  PROVE  i \in ToBits(w, v) <=> v % Pow2(i + 1) >= Pow2(i)
<1>1. i \in Nat /\ i + 1 \in Nat /\ i + 1 <= w /\ i \in Ones(i + 1)
  BY DEF Ones
<1>2. PICK n \in Nat : n = i + 1
  BY <1>1
<1>3. i \in ToBits(w, v) <=> i \in ToBits(n, v)
  BY <1>1, <1>2, FewerBits
<1>4. Number(n, ToBits(n, v)) = v % Pow2(n)
  BY NumberOfBits
<1>5. PICK B : B = ToBits(n, v)
  OBVIOUS
<1>6. /\ Pow2(i) \in Nat /\ Number(i, B) \in Nat /\ Number(i, B) < Pow2(i)
      /\ i \in B => Number(n, B) = Number(i, B) + Pow2(i)
      /\ i \notin B => Number(n, B) = Number(i, B)
  BY <1>1, <1>2, NumberStep
<1> QED BY <1>2, <1>3, <1>4, <1>5, <1>6

(* The low bits of a pattern are those of its number. *)
LEMMA LowNumber ==
  ASSUME NEW w \in Nat, NEW n \in Nat, n <= w, NEW B
  PROVE  Number(w, B) % Pow2(n) = Number(n, B)
<1>1. PICK C : C = B \cap Ones(w)
  OBVIOUS
<1>2. Number(w, B) = Number(w, C)
  <2>1. \A k \in Ones(w) : k \in B <=> k \in C
    BY <1>1
  <2> QED BY <2>1, NumberSame
<1>3. PICK v \in Nat : v = Number(w, C)
  BY NumberFacts
<1>4. ToBits(w, v) = C
  BY <1>1, <1>3, BitsOfNumber
<1>5. ToBits(n, v) = C \cap Ones(n)
  BY <1>4, FewerBits
<1>6. Number(n, ToBits(n, v)) = v % Pow2(n)
  BY NumberOfBits
<1>7. Number(n, ToBits(n, v)) = Number(n, B)
  <2>1. \A k \in Ones(n) : k \in ToBits(n, v) <=> k \in B
    BY <1>1, <1>5 DEF Ones
  <2> QED BY <2>1, NumberSame
<1> QED BY <1>2, <1>3, <1>6, <1>7

(* A sum has bit i when just one of the summands and the carry has: the bits  *)
(* below it add up to 2^i.                                                    *)
LEMMA SumBit ==
  ASSUME NEW w \in Nat, NEW i \in Ones(w), NEW B, NEW C
  PROVE  /\ Number(i, B) \in Nat /\ Number(i, C) \in Nat /\ Pow2(i) \in Nat
         /\ i \in ToBits(w, Number(w, B) + Number(w, C))
              <=> ((i \in B <=> i \in C) <=> Number(i, B) + Number(i, C) >= Pow2(i))
<1>1. i \in Nat /\ i + 1 <= w
  BY DEF Ones
<1>2. PICK n \in Nat : n = i + 1 /\ n <= w
  BY <1>1
<1>3. PICK p \in Nat \ {0}, m \in Nat \ {0} : p = Pow2(i) /\ m = Pow2(n) /\ m = 2 * p
  BY <1>1, <1>2, Pow2Facts
<1>4. PICK u \in Nat, v \in Nat : u = Number(w, B) /\ v = Number(w, C)
  BY NumberFacts
<1>5. PICK x \in Nat, y \in Nat : x = Number(n, B) /\ y = Number(n, C)
  BY NumberFacts
<1>6. PICK d \in Nat, e \in Nat : d = Number(i, B) /\ e = Number(i, C) /\ d < p /\ e < p
  <2>1. /\ Number(i, B) \in Nat /\ Number(i, B) < Pow2(i)
        /\ Number(i, C) \in Nat /\ Number(i, C) < Pow2(i)
    BY <1>1, NumberFacts
  <2> QED BY <1>3, <2>1
<1>7. x = d + (IF i \in B THEN p ELSE 0) /\ y = e + (IF i \in C THEN p ELSE 0)
  <2>1. /\ i \in B => Number(n, B) = Number(i, B) + Pow2(i)
        /\ i \notin B => Number(n, B) = Number(i, B)
        /\ i \in C => Number(n, C) = Number(i, C) + Pow2(i)
        /\ i \notin C => Number(n, C) = Number(i, C)
    BY <1>1, <1>2, NumberStep
  <2> QED BY <1>3, <1>5, <1>6, <2>1
<1>8. u % m = x /\ v % m = y
  <2>1. Number(w, B) % Pow2(n) = Number(n, B) /\ Number(w, C) % Pow2(n) = Number(n, C)
    BY <1>2, LowNumber
  <2> QED BY <1>3, <1>4, <1>5, <2>1
<1>t. PICK z \in Nat, z1 \in Nat : z = u + v /\ z1 = x + y
  OBVIOUS
<1>9. z % m = z1 % m
  <2>1. /\ x \in 0 .. m - 1 /\ y \in 0 .. m - 1 /\ x \in Int /\ y \in Int
        /\ u \in Int /\ v \in Int /\ m \in Nat \ {0}
    BY <1>3, <1>6, <1>7
  <2>2. x % m = x /\ y % m = y
    BY <2>1, ModSmall, Zenon
  <2>3. Congruent(m, u, x) /\ Congruent(m, v, y)
    <3>1. u % m = x % m /\ v % m = y % m
      BY <1>8, <2>2
    <3> QED BY <2>1, <3>1, SameRemainder, Zenon
  <2>4. (u + v) % m = (x + y) % m
    BY <2>1, <2>3, ModSum
  <2> QED BY <1>t, <2>4
<1>g. PICK g \in Nat : g = z1 % m
  <2>1. z1 \in Int /\ m \in Nat \ {0}
    OBVIOUS
  <2>2. z1 % m \in 0 .. m - 1
    BY <2>1, DivMod, Zenon
  <2> QED BY <2>2
<1>10. i \in ToBits(w, z) <=> g >= p
  <2>1. i \in ToBits(w, z) <=> z % Pow2(i + 1) >= Pow2(i)
    BY BitIs
  <2> QED BY <1>2, <1>3, <1>9, <1>g, <2>1
<1>11. g = IF z1 >= m THEN z1 - m ELSE z1
  <2>1. z1 >= 0 /\ z1 < 2 * m
    BY <1>3, <1>6, <1>7, <1>t
  <2>3. CASE z1 >= m
    <3>1. PICK r \in 0 .. m - 1 : r = z1 - m
      BY <2>1, <2>3
    <3>2. z1 = m * 1 + r
      BY <3>1
    <3>3. z1 % m = r
      BY <3>2, RemainderIs
    <3> QED BY <1>g, <2>3, <3>1, <3>3
  <2>4. CASE z1 < m
    <3>1. PICK r \in 0 .. m - 1 : r = z1
      BY <2>1, <2>4
    <3>2. z1 = m * 0 + r
      BY <3>1
    <3>3. z1 % m = r
      BY <3>2, RemainderIs
    <3> QED BY <1>g, <2>4, <3>1, <3>3
  <2> QED BY <2>3, <2>4
<1>12. CASE i \in B /\ i \in C
  BY <1>3, <1>4, <1>6, <1>7, <1>t, <1>10, <1>11, <1>12
<1>13. CASE i \in B /\ i \notin C
  BY <1>3, <1>4, <1>6, <1>7, <1>t, <1>10, <1>11, <1>13
<1>14. CASE i \notin B /\ i \in C
  BY <1>3, <1>4, <1>6, <1>7, <1>t, <1>10, <1>11, <1>14
<1>15. CASE i \notin B /\ i \notin C
  BY <1>3, <1>4, <1>6, <1>7, <1>t, <1>10, <1>11, <1>15
<1> QED BY <1>12, <1>13, <1>14, <1>15

(* A difference has bit i when just one of the two and the borrow has. *)
LEMMA DiffBit ==
  ASSUME NEW w \in Nat, NEW i \in Ones(w), NEW B, NEW C
  PROVE  /\ Number(i, B) \in Nat /\ Number(i, C) \in Nat /\ Pow2(i) \in Nat
         /\ i \in ToBits(w, Number(w, B) - Number(w, C))
              <=> ((i \in B <=> i \in C) <=> Number(i, B) < Number(i, C))
<1>1. i \in Nat /\ i + 1 <= w
  BY DEF Ones
<1>2. PICK n \in Nat : n = i + 1 /\ n <= w
  BY <1>1
<1>3. PICK p \in Nat \ {0}, m \in Nat \ {0} : p = Pow2(i) /\ m = Pow2(n) /\ m = 2 * p
  BY <1>1, <1>2, Pow2Facts
<1>4. PICK u \in Nat, v \in Nat : u = Number(w, B) /\ v = Number(w, C)
  BY NumberFacts
<1>5. PICK x \in Nat, y \in Nat : x = Number(n, B) /\ y = Number(n, C)
  BY NumberFacts
<1>6. PICK d \in Nat, e \in Nat : d = Number(i, B) /\ e = Number(i, C) /\ d < p /\ e < p
  <2>1. /\ Number(i, B) \in Nat /\ Number(i, B) < Pow2(i)
        /\ Number(i, C) \in Nat /\ Number(i, C) < Pow2(i)
    BY <1>1, NumberFacts
  <2> QED BY <1>3, <2>1
<1>7. x = d + (IF i \in B THEN p ELSE 0) /\ y = e + (IF i \in C THEN p ELSE 0)
  <2>1. /\ i \in B => Number(n, B) = Number(i, B) + Pow2(i)
        /\ i \notin B => Number(n, B) = Number(i, B)
        /\ i \in C => Number(n, C) = Number(i, C) + Pow2(i)
        /\ i \notin C => Number(n, C) = Number(i, C)
    BY <1>1, <1>2, NumberStep
  <2> QED BY <1>3, <1>5, <1>6, <2>1
<1>8. u % m = x /\ v % m = y
  <2>1. Number(w, B) % Pow2(n) = Number(n, B) /\ Number(w, C) % Pow2(n) = Number(n, C)
    BY <1>2, LowNumber
  <2> QED BY <1>3, <1>4, <1>5, <2>1
<1>t. PICK z \in Int, z1 \in Int : z = u - v /\ z1 = x - y
  OBVIOUS
<1>9. z % m = z1 % m
  <2>1. /\ x \in 0 .. m - 1 /\ y \in 0 .. m - 1 /\ x \in Int /\ y \in Int
        /\ u \in Int /\ v \in Int /\ m \in Nat \ {0}
    BY <1>3, <1>6, <1>7
  <2>2. x % m = x /\ y % m = y
    BY <2>1, ModSmall, Zenon
  <2>3. Congruent(m, u, x) /\ Congruent(m, v, y)
    <3>1. u % m = x % m /\ v % m = y % m
      BY <1>8, <2>2
    <3> QED BY <2>1, <3>1, SameRemainder, Zenon
  <2>4. (u - v) % m = (x - y) % m
    BY <2>1, <2>3, ModSum
  <2> QED BY <1>t, <2>4
<1>g. PICK g \in Nat : g = z1 % m
  <2>1. z1 \in Int /\ m \in Nat \ {0}
    OBVIOUS
  <2>2. z1 % m \in 0 .. m - 1
    BY <2>1, DivMod, Zenon
  <2> QED BY <2>2
<1>10. i \in ToBits(w, z) <=> g >= p
  <2>1. i \in ToBits(w, z) <=> z % Pow2(i + 1) >= Pow2(i)
    BY BitIs
  <2> QED BY <1>2, <1>3, <1>9, <1>g, <2>1
<1>11. g = IF z1 < 0 THEN z1 + m ELSE z1
  <2>1. z1 > -m /\ z1 < m
    BY <1>3, <1>6, <1>7, <1>t
  <2>3. CASE z1 < 0
    <3>1. PICK r \in 0 .. m - 1 : r = z1 + m
      BY <2>1, <2>3
    <3>2. z1 = m * (-1) + r
      BY <3>1
    <3>3. z1 % m = r
      BY <3>2, RemainderIs
    <3> QED BY <1>g, <2>3, <3>1, <3>3
  <2>4. CASE z1 >= 0
    <3>1. PICK r \in 0 .. m - 1 : r = z1
      BY <2>1, <2>4
    <3>2. z1 = m * 0 + r
      BY <3>1
    <3>3. z1 % m = r
      BY <3>2, RemainderIs
    <3> QED BY <1>g, <2>4, <3>1, <3>3
  <2> QED BY <2>3, <2>4
<1>12. CASE i \in B /\ i \in C
  BY <1>3, <1>4, <1>6, <1>7, <1>t, <1>10, <1>11, <1>12
<1>13. CASE i \in B /\ i \notin C
  BY <1>3, <1>4, <1>6, <1>7, <1>t, <1>10, <1>11, <1>13
<1>14. CASE i \notin B /\ i \in C
  BY <1>3, <1>4, <1>6, <1>7, <1>t, <1>10, <1>11, <1>14
<1>15. CASE i \notin B /\ i \notin C
  BY <1>3, <1>4, <1>6, <1>7, <1>t, <1>10, <1>11, <1>15
<1> QED BY <1>12, <1>13, <1>14, <1>15

(* The bits of a sum or difference are those of the patterns' numbers.        *)
LEMMA SumOfPatterns ==
  ASSUME NEW w \in Nat, NEW x \in Int, NEW y \in Int
  PROVE  /\ ToBits(w, x + y) = ToBits(w, Number(w, ToBits(w, x)) + Number(w, ToBits(w, y)))
         /\ ToBits(w, x - y) = ToBits(w, Number(w, ToBits(w, x)) - Number(w, ToBits(w, y)))
<1>1. PICK m \in Nat \ {0} : m = Pow2(w)
  BY Pow2Facts
<1>2. PICK u \in Nat, v \in Nat : u = Number(w, ToBits(w, x)) /\ v = Number(w, ToBits(w, y))
  BY NumberFacts
<1>3. u = x % m /\ v = y % m
  BY <1>1, <1>2, NumberOfBits
<1>4. Congruent(m, x, u) /\ Congruent(m, y, v)
  <2>1. u % m = u /\ v % m = v
    <3>1. x % m \in 0 .. m - 1 /\ y % m \in 0 .. m - 1
      BY DivMod
    <3> QED BY <1>3, <3>1, ModSmall
  <2>2. x % m = u % m /\ y % m = v % m
    BY <1>3, <2>1
  <2>3. m \in Nat \ {0} /\ x \in Int /\ y \in Int /\ u \in Int /\ v \in Int
    OBVIOUS
  <2> QED BY <2>2, <2>3, SameRemainder, Zenon
<1>5. (x + y) % m = (u + v) % m /\ (x - y) % m = (u - v) % m
  BY <1>4, ModSum
<1>6. x + y \in Int /\ u + v \in Int /\ x - y \in Int /\ u - v \in Int
  OBVIOUS
<1>7. ToBits(w, x + y) = ToBits(w, u + v) /\ ToBits(w, x - y) = ToBits(w, u - v)
  BY <1>1, <1>5, <1>6, BitsModulo, Zenon
<1> QED BY <1>2, <1>7

(* No bits, no number.                                                        *)
LEMMA NumberEmpty ==
  ASSUME NEW w \in Nat PROVE Number(w, {}) = 0
<1> DEFINE S == {n \in Nat : Number(n, {}) = 0}
<1>1. 0 \in S
  BY NumberFacts
<1>2. ASSUME NEW n \in Nat, n \in S PROVE n + 1 \in S
  <2>1. Number(n + 1, {}) = Number(n, {})
    BY NumberStep
  <2> QED BY <1>2, <2>1
<1>3. Nat \subseteq S
  <2> HIDE DEF S
  <2> QED BY <1>1, <1>2, SetInduction
<1> QED BY <1>3

(* A multiple of 2^n has its n low bits zero.                                 *)
LEMMA MultipleBits ==
  ASSUME NEW w \in Nat, NEW n \in Nat, n <= w, NEW v \in Int, v % Pow2(n) = 0
  PROVE  \A i \in Ones(n) : i \notin ToBits(w, v)
<1>1. Number(n, ToBits(n, v)) = v % Pow2(n)
  BY NumberOfBits
<1>2. Number(n, ToBits(n, v)) = Number(n, {})
  BY <1>1, NumberEmpty
<1>3. \A i \in Ones(n) : i \in ToBits(n, v) <=> i \in {}
  BY <1>2, NumberInjective
<1>4. ToBits(n, v) = ToBits(w, v) \cap Ones(n)
  BY FewerBits
<1> QED BY <1>3, <1>4

(* A number below 2^(k + 1) has bit k when it is 2^k or more.                 *)
LEMMA TopBit ==
  ASSUME NEW w \in Nat, NEW k \in Ones(w), NEW v \in Nat, v < Pow2(k + 1)
  PROVE  k \in ToBits(w, v) <=> v >= Pow2(k)
<1>1. PICK m \in Nat \ {0} : m = Pow2(k + 1)
  <2>1. k + 1 \in Nat
    BY DEF Ones
  <2> QED BY <2>1, Pow2Facts
<1>2. v \in 0 .. m - 1
  BY <1>1
<1>3. v % m = v
  BY <1>2, ModSmall
<1>4. k \in ToBits(w, v) <=> v % Pow2(k + 1) >= Pow2(k)
  BY BitIs
<1> QED BY <1>1, <1>3, <1>4

(* The bits of a remainder by 2^i are the low i bits.                         *)
LEMMA RemainderBits ==
  ASSUME NEW w \in Nat, NEW i \in Nat, i <= w, NEW x \in Int
  PROVE  ToBits(w, x % Pow2(i)) = ToBits(w, x) \cap Ones(i)
<1>1. PICK m \in Nat \ {0} : m = Pow2(i)
  BY Pow2Facts
<1>2. PICK t \in Nat : t = x % m /\ t < m /\ t % m = t
  <2>1. x % m \in 0 .. m - 1
    BY DivMod
  <2> QED BY <2>1, ModSmall
<1>3. ToBits(i, t) = ToBits(i, x)
  BY <1>1, <1>2, BitsModulo
<1>4. ToBits(i, t) = ToBits(w, t) \cap Ones(i) /\ ToBits(i, x) = ToBits(w, x) \cap Ones(i)
  BY FewerBits
<1>5. ASSUME NEW k \in Ones(w), k \notin Ones(i) PROVE k \notin ToBits(w, t)
  <2>1. k \in Nat /\ i <= k /\ k + 1 \in Nat
    BY <1>5 DEF Ones
  <2>2. Pow2(i) <= Pow2(k) /\ Pow2(i) <= Pow2(k + 1)
    BY <2>1, Pow2Monotone
  <2>3. Pow2(k) \in Nat /\ Pow2(k + 1) \in Nat
    BY <2>1, Pow2Facts
  <2>4. t < Pow2(k + 1) /\ ~(t >= Pow2(k))
    BY <1>1, <1>2, <2>2, <2>3
  <2> QED BY <2>4, TopBit
<1>6. ToBits(w, t) \subseteq Ones(w)
  BY DEF ToBits
<1>7. ToBits(w, t) = ToBits(w, x) \cap Ones(i)
  BY <1>3, <1>4, <1>5, <1>6
<1> QED BY <1>1, <1>2, <1>7

(* The bits of 2^i - 1.                                                       *)
LEMMA OnesBelow ==
  ASSUME NEW w \in Nat, NEW i \in Nat, i <= w
  PROVE  ToBits(w, Pow2(i) - 1) = Ones(i)
<1>1. PICK m \in Nat \ {0}, v \in Nat : m = Pow2(i) /\ v = m - 1 /\ v \in 0 .. m - 1
  <2>1. PICK m \in Nat \ {0} : m = Pow2(i)
    BY Pow2Facts
  <2>2. m - 1 \in 0 .. m - 1
    OBVIOUS
  <2> QED BY <2>1, <2>2
<1>2. (-1) % m = v
  <2>1. -1 = m * (-1) + v
    BY <1>1
  <2>2. PICK n \in Int, j \in Int : n = -1 /\ j = -1
    OBVIOUS
  <2>3. n = m * j + v
    BY <2>1, <2>2
  <2>4. n % m = v
    BY <1>1, <2>3, RemainderIs, SMTT(60)
  <2> QED BY <2>2, <2>4
<1>3. ASSUME NEW k \in Ones(w) PROVE k \in ToBits(w, -1)
  <2>1. k \in Nat /\ k + 1 \in Nat
    BY DEF Ones
  <2>2. PICK p \in Nat \ {0}, q \in Nat \ {0} : p = Pow2(k) /\ q = Pow2(k + 1) /\ q = 2 * p
    BY <2>1, Pow2Facts
  <2>3. PICK u \in 0 .. q - 1 : u = q - 1
    OBVIOUS
  <2>4. PICK n \in Int, j \in Int : n = -1 /\ j = -1
    OBVIOUS
  <2>5. n = q * j + u
    BY <2>3, <2>4
  <2>6. n % q = u
    BY <2>5, RemainderIs
  <2>7. k \in ToBits(w, n) <=> n % Pow2(k + 1) >= Pow2(k)
    BY BitIs
  <2> QED BY <2>2, <2>3, <2>4, <2>6, <2>7
<1>4. ToBits(w, (-1) % Pow2(i)) = ToBits(w, -1) \cap Ones(i)
  BY RemainderBits
<1>5. ToBits(w, v) = ToBits(w, -1) \cap Ones(i)
  BY <1>1, <1>2, <1>4
<1>6. Ones(i) \subseteq Ones(w)
  BY DEF Ones
<1> QED BY <1>1, <1>3, <1>5, <1>6

(* A number that shares no bit with the one before it is a power of two.      *)
LEMMA NoBitShared ==
  ASSUME NEW w \in Nat, NEW y \in Nat \ {0}, y < Pow2(w),
         ToBits(w, y) \cap ToBits(w, y - 1) = {}
  PROVE  \E i \in Ones(w) : y = Pow2(i)
<1> DEFINE T == {i \in 0 .. w : Pow2(i) <= y}
<1>1. PICK i \in T : \A k \in T : k <= i
  <2>1. 0 \in T
    BY Pow2Facts
  <2>2. T \subseteq Nat /\ T # {} /\ \A k \in T : k <= w
    BY <2>1
  <2> HIDE DEF T
  <2> QED BY <2>2, LargestElement
<1>2. i \in Nat /\ i <= w /\ Pow2(i) <= y
  BY <1>1
<1>3. Pow2(i) \in Nat /\ Pow2(w) \in Nat
  BY <1>2, Pow2Facts
<1>4. i \in Ones(w) /\ i + 1 \in 0 .. w
  <2>1. i # w
    BY <1>2, <1>3
  <2> QED BY <1>2, <2>1 DEF Ones
<1>5. y < Pow2(i + 1)
  <2>1. i + 1 \notin T
    BY <1>1, <1>2
  <2>2. Pow2(i + 1) \in Nat
    BY <1>4, Pow2Facts
  <2> QED BY <1>4, <2>1, <2>2
<1>6. i \in ToBits(w, y)
  BY <1>2, <1>4, <1>5, TopBit
<1>7. y - 1 \in Nat /\ y - 1 < Pow2(i + 1)
  <2>1. Pow2(i + 1) \in Nat
    BY <1>4, Pow2Facts
  <2> QED BY <1>5, <2>1
<1>8. ~(y - 1 >= Pow2(i))
  <2>1. i \in ToBits(w, y - 1) <=> y - 1 >= Pow2(i)
    BY <1>4, <1>7, TopBit
  <2> QED BY <1>6, <2>1
<1>9. y = Pow2(i)
  BY <1>2, <1>3, <1>8
<1> QED BY <1>4, <1>9

(* The number of two patterns with no bit in common is the sum of theirs.     *)
LEMMA NumberDisjoint ==
  ASSUME NEW w \in Nat, NEW B, NEW C, B \cap C = {}
  PROVE  Number(w, B \cup C) = Number(w, B) + Number(w, C)
<1> DEFINE S == {n \in Nat : Number(n, B \cup C) = Number(n, B) + Number(n, C)}
<1>1. 0 \in S
  BY NumberFacts
<1>2. ASSUME NEW n \in Nat, n \in S PROVE n + 1 \in S
  <2>1. /\ Pow2(n) \in Nat /\ Number(n, B) \in Nat
        /\ n \in B => Number(n + 1, B) = Number(n, B) + Pow2(n)
        /\ n \notin B => Number(n + 1, B) = Number(n, B)
    BY NumberStep
  <2>2. /\ Number(n, C) \in Nat
        /\ n \in C => Number(n + 1, C) = Number(n, C) + Pow2(n)
        /\ n \notin C => Number(n + 1, C) = Number(n, C)
    BY NumberStep
  <2>3. /\ n \in B \cup C => Number(n + 1, B \cup C) = Number(n, B \cup C) + Pow2(n)
        /\ n \notin B \cup C => Number(n + 1, B \cup C) = Number(n, B \cup C)
    BY NumberStep
  <2>4. Number(n + 1, B \cup C) = Number(n + 1, B) + Number(n + 1, C)
    BY <1>2, <2>1, <2>2, <2>3
  <2> QED BY <2>4
<1>3. Nat \subseteq S
  <2> HIDE DEF S
  <2> QED BY <1>1, <1>2, SetInduction
<1> QED BY <1>3

-----------------------------------------------------------------------------
(* The operators. *)

(* Two values of one type that allow something.                               *)
Operands(r, s) == /\ Sound(r) /\ Sound(s) /\ SameType(r, s)
                  /\ ~IsEmpty(r) /\ ~IsEmpty(s)

(* t is of the operands' type and allows what the operator gives of any two   *)
(* values they stand for.                                                     *)
Allows(t, op, r, s) ==
  /\ Sound(t) /\ SameType(t, r)
  /\ \A x \in Concrete(r), y \in Concrete(s) : Arith(op, r.signed, r.w, x, y) \in Concrete(t)

LEMMA OperandFacts ==
  ASSUME NEW r, NEW s, Operands(r, s)
  PROVE  /\ Sound(r) /\ Sound(s) /\ s.signed = r.signed /\ s.w = r.w
         /\ r.signed \in BOOLEAN /\ r.w \in Nat \ {0} /\ r.w \in Nat
         /\ r.lo \in Int /\ r.hi \in Int /\ s.lo \in Int /\ s.hi \in Int
         /\ r.lo <= r.hi /\ s.lo <= s.hi
         /\ TypeLo(r.signed, r.w) \in Int /\ TypeHi(r.signed, r.w) \in Int
         /\ TypeLo(r.signed, r.w) <= 0 /\ 0 <= TypeHi(r.signed, r.w)
         /\ TypeLo(r.signed, r.w) <= r.lo /\ r.hi <= TypeHi(r.signed, r.w)
         /\ TypeLo(r.signed, r.w) <= s.lo /\ s.hi <= TypeHi(r.signed, r.w)
<1>1. Sound(r) /\ Sound(s) /\ s.signed = r.signed /\ s.w = r.w
  BY DEF Operands, SameType
<1>2. /\ r.signed \in BOOLEAN /\ r.w \in Nat \ {0} /\ r.lo \in Int /\ r.hi \in Int
      /\ TypeLo(r.signed, r.w) \in Int /\ TypeHi(r.signed, r.w) \in Int
      /\ TypeLo(r.signed, r.w) <= 0 /\ 0 <= TypeHi(r.signed, r.w)
      /\ TypeLo(r.signed, r.w) <= r.lo /\ r.hi <= TypeHi(r.signed, r.w)
  BY <1>1, SoundFields
<1>3. /\ s.lo \in Int /\ s.hi \in Int
      /\ TypeLo(s.signed, s.w) <= s.lo /\ s.hi <= TypeHi(s.signed, s.w)
  BY <1>1, SoundFields
<1>4. r.lo <= r.hi /\ s.lo <= s.hi
  BY <1>2, <1>3 DEF Operands, IsEmpty
<1> QED BY <1>1, <1>2, <1>3, <1>4

(* The pattern of a value lies between the known one bits and those with the  *)
(* unknown.                                                                   *)
LEMMA ValueBits ==
  ASSUME NEW r, Sound(r), NEW x \in Concrete(r)
  PROVE  /\ x \in Int /\ r.lo <= x /\ x <= r.hi /\ x \in Type(r.signed, r.w)
         /\ Wrap(r.signed, r.w, x) = x
         /\ r.kv \subseteq ToBits(r.w, x) /\ ToBits(r.w, x) \subseteq r.kv \cup Unknown(r)
         /\ \A i \in Ones(r.w) : i \notin Unknown(r) => (i \in ToBits(r.w, x) <=> i \in r.kv)
         /\ r.kv \subseteq Ones(r.w) /\ Unknown(r) \subseteq Ones(r.w)
         /\ r.kv \cap Unknown(r) = {} /\ ToBits(r.w, x) \subseteq Ones(r.w)
<1>1. /\ x \in Int /\ r.lo <= x /\ x <= r.hi /\ ToBits(r.w, x) \cap r.km = r.kv
  BY ConcreteBounds DEF Sound
<1>2. x \in Type(r.signed, r.w) /\ Wrap(r.signed, r.w, x) = x
  BY ConcreteInType
<1>3. r.kv \subseteq r.km /\ r.km \subseteq Ones(r.w)
  BY SoundFields
<1>4. ToBits(r.w, x) \subseteq Ones(r.w)
  BY DEF ToBits
<1> QED BY <1>1, <1>2, <1>3, <1>4 DEF Unknown

(* What a result bounded by known bits and an interval allows: every number   *)
(* in the interval with those bits, wrapped.                                  *)
LEMMA BoundedAllows ==
  ASSUME NEW t, Sound(t), NEW kv, NEW km, kv \subseteq km, km \subseteq Ones(t.w),
         NEW lo \in Int, NEW hi \in Int, NEW k, k = [kv |-> kv, km |-> km]
  PROVE  /\ Sound(Bounded(t, k, lo, hi)) /\ SameType(Bounded(t, k, lo, hi), t)
         /\ \A v \in Int : lo <= v /\ v <= hi
                           /\ (\A i \in Ones(t.w) : i \in km => (i \in ToBits(t.w, v) <=> i \in kv))
                             => Wrap(t.signed, t.w, v) \in Concrete(Bounded(t, k, lo, hi))
<1>1. /\ t.signed \in BOOLEAN /\ t.w \in Nat \ {0}
      /\ TypeLo(t.signed, t.w) \in Int /\ TypeHi(t.signed, t.w) \in Int
      /\ t = Abs(t.signed, t.w, t.lo, t.hi, t.kv, t.km)
  BY SoundFields
<1>2. k.kv = kv /\ k.km = km
  OBVIOUS
<1>3. CASE Fits(t, lo, hi)
  <2>1. TypeLo(t.signed, t.w) <= lo /\ hi <= TypeHi(t.signed, t.w)
    BY <1>3 DEF Fits
  <2>2. PICK c : c = Abs(t.signed, t.w, lo, hi, kv, km)
    OBVIOUS
  <2>3. [[t EXCEPT !.kv = k.kv, !.km = k.km] EXCEPT !.lo = lo, !.hi = hi] = c
    <3>1. t = [signed |-> t.signed, w |-> t.w, lo |-> t.lo, hi |-> t.hi, kv |-> t.kv, km |-> t.km]
      BY <1>1 DEF Abs
    <3>2. PICK d : d = [t EXCEPT !.kv = k.kv, !.km = k.km]
      OBVIOUS
    <3>3. d = [signed |-> t.signed, w |-> t.w, lo |-> t.lo, hi |-> t.hi, kv |-> kv, km |-> km]
      BY <1>2, <3>1, <3>2
    <3>4. PICK e : e = [d EXCEPT !.lo = lo, !.hi = hi]
      OBVIOUS
    <3>5. e = [signed |-> t.signed, w |-> t.w, lo |-> lo, hi |-> hi, kv |-> kv, km |-> km]
      BY <3>3, <3>4
    <3> QED BY <2>2, <3>2, <3>4, <3>5 DEF Abs
  <2>4. PICK u : u = Bounded(t, k, lo, hi) /\ u = Reduce(c)
    BY <1>3, <2>3 DEF Bounded, Between
  <2>5. /\ Sound(u) /\ u.signed = t.signed /\ u.w = t.w
        /\ \A v \in Int : lo <= v /\ v <= hi /\ ToBits(t.w, v) \cap km = kv => v \in Concrete(u)
    <3>1. u = Reduce(Abs(t.signed, t.w, lo, hi, kv, km))
      BY <2>2, <2>4
    <3> QED BY <1>1, <2>1, <3>1, MadeAllows
  <2>6. ASSUME NEW v \in Int, lo <= v, v <= hi,
               \A i \in Ones(t.w) : i \in km => (i \in ToBits(t.w, v) <=> i \in kv)
        PROVE  Wrap(t.signed, t.w, v) \in Concrete(u)
    <3>1. ToBits(t.w, v) \cap km = kv
      BY <2>6
    <3>2. v \in Type(t.signed, t.w)
      BY <1>1, <2>1, <2>6 DEF Type
    <3>3. Wrap(t.signed, t.w, v) = v
      BY <1>1, <3>2, WrapFacts
    <3> QED BY <2>5, <2>6, <3>1, <3>3
  <2> QED BY <2>4, <2>5, <2>6 DEF SameType
<1>4. CASE ~Fits(t, lo, hi)
  <2>1. PICK u : u = Bounded(t, k, lo, hi) /\ u = WithBits(t, kv, km)
    BY <1>2, <1>4 DEF Bounded
  <2>2. /\ Sound(u) /\ SameType(u, t)
        /\ \A v \in Type(t.signed, t.w) :
             (\A i \in Ones(t.w) \cap km : i \in ToBits(t.w, v) <=> i \in kv) => v \in Concrete(u)
    <3>1. /\ Sound(WithBits(t, kv, km)) /\ SameType(WithBits(t, kv, km), t)
          /\ \A v \in Type(t.signed, t.w) :
               (\A i \in Ones(t.w) \cap km : i \in ToBits(t.w, v) <=> i \in kv)
                 => v \in Concrete(WithBits(t, kv, km))
      BY <1>1, WithBitsAllows
    <3> QED BY <2>1, <3>1
  <2>3. ASSUME NEW v \in Int,
               \A i \in Ones(t.w) : i \in km => (i \in ToBits(t.w, v) <=> i \in kv)
        PROVE  Wrap(t.signed, t.w, v) \in Concrete(u)
    <3>1. PICK x : /\ x = Wrap(t.signed, t.w, v) /\ x \in Type(t.signed, t.w)
                   /\ ToBits(t.w, x) = ToBits(t.w, v)
      BY <1>1, WrapFacts
    <3> QED BY <2>2, <2>3, <3>1
  <2> QED BY <2>1, <2>2, <2>3
<1> QED BY <1>3, <1>4

(* The sum: the bits no carry out of an unknown bit can change.               *)
LEMMA AddAllows ==
  ASSUME NEW r, NEW s, Operands(r, s) PROVE Allows(Add(r, s), "add", r, s)
<1>1. /\ Sound(r) /\ Sound(s) /\ s.w = r.w /\ r.w \in Nat
      /\ r.lo \in Int /\ r.hi \in Int /\ s.lo \in Int /\ s.hi \in Int
  BY OperandFacts
<1>2. PICK w \in Nat : w = r.w
  BY <1>1
<1>3. PICK L, M, U, V : L = r.kv /\ M = s.kv /\ U = Unknown(r) /\ V = Unknown(s)
  OBVIOUS
<1>4. PICK sum \in Nat : sum = Number(w, L) + Number(w, M)
  <2>1. Number(w, L) \in Nat /\ Number(w, M) \in Nat
    BY NumberFacts
  <2> QED BY <2>1
<1>5. PICK sigma : sigma = ToBits(w, Number(w, U) + Number(w, V) + sum)
  OBVIOUS
<1>6. PICK kv, km : /\ kv = ToBits(w, sum) \ (SymDiff(sigma, ToBits(w, sum)) \cup U \cup V)
                    /\ km = Ones(w) \ (SymDiff(sigma, ToBits(w, sum)) \cup U \cup V)
  OBVIOUS
<1>7. PICK k : k = AddBits(r, s) /\ k = [kv |-> kv, km |-> km]
  BY <1>1, <1>2, <1>3, <1>4, <1>5, <1>6 DEF AddBits, KnownBut
<1>8. kv \subseteq km /\ km \subseteq Ones(w)
  BY <1>6 DEF ToBits
<1>9. ASSUME NEW x \in Concrete(r), NEW y \in Concrete(s), NEW i \in Ones(w), i \in km
      PROVE  i \in ToBits(w, x + y) <=> i \in kv
  <2>1. PICK X, Y : X = ToBits(w, x) /\ Y = ToBits(w, y)
    OBVIOUS
  <2>2. /\ x \in Int /\ y \in Int
        /\ L \subseteq X /\ X \subseteq L \cup U /\ M \subseteq Y /\ Y \subseteq M \cup V
        /\ L \cap U = {} /\ M \cap V = {}
    BY <1>1, <1>2, <1>3, <2>1, ValueBits
  <2>3. i \in ToBits(w, x + y) <=> i \in ToBits(w, Number(w, X) + Number(w, Y))
    <3>1. ToBits(w, x + y) = ToBits(w, Number(w, ToBits(w, x)) + Number(w, ToBits(w, y)))
      BY <2>2, SumOfPatterns, ZenonT(60)
    <3> QED BY <2>1, <3>1
  <2>4. sigma = ToBits(w, Number(w, L \cup U) + Number(w, M \cup V))
    <3>1. /\ Number(w, L \cup U) = Number(w, L) + Number(w, U)
          /\ Number(w, M \cup V) = Number(w, M) + Number(w, V)
      BY <2>2, NumberDisjoint
    <3>2. /\ Number(w, L) \in Nat /\ Number(w, U) \in Nat
          /\ Number(w, M) \in Nat /\ Number(w, V) \in Nat
      BY NumberFacts
    <3>3. Number(w, L \cup U) + Number(w, M \cup V) = Number(w, U) + Number(w, V) + sum
      BY <1>4, <3>1, <3>2
    <3> QED BY <1>5, <3>3
  <2>5. i \notin U /\ i \notin V /\ (i \in sigma <=> i \in ToBits(w, sum))
        /\ (i \in kv <=> i \in ToBits(w, sum))
    BY <1>6, <1>9 DEF SymDiff
  <2>6. /\ i \in Nat /\ Number(i, L) <= Number(i, X) /\ Number(i, X) <= Number(i, L \cup U)
        /\ Number(i, M) <= Number(i, Y) /\ Number(i, Y) <= Number(i, M \cup V)
    <3>1. i \in Nat
      BY DEF Ones
    <3>2. /\ \A j \in Ones(i) : j \in L => j \in X
          /\ \A j \in Ones(i) : j \in X => j \in L \cup U
          /\ \A j \in Ones(i) : j \in M => j \in Y
          /\ \A j \in Ones(i) : j \in Y => j \in M \cup V
      BY <2>2
    <3> QED BY <3>1, <3>2, NumberMonotone
  <2>7. /\ Number(i, L) \in Nat /\ Number(i, M) \in Nat /\ Pow2(i) \in Nat
        /\ i \in ToBits(w, sum)
             <=> ((i \in L <=> i \in M) <=> Number(i, L) + Number(i, M) >= Pow2(i))
    BY <1>4, SumBit
  <2>8. /\ Number(i, X) \in Nat /\ Number(i, Y) \in Nat
        /\ i \in ToBits(w, Number(w, X) + Number(w, Y))
             <=> ((i \in X <=> i \in Y) <=> Number(i, X) + Number(i, Y) >= Pow2(i))
    BY SumBit
  <2>9. /\ Number(i, L \cup U) \in Nat /\ Number(i, M \cup V) \in Nat
        /\ i \in sigma <=> ((i \in L \cup U <=> i \in M \cup V)
                              <=> Number(i, L \cup U) + Number(i, M \cup V) >= Pow2(i))
    BY <2>4, SumBit
  <2>10. (i \in X <=> i \in L) /\ (i \in Y <=> i \in M)
         /\ (i \in L \cup U <=> i \in L) /\ (i \in M \cup V <=> i \in M)
    BY <2>2, <2>5
  <2>11. PICK carry0 \in BOOLEAN, carry \in BOOLEAN, carry1 \in BOOLEAN :
           /\ carry0 <=> Number(i, L) + Number(i, M) >= Pow2(i)
           /\ carry <=> Number(i, X) + Number(i, Y) >= Pow2(i)
           /\ carry1 <=> Number(i, L \cup U) + Number(i, M \cup V) >= Pow2(i)
    OBVIOUS
  <2>12. (carry0 => carry) /\ (carry => carry1)
    BY <2>6, <2>7, <2>8, <2>9, <2>11
  <2>13. carry0 <=> carry1
    BY <2>5, <2>7, <2>9, <2>10, <2>11
  <2>14. carry <=> carry0
    BY <2>12, <2>13
  <2> QED BY <2>3, <2>5, <2>7, <2>8, <2>10, <2>11, <2>14
<1>10. PICK lo \in Int, hi \in Int : lo = r.lo + s.lo /\ hi = r.hi + s.hi
  BY <1>1
<1>11. PICK t : t = Add(r, s) /\ t = Bounded(r, k, lo, hi)
  BY <1>7, <1>10 DEF Add
<1>12. /\ Sound(t) /\ SameType(t, r)
       /\ \A v \in Int : lo <= v /\ v <= hi
                         /\ (\A i \in Ones(r.w) : i \in km => (i \in ToBits(r.w, v) <=> i \in kv))
                           => Wrap(r.signed, r.w, v) \in Concrete(t)
  <2>1. kv \subseteq km /\ km \subseteq Ones(r.w) /\ k = [kv |-> kv, km |-> km]
    BY <1>2, <1>7, <1>8
  <2> QED BY <1>1, <1>11, <2>1, BoundedAllows
<1>13. ASSUME NEW x \in Concrete(r), NEW y \in Concrete(s)
       PROVE  Arith("add", r.signed, r.w, x, y) \in Concrete(t)
  <2>1. x \in Int /\ r.lo <= x /\ x <= r.hi /\ y \in Int /\ s.lo <= y /\ y <= s.hi
    BY <1>1, ValueBits
  <2>2. PICK v \in Int : v = x + y
    BY <2>1
  <2>3. lo <= v /\ v <= hi
    BY <1>1, <1>10, <2>1, <2>2
  <2>4. \A i \in Ones(r.w) : i \in km => (i \in ToBits(r.w, v) <=> i \in kv)
    BY <1>2, <1>9, <2>2
  <2>5. Arith("add", r.signed, r.w, x, y) = Wrap(r.signed, r.w, v)
    BY <2>2 DEF Arith
  <2> QED BY <1>12, <2>3, <2>4, <2>5
<1> QED BY <1>11, <1>12, <1>13 DEF Allows

(* The difference, and the borrows. *)
LEMMA SubAllows ==
  ASSUME NEW r, NEW s, Operands(r, s) PROVE Allows(Sub(r, s), "sub", r, s)
<1>1. /\ Sound(r) /\ Sound(s) /\ s.w = r.w /\ r.w \in Nat
      /\ r.lo \in Int /\ r.hi \in Int /\ s.lo \in Int /\ s.hi \in Int
  BY OperandFacts
<1>2. PICK w \in Nat : w = r.w
  BY <1>1
<1>3. PICK L, M, U, V : L = r.kv /\ M = s.kv /\ U = Unknown(r) /\ V = Unknown(s)
  OBVIOUS
<1>4. PICK diff \in Int : diff = Number(w, L) - Number(w, M)
  <2>1. Number(w, L) \in Nat /\ Number(w, M) \in Nat
    BY NumberFacts
  <2> QED BY <2>1
<1>5. PICK alpha, beta : /\ alpha = ToBits(w, diff + Number(w, U))
                        /\ beta = ToBits(w, diff - Number(w, V))
  OBVIOUS
<1>6. PICK kv, km : /\ kv = ToBits(w, diff) \ (SymDiff(alpha, beta) \cup U \cup V)
                    /\ km = Ones(w) \ (SymDiff(alpha, beta) \cup U \cup V)
  OBVIOUS
<1>7. PICK k : k = SubBits(r, s) /\ k = [kv |-> kv, km |-> km]
  BY <1>1, <1>2, <1>3, <1>4, <1>5, <1>6 DEF SubBits, KnownBut
<1>8. kv \subseteq km /\ km \subseteq Ones(w)
  BY <1>6 DEF ToBits
<1>9. ASSUME NEW x \in Concrete(r), NEW y \in Concrete(s), NEW i \in Ones(w), i \in km
      PROVE  i \in ToBits(w, x - y) <=> i \in kv
  <2>1. PICK X, Y : X = ToBits(w, x) /\ Y = ToBits(w, y)
    OBVIOUS
  <2>2. /\ x \in Int /\ y \in Int
        /\ L \subseteq X /\ X \subseteq L \cup U /\ M \subseteq Y /\ Y \subseteq M \cup V
        /\ L \cap U = {} /\ M \cap V = {}
    BY <1>1, <1>2, <1>3, <2>1, ValueBits
  <2>3. i \in ToBits(w, x - y) <=> i \in ToBits(w, Number(w, X) - Number(w, Y))
    <3>1. ToBits(w, x - y) = ToBits(w, Number(w, ToBits(w, x)) - Number(w, ToBits(w, y)))
      BY <2>2, SumOfPatterns, ZenonT(60)
    <3> QED BY <2>1, <3>1
  <2>4. /\ alpha = ToBits(w, Number(w, L \cup U) - Number(w, M))
        /\ beta = ToBits(w, Number(w, L) - Number(w, M \cup V))
    <3>1. /\ Number(w, L \cup U) = Number(w, L) + Number(w, U)
          /\ Number(w, M \cup V) = Number(w, M) + Number(w, V)
      BY <2>2, NumberDisjoint
    <3>2. /\ Number(w, L) \in Nat /\ Number(w, U) \in Nat
          /\ Number(w, M) \in Nat /\ Number(w, V) \in Nat
      BY NumberFacts
    <3>3. /\ Number(w, L \cup U) - Number(w, M) = diff + Number(w, U)
          /\ Number(w, L) - Number(w, M \cup V) = diff - Number(w, V)
      BY <1>4, <3>1, <3>2
    <3> QED BY <1>5, <3>3
  <2>5. i \notin U /\ i \notin V /\ (i \in alpha <=> i \in beta)
        /\ (i \in kv <=> i \in ToBits(w, diff))
    BY <1>6, <1>9 DEF SymDiff
  <2>6. /\ i \in Nat /\ Number(i, L) <= Number(i, X) /\ Number(i, X) <= Number(i, L \cup U)
        /\ Number(i, M) <= Number(i, Y) /\ Number(i, Y) <= Number(i, M \cup V)
    <3>1. i \in Nat
      BY DEF Ones
    <3>2. /\ \A j \in Ones(i) : j \in L => j \in X
          /\ \A j \in Ones(i) : j \in X => j \in L \cup U
          /\ \A j \in Ones(i) : j \in M => j \in Y
          /\ \A j \in Ones(i) : j \in Y => j \in M \cup V
      BY <2>2
    <3> QED BY <3>1, <3>2, NumberMonotone
  <2>7. /\ Number(i, L) \in Nat /\ Number(i, M) \in Nat /\ Pow2(i) \in Nat
        /\ i \in ToBits(w, diff) <=> ((i \in L <=> i \in M) <=> Number(i, L) < Number(i, M))
    BY <1>4, DiffBit
  <2>8. /\ Number(i, X) \in Nat /\ Number(i, Y) \in Nat
        /\ i \in ToBits(w, Number(w, X) - Number(w, Y))
             <=> ((i \in X <=> i \in Y) <=> Number(i, X) < Number(i, Y))
    BY DiffBit
  <2>9. /\ Number(i, L \cup U) \in Nat /\ Number(i, M \cup V) \in Nat
        /\ i \in alpha <=> ((i \in L \cup U <=> i \in M) <=> Number(i, L \cup U) < Number(i, M))
        /\ i \in beta <=> ((i \in L <=> i \in M \cup V) <=> Number(i, L) < Number(i, M \cup V))
    BY <2>4, DiffBit
  <2>10. (i \in X <=> i \in L) /\ (i \in Y <=> i \in M)
         /\ (i \in L \cup U <=> i \in L) /\ (i \in M \cup V <=> i \in M)
    BY <2>2, <2>5
  <2>11. PICK borrow0 \in BOOLEAN, borrow \in BOOLEAN, known \in BOOLEAN, borrow1 \in BOOLEAN :
           /\ borrow0 <=> Number(i, L \cup U) < Number(i, M)
           /\ borrow <=> Number(i, X) < Number(i, Y)
           /\ known <=> Number(i, L) < Number(i, M)
           /\ borrow1 <=> Number(i, L) < Number(i, M \cup V)
    OBVIOUS
  <2>12. /\ (borrow0 => borrow) /\ (borrow => borrow1)
         /\ (borrow0 => known) /\ (known => borrow1)
    BY <2>6, <2>7, <2>8, <2>9, <2>11
  <2>13. borrow0 <=> borrow1
    BY <2>5, <2>9, <2>10, <2>11
  <2>14. borrow <=> known
    BY <2>12, <2>13
  <2> QED BY <2>3, <2>5, <2>7, <2>8, <2>10, <2>11, <2>14
<1>10. PICK lo \in Int, hi \in Int : lo = r.lo - s.hi /\ hi = r.hi - s.lo
  BY <1>1
<1>11. PICK t : t = Sub(r, s) /\ t = Bounded(r, k, lo, hi)
  BY <1>7, <1>10 DEF Sub
<1>12. /\ Sound(t) /\ SameType(t, r)
       /\ \A v \in Int : lo <= v /\ v <= hi
                         /\ (\A i \in Ones(r.w) : i \in km => (i \in ToBits(r.w, v) <=> i \in kv))
                           => Wrap(r.signed, r.w, v) \in Concrete(t)
  <2>1. kv \subseteq km /\ km \subseteq Ones(r.w) /\ k = [kv |-> kv, km |-> km]
    BY <1>2, <1>7, <1>8
  <2> QED BY <1>1, <1>11, <2>1, BoundedAllows
<1>13. ASSUME NEW x \in Concrete(r), NEW y \in Concrete(s)
       PROVE  Arith("sub", r.signed, r.w, x, y) \in Concrete(t)
  <2>1. x \in Int /\ r.lo <= x /\ x <= r.hi /\ y \in Int /\ s.lo <= y /\ y <= s.hi
    BY <1>1, ValueBits
  <2>2. PICK v \in Int : v = x - y
    BY <2>1
  <2>3. lo <= v /\ v <= hi
    BY <1>1, <1>10, <2>1, <2>2
  <2>4. \A i \in Ones(r.w) : i \in km => (i \in ToBits(r.w, v) <=> i \in kv)
    BY <1>2, <1>9, <2>2
  <2>5. Arith("sub", r.signed, r.w, x, y) = Wrap(r.signed, r.w, v)
    BY <2>2 DEF Arith
  <2> QED BY <1>12, <2>3, <2>4, <2>5
<1> QED BY <1>11, <1>12, <1>13 DEF Allows

(* Truncated division is of whole numbers, and rounds down where nothing is   *)
(* negative.                                                                  *)
LEMMA DivIsInt ==
  ASSUME NEW x \in Int, NEW y \in Int
  PROVE  DivInt(x, y) \in Int /\ ModInt(x, y) \in Int
<1>1. CASE y = 0
  BY <1>1 DEF DivInt, ModInt
<1>2. CASE y # 0
  <2>1. PICK m \in Nat \ {0}, n \in Nat : m = Magnitude(y) /\ n = Magnitude(x)
    BY <1>2 DEF Magnitude
  <2>2. PICK q \in Int : q = n \div m
    BY DivMod
  <2>3. PICK t \in Int : t = TDiv(x, y) /\ (t = q \/ t = -q)
    BY <2>1, <2>2 DEF TDiv
  <2>4. y * t \in Int
    OBVIOUS
  <2>5. TMod(x, y) = x - y * t
    BY <2>3 DEF TMod
  <2> QED BY <1>2, <2>3, <2>4, <2>5 DEF DivInt, ModInt
<1> QED BY <1>1, <1>2

LEMMA DivDown ==
  ASSUME NEW x \in Nat, NEW y \in Nat \ {0}
  PROVE  /\ TDiv(x, y) = x \div y /\ TMod(x, y) = x % y
         /\ DivInt(x, y) = x \div y /\ ModInt(x, y) = x % y
         /\ x \div y \in Nat /\ x \div y <= x /\ x % y \in 0 .. y - 1 /\ x % y <= x
<1>1. PICK q \in Int, t \in 0 .. y - 1 : q = x \div y /\ t = x % y /\ x = y * q + t
  BY DivMod
<1>2. q \in Nat /\ q <= x
  BY <1>1, DivSmaller
<1>3. Magnitude(x) = x /\ Magnitude(y) = y
  BY DEF Magnitude
<1>4. TDiv(x, y) = q
  BY <1>1, <1>3 DEF TDiv
<1>5. PICK z \in Nat : z = y * q
  BY <1>2
<1>6. TMod(x, y) = t /\ t <= x
  <2>1. TMod(x, y) = x - z
    BY <1>4, <1>5 DEF TMod
  <2>2. x = z + t
    BY <1>1, <1>5
  <2> QED BY <2>1, <2>2
<1> QED BY <1>1, <1>2, <1>4, <1>6 DEF DivInt, ModInt

(* What the program computes is some whole number wrapped.                    *)
LEMMA ArithWraps ==
  ASSUME NEW op \in ArithOps, NEW signed \in BOOLEAN, NEW w \in Nat \ {0},
         NEW x \in Int, NEW y \in Int
  PROVE  Arith(op, signed, w, x, y) \in Type(signed, w)
<1>1. SUFFICES \E v \in Int : Arith(op, signed, w, x, y) = Wrap(signed, w, v)
  BY WrapFacts
<1>2. CASE op = "add"
  <2>1. x + y \in Int
    OBVIOUS
  <2> QED BY <1>2, <2>1 DEF Arith
<1>3. CASE op = "sub"
  <2>1. x - y \in Int
    OBVIOUS
  <2> QED BY <1>3, <2>1 DEF Arith
<1>4. CASE op = "mul"
  <2>1. x * y \in Int
    OBVIOUS
  <2> QED BY <1>4, <2>1 DEF Arith
<1>5. CASE op = "div"
  BY <1>5, DivIsInt DEF Arith
<1>6. CASE op = "mod"
  BY <1>6, DivIsInt DEF Arith
<1>7. CASE op \in {"band", "bor", "bxor"}
  <2>1. ASSUME NEW B PROVE Number(w, B) \in Int
    <3>1. w \in Nat
      OBVIOUS
    <3>2. Number(w, B) \in Nat
      BY <3>1, NumberFacts
    <3> QED BY <3>2
  <2>2. CASE op = "band"
    BY <2>1, <2>2 DEF Arith
  <2>3. CASE op = "bor"
    BY <2>1, <2>3 DEF Arith
  <2>4. CASE op = "bxor"
    BY <2>1, <2>4 DEF Arith
  <2> QED BY <1>7, <2>2, <2>3, <2>4
<1>8. CASE op \in {"shl", "shr"}
  <2>1. PICK n \in Nat : n = Number(w, ToBits(w, y))
    BY NumberFacts
  <2>2. PICK c \in Nat : c = n % w
    BY DivMod
  <2>3. PICK p \in Nat \ {0} : p = Pow2(c)
    BY Pow2Facts
  <2>4. x * p \in Int /\ x \div p \in Int
    BY DivMod
  <2>5. CASE op = "shl"
    BY <2>1, <2>2, <2>3, <2>4, <2>5 DEF Arith
  <2>6. CASE op = "shr"
    BY <2>1, <2>2, <2>3, <2>4, <2>6 DEF Arith
  <2> QED BY <1>8, <2>5, <2>6
<1> QED BY <1>2, <1>3, <1>4, <1>5, <1>6, <1>7, <1>8 DEF ArithOps

(* Nothing known allows anything.                                             *)
LEMMA AnythingAllowed ==
  ASSUME NEW r, NEW s, Operands(r, s), NEW op \in ArithOps
  PROVE  Allows(TopOf(r), op, r, s)
<1>1. r.signed \in BOOLEAN /\ r.w \in Nat \ {0} /\ Sound(r) /\ Sound(s)
  BY OperandFacts
<1>2. PICK t : t = TopOf(r)
  OBVIOUS
<1>3. Sound(t) /\ SameType(t, r) /\ Concrete(t) = Type(r.signed, r.w)
  BY <1>1, <1>2, TopAllows DEF TopOf, SameType
<1>4. ASSUME NEW x \in Concrete(r), NEW y \in Concrete(s)
      PROVE  Arith(op, r.signed, r.w, x, y) \in Concrete(t)
  <2>1. x \in Int /\ y \in Int
    BY <1>1, ValueBits
  <2> QED BY <1>1, <1>3, <2>1, ArithWraps
<1> QED BY <1>2, <1>3, <1>4 DEF Allows

(* A number within the type wraps to itself.                                  *)
LEMMA WithinType ==
  ASSUME NEW r, Sound(r), NEW v \in Int,
         TypeLo(r.signed, r.w) <= v, v <= TypeHi(r.signed, r.w)
  PROVE  v \in Type(r.signed, r.w) /\ Wrap(r.signed, r.w, v) = v
<1>1. /\ r.signed \in BOOLEAN /\ r.w \in Nat \ {0}
      /\ TypeLo(r.signed, r.w) \in Int /\ TypeHi(r.signed, r.w) \in Int
  BY SoundFields
<1>2. v \in Type(r.signed, r.w)
  BY <1>1 DEF Type
<1> QED BY <1>1, <1>2, WrapFacts

(* Known not to be negative and to be at most hi.                             *)
LEMMA UpToAllows ==
  ASSUME NEW r, Sound(r), NEW hi \in Int, hi <= TypeHi(r.signed, r.w)
  PROVE  /\ Sound(UpTo(r, hi)) /\ SameType(UpTo(r, hi), r)
         /\ \A v \in Int : 0 <= v /\ v <= hi
                             => v \in Concrete(UpTo(r, hi)) /\ Wrap(r.signed, r.w, v) = v
<1>1. /\ r.signed \in BOOLEAN /\ r.w \in Nat \ {0}
      /\ TypeLo(r.signed, r.w) \in Int /\ TypeHi(r.signed, r.w) \in Int
      /\ TypeLo(r.signed, r.w) <= 0
  BY SoundFields
<1>2. PICK t : t = TopOf(r)
  OBVIOUS
<1>3. Sound(t) /\ t.signed = r.signed /\ t.w = r.w /\ Concrete(t) = Type(r.signed, r.w)
  BY <1>1, <1>2, TopAllows DEF TopOf
<1>4. Fits(t, 0, hi)
  BY <1>1, <1>3 DEF Fits
<1>5. /\ Sound(Between(t, 0, hi)) /\ SameType(Between(t, 0, hi), t)
      /\ \A v \in Concrete(t) : 0 <= v /\ v <= hi => v \in Concrete(Between(t, 0, hi))
  BY <1>3, <1>4, BetweenAllows
<1>6. ASSUME NEW v \in Int, 0 <= v, v <= hi
      PROVE  v \in Concrete(Between(t, 0, hi)) /\ Wrap(r.signed, r.w, v) = v
  <2>1. TypeLo(r.signed, r.w) <= v /\ v <= TypeHi(r.signed, r.w)
    BY <1>1, <1>6
  <2>2. v \in Type(r.signed, r.w) /\ Wrap(r.signed, r.w, v) = v
    BY <2>1, WithinType
  <2> QED BY <1>3, <1>5, <1>6, <2>2
<1> QED BY <1>2, <1>3, <1>5, <1>6 DEF UpTo, SameType

(* Both operands constant: the constant the operator gives.                   *)
LEMMA ConstantValues ==
  ASSUME NEW r, Sound(r), IsConst(r), NEW x \in Concrete(r)
  PROVE  x = r.lo
<1>1. x \in Int /\ r.lo \in Int /\ r.hi \in Int /\ r.lo <= x /\ x <= r.hi
  BY ValueBits, SoundFields
<1> QED BY <1>1 DEF IsConst

(* The value a pattern is read as, and a result of which bits are known.      *)
LEMMA PatternValue ==
  ASSUME NEW r, Sound(r), NEW B, B \subseteq Ones(r.w), NEW kv, NEW km,
         \A i \in Ones(r.w) : i \in km => (i \in B <=> i \in kv)
  PROVE  /\ Wrap(r.signed, r.w, Number(r.w, B)) = FromBits(r.signed, r.w, B)
         /\ Sound(WithBits(r, kv, km)) /\ SameType(WithBits(r, kv, km), r)
         /\ Wrap(r.signed, r.w, Number(r.w, B)) \in Concrete(WithBits(r, kv, km))
<1>1. r.signed \in BOOLEAN /\ r.w \in Nat \ {0} /\ r.w \in Nat
  BY SoundFields
<1>2. PICK n \in Int : n = Number(r.w, B)
  <2>1. Number(r.w, B) \in Nat
    BY <1>1, NumberFacts
  <2> QED BY <2>1
<1>3. ToBits(r.w, n) = B
  BY <1>1, <1>2, BitsOfNumber
<1>4. PICK v : /\ v = Wrap(r.signed, r.w, n) /\ v \in Type(r.signed, r.w)
               /\ ToBits(r.w, v) = B
  BY <1>1, <1>3, WrapFacts
<1>5. FromBits(r.signed, r.w, B) = v
  BY <1>1, <1>3, <1>4, FromBitsFacts
<1>6. PICK t : t = WithBits(r, kv, km)
  OBVIOUS
<1>7. /\ Sound(t) /\ SameType(t, r)
      /\ \A u \in Type(r.signed, r.w) :
           (\A i \in Ones(r.w) \cap km : i \in ToBits(r.w, u) <=> i \in kv) => u \in Concrete(t)
  <2>1. /\ Sound(WithBits(r, kv, km)) /\ SameType(WithBits(r, kv, km), r)
        /\ \A u \in Type(r.signed, r.w) :
             (\A i \in Ones(r.w) \cap km : i \in ToBits(r.w, u) <=> i \in kv)
               => u \in Concrete(WithBits(r, kv, km))
    BY <1>1, WithBitsAllows
  <2> QED BY <1>6, <2>1
<1>8. v \in Concrete(t)
  BY <1>4, <1>7
<1> QED BY <1>2, <1>4, <1>5, <1>6, <1>7, <1>8

(* A value that is not negative is the number of its pattern.                 *)
LEMMA NotNegative ==
  ASSUME NEW r, Sound(r), NEW x \in Concrete(r), r.lo >= 0
  PROVE  /\ x \in Nat /\ Number(r.w, ToBits(r.w, x)) = x /\ x < Pow2(r.w)
         /\ FromBits(r.signed, r.w, ToBits(r.w, x)) = x
         /\ ~(r.signed /\ Sign(r.w) \in ToBits(r.w, x))
<1>1. r.signed \in BOOLEAN /\ r.w \in Nat \ {0} /\ r.w \in Nat /\ r.lo \in Int
  BY SoundFields
<1>2. /\ x \in Int /\ x \in Type(r.signed, r.w) /\ r.lo <= x
      /\ FromBits(r.signed, r.w, ToBits(r.w, x)) = x
  BY ConcreteInType, ValueBits
<1>3. x \in Nat
  BY <1>1, <1>2
<1>4. PICK h \in Nat \ {0} : /\ h = Pow2(r.w - 1) /\ Pow2(r.w) = 2 * h
                            /\ TypeLo(r.signed, r.w) = (IF r.signed THEN 0 - h ELSE 0)
                            /\ TypeHi(r.signed, r.w) = (IF r.signed THEN h - 1 ELSE 2 * h - 1)
  BY <1>1, TypeFacts, ZenonT(60)
<1>5. PICK m \in Nat \ {0} : m = Pow2(r.w)
  BY <1>1, Pow2Facts
<1>6. x <= TypeHi(r.signed, r.w)
  <2>1. TypeLo(r.signed, r.w) \in Int /\ TypeHi(r.signed, r.w) \in Int
    BY SoundFields
  <2> QED BY <1>2, <2>1 DEF Type
<1>7. x \in 0 .. m - 1
  BY <1>3, <1>4, <1>5, <1>6
<1>8. x % m = x
  BY <1>7, ModSmall
<1>9. Number(r.w, ToBits(r.w, x)) = x
  <2>1. Number(r.w, ToBits(r.w, x)) = x % Pow2(r.w)
    BY <1>1, <1>3, NumberOfBits
  <2> QED BY <1>5, <1>8, <2>1
<1>10. ~(r.signed /\ Sign(r.w) \in ToBits(r.w, x))
  <2>1. Sign(r.w) \in ToBits(r.w, x) <=> IF r.signed THEN x < 0 ELSE x >= Pow2(r.w - 1)
    BY <1>1, <1>2, SignIsBit
  <2> QED BY <1>3, <2>1
<1> QED BY <1>2, <1>3, <1>5, <1>7, <1>9, <1>10

LEMMA BandAllows ==
  ASSUME NEW r, NEW s, Operands(r, s) PROVE Allows(Band(r, s), "band", r, s)
<1>1. /\ Sound(r) /\ Sound(s) /\ s.w = r.w /\ s.signed = r.signed /\ r.w \in Nat
      /\ r.signed \in BOOLEAN /\ r.w \in Nat \ {0}
      /\ r.lo \in Int /\ r.hi \in Int /\ s.lo \in Int /\ s.hi \in Int
      /\ TypeLo(r.signed, r.w) \in Int /\ TypeHi(r.signed, r.w) \in Int
      /\ TypeLo(r.signed, r.w) <= 0 /\ r.hi <= TypeHi(r.signed, r.w)
  BY OperandFacts
<1>2. PICK kv, km : /\ kv = r.kv \cap s.kv
                    /\ km = Ones(r.w) \ (((r.kv \cup Unknown(r)) \cap (s.kv \cup Unknown(s))) \ kv)
  OBVIOUS
<1>3. PICK t : t = WithBits(r, kv, km)
  OBVIOUS
<1>4. ASSUME NEW x \in Concrete(r), NEW y \in Concrete(s), NEW i \in Ones(r.w), i \in km
      PROVE  i \in ToBits(r.w, x) \cap ToBits(r.w, y) <=> i \in kv
  <2>1. /\ r.kv \subseteq ToBits(r.w, x) /\ ToBits(r.w, x) \subseteq r.kv \cup Unknown(r)
        /\ s.kv \subseteq ToBits(r.w, y) /\ ToBits(r.w, y) \subseteq s.kv \cup Unknown(s)
    BY <1>1, ValueBits
  <2> QED BY <1>2, <1>4, <2>1
<1>5. Sound(t) /\ SameType(t, r)
  BY <1>1, <1>3, WithBitsAllows
<1>6. ASSUME NEW x \in Concrete(r), NEW y \in Concrete(s)
      PROVE  Arith("band", r.signed, r.w, x, y) \in Concrete(t)
  <2>1. PICK B : B = ToBits(r.w, x) \cap ToBits(r.w, y) /\ B \subseteq Ones(r.w)
    BY DEF ToBits
  <2>2. \A i \in Ones(r.w) : i \in km => (i \in B <=> i \in kv)
    BY <1>4, <2>1
  <2>3. Wrap(r.signed, r.w, Number(r.w, B)) \in Concrete(t)
    BY <1>1, <1>3, <2>1, <2>2, PatternValue
  <2> QED BY <2>1, <2>3 DEF Arith
<1>7. CASE ~(r.lo >= 0 /\ s.lo >= 0)
  <2>1. Band(r, s) = t
    BY <1>2, <1>3, <1>7 DEF Band
  <2> QED BY <1>5, <1>6, <2>1 DEF Allows
<1>8. CASE r.lo >= 0 /\ s.lo >= 0
  <2>1. PICK hi \in Int : hi = Smaller(r.hi, s.hi)
    BY <1>1 DEF Smaller
  <2>2. PICK u : u = Band(r, s) /\ u = Between(t, 0, hi)
    BY <1>2, <1>3, <1>8, <2>1 DEF Band
  <2>3. Fits(t, 0, hi)
    <3>1. hi <= TypeHi(r.signed, r.w)
      BY <1>1, <2>1 DEF Smaller
    <3> QED BY <1>1, <1>5, <3>1 DEF Fits, SameType
  <2>4. /\ Sound(u) /\ SameType(u, t)
        /\ \A v \in Concrete(t) : 0 <= v /\ v <= hi => v \in Concrete(u)
    BY <1>5, <2>2, <2>3, BetweenAllows
  <2>5. ASSUME NEW x \in Concrete(r), NEW y \in Concrete(s)
        PROVE  Arith("band", r.signed, r.w, x, y) \in Concrete(u)
    <3>1. PICK X, Y : X = ToBits(r.w, x) /\ Y = ToBits(r.w, y)
      OBVIOUS
    <3>2. /\ x \in Nat /\ Number(r.w, X) = x /\ y \in Nat /\ Number(r.w, Y) = y
      BY <1>1, <1>8, <3>1, NotNegative
    <3>3. x <= r.hi /\ y <= s.hi
      BY <1>1, ValueBits
    <3>4. PICK v \in Nat : v = Number(r.w, X \cap Y)
      BY <1>1, NumberFacts
    <3>5. Number(r.w, X \cap Y) <= Number(r.w, X) /\ Number(r.w, X \cap Y) <= Number(r.w, Y)
      BY <1>1, NumberMonotone
    <3>6. v <= x /\ v <= y
      BY <3>2, <3>4, <3>5
    <3>7. v <= hi /\ TypeLo(r.signed, r.w) <= v /\ v <= TypeHi(r.signed, r.w)
      BY <1>1, <2>1, <3>2, <3>3, <3>6 DEF Smaller
    <3>8. Wrap(r.signed, r.w, v) = v
      BY <1>1, <3>7, WithinType
    <3>9. Arith("band", r.signed, r.w, x, y) = v
      BY <3>1, <3>4, <3>8 DEF Arith
    <3> QED BY <1>6, <2>4, <3>7, <3>9
  <2> QED BY <1>5, <2>2, <2>4, <2>5 DEF Allows, SameType
<1> QED BY <1>7, <1>8

LEMMA BorAllows ==
  ASSUME NEW r, NEW s, Operands(r, s) PROVE Allows(Bor(r, s), "bor", r, s)
<1>1. /\ Sound(r) /\ Sound(s) /\ s.w = r.w /\ s.signed = r.signed /\ r.w \in Nat
      /\ r.signed \in BOOLEAN /\ r.w \in Nat \ {0}
      /\ r.lo \in Int /\ r.hi \in Int /\ s.lo \in Int /\ s.hi \in Int
      /\ TypeLo(r.signed, r.w) \in Int /\ TypeHi(r.signed, r.w) \in Int
      /\ TypeLo(r.signed, r.w) <= r.lo /\ TypeLo(r.signed, r.w) <= s.lo
  BY OperandFacts
<1>2. PICK kv, km : /\ kv = r.kv \cup s.kv
                    /\ km = Ones(r.w) \ ((Unknown(r) \cup Unknown(s)) \ kv)
  OBVIOUS
<1>3. PICK t : t = WithBits(r, kv, km)
  OBVIOUS
<1>4. ASSUME NEW x \in Concrete(r), NEW y \in Concrete(s), NEW i \in Ones(r.w), i \in km
      PROVE  i \in ToBits(r.w, x) \cup ToBits(r.w, y) <=> i \in kv
  <2>1. /\ r.kv \subseteq ToBits(r.w, x) /\ ToBits(r.w, x) \subseteq r.kv \cup Unknown(r)
        /\ s.kv \subseteq ToBits(r.w, y) /\ ToBits(r.w, y) \subseteq s.kv \cup Unknown(s)
    BY <1>1, ValueBits
  <2> QED BY <1>2, <1>4, <2>1
<1>5. Sound(t) /\ SameType(t, r)
  BY <1>1, <1>3, WithBitsAllows
<1>6. ASSUME NEW x \in Concrete(r), NEW y \in Concrete(s)
      PROVE  /\ Arith("bor", r.signed, r.w, x, y) \in Concrete(t)
             /\ Arith("bor", r.signed, r.w, x, y)
                  = FromBits(r.signed, r.w, ToBits(r.w, x) \cup ToBits(r.w, y))
  <2>1. PICK B : B = ToBits(r.w, x) \cup ToBits(r.w, y) /\ B \subseteq Ones(r.w)
    BY DEF ToBits
  <2>2. \A i \in Ones(r.w) : i \in km => (i \in B <=> i \in kv)
    BY <1>4, <2>1
  <2>3. /\ Wrap(r.signed, r.w, Number(r.w, B)) \in Concrete(t)
        /\ Wrap(r.signed, r.w, Number(r.w, B)) = FromBits(r.signed, r.w, B)
    BY <1>1, <1>3, <2>1, <2>2, PatternValue
  <2> QED BY <2>1, <2>3 DEF Arith
<1>7. CASE ~(r.lo >= 0 /\ s.lo >= 0)
  <2>1. Bor(r, s) = t
    BY <1>2, <1>3, <1>7 DEF Bor
  <2> QED BY <1>5, <1>6, <2>1 DEF Allows
<1>8. CASE r.lo >= 0 /\ s.lo >= 0
  <2>0. t.hi \in Int /\ t.hi <= TypeHi(t.signed, t.w)
    BY <1>5, SoundFields
  <2>1. PICK lo \in Int : lo = Larger(r.lo, s.lo)
    BY <1>1 DEF Larger
  <2>2. PICK u : u = Bor(r, s) /\ u = Between(t, lo, t.hi)
    BY <1>2, <1>3, <1>8, <2>1 DEF Bor
  <2>3. Fits(t, lo, t.hi)
    <3>1. TypeLo(r.signed, r.w) <= lo
      BY <1>1, <2>1 DEF Larger
    <3> QED BY <1>1, <1>5, <2>0, <3>1 DEF Fits, SameType
  <2>4. /\ Sound(u) /\ SameType(u, t)
        /\ \A v \in Concrete(t) : lo <= v /\ v <= t.hi => v \in Concrete(u)
    BY <1>5, <2>0, <2>2, <2>3, BetweenAllows
  <2>5. ASSUME NEW x \in Concrete(r), NEW y \in Concrete(s)
        PROVE  Arith("bor", r.signed, r.w, x, y) \in Concrete(u)
    <3>1. PICK X, Y : X = ToBits(r.w, x) /\ Y = ToBits(r.w, y)
      OBVIOUS
    <3>2. /\ x \in Nat /\ FromBits(r.signed, r.w, X) = x /\ ~(r.signed /\ Sign(r.w) \in X)
      BY <1>1, <1>8, <3>1, NotNegative
    <3>3. /\ y \in Nat /\ FromBits(r.signed, r.w, Y) = y /\ ~(r.signed /\ Sign(r.w) \in Y)
      BY <1>1, <1>8, <3>1, NotNegative
    <3>4. r.lo <= x /\ s.lo <= y
      BY <1>1, ValueBits
    <3>5. FromBits(r.signed, r.w, X) <= FromBits(r.signed, r.w, X \cup Y)
      <4>1. /\ \A k \in Ones(r.w) : ~(r.signed /\ k = Sign(r.w)) /\ k \in X => k \in X \cup Y
            /\ r.signed /\ Sign(r.w) \in X \cup Y => Sign(r.w) \in X
        BY <3>2, <3>3
      <4> QED BY <1>1, <4>1, FromBitsOrder
    <3>6. FromBits(r.signed, r.w, Y) <= FromBits(r.signed, r.w, X \cup Y)
      <4>1. /\ \A k \in Ones(r.w) : ~(r.signed /\ k = Sign(r.w)) /\ k \in Y => k \in X \cup Y
            /\ r.signed /\ Sign(r.w) \in X \cup Y => Sign(r.w) \in Y
        BY <3>2, <3>3
      <4> QED BY <1>1, <4>1, FromBitsOrder
    <3>7. PICK v : v = Arith("bor", r.signed, r.w, x, y) /\ v \in Concrete(t)
                   /\ v = FromBits(r.signed, r.w, X \cup Y)
      BY <1>6, <3>1
    <3>8. v \in Int /\ v <= t.hi
      BY <1>5, <3>7, ValueBits
    <3>9. lo <= v
      BY <1>1, <2>1, <3>2, <3>3, <3>4, <3>5, <3>6, <3>7, <3>8 DEF Larger
    <3> QED BY <2>4, <3>7, <3>8, <3>9
  <2> QED BY <1>5, <2>2, <2>4, <2>5 DEF Allows, SameType
<1> QED BY <1>7, <1>8

LEMMA BxorAllows ==
  ASSUME NEW r, NEW s, Operands(r, s) PROVE Allows(Bxor(r, s), "bxor", r, s)
<1>1. /\ Sound(r) /\ Sound(s) /\ s.w = r.w /\ r.w \in Nat
      /\ r.signed \in BOOLEAN /\ r.w \in Nat \ {0}
  BY OperandFacts
<1>2. PICK kv, km : /\ kv = SymDiff(r.kv, s.kv)
                    /\ km = Ones(r.w) \ (Unknown(r) \cup Unknown(s))
  OBVIOUS
<1>3. PICK t : t = Bxor(r, s) /\ t = WithBits(r, kv, km)
  BY <1>2 DEF Bxor
<1>4. ASSUME NEW x \in Concrete(r), NEW y \in Concrete(s), NEW i \in Ones(r.w), i \in km
      PROVE  i \in SymDiff(ToBits(r.w, x), ToBits(r.w, y)) <=> i \in kv
  <2>1. /\ i \notin Unknown(r) => (i \in ToBits(r.w, x) <=> i \in r.kv)
        /\ i \notin Unknown(s) => (i \in ToBits(r.w, y) <=> i \in s.kv)
    BY <1>1, ValueBits
  <2> QED BY <1>2, <1>4, <2>1 DEF SymDiff
<1>5. Sound(t) /\ SameType(t, r)
  BY <1>1, <1>3, WithBitsAllows
<1>6. ASSUME NEW x \in Concrete(r), NEW y \in Concrete(s)
      PROVE  Arith("bxor", r.signed, r.w, x, y) \in Concrete(t)
  <2>1. PICK B : B = SymDiff(ToBits(r.w, x), ToBits(r.w, y)) /\ B \subseteq Ones(r.w)
    BY DEF ToBits, SymDiff
  <2>2. \A i \in Ones(r.w) : i \in km => (i \in B <=> i \in kv)
    BY <1>4, <2>1
  <2>3. Wrap(r.signed, r.w, Number(r.w, B)) \in Concrete(t)
    BY <1>1, <1>3, <2>1, <2>2, PatternValue
  <2> QED BY <2>1, <2>3 DEF Arith
<1> QED BY <1>3, <1>5, <1>6 DEF Allows

(* Both operands constant.                                                    *)
LEMMA ConstResult ==
  ASSUME NEW r, NEW s, Operands(r, s), IsConst(r), IsConst(s), NEW op, NEW v \in Int,
         Arith(op, r.signed, r.w, r.lo, s.lo) = Wrap(r.signed, r.w, v)
  PROVE  Allows(Const(r.signed, r.w, v), op, r, s)
<1>1. r.signed \in BOOLEAN /\ r.w \in Nat \ {0} /\ Sound(r) /\ Sound(s)
  BY OperandFacts
<1>2. \A x \in Concrete(r), y \in Concrete(s) : x = r.lo /\ y = s.lo
  BY <1>1, ConstantValues
<1> QED BY <1>1, <1>2, ConstAllows DEF Allows, SameType

LEMMA DivAllows ==
  ASSUME NEW r, NEW s, Operands(r, s) PROVE Allows(Div(r, s), "div", r, s)
<1>1. /\ Sound(r) /\ Sound(s) /\ s.w = r.w /\ s.signed = r.signed
      /\ r.signed \in BOOLEAN /\ r.w \in Nat \ {0}
      /\ r.lo \in Int /\ r.hi \in Int /\ s.lo \in Int /\ s.hi \in Int
      /\ r.lo <= r.hi /\ s.lo <= s.hi
      /\ TypeLo(r.signed, r.w) \in Int /\ TypeHi(r.signed, r.w) \in Int
      /\ TypeLo(r.signed, r.w) <= 0 /\ 0 <= TypeHi(r.signed, r.w) /\ r.hi <= TypeHi(r.signed, r.w)
  BY OperandFacts
<1>2. PICK t : t = Div(r, s)
  OBVIOUS
<1>3. \A x \in Concrete(r) : x \in Int /\ r.lo <= x /\ x <= r.hi
  BY <1>1, ValueBits
<1>4. \A y \in Concrete(s) : y \in Int /\ s.lo <= y /\ y <= s.hi
  BY <1>1, ValueBits
<1>5. \A x, y : Arith("div", r.signed, r.w, x, y) = Wrap(r.signed, r.w, DivInt(x, y))
  BY DEF Arith
<1>6. CASE IsConst(r) /\ IsConst(s)
  <2>1. PICK v \in Int : v = DivInt(r.lo, s.lo)
    BY <1>1, DivIsInt
  <2>2. t = Const(r.signed, r.w, v)
    BY <1>2, <1>6, <2>1 DEF Div
  <2> QED BY <1>2, <1>5, <1>6, <2>1, <2>2, ConstResult
<1>7. CASE ~IsConst(r) /\ IsConst(s) /\ s.lo > 0 /\ r.lo >= 0
  <2>1. PICK y \in Nat \ {0} : y = s.lo
    BY <1>1, <1>7
  <2>2. PICK lo \in Nat, hi \in Nat : lo = r.lo \div y /\ hi = r.hi \div y /\ hi <= r.hi
    <3>1. r.lo \in Nat /\ r.hi \in Nat
      BY <1>1, <1>7
    <3>2. r.lo \div y \in Nat /\ r.hi \div y \in Nat /\ r.hi \div y <= r.hi
      BY <3>1, DivDown
    <3> QED BY <3>2
  <2>3. TDiv(r.lo, y) = lo /\ TDiv(r.hi, y) = hi
    <3>1. r.lo \in Nat /\ r.hi \in Nat
      BY <1>1, <1>7
    <3> QED BY <2>2, <3>1, DivDown
  <2>4. t = Between(TopOf(r), lo, hi)
    BY <1>2, <1>7, <2>1, <2>3 DEF Div
  <2>5. PICK top : /\ top = TopOf(r) /\ Sound(top) /\ top.signed = r.signed /\ top.w = r.w
                   /\ Concrete(top) = Type(r.signed, r.w)
    BY <1>1, TopAllows DEF TopOf
  <2>6. Fits(top, lo, hi)
    BY <1>1, <2>2, <2>5 DEF Fits
  <2>7. /\ Sound(t) /\ SameType(t, top)
        /\ \A v \in Concrete(top) : lo <= v /\ v <= hi => v \in Concrete(t)
    BY <2>2, <2>4, <2>5, <2>6, BetweenAllows
  <2>8. ASSUME NEW x \in Concrete(r), NEW z \in Concrete(s)
        PROVE  Arith("div", r.signed, r.w, x, z) \in Concrete(t)
    <3>1. z = y /\ x \in Nat /\ r.lo <= x /\ x <= r.hi
      <4>1. z = y
        BY <1>1, <1>7, <2>1, ConstantValues
      <4>2. x \in Int /\ r.lo <= x /\ x <= r.hi
        BY <1>3
      <4> QED BY <1>1, <1>7, <4>1, <4>2
    <3>2. PICK v \in Nat : v = x \div y /\ DivInt(x, y) = v
      BY <3>1, DivDown
    <3>3. lo <= v /\ v <= hi
      <4>1. r.lo \div y <= x \div y /\ x \div y <= r.hi \div y
        BY <1>1, <3>1, DivMonotone
      <4> QED BY <2>2, <3>2, <4>1
    <3>4. TypeLo(r.signed, r.w) <= v /\ v <= TypeHi(r.signed, r.w)
      BY <1>1, <2>2, <3>3
    <3>5. v \in Type(r.signed, r.w) /\ Wrap(r.signed, r.w, v) = v
      BY <1>1, <3>4, WithinType
    <3> QED BY <1>5, <2>5, <2>7, <3>1, <3>2, <3>3, <3>5
  <2> QED BY <1>2, <2>5, <2>7, <2>8 DEF Allows, SameType
<1>8. CASE ~IsConst(r) /\ IsConst(s) /\ s.lo = 0
  <2>1. t = Const(r.signed, r.w, 0)
    BY <1>2, <1>8 DEF Div
  <2>2. ASSUME NEW x \in Concrete(r), NEW y \in Concrete(s)
        PROVE  Arith("div", r.signed, r.w, x, y) \in Concrete(t)
    <3>1. y = 0
      BY <1>1, <1>8, ConstantValues
    <3>2. DivInt(x, y) = 0
      BY <3>1 DEF DivInt
    <3> QED BY <1>1, <1>5, <2>1, <3>2, ConstAllows
  <2>3. Sound(t) /\ SameType(t, r)
    BY <1>1, <2>1, ConstAllows DEF SameType
  <2> QED BY <1>2, <2>2, <2>3 DEF Allows
<1>9. CASE ~IsConst(s) /\ r.lo >= 0 /\ s.lo >= 0
  <2>1. t = UpTo(r, r.hi)
    BY <1>2, <1>9 DEF Div
  <2>2. /\ Sound(t) /\ SameType(t, r)
        /\ \A v \in Int : 0 <= v /\ v <= r.hi => v \in Concrete(t) /\ Wrap(r.signed, r.w, v) = v
    BY <1>1, <2>1, UpToAllows
  <2>3. ASSUME NEW x \in Concrete(r), NEW y \in Concrete(s)
        PROVE  Arith("div", r.signed, r.w, x, y) \in Concrete(t)
    <3>1. x \in Nat /\ x <= r.hi /\ y \in Nat
      <4>1. x \in Int /\ r.lo <= x /\ x <= r.hi /\ y \in Int /\ s.lo <= y
        BY <1>3, <1>4
      <4> QED BY <1>1, <1>9, <4>1
    <3>2. PICK v \in Nat : v = DivInt(x, y) /\ v <= x
      <4>1. CASE y = 0
        BY <3>1, <4>1 DEF DivInt
      <4>2. CASE y # 0
        <5>1. DivInt(x, y) = x \div y /\ x \div y \in Nat /\ x \div y <= x
          BY <3>1, <4>2, DivDown
        <5> QED BY <5>1
      <4> QED BY <4>1, <4>2
    <3>3. 0 <= v /\ v <= r.hi
      BY <1>1, <3>1, <3>2
    <3> QED BY <1>5, <2>2, <3>2, <3>3
  <2> QED BY <1>2, <2>2, <2>3 DEF Allows
<1>10. CASE /\ ~(IsConst(r) /\ IsConst(s))
            /\ ~(IsConst(s) /\ s.lo > 0 /\ r.lo >= 0) /\ ~(IsConst(s) /\ s.lo = 0)
            /\ ~(~IsConst(s) /\ r.lo >= 0 /\ s.lo >= 0)
  <2>1. t = TopOf(r)
    BY <1>2, <1>10 DEF Div
  <2> QED BY <1>2, <2>1, AnythingAllowed DEF ArithOps
<1> QED BY <1>6, <1>7, <1>8, <1>9, <1>10

(* How many low bits of a value are known to be zero.                         *)
LEMMA LowBitsZero ==
  ASSUME NEW r, Sound(r)
  PROVE  /\ LowZeros(r) \in Nat /\ LowZeros(r) <= r.w
         /\ \A x \in Concrete(r) : x % Pow2(LowZeros(r)) = 0
<1>1. PICK w \in Nat : w = r.w
  BY SoundFields
<1>2. PICK Z : Z = {i \in Ones(w) : 0 .. i \subseteq r.km \ r.kv}
  OBVIOUS
<1>3. PICK n \in Nat : n <= w /\ Z = 0 .. n - 1
  <2>1. CASE Z = Ones(w)
    BY <2>1 DEF Ones
  <2>2. CASE Z # Ones(w)
    <3>1. Ones(w) \ Z \subseteq Nat /\ Ones(w) \ Z # {}
      BY <1>2, <2>2 DEF Ones
    <3>2. PICK n \in Ones(w) \ Z : \A k \in Ones(w) \ Z : n <= k
      BY <3>1, LeastElement
    <3>3. n \in Nat /\ n <= w
      BY <3>2 DEF Ones
    <3>4. ASSUME NEW k \in 0 .. n - 1 PROVE k \in Z
      BY <3>2, <3>3 DEF Ones
    <3>5. ASSUME NEW k \in Z PROVE k \in 0 .. n - 1
      <4>1. k \in Nat /\ 0 .. k \subseteq r.km \ r.kv
        BY <1>2 DEF Ones
      <4>2. ~(0 .. n \subseteq r.km \ r.kv)
        BY <1>2, <3>2
      <4> QED BY <3>3, <4>1, <4>2
    <3> QED BY <3>3, <3>4, <3>5
  <2> QED BY <2>1, <2>2
<1>4. LowZeros(r) = n
  <2>1. Cardinality(0 .. n - 1) = n
    BY FS_Interval
  <2> QED BY <1>1, <1>2, <1>3, <2>1 DEF LowZeros
<1>5. ASSUME NEW x \in Concrete(r) PROVE x % Pow2(n) = 0
  <2>1. PICK X : X = ToBits(w, x)
    OBVIOUS
  <2>2. x \in Int /\ X \cap r.km = r.kv
    BY <1>1, <2>1, ConcreteBounds DEF Sound
  <2>3. \A k \in Ones(n) : k \notin X
    <3>1. ASSUME NEW k \in Ones(n) PROVE k \in r.km /\ k \notin r.kv
      <4>1. k \in Z /\ k \in 0 .. k
        BY <1>3 DEF Ones
      <4> QED BY <1>2, <4>1
    <3> QED BY <2>2, <3>1
  <2>4. ToBits(n, x) = {}
    <3>1. ToBits(n, x) = X \cap Ones(n)
      BY <1>3, <2>1, <2>2, FewerBits
    <3> QED BY <2>3, <3>1
  <2>5. Number(n, {}) = x % Pow2(n)
    BY <2>2, <2>4, NumberOfBits
  <2>6. Number(n, {}) = 0
    BY NumberEmpty
  <2> QED BY <2>5, <2>6
<1> QED BY <1>1, <1>3, <1>4, <1>5

LEMMA MulAllows ==
  ASSUME NEW r, NEW s, Operands(r, s) PROVE Allows(Mul(r, s), "mul", r, s)
<1>1. /\ Sound(r) /\ Sound(s) /\ s.w = r.w /\ s.signed = r.signed
      /\ r.signed \in BOOLEAN /\ r.w \in Nat \ {0}
      /\ r.lo \in Int /\ r.hi \in Int /\ s.lo \in Int /\ s.hi \in Int
      /\ r.lo <= r.hi /\ s.lo <= s.hi
      /\ TypeLo(r.signed, r.w) \in Int /\ TypeHi(r.signed, r.w) \in Int
      /\ TypeLo(r.signed, r.w) <= 0
  BY OperandFacts
<1>2. PICK w \in Nat : w = r.w
  BY <1>1
<1>3. PICK n \in Nat, m \in Nat :
        /\ n = LowZeros(r) /\ \A x \in Concrete(r) : x % Pow2(n) = 0
        /\ m = LowZeros(s) /\ \A y \in Concrete(s) : y % Pow2(m) = 0
  BY <1>1, LowBitsZero
<1>4. PICK k \in Nat : k = Smaller(n + m, w) /\ k <= w /\ k <= n + m
  BY DEF Smaller
<1>5. PICK t : t = WithBits(r, {}, Ones(k))
  OBVIOUS
<1>6. ASSUME NEW x \in Concrete(r), NEW y \in Concrete(s)
      PROVE  x \in Int /\ y \in Int /\ \A i \in Ones(w) \cap Ones(k) : i \notin ToBits(w, x * y)
  <2>1. x \in Int /\ y \in Int
    BY <1>1, ValueBits
  <2>2. PICK a0 \in Nat \ {0}, b0 \in Nat \ {0}, c0 \in Nat \ {0}, d0 \in Nat \ {0} :
          a0 = Pow2(n) /\ b0 = Pow2(m) /\ c0 = Pow2(k) /\ c0 * d0 = a0 * b0
    <3>1. PICK d \in Nat, e \in Nat : d = n + m - k /\ e = n + m /\ e = k + d
      <4>1. n + m - k \in Nat /\ n + m \in Nat
        BY <1>4
      <4> QED BY <4>1
    <3>2. Pow2(n + m) = Pow2(n) * Pow2(m)
      BY Pow2Sum
    <3>3. Pow2(k + d) = Pow2(k) * Pow2(d)
      BY Pow2Sum
    <3>4. /\ Pow2(n) \in Nat \ {0} /\ Pow2(m) \in Nat \ {0}
          /\ Pow2(k) \in Nat \ {0} /\ Pow2(d) \in Nat \ {0}
      BY Pow2Facts
    <3>5. Pow2(n) * Pow2(m) = Pow2(k) * Pow2(d)
      BY <3>1, <3>2, <3>3
    <3> QED BY <3>4, <3>5
  <2>3. PICK p \in Int : x = a0 * p
    <3>1. x % a0 = 0
      BY <1>3, <2>2
    <3>2. PICK p \in Int, e \in 0 .. a0 - 1 : x = a0 * p + e /\ e = x % a0
      BY <2>1, DivMod
    <3>3. e = 0
      BY <3>1, <3>2
    <3>4. PICK z \in Int : z = a0 * p
      OBVIOUS
    <3>5. x = z
      BY <3>2, <3>3, <3>4
    <3> QED BY <3>4, <3>5
  <2>4. PICK q \in Int : y = b0 * q
    <3>1. y % b0 = 0
      BY <1>3, <2>2
    <3>2. PICK q \in Int, e \in 0 .. b0 - 1 : y = b0 * q + e /\ e = y % b0
      BY <2>1, DivMod
    <3>3. e = 0
      BY <3>1, <3>2
    <3>4. PICK z \in Int : z = b0 * q
      OBVIOUS
    <3>5. y = z
      BY <3>2, <3>3, <3>4
    <3> QED BY <3>4, <3>5
  <2>5. PICK f \in Int : x * y = c0 * f
    <3>1. (a0 * p) * (b0 * q) = (a0 * b0) * (p * q)
      OBVIOUS
    <3>2. PICK g \in Int : g = p * q
      OBVIOUS
    <3>3. (c0 * d0) * g = c0 * (d0 * g) /\ d0 * g \in Int
      OBVIOUS
    <3>4. x * y = (a0 * b0) * g
      BY <2>3, <2>4, <3>1, <3>2
    <3>5. (a0 * b0) * g = (c0 * d0) * g
      BY <2>2
    <3> QED BY <3>3, <3>4, <3>5
  <2>6. PICK v \in Int : v = x * y /\ v = c0 * f
    BY <2>1, <2>5
  <2>7. v % c0 = 0
    <3>1. (c0 * f) % c0 = 0
      BY ModMultiple
    <3> QED BY <2>6, <3>1
  <2>8. \A i \in Ones(k) : i \notin ToBits(w, v)
    BY <1>4, <2>2, <2>7, MultipleBits
  <2> QED BY <2>1, <2>6, <2>8
<1>7. /\ Sound(t) /\ SameType(t, r)
      /\ \A v \in Type(r.signed, r.w) :
           (\A i \in Ones(r.w) \cap Ones(k) : i \in ToBits(r.w, v) <=> i \in {}) => v \in Concrete(t)
  <2>1. /\ Sound(WithBits(r, {}, Ones(k))) /\ SameType(WithBits(r, {}, Ones(k)), r)
        /\ \A v \in Type(r.signed, r.w) :
             (\A i \in Ones(r.w) \cap Ones(k) : i \in ToBits(r.w, v) <=> i \in {})
               => v \in Concrete(WithBits(r, {}, Ones(k)))
    BY <1>1, WithBitsAllows
  <2> QED BY <1>5, <2>1
<1>8. ASSUME NEW x \in Concrete(r), NEW y \in Concrete(s)
      PROVE  /\ Arith("mul", r.signed, r.w, x, y) = Wrap(r.signed, r.w, x * y)
             /\ Arith("mul", r.signed, r.w, x, y) \in Concrete(t)
  <2>1. PICK v \in Int : v = x * y
    BY <1>6
  <2>2. PICK u : /\ u = Wrap(r.signed, r.w, v) /\ u \in Type(r.signed, r.w)
                 /\ ToBits(r.w, u) = ToBits(r.w, v)
    BY <1>1, WrapFacts
  <2>3. \A i \in Ones(r.w) \cap Ones(k) : i \in ToBits(r.w, u) <=> i \in {}
    BY <1>2, <1>6, <2>1, <2>2
  <2>4. u \in Concrete(t)
    BY <1>7, <2>2, <2>3
  <2>5. Arith("mul", r.signed, r.w, x, y) = Wrap(r.signed, r.w, x * y)
    BY DEF Arith
  <2> QED BY <2>1, <2>2, <2>4, <2>5
<1>9. CASE IsConst(r) /\ IsConst(s)
  <2>1. PICK v \in Int : v = r.lo * s.lo
    BY <1>1
  <2>2. Mul(r, s) = Const(r.signed, r.w, v)
    BY <1>9, <2>1 DEF Mul
  <2>3. Arith("mul", r.signed, r.w, r.lo, s.lo) = Wrap(r.signed, r.w, v)
    BY <2>1 DEF Arith
  <2> QED BY <1>9, <2>2, <2>3, ConstResult
<1>10. CASE /\ ~(IsConst(r) /\ IsConst(s))
            /\ r.lo >= 0 /\ s.lo >= 0 /\ Fits(r, r.lo * s.lo, r.hi * s.hi)
  <2>1. PICK lo \in Int, hi \in Int : lo = r.lo * s.lo /\ hi = r.hi * s.hi
    BY <1>1
  <2>2. PICK u : u = Mul(r, s) /\ u = Between(t, lo, hi)
    BY <1>2, <1>3, <1>4, <1>5, <1>10, <2>1 DEF Mul
  <2>3. TypeLo(r.signed, r.w) <= lo /\ hi <= TypeHi(r.signed, r.w)
    BY <1>10, <2>1 DEF Fits
  <2>4. Fits(t, lo, hi)
    BY <1>7, <2>3 DEF Fits, SameType
  <2>5. /\ Sound(u) /\ SameType(u, t)
        /\ \A v \in Concrete(t) : lo <= v /\ v <= hi => v \in Concrete(u)
    BY <1>7, <2>2, <2>4, BetweenAllows
  <2>6. ASSUME NEW x \in Concrete(r), NEW y \in Concrete(s)
        PROVE  Arith("mul", r.signed, r.w, x, y) \in Concrete(u)
    <3>1. x \in Int /\ r.lo <= x /\ x <= r.hi /\ y \in Int /\ s.lo <= y /\ y <= s.hi
      BY <1>1, ValueBits
    <3>2. r.lo \in Nat /\ r.hi \in Nat /\ s.lo \in Nat /\ s.hi \in Nat /\ x \in Nat /\ y \in Nat
      BY <1>1, <1>10, <3>1
    <3>3. r.lo * s.lo <= x * y
      BY <3>1, <3>2, ProductMonotone
    <3>4. x * y <= r.hi * s.hi
      BY <3>1, <3>2, ProductMonotone
    <3>5. PICK v \in Int : v = x * y
      BY <3>1
    <3>6. lo <= v /\ v <= hi
      BY <2>1, <3>3, <3>4, <3>5
    <3>7. TypeLo(r.signed, r.w) <= v /\ v <= TypeHi(r.signed, r.w)
      BY <1>1, <2>3, <3>6
    <3>8. Wrap(r.signed, r.w, v) = v
      BY <1>1, <3>7, WithinType
    <3>9. Arith("mul", r.signed, r.w, x, y) = v /\ v \in Concrete(t)
      BY <1>8, <3>5, <3>8
    <3> QED BY <2>5, <3>6, <3>9
  <2> QED BY <1>7, <2>2, <2>5, <2>6 DEF Allows, SameType
<1>11. CASE /\ ~(IsConst(r) /\ IsConst(s))
            /\ ~(r.lo >= 0 /\ s.lo >= 0 /\ Fits(r, r.lo * s.lo, r.hi * s.hi))
  <2>1. Mul(r, s) = t
    BY <1>2, <1>3, <1>4, <1>5, <1>11 DEF Mul
  <2> QED BY <1>7, <1>8, <2>1 DEF Allows
<1> QED BY <1>9, <1>10, <1>11

(* The remainder by a constant y > 0 of a value that is not negative.         *)
LEMMA ModConstAllows ==
  ASSUME NEW r, Sound(r), r.lo >= 0, NEW y \in Nat \ {0}, y <= TypeHi(r.signed, r.w)
  PROVE  /\ Sound(ModConst(r, y)) /\ SameType(ModConst(r, y), r)
         /\ \A x \in Concrete(r) : x % y \in Concrete(ModConst(r, y))
<1>1. /\ r.signed \in BOOLEAN /\ r.w \in Nat \ {0} /\ r.w \in Nat
      /\ r.lo \in Int /\ r.hi \in Int
      /\ TypeLo(r.signed, r.w) \in Int /\ TypeHi(r.signed, r.w) \in Int
      /\ TypeLo(r.signed, r.w) <= 0
  BY SoundFields
<1>2. \A x \in Concrete(r) : x \in Nat /\ x <= r.hi
  <2>1. \A x \in Concrete(r) : x \in Int /\ r.lo <= x /\ x <= r.hi
    BY ValueBits
  <2> QED BY <1>1, <2>1
<1>3. PICK u : u = UpTo(r, y - 1)
  OBVIOUS
<1>4. /\ Sound(u) /\ SameType(u, r)
      /\ \A v \in Int : 0 <= v /\ v <= y - 1 => v \in Concrete(u)
  <2>1. PICK n \in Int : n = y - 1 /\ n <= TypeHi(r.signed, r.w)
    BY <1>1
  <2>2. /\ Sound(UpTo(r, n)) /\ SameType(UpTo(r, n), r)
        /\ \A v \in Int : 0 <= v /\ v <= n => v \in Concrete(UpTo(r, n))
    BY <2>1, UpToAllows
  <2> QED BY <1>3, <2>1, <2>2
<1>5. ASSUME NEW x \in Concrete(r) PROVE x % y \in Concrete(u) /\ x % y \in Nat /\ x % y <= y - 1
  <2>1. x \in Nat
    BY <1>2
  <2>2. x % y \in 0 .. y - 1
    BY <2>1, DivDown
  <2>3. PICK v \in Int : v = x % y /\ 0 <= v /\ v <= y - 1
    BY <2>2
  <2> QED BY <1>4, <2>3
<1>6. CASE r.hi < y
  <2>1. ModConst(r, y) = r
    BY <1>6 DEF ModConst
  <2>2. ASSUME NEW x \in Concrete(r) PROVE x % y = x
    <3>1. x \in 0 .. y - 1
      BY <1>1, <1>2, <1>6
    <3> QED BY <3>1, ModSmall
  <2> QED BY <2>1, <2>2 DEF SameType
<1>7. CASE ~(r.hi < y) /\ ToBits(r.w, y) \cap ToBits(r.w, y - 1) # {}
  <2>1. ModConst(r, y) = u
    BY <1>3, <1>7 DEF ModConst
  <2> QED BY <1>4, <1>5, <2>1
<1>8. CASE ~(r.hi < y) /\ ToBits(r.w, y) \cap ToBits(r.w, y - 1) = {}
  <2>1. PICK i \in Ones(r.w) : y = Pow2(i)
    <3>1. PICK h \in Nat \ {0} : /\ h = Pow2(r.w - 1) /\ Pow2(r.w) = 2 * h
                                /\ TypeLo(r.signed, r.w) = (IF r.signed THEN 0 - h ELSE 0)
                                /\ TypeHi(r.signed, r.w) = (IF r.signed THEN h - 1 ELSE 2 * h - 1)
      BY <1>1, TypeFacts, ZenonT(60)
    <3>2. y < Pow2(r.w)
      BY <3>1
    <3> QED BY <1>1, <1>8, <3>2, NoBitShared
  <2>2. i \in Nat /\ i <= r.w /\ Ones(i) \subseteq Ones(r.w)
    BY <1>1, <2>1 DEF Ones
  <2>3. ToBits(r.w, y - 1) = Ones(i)
    BY <1>1, <2>1, <2>2, OnesBelow
  <2>4. PICK kv, km : kv = r.kv \cap Ones(i)
                      /\ km = (r.km \cap Ones(i)) \cup (Ones(r.w) \ Ones(i))
    OBVIOUS
  <2>5. PICK t : t = WithBits(r, kv, km)
    OBVIOUS
  <2>6. ModConst(r, y) = Meet(u, t)
    BY <1>3, <1>8, <2>3, <2>4, <2>5 DEF ModConst
  <2>7. /\ Sound(t) /\ SameType(t, r)
        /\ \A v \in Type(r.signed, r.w) :
             (\A j \in Ones(r.w) \cap km : j \in ToBits(r.w, v) <=> j \in kv) => v \in Concrete(t)
    <3>1. /\ Sound(WithBits(r, kv, km)) /\ SameType(WithBits(r, kv, km), r)
          /\ \A v \in Type(r.signed, r.w) :
               (\A j \in Ones(r.w) \cap km : j \in ToBits(r.w, v) <=> j \in kv)
                 => v \in Concrete(WithBits(r, kv, km))
      BY <1>1, WithBitsAllows
    <3> QED BY <2>5, <3>1
  <2>8. ASSUME NEW x \in Concrete(r) PROVE x % y \in Concrete(t)
    <3>1. x \in Int /\ ToBits(r.w, x) \cap r.km = r.kv
      BY ConcreteBounds DEF Sound
    <3>2. ToBits(r.w, x % y) = ToBits(r.w, x) \cap Ones(i)
      BY <1>1, <2>1, <2>2, <3>1, RemainderBits
    <3>3. \A j \in Ones(r.w) \cap km : j \in ToBits(r.w, x % y) <=> j \in kv
      BY <2>4, <3>1, <3>2
    <3>4. x % y \in Type(r.signed, r.w)
      <4>1. x % y \in Nat /\ x % y <= y - 1
        BY <1>5
      <4>2. PICK v \in Int : v = x % y /\ TypeLo(r.signed, r.w) <= v /\ v <= TypeHi(r.signed, r.w)
        BY <1>1, <4>1
      <4> QED BY <4>2, WithinType
    <3> QED BY <2>7, <3>3, <3>4
  <2>9. SameType(u, t)
    BY <1>4, <2>7 DEF SameType
  <2>10. /\ Sound(Meet(u, t)) /\ SameType(Meet(u, t), u)
         /\ Concrete(u) \cap Concrete(t) \subseteq Concrete(Meet(u, t))
    BY <1>4, <2>7, <2>9, MeetAllows
  <2>11. \A x \in Concrete(r) : x % y \in Concrete(Meet(u, t))
    BY <1>5, <2>8, <2>10
  <2> QED BY <1>4, <2>6, <2>10, <2>11 DEF SameType
<1> QED BY <1>6, <1>7, <1>8

LEMMA ModAllows ==
  ASSUME NEW r, NEW s, Operands(r, s) PROVE Allows(Mod(r, s), "mod", r, s)
<1>1. /\ Sound(r) /\ Sound(s) /\ s.w = r.w /\ s.signed = r.signed
      /\ r.signed \in BOOLEAN /\ r.w \in Nat \ {0}
      /\ r.lo \in Int /\ r.hi \in Int /\ s.lo \in Int /\ s.hi \in Int
      /\ r.lo <= r.hi /\ s.lo <= s.hi
      /\ TypeLo(r.signed, r.w) \in Int /\ TypeHi(r.signed, r.w) \in Int
      /\ TypeLo(r.signed, r.w) <= 0
      /\ r.hi <= TypeHi(r.signed, r.w) /\ s.hi <= TypeHi(r.signed, r.w)
  BY OperandFacts
<1>2. PICK t : t = Mod(r, s)
  OBVIOUS
<1>3. \A x \in Concrete(r) : x \in Int /\ r.lo <= x /\ x <= r.hi /\ Wrap(r.signed, r.w, x) = x
  BY <1>1, ValueBits
<1>4. \A y \in Concrete(s) : y \in Int /\ s.lo <= y /\ y <= s.hi
  BY <1>1, ValueBits
<1>5. \A x, y : Arith("mod", r.signed, r.w, x, y) = Wrap(r.signed, r.w, ModInt(x, y))
  BY DEF Arith
<1>6. CASE IsConst(r) /\ IsConst(s)
  <2>1. PICK v \in Int : v = ModInt(r.lo, s.lo)
    BY <1>1, DivIsInt
  <2>2. t = Const(r.signed, r.w, v)
    BY <1>2, <1>6, <2>1 DEF Mod
  <2> QED BY <1>2, <1>5, <1>6, <2>1, <2>2, ConstResult
<1>7. CASE ~IsConst(r) /\ IsConst(s) /\ s.lo = 0
  <2>1. t = r
    BY <1>2, <1>7 DEF Mod
  <2>2. ASSUME NEW x \in Concrete(r), NEW y \in Concrete(s)
        PROVE  Arith("mod", r.signed, r.w, x, y) = x
    <3>1. y = 0
      BY <1>1, <1>7, ConstantValues
    <3>2. ModInt(x, y) = x
      BY <3>1 DEF ModInt
    <3> QED BY <1>3, <1>5, <3>2
  <2> QED BY <1>1, <1>2, <2>1, <2>2 DEF Allows, SameType
<1>8. CASE ~IsConst(r) /\ IsConst(s) /\ s.lo > 0 /\ r.lo >= 0
  <2>1. PICK y \in Nat \ {0} : y = s.lo /\ y <= TypeHi(r.signed, r.w)
    BY <1>1, <1>8
  <2>2. t = ModConst(r, y)
    BY <1>2, <1>8, <2>1 DEF Mod
  <2>3. /\ Sound(t) /\ SameType(t, r) /\ \A x \in Concrete(r) : x % y \in Concrete(t)
    BY <1>1, <1>8, <2>1, <2>2, ModConstAllows
  <2>4. ASSUME NEW x \in Concrete(r), NEW z \in Concrete(s)
        PROVE  Arith("mod", r.signed, r.w, x, z) \in Concrete(t)
    <3>1. z = y
      BY <1>1, <1>8, <2>1, ConstantValues
    <3>2. x \in Nat
      <4>1. x \in Int /\ r.lo <= x
        BY <1>3
      <4> QED BY <1>1, <1>8, <4>1
    <3>3. ModInt(x, y) = x % y
      BY <3>2, DivDown
    <3>4. PICK v : v = x % y /\ v \in Concrete(t)
      BY <2>3
    <3>5. Wrap(t.signed, t.w, v) = v
      BY <2>3, <3>4, ValueBits
    <3> QED BY <1>5, <2>3, <3>1, <3>3, <3>4, <3>5 DEF SameType
  <2> QED BY <1>2, <2>3, <2>4 DEF Allows
<1>9. CASE ~IsConst(s) /\ r.lo >= 0 /\ s.lo >= 0
  <2>1. PICK hi \in Int : hi = IF s.lo >= 1 THEN Smaller(r.hi, s.hi - 1) ELSE r.hi
    BY <1>1 DEF Smaller
  <2>2. t = UpTo(r, hi)
    BY <1>2, <1>9, <2>1 DEF Mod
  <2>3. hi <= TypeHi(r.signed, r.w)
    BY <1>1, <2>1 DEF Smaller
  <2>4. /\ Sound(t) /\ SameType(t, r)
        /\ \A v \in Int : 0 <= v /\ v <= hi => v \in Concrete(t) /\ Wrap(r.signed, r.w, v) = v
    BY <1>1, <2>2, <2>3, UpToAllows
  <2>5. ASSUME NEW x \in Concrete(r), NEW y \in Concrete(s)
        PROVE  Arith("mod", r.signed, r.w, x, y) \in Concrete(t)
    <3>1. x \in Nat /\ x <= r.hi /\ y \in Nat /\ s.lo <= y /\ y <= s.hi
      <4>1. x \in Int /\ r.lo <= x /\ x <= r.hi /\ y \in Int /\ s.lo <= y /\ y <= s.hi
        BY <1>3, <1>4
      <4> QED BY <1>1, <1>9, <4>1
    <3>2. PICK v \in Nat : v = ModInt(x, y) /\ v <= x /\ (y # 0 => v <= y - 1)
      <4>1. CASE y = 0
        BY <3>1, <4>1 DEF ModInt
      <4>2. CASE y # 0
        <5>1. ModInt(x, y) = x % y /\ x % y \in 0 .. y - 1 /\ x % y <= x
          BY <3>1, <4>2, DivDown
        <5> QED BY <3>1, <4>2, <5>1
      <4> QED BY <4>1, <4>2
    <3>3. 0 <= v /\ v <= hi
      BY <1>1, <2>1, <3>1, <3>2 DEF Smaller
    <3> QED BY <1>5, <2>4, <3>2, <3>3
  <2> QED BY <1>2, <2>4, <2>5 DEF Allows
<1>10. CASE /\ ~(IsConst(r) /\ IsConst(s))
            /\ ~(IsConst(s) /\ s.lo > 0 /\ r.lo >= 0) /\ ~(IsConst(s) /\ s.lo = 0)
            /\ ~(~IsConst(s) /\ r.lo >= 0 /\ s.lo >= 0)
  <2>1. t = TopOf(r)
    BY <1>2, <1>10 DEF Mod
  <2> QED BY <1>2, <2>1, AnythingAllowed DEF ArithOps
<1> QED BY <1>6, <1>7, <1>8, <1>9, <1>10

(* The bits of a number shifted by c are those c places away.                 *)
LEMMA ShlBits ==
  ASSUME NEW w \in Nat, NEW c \in Nat, c <= w, NEW x \in Int, NEW i \in Ones(w)
  PROVE  i \in ToBits(w, x * Pow2(c)) <=> i - c \in ToBits(w, x)
<1>1. PICK m \in Nat \ {0} : m = Pow2(c)
  BY Pow2Facts
<1>2. PICK v \in Int : v = x * m /\ v = m * x
  <2>1. x * m = m * x /\ x * m \in Int
    OBVIOUS
  <2> QED BY <2>1
<1>3. i \in Nat /\ i <= w - 1
  BY DEF Ones
<1>4. CASE i < c
  <2>1. v % m = 0
    <3>1. (m * x) % m = 0
      BY ModMultiple
    <3> QED BY <1>2, <3>1
  <2>2. i \in Ones(c)
    BY <1>3, <1>4 DEF Ones
  <2>3. i \notin ToBits(w, v)
    BY <1>1, <2>1, <2>2, MultipleBits
  <2>4. i - c \notin ToBits(w, x)
    BY <1>3, <1>4 DEF ToBits, Ones
  <2> QED BY <1>1, <1>2, <2>3, <2>4
<1>5. CASE c <= i
  <2>1. PICK d \in Nat : d = i - c /\ i = c + d /\ d \in Ones(w)
    <3>1. i - c \in Nat /\ i = c + (i - c) /\ i - c \in Ones(w)
      BY <1>3, <1>5 DEF Ones
    <3> QED BY <3>1
  <2>2. PICK n \in Nat \ {0} : n = Pow2(d)
    BY Pow2Facts
  <2>3. Pow2(i) = m * n
    BY <1>1, <2>1, <2>2, Pow2Sum
  <2>4. v \div m = x
    <3>1. PICK z \in 0 .. m - 1 : z = 0
      OBVIOUS
    <3>2. v = m * x + z
      BY <1>2, <3>1
    <3>3. z \in 0 .. m - 1 /\ v \in Int /\ x \in Int /\ m \in Nat \ {0}
      OBVIOUS
    <3> QED BY <3>2, <3>3, RemainderIs
  <2>5. (v \div m) \div n = v \div (m * n)
    BY DivTwice
  <2>6. v \div Pow2(i) = x \div Pow2(d)
    BY <2>2, <2>3, <2>4, <2>5
  <2>7. i \in ToBits(w, v) <=> d \in ToBits(w, x)
    BY <2>1, <2>6 DEF ToBits
  <2> QED BY <1>1, <1>2, <2>1, <2>7
<1> QED BY <1>3, <1>4, <1>5

LEMMA ShrBits ==
  ASSUME NEW w \in Nat, NEW c \in Nat, NEW x \in Nat, x < Pow2(w), NEW i \in Ones(w)
  PROVE  i \in ToBits(w, x \div Pow2(c)) <=> i + c \in ToBits(w, x)
<1>1. i \in Nat
  BY DEF Ones
<1>2. PICK m \in Nat \ {0}, n \in Nat \ {0}, j \in Nat :
        m = Pow2(c) /\ n = Pow2(i) /\ j = c + i /\ j = i + c
  <2>1. Pow2(c) \in Nat \ {0} /\ Pow2(i) \in Nat \ {0}
    BY <1>1, Pow2Facts
  <2>2. c + i \in Nat /\ c + i = i + c
    BY <1>1
  <2> QED BY <2>1, <2>2
<1>3. Pow2(j) = m * n
  BY <1>1, <1>2, Pow2Sum
<1>4. (x \div m) \div n = x \div (m * n)
  <2>1. x \in Int /\ m \in Nat \ {0} /\ n \in Nat \ {0}
    OBVIOUS
  <2> QED BY <2>1, DivTwice, Zenon
<1>5. (x \div Pow2(c)) \div Pow2(i) = x \div Pow2(j)
  BY <1>2, <1>3, <1>4
<1>6. CASE j \in Ones(w)
  BY <1>2, <1>5, <1>6 DEF ToBits
<1>7. CASE j \notin Ones(w)
  <2>1. w <= j
    BY <1>7 DEF Ones
  <2>2. Pow2(w) <= Pow2(j)
    BY <2>1, Pow2Monotone
  <2>3. PICK p \in Nat \ {0} : p = Pow2(j) /\ x < p
    <3>1. Pow2(j) \in Nat \ {0} /\ Pow2(w) \in Nat \ {0}
      BY Pow2Facts
    <3> QED BY <2>2, <3>1
  <2>4. x \div p = 0
    <3>1. PICK z \in Int : z = 0
      OBVIOUS
    <3>2. x = p * z + x
      BY <3>1
    <3>3. x \in 0 .. p - 1
      BY <2>3
    <3>4. PICK y \in Int : y = x
      OBVIOUS
    <3>5. y = p * z + x
      BY <3>2, <3>4
    <3>6. y \div p = z
      BY <3>3, <3>5, RemainderIs
    <3> QED BY <3>1, <3>4, <3>6
  <2>5. i \notin ToBits(w, x \div Pow2(c))
    BY <1>5, <2>3, <2>4 DEF ToBits
  <2>6. j \notin ToBits(w, x)
    BY <1>7 DEF ToBits
  <2> QED BY <1>2, <2>5, <2>6
<1> QED BY <1>6, <1>7

(* A shift amount is less than the width.                                     *)
LEMMA ShiftIs ==
  ASSUME NEW r, NEW s, Operands(r, s)
  PROVE  /\ ShiftAmount(r, s) \in 0 .. r.w - 1
         /\ \A y \in Concrete(s) :
              IsConst(s) => Number(r.w, ToBits(r.w, y)) % r.w = ShiftAmount(r, s)
<1>1. Sound(s) /\ s.lo \in Int
  BY OperandFacts
<1>2. PICK w \in Nat \ {0} : w = r.w
  BY OperandFacts
<1>3. PICK n \in Nat : n = Number(w, ToBits(w, s.lo))
  <2>1. w \in Nat
    OBVIOUS
  <2>2. Number(w, ToBits(w, s.lo)) \in Nat
    BY <2>1, NumberFacts
  <2> QED BY <2>2
<1>4. n % w \in 0 .. w - 1
  BY DivMod
<1>5. \A y \in Concrete(s) : IsConst(s) => y = s.lo
  BY <1>1, ConstantValues
<1> QED BY <1>2, <1>3, <1>4, <1>5 DEF ShiftAmount

LEMMA ShlAllows ==
  ASSUME NEW r, NEW s, Operands(r, s) PROVE Allows(ShlOp(r, s), "shl", r, s)
<1>1. /\ Sound(r) /\ Sound(s) /\ s.w = r.w /\ s.signed = r.signed
      /\ r.signed \in BOOLEAN /\ r.w \in Nat \ {0} /\ r.w \in Nat
      /\ r.lo \in Int /\ r.hi \in Int /\ s.lo \in Int /\ s.hi \in Int
      /\ r.lo <= r.hi /\ s.lo <= s.hi
      /\ TypeLo(r.signed, r.w) \in Int /\ TypeHi(r.signed, r.w) \in Int
      /\ TypeLo(r.signed, r.w) <= 0
  BY OperandFacts
<1>2. CASE ~IsConst(s)
  <2>1. ShlOp(r, s) = TopOf(r)
    BY <1>2 DEF ShlOp
  <2> QED BY <2>1, AnythingAllowed DEF ArithOps
<1>3. CASE IsConst(s)
  <2>1. PICK c \in 0 .. r.w - 1 :
          /\ c = ShiftAmount(r, s)
          /\ \A y \in Concrete(s) : Number(r.w, ToBits(r.w, y)) % r.w = c
    BY <1>3, ShiftIs
  <2>2. c \in Nat /\ c <= r.w
    BY <1>1
  <2>3. PICK p \in Nat \ {0} : p = Pow2(c)
    BY <2>2, Pow2Facts
  <2>4. ASSUME NEW x \in Concrete(r), NEW y \in Concrete(s)
        PROVE  Arith("shl", r.signed, r.w, x, y) = Wrap(r.signed, r.w, x * p)
    BY <2>1, <2>3 DEF Arith
  <2>5. PICK kv, km : kv = Shl(r.w, r.kv, c) /\ km = Shl(r.w, r.km, c) \cup Ones(c)
    OBVIOUS
  <2>6. PICK t : t = WithBits(r, kv, km)
    OBVIOUS
  <2>7. /\ Sound(t) /\ SameType(t, r)
        /\ \A v \in Type(r.signed, r.w) :
             (\A i \in Ones(r.w) \cap km : i \in ToBits(r.w, v) <=> i \in kv) => v \in Concrete(t)
    <3>1. /\ Sound(WithBits(r, kv, km)) /\ SameType(WithBits(r, kv, km), r)
          /\ \A v \in Type(r.signed, r.w) :
               (\A i \in Ones(r.w) \cap km : i \in ToBits(r.w, v) <=> i \in kv)
                 => v \in Concrete(WithBits(r, kv, km))
      BY <1>1, WithBitsAllows
    <3> QED BY <2>6, <3>1
  <2>8. ASSUME NEW x \in Concrete(r)
        PROVE  x * p \in Int /\ Wrap(r.signed, r.w, x * p) \in Concrete(t)
    <3>1. x \in Int /\ ToBits(r.w, x) \cap r.km = r.kv /\ r.kv \subseteq r.km
          /\ r.km \subseteq Ones(r.w)
      BY ConcreteBounds, SoundFields, <1>1 DEF Sound
    <3>2. PICK v \in Int : v = x * p
      BY <3>1
    <3>3. PICK u : /\ u = Wrap(r.signed, r.w, v) /\ u \in Type(r.signed, r.w)
                   /\ ToBits(r.w, u) = ToBits(r.w, v)
      BY <1>1, WrapFacts
    <3>4. ASSUME NEW i \in Ones(r.w) \cap km PROVE i \in ToBits(r.w, u) <=> i \in kv
      <4>1. i \in ToBits(r.w, v) <=> i - c \in ToBits(r.w, x)
        <5>1. i \in Ones(r.w)
          OBVIOUS
        <5>2. i \in ToBits(r.w, x * Pow2(c)) <=> i - c \in ToBits(r.w, x)
          BY <1>1, <2>2, <3>1, <5>1, ShlBits
        <5> QED BY <2>3, <3>2, <5>2
      <4>2. i \in kv <=> i - c \in r.kv
        BY <2>5 DEF Shl
      <4>3. CASE i - c \in r.km
        BY <3>1, <3>3, <4>1, <4>2, <4>3
      <4>4. CASE i - c \notin r.km
        <5>1. i \in Ones(c)
          BY <2>5, <4>4 DEF Shl
        <5>2. i - c \notin ToBits(r.w, x)
          BY <2>2, <5>1 DEF Ones, ToBits
        <5> QED BY <3>1, <3>3, <4>1, <4>2, <4>4, <5>2
      <4> QED BY <4>3, <4>4
    <3> QED BY <2>7, <3>2, <3>3, <3>4
  <2>9. CASE ~(r.lo >= 0 /\ Fits(r, r.lo * p, r.hi * p))
    <3>1. ShlOp(r, s) = t
      BY <1>3, <2>1, <2>3, <2>5, <2>6, <2>9 DEF ShlOp
    <3> QED BY <2>4, <2>7, <2>8, <3>1 DEF Allows
  <2>10. CASE r.lo >= 0 /\ Fits(r, r.lo * p, r.hi * p)
    <3>1. PICK lo \in Int, hi \in Int : lo = r.lo * p /\ hi = r.hi * p
      BY <1>1
    <3>2. PICK u : u = ShlOp(r, s) /\ u = Between(t, lo, hi)
      BY <1>3, <2>1, <2>3, <2>5, <2>6, <2>10, <3>1 DEF ShlOp
    <3>3. TypeLo(r.signed, r.w) <= lo /\ hi <= TypeHi(r.signed, r.w)
      BY <2>10, <3>1 DEF Fits
    <3>4. Fits(t, lo, hi)
      BY <2>7, <3>3 DEF Fits, SameType
    <3>5. /\ Sound(u) /\ SameType(u, t)
          /\ \A v \in Concrete(t) : lo <= v /\ v <= hi => v \in Concrete(u)
      BY <2>7, <3>2, <3>4, BetweenAllows
    <3>6. ASSUME NEW x \in Concrete(r), NEW y \in Concrete(s)
          PROVE  Arith("shl", r.signed, r.w, x, y) \in Concrete(u)
      <4>1. x \in Nat /\ r.lo \in Nat /\ r.hi \in Nat /\ r.lo <= x /\ x <= r.hi
        <5>1. x \in Int /\ r.lo <= x /\ x <= r.hi
          BY <1>1, ValueBits
        <5> QED BY <1>1, <2>10, <5>1
      <4>2. p \in Nat /\ p <= p
        OBVIOUS
      <4>3. r.lo * p <= x * p
        BY <4>1, <4>2, ProductMonotone
      <4>4. x * p <= r.hi * p
        BY <4>1, <4>2, ProductMonotone
      <4>5. PICK v \in Int : v = x * p
        BY <2>8
      <4>6. lo <= v /\ v <= hi
        BY <3>1, <4>3, <4>4, <4>5
      <4>7. TypeLo(r.signed, r.w) <= v /\ v <= TypeHi(r.signed, r.w)
        BY <1>1, <3>1, <3>3, <4>6
      <4>8. Wrap(r.signed, r.w, v) = v
        BY <1>1, <4>7, WithinType
      <4>9. Arith("shl", r.signed, r.w, x, y) = v /\ v \in Concrete(t)
        BY <2>4, <2>8, <4>5, <4>8
      <4> QED BY <3>5, <4>6, <4>9
    <3> QED BY <2>7, <3>2, <3>5, <3>6 DEF Allows, SameType
  <2> QED BY <2>9, <2>10
<1> QED BY <1>2, <1>3

(* A right shift does not make a value that is not negative larger.           *)
LEMMA ShrSmaller ==
  ASSUME NEW r, NEW s, Operands(r, s), r.lo >= 0, NEW x \in Concrete(r), NEW y \in Concrete(s)
  PROVE  \E c \in Nat : /\ c = Number(r.w, ToBits(r.w, y)) % r.w
                        /\ x \div Pow2(c) \in Nat /\ x \div Pow2(c) <= x
                        /\ Arith("shr", r.signed, r.w, x, y) = x \div Pow2(c)
<1>1. /\ Sound(r) /\ r.lo \in Int /\ r.hi \in Int
      /\ TypeLo(r.signed, r.w) \in Int /\ TypeHi(r.signed, r.w) \in Int
      /\ TypeLo(r.signed, r.w) <= 0 /\ r.hi <= TypeHi(r.signed, r.w)
  BY OperandFacts
<1>2. PICK w \in Nat \ {0} : w = r.w
  BY OperandFacts
<1>3. PICK n \in Nat : n = Number(w, ToBits(w, y))
  <2>1. w \in Nat
    OBVIOUS
  <2>2. Number(w, ToBits(w, y)) \in Nat
    BY <2>1, NumberFacts
  <2> QED BY <2>2
<1>4. PICK c \in Nat : c = n % w
  BY DivMod
<1>5. PICK m \in Nat \ {0} : m = Pow2(c)
  BY Pow2Facts
<1>6. x \in Nat /\ x <= r.hi
  <2>1. x \in Int /\ r.lo <= x /\ x <= r.hi
    BY <1>1, ValueBits
  <2> QED BY <1>1, <2>1
<1>7. PICK v \in Nat : v = x \div m /\ v <= x
  BY <1>6, DivSmaller
<1>8. TypeLo(r.signed, r.w) <= v /\ v <= TypeHi(r.signed, r.w)
  BY <1>1, <1>6, <1>7
<1>9. Wrap(r.signed, r.w, v) = v
  BY <1>1, <1>8, WithinType
<1>10. Arith("shr", r.signed, r.w, x, y) = v
  BY <1>2, <1>3, <1>4, <1>5, <1>7, <1>9 DEF Arith
<1> QED BY <1>2, <1>3, <1>4, <1>5, <1>7, <1>10

LEMMA ShrAllows ==
  ASSUME NEW r, NEW s, Operands(r, s) PROVE Allows(ShrOp(r, s), "shr", r, s)
<1>1. /\ Sound(r) /\ Sound(s) /\ s.w = r.w /\ s.signed = r.signed
      /\ r.signed \in BOOLEAN /\ r.w \in Nat \ {0} /\ r.w \in Nat
      /\ r.lo \in Int /\ r.hi \in Int /\ s.lo \in Int /\ s.hi \in Int
      /\ r.lo <= r.hi /\ s.lo <= s.hi
      /\ TypeLo(r.signed, r.w) \in Int /\ TypeHi(r.signed, r.w) \in Int
      /\ TypeLo(r.signed, r.w) <= 0 /\ r.hi <= TypeHi(r.signed, r.w)
  BY OperandFacts
<1>2. CASE r.lo < 0
  <2>1. ShrOp(r, s) = TopOf(r)
    BY <1>2 DEF ShrOp
  <2> QED BY <2>1, AnythingAllowed DEF ArithOps
<1>3. CASE r.lo >= 0 /\ ~IsConst(s)
  <2>1. PICK t : t = ShrOp(r, s) /\ t = UpTo(r, r.hi)
    BY <1>1, <1>3 DEF ShrOp
  <2>2. /\ Sound(t) /\ SameType(t, r)
        /\ \A v \in Int : 0 <= v /\ v <= r.hi => v \in Concrete(t)
    BY <1>1, <2>1, UpToAllows
  <2>3. ASSUME NEW x \in Concrete(r), NEW y \in Concrete(s)
        PROVE  Arith("shr", r.signed, r.w, x, y) \in Concrete(t)
    <3>1. PICK v \in Nat : v <= x /\ Arith("shr", r.signed, r.w, x, y) = v
      BY <1>3, ShrSmaller
    <3>2. x \in Int /\ x <= r.hi
      BY <1>1, ValueBits
    <3> QED BY <1>1, <2>2, <3>1, <3>2
  <2> QED BY <2>1, <2>2, <2>3 DEF Allows
<1>4. CASE r.lo >= 0 /\ IsConst(s)
  <2>1. PICK c \in 0 .. r.w - 1 :
          /\ c = ShiftAmount(r, s)
          /\ \A y \in Concrete(s) : Number(r.w, ToBits(r.w, y)) % r.w = c
    BY <1>4, ShiftIs
  <2>2. c \in Nat
    OBVIOUS
  <2>3. PICK p \in Nat \ {0} : p = Pow2(c)
    BY <2>2, Pow2Facts
  <2>4. PICK kv, km : /\ kv = Shr(r.w, r.kv, c)
                      /\ km = Shr(r.w, r.km, c) \cup (Ones(r.w) \ Ones(r.w - c))
    OBVIOUS
  <2>5. PICK t : t = WithBits(r, kv, km)
    OBVIOUS
  <2>6. /\ Sound(t) /\ SameType(t, r)
        /\ \A v \in Type(r.signed, r.w) :
             (\A i \in Ones(r.w) \cap km : i \in ToBits(r.w, v) <=> i \in kv) => v \in Concrete(t)
    <3>1. /\ Sound(WithBits(r, kv, km)) /\ SameType(WithBits(r, kv, km), r)
          /\ \A v \in Type(r.signed, r.w) :
               (\A i \in Ones(r.w) \cap km : i \in ToBits(r.w, v) <=> i \in kv)
                 => v \in Concrete(WithBits(r, kv, km))
      BY <1>1, WithBitsAllows
    <3> QED BY <2>5, <3>1
  <2>7. PICK lo \in Nat, hi \in Nat : lo = r.lo \div p /\ hi = r.hi \div p /\ hi <= r.hi
    <3>1. r.lo \in Nat /\ r.hi \in Nat
      BY <1>1, <1>4
    <3>2. r.lo \div p \in Nat /\ r.hi \div p \in Nat /\ r.hi \div p <= r.hi
      BY <3>1, DivSmaller
    <3> QED BY <3>2
  <2>8. PICK u : u = ShrOp(r, s) /\ u = Between(t, lo, hi)
    BY <1>1, <1>4, <2>1, <2>3, <2>4, <2>5, <2>7 DEF ShrOp
  <2>9. TypeLo(t.signed, t.w) <= lo /\ hi <= TypeHi(t.signed, t.w)
    BY <1>1, <2>6, <2>7 DEF SameType
  <2>10. /\ Sound(u) /\ SameType(u, t)
         /\ \A v \in Concrete(t) : lo <= v /\ v <= hi => v \in Concrete(u)
    <3>1. Fits(t, lo, hi) /\ lo \in Int /\ hi \in Int
      BY <2>9 DEF Fits
    <3> QED BY <2>6, <2>8, <3>1, BetweenAllows
  <2>11. ASSUME NEW x \in Concrete(r), NEW y \in Concrete(s)
         PROVE  Arith("shr", r.signed, r.w, x, y) \in Concrete(u)
    <3>1. PICK v \in Nat : v = x \div p /\ v <= x /\ Arith("shr", r.signed, r.w, x, y) = v
      <4>1. PICK c1 \in Nat : /\ c1 = Number(r.w, ToBits(r.w, y)) % r.w
                              /\ x \div Pow2(c1) \in Nat /\ x \div Pow2(c1) <= x
                              /\ Arith("shr", r.signed, r.w, x, y) = x \div Pow2(c1)
        BY <1>4, ShrSmaller
      <4>2. c1 = c
        BY <2>1, <4>1
      <4> QED BY <2>3, <4>1, <4>2
    <3>2. x \in Nat /\ x < Pow2(r.w)
      BY <1>1, <1>4, NotNegative
    <3>3. r.lo <= x /\ x <= r.hi /\ ToBits(r.w, x) \cap r.km = r.kv /\ r.kv \subseteq r.km
      BY <1>1, ValueBits, ConcreteBounds, SoundFields DEF Sound
    <3>4. lo <= v /\ v <= hi
      <4>1. r.lo \div p <= x \div p /\ x \div p <= r.hi \div p
        BY <1>1, <3>2, <3>3, DivMonotone
      <4> QED BY <2>7, <3>1, <4>1
    <3>5. v \in Type(r.signed, r.w)
      <4>1. TypeLo(r.signed, r.w) <= v /\ v <= TypeHi(r.signed, r.w)
        BY <1>1, <3>1, <3>2, <3>3
      <4> QED BY <1>1, <4>1, WithinType
    <3>6. ASSUME NEW i \in Ones(r.w) \cap km PROVE i \in ToBits(r.w, v) <=> i \in kv
      <4>1. i \in ToBits(r.w, v) <=> i + c \in ToBits(r.w, x)
        <5>1. i \in Ones(r.w)
          OBVIOUS
        <5>2. i \in ToBits(r.w, x \div Pow2(c)) <=> i + c \in ToBits(r.w, x)
          BY <1>1, <2>2, <3>2, <5>1, ShrBits
        <5> QED BY <2>3, <3>1, <5>2
      <4>2. i \in kv <=> i + c \in r.kv
        BY <2>4 DEF Shr
      <4>3. CASE i + c \in r.km
        BY <3>3, <4>1, <4>2, <4>3
      <4>4. CASE i + c \notin r.km
        <5>1. i \in Ones(r.w) /\ i \notin Ones(r.w - c)
          BY <2>4, <4>4 DEF Shr
        <5>2. i + c \notin ToBits(r.w, x)
          BY <1>1, <2>2, <5>1 DEF Ones, ToBits
        <5> QED BY <3>3, <4>1, <4>2, <4>4, <5>2
      <4> QED BY <4>3, <4>4
    <3>7. v \in Concrete(t)
      BY <2>6, <3>5, <3>6
    <3> QED BY <2>10, <3>1, <3>4, <3>7
  <2> QED BY <2>6, <2>8, <2>10, <2>11 DEF Allows, SameType
<1> QED BY <1>1, <1>2, <1>3, <1>4

(* Whatever the operator.                                                     *)
LEMMA ApplyAllows ==
  ASSUME NEW r, NEW s, Operands(r, s), NEW op \in ArithOps
  PROVE  Allows(Apply(op, r, s), op, r, s)
<1>1. CASE op = "add"
  BY <1>1, AddAllows DEF Apply
<1>2. CASE op = "sub"
  BY <1>2, SubAllows DEF Apply
<1>3. CASE op = "mul"
  BY <1>3, MulAllows DEF Apply
<1>4. CASE op = "div"
  BY <1>4, DivAllows DEF Apply
<1>5. CASE op = "mod"
  BY <1>5, ModAllows DEF Apply
<1>6. CASE op = "band"
  BY <1>6, BandAllows DEF Apply
<1>7. CASE op = "bor"
  BY <1>7, BorAllows DEF Apply
<1>8. CASE op = "bxor"
  BY <1>8, BxorAllows DEF Apply
<1>9. CASE op = "shl"
  BY <1>9, ShlAllows DEF Apply
<1>10. CASE op = "shr"
  BY <1>10, ShrAllows DEF Apply
<1> QED BY <1>1, <1>2, <1>3, <1>4, <1>5, <1>6, <1>7, <1>8, <1>9, <1>10 DEF ArithOps

-----------------------------------------------------------------------------
(* Comparisons and the join. *)

(* Operands the domain tells apart, by their intervals or by a bit both     *)
(* know with different values, have no value in common.                     *)
LEMMA ApartDiffer ==
  ASSUME NEW r \in IntAbs, NEW s \in IntAbs, r.w = s.w, Apart(r, s),
         NEW x \in Concrete(r), NEW y \in Concrete(s)
  PROVE  x # y
  <1>1. /\ x \in Int /\ r.lo <= x /\ x <= r.hi /\ ToBits(r.w, x) \cap r.km = r.kv
        /\ y \in Int /\ s.lo <= y /\ y <= s.hi /\ ToBits(r.w, y) \cap s.km = s.kv
    BY ConcreteBounds
  <1>2. r.lo \in Int /\ r.hi \in Int /\ s.lo \in Int /\ s.hi \in Int
    BY DEF IntAbs
  <1>3. CASE r.hi < s.lo \/ s.hi < r.lo
    BY <1>1, <1>2, <1>3
  <1>4. CASE SymDiff(r.kv, s.kv) \cap r.km \cap s.km # {}
    <2> SUFFICES ASSUME x = y PROVE FALSE
      OBVIOUS
    <2>1. PICK i : i \in r.km /\ i \in s.km /\ (i \in r.kv) # (i \in s.kv)
      BY <1>4 DEF SymDiff
    <2>2. i \in r.kv <=> i \in ToBits(r.w, x)
      BY <1>1, <2>1
    <2>3. i \in s.kv <=> i \in ToBits(r.w, x)
      BY <1>1, <2>1
    <2> QED
      BY <2>1, <2>2, <2>3
  <1> QED
    BY <1>3, <1>4 DEF Apart

LEMMA SameEqual ==
  ASSUME NEW r \in IntAbs, NEW s \in IntAbs, Same(r, s),
         NEW x \in Concrete(r), NEW y \in Concrete(s)
  PROVE  x = y
  <1>1. /\ x \in Int /\ r.lo <= x /\ x <= r.hi
        /\ y \in Int /\ s.lo <= y /\ y <= s.hi
    BY ConcreteBounds
  <1>2. r.lo \in Int /\ r.hi \in Int /\ s.lo \in Int /\ s.hi \in Int
    BY DEF IntAbs
  <1> QED
    BY <1>1, <1>2 DEF Same, IsConst

LEMMA DecideCases ==
  ASSUME NEW yes \in BOOLEAN, NEW no \in BOOLEAN
  PROVE  /\ Decide(yes, no) = "yes" => yes
         /\ Decide(yes, no) = "no" => no
  BY DEF Decide

(* A comparison of two integers of one width that the domain decides comes  *)
(* out as decided for every value of the operands.                          *)
LEMMA DecidedRight ==
  a \in IntAbs /\ b \in IntAbs /\ a.w = b.w => CmpSound
  <1> SUFFICES ASSUME a \in IntAbs, b \in IntAbs, a.w = b.w,
                      NEW op \in CmpOps,
                      NEW x \in Concrete(a), NEW y \in Concrete(b)
               PROVE  /\ Cmp(op, a, b) = "yes" => Compare(op, x, y)
                      /\ Cmp(op, a, b) = "no" => ~Compare(op, x, y)
    BY DEF CmpSound
  <1>1. /\ x \in Int /\ a.lo <= x /\ x <= a.hi
        /\ y \in Int /\ b.lo <= y /\ y <= b.hi
    BY ConcreteBounds
  <1>2. a.lo \in Int /\ a.hi \in Int /\ b.lo \in Int /\ b.hi \in Int
    BY DEF IntAbs
  <1>3. ~(IsEmpty(a) \/ IsEmpty(b))
    BY <1>1, <1>2 DEF IsEmpty
  <1>4. CASE op = "lt"
    BY <1>1, <1>2, <1>3, <1>4 DEF Cmp, Compare, Decide
  <1>5. CASE op = "le"
    BY <1>1, <1>2, <1>3, <1>5 DEF Cmp, Compare, Decide
  <1>6. CASE op = "gt"
    BY <1>1, <1>2, <1>3, <1>6 DEF Cmp, Compare, Decide
  <1>7. CASE op = "ge"
    BY <1>1, <1>2, <1>3, <1>7 DEF Cmp, Compare, Decide
  <1>8. CASE op = "eq"
    BY <1>3, <1>8, ApartDiffer, SameEqual DEF Cmp, Compare, Decide
  <1>9. CASE op = "ne"
    BY <1>3, <1>9, ApartDiffer, SameEqual DEF Cmp, Compare, Decide
  <1> QED
    BY <1>4, <1>5, <1>6, <1>7, <1>8, <1>9 DEF CmpOps

(* The join of two integers of one width allows what either allows.         *)
LEMMA JoinedAllows ==
  a \in IntAbs /\ b \in IntAbs /\ a.w = b.w => JoinKeeps
  <1> SUFFICES ASSUME a \in IntAbs, b \in IntAbs, a.w = b.w,
                      NEW v \in Concrete(a) \cup Concrete(b)
               PROVE  v \in Concrete(Join(a, b))
    BY DEF JoinKeeps
  <1> DEFINE km == (a.km \cap b.km) \ SymDiff(a.kv, b.kv)
             j  == [a EXCEPT !.lo = Smaller(@, b.lo), !.hi = Larger(@, b.hi),
                             !.kv = @ \cap km, !.km = km]
  <1>1. /\ a.lo \in Int /\ a.hi \in Int /\ b.lo \in Int /\ b.hi \in Int
        /\ a = [signed |-> a.signed, w |-> a.w, lo |-> a.lo, hi |-> a.hi,
                kv |-> a.kv, km |-> a.km]
    BY DEF IntAbs
  <1>2. ASSUME NEW r \in {a, b}, NEW x \in Concrete(r) PROVE ~IsEmpty(r)
    BY <1>1, <1>2, ConcreteBounds DEF IsEmpty
  <1>3. CASE IsEmpty(a) \/ IsEmpty(b)
    BY <1>2, <1>3 DEF Join
  <1>4. CASE ~IsEmpty(a) /\ ~IsEmpty(b)
    <2>1. /\ Join(a, b) = j /\ j.w = a.w
          /\ j.lo = Smaller(a.lo, b.lo) /\ j.hi = Larger(a.hi, b.hi)
          /\ j.kv = a.kv \cap km /\ j.km = km
      BY <1>1, <1>4 DEF Join
    <2>2. v \in Int /\ j.lo <= v /\ v <= j.hi /\ j.lo \in Int /\ j.hi \in Int
      <3>1. v \in Int /\ ((a.lo <= v /\ v <= a.hi) \/ (b.lo <= v /\ v <= b.hi))
        BY ConcreteBounds
      <3> HIDE DEF j
      <3> QED
        BY <1>1, <2>1, <3>1 DEF Smaller, Larger
    <2>3. ToBits(a.w, v) \cap km = a.kv \cap km
      <3>1. \/ ToBits(a.w, v) \cap a.km = a.kv
            \/ ToBits(a.w, v) \cap b.km = b.kv
        BY ConcreteBounds
      <3> QED
        BY <3>1 DEF SymDiff
    <2> HIDE DEF j
    <2> QED
      BY <2>1, <2>2, <2>3 DEF Concrete
  <1> QED
    BY <1>3, <1>4

(* The join is of the type of what it joins.                                *)
LEMMA JoinSound ==
  ASSUME NEW r, NEW s, Operands(r, s)
  PROVE  Sound(Join(r, s)) /\ SameType(Join(r, s), r)
  <1>1. /\ Sound(r) /\ Sound(s) /\ s.w = r.w /\ s.signed = r.signed
        /\ r.signed \in BOOLEAN /\ r.w \in Nat \ {0}
        /\ r.lo \in Int /\ r.hi \in Int /\ s.lo \in Int /\ s.hi \in Int
        /\ TypeLo(r.signed, r.w) \in Int /\ TypeHi(r.signed, r.w) \in Int
        /\ TypeLo(r.signed, r.w) <= r.lo /\ r.hi <= TypeHi(r.signed, r.w)
        /\ TypeLo(r.signed, r.w) <= s.lo /\ s.hi <= TypeHi(r.signed, r.w)
    BY OperandFacts
  <1>2. PICK lo \in Int, hi \in Int : lo = Smaller(r.lo, s.lo) /\ hi = Larger(r.hi, s.hi)
    BY <1>1 DEF Smaller, Larger
  <1>3. PICK km, kv : km = (r.km \cap s.km) \ SymDiff(r.kv, s.kv) /\ kv = r.kv \cap km
    OBVIOUS
  <1>4. PICK j : j = Join(r, s)
    OBVIOUS
  <1>5. j = [signed |-> r.signed, w |-> r.w, lo |-> lo, hi |-> hi, kv |-> kv, km |-> km]
    <2>1. r = [signed |-> r.signed, w |-> r.w, lo |-> r.lo, hi |-> r.hi,
               kv |-> r.kv, km |-> r.km]
      BY <1>1 DEF Sound, IntAbs
    <2>2. PICK e : e = [r EXCEPT !.lo = lo, !.hi = hi, !.kv = kv, !.km = km]
      OBVIOUS
    <2>3. e = [signed |-> r.signed, w |-> r.w, lo |-> lo, hi |-> hi, kv |-> kv, km |-> km]
      BY <2>1, <2>2
    <2>4. j = e
      BY <1>2, <1>3, <1>4, <2>2 DEF Operands, Join
    <2> QED BY <2>3, <2>4
  <1>6. kv \subseteq km /\ km \subseteq Ones(r.w) /\ Ones(r.w) \subseteq Nat
    BY <1>1, <1>3, SoundFields DEF Ones
  <1>7. TypeLo(r.signed, r.w) <= lo /\ hi <= TypeHi(r.signed, r.w)
    BY <1>1, <1>2 DEF Smaller, Larger
  <1>8. j \in IntAbs
    BY <1>1, <1>5, <1>6 DEF IntAbs
  <1> QED
    BY <1>4, <1>5, <1>6, <1>7, <1>8 DEF Sound, Fits, SameType

-----------------------------------------------------------------------------
(* Every value the checker can build. *)

(* The invariant: both integers are of one type, within it, allow some value, *)
(* and give values only to bits they mark as known.  That the bits and the    *)
(* interval are within the type is what the soundness of the operators and    *)
(* the casts rests on.                                                        *)
IInv == Operands(a, b)

LEMMA InitInv == Init => IInv
  <1> SUFFICES ASSUME Init PROVE Operands(a, b)
    BY DEF IInv
  <1>1. PICK signed \in BOOLEAN, w \in Widths : a \in Atoms(signed, w) /\ b \in Atoms(signed, w)
    BY DEF Init, Types
  <1>2. w \in Nat \ {0}
    BY WidthsAssumption
  <1>3. ASSUME NEW r \in Atoms(signed, w)
        PROVE  Sound(r) /\ r.signed = signed /\ r.w = w /\ ~IsEmpty(r)
    <2>1. CASE r = Top(signed, w)
      BY <1>2, <2>1, TopAllows
    <2>2. CASE r # Top(signed, w)
      <3>1. PICK v \in Int : r = Const(signed, w, v)
        BY <2>2 DEF Atoms
      <3> QED
        BY <1>2, <3>1, ConstAllows
    <2> QED
      BY <2>1, <2>2
  <1> QED
    BY <1>1, <1>3 DEF Operands, SameType

LEMMA NextInv == IInv /\ [Next]_vars => IInv'
  <1> SUFFICES ASSUME Operands(a, b), [Next]_vars PROVE Operands(a', b')
    BY DEF IInv
  <1>1. /\ Sound(a) /\ Sound(b) /\ SameType(a, b) /\ ~IsEmpty(a) /\ ~IsEmpty(b)
        /\ a.signed \in BOOLEAN /\ a.w \in Nat \ {0}
    BY OperandFacts DEF Operands
  <1>2. ASSUME NEW r, Becomes(r), Sound(r), SameType(r, a) PROVE Operands(a', b')
    BY <1>1, <1>2 DEF Becomes, Operands, SameType
  <1>3. CASE Operate
    <2>1. PICK op \in ArithOps : Becomes(Apply(op, a, b))
      BY <1>3 DEF Operate
    <2>2. Sound(Apply(op, a, b)) /\ SameType(Apply(op, a, b), a)
      BY ApplyAllows DEF Allows
    <2> QED
      BY <1>2, <2>1, <2>2
  <1>4. CASE Recast
    <2>1. PICK s \in BOOLEAN, w \in 1 .. MaxWidth : Becomes(Cast(Cast(a, s, w), a.signed, a.w))
      BY <1>4 DEF Recast
    <2>2. PICK c : c = Cast(a, s, w)
      OBVIOUS
    <2>3. Sound(c)
      <3>1. w \in Nat \ {0}
        OBVIOUS
      <3> QED
        BY <1>1, <2>2, <3>1, CastAllows
    <2>4. /\ Sound(Cast(c, a.signed, a.w)) /\ Cast(c, a.signed, a.w).signed = a.signed
          /\ Cast(c, a.signed, a.w).w = a.w
      BY <1>1, <2>3, CastAllows
    <2> QED
      BY <1>2, <2>1, <2>2, <2>4 DEF SameType
  <1>5. CASE Rejoin
    BY <1>2, <1>5, JoinSound DEF Rejoin
  <1>6. CASE Swap
    BY <1>1, <1>6 DEF Swap, Operands, SameType
  <1>7. CASE Assume
    <2>0. PICK op \in CmpOps :
            \E m : /\ m = Narrow(op, a, b) /\ ~IsEmpty(m[1]) /\ ~IsEmpty(m[2])
                   /\ a' = m[1] /\ b' = m[2]
      BY <1>7 DEF Assume
    <2>1. PICK n : /\ n = Narrow(op, a, b) /\ ~IsEmpty(n[1]) /\ ~IsEmpty(n[2])
                   /\ a' = n[1] /\ b' = n[2]
      BY <2>0
    <2>2. /\ Sound(n[1]) /\ SameType(n[1], a) /\ Sound(n[2]) /\ SameType(n[2], b)
      BY <1>1, <2>1, NarrowAllows
    <2> QED
      BY <1>1, <2>1, <2>2 DEF Operands, SameType
  <1>8. CASE UNCHANGED vars
    BY <1>8 DEF vars
  <1> QED
    BY <1>3, <1>4, <1>5, <1>6, <1>7, <1>8 DEF Next

LEMMA Invariant == Spec => []IInv
  BY InitInv, NextInv, PTL DEF Spec

(* Whatever the widths, what the checker holds of a value stays within its    *)
(* type and gives values only to bits it marks as known                       *)
(* (Facts/Domain.lean AbsInt).                                                *)
THEOREM DomainConsistent == Spec => []Consistent
  <1>1. IInv => Consistent
    <2> SUFFICES ASSUME IInv PROVE Consistent
      OBVIOUS
    <2>1. SameType(a, b) /\ Sound(a) /\ Sound(b)
      BY DEF IInv, Operands
    <2> QED
      BY <2>1 DEF Consistent, Sound
  <1> QED
    BY <1>1, Invariant, PTL

(* Whatever the widths, the transfer function of each operator allows what    *)
(* the program computes from any two values its operands stand for            *)
(* (Facts/Domain.lean add to shr, Machine/Bytes.lean).                        *)
THEOREM OperatorsSound == Spec => []ArithSound
  <1>1. IInv => ArithSound
    <2> SUFFICES ASSUME IInv, NEW op \in ArithOps,
                        NEW x \in Concrete(a), NEW y \in Concrete(b)
                 PROVE  Arith(op, a.signed, a.w, x, y) \in Concrete(Apply(op, a, b))
      BY DEF ArithSound
    <2> QED
      BY ApplyAllows DEF IInv, Allows
  <1> QED
    BY <1>1, Invariant, PTL

(* Whatever the widths, a cast to any type allows the value the cast has      *)
(* (Facts/Domain.lean cast).                                                  *)
THEOREM CastsSound == Spec => []CastSound
  <1>1. IInv => CastSound
    <2> SUFFICES ASSUME IInv, NEW s \in BOOLEAN, NEW w \in 1 .. MaxWidth, NEW x \in Concrete(a)
                 PROVE  Wrap(s, w, x) \in Concrete(Cast(a, s, w))
      BY DEF CastSound
    <2>1. w \in Nat \ {0} /\ Sound(a)
      BY DEF IInv, Operands
    <2> QED
      BY <2>1, CastAllows
  <1> QED
    BY <1>1, Invariant, PTL

(* Whatever the widths, assuming a comparison excludes no pair of values for  *)
(* which it holds (Facts/Domain.lean narrow).                                 *)
THEOREM NarrowingSound == Spec => []NarrowKeeps
  <1>1. IInv => NarrowKeeps
    <2> SUFFICES ASSUME IInv, NEW op \in CmpOps, NEW x \in Concrete(a), NEW y \in Concrete(b),
                        Compare(op, x, y)
                 PROVE  x \in Concrete(Narrow(op, a, b)[1]) /\ y \in Concrete(Narrow(op, a, b)[2])
      BY DEF NarrowKeeps
    <2>1. Sound(a) /\ Sound(b) /\ SameType(a, b)
      BY DEF IInv, Operands
    <2> QED
      BY <2>1, NarrowAllows
  <1> QED
    BY <1>1, Invariant, PTL

(* Whatever the widths, a comparison the domain decides comes out as decided  *)
(* for every two values of its operands (Facts/Domain.lean cmp).              *)
THEOREM ComparisonsSound == Spec => []CmpSound
  <1>1. IInv => CmpSound
    BY DecidedRight DEF IInv, Operands, Sound, SameType
  <1> QED
    BY <1>1, Invariant, PTL

(* Whatever the widths, the join of two paths' knowledge of an integer allows *)
(* every value that either path allows (Facts/Domain.lean join).              *)
THEOREM JoinsCover == Spec => []JoinKeeps
  <1>1. IInv => JoinKeeps
    BY JoinedAllows DEF IInv, Operands, Sound, SameType
  <1> QED
    BY <1>1, Invariant, PTL
=============================================================================
