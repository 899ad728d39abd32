-------------------------- MODULE TranscribeProofs --------------------------
(* Theorems about Transcribe: whatever lines a struct has, and however many,  *)
(* it is laid out as C lays it out, and its size is C's, as long as no        *)
(* bit-field shares a byte or is moved to a unit of its type and no union     *)
(* ends with a padding; whatever the switches of however many functions hold, *)
(* of the forms the parser reads the table says what the verifier is given.   *)
EXTENDS Transcribe, SequenceTheorems, Arithmetic

-----------------------------------------------------------------------------
(* The inductive invariant. *)

Sized == [offset : Nat, size : Nat]
CSized == [at : Nat, line : Lines]
Unplaced == [size : Nat, align : SizesOfInt]

Typed ==
  /\ fields \in Seq(Sized) /\ union \in Seq(Unplaced)
  /\ off \in Nat /\ alignMax \in SizesOfInt /\ total \in Nat
  /\ cFields \in Seq(CSized) /\ cUnion \in Seq(Lines)
  /\ cOff \in Nat /\ cAlign \in SizesOfInt /\ asRead \in BOOLEAN

(* The tool has measured the lines of the open union. *)
UnionAsC ==
  /\ Len(union) = Len(cUnion)
  /\ \A i \in DOMAIN union : union[i] = LayoutMember(cUnion[i])

(* The first byte that is free is the one behind C's last bit, and the        *)
(* struct is as aligned as C's.                                               *)
OffAsC == asRead => off = Bytes(cOff) /\ alignMax = cAlign

LayoutInv == Typed /\ UnionAsC /\ OffAsC /\ LaidOutAsC /\ SizeAsC

-----------------------------------------------------------------------------
(* Arithmetic. *)

(* The first multiple of a bytes not before bit n, and that it is the least.  *)
LEMMA RoundUpFacts ==
  ASSUME NEW n \in Nat, NEW a \in SizesOfInt
  PROVE  LET p == 8 * RoundUp(Bytes(n), a)
         IN  /\ RoundUp(Bytes(n), a) \in Nat
             /\ p \in n .. n + 8 * a /\ p % (8 * a) = 0
             /\ \A q \in Nat : n <= q /\ q % (8 * a) = 0 => p <= q
<1>1. CASE a = 1
  BY <1>1, SMTT(60) DEF RoundUp, Bytes
<1>2. CASE a = 2
  BY <1>2, SMTT(60) DEF RoundUp, Bytes
<1>3. CASE a = 4
  BY <1>3, SMTT(60) DEF RoundUp, Bytes
<1>4. CASE a = 8
  BY <1>4, SMTT(60) DEF RoundUp, Bytes
<1> QED BY <1>1, <1>2, <1>3, <1>4 DEF SizesOfInt

LEMMA ByteRoundUp ==
  ASSUME NEW n \in Nat, NEW a \in SizesOfInt
  PROVE  RoundUp(n, a) \in Nat
BY SMTT(60) DEF RoundUp, SizesOfInt

(* A set of numbers with a bound among them has a largest, or a least, one.   *)
LEMMA LargestFacts ==
  ASSUME NEW S \in SUBSET Nat, NEW m \in S, \A n \in S : n <= m
  PROVE  Largest(S) = m
<1>1. \A k \in S : (\A n \in S : n <= k) => k = m
  OBVIOUS
<1> QED BY <1>1 DEF Largest

LEMMA LeastFacts ==
  ASSUME NEW S \in SUBSET Nat, NEW m \in S, \A n \in S : m <= n
  PROVE  Least(S) = m
<1>1. \A k \in S : (\A n \in S : k <= n) => k = m
  OBVIOUS
<1> QED BY <1>1 DEF Least

(* C's first multiple of a whole alignment is the tool's, from the byte that  *)
(* C's bit lies before.                                                       *)
LEMMA MultipleFacts ==
  ASSUME NEW n \in Nat, NEW a \in SizesOfInt
  PROVE  /\ NextMultiple(n, 8 * a) = 8 * RoundUp(Bytes(n), a)
         /\ NextMultiple(n, 8 * a) \in Nat
<1>1. PICK p : p = 8 * RoundUp(Bytes(n), a)
  OBVIOUS
<1>2. PICK S : S = {q \in n .. n + 8 * a : q % (8 * a) = 0}
  OBVIOUS
<1>3. a \in Nat
  BY DEF SizesOfInt
<1>4. S \in SUBSET Nat /\ p \in S /\ p \in Nat
  BY <1>1, <1>2, <1>3, RoundUpFacts, SMTT(60)
<1>5. \A q \in S : p <= q
  BY <1>1, <1>2, <1>3, RoundUpFacts
<1>6. Least(S) = p
  BY <1>4, <1>5, LeastFacts
<1> QED BY <1>1, <1>2, <1>4, <1>6 DEF NextMultiple

(* Some numbers, one at least, have a largest. *)
LEMMA LargestOfSome ==
  ASSUME NEW n \in Nat, n # 0, NEW f, \A i \in 1 .. n : f[i] \in Nat
  PROVE  \E i \in 1 .. n : \A k \in 1 .. n : f[k] <= f[i]
<1> DEFINE Good(m) == m = 0 \/ \A g : (\A i \in 1 .. m : g[i] \in Nat)
                                        => \E i \in 1 .. m : \A k \in 1 .. m : g[k] <= g[i]
<1>1. PICK S : S = {m \in Nat : Good(m)}
  OBVIOUS
<1>2. 0 \in S
  BY <1>1
<1>3. ASSUME NEW m \in Nat, m \in S PROVE m + 1 \in S
  <2>1. ASSUME NEW g, \A i \in 1 .. m + 1 : g[i] \in Nat
        PROVE  \E i \in 1 .. m + 1 : \A k \in 1 .. m + 1 : g[k] <= g[i]
    <3>1. /\ \A k \in 1 .. m + 1 : k \in 1 .. m \/ k = m + 1
          /\ \A k \in 1 .. m : k \in 1 .. m + 1
          /\ m + 1 \in 1 .. m + 1
      OBVIOUS
    <3>2. CASE \A k \in 1 .. m : g[k] <= g[m + 1]
      BY <2>1, <3>1, <3>2
    <3>3. CASE \E j \in 1 .. m : ~ g[j] <= g[m + 1]
      <4>1. m # 0
        BY <3>3
      <4>2. PICK i \in 1 .. m : \A k \in 1 .. m : g[k] <= g[i]
        BY <1>1, <1>3, <2>1, <3>1, <4>1
      <4>3. g[m + 1] <= g[i]
        BY <2>1, <3>1, <3>3, <4>2
      <4> QED BY <3>1, <4>2, <4>3
    <3> QED BY <3>2, <3>3
  <2>2. m + 1 \in Nat
    OBVIOUS
  <2>3. Good(m + 1)
    BY <2>1
  <2> QED BY <1>1, <2>2, <2>3
<1>4. Nat \subseteq S
  BY <1>2, <1>3, SetInduction
<1>5. Good(n)
  BY <1>1, <1>4
<1> QED BY <1>5

LEMMA WiderFacts ==
  ASSUME NEW a \in SizesOfInt, NEW b \in SizesOfInt
  PROVE  Largest({a, b}) \in SizesOfInt
<1>1. CASE b <= a
  <2>1. Largest({a, b}) = a
    BY <1>1, LargestFacts DEF SizesOfInt
  <2> QED BY <2>1
<1>2. CASE a <= b
  <2>1. Largest({a, b}) = b
    BY <1>2, LargestFacts DEF SizesOfInt
  <2> QED BY <2>1
<1> QED BY <1>1, <1>2 DEF SizesOfInt

LEMMA BytesFacts ==
  ASSUME NEW n \in Nat
  PROVE  /\ Bytes(n) \in Nat
         /\ \A m \in Nat : n <= m => Bytes(n) <= Bytes(m)
         /\ \A m \in Nat : Bytes(8 * m + n) = m + Bytes(n)
BY SMTT(60) DEF Bytes

(* The tool measures a member as C does, a bit-field in whole bytes.          *)
LEMMA MemberAsC ==
  ASSUME NEW l \in Lines
  PROVE  /\ CBits(l) \in Nat /\ CAlign(l) \in SizesOfInt
         /\ LayoutMember(l) \in Unplaced
         /\ LayoutMember(l).size = Bytes(CBits(l)) /\ LayoutMember(l).align = CAlign(l)
         /\ l.form # "pad" => CBits(l) = 8 * Bytes(CBits(l))
<1>1. l.base \in SizesOfInt /\ l.bits \in Nat /\ l.count \in Nat
  BY LayoutAssumption
<1>2. PICK k : k = l.base * l.count
  OBVIOUS
<1>3. k \in Nat /\ 8 * l.base * l.count = 8 * k
  BY <1>1, <1>2 DEF SizesOfInt
<1>4. Bytes(8 * k) = k /\ Bytes(l.bits) \in Nat /\ Bytes(64) = 8
  BY <1>1, <1>3, SMTT(60) DEF Bytes
<1>5. CASE l.form = "ptr"
  BY <1>4, <1>5 DEF CBits, CAlign, LayoutMember, Unplaced, SizesOfInt
<1>6. CASE l.form = "pad"
  <2>1. (l.bits + 7) \div 8 = Bytes(l.bits)
    BY DEF Bytes
  <2> QED BY <1>1, <1>4, <1>6, <2>1 DEF CBits, CAlign, LayoutMember, Unplaced, SizesOfInt
<1>7. CASE l.form # "ptr" /\ l.form # "pad"
  <2>1. CBits(l) = 8 * k /\ CAlign(l) = l.base /\ LayoutMember(l) = [size |-> k, align |-> l.base]
    BY <1>2, <1>3, <1>7 DEF CBits, CAlign, LayoutMember
  <2> QED BY <1>1, <1>3, <1>4, <2>1 DEF Unplaced
<1> QED BY <1>5, <1>6, <1>7

-----------------------------------------------------------------------------
(* Where C places a member. *)

(* A bit-field has room in the unit that begins at the next multiple.         *)
LEMMA UnitSuits ==
  ASSUME NEW l \in Lines, l.form = "pad", NEW p \in Nat, p % (8 * l.base) = 0
  PROVE  Suits(l, p)
<1>1. l.base \in SizesOfInt /\ l.bits \in Nat /\ l.bits <= 8 * l.base
  BY LayoutAssumption
<1>2. PICK bits \in Nat : bits = l.bits
  BY <1>1
<1>3. CASE bits = 0
  BY <1>2, <1>3 DEF Suits
<1>4. CASE bits # 0
  <2>1. p \div (8 * l.base) = (p + bits - 1) \div (8 * l.base)
    <3>1. CASE l.base = 1
      BY <1>1, <1>2, <1>4, <3>1, SMTT(60)
    <3>2. CASE l.base = 2
      BY <1>1, <1>2, <1>4, <3>2, SMTT(60)
    <3>3. CASE l.base = 4
      BY <1>1, <1>2, <1>4, <3>3, SMTT(60)
    <3>4. CASE l.base = 8
      BY <1>1, <1>2, <1>4, <3>4, SMTT(60)
    <3> QED BY <1>1, <3>1, <3>2, <3>3, <3>4 DEF SizesOfInt
  <2> QED BY <1>2, <1>4, <2>1 DEF Suits
<1> QED BY <1>3, <1>4

LEMMA PlaceFacts ==
  ASSUME NEW l \in Lines, cOff \in Nat
  PROVE  /\ CPlace(l) \in Nat
         /\ l.form # "pad" => CPlace(l) = 8 * RoundUp(Bytes(cOff), CAlign(l))
<1>1. PICK S : S = {p \in cOff .. cOff + 64 : Suits(l, p)}
  OBVIOUS
<1>2. S \in SUBSET Nat /\ CPlace(l) = Least(S)
  BY <1>1 DEF CPlace
<1>3. l.base \in SizesOfInt /\ CAlign(l) \in SizesOfInt
  BY MemberAsC, LayoutAssumption
<1>4. CASE l.form # "pad"
  <2>1. PICK a \in SizesOfInt : a = CAlign(l)
    BY <1>3
  <2>2. PICK p : p = 8 * RoundUp(Bytes(cOff), a)
    OBVIOUS
  <2>3. /\ p \in Nat /\ p \in cOff .. cOff + 8 * a /\ p % (8 * a) = 0
        /\ \A q \in Nat : cOff <= q /\ q % (8 * a) = 0 => p <= q
    <3>1. a \in Nat /\ RoundUp(Bytes(cOff), a) \in Nat
      BY RoundUpFacts DEF SizesOfInt
    <3>2. /\ p \in cOff .. cOff + 8 * a /\ p % (8 * a) = 0
          /\ \A q \in Nat : cOff <= q /\ q % (8 * a) = 0 => p <= q
      BY <2>2, RoundUpFacts, Zenon
    <3> QED BY <2>2, <3>1, <3>2
  <2>4. cOff + 8 * a <= cOff + 64
    BY DEF SizesOfInt
  <2>5. \A q : Suits(l, q) <=> q % (8 * a) = 0
    BY <1>4, <2>1 DEF Suits
  <2>6. p \in S
    BY <1>1, <2>3, <2>4, <2>5 DEF SizesOfInt
  <2>7. \A q \in S : p <= q
    BY <1>1, <2>3, <2>5
  <2>8. Least(S) = p
    BY <1>2, <2>6, <2>7, LeastFacts
  <2> QED BY <1>2, <2>1, <2>2, <2>3, <2>8
<1>5. CASE l.form = "pad"
  <2>1. PICK p : p = 8 * RoundUp(Bytes(cOff), l.base)
    OBVIOUS
  <2>2. p \in Nat /\ p \in cOff .. cOff + 8 * l.base /\ p % (8 * l.base) = 0
    <3>1. l.base \in SizesOfInt /\ RoundUp(Bytes(cOff), l.base) \in Nat
      BY <1>3, RoundUpFacts
    <3>2. p \in cOff .. cOff + 8 * l.base /\ p % (8 * l.base) = 0
      BY <1>3, <2>1, RoundUpFacts, Zenon
    <3> QED BY <2>1, <3>1, <3>2
  <2>3. p \in cOff .. cOff + 64
    BY <1>3, <2>2 DEF SizesOfInt
  <2>4. p \in S
    BY <1>1, <1>5, <2>2, <2>3, UnitSuits
  <2>5. PICK m \in S : \A q \in S : m <= q
    BY <1>2, <2>4, LeastElement
  <2>6. Least(S) = m
    BY <1>2, <2>5, LeastFacts
  <2> QED BY <1>2, <1>5, <2>6
<1> QED BY <1>4, <1>5

-----------------------------------------------------------------------------
(* Placing members: a struct's, or all of a union's. *)

(* The tool's fields and C's are the same. *)
Matches(s, c) ==
  /\ Len(s) = Len(c)
  /\ \A i \in DOMAIN s : 8 * s[i].offset = c[i].at /\ s[i].size = Bytes(CBits(c[i].line))

(* One sequence behind another, and one value behind a sequence. *)
LEMMA ConcatFacts ==
  ASSUME NEW S, NEW s \in Seq(S), NEW t \in Seq(S)
  PROVE  /\ Len(s \o t) = Len(s) + Len(t)
         /\ \A i \in 1 .. Len(s) : (s \o t)[i] = s[i]
         /\ \A k \in 1 .. Len(t) : (s \o t)[Len(s) + k] = t[k]
<1>1. PICK n \in Nat, m \in Nat : n = Len(s) /\ m = Len(t)
  OBVIOUS
<1>2. PICK u : u = s \o t
  OBVIOUS
<1>3. /\ Len(u) = n + m
      /\ \A i \in 1 .. n + m : u[i] = IF i <= n THEN s[i] ELSE t[i - n]
  BY <1>1, <1>2, ConcatProperties, ZenonT(60)
<1>4. \A i \in 1 .. n : u[i] = s[i]
  BY <1>3
<1>5. \A k \in 1 .. m : u[n + k] = t[k]
  <2> TAKE k \in 1 .. m
  <2>1. n + k \in 1 .. n + m /\ ~ n + k <= n /\ n + k - n = k
    OBVIOUS
  <2> QED BY <2>1, <1>3
<1> QED BY <1>1, <1>2, <1>3, <1>4, <1>5

LEMMA AppendFacts ==
  ASSUME NEW S, NEW s \in Seq(S), NEW e \in S
  PROVE  /\ Len(Append(s, e)) = Len(s) + 1
         /\ Append(s, e)[Len(s) + 1] = e
         /\ \A i \in 1 .. Len(s) : Append(s, e)[i] = s[i]
BY AppendProperties

LEMMA DomainFacts ==
  ASSUME NEW S, NEW s \in Seq(S), NEW n, Len(s) = n
  PROVE  DOMAIN s = 1 .. n
OBVIOUS

LEMMA MatchesMore ==
  ASSUME NEW s \in Seq(Sized), NEW c \in Seq(CSized), Matches(s, c),
         NEW t \in Seq(Sized), NEW d \in Seq(CSized), Matches(t, d)
  PROVE  Matches(s \o t, c \o d)
<1>1. PICK n \in Nat, m \in Nat : n = Len(s) /\ m = Len(t)
  OBVIOUS
<1>2. Len(c) = n /\ Len(d) = m /\ DOMAIN s = 1 .. n /\ DOMAIN t = 1 .. m
  BY <1>1 DEF Matches
<1>3. PICK u, v : u = s \o t /\ v = c \o d
  OBVIOUS
<1>4. /\ Len(u) = n + m
      /\ \A i \in 1 .. n : u[i] = s[i]
      /\ \A k \in 1 .. m : u[n + k] = t[k]
  <2>1. /\ Len(s \o t) = Len(s) + Len(t)
        /\ \A i \in 1 .. Len(s) : (s \o t)[i] = s[i]
        /\ \A k \in 1 .. Len(t) : (s \o t)[Len(s) + k] = t[k]
    BY ConcatFacts, SMTT(60)
  <2> QED BY <1>1, <1>3, <2>1, Zenon
<1>5. /\ Len(v) = n + m
      /\ \A i \in 1 .. n : v[i] = c[i]
      /\ \A k \in 1 .. m : v[n + k] = d[k]
  <2>1. /\ Len(c \o d) = Len(c) + Len(d)
        /\ \A i \in 1 .. Len(c) : (c \o d)[i] = c[i]
        /\ \A k \in 1 .. Len(d) : (c \o d)[Len(c) + k] = d[k]
    BY ConcatFacts, SMTT(60)
  <2> QED BY <1>2, <1>3, <2>1, Zenon
<1>6. ASSUME NEW i \in 1 .. n + m
      PROVE  8 * u[i].offset = v[i].at /\ u[i].size = Bytes(CBits(v[i].line))
  <2>1. CASE i \in 1 .. n
    BY <1>2, <1>4, <1>5, <2>1 DEF Matches
  <2>2. CASE i \notin 1 .. n
    <3>1. PICK k \in 1 .. m : i = n + k
      BY <2>2
    <3>2. u[i] = t[k] /\ v[i] = d[k]
      BY <1>4, <1>5, <3>1
    <3> QED BY <1>2, <3>2 DEF Matches
  <2> QED BY <2>1, <2>2
<1> QED BY <1>3, <1>4, <1>5, <1>6, SMTT(60) DEF Matches

-----------------------------------------------------------------------------
(* The steps. *)

LEMMA StructMemberInv ==
  ASSUME LayoutInv, NEW l \in Lines, StructMember(l)
  PROVE  LayoutInv'
<1>1. PICK m \in Unplaced : m = LayoutMember(l)
  BY MemberAsC
<1>2. /\ m.size \in Nat /\ m.align \in SizesOfInt
      /\ m.size = Bytes(CBits(l)) /\ m.align = CAlign(l) /\ CBits(l) \in Nat
      /\ l.form # "pad" => CBits(l) = 8 * m.size
  BY <1>1, MemberAsC DEF Unplaced
<1>3. Typed /\ cOff \in Nat /\ off \in Nat
  BY DEF LayoutInv, Typed
<1>4. PICK at, c : at = RoundUp(off, m.align) /\ c = CPlace(l)
  OBVIOUS
<1>5. at \in Nat /\ c \in Nat
  BY <1>2, <1>3, <1>4, ByteRoundUp, PlaceFacts
<1>6. PICK f \in Sized, g \in CSized : f = [offset |-> at, size |-> m.size] /\ g = [at |-> c, line |-> l]
  BY <1>2, <1>5 DEF Sized, CSized
<1>7. /\ fields' = Append(fields, f) /\ off' = at + m.size /\ alignMax' = Wider(m.align)
      /\ cFields' = Append(cFields, g) /\ cOff' = c + CBits(l)
      /\ cAlign' = Largest({cAlign, CAlign(l)})
      /\ asRead' = (asRead /\ (l.form = "pad" => c = 8 * Bytes(cOff)))
      /\ UNCHANGED <<union, cUnion, total>> /\ layout' = "reading"
  BY <1>1, <1>4, <1>6 DEF StructMember, CMember, Reading
<1>8. fields' = fields \o <<f>> /\ cFields' = cFields \o <<g>>
  BY <1>3, <1>6, <1>7, AppendIsConcat DEF Typed
<1>9. Typed'
  <2>1. alignMax' \in SizesOfInt /\ cAlign' \in SizesOfInt
    BY <1>2, <1>3, <1>7, WiderFacts DEF Typed, Wider
  <2>2. off' \in Nat /\ cOff' \in Nat
    BY <1>2, <1>5, <1>7
  <2>3. fields' \in Seq(Sized) /\ cFields' \in Seq(CSized)
    BY <1>3, <1>6, <1>7 DEF Typed
  <2>4. asRead' \in BOOLEAN
    BY <1>7
  <2> QED BY <1>3, <1>7, <2>1, <2>2, <2>3, <2>4 DEF Typed
<1>10. ASSUME asRead' PROVE asRead /\ c = 8 * at
  <2>1. asRead /\ (l.form = "pad" => c = 8 * Bytes(cOff))
    BY <1>7, <1>10
  <2>2. off = Bytes(cOff)
    BY <2>1 DEF LayoutInv, OffAsC
  <2>3. CASE l.form = "pad"
    <3>1. at = off
      BY <1>1, <1>3, <1>4, <2>3 DEF LayoutMember, RoundUp
    <3> QED BY <2>1, <2>2, <2>3, <3>1
  <2>4. CASE l.form # "pad"
    BY <1>2, <1>3, <1>4, <2>1, <2>2, <2>4, PlaceFacts
  <2> QED BY <2>3, <2>4
<1>11. OffAsC'
  <2> SUFFICES ASSUME asRead' PROVE off' = Bytes(cOff') /\ alignMax' = cAlign'
    BY DEF OffAsC
  <2>1. asRead /\ c = 8 * at
    BY <1>10
  <2>2. alignMax' = cAlign'
    BY <1>2, <1>7, <2>1 DEF LayoutInv, OffAsC, Wider
  <2>3. Bytes(8 * at + CBits(l)) = at + Bytes(CBits(l))
    BY <1>2, <1>5, BytesFacts
  <2> QED BY <1>2, <1>7, <2>1, <2>2, <2>3
<1>12. LaidOutAsC'
  <2> SUFFICES ASSUME asRead' PROVE Matches(fields', cFields')
    BY DEF LaidOutAsC, Matches
  <2>1. asRead /\ c = 8 * at /\ Matches(fields, cFields)
    BY <1>10 DEF LayoutInv, LaidOutAsC, Matches
  <2>2. <<f>> \in Seq(Sized) /\ <<g>> \in Seq(CSized)
    BY <1>6
  <2>3. Matches(<<f>>, <<g>>)
    BY <1>2, <1>6, <2>1 DEF Matches
  <2> QED BY <1>3, <1>8, <2>1, <2>2, <2>3, MatchesMore DEF Typed
<1>13. UnionAsC' /\ SizeAsC'
  BY <1>7 DEF LayoutInv, UnionAsC, SizeAsC
<1> QED BY <1>9, <1>11, <1>12, <1>13 DEF LayoutInv

LEMMA CloseUnionInv ==
  ASSUME LayoutInv, CloseUnion
  PROVE  LayoutInv'
<1>1. /\ Typed /\ UnionAsC /\ union \in Seq(Unplaced) /\ cUnion \in Seq(Lines)
      /\ cOff \in Nat /\ off \in Nat
  BY DEF LayoutInv, Typed
<1>2. PICK n \in Nat : n = Len(union) /\ n # 0
  BY <1>1 DEF CloseUnion
<1>3. DOMAIN union = 1 .. n /\ DOMAIN cUnion = 1 .. n
  BY <1>1, <1>2 DEF UnionAsC
<1>4. PICK bits, aligns : bits = [i \in 1 .. n |-> CBits(cUnion[i])] /\ aligns = [i \in 1 .. n |-> CAlign(cUnion[i])]
  OBVIOUS
<1>5. \A i \in 1 .. n : /\ cUnion[i] \in Lines
                        /\ bits[i] = CBits(cUnion[i]) /\ bits[i] \in Nat
                        /\ aligns[i] = CAlign(cUnion[i]) /\ aligns[i] \in SizesOfInt /\ aligns[i] \in Nat
                        /\ union[i].size = Bytes(bits[i]) /\ union[i].align = aligns[i]
  <2> TAKE i \in 1 .. n
  <2>1. cUnion[i] \in Lines /\ union[i] = LayoutMember(cUnion[i])
    BY <1>1, <1>3 DEF UnionAsC
  <2>2. bits[i] = CBits(cUnion[i]) /\ aligns[i] = CAlign(cUnion[i])
    BY <1>4
  <2>3. \A a \in SizesOfInt : a \in Nat
    BY DEF SizesOfInt
  <2> QED BY <2>1, <2>2, <2>3, MemberAsC
<1>6. PICK big \in 1 .. n : \A k \in 1 .. n : bits[k] <= bits[big]
  BY <1>2, <1>5, LargestOfSome
<1>7. PICK wide \in 1 .. n : \A k \in 1 .. n : aligns[k] <= aligns[wide]
  BY <1>2, <1>5, LargestOfSome
<1>8. PICK B \in Nat, a \in SizesOfInt : B = bits[big] /\ a = aligns[wide]
  BY <1>5, <1>6, <1>7
<1>9. /\ Largest({CBits(cUnion[i]) : i \in DOMAIN cUnion}) = B
      /\ Largest({union[i].size : i \in DOMAIN union}) = Bytes(B)
  <2>1. PICK S : S = {CBits(cUnion[i]) : i \in DOMAIN cUnion}
    OBVIOUS
  <2>2. S \in SUBSET Nat /\ B \in S /\ \A s \in S : s <= B
    BY <1>3, <1>5, <1>6, <1>8, <2>1
  <2>3. Largest(S) = B
    BY <2>2, LargestFacts
  <2>4. PICK T : T = {union[i].size : i \in DOMAIN union}
    OBVIOUS
  <2>5. \A i \in 1 .. n : /\ union[i].size = Bytes(bits[i])
                          /\ Bytes(bits[i]) \in Nat /\ Bytes(bits[i]) <= Bytes(B)
    BY <1>5, <1>6, <1>8, BytesFacts
  <2>6. T \in SUBSET Nat /\ Bytes(B) \in T /\ \A s \in T : s <= Bytes(B)
    BY <1>3, <1>8, <2>4, <2>5
  <2>7. Largest(T) = Bytes(B)
    BY <2>6, LargestFacts
  <2> QED BY <2>1, <2>3, <2>4, <2>7
<1>10. /\ Largest({CAlign(cUnion[i]) : i \in DOMAIN cUnion}) = a
       /\ Largest({union[i].align : i \in DOMAIN union}) = a
  <2>1. PICK S : S = {CAlign(cUnion[i]) : i \in DOMAIN cUnion}
    OBVIOUS
  <2>2. S \in SUBSET Nat /\ a \in S /\ \A s \in S : s <= a
    BY <1>3, <1>5, <1>7, <1>8, <2>1
  <2>3. Largest(S) = a
    BY <2>2, LargestFacts
  <2>4. S = {union[i].align : i \in DOMAIN union}
    BY <1>3, <1>5, <2>1
  <2> QED BY <2>1, <2>3, <2>4
<1>11. PICK at, c, size : /\ at = RoundUp(off, a) /\ c = NextMultiple(cOff, 8 * a)
                          /\ size = NextMultiple(B, 8 * a)
  OBVIOUS
<1>12. at \in Nat /\ c \in Nat /\ size \in Nat /\ Bytes(B) \in Nat
  BY <1>1, <1>8, <1>11, ByteRoundUp, MultipleFacts, BytesFacts
<1>13. PICK news, cnews : /\ news = [i \in 1 .. n |-> [offset |-> at, size |-> union[i].size]]
                          /\ cnews = [i \in 1 .. n |-> [at |-> c, line |-> cUnion[i]]]
  OBVIOUS
<1>14. /\ fields' = fields \o news /\ off' = at + Bytes(B) /\ alignMax' = Wider(a)
       /\ union' = <<>> /\ UNCHANGED total /\ layout' = "reading"
  BY <1>3, <1>9, <1>10, <1>11, <1>13 DEF CloseUnion, UnionEnd, Reading
<1>15. /\ cFields' = cFields \o cnews /\ cOff' = c + size /\ cAlign' = Largest({cAlign, a})
       /\ cUnion' = <<>> /\ asRead' = (asRead /\ size = 8 * Bytes(B))
  BY <1>3, <1>9, <1>10, <1>11, <1>13 DEF CloseUnion, CUnionEnd
<1>16. news \in Seq(Sized) /\ cnews \in Seq(CSized) /\ Len(news) = n /\ Len(cnews) = n
  <2>1. \A i \in 1 .. n : [offset |-> at, size |-> union[i].size] \in Sized
    BY <1>5, <1>12, BytesFacts, ZenonT(60) DEF Sized
  <2>2. \A i \in 1 .. n : [at |-> c, line |-> cUnion[i]] \in CSized
    BY <1>5, <1>12 DEF CSized
  <2>3. news \in Seq(Sized) /\ Len(news) = n
    BY <1>2, <1>13, <2>1
  <2>4. cnews \in Seq(CSized) /\ Len(cnews) = n
    BY <1>2, <1>13, <2>2
  <2> QED BY <2>3, <2>4
<1>17. Typed'
  <2>1. alignMax' \in SizesOfInt /\ cAlign' \in SizesOfInt
    BY <1>1, <1>8, <1>14, <1>15, WiderFacts DEF Typed, Wider
  <2>2. off' \in Nat /\ cOff' \in Nat
    BY <1>12, <1>14, <1>15
  <2>3. fields' \in Seq(Sized) /\ cFields' \in Seq(CSized)
    BY <1>1, <1>14, <1>15, <1>16, ConcatProperties DEF Typed
  <2>4. asRead' \in BOOLEAN
    BY <1>15
  <2>5. union' \in Seq(Unplaced) /\ cUnion' \in Seq(Lines) /\ total' \in Nat
    BY <1>1, <1>14, <1>15 DEF Typed
  <2> QED BY <2>1, <2>2, <2>3, <2>4, <2>5 DEF Typed
<1>18. ASSUME asRead' PROVE asRead /\ size = 8 * Bytes(B) /\ c = 8 * at /\ alignMax = cAlign
  <2>1. asRead /\ size = 8 * Bytes(B)
    BY <1>15, <1>18
  <2>2. off = Bytes(cOff) /\ alignMax = cAlign
    BY <2>1 DEF LayoutInv, OffAsC
  <2> QED BY <1>1, <1>8, <1>11, <2>1, <2>2, MultipleFacts
<1>19. OffAsC'
  <2> SUFFICES ASSUME asRead' PROVE off' = Bytes(cOff') /\ alignMax' = cAlign'
    BY DEF OffAsC
  <2>1. alignMax' = cAlign'
    BY <1>14, <1>15, <1>18 DEF Wider
  <2>2. PICK e \in Nat : e = at + Bytes(B)
    BY <1>12
  <2>3. cOff' = 8 * e + 0
    BY <1>12, <1>15, <1>18, <2>2
  <2>4. Bytes(8 * e + 0) = e
    BY SMTT(60) DEF Bytes
  <2> QED BY <1>14, <2>1, <2>2, <2>3, <2>4
<1>20. LaidOutAsC'
  <2> SUFFICES ASSUME asRead' PROVE Matches(fields', cFields')
    BY DEF LaidOutAsC, Matches
  <2>1. c = 8 * at /\ Matches(fields, cFields)
    BY <1>18 DEF LayoutInv, LaidOutAsC, Matches
  <2>2. Matches(news, cnews)
    <3>1. DOMAIN news = 1 .. n
      BY <1>13
    <3>2. \A i \in 1 .. n : /\ news[i].offset = at /\ news[i].size = union[i].size
                            /\ cnews[i].at = c /\ cnews[i].line = cUnion[i]
      BY <1>13
    <3>3. \A i \in 1 .. n : union[i].size = Bytes(CBits(cUnion[i]))
      BY <1>5
    <3> QED BY <1>16, <2>1, <3>1, <3>2, <3>3 DEF Matches
  <2> QED BY <1>1, <1>14, <1>15, <1>16, <2>1, <2>2, MatchesMore DEF Typed
<1>21. UnionAsC' /\ SizeAsC'
  BY <1>14, <1>15 DEF UnionAsC, SizeAsC
<1> QED BY <1>17, <1>19, <1>20, <1>21 DEF LayoutInv

LEMMA UnionMemberInv ==
  ASSUME LayoutInv, NEW l \in Lines, UnionMember(l)
  PROVE  LayoutInv'
<1>1. PICK m \in Unplaced : m = LayoutMember(l)
  BY MemberAsC
<1>2. Typed /\ UnionAsC /\ union \in Seq(Unplaced) /\ cUnion \in Seq(Lines)
  BY DEF LayoutInv, Typed
<1>3. PICK n \in Nat : n = Len(union) /\ n = Len(cUnion)
  BY <1>2 DEF UnionAsC
<1>4. /\ union' = Append(union, m) /\ cUnion' = Append(cUnion, l)
      /\ UNCHANGED <<fields, off, alignMax, total, layout, cFields, cOff, cAlign, asRead>>
      /\ layout = "reading"
  BY <1>1 DEF UnionMember, Reading
<1>5. /\ union' \in Seq(Unplaced) /\ Len(union') = n + 1 /\ DOMAIN union' = 1 .. n + 1
      /\ union'[n + 1] = m /\ \A i \in 1 .. n : union'[i] = union[i]
  <2>1. /\ Len(Append(union, m)) = Len(union) + 1
        /\ Append(union, m)[Len(union) + 1] = m
        /\ \A i \in 1 .. Len(union) : Append(union, m)[i] = union[i]
    BY <1>2, AppendFacts, ZenonT(60)
  <2>2. Len(union') = n + 1 /\ union'[n + 1] = m /\ \A i \in 1 .. n : union'[i] = union[i]
    BY <1>3, <1>4, <2>1, Zenon
  <2>3. union' \in Seq(Unplaced)
    BY <1>2, <1>4
  <2>4. DOMAIN union' = 1 .. n + 1
    BY <2>2, <2>3, DomainFacts, ZenonT(60)
  <2> QED BY <2>2, <2>3, <2>4
<1>6. /\ cUnion' \in Seq(Lines) /\ Len(cUnion') = n + 1
      /\ cUnion'[n + 1] = l /\ \A i \in 1 .. n : cUnion'[i] = cUnion[i]
  <2>1. /\ Len(Append(cUnion, l)) = Len(cUnion) + 1
        /\ Append(cUnion, l)[Len(cUnion) + 1] = l
        /\ \A i \in 1 .. Len(cUnion) : Append(cUnion, l)[i] = cUnion[i]
    BY <1>2, AppendFacts, ZenonT(60)
  <2>2. Len(cUnion') = n + 1 /\ cUnion'[n + 1] = l /\ \A i \in 1 .. n : cUnion'[i] = cUnion[i]
    BY <1>3, <1>4, <2>1, Zenon
  <2>3. cUnion' \in Seq(Lines)
    BY <1>2, <1>4
  <2> QED BY <2>2, <2>3
<1>7. \A i \in 1 .. n + 1 : union'[i] = LayoutMember(cUnion'[i])
  <2> TAKE i \in 1 .. n + 1
  <2>1. CASE i = n + 1
    BY <1>1, <1>5, <1>6, <2>1
  <2>2. CASE i # n + 1
    <3>1. n \in Nat /\ i \in 1 .. n
      BY <2>2
    <3>2. DOMAIN union = 1 .. n
      BY <1>2, <1>3, DomainFacts, ZenonT(60)
    <3>3. union[i] = LayoutMember(cUnion[i])
      BY <1>2, <3>1, <3>2 DEF UnionAsC
    <3> QED BY <1>5, <1>6, <3>1, <3>3, Zenon
  <2> QED BY <2>1, <2>2
<1>8. UnionAsC'
  BY <1>5, <1>6, <1>7 DEF UnionAsC
<1>9. Typed'
  BY <1>2, <1>4, <1>5, <1>6 DEF Typed
<1>10. OffAsC' /\ LaidOutAsC' /\ SizeAsC'
  BY <1>4 DEF LayoutInv, OffAsC, LaidOutAsC, SizeAsC
<1> QED BY <1>8, <1>9, <1>10 DEF LayoutInv

(* Only the end of the struct sets its size. *)
LEMMA EndStructInv ==
  ASSUME LayoutInv, EndStruct
  PROVE  LayoutInv'
<1>1. /\ Typed /\ off \in Nat /\ alignMax \in SizesOfInt /\ cOff \in Nat /\ cAlign \in SizesOfInt
  BY DEF LayoutInv, Typed
<1>2. /\ total' = RoundUp(off, alignMax)
      /\ UNCHANGED <<fields, off, alignMax, union, inUnion, cFields, cOff, cAlign, cUnion, asRead>>
  BY DEF EndStruct, cVars
<1>3. Typed'
  BY <1>1, <1>2, ByteRoundUp DEF Typed
<1>4. SizeAsC'
  <2>1. ASSUME asRead' PROVE 8 * total' = CSize'
    <3>1. off = Bytes(cOff) /\ alignMax = cAlign
      BY <1>2, <2>1 DEF LayoutInv, OffAsC
    <3>2. NextMultiple(cOff, 8 * cAlign) = 8 * RoundUp(Bytes(cOff), cAlign)
      BY <1>1, MultipleFacts
    <3>3. CSize' = NextMultiple(cOff, 8 * cAlign)
      BY <1>2 DEF CSize
    <3> QED BY <1>2, <3>1, <3>2, <3>3
  <2> QED BY <2>1 DEF SizeAsC
<1>5. UnionAsC' /\ OffAsC' /\ LaidOutAsC'
  BY <1>2 DEF LayoutInv, UnionAsC, OffAsC, LaidOutAsC
<1> QED BY <1>3, <1>4, <1>5 DEF LayoutInv

LEMMA LayoutInvInit == LayoutInit => LayoutInv
<1> SUFFICES ASSUME LayoutInit PROVE LayoutInv
  OBVIOUS
<1>1. Typed
  BY DEF LayoutInit, Typed, SizesOfInt
<1>2. UnionAsC /\ LaidOutAsC /\ SizeAsC
  BY DEF LayoutInit, UnionAsC, LaidOutAsC, SizeAsC
<1>3. OffAsC
  BY SMTT(60) DEF LayoutInit, OffAsC, Bytes
<1> QED BY <1>1, <1>2, <1>3 DEF LayoutInv

(* A step that leaves the layouts alone, finished or not. *)
LEMMA LayoutInvStays ==
  ASSUME LayoutInv, UNCHANGED <<fields, off, alignMax, union, total, cVars>>,
         layout' = layout \/ layout' # "done"
  PROVE  LayoutInv'
<1>1. CSize' = CSize
  BY DEF CSize, cVars
<1>2. Typed' /\ UnionAsC' /\ OffAsC' /\ LaidOutAsC'
  BY DEF LayoutInv, Typed, UnionAsC, OffAsC, LaidOutAsC, cVars
<1>3. SizeAsC'
  BY <1>1 DEF LayoutInv, SizeAsC, cVars
<1> QED BY <1>2, <1>3 DEF LayoutInv

LEMMA LayoutInvNext == LayoutInv /\ [LayoutNext]_layoutVars => LayoutInv'
<1> SUFFICES ASSUME LayoutInv, [LayoutNext]_layoutVars PROVE LayoutInv'
  OBVIOUS
<1>1. ASSUME NEW l \in Lines, StructMember(l) PROVE LayoutInv'
  BY <1>1, StructMemberInv
<1>2. ASSUME NEW l \in Lines, UnionMember(l) PROVE LayoutInv'
  BY <1>2, UnionMemberInv
<1>3. CASE OpenUnion
  <2>1. /\ union' = <<>> /\ cUnion' = <<>> /\ layout' = "reading"
        /\ UNCHANGED <<fields, off, alignMax, total, cFields, cOff, cAlign, asRead>>
    BY <1>3 DEF OpenUnion, Reading
  <2>2. Typed'
    BY <2>1 DEF LayoutInv, Typed
  <2>3. UnionAsC' /\ OffAsC' /\ LaidOutAsC' /\ SizeAsC'
    BY <2>1 DEF LayoutInv, UnionAsC, OffAsC, LaidOutAsC, SizeAsC
  <2> QED BY <2>2, <2>3 DEF LayoutInv
<1>4. CASE CloseUnion
  BY <1>4, CloseUnionInv
<1>5. ASSUME NEW l \in Lines, Refuse(l) PROVE LayoutInv'
  BY <1>5, LayoutInvStays DEF Refuse
<1>6. CASE EndStruct
  BY <1>6, EndStructInv
<1>7. CASE UNCHANGED layoutVars
  BY <1>7, LayoutInvStays DEF layoutVars
<1> QED BY <1>1, <1>2, <1>3, <1>4, <1>5, <1>6, <1>7 DEF LayoutNext

LEMMA LayoutInvHolds == LayoutSpec => []LayoutInv
  BY LayoutInvInit, LayoutInvNext, PTL DEF LayoutSpec

(* However many lines of whatever sizes a struct has, with or without unions, *)
(* as long as C puts each bit-field at the next free byte and ends each union *)
(* where its largest member ends, every field is where C puts it              *)
(* (layout_struct).                                                           *)
THEOREM OffsetsAsC == LayoutSpec => []LaidOutAsC
<1>1. LayoutInv => LaidOutAsC
  BY DEF LayoutInv
<1> QED BY <1>1, LayoutInvHolds, PTL

(* And of such a struct the size is C's (layout_struct's total).              *)
THEOREM TotalAsC == LayoutSpec => []SizeAsC
<1>1. LayoutInv => SizeAsC
  BY DEF LayoutInv
<1> QED BY <1>1, LayoutInvHolds, PTL

-----------------------------------------------------------------------------
(* The bodies of functions: labels and what their texts do. *)

Labels == Helpers \cup {"default"}
Item == [label : Labels, text : {"fall", "proto", "null", "nested", "call"},
         what : Protos \cup Fns \cup {None}]
Case == Helpers \X Protos
Table == [cases : Seq(Case), fallback : Fns \cup {None}]

(* A text that returns a proto names one, one that returns nothing none; the  *)
(* default alone calls, and it falls through to nothing.                      *)
Formed(item, f) ==
  /\ item.text \in {"proto", "nested"} => item.what \in Protos /\ item.label # "default"
  /\ item.text \in {"fall", "null"} => item.what = None
  /\ item.text = "fall" => item.label # "default"
  /\ item.text = "call" => item.what \in 1 .. f - 1 /\ item.label = "default"
Body(items, f) ==
  /\ items \in Seq(Item)
  /\ \A k \in 1 .. Len(items) : Formed(items[k], f)
  /\ \A k, l \in 1 .. Len(items) : items[k].label = items[l].label => k = l

(* Control that enters at the i-th label stops at the s-th's text. *)
StopAt(items, i, s) ==
  /\ i \in 1 .. Len(items) /\ s \in i .. Len(items) /\ items[s].text # "fall"
  /\ \A k \in i .. s - 1 : items[k].text = "fall"

(* The cases parsed are the labels that return a proto, by whatever falls     *)
(* through; the fallback is what the default calls.                           *)
CaseOf(items, i, s) == <<items[i].label, items[s].what>>
CasesAre(cs, items) ==
  /\ \A k \in DOMAIN cs : \E i, s \in 1 .. Len(items) :
       StopAt(items, i, s) /\ items[s].text = "proto" /\ cs[k] = CaseOf(items, i, s)
  /\ \A i, s \in 1 .. Len(items) :
       StopAt(items, i, s) /\ items[s].text = "proto" => \E k \in DOMAIN cs : cs[k] = CaseOf(items, i, s)
FallbackIs(g, items) == IF Calls(items) = {} THEN g = None ELSE Calls(items) = {g}

(* The labels waiting are the last ones, that fall through to the end. *)
Waits(labels, items, m) ==
  /\ m \in 0 .. Len(items) /\ Len(labels) = Len(items) - m
  /\ m > 0 => items[m].text # "fall"
  /\ \A k \in 1 .. Len(labels) : items[m + k].text = "fall" /\ items[m + k].label = labels[k]
PendingIs(labels, items) == \E m \in 0 .. Len(items) : Waits(labels, items, m)

LEMMA AppendItem ==
  ASSUME NEW f, NEW items, Body(items, f), NEW item \in Item, Formed(item, f),
         \A k \in 1 .. Len(items) : items[k].label # item.label
  PROVE  /\ Body(Append(items, item), f)
         /\ Len(items) \in Nat /\ Len(Append(items, item)) = Len(items) + 1
         /\ \A k \in 1 .. Len(items) : Append(items, item)[k] = items[k]
         /\ Append(items, item)[Len(items) + 1] = item
<1>1. items \in Seq(Item)
  BY DEF Body
<1>2. PICK t : t = Append(items, item)
  OBVIOUS
<1>3. /\ Len(items) \in Nat /\ Len(t) = Len(items) + 1 /\ t \in Seq(Item)
      /\ \A k \in 1 .. Len(items) : t[k] = items[k]
      /\ t[Len(items) + 1] = item
  BY <1>1, <1>2
<1>4. Body(t, f)
  BY <1>3, SMTT(60) DEF Body
<1> QED BY <1>2, <1>3, <1>4

(* One label more. *)
More(t, items, item) ==
  /\ Len(items) \in Nat /\ Len(t) = Len(items) + 1
  /\ \A k \in 1 .. Len(items) : t[k] = items[k]
  /\ t[Len(items) + 1] = item

LEMMA StopsOfMore ==
  ASSUME NEW items, NEW item, NEW t, More(t, items, item), NEW i \in Int, NEW s \in Int
  PROVE  /\ s <= Len(items) => (StopAt(t, i, s) <=> StopAt(items, i, s))
         /\ s = Len(items) + 1 =>
              (StopAt(t, i, s) <=> /\ item.text # "fall" /\ i \in 1 .. Len(items) + 1
                                   /\ \A k \in i .. Len(items) : items[k].text = "fall")
  BY SMTT(60) DEF More, StopAt

(* Nothing but a proto adds to the cases. *)
LEMMA CasesStay ==
  ASSUME NEW items, NEW item, NEW t, More(t, items, item), NEW cs, CasesAre(cs, items),
         item.text # "proto"
  PROVE  CasesAre(cs, t)
<1>1. \A i, s \in 1 .. Len(items) : StopAt(t, i, s) <=> StopAt(items, i, s)
  BY StopsOfMore DEF More
<1>2. ASSUME NEW i \in 1 .. Len(t), NEW s \in 1 .. Len(t), StopAt(t, i, s), t[s].text = "proto"
      PROVE  i \in 1 .. Len(items) /\ s \in 1 .. Len(items)
  BY <1>2 DEF More, StopAt
<1>3. \A i, s \in 1 .. Len(items) : /\ i \in 1 .. Len(t) /\ s \in 1 .. Len(t)
                                    /\ CaseOf(t, i, s) = CaseOf(items, i, s) /\ t[s] = items[s]
  BY DEF More, CaseOf
<1>4. ASSUME NEW k \in DOMAIN cs
      PROVE  \E i, s \in 1 .. Len(t) : StopAt(t, i, s) /\ t[s].text = "proto" /\ cs[k] = CaseOf(t, i, s)
  <2>1. PICK i \in 1 .. Len(items), s \in 1 .. Len(items) :
          StopAt(items, i, s) /\ items[s].text = "proto" /\ cs[k] = CaseOf(items, i, s)
    BY DEF CasesAre
  <2> QED BY <1>1, <1>3, <2>1
<1>5. ASSUME NEW i \in 1 .. Len(t), NEW s \in 1 .. Len(t), StopAt(t, i, s), t[s].text = "proto"
      PROVE  \E k \in DOMAIN cs : cs[k] = CaseOf(t, i, s)
  <2>1. i \in 1 .. Len(items) /\ s \in 1 .. Len(items)
    BY <1>2, <1>5
  <2>2. StopAt(items, i, s) /\ items[s].text = "proto" /\ CaseOf(t, i, s) = CaseOf(items, i, s)
    BY <1>1, <1>3, <1>5, <2>1
  <2> QED BY <2>1, <2>2 DEF CasesAre
<1> QED BY <1>4, <1>5 DEF CasesAre

(* A proto is every waiting label's. *)
LEMMA CasesGrow ==
  ASSUME NEW items, NEW item, NEW t, More(t, items, item), NEW cs \in Seq(Case), CasesAre(cs, items),
         item \in Item, item.text = "proto", item.what \in Protos, item.label \in Helpers,
         NEW labels \in Seq(Helpers), PendingIs(labels, items)
  PROVE  /\ cs \o CasesOf(Append(labels, item.label), item.what) \in Seq(Case)
         /\ CasesAre(cs \o CasesOf(Append(labels, item.label), item.what), t)
<1>1. PICK n \in Nat : n = Len(items) /\ Len(t) = n + 1 /\ t[n + 1] = item
                       /\ \A k \in 1 .. n : t[k] = items[k]
  BY DEF More
<1>2. PICK m \in 0 .. n : Waits(labels, items, m)
  BY <1>1 DEF PendingIs
<1>3. PICK q \in Nat : /\ q = n - m /\ q = Len(labels)
                       /\ \A k \in 1 .. q : items[m + k].text = "fall" /\ items[m + k].label = labels[k]
  <2>1. Len(labels) = n - m /\ n - m \in Nat
    BY <1>1, <1>2 DEF Waits
  <2>2. \A k \in 1 .. Len(labels) : items[m + k].text = "fall" /\ items[m + k].label = labels[k]
    BY <1>2 DEF Waits
  <2> QED BY <2>1, <2>2
<1>4. PICK l \in Seq(Helpers) : l = Append(labels, item.label)
  BY AppendProperties
<1>5. Len(l) = q + 1 /\ l[q + 1] = item.label /\ \A k \in 1 .. q : l[k] = labels[k]
  <2>1. Len(labels) = q
    BY <1>3
  <2> QED BY <1>4, <2>1, AppendProperties
<1>6. PICK new \in Seq(Case) : /\ new = CasesOf(l, item.what) /\ Len(new) = q + 1
                               /\ \A k \in 1 .. q + 1 : new[k] = <<l[k], item.what>>
  <2>1. DOMAIN l = 1 .. q + 1 /\ \A k \in 1 .. q + 1 : l[k] \in Helpers
    BY <1>5
  <2>2. CasesOf(l, item.what) = [k \in 1 .. q + 1 |-> <<l[k], item.what>>]
    BY <2>1 DEF CasesOf
  <2>3. \A k \in 1 .. q + 1 : <<l[k], item.what>> \in Case
    BY <2>1 DEF Case
  <2>4. PICK new \in [1 .. q + 1 -> Case] : new = [k \in 1 .. q + 1 |-> <<l[k], item.what>>]
    BY <2>3
  <2>5. new \in Seq(Case) /\ Len(new) = q + 1
    BY <2>4, SeqDef
  <2> QED BY <2>2, <2>4, <2>5
<1>7. \A k \in 1 .. q + 1 : t[m + k].label = l[k] /\ m + k \in 1 .. n + 1
  <2> TAKE k \in 1 .. q + 1
  <2>1. CASE k = q + 1
    BY <1>1, <1>3, <1>5, <2>1, SMTT(60)
  <2>2. CASE k # q + 1
    <3>1. k \in 1 .. q /\ m + k \in 1 .. n
      BY <1>3, <2>2, SMTT(60)
    <3> QED BY <1>1, <1>3, <1>5, <3>1, SMTT(60)
  <2> QED BY <2>1, <2>2
<1>8. PICK c \in Nat : c = Len(cs) /\ DOMAIN cs = 1 .. c
  BY LenProperties
<1>9. PICK all \in Seq(Case) : /\ all = cs \o new /\ DOMAIN all = 1 .. c + (q + 1)
                               /\ \A k \in 1 .. c : all[k] = cs[k]
                               /\ \A k \in 1 .. q + 1 : all[c + k] = new[k]
  <2>1. PICK p \in Nat : p = q + 1 /\ Len(new) = p
    BY <1>6
  <2>2. PICK u : u = cs \o new
    OBVIOUS
  <2>3. cs \in Seq(Case) /\ new \in Seq(Case) /\ u \in Seq(Case)
    BY <1>6, <2>2
  <2>4. /\ Len(cs \o new) = Len(cs) + Len(new)
        /\ \A k \in 1 .. Len(cs) : (cs \o new)[k] = cs[k]
        /\ \A k \in 1 .. Len(new) : (cs \o new)[Len(cs) + k] = new[k]
    BY <2>3, ConcatFacts, SMTT(60)
  <2>5. /\ Len(u) = c + p
        /\ \A k \in 1 .. c : u[k] = cs[k]
        /\ \A k \in 1 .. p : u[c + k] = new[k]
    BY <1>8, <2>1, <2>2, <2>4, Zenon
  <2>6. DOMAIN u = 1 .. c + p
    BY <2>3, <2>5, DomainFacts, Zenon
  <2> QED BY <2>1, <2>2, <2>3, <2>5, <2>6
<1>10. ASSUME NEW k \in DOMAIN all
       PROVE  \E i, s \in 1 .. Len(t) :
                StopAt(t, i, s) /\ t[s].text = "proto" /\ all[k] = CaseOf(t, i, s)
  <2>1. CASE k \in 1 .. c
    <3>1. PICK i \in 1 .. n, s \in 1 .. n :
            StopAt(items, i, s) /\ items[s].text = "proto" /\ cs[k] = CaseOf(items, i, s)
      BY <1>1, <1>8, <2>1 DEF CasesAre
    <3>2. StopAt(t, i, s) /\ t[s] = items[s] /\ CaseOf(t, i, s) = CaseOf(items, i, s)
      BY <1>1, <3>1, StopsOfMore, SMTT(60) DEF CaseOf
    <3>3. i \in 1 .. Len(t) /\ s \in 1 .. Len(t) /\ all[k] = cs[k]
      BY <1>1, <1>9, <2>1, SMTT(60)
    <3> QED BY <3>1, <3>2, <3>3
  <2>2. CASE k \notin 1 .. c
    <3>1. PICK d \in 1 .. q + 1 : k = c + d
      <4>1. k - c \in 1 .. q + 1 /\ k = c + (k - c)
        BY <1>9, <2>2, SMTT(60)
      <4> QED BY <4>1
    <3>2. m + d \in 1 .. n + 1 /\ \A x \in m + d .. n : items[x].text = "fall"
      <4>1. m + d \in 1 .. n + 1
        BY <1>7
      <4>2. ASSUME NEW x \in m + d .. n PROVE items[x].text = "fall"
        <5>1. x - m \in 1 .. q /\ m + (x - m) = x
          BY <1>3
        <5> QED BY <1>3, <5>1
      <4> QED BY <4>1, <4>2
    <3>3. StopAt(t, m + d, n + 1)
      BY <1>1, <3>2, StopsOfMore, SMTT(60)
    <3>4. all[k] = CaseOf(t, m + d, n + 1)
      BY <1>1, <1>6, <1>7, <1>9, <3>1, ZenonT(60) DEF CaseOf
    <3>5. m + d \in 1 .. Len(t) /\ n + 1 \in 1 .. Len(t) /\ t[n + 1].text = "proto"
      BY <1>1, <3>2
    <3> QED BY <3>3, <3>4, <3>5
  <2> QED BY <2>1, <2>2
<1>11. ASSUME NEW i \in 1 .. Len(t), NEW s \in 1 .. Len(t), StopAt(t, i, s), t[s].text = "proto"
       PROVE  \E k \in DOMAIN all : all[k] = CaseOf(t, i, s)
  <2>1. CASE s <= n
    <3>1. StopAt(items, i, s) /\ i \in 1 .. n /\ s \in 1 .. n
      <4>1. StopAt(items, i, s)
        BY <1>1, <1>11, <2>1, StopsOfMore
      <4> QED BY <1>1, <2>1, <4>1, SMTT(60) DEF StopAt
    <3>2. t[i] = items[i] /\ t[s] = items[s] /\ CaseOf(t, i, s) = CaseOf(items, i, s)
      BY <1>1, <3>1 DEF CaseOf
    <3>3. PICK k \in DOMAIN cs : cs[k] = CaseOf(items, i, s)
      BY <1>1, <1>11, <3>1, <3>2 DEF CasesAre
    <3> QED BY <1>8, <1>9, <3>2, <3>3, SMTT(60)
  <2>2. CASE s = n + 1
    <3>1. i \in 1 .. n + 1 /\ \A k \in i .. n : items[k].text = "fall"
      BY <1>1, <1>11, <2>2, StopsOfMore, SMTT(60)
    <3>2. m < i
      <4>1. m > 0 => items[m].text # "fall"
        BY <1>2 DEF Waits
      <4>2. m >= i => m \in i .. n
        BY <3>1
      <4> QED BY <3>1, <4>1, <4>2, SMTT(60)
    <3>3. PICK d \in 1 .. q + 1 : i = m + d
      <4>1. i - m \in 1 .. q + 1 /\ i = m + (i - m)
        BY <1>3, <3>1, <3>2
      <4> QED BY <4>1
    <3>4. all[c + d] = CaseOf(t, i, s) /\ c + d \in DOMAIN all
      <4>1. all[c + d] = new[d] /\ c + d \in DOMAIN all
        BY <1>8, <1>9, SMTT(60)
      <4>2. new[d] = <<t[i].label, item.what>>
        BY <1>6, <1>7, <3>3
      <4> QED BY <1>1, <2>2, <4>1, <4>2 DEF CaseOf
    <3> QED BY <3>4
  <2>3. s \in Nat /\ s <= n + 1
    BY <1>1, <1>11
  <2> QED BY <2>1, <2>2, <2>3
<1> QED BY <1>4, <1>6, <1>9, <1>10, <1>11, ZenonT(60) DEF CasesAre

(* What a label's text leaves waiting. *)
LEMMA NoneWait ==
  ASSUME NEW items, NEW item, NEW t, More(t, items, item), item.text # "fall"
  PROVE  PendingIs(<<>>, t)
<1>1. Waits(<<>>, t, Len(items) + 1)
  BY DEF Waits, More
<1>2. Len(items) + 1 \in 0 .. Len(t)
  BY DEF More
<1> QED BY <1>1, <1>2 DEF PendingIs

LEMMA OneMoreWaits ==
  ASSUME NEW items, NEW item, NEW t, More(t, items, item), item.text = "fall",
         item.label \in Helpers,
         NEW labels \in Seq(Helpers), PendingIs(labels, items)
  PROVE  PendingIs(Append(labels, item.label), t)
<1>1. PICK n \in Nat : n = Len(items) /\ Len(t) = n + 1 /\ t[n + 1] = item
                       /\ \A k \in 1 .. n : t[k] = items[k]
  BY DEF More
<1>2. PICK m \in 0 .. n : Waits(labels, items, m)
  BY <1>1 DEF PendingIs
<1>3. PICK l \in Seq(Helpers) : l = Append(labels, item.label)
  BY AppendProperties
<1>4. PICK q \in Nat : /\ q = n - m /\ q = Len(labels) /\ Len(l) = q + 1 /\ l[q + 1] = item.label
                       /\ \A k \in 1 .. q : l[k] = labels[k]
  <2>1. Len(labels) = n - m /\ n - m \in Nat
    BY <1>1, <1>2 DEF Waits
  <2> QED BY <1>3, <2>1, AppendProperties
<1>5. ASSUME NEW k \in 1 .. q + 1 PROVE t[m + k].text = "fall" /\ t[m + k].label = l[k]
  <2>1. CASE k = q + 1
    BY <1>1, <1>4, <2>1, SMTT(60)
  <2>2. CASE k # q + 1
    <3>1. k \in 1 .. q /\ m + k \in 1 .. n
      BY <1>4, <2>2, SMTT(60)
    <3> QED BY <1>1, <1>2, <1>4, <3>1 DEF Waits
  <2> QED BY <2>1, <2>2
<1>6. m > 0 => t[m].text # "fall"
  BY <1>1, <1>2 DEF Waits
<1>7. m \in 0 .. Len(t) /\ Waits(l, t, m)
  <2>1. m \in 0 .. Len(t) /\ Len(l) = Len(t) - m
    <3>1. m \in Nat /\ m <= n
      OBVIOUS
    <3>2. Len(l) = (n - m) + 1 /\ Len(t) = n + 1
      BY <1>1, <1>4
    <3> QED BY <3>1, <3>2
  <2>2. \A k \in 1 .. Len(l) : t[m + k].text = "fall" /\ t[m + k].label = l[k]
    BY <1>4, <1>5
  <2> QED BY <1>6, <2>1, <2>2 DEF Waits
<1> QED BY <1>3, <1>7 DEF PendingIs

LEMMA CallsOfMore ==
  ASSUME NEW items \in Seq(Item), NEW item, NEW t \in Seq(Item), More(t, items, item)
  PROVE  Calls(t) = Calls(items) \cup (IF item.text = "call" THEN {item.what} ELSE {})
<1>1. DOMAIN t = 1 .. Len(items) + 1 /\ DOMAIN items = 1 .. Len(items)
  BY DEF More
<1> QED BY <1>1 DEF Calls, More

(* Where control goes in a body that ends: by its label to the text it falls  *)
(* through to, without one to the default; behind the switch without either.  *)
Ends(items) == Len(items) > 0 => items[Len(items)].text # "fall"

LEMMA DispatchFacts ==
  ASSUME NEW f, NEW items, Body(items, f), Ends(items), NEW h \in Helpers
  PROVE  /\ Dispatch(items, h) \in 0 .. Len(items)
         /\ Dispatch(items, h) = 0 =>
              \A k \in 1 .. Len(items) : items[k].label \notin {h, "default"}
         /\ Dispatch(items, h) # 0 => \E e \in 1 .. Len(items) :
              /\ StopAt(items, e, Dispatch(items, h))
              /\ \/ items[e].label = h
                 \/ /\ items[e].label = "default" /\ e = Dispatch(items, h)
                    /\ \A k \in 1 .. Len(items) : items[k].label # h
<1>1. PICK n \in Nat : n = Len(items) /\ DOMAIN items = 1 .. n
  BY LenProperties DEF Body
<1> DEFINE at(l) == {i \in DOMAIN items : items[i].label = l}
           entry == IF at(h) # {} THEN at(h) ELSE at("default")
           stops == {i \in DOMAIN items : items[i].text # "fall" /\ \E e \in entry : e <= i}
<1>2. Dispatch(items, h) =
        IF entry = {} \/ stops = {} THEN 0 ELSE CHOOSE i \in stops : \A j \in stops : i <= j
  BY DEF Dispatch
<1>3. /\ entry \subseteq 1 .. n /\ stops \subseteq 1 .. n
      /\ entry = {} => \A k \in 1 .. n : items[k].label \notin {h, "default"}
      /\ entry # {} => n \in stops
  <2>1. entry \subseteq 1 .. n /\ stops \subseteq 1 .. n
    BY <1>1
  <2>2. entry = {} => \A k \in 1 .. n : items[k].label \notin {h, "default"}
    BY <1>1
  <2>3. entry # {} => n \in stops
    <3> SUFFICES ASSUME NEW e \in entry PROVE n \in stops
      OBVIOUS
    <3>1. e \in 1 .. n
      BY <2>1
    <3>2. n \in 1 .. n /\ e <= n /\ items[n].text # "fall"
      BY <1>1, <3>1 DEF Ends
    <3> QED BY <1>1, <3>2
  <2> QED BY <2>1, <2>2, <2>3
<1>4. CASE entry = {}
  BY <1>1, <1>2, <1>3, <1>4
<1>5. CASE entry # {}
  <2>1. stops # {} /\ stops \subseteq Nat
    BY <1>3, <1>5
  <2>2. \E i \in stops : \A j \in stops : i <= j
    <3> HIDE DEF stops
    <3> QED BY <2>1, LeastElement
  <2>3. PICK s \in stops : s = Dispatch(items, h) /\ \A j \in stops : s <= j
    <3> HIDE DEF stops
    <3> QED BY <1>2, <1>5, <2>1, <2>2
  <2>4. s \in 1 .. n /\ items[s].text # "fall"
    BY <1>3, <2>3
  <2>5. PICK e \in entry : e <= s
    BY <2>3
  <2>6. e \in 1 .. n
    BY <1>3
  <2>7. ASSUME NEW k \in e .. s - 1 PROVE items[k].text = "fall"
    <3>1. k \in DOMAIN items /\ e <= k /\ ~(s <= k)
      BY <1>1, <2>4, <2>6
    <3>2. k \notin stops
      BY <2>3, <3>1
    <3> QED BY <2>5, <3>1, <3>2
  <2>8. StopAt(items, e, s)
    BY <1>1, <2>4, <2>5, <2>6, <2>7 DEF StopAt
  <2>9. CASE items[e].label = h
    BY <1>1, <2>3, <2>4, <2>6, <2>8, <2>9
  <2>10. CASE items[e].label # h
    <3>1. at(h) = {} /\ items[e].label = "default"
      BY <2>5, <2>10
    <3>2. items[e].text # "fall"
      BY <1>1, <2>6, <3>1 DEF Body, Formed
    <3>3. e = s
      <4>1. e \in stops
        BY <1>1, <2>5, <2>6, <3>2
      <4> QED BY <2>3, <2>4, <2>5, <2>6, <4>1
    <3> QED BY <1>1, <2>3, <2>4, <2>6, <2>8, <3>1, <3>3
  <2> QED BY <2>9, <2>10
<1> QED BY <1>4, <1>5

LEMMA FirstCaseFacts ==
  ASSUME NEW cs \in Seq(Case), NEW h
  PROVE  \/ /\ FirstCase(cs, h) = None /\ \A k \in DOMAIN cs : cs[k][1] # h
         \/ \E k \in DOMAIN cs : cs[k][1] = h /\ FirstCase(cs, h) = cs[k][2]
<1> DEFINE at == {i \in DOMAIN cs : cs[i][1] = h}
<1>1. FirstCase(cs, h) = IF at = {} THEN None ELSE cs[CHOOSE i \in at : \A j \in at : i <= j][2]
  BY DEF FirstCase
<1>2. at \subseteq Nat
  BY LenProperties
<1>3. at # {} => \E i \in at : \A j \in at : i <= j
  <2> HIDE DEF at
  <2> QED BY <1>2, LeastElement
<1>4. CASE at = {}
  BY <1>1, <1>4
<1>5. CASE at # {}
  <2>1. PICK i \in at : FirstCase(cs, h) = cs[i][2]
    <3> HIDE DEF at
    <3> QED BY <1>1, <1>3, <1>5
  <2> QED BY <2>1
<1> QED BY <1>4, <1>5

(* Two stops of one label are one. *)
LEMMA OneStop ==
  ASSUME NEW items, Len(items) \in Nat, NEW i \in Int, NEW s \in Int, NEW u \in Int,
         StopAt(items, i, s), StopAt(items, i, u)
  PROVE  s = u
<1>1. \A x, y \in Int : StopAt(items, i, x) /\ StopAt(items, i, y) => ~(x < y)
  BY DEF StopAt
<1> QED BY <1>1

(* What a parsed body's table says of a helper: the proto its label stops at, *)
(* and nothing for any other.                                                 *)
LEMMA CaseIs ==
  ASSUME NEW f, NEW items, Body(items, f), Ends(items), NEW h \in Helpers,
         NEW cs \in Seq(Case), CasesAre(cs, items), NEW i, i = Dispatch(items, h)
  PROVE  IF i # 0 /\ items[i].text = "proto" THEN FirstCase(cs, h) = items[i].what
         ELSE FirstCase(cs, h) = None
<1>1. PICK n \in Nat : n = Len(items) /\ DOMAIN items = 1 .. n
  BY LenProperties DEF Body
<1>2. PICK r : r = FirstCase(cs, h)
  OBVIOUS
<1>3. ASSUME NEW e \in 1 .. n, NEW s \in 1 .. n, StopAt(items, e, s), items[s].text = "proto",
             items[e].label = h
      PROVE  i = s /\ i # 0
  <2>1. i # 0
    BY <1>1, <1>3, DispatchFacts
  <2>2. PICK d \in 1 .. n : StopAt(items, d, i) /\ items[d].label = h
    BY <1>1, <1>3, <2>1, DispatchFacts
  <2>3. d = e
    BY <1>1, <1>3, <2>2 DEF Body
  <2>4. i \in 0 .. n
    BY <1>1, DispatchFacts
  <2> QED BY <1>1, <1>3, <2>1, <2>2, <2>3, <2>4, OneStop
<1>4. CASE i # 0 /\ items[i].text = "proto"
  <2>1. i \in 1 .. n
    BY <1>1, <1>4, DispatchFacts
  <2>2. PICK e \in 1 .. n : StopAt(items, e, i) /\ items[e].label \in {h, "default"}
                            /\ (items[e].label = "default" => e = i)
    BY <1>1, <1>4, DispatchFacts, ProtoFnsAssumption
  <2>3. items[e].label = h
    BY <1>1, <1>4, <2>2 DEF Body, Formed
  <2>4. PICK k \in DOMAIN cs : cs[k] = CaseOf(items, e, i)
    BY <1>1, <1>4, <2>1, <2>2 DEF CasesAre
  <2>5. cs[k][1] = h
    BY <2>3, <2>4 DEF CaseOf
  <2>6. PICK l \in DOMAIN cs : cs[l][1] = h /\ r = cs[l][2]
    BY <1>2, <2>5, FirstCaseFacts
  <2>7. PICK d \in 1 .. n, s \in 1 .. n :
          StopAt(items, d, s) /\ items[s].text = "proto" /\ cs[l] = CaseOf(items, d, s)
    BY <1>1 DEF CasesAre
  <2>8. items[d].label = h /\ r = items[s].what
    BY <2>6, <2>7 DEF CaseOf
  <2>9. i = s
    BY <1>3, <2>7, <2>8
  <2> QED BY <1>2, <1>4, <2>8, <2>9
<1>5. CASE ~(i # 0 /\ items[i].text = "proto")
  <2>1. ASSUME NEW k \in DOMAIN cs, cs[k][1] = h PROVE FALSE
    <3>1. PICK d \in 1 .. n, s \in 1 .. n :
            StopAt(items, d, s) /\ items[s].text = "proto" /\ cs[k] = CaseOf(items, d, s)
      BY <1>1 DEF CasesAre
    <3>2. items[d].label = h
      BY <2>1, <3>1 DEF CaseOf
    <3> QED BY <1>3, <1>5, <3>1, <3>2
  <2>2. r = None
    BY <1>2, <2>1, FirstCaseFacts
  <2> QED BY <1>2, <1>5, <2>2
<1> QED BY <1>4, <1>5

-----------------------------------------------------------------------------
(* What is computed of a function from what was of those it asks, one of two  *)
(* before it each, has a value for every function.                            *)
Asks(n, V, x, y, step, base) ==
  /\ n \in Nat /\ None \notin 1 .. n /\ base \in V
  /\ x \in [1 .. n -> {None} \cup 1 .. n] /\ y \in [1 .. n -> {None} \cup 1 .. n]
  /\ \A g \in 1 .. n : x[g] \in {None} \cup 1 .. g - 1 /\ y[g] \in {None} \cup 1 .. g - 1
  /\ step \in [1 .. n -> [V -> [V -> V]]]
Answers(v, n, V, x, y, step, base, m) ==
  /\ v \in [{None} \cup 1 .. n -> V] /\ v[None] = base
  /\ \A g \in 1 .. m : v[g] = step[g][v[x[g]]][v[y[g]]]

LEMMA AnswersExist ==
  ASSUME NEW n, NEW V, NEW x, NEW y, NEW step, NEW base, Asks(n, V, x, y, step, base)
  PROVE  \E v : Answers(v, n, V, x, y, step, base, n)
<1> DEFINE Claim(m) == \E v : Answers(v, n, V, x, y, step, base, m)
           S == {m \in Nat : m <= n => Claim(m)}
<1>1. 0 \in S
  <2>1. PICK v : v = [g \in {None} \cup 1 .. n |-> base]
    OBVIOUS
  <2>2. Answers(v, n, V, x, y, step, base, 0)
    BY <2>1 DEF Answers, Asks
  <2> QED BY <2>2
<1>2. ASSUME NEW m \in Nat, m \in S PROVE m + 1 \in S
  <2> SUFFICES ASSUME m + 1 <= n PROVE Claim(m + 1)
    OBVIOUS
  <2>1. n \in Nat /\ m <= n
    BY DEF Asks
  <2>2. PICK v : Answers(v, n, V, x, y, step, base, m)
    BY <1>2, <2>1
  <2>3. PICK r : r = step[m + 1][v[x[m + 1]]][v[y[m + 1]]]
    OBVIOUS
  <2>4. r \in V
    <3>1. m + 1 \in 1 .. n
      BY <2>1
    <3>2. x[m + 1] \in {None} \cup 1 .. n /\ y[m + 1] \in {None} \cup 1 .. n
      BY <3>1 DEF Asks
    <3>3. v[x[m + 1]] \in V /\ v[y[m + 1]] \in V
      BY <2>2, <3>2 DEF Answers
    <3>4. step[m + 1] \in [V -> [V -> V]]
      BY <3>1 DEF Asks
    <3> QED BY <2>3, <3>3, <3>4
  <2>5. PICK w : w = [v EXCEPT ![m + 1] = r]
    OBVIOUS
  <2>6. /\ w \in [{None} \cup 1 .. n -> V]
        /\ w[m + 1] = r /\ \A g \in {None} \cup 1 .. n : g # m + 1 => w[g] = v[g]
    BY <2>1, <2>2, <2>4, <2>5 DEF Answers
  <2>7. w[None] = base
    BY <2>1, <2>2, <2>6 DEF Answers, Asks
  <2>8. ASSUME NEW g \in 1 .. m + 1 PROVE w[g] = step[g][w[x[g]]][w[y[g]]]
    <3>1. g \in 1 .. n
      BY <2>1
    <3>2. x[g] \in {None} \cup 1 .. g - 1 /\ y[g] \in {None} \cup 1 .. g - 1
      BY <3>1 DEF Asks
    <3>3. \A z \in {None} \cup 1 .. g - 1 : w[z] = v[z]
      <4>1. \A z \in {None} \cup 1 .. g - 1 : z \in {None} \cup 1 .. n /\ z # m + 1
        BY <2>1, <3>1 DEF Asks
      <4> QED BY <2>6, <4>1
    <3>4. w[x[g]] = v[x[g]] /\ w[y[g]] = v[y[g]]
      BY <3>2, <3>3, SMTT(60)
    <3>5. CASE g = m + 1
      BY <2>3, <2>6, <3>4, <3>5
    <3>6. CASE g # m + 1
      <4>1. g \in 1 .. m
        BY <3>6
      <4> QED BY <2>2, <2>6, <3>1, <3>4, <3>6, <4>1 DEF Answers
    <3> QED BY <3>5, <3>6
  <2>9. Answers(w, n, V, x, y, step, base, m + 1)
    BY <2>6, <2>7, <2>8 DEF Answers
  <2> QED BY <2>9
<1>3. n \in S
  <2>1. n \in Nat
    BY DEF Asks
  <2> HIDE DEF S
  <2> QED BY <1>1, <1>2, <2>1, SetInduction
<1> QED BY <1>3 DEF Asks

-----------------------------------------------------------------------------
(* The inductive invariant: what was parsed of each function is what C has.   *)

ReadAs(cs, g, items) == CasesAre(cs, items) /\ FallbackIs(g, items)
Code == [before : Fns \cup {None}, items : Seq(Item), after : Fns \cup {None}]
FnTyped ==
  /\ fns \in [Fns -> Table \cup {None}] /\ code \in [Fns -> Code]
  /\ current \in Fns \cup {None} /\ cases \in Seq(Case) /\ fallback \in Fns \cup {None}
  /\ pending \in Seq(Helpers)
Written ==
  \A f \in Fns :
    /\ Body(code[f].items, f)
    /\ code[f].before \in {None} \cup 1 .. f - 1 /\ code[f].after \in {None} \cup 1 .. f - 1
    /\ fns[f] = None /\ f # current => code[f].items = <<>>
ParsedAs ==
  \A f \in Fns : fns[f] # None =>
    f # current /\ ReadAs(fns[f].cases, fns[f].fallback, code[f].items) /\ Ends(code[f].items)
Parsing ==
  current # None =>
    ReadAs(cases, fallback, code[current].items) /\ PendingIs(pending, code[current].items)
FnInv == FnTyped /\ Written /\ ParsedAs /\ Parsing

-----------------------------------------------------------------------------
(* What the recursive functions compute. *)

LEMMA FnsFacts ==
  ASSUME FnInv, Parsed, NEW f \in Fns
  PROVE  /\ f \in Nat /\ f # None /\ None \notin Fns /\ NumFns \in Nat
         /\ Body(code[f].items, f) /\ Ends(code[f].items)
         /\ fns[f].cases \in Seq(Case) /\ CasesAre(fns[f].cases, code[f].items)
         /\ FallbackIs(fns[f].fallback, code[f].items)
         /\ fns[f].fallback \in {None} \cup 1 .. f - 1
         /\ code[f].before \in {None} \cup 1 .. f - 1 /\ code[f].after \in {None} \cup 1 .. f - 1
         /\ Calls(code[f].items) \subseteq 1 .. f - 1
<1>1. f \in Nat /\ f # None /\ None \notin Fns /\ NumFns \in Nat
  BY ProtoFnsAssumption DEF Fns
<1>2. fns[f] # None /\ fns[f] \in Table
  BY DEF FnInv, FnTyped, Parsed
<1>3. /\ Body(code[f].items, f) /\ Ends(code[f].items)
      /\ fns[f].cases \in Seq(Case) /\ CasesAre(fns[f].cases, code[f].items)
      /\ FallbackIs(fns[f].fallback, code[f].items)
      /\ code[f].before \in {None} \cup 1 .. f - 1 /\ code[f].after \in {None} \cup 1 .. f - 1
  BY <1>2 DEF FnInv, Written, ParsedAs, ReadAs, Table
<1>4. Calls(code[f].items) \subseteq 1 .. f - 1
  <2>1. PICK items : items = code[f].items
    OBVIOUS
  <2>2. DOMAIN items = 1 .. Len(items)
    BY <1>3, <2>1, LenProperties DEF Body
  <2>3. \A k \in DOMAIN items : items[k].text = "call" => items[k].what \in 1 .. f - 1
    BY <1>3, <2>1, <2>2 DEF Body, Formed
  <2> QED BY <2>1, <2>3 DEF Calls
<1>5. fns[f].fallback \in {None} \cup 1 .. f - 1
  BY <1>3, <1>4 DEF FallbackIs
<1> QED BY <1>1, <1>3, <1>4, <1>5

LEMMA ProtoForIs ==
  ASSUME FnInv, Parsed, NEW h \in Helpers
  PROVE  /\ ProtoFor(None, h) = None
         /\ \A f \in Fns :
              ProtoFor(f, h) = IF FirstCase(fns[f].cases, h) # None THEN FirstCase(fns[f].cases, h)
                               ELSE ProtoFor(fns[f].fallback, h)
<1> DEFINE V == Protos \cup {None}
           D == Fns \cup {None}
           Value(v, g) == IF g = None THEN None
                          ELSE IF FirstCase(fns[g].cases, h) # None THEN FirstCase(fns[g].cases, h)
                          ELSE v[fns[g].fallback]
           Fixed(v) == v = [g \in D |-> Value(v, g)]
<1>1. PICK n \in Nat : n = NumFns /\ Fns = 1 .. n /\ None \notin 1 .. n
  BY ProtoFnsAssumption DEF Fns
<1>2. PICK x : x = [g \in 1 .. n |-> fns[g].fallback]
  OBVIOUS
<1>3. PICK own : own = [g \in 1 .. n |-> FirstCase(fns[g].cases, h)]
  OBVIOUS
<1>4. \A g \in 1 .. n : own[g] \in V
  <2> TAKE g \in 1 .. n
  <2>1. fns[g].cases \in Seq(Case)
    BY <1>1, FnsFacts
  <2>2. \A k \in DOMAIN fns[g].cases : fns[g].cases[k][2] \in Protos
    BY <2>1 DEF Case
  <2> QED BY <1>3, <2>1, <2>2, FirstCaseFacts
<1>5. PICK step \in [1 .. n -> [V -> [V -> V]]] :
        \A g \in 1 .. n : \A u, w \in V : step[g][u][w] = IF own[g] # None THEN own[g] ELSE u
  <2>1. PICK step : step = [g \in 1 .. n |-> [u \in V |-> [w \in V |-> IF own[g] # None THEN own[g] ELSE u]]]
    OBVIOUS
  <2> HIDE DEF V
  <2>2. step \in [1 .. n -> [V -> [V -> V]]]
    BY <1>4, <2>1
  <2> QED BY <2>1, <2>2
<1>6. Asks(n, V, x, x, step, None)
  <2>1. \A g \in 1 .. n : x[g] \in {None} \cup 1 .. g - 1
    BY <1>1, <1>2, FnsFacts
  <2>2. \A g \in 1 .. n : \A z \in {None} \cup 1 .. g - 1 : z \in {None} \cup 1 .. n
    OBVIOUS
  <2>3. x \in [1 .. n -> {None} \cup 1 .. n]
    BY <1>2, <2>1, <2>2
  <2> QED BY <1>1, <1>5, <2>1, <2>3 DEF Asks
<1>7. PICK v : Answers(v, n, V, x, x, step, None, n)
  BY <1>6, AnswersExist
<1>8. Fixed(v)
  <2>1. v = [g \in D |-> v[g]] /\ v[None] = None
    BY <1>1, <1>7 DEF Answers
  <2>2. ASSUME NEW g \in 1 .. n PROVE v[g] = Value(v, g)
    <3>1. v[x[g]] \in V
      BY <1>6, <1>7 DEF Asks, Answers
    <3>2. v[g] = IF own[g] # None THEN own[g] ELSE v[x[g]]
      BY <1>5, <1>7, <3>1 DEF Answers
    <3> QED BY <1>1, <1>2, <1>3, <3>2
  <2>3. \A g \in D : v[g] = Value(v, g)
    BY <1>1, <2>1, <2>2
  <2> HIDE DEF Value
  <2> QED BY <2>1, <2>3
<1>9. PICK p : Fixed(p) /\ \A f : ProtoFor(f, h) = p[f]
  <2>1. \A f : ProtoFor(f, h) = (CHOOSE p : Fixed(p))[f]
    BY Zenon DEF ProtoFor
  <2> HIDE DEF Fixed
  <2> QED BY <1>8, <2>1
<1>10. \A g \in D : p[g] = Value(p, g)
  <2> HIDE DEF Value
  <2> QED BY <1>9
<1> QED BY <1>1, <1>9, <1>10, ZenonT(60)

(* Where a function sends a helper it has no answer for itself. *)
SentTo(f, h) ==
  LET i == Dispatch(code[f].items, h)
  IN IF i = 0 THEN code[f].after
     ELSE IF code[f].items[i].text = "call" THEN code[f].items[i].what ELSE None

LEMMA ReturnedIs ==
  ASSUME FnInv, Parsed, NEW h \in Helpers
  PROVE  /\ Returned(None, h) = None
         /\ \A f \in Fns :
              Returned(f, h) =
                IF Returned(code[f].before, h) # None THEN Returned(code[f].before, h)
                ELSE IF Dispatch(code[f].items, h) = 0 THEN Returned(code[f].after, h)
                ELSE IF code[f].items[Dispatch(code[f].items, h)].text = "call"
                THEN Returned(code[f].items[Dispatch(code[f].items, h)].what, h)
                ELSE code[f].items[Dispatch(code[f].items, h)].what
<1> DEFINE V == Protos \cup Fns \cup {None}
           D == Fns \cup {None}
           At(g) == Dispatch(code[g].items, h)
           Value(v, g) == IF g = None THEN None
                          ELSE IF v[code[g].before] # None THEN v[code[g].before]
                          ELSE IF At(g) = 0 THEN v[code[g].after]
                          ELSE IF code[g].items[At(g)].text = "call" THEN v[code[g].items[At(g)].what]
                          ELSE code[g].items[At(g)].what
           Fixed(v) == v = [g \in D |-> Value(v, g)]
<1>1. PICK n \in Nat : n = NumFns /\ Fns = 1 .. n /\ None \notin 1 .. n
  BY ProtoFnsAssumption DEF Fns
<1>2. PICK x : x = [g \in 1 .. n |-> code[g].before]
  OBVIOUS
<1>3. PICK y : y = [g \in 1 .. n |-> SentTo(g, h)]
  OBVIOUS
<1>4. PICK at : at = [g \in 1 .. n |-> At(g)]
  OBVIOUS
<1>5. PICK what : what = [g \in 1 .. n |-> code[g].items[at[g]].what]
  OBVIOUS
<1>6. PICK own : own = [g \in 1 .. n |-> at[g] # 0 /\ code[g].items[at[g]].text # "call"]
  OBVIOUS
<1>7. \A g \in 1 .. n : /\ own[g] => what[g] \in V
                        /\ x[g] \in {None} \cup 1 .. g - 1 /\ y[g] \in {None} \cup 1 .. g - 1
  <2> TAKE g \in 1 .. n
  <2>1. /\ Body(code[g].items, g) /\ Ends(code[g].items)
        /\ code[g].before \in {None} \cup 1 .. g - 1 /\ code[g].after \in {None} \cup 1 .. g - 1
    BY <1>1, FnsFacts
  <2>2. at[g] \in 0 .. Len(code[g].items)
    BY <1>4, <2>1, DispatchFacts
  <2>3. at[g] # 0 => /\ at[g] \in 1 .. Len(code[g].items)
                     /\ code[g].items[at[g]] \in Item /\ Formed(code[g].items[at[g]], g)
    BY <2>1, <2>2, SMTT(60) DEF Body
  <2>4. own[g] => what[g] \in V
    BY <1>5, <1>6, <2>3 DEF Item
  <2>5. y[g] \in {None} \cup 1 .. g - 1
    BY <1>3, <1>4, <2>1, <2>3 DEF SentTo, Formed
  <2> QED BY <1>2, <2>1, <2>4, <2>5
<1>8. PICK step \in [1 .. n -> [V -> [V -> V]]] :
        \A g \in 1 .. n : \A u, w \in V :
          step[g][u][w] = IF u # None THEN u ELSE IF own[g] THEN what[g] ELSE w
  <2>1. PICK step : step = [g \in 1 .. n |-> [u \in V |-> [w \in V |->
                              IF u # None THEN u ELSE IF own[g] THEN what[g] ELSE w]]]
    OBVIOUS
  <2> HIDE DEF V
  <2>2. step \in [1 .. n -> [V -> [V -> V]]]
    BY <1>7, <2>1
  <2> QED BY <2>1, <2>2
<1>9. Asks(n, V, x, y, step, None)
  <2>1. \A g \in 1 .. n : \A z \in {None} \cup 1 .. g - 1 : z \in {None} \cup 1 .. n
    OBVIOUS
  <2>2. x \in [1 .. n -> {None} \cup 1 .. n] /\ y \in [1 .. n -> {None} \cup 1 .. n]
    BY <1>2, <1>3, <1>7, <2>1
  <2> QED BY <1>1, <1>7, <1>8, <2>2 DEF Asks
<1>10. PICK v : Answers(v, n, V, x, y, step, None, n)
  BY <1>9, AnswersExist
<1>11. Fixed(v)
  <2>1. v = [g \in D |-> v[g]] /\ v[None] = None
    BY <1>1, <1>10 DEF Answers
  <2>2. ASSUME NEW g \in 1 .. n PROVE v[g] = Value(v, g)
    <3>1. v[x[g]] \in V /\ v[y[g]] \in V
      BY <1>9, <1>10 DEF Asks, Answers
    <3>2. v[g] = IF v[x[g]] # None THEN v[x[g]] ELSE IF own[g] THEN what[g] ELSE v[y[g]]
      BY <1>8, <1>10, <3>1 DEF Answers
    <3>3. g # None /\ x[g] = code[g].before /\ y[g] = SentTo(g, h) /\ at[g] = At(g)
      BY <1>1, <1>2, <1>3, <1>4
    <3>4. own[g] <=> at[g] # 0 /\ code[g].items[at[g]].text # "call"
      BY <1>6
    <3>5. what[g] = code[g].items[at[g]].what
      BY <1>5
    <3> QED BY <3>2, <3>3, <3>4, <3>5 DEF SentTo
  <2>3. \A g \in D : v[g] = Value(v, g)
    BY <1>1, <2>1, <2>2
  <2> HIDE DEF Value
  <2> QED BY <2>1, <2>3
<1>12. PICK p : Fixed(p) /\ \A f : Returned(f, h) = p[f]
  <2>1. \A f : Returned(f, h) = (CHOOSE p : Fixed(p))[f]
    BY Zenon DEF Returned
  <2> HIDE DEF Fixed
  <2> QED BY <1>11, <2>1
<1>13. \A g \in D : p[g] = Value(p, g)
  <2> HIDE DEF Value
  <2> QED BY <1>12
<1>14. ASSUME NEW f \in Fns
       PROVE  Returned(f, h) =
                IF Returned(code[f].before, h) # None THEN Returned(code[f].before, h)
                ELSE IF Dispatch(code[f].items, h) = 0 THEN Returned(code[f].after, h)
                ELSE IF code[f].items[Dispatch(code[f].items, h)].text = "call"
                THEN Returned(code[f].items[Dispatch(code[f].items, h)].what, h)
                ELSE code[f].items[Dispatch(code[f].items, h)].what
  <2>1. f # None /\ p[f] = Value(p, f)
    BY <1>1, <1>13, SMTT(60)
  <2>2. /\ Returned(f, h) = p[f] /\ Returned(code[f].before, h) = p[code[f].before]
        /\ Returned(code[f].after, h) = p[code[f].after]
        /\ Returned(code[f].items[At(f)].what, h) = p[code[f].items[At(f)].what]
    BY <1>12
  <2> QED BY <2>1, <2>2
<1> QED BY <1>12, <1>13, <1>14

LEMMA ReadFormIs ==
  ASSUME FnInv, Parsed, NEW h \in Helpers, NEW f \in Fns
  PROVE  ReadForm(f, h) <=>
           LET i == Dispatch(code[f].items, h)
           IN /\ code[f].before = None /\ code[f].after = None
              /\ i # 0 => code[f].items[i].text # "nested"
              /\ i # 0 /\ code[f].items[i].text = "null" => Calls(code[f].items) = {}
              /\ \A c \in Calls(code[f].items) : ReadForm(c, h)
<1> DEFINE Own(g) ==
             LET i == Dispatch(code[g].items, h)
             IN /\ code[g].before = None /\ code[g].after = None
                /\ i # 0 => code[g].items[i].text # "nested"
                /\ i # 0 /\ code[g].items[i].text = "null" => Calls(code[g].items) = {}
           Value(v, g) == Own(g) /\ \A c \in Calls(code[g].items) : v[c]
           Fixed(v) == v = [g \in Fns |->
             LET i == Dispatch(code[g].items, h)
             IN /\ code[g].before = None /\ code[g].after = None
                /\ i # 0 => code[g].items[i].text # "nested"
                /\ i # 0 /\ code[g].items[i].text = "null" => Calls(code[g].items) = {}
                /\ \A c \in Calls(code[g].items) : v[c]]
<1>1. PICK n \in Nat : n = NumFns /\ Fns = 1 .. n /\ None \notin 1 .. n
  BY ProtoFnsAssumption DEF Fns
<1>2. PICK x : x = [g \in 1 .. n |-> fns[g].fallback]
  OBVIOUS
<1>3. PICK own : own = [g \in 1 .. n |-> Own(g)]
  OBVIOUS
<1>4. \A g \in 1 .. n : own[g] \in BOOLEAN
  BY <1>3
<1>5. PICK step \in [1 .. n -> [BOOLEAN -> [BOOLEAN -> BOOLEAN]]] :
        \A g \in 1 .. n : \A u, w \in BOOLEAN : step[g][u][w] = (own[g] /\ u)
  <2>1. PICK step : step = [g \in 1 .. n |-> [u \in BOOLEAN |-> [w \in BOOLEAN |-> own[g] /\ u]]]
    OBVIOUS
  <2>2. step \in [1 .. n -> [BOOLEAN -> [BOOLEAN -> BOOLEAN]]]
    BY <1>4, <2>1
  <2> QED BY <2>1, <2>2
<1>6. Asks(n, BOOLEAN, x, x, step, TRUE)
  <2>1. \A g \in 1 .. n : x[g] \in {None} \cup 1 .. g - 1
    BY <1>1, <1>2, FnsFacts
  <2>2. \A g \in 1 .. n : \A z \in {None} \cup 1 .. g - 1 : z \in {None} \cup 1 .. n
    OBVIOUS
  <2>3. x \in [1 .. n -> {None} \cup 1 .. n]
    BY <1>2, <2>1, <2>2
  <2> QED BY <1>1, <1>5, <2>1, <2>3, SMTT(60) DEF Asks
<1>7. PICK v : Answers(v, n, BOOLEAN, x, x, step, TRUE, n)
  BY <1>6, AnswersExist
<1>8. PICK r : r = [g \in Fns |-> v[g]]
  OBVIOUS
<1>9. \A g \in Fns : r[g] = Value(r, g)
  <2> TAKE g \in Fns
  <2>1. r[g] \in BOOLEAN /\ v[x[g]] \in BOOLEAN /\ v[None] = TRUE /\ r[g] = (own[g] /\ v[x[g]])
    <3>1. g \in 1 .. n /\ r[g] = v[g]
      BY <1>1, <1>8
    <3>2. x[g] \in {None} \cup 1 .. n
      BY <1>6, <3>1 DEF Asks
    <3>3. v[x[g]] \in BOOLEAN /\ v[g] \in BOOLEAN /\ v[None] = TRUE
      BY <1>7, <3>1, <3>2 DEF Answers
    <3>4. v[g] = step[g][v[x[g]]][v[x[g]]]
      BY <1>7, <3>1 DEF Answers
    <3>5. step[g][v[x[g]]][v[x[g]]] = (own[g] /\ v[x[g]])
      BY <1>5, <3>1, <3>3
    <3> QED BY <3>1, <3>3, <3>4, <3>5, Zenon
  <2>2. x[g] = fns[g].fallback /\ own[g] = Own(g)
    BY <1>1, <1>2, <1>3
  <2>3. v[x[g]] = (\A c \in Calls(code[g].items) : r[c])
    <3>1. Calls(code[g].items) \subseteq Fns
      <4>1. Calls(code[g].items) \subseteq 1 .. g - 1
        BY FnsFacts
      <4>2. g \in 1 .. n /\ 1 .. g - 1 \subseteq 1 .. n
        BY <1>1
      <4> QED BY <1>1, <4>1, <4>2
    <3>2. FallbackIs(fns[g].fallback, code[g].items)
      BY FnsFacts
    <3>3. \A c \in Calls(code[g].items) : r[c] = v[c]
      BY <1>8, <3>1
    <3>4. CASE Calls(code[g].items) = {}
      BY <2>1, <2>2, <3>2, <3>4 DEF FallbackIs
    <3>5. CASE Calls(code[g].items) # {}
      <4>1. Calls(code[g].items) = {x[g]}
        BY <2>2, <3>2, <3>5 DEF FallbackIs
      <4>2. (\A c \in Calls(code[g].items) : r[c]) = v[x[g]]
        BY <2>1, <3>3, <4>1, Zenon
      <4> QED BY <4>2
    <3> QED BY <3>4, <3>5
  <2> HIDE DEF Own
  <2> QED BY <2>1, <2>2, <2>3
<1>10. Fixed(r)
  <2>1. r = [g \in Fns |-> r[g]]
    BY <1>8
  <2>2. r = [g \in Fns |-> Value(r, g)]
    <3> HIDE DEF Value
    <3> QED BY <1>9, <2>1
  <2> QED BY <2>2, Zenon
<1>11. PICK p : Fixed(p) /\ \A g : ReadForm(g, h) = p[g]
  <2>1. \A g : ReadForm(g, h) = (CHOOSE p : Fixed(p))[g]
    BY Zenon DEF ReadForm
  <2> HIDE DEF Fixed
  <2> QED BY <1>10, <2>1
<1> QED BY <1>11

-----------------------------------------------------------------------------
(* What the invariant means. *)

LEMMA ReadAsVerifier ==
  ASSUME FnInv, Parsed, NEW h \in Helpers, NEW f \in Fns,
         \A g \in 1 .. f - 1 : ReadForm(g, h) => ProtoFor(g, h) = Returned(g, h),
         ReadForm(f, h)
  PROVE  ProtoFor(f, h) = Returned(f, h)
<1>1. PICK items, i : items = code[f].items /\ i = Dispatch(items, h)
  OBVIOUS
<1>2. /\ f \in Nat /\ None \notin Fns
      /\ Body(items, f) /\ Ends(items)
      /\ fns[f].cases \in Seq(Case) /\ CasesAre(fns[f].cases, items)
      /\ FallbackIs(fns[f].fallback, items) /\ Calls(items) \subseteq 1 .. f - 1
      /\ code[f].before \in {None} \cup 1 .. f - 1
  BY <1>1, FnsFacts
<1>3. /\ code[f].before = None /\ code[f].after = None
      /\ i # 0 => items[i].text # "nested"
      /\ i # 0 /\ items[i].text = "null" => Calls(items) = {}
      /\ \A c \in Calls(items) : ReadForm(c, h)
  BY <1>1, ReadFormIs
<1>4. DOMAIN items = 1 .. Len(items) /\ Len(items) \in Nat
  BY <1>2, LenProperties DEF Body
<1>5. PICK own : own = FirstCase(fns[f].cases, h)
  OBVIOUS
<1>6. IF i # 0 /\ items[i].text = "proto" THEN own = items[i].what ELSE own = None
  BY <1>1, <1>2, <1>5, CaseIs
<1>7. ProtoFor(f, h) = IF own # None THEN own ELSE ProtoFor(fns[f].fallback, h)
  BY <1>5, ProtoForIs
<1>8. Returned(f, h) = IF i = 0 THEN None
                       ELSE IF items[i].text = "call" THEN Returned(items[i].what, h) ELSE items[i].what
  BY <1>1, <1>3, ReturnedIs
<1>9. i # 0 => i \in 1 .. Len(items) /\ Formed(items[i], f) /\ items[i].text # "fall"
               /\ items[i] \in Item
  <2>1. i # 0 => i \in 1 .. Len(items) /\ items[i].text # "fall"
    BY <1>1, <1>2, <1>4, DispatchFacts DEF StopAt
  <2> QED BY <1>2, <2>1 DEF Body
<1>10. Calls(items) = {} => fns[f].fallback = None /\ ProtoFor(fns[f].fallback, h) = None
  BY <1>2, ProtoForIs DEF FallbackIs
<1>11. CASE i = 0
  <2>1. \A k \in 1 .. Len(items) : items[k].label # "default"
    <3>1. Dispatch(items, h) = 0
      BY <1>1, <1>11
    <3>2. \A k \in 1 .. Len(items) : items[k].label \notin {h, "default"}
      BY <1>2, <3>1, DispatchFacts
    <3> QED BY <3>2
  <2>2. Calls(items) = {}
    BY <1>2, <1>4, <2>1 DEF Calls, Body, Formed
  <2> QED BY <1>6, <1>7, <1>8, <1>10, <1>11, <2>2
<1>12. CASE i # 0 /\ items[i].text = "proto"
  <2>1. items[i].what \in Protos /\ None \notin Protos
    BY <1>9, <1>12, ProtoFnsAssumption DEF Formed
  <2> QED BY <1>6, <1>7, <1>8, <1>12, <2>1
<1>13. CASE i # 0 /\ items[i].text = "null"
  <2>1. items[i].what = None
    BY <1>9, <1>13 DEF Formed
  <2> QED BY <1>3, <1>6, <1>7, <1>8, <1>10, <1>13, <2>1
<1>14. CASE i # 0 /\ items[i].text = "call"
  <2>1. items[i].what \in Calls(items)
    BY <1>4, <1>9, <1>14 DEF Calls
  <2>2. fns[f].fallback = items[i].what
    BY <1>2, <2>1 DEF FallbackIs
  <2>3. ProtoFor(items[i].what, h) = Returned(items[i].what, h)
    BY <1>2, <1>3, <2>1
  <2> QED BY <1>6, <1>7, <1>8, <1>14, <2>2, <2>3
<1> QED BY <1>3, <1>9, <1>11, <1>12, <1>13, <1>14 DEF Item

LEMMA ReadFormsMeans == FnInv => ReadFormsAsVerifier
<1> SUFFICES ASSUME FnInv, Parsed, NEW h \in Helpers
             PROVE  \A f \in Fns : ReadForm(f, h) => ProtoFor(f, h) = Returned(f, h)
  BY DEF ReadFormsAsVerifier
<1> DEFINE S == {m \in Nat : m \in Fns => (ReadForm(m, h) => ProtoFor(m, h) = Returned(m, h))}
<1>1. ASSUME NEW m \in Nat, \A k \in 0 .. m - 1 : k \in S PROVE m \in S
  <2> SUFFICES ASSUME m \in Fns, ReadForm(m, h) PROVE ProtoFor(m, h) = Returned(m, h)
    OBVIOUS
  <2>1. ASSUME NEW g \in 1 .. m - 1, ReadForm(g, h) PROVE ProtoFor(g, h) = Returned(g, h)
    <3>1. g \in 0 .. m - 1 /\ g \in Fns
      BY ProtoFnsAssumption DEF Fns
    <3> QED BY <1>1, <2>1, <3>1
  <2> QED BY <2>1, ReadAsVerifier
<1>2. Nat \subseteq S
  <2> HIDE DEF S
  <2> QED BY <1>1, StrongSetInduction
<1> QED BY <1>2, FnsFacts

(* A proto the verifier is given is a case's, in one function or another.     *)
LEMMA GivenSomewhere ==
  ASSUME FnInv, Parsed, NEW h \in Helpers
  PROVE  \A f \in Fns : Returned(f, h) # None =>
           \E g \in Fns : LET i == Dispatch(code[g].items, h)
                          IN /\ i # 0 /\ code[g].items[i].text \in {"proto", "nested"}
                             /\ code[g].items[i].what = Returned(f, h)
<1> DEFINE Given(r) == \E g \in Fns : LET i == Dispatch(code[g].items, h)
                                      IN /\ i # 0 /\ code[g].items[i].text \in {"proto", "nested"}
                                         /\ code[g].items[i].what = r
           S == {m \in Nat : m \in Fns => (Returned(m, h) # None => Given(Returned(m, h)))}
<1>1. ASSUME NEW m \in Nat, \A k \in 0 .. m - 1 : k \in S PROVE m \in S
  <2> SUFFICES ASSUME m \in Fns, Returned(m, h) # None PROVE Given(Returned(m, h))
    OBVIOUS
  <2>1. PICK items, i : items = code[m].items /\ i = Dispatch(items, h)
    OBVIOUS
  <2>2. /\ Body(items, m) /\ Ends(items) /\ Calls(items) \subseteq 1 .. m - 1
        /\ code[m].before \in {None} \cup 1 .. m - 1 /\ code[m].after \in {None} \cup 1 .. m - 1
    BY <2>1, FnsFacts
  <2>3. DOMAIN items = 1 .. Len(items) /\ Len(items) \in Nat
    BY <2>2, LenProperties DEF Body
  <2>4. ASSUME NEW g \in {None} \cup 1 .. m - 1, Returned(g, h) # None PROVE Given(Returned(g, h))
    <3>1. g # None
      BY <2>4, ReturnedIs
    <3>2. g \in 0 .. m - 1 /\ g \in Fns
      BY <3>1, ProtoFnsAssumption DEF Fns
    <3> QED BY <1>1, <2>4, <3>2
  <2>5. Returned(m, h) =
          IF Returned(code[m].before, h) # None THEN Returned(code[m].before, h)
          ELSE IF i = 0 THEN Returned(code[m].after, h)
          ELSE IF items[i].text = "call" THEN Returned(items[i].what, h)
          ELSE items[i].what
    BY <2>1, ReturnedIs
  <2>6. i # 0 => i \in 1 .. Len(items) /\ items[i].text # "fall"
    BY <2>1, <2>2, <2>3, DispatchFacts DEF StopAt
  <2>7. i # 0 => items[i] \in Item /\ Formed(items[i], m)
    BY <2>2, <2>6 DEF Body
  <2> HIDE DEF Given, S
  <2>8. CASE Returned(code[m].before, h) # None
    BY <2>2, <2>4, <2>5, <2>8
  <2>9. CASE Returned(code[m].before, h) = None /\ i = 0
    BY <2>2, <2>4, <2>5, <2>9
  <2>10. CASE Returned(code[m].before, h) = None /\ i # 0 /\ items[i].text = "call"
    <3>1. items[i].what \in 1 .. m - 1
      BY <2>7, <2>10 DEF Formed
    <3> QED BY <2>4, <2>5, <2>10, <3>1
  <2>11. CASE Returned(code[m].before, h) = None /\ i # 0 /\ items[i].text # "call"
    <3>1. items[i].what = Returned(m, h)
      BY <2>5, <2>11, SMTT(60)
    <3>2. items[i].text \in {"proto", "nested"}
      BY <2>6, <2>7, <2>11, <3>1 DEF Item, Formed
    <3> QED BY <2>1, <2>11, <3>1, <3>2 DEF Given
  <2> QED BY <2>8, <2>9, <2>10, <2>11
<1>2. Nat \subseteq S
  <2> HIDE DEF S
  <2> QED BY <1>1, StrongSetInduction
<1> QED BY <1>2, FnsFacts

LEMMA ChangesPktMeans == FnInv => ChangesPktCovers
<1> SUFFICES ASSUME FnInv, Parsed, NEW f \in Fns, NEW h \in Helpers,
                    Returned(f, h) # None, FuncOf[Returned(f, h)] \in Changing,
                    ~NestedSomewhere(h)
             PROVE  h \in ChangesPkt
  BY DEF ChangesPktCovers
<1>1. PICK g \in Fns : LET i == Dispatch(code[g].items, h)
                       IN /\ i # 0 /\ code[g].items[i].text \in {"proto", "nested"}
                          /\ code[g].items[i].what = Returned(f, h)
  BY GivenSomewhere
<1>2. PICK items, i : /\ items = code[g].items /\ i = Dispatch(items, h)
                      /\ i # 0 /\ items[i].text = "proto" /\ items[i].what = Returned(f, h)
  BY <1>1 DEF NestedSomewhere
<1>3. /\ Body(items, g) /\ Ends(items) /\ fns[g].cases \in Seq(Case)
      /\ CasesAre(fns[g].cases, items)
  BY <1>2, FnsFacts
<1>4. FirstCase(fns[g].cases, h) = Returned(f, h)
  BY <1>2, <1>3, CaseIs
<1>5. PICK k \in DOMAIN fns[g].cases : fns[g].cases[k][1] = h /\ fns[g].cases[k][2] = Returned(f, h)
  BY <1>3, <1>4, FirstCaseFacts
<1> QED BY <1>5 DEF ChangesPkt

-----------------------------------------------------------------------------
(* The steps. *)

LEMMA FnInvMeans ==
  /\ Written' =
       \A f \in Fns :
         /\ Body(code'[f].items, f)
         /\ code'[f].before \in {None} \cup 1 .. f - 1 /\ code'[f].after \in {None} \cup 1 .. f - 1
         /\ fns'[f] = None /\ f # current' => code'[f].items = <<>>
  /\ ParsedAs' =
       \A f \in Fns : fns'[f] # None =>
         /\ f # current' /\ ReadAs(fns'[f].cases, fns'[f].fallback, code'[f].items)
         /\ Ends(code'[f].items)
  /\ Parsing' =
       (current' # None => /\ ReadAs(cases', fallback', code'[current'].items)
                           /\ PendingIs(pending', code'[current'].items))
  BY DEF Written, ParsedAs, Parsing, ReadAs, CasesAre, StopAt, CaseOf, FallbackIs, Calls, Ends,
         PendingIs, Waits, Body, Formed

LEMMA FnInvInit == FnInit => FnInv
<1> SUFFICES ASSUME FnInit PROVE FnInv
  OBVIOUS
<1>1. /\ \A f \in Fns : fns[f] = None /\ code[f].items = <<>>
                        /\ code[f].before = None /\ code[f].after = None
      /\ current = None /\ cases = <<>> /\ fallback = None /\ pending = <<>>
  BY DEF FnInit
<1>2. FnTyped
  BY <1>1 DEF FnInit, FnTyped, Code
<1>3. <<>> \in Seq(Item) /\ Len(<<>>) = 0
  OBVIOUS
<1>4. Written
  <2>1. \A f : Body(<<>>, f)
    BY <1>3 DEF Body
  <2> QED BY <1>1, <2>1 DEF Written
<1> QED BY <1>1, <1>2, <1>4 DEF FnInv, ParsedAs, Parsing

(* A step that changes the current function's code and what is read of it. *)
LEMMA CurrentStep ==
  ASSUME FnInv, current # None, NEW items, Body(items, current),
         code' = [code EXCEPT ![current].items = items], UNCHANGED <<fns, current>>,
         cases' \in Seq(Case), fallback' \in Fns \cup {None}, pending' \in Seq(Helpers),
         ReadAs(cases', fallback', items), PendingIs(pending', items)
  PROVE  FnInv'
<1>1. current \in Fns /\ code \in [Fns -> Code] /\ code[current] \in Code
  BY DEF FnInv, FnTyped
<1>2. PICK r : r = [code[current] EXCEPT !.items = items]
  OBVIOUS
<1>3. r \in Code /\ r.items = items /\ r.before = code[current].before /\ r.after = code[current].after
  BY <1>1, <1>2 DEF Code, Body
<1>4. /\ code' \in [Fns -> Code] /\ code'[current] = r
      /\ \A f \in Fns : f # current => code'[f] = code[f]
  BY <1>1, <1>2, <1>3
<1>5. FnTyped'
  BY <1>4 DEF FnInv, FnTyped
<1>6. Written'
  BY <1>3, <1>4, FnInvMeans DEF FnInv, Written
<1>7. ParsedAs'
  BY <1>4, FnInvMeans DEF FnInv, ParsedAs
<1>8. Parsing'
  BY <1>3, <1>4, FnInvMeans
<1> QED BY <1>5, <1>6, <1>7, <1>8 DEF FnInv

LEMMA ItemStep ==
  ASSUME FnInv, current # None, NEW item \in Item, Formed(item, current), Read(item),
         item.label \notin Seen, item.text = "call" => "default" \notin Seen,
         UNCHANGED <<fns, current>>,
         fallback' = IF item.text = "call" THEN item.what ELSE fallback,
         \/ /\ item.text = "proto" /\ item.label \in Helpers
            /\ cases' = cases \o CasesOf(Append(pending, item.label), item.what)
         \/ item.text # "proto" /\ cases' = cases,
         \/ /\ item.text = "fall" /\ item.label \in Helpers
            /\ pending' = Append(pending, item.label)
         \/ item.text # "fall" /\ pending' = <<>>
  PROVE  FnInv'
<1>1. PICK items : items = code[current].items
  OBVIOUS
<1>2. /\ current \in Fns /\ Body(items, current) /\ items \in Seq(Item)
      /\ CasesAre(cases, items) /\ FallbackIs(fallback, items) /\ PendingIs(pending, items)
      /\ cases \in Seq(Case) /\ fallback \in Fns \cup {None} /\ pending \in Seq(Helpers)
      /\ code \in [Fns -> Code]
  BY <1>1 DEF FnInv, FnTyped, Written, Parsing, ReadAs, Body
<1>3. PICK t : t = Append(items, item)
  OBVIOUS
<1>4. DOMAIN items = 1 .. Len(items) /\ Len(items) \in Nat
  BY <1>2, LenProperties
<1>5. Seen = {items[k].label : k \in 1 .. Len(items)}
  BY <1>1, <1>2, <1>4 DEF Seen
<1>6. \A k \in 1 .. Len(items) : items[k].label # item.label
  BY <1>5
<1>7. Body(t, current) /\ More(t, items, item) /\ t \in Seq(Item)
  BY <1>2, <1>3, <1>6, AppendItem DEF More, Body
<1>8. code' = [code EXCEPT ![current].items = t]
  BY <1>1, <1>3 DEF Read
<1>9. cases' \in Seq(Case) /\ CasesAre(cases', t)
  <2>1. CASE item.text = "proto"
    <3>1. item.what \in Protos /\ item.label \in Helpers
      BY <2>1 DEF Formed
    <3>2. cases' = cases \o CasesOf(Append(pending, item.label), item.what)
      BY <2>1
    <3>3. /\ cases \o CasesOf(Append(pending, item.label), item.what) \in Seq(Case)
          /\ CasesAre(cases \o CasesOf(Append(pending, item.label), item.what), t)
      BY <1>2, <1>7, <2>1, <3>1, CasesGrow
    <3> QED BY <3>2, <3>3
  <2>2. CASE item.text # "proto"
    BY <1>2, <1>7, <2>2, CasesStay
  <2> QED BY <2>1, <2>2
<1>10. pending' \in Seq(Helpers) /\ PendingIs(pending', t)
  <2>1. CASE item.text = "fall"
    <3>1. item.label \in Helpers /\ pending' = Append(pending, item.label)
      BY <2>1
    <3>2. Append(pending, item.label) \in Seq(Helpers) /\ PendingIs(Append(pending, item.label), t)
      BY <1>2, <1>7, <2>1, <3>1, OneMoreWaits, AppendProperties
    <3> QED BY <3>1, <3>2
  <2>2. CASE item.text # "fall"
    <3>1. pending' = <<>> /\ <<>> \in Seq(Helpers)
      BY <2>2
    <3>2. PendingIs(<<>>, t)
      BY <1>7, <2>2, NoneWait
    <3> QED BY <3>1, <3>2
  <2> QED BY <2>1, <2>2
<1>11. FallbackIs(fallback', t) /\ fallback' \in Fns \cup {None}
  <2>1. Calls(t) = Calls(items) \cup (IF item.text = "call" THEN {item.what} ELSE {})
    BY <1>2, <1>7, CallsOfMore
  <2>2. CASE item.text = "call"
    <3>1. Calls(items) = {}
      BY <1>2, <1>4, <1>5, <2>2 DEF Calls, Body, Formed
    <3>2. item.what \in Fns
      BY <1>2, <2>2, ProtoFnsAssumption DEF Formed, Fns
    <3> QED BY <2>1, <2>2, <3>1, <3>2 DEF FallbackIs
  <2>3. CASE item.text # "call"
    BY <1>2, <2>1, <2>3 DEF FallbackIs
  <2> QED BY <2>2, <2>3
<1> QED BY <1>7, <1>8, <1>9, <1>10, <1>11, CurrentStep DEF ReadAs

LEMMA BeginFnInv ==
  ASSUME FnInv, NEW f \in Fns, NEW b \in Fns \cup {None}, BeginFn(f, b) PROVE FnInv'
<1>1. /\ current = None /\ fns[f] = None /\ b \in {None} \cup 1 .. f - 1
      /\ current' = f /\ code' = [code EXCEPT ![f].before = b]
      /\ cases' = <<>> /\ fallback' = None /\ pending' = <<>> /\ UNCHANGED fns
  BY DEF BeginFn
<1>2. PICK r : r = [code[f] EXCEPT !.before = b]
  OBVIOUS
<1>3. code \in [Fns -> Code] /\ None \notin Fns /\ code[f] \in Code
  BY ProtoFnsAssumption DEF FnInv, FnTyped
<1>4. r \in Code /\ r.before = b /\ r.items = code[f].items /\ r.after = code[f].after
  BY <1>2, <1>3 DEF Code
<1>5. /\ code' \in [Fns -> Code] /\ code'[f] = r
      /\ \A g \in Fns : g # f => code'[g] = code[g]
  BY <1>1, <1>2, <1>3, <1>4
<1>6. r.items = <<>>
  BY <1>1, <1>3, <1>4 DEF FnInv, Written
<1>7. FnTyped'
  BY <1>1, <1>5 DEF FnInv, FnTyped
<1>8. Written'
  <2>1. ASSUME NEW x \in Fns
        PROVE  /\ Body(code'[x].items, x)
               /\ code'[x].before \in {None} \cup 1 .. x - 1 /\ code'[x].after \in {None} \cup 1 .. x - 1
               /\ fns'[x] = None /\ x # f => code'[x].items = <<>>
    <3>1. CASE x = f
      BY <1>1, <1>4, <1>5, <3>1 DEF FnInv, Written
    <3>2. CASE x # f
      BY <1>1, <1>3, <1>5, <3>2 DEF FnInv, Written
    <3> QED BY <3>1, <3>2
  <2> QED BY <1>1, <2>1, FnInvMeans
<1>9. ParsedAs'
  <2>1. ASSUME NEW x \in Fns, fns'[x] # None
        PROVE  /\ x # f /\ ReadAs(fns'[x].cases, fns'[x].fallback, code'[x].items)
               /\ Ends(code'[x].items)
    <3>1. x # f /\ fns[x] # None /\ fns'[x] = fns[x] /\ code'[x] = code[x]
      BY <1>1, <1>5, <2>1
    <3> QED BY <3>1 DEF FnInv, ParsedAs
  <2> QED BY <1>1, <2>1, FnInvMeans
<1>10. Parsing'
  <2>1. CasesAre(<<>>, <<>>) /\ FallbackIs(None, <<>>)
    BY DEF CasesAre, FallbackIs, Calls
  <2>2. PendingIs(<<>>, <<>>)
    <3>1. Waits(<<>>, <<>>, 0) /\ 0 \in 0 .. Len(<<>>)
      BY DEF Waits
    <3> QED BY <3>1 DEF PendingIs
  <2>3. code'[current'].items = <<>>
    BY <1>1, <1>5, <1>6
  <2> QED BY <1>1, <2>1, <2>2, <2>3, FnInvMeans DEF ReadAs
<1> QED BY <1>7, <1>8, <1>9, <1>10 DEF FnInv

LEMMA EndFnInv ==
  ASSUME FnInv, NEW g \in Fns \cup {None}, EndFn(g) PROVE FnInv'
<1>1. PICK f \in Fns : f = current
  BY DEF EndFn, FnInv, FnTyped
<1>2. PICK r : r = [code[f] EXCEPT !.after = g]
  OBVIOUS
<1>3. PICK e : e = [cases |-> cases, fallback |-> fallback]
  OBVIOUS
<1>4. /\ fns' = [fns EXCEPT ![f] = e] /\ code' = [code EXCEPT ![f] = r] /\ current' = None
      /\ pending = <<>> /\ g \in {None} \cup 1 .. f - 1 /\ UNCHANGED <<cases, fallback, pending>>
  BY <1>1, <1>2, <1>3 DEF EndFn
<1>5. /\ code \in [Fns -> Code] /\ fns \in [Fns -> Table \cup {None}] /\ None \notin Fns /\ code[f] \in Code
      /\ cases \in Seq(Case) /\ fallback \in Fns \cup {None}
  BY ProtoFnsAssumption DEF FnInv, FnTyped
<1>6. r \in Code /\ r.after = g /\ r.items = code[f].items /\ r.before = code[f].before
  BY <1>2, <1>4, <1>5 DEF Code
<1>7. e \in Table /\ e # None /\ e.cases = cases /\ e.fallback = fallback
  BY <1>3, <1>5, ProtoFnsAssumption DEF Table, Case
<1>8. /\ code' \in [Fns -> Code] /\ code'[f] = r /\ fns' \in [Fns -> Table \cup {None}] /\ fns'[f] = e
      /\ \A x \in Fns : x # f => code'[x] = code[x] /\ fns'[x] = fns[x]
  BY <1>4, <1>5, <1>6, <1>7
<1>9. ReadAs(cases, fallback, r.items) /\ Ends(r.items)
  <2>1. ReadAs(cases, fallback, r.items) /\ PendingIs(<<>>, r.items)
    BY <1>1, <1>4, <1>5, <1>6 DEF FnInv, Parsing
  <2>2. PICK m \in 0 .. Len(r.items) : Waits(<<>>, r.items, m)
    BY <2>1 DEF PendingIs
  <2>3. Len(r.items) \in Nat
    BY <1>6, LenProperties DEF Code
  <2>4. m = Len(r.items)
    <3>1. Len(r.items) - m = 0
      BY <2>2 DEF Waits
    <3> QED BY <2>3, <3>1
  <2> QED BY <2>1, <2>2, <2>4 DEF Waits, Ends
<1>10. FnTyped'
  BY <1>4, <1>5, <1>8 DEF FnInv, FnTyped
<1>11. Written'
  <2>1. ASSUME NEW x \in Fns
        PROVE  /\ Body(code'[x].items, x)
               /\ code'[x].before \in {None} \cup 1 .. x - 1 /\ code'[x].after \in {None} \cup 1 .. x - 1
               /\ fns'[x] = None => code'[x].items = <<>>
    <3>1. CASE x = f
      BY <1>4, <1>6, <1>7, <1>8, <3>1 DEF FnInv, Written
    <3>2. CASE x # f
      BY <1>1, <1>8, <3>2 DEF FnInv, Written
    <3> QED BY <3>1, <3>2
  <2> QED BY <2>1, FnInvMeans
<1>12. ParsedAs'
  <2>1. ASSUME NEW x \in Fns, fns'[x] # None
        PROVE  /\ x # None /\ ReadAs(fns'[x].cases, fns'[x].fallback, code'[x].items)
               /\ Ends(code'[x].items)
    <3>1. CASE x = f
      BY <1>5, <1>7, <1>8, <1>9, <3>1
    <3>2. CASE x # f
      BY <1>5, <1>8, <2>1, <3>2 DEF FnInv, ParsedAs
    <3> QED BY <3>1, <3>2
  <2> QED BY <1>4, <2>1, FnInvMeans
<1>13. Parsing'
  BY <1>4 DEF Parsing
<1> QED BY <1>10, <1>11, <1>12, <1>13 DEF FnInv

LEMMA FnInvNext == FnInv /\ [FnNext]_fnVars => FnInv'
<1> SUFFICES ASSUME FnInv, [FnNext]_fnVars PROVE FnInv'
  OBVIOUS
<1>1. "default" \notin Helpers /\ (current # None => current \in Fns)
  BY ProtoFnsAssumption DEF FnInv, FnTyped
<1>2. ASSUME NEW f \in Fns, NEW b \in Fns \cup {None}, BeginFn(f, b) PROVE FnInv'
  BY <1>2, BeginFnInv
<1>3. ASSUME NEW h \in Helpers, CaseFalls(h) PROVE FnInv'
  <2>1. PICK item : item = [label |-> h, text |-> "fall", what |-> None]
    OBVIOUS
  <2>2. /\ item \in Item /\ Formed(item, current) /\ item.label = h /\ item.text = "fall"
    BY <1>1, <2>1 DEF Item, Labels, Formed
  <2> QED BY <1>3, <2>1, <2>2, ItemStep DEF CaseFalls
<1>4. ASSUME NEW h \in Helpers, NEW p \in Protos, CaseReturns(h, p) PROVE FnInv'
  <2>1. PICK item : item = [label |-> h, text |-> "proto", what |-> p]
    OBVIOUS
  <2>2. /\ item \in Item /\ Formed(item, current) /\ item.label = h /\ item.text = "proto"
        /\ item.what = p
    BY <1>1, <2>1 DEF Item, Labels, Formed
  <2> QED BY <1>4, <2>1, <2>2, ItemStep DEF CaseReturns
<1>5. ASSUME NEW h \in Helpers, CaseDenies(h) PROVE FnInv'
  <2>1. PICK item : item = [label |-> h, text |-> "null", what |-> None]
    OBVIOUS
  <2>2. /\ item \in Item /\ Formed(item, current) /\ item.label = h /\ item.text = "null"
    BY <1>1, <2>1 DEF Item, Labels, Formed
  <2> QED BY <1>5, <2>1, <2>2, ItemStep DEF CaseDenies, AfterNull
<1>6. ASSUME NEW h \in Helpers, NEW p \in Protos, CaseNests(h, p) PROVE FnInv'
  <2>1. PICK item : item = [label |-> h, text |-> "nested", what |-> p]
    OBVIOUS
  <2>2. /\ item \in Item /\ Formed(item, current) /\ item.label = h /\ item.text = "nested"
    BY <1>1, <2>1 DEF Item, Labels, Formed
  <2> QED BY <1>6, <2>1, <2>2, ItemStep DEF CaseNests
<1>7. ASSUME NEW g \in Fns \cup {None}, Default(g) PROVE FnInv'
  <2>1. PICK item : item = [label |-> "default", text |-> IF g = None THEN "null" ELSE "call", what |-> g]
    OBVIOUS
  <2>2. /\ item \in Item /\ Formed(item, current) /\ item.label = "default" /\ item.what = g
        /\ item.text = IF g = None THEN "null" ELSE "call"
    BY <1>7, <2>1 DEF Item, Labels, Formed, Default
  <2> QED BY <1>7, <2>1, <2>2, ItemStep DEF Default
<1>8. ASSUME NEW g \in Fns \cup {None}, EndFn(g) PROVE FnInv'
  BY <1>8, EndFnInv
<1>9. CASE UNCHANGED fnVars
  <2>1. UNCHANGED <<fns, code, current, cases, fallback, pending>>
    BY <1>9 DEF fnVars
  <2>2. FnTyped'
    BY <2>1 DEF FnInv, FnTyped
  <2> QED BY <2>1, <2>2, FnInvMeans DEF FnInv, Written, ParsedAs, Parsing
<1> QED BY <1>2, <1>3, <1>4, <1>5, <1>6, <1>7, <1>8, <1>9 DEF FnNext

(* Whatever the switches of however many functions hold, of the forms the     *)
(* parser reads the table gives each helper the proto the verifier is given   *)
(* (parse_proto_fns, Side.protoFor).                                          *)
THEOREM FormsStand == FnSpec => []ReadFormsAsVerifier
<1> QED BY FnInvInit, FnInvNext, ReadFormsMeans, PTL DEF FnSpec

(* And none that is given a function that changes the packet goes unlisted,   *)
(* but for one whose case holds a switch of its own (parse_changes_pkt).      *)
THEOREM ChangesListed == FnSpec => []ChangesPktCovers
<1> QED BY FnInvInit, FnInvNext, ChangesPktMeans, PTL DEF FnSpec

(* A behavior of the transcriber is one of each reader, so that what holds of *)
(* every behavior of theirs holds of its (main).                              *)
THEOREM EachReads == Spec => LayoutSpec /\ FnSpec
<1>1. Init => LayoutInit /\ FnInit
  BY DEF Init
<1>2. [Next]_vars => [LayoutNext]_layoutVars /\ [FnNext]_fnVars
  BY DEF Next, ReadCtx, ReadProtoFns, vars
<1> QED BY <1>1, <1>2, PTL DEF Spec, LayoutSpec, FnSpec
=============================================================================
