----------------------------- MODULE CoreProofs -----------------------------
(* Theorems about Core, for every plain program the checker accepts, of any *)
(* nesting: no run is refused, the machine holds what the open holds took,  *)
(* a cast's socket is held, and a tail call is taken with nothing held.     *)
(* The invariant is IInv of CoreInv: each frame of the control stack has a  *)
(* typing, what the checker knew at that point of the program, linked to    *)
(* the next one's, and the store fits the innermost.  First what sequences, *)
(* names and facts do, then the machine's operations, then one lemma for    *)
(* each action of CoreNext.                                                 *)
EXTENDS CoreInv

-----------------------------------------------------------------------------
(* Sequences.                                                               *)

LEMMA ConsParts ==
  ASSUME NEW S, NEW a \in S, NEW q \in Seq(S)
  PROVE  /\ <<a>> \o q \in Seq(S) /\ <<a>> \o q # <<>>
         /\ Len(q) \in Nat /\ Len(<<a>> \o q) = Len(q) + 1
         /\ Head(<<a>> \o q) = a /\ (<<a>> \o q)[1] = a /\ Tail(<<a>> \o q) = q
         /\ 1 \in DOMAIN (<<a>> \o q)
         /\ \A i \in DOMAIN q : i + 1 \in DOMAIN (<<a>> \o q) /\ (<<a>> \o q)[i + 1] = q[i]
         /\ \A i \in DOMAIN (<<a>> \o q) : i = 1 \/ (i - 1 \in DOMAIN q /\ (<<a>> \o q)[i] = q[i - 1])
<1> DEFINE r == <<a>> \o q
<1>1. /\ r \in Seq(S) /\ Len(q) \in Nat /\ Len(r) = Len(q) + 1 /\ r[1] = a
      /\ DOMAIN q = 1..Len(q) /\ DOMAIN r = 1..(Len(q) + 1)
      /\ \A i \in 1..Len(q) : r[i + 1] = q[i]
  OBVIOUS
<1>2. Head(r) = a /\ Tail(r) = q /\ r # <<>>
  OBVIOUS
<1> HIDE DEF r
<1>3. \A i \in DOMAIN r : i = 1 \/ (i - 1 \in DOMAIN q /\ r[i] = q[i - 1])
  <2> SUFFICES ASSUME NEW i \in DOMAIN r, i # 1 PROVE i - 1 \in DOMAIN q /\ r[i] = q[i - 1]
    OBVIOUS
  <2>1. i - 1 \in 1..Len(q) /\ (i - 1) + 1 = i
    BY <1>1
  <2> QED BY <1>1, <2>1
<1>4. 1 \in DOMAIN r /\ \A i \in DOMAIN q : i + 1 \in DOMAIN r /\ r[i + 1] = q[i]
  BY <1>1
<1> QED BY <1>1, <1>2, <1>3, <1>4 DEF r

LEMMA Uncons ==
  ASSUME NEW S, NEW q \in Seq(S), q # <<>>
  PROVE  /\ Head(q) \in S /\ Head(q) = q[1] /\ Tail(q) \in Seq(S) /\ q = <<Head(q)>> \o Tail(q)
         /\ Len(q) \in Nat \ {0} /\ Len(Tail(q)) = Len(q) - 1
         /\ 1 \in DOMAIN q
         /\ \A i \in DOMAIN Tail(q) : i + 1 \in DOMAIN q /\ Tail(q)[i] = q[i + 1]
OBVIOUS

-----------------------------------------------------------------------------
(* What the holds among some frames hold.                                   *)

LEMMA HeldBySolved ==
  ASSUME NEW fs \in Seq(Frames), NEW rel
  PROVE  \E o \in [0..Len(fs) -> Seq(Gots)] :
           /\ o[0] = <<>>
           /\ \A k \in 1..Len(fs) : o[k] = IF Holds(fs[Len(fs) - k + 1], rel)
                                             THEN <<fs[Len(fs) - k + 1].got>> \o o[k - 1] ELSE o[k - 1]
           /\ HeldBy(fs, rel) = o[Len(fs)]
<1> DEFINE N == Len(fs)
           Next1(k, h) == IF Holds(fs[N - k + 1], rel) THEN <<fs[N - k + 1].got>> \o h ELSE h
           step == [n \in Nat |-> [h \in Seq(Gots) |-> IF n + 1 \in 1..N THEN Next1(n + 1, h) ELSE h]]
<1>0. N \in Nat
  OBVIOUS
<1>1. step \in [Nat -> [Seq(Gots) -> Seq(Gots)]]
  <2>1. ASSUME NEW k \in 1..N, NEW h \in Seq(Gots) PROVE Next1(k, h) \in Seq(Gots)
    <3>1. fs[N - k + 1] \in Frames
      <4>1. N - k + 1 \in DOMAIN fs
        BY <1>0
      <4> QED BY <4>1, ElementOf
    <3>2. fs[N - k + 1].got \in Gots
      BY <3>1 DEF Frames
    <3>3. <<fs[N - k + 1].got>> \o h \in Seq(Gots)
      BY <3>2
    <3> QED BY <3>3
  <2> HIDE DEF Next1
  <2> QED BY <2>1
<1>2. PICK g \in [Nat -> Seq(Gots)] : Recurs(g, <<>>, step)
  <2>1. <<>> \in Seq(Gots)
    OBVIOUS
  <2> HIDE DEF step
  <2> QED BY <1>1, <2>1, RecursionSolved
<1> DEFINE h == [k \in 0..N |-> g[k]]
           R(f) == f = [k \in 0..N |-> IF k = 0 THEN <<>> ELSE Next1(k, f[k - 1])]
<1>3. ASSUME NEW k \in 0..N PROVE h[k] = IF k = 0 THEN <<>> ELSE Next1(k, h[k - 1])
  <2>0. k \in Nat
    BY <1>0
  <2>1. g[k] = IF k = 0 THEN <<>> ELSE step[k - 1][g[k - 1]]
    <3> HIDE DEF step
    <3> QED BY <1>2, <2>0 DEF Recurs
  <2>2. CASE k = 0
    <3> HIDE DEF step
    <3> QED BY <2>1, <2>2
  <2>3. CASE k # 0
    <3>1. k - 1 \in Nat /\ k - 1 \in 0..N /\ (k - 1) + 1 = k /\ k \in 1..N
      BY <1>0, <2>3
    <3>2. g[k - 1] \in Seq(Gots)
      BY <1>2, <3>1
    <3>3. step[k - 1][g[k - 1]] = Next1(k, g[k - 1])
      <4> HIDE DEF Next1
      <4> QED BY <3>1, <3>2
    <3> HIDE DEF step, Next1
    <3> QED BY <2>1, <2>3, <3>1, <3>3
  <2> QED BY <2>2, <2>3
<1> HIDE DEF step
<1>4. h[0] = <<>> /\ \A k \in 1..N : h[k] = Next1(k, h[k - 1])
  <2>1. 0 \in 0..N /\ \A k \in 1..N : k \in 0..N /\ k # 0
    BY <1>0
  <2> HIDE DEF h, Next1
  <2> QED BY <1>3, <2>1
<1>5. h \in [0..N -> Seq(Gots)]
  BY <1>0, <1>2
<1>6. R(h)
  <2> SUFFICES ASSUME NEW k \in 0..N PROVE h[k] = IF k = 0 THEN <<>> ELSE Next1(k, h[k - 1])
    OBVIOUS
  <2> HIDE DEF h, Next1
  <2> QED BY <1>3
<1>7. ASSUME NEW f, R(f) PROVE f[N] = h[N]
  <2> DEFINE E == {k \in Nat : k =< N => f[k] = h[k]}
  <2>1. 0 \in E
    <3>1. 0 \in 0..N
      BY <1>0
    <3>2. f[0] = <<>>
      BY <1>7, <3>1
    <3> HIDE DEF h
    <3> QED BY <1>4, <3>2
  <2>2. ASSUME NEW k \in Nat, k \in E PROVE k + 1 \in E
    <3>1. CASE k + 1 =< N
      <4>1. k + 1 \in 0..N /\ k + 1 \in 1..N /\ k + 1 # 0 /\ (k + 1) - 1 = k /\ k =< N
        BY <1>0, <3>1, SMTT(60)
      <4>2. f[k + 1] = Next1(k + 1, f[k])
        <5> HIDE DEF Next1
        <5> QED BY <1>7, <4>1
      <4>3. h[k + 1] = Next1(k + 1, h[k])
        <5> HIDE DEF Next1, h
        <5> QED BY <1>4, <4>1
      <4>4. f[k] = h[k]
        BY <2>2, <4>1
      <4> HIDE DEF h, Next1
      <4> QED BY <4>2, <4>3, <4>4
    <3> QED BY <3>1
  <2>3. Nat \subseteq E
    <3> HIDE DEF E
    <3> QED BY <2>1, <2>2, SetInduction
  <2> HIDE DEF h
  <2> QED BY <1>0, <2>3
<1>8. HeldBy(fs, rel) = h[N]
  <2>1. R(CHOOSE f : R(f))
    <3> HIDE DEF h
    <3>1. \E f : R(f)
      BY <1>6
    <3> QED BY <3>1
  <2>2. HeldBy(fs, rel) = (CHOOSE f : R(f))[N]
    BY DEF HeldBy
  <2>3. \A f : R(f) => f[N] = h[N]
    <3> HIDE DEF h
    <3> QED BY <1>7
  <2> HIDE DEF R, h
  <2>4. (CHOOSE f : R(f))[N] = h[N]
    BY <2>1, <2>3, Zenon
  <2> QED BY <2>2, <2>4
<1> HIDE DEF h
<1> QED BY <1>4, <1>5, <1>8

LEMMA HeldByNone == ASSUME NEW rel PROVE HeldBy(<<>>, rel) = <<>>
<1>1. <<>> \in Seq(Frames)
  OBVIOUS
<1> QED BY <1>1, HeldBySolved

LEMMA HeldByTyped ==
  ASSUME NEW fs \in Seq(Frames), NEW rel
  PROVE  HeldBy(fs, rel) \in Seq(Gots)
<1>1. Len(fs) \in 0..Len(fs)
  OBVIOUS
<1> QED BY <1>1, HeldBySolved

LEMMA HeldByCons ==
  ASSUME NEW fs \in Seq(Frames), NEW fr \in Frames, NEW rel
  PROVE  /\ Holds(fr, rel) => HeldBy(<<fr>> \o fs, rel) = <<fr.got>> \o HeldBy(fs, rel)
         /\ ~Holds(fr, rel) => HeldBy(<<fr>> \o fs, rel) = HeldBy(fs, rel)
<1> DEFINE gs == <<fr>> \o fs
           N == Len(fs)
<1>1. gs \in Seq(Frames) /\ N \in Nat /\ Len(gs) = N + 1 /\ gs[1] = fr /\ \A i \in 1..N : gs[i + 1] = fs[i]
  OBVIOUS
<1> HIDE DEF gs
<1>2. PICK a \in [0..N -> Seq(Gots)] :
        /\ a[0] = <<>>
        /\ \A k \in 1..N : a[k] = IF Holds(fs[N - k + 1], rel)
                                    THEN <<fs[N - k + 1].got>> \o a[k - 1] ELSE a[k - 1]
        /\ HeldBy(fs, rel) = a[N]
  BY HeldBySolved
<1>3. PICK c \in [0..(N + 1) -> Seq(Gots)] :
        /\ c[0] = <<>>
        /\ \A k \in 1..(N + 1) : c[k] = IF Holds(gs[(N + 1) - k + 1], rel)
                                    THEN <<gs[(N + 1) - k + 1].got>> \o c[k - 1] ELSE c[k - 1]
        /\ HeldBy(gs, rel) = c[N + 1]
  <2>1. \E o \in [0..Len(gs) -> Seq(Gots)] :
           /\ o[0] = <<>>
           /\ \A k \in 1..Len(gs) : o[k] = IF Holds(gs[Len(gs) - k + 1], rel)
                                             THEN <<gs[Len(gs) - k + 1].got>> \o o[k - 1] ELSE o[k - 1]
           /\ HeldBy(gs, rel) = o[Len(gs)]
    BY <1>1, HeldBySolved
  <2>2. Len(gs) = N + 1
    BY <1>1
  <2> HIDE DEF N
  <2> QED BY <2>1, <2>2
<1> DEFINE E == {k \in Nat : k =< N => c[k] = a[k]}
<1>4. 0 \in E
  BY <1>2, <1>3
<1>5. ASSUME NEW k \in Nat, k \in E PROVE k + 1 \in E
  <2>1. CASE k + 1 =< N
    <3>1. /\ k + 1 \in 1..N /\ k + 1 \in 1..(N + 1) /\ (k + 1) - 1 = k /\ k =< N
          /\ N - (k + 1) + 1 \in 1..N /\ (N + 1) - (k + 1) + 1 = (N - (k + 1) + 1) + 1
      BY <1>1, <2>1
    <3>2. gs[(N + 1) - (k + 1) + 1] = fs[N - (k + 1) + 1]
      BY <1>1, <3>1
    <3>3. c[k] = a[k]
      BY <1>5, <3>1
    <3>4. a[k + 1] = IF Holds(fs[N - (k + 1) + 1], rel)
                       THEN <<fs[N - (k + 1) + 1].got>> \o a[k] ELSE a[k]
      <4> HIDE DEF N
      <4> QED BY <1>2, <3>1
    <3>5. c[k + 1] = IF Holds(gs[(N + 1) - (k + 1) + 1], rel)
                       THEN <<gs[(N + 1) - (k + 1) + 1].got>> \o c[k] ELSE c[k]
      <4> HIDE DEF N
      <4> QED BY <1>3, <3>1
    <3> HIDE DEF N
    <3> QED BY <3>2, <3>3, <3>4, <3>5
  <2> QED BY <2>1
<1>6. Nat \subseteq E
  <2> HIDE DEF E
  <2> QED BY <1>4, <1>5, SetInduction
<1>7. c[N] = a[N]
  BY <1>1, <1>6, SMTT(60)
<1>8. c[N + 1] = IF Holds(fr, rel) THEN <<fr.got>> \o c[N] ELSE c[N]
  <2>1. N + 1 \in 1..(N + 1) /\ (N + 1) - (N + 1) + 1 = 1 /\ (N + 1) - 1 = N
    BY <1>1
  <2> HIDE DEF N
  <2> QED BY <1>1, <1>3, <2>1
<1> HIDE DEF N
<1> QED BY <1>2, <1>3, <1>7, <1>8 DEF gs

LEMMA HeldByHead ==
  ASSUME NEW gs \in Seq(Frames), gs # <<>>, NEW rel
  PROVE  /\ Holds(Head(gs), rel) => HeldBy(gs, rel) = <<Head(gs).got>> \o HeldBy(Tail(gs), rel)
         /\ ~Holds(Head(gs), rel) => HeldBy(gs, rel) = HeldBy(Tail(gs), rel)
<1> DEFINE f == Head(gs)
           q == Tail(gs)
<1>1. f \in Frames /\ q \in Seq(Frames) /\ gs = <<f>> \o q
  OBVIOUS
<1> HIDE DEF f, q
<1>2. /\ Holds(f, rel) => HeldBy(<<f>> \o q, rel) = <<f.got>> \o HeldBy(q, rel)
      /\ ~Holds(f, rel) => HeldBy(<<f>> \o q, rel) = HeldBy(q, rel)
  BY <1>1, HeldByCons
<1> QED BY <1>1, <1>2 DEF f, q

(* Releasing a socket that none of the frames got changes nothing of what   *)
(* they hold.                                                               *)
Foreign(fs, n) == \A j \in DOMAIN fs : fs[j].got.res = "sockref" => fs[j].got.obj.n # n

LEMMA HeldByForeign ==
  ASSUME NEW fs \in Seq(Frames), NEW rel, NEW n, Foreign(fs, n)
  PROVE  HeldBy(fs, rel \cup {n}) = HeldBy(fs, rel)
<1> DEFINE P(gs) == Foreign(gs, n) => HeldBy(gs, rel \cup {n}) = HeldBy(gs, rel)
           E == {k \in Nat : \A gs \in Seq(Frames) : Len(gs) = k => P(gs)}
<1>1. 0 \in E
  <2>1. ASSUME NEW gs \in Seq(Frames), Len(gs) = 0 PROVE P(gs)
    <3>1. gs = <<>>
      BY <2>1
    <3> QED BY <3>1, HeldByNone
  <2> HIDE DEF P
  <2> QED BY <2>1
<1>2. ASSUME NEW k \in Nat, k \in E PROVE k + 1 \in E
  <2>1. ASSUME NEW gs \in Seq(Frames), Len(gs) = k + 1 PROVE P(gs)
    <3> SUFFICES ASSUME Foreign(gs, n) PROVE HeldBy(gs, rel \cup {n}) = HeldBy(gs, rel)
      OBVIOUS
    <3>1. gs # <<>>
      BY <2>1
    <3>2. /\ Head(gs) \in Frames /\ Tail(gs) \in Seq(Frames) /\ gs = <<Head(gs)>> \o Tail(gs)
          /\ Len(Tail(gs)) = k /\ Head(gs) = gs[1] /\ 1 \in DOMAIN gs
          /\ \A i \in DOMAIN Tail(gs) : i + 1 \in DOMAIN gs /\ Tail(gs)[i] = gs[i + 1]
      BY <2>1, <3>1, Uncons
    <3>3. Foreign(Tail(gs), n) /\ (Head(gs).got.res = "sockref" => Head(gs).got.obj.n # n)
      BY <2>1, <3>2 DEF Foreign
    <3>4. HeldBy(Tail(gs), rel \cup {n}) = HeldBy(Tail(gs), rel)
      <4>1. P(Tail(gs))
        <5> HIDE DEF P
        <5> QED BY <1>2, <3>2
      <4> QED BY <3>3, <4>1
    <3>5. Holds(Head(gs), rel \cup {n}) = Holds(Head(gs), rel)
      BY <3>3 DEF Holds
    <3>6. \A r : /\ Holds(Head(gs), r) => HeldBy(gs, r) = <<Head(gs).got>> \o HeldBy(Tail(gs), r)
                 /\ ~Holds(Head(gs), r) => HeldBy(gs, r) = HeldBy(Tail(gs), r)
      BY <3>1, HeldByHead
    <3> QED BY <3>4, <3>5, <3>6
  <2> HIDE DEF P
  <2> QED BY <2>1
<1>3. Nat \subseteq E
  <2> HIDE DEF E
  <2> QED BY <1>1, <1>2, SetInduction
<1>4. Len(fs) \in Nat
  OBVIOUS
<1>5. P(fs)
  <2> HIDE DEF P
  <2> QED BY <1>3, <1>4
<1> QED BY <1>5

(* What they hold is among what they got, and the other way round.          *)
LEMMA HeldByEntries ==
  ASSUME NEW fs \in Seq(Frames), NEW rel
  PROVE  /\ \A i \in DOMAIN HeldBy(fs, rel) :
              \E j \in DOMAIN fs : Holds(fs[j], rel) /\ HeldBy(fs, rel)[i] = fs[j].got
         /\ \A j \in DOMAIN fs : Holds(fs[j], rel) =>
              \E i \in DOMAIN HeldBy(fs, rel) : HeldBy(fs, rel)[i] = fs[j].got
<1> DEFINE P(gs) ==
             /\ \A i \in DOMAIN HeldBy(gs, rel) :
                  \E j \in DOMAIN gs : Holds(gs[j], rel) /\ HeldBy(gs, rel)[i] = gs[j].got
             /\ \A j \in DOMAIN gs : Holds(gs[j], rel) =>
                  \E i \in DOMAIN HeldBy(gs, rel) : HeldBy(gs, rel)[i] = gs[j].got
           E == {k \in Nat : \A gs \in Seq(Frames) : Len(gs) = k => P(gs)}
<1>1. 0 \in E
  <2>1. ASSUME NEW gs \in Seq(Frames), Len(gs) = 0 PROVE P(gs)
    <3>1. gs = <<>>
      BY <2>1
    <3>2. HeldBy(gs, rel) = <<>>
      BY <3>1, HeldByNone
    <3> QED BY <3>1, <3>2
  <2> HIDE DEF P
  <2> QED BY <2>1
<1>2. ASSUME NEW k \in Nat, k \in E PROVE k + 1 \in E
  <2>1. ASSUME NEW gs \in Seq(Frames), Len(gs) = k + 1 PROVE P(gs)
    <3>1. gs # <<>>
      BY <2>1
    <3>2. /\ Head(gs) \in Frames /\ Tail(gs) \in Seq(Frames) /\ gs = <<Head(gs)>> \o Tail(gs)
          /\ Len(Tail(gs)) = k
      BY <2>1, <3>1, Uncons
    <3> DEFINE q == Tail(gs)
               f == Head(gs)
               H == HeldBy(q, rel)
    <3>3. P(q)
      BY <1>2, <3>2
    <3>4. H \in Seq(Gots) /\ f.got \in Gots
      BY <3>2, HeldByTyped DEF Frames
    <3>5. /\ Holds(f, rel) => HeldBy(gs, rel) = <<f.got>> \o H
          /\ ~Holds(f, rel) => HeldBy(gs, rel) = H
      BY <3>1, HeldByHead
    <3>6. /\ gs[1] = f /\ 1 \in DOMAIN gs
          /\ \A j \in DOMAIN q : j + 1 \in DOMAIN gs /\ gs[j + 1] = q[j]
          /\ \A j \in DOMAIN gs : j = 1 \/ (j - 1 \in DOMAIN q /\ gs[j] = q[j - 1])
      <4>1. f \in Frames /\ q \in Seq(Frames) /\ gs = <<f>> \o q
        BY <3>2
      <4> HIDE DEF f, q
      <4> QED BY <4>1, ConsParts
    <3> HIDE DEF q, f
    <3>7. CASE ~Holds(f, rel)
      <4> HIDE DEF H
      <4>1. HeldBy(gs, rel) = H
        BY <3>5, <3>7
      <4> QED BY <3>3, <3>6, <3>7, <4>1, SMTT(60) DEF H
    <3>8. CASE Holds(f, rel)
      <4> DEFINE G == <<f.got>> \o H
      <4>1. /\ 1 \in DOMAIN G /\ G[1] = f.got
            /\ \A i \in DOMAIN H : i + 1 \in DOMAIN G /\ G[i + 1] = H[i]
            /\ \A i \in DOMAIN G : i = 1 \/ (i - 1 \in DOMAIN H /\ G[i] = H[i - 1])
        <5> HIDE DEF H
        <5> QED BY <3>4, ConsParts
      <4>2. HeldBy(gs, rel) = G
        BY <3>5, <3>8
      <4> HIDE DEF G
      <4>3. ASSUME NEW i \in DOMAIN G PROVE \E j \in DOMAIN gs : Holds(gs[j], rel) /\ G[i] = gs[j].got
        <5>1. CASE i = 1
          BY <3>6, <3>8, <4>1, <5>1
        <5>2. CASE i # 1
          <6>1. i - 1 \in DOMAIN H /\ G[i] = H[i - 1]
            BY <4>1, <5>2
          <6>2. PICK j \in DOMAIN q : Holds(q[j], rel) /\ H[i - 1] = q[j].got
            BY <3>3, <6>1
          <6>3. j + 1 \in DOMAIN gs /\ gs[j + 1] = q[j]
            BY <3>6
          <6> HIDE DEF H
          <6> QED BY <6>1, <6>2, <6>3
        <5> QED BY <5>1, <5>2
      <4>4. ASSUME NEW j \in DOMAIN gs, Holds(gs[j], rel) PROVE \E i \in DOMAIN G : G[i] = gs[j].got
        <5>1. CASE j = 1
          BY <3>6, <4>1, <5>1
        <5>2. CASE j # 1
          <6>1. j - 1 \in DOMAIN q /\ gs[j] = q[j - 1]
            BY <3>6, <5>2
          <6>2. PICK i \in DOMAIN H : H[i] = q[j - 1].got
            BY <3>3, <4>4, <6>1
          <6>3. i + 1 \in DOMAIN G /\ G[i + 1] = H[i]
            BY <4>1
          <6> HIDE DEF H
          <6> QED BY <6>1, <6>2, <6>3
        <5> QED BY <5>1, <5>2
      <4> QED BY <4>2, <4>3, <4>4
    <3> QED BY <3>7, <3>8
  <2> HIDE DEF P
  <2> QED BY <2>1
<1>3. Nat \subseteq E
  <2> HIDE DEF E
  <2> QED BY <1>1, <1>2, SetInduction
<1>4. Len(fs) \in Nat
  OBVIOUS
<1>5. P(fs)
  <2> HIDE DEF P
  <2> QED BY <1>3, <1>4
<1> QED BY <1>5

-----------------------------------------------------------------------------
(* The stack and its typings.                                               *)

LEMMA StackPopped ==
  ASSUME NEW fs, NEW T, NEW base, Stacked(fs, T, base), fs # <<>>
  PROVE  /\ Stacked(Tail(fs), Tail(T), base)
         /\ Head(fs) \in Frames /\ fs \in Seq(Frames) /\ Tail(fs) \in Seq(Frames)
         /\ T \in Seq(Typings) /\ Tail(T) \in Seq(Typings) /\ Tail(T) # <<>>
         /\ Good(T[1]) /\ Good(T[2]) /\ Link(Head(fs), T[1], T[2], base)
         /\ Tail(T)[1] = T[2]
         /\ Tail(T)[Len(Tail(T))] = T[Len(T)]
<1>1. /\ fs \in Seq(Frames) /\ T \in Seq(Typings) /\ Len(T) = Len(fs) + 1
      /\ \A i \in DOMAIN T : Good(T[i])
      /\ \A i \in DOMAIN fs : Link(fs[i], T[i], T[i + 1], base)
  BY DEF Stacked
<1>2. /\ Head(fs) \in Frames /\ Head(fs) = fs[1] /\ Tail(fs) \in Seq(Frames)
      /\ Len(fs) \in Nat \ {0} /\ Len(Tail(fs)) = Len(fs) - 1 /\ 1 \in DOMAIN fs
      /\ \A i \in DOMAIN Tail(fs) : i + 1 \in DOMAIN fs /\ Tail(fs)[i] = fs[i + 1]
  BY <1>1, Uncons
<1>3. T # <<>>
  BY <1>1, <1>2
<1>4. /\ Tail(T) \in Seq(Typings) /\ Len(T) \in Nat \ {0} /\ Len(Tail(T)) = Len(T) - 1 /\ 1 \in DOMAIN T
      /\ \A i \in DOMAIN Tail(T) : i + 1 \in DOMAIN T /\ Tail(T)[i] = T[i + 1]
  BY <1>1, <1>3, Uncons
<1>5. /\ DOMAIN T = 1..Len(T) /\ DOMAIN Tail(T) = 1..Len(Tail(T)) /\ DOMAIN Tail(fs) = 1..Len(Tail(fs))
  BY <1>1, <1>2, <1>4
<1>6. \A i \in DOMAIN Tail(T) : Good(Tail(T)[i])
  BY <1>1, <1>4
<1>7. ASSUME NEW i \in DOMAIN Tail(fs) PROVE Link(Tail(fs)[i], Tail(T)[i], Tail(T)[i + 1], base)
  <2>1. i \in DOMAIN Tail(T) /\ i + 1 \in DOMAIN Tail(T)
    BY <1>1, <1>2, <1>4, <1>5
  <2>2. Tail(T)[i] = T[i + 1] /\ Tail(T)[i + 1] = T[(i + 1) + 1]
    BY <1>4, <2>1
  <2> QED BY <1>1, <1>2, <2>2
<1>8. Stacked(Tail(fs), Tail(T), base)
  <2>1. Len(Tail(T)) = Len(Tail(fs)) + 1
    BY <1>1, <1>2, <1>4
  <2> QED BY <1>2, <1>4, <1>6, <1>7, <2>1 DEF Stacked
<1>9. /\ 1 \in DOMAIN Tail(T) /\ 2 \in DOMAIN T /\ Len(Tail(T)) \in DOMAIN Tail(T) /\ Len(Tail(T)) + 1 = Len(T)
  BY <1>1, <1>2, <1>4, <1>5
<1>10. Tail(T)[1] = T[2] /\ Tail(T)[Len(Tail(T))] = T[Len(T)] /\ Tail(T) # <<>>
  <2>1. Tail(T)[1] = T[1 + 1] /\ Tail(T)[Len(Tail(T))] = T[Len(Tail(T)) + 1]
    BY <1>4, <1>9
  <2>2. Len(Tail(T)) >= 1
    BY <1>4, <1>5, <1>9
  <2>3. Tail(T) # <<>>
    BY <1>4, <2>2, SMTT(60)
  <2>4. Tail(T)[Len(Tail(T))] = T[Len(T)]
    BY <1>9, <2>1
  <2>5. Tail(T)[1] = T[2]
    <3>1. 1 + 1 = 2
      OBVIOUS
    <3> QED BY <2>1, <3>1, Zenon
  <2> QED BY <2>3, <2>4, <2>5
<1>11. Link(fs[1], T[1], T[1 + 1], base)
  BY <1>1, <1>2
<1> QED BY <1>1, <1>2, <1>4, <1>8, <1>9, <1>10, <1>11

LEMMA StackPushed ==
  ASSUME NEW fs, NEW T, NEW base, Stacked(fs, T, base),
         NEW fr \in Frames, NEW t, Good(t), Link(fr, t, T[1], base)
  PROVE  /\ Stacked(<<fr>> \o fs, <<t>> \o T, base)
         /\ (<<t>> \o T)[1] = t
         /\ (<<t>> \o T)[Len(<<t>> \o T)] = T[Len(T)]
<1>1. /\ fs \in Seq(Frames) /\ T \in Seq(Typings) /\ Len(T) = Len(fs) + 1
      /\ \A i \in DOMAIN T : Good(T[i])
      /\ \A i \in DOMAIN fs : Link(fs[i], T[i], T[i + 1], base)
  BY DEF Stacked
<1>2. t \in Typings
  BY DEF Good
<1> DEFINE gs == <<fr>> \o fs
           U == <<t>> \o T
<1>3. /\ gs \in Seq(Frames) /\ Len(fs) \in Nat /\ Len(gs) = Len(fs) + 1 /\ gs[1] = fr /\ 1 \in DOMAIN gs
      /\ \A i \in DOMAIN fs : i + 1 \in DOMAIN gs /\ gs[i + 1] = fs[i]
      /\ \A i \in DOMAIN gs : i = 1 \/ (i - 1 \in DOMAIN fs /\ gs[i] = fs[i - 1])
  BY <1>1, ConsParts
<1>4. /\ U \in Seq(Typings) /\ Len(U) = Len(T) + 1 /\ U[1] = t
      /\ \A i \in DOMAIN T : i + 1 \in DOMAIN U /\ U[i + 1] = T[i]
      /\ \A i \in DOMAIN U : i = 1 \/ (i - 1 \in DOMAIN T /\ U[i] = T[i - 1])
  BY <1>1, <1>2, ConsParts, SMTT(60)
<1> HIDE DEF gs, U
<1>5. DOMAIN T = 1..Len(T) /\ DOMAIN gs = 1..Len(gs) /\ DOMAIN fs = 1..Len(fs)
  BY <1>1, <1>3
<1>6. \A i \in DOMAIN U : Good(U[i])
  BY <1>1, <1>4
<1>7. ASSUME NEW i \in DOMAIN gs PROVE Link(gs[i], U[i], U[i + 1], base)
  <2>1. i \in DOMAIN T /\ U[i + 1] = T[i]
    <3>1. i \in DOMAIN T
      BY <1>1, <1>3, <1>5
    <3> QED BY <1>4, <3>1
  <2>2. CASE i = 1
    BY <1>3, <1>4, <2>1, <2>2
  <2>3. CASE i # 1
    <3>1. i - 1 \in DOMAIN fs /\ gs[i] = fs[i - 1] /\ i - 1 \in DOMAIN T /\ (i - 1) + 1 = i
      BY <1>1, <1>3, <1>5, <2>3
    <3>2. U[i] = T[i - 1]
      BY <1>4, <3>1
    <3>3. Link(fs[i - 1], T[i - 1], T[(i - 1) + 1], base)
      BY <1>1, <3>1
    <3> QED BY <2>1, <3>1, <3>2, <3>3
  <2> QED BY <2>2, <2>3
<1>8. Len(U) = Len(gs) + 1
  BY <1>1, <1>3, <1>4
<1>9. U[Len(U)] = T[Len(T)]
  <2>1. Len(T) \in DOMAIN T
    BY <1>1, <1>3, <1>5
  <2> QED BY <1>4, <2>1
<1>10. Stacked(gs, U, base)
  BY <1>3, <1>4, <1>6, <1>7, <1>8 DEF Stacked
<1> QED BY <1>4, <1>9, <1>10 DEF gs, U

LEMMA StackOver ==
  ASSUME NEW fs, NEW T, NEW base, Stacked(fs, T, base),
         NEW fr \in Frames, NEW t, Good(t), Link(fr, t, T[1], base)
  PROVE  \E U : Stacked(<<fr>> \o fs, U, base) /\ U[1] = t /\ U[Len(U)] = T[Len(T)]
<1> DEFINE U == <<t>> \o T
<1>1. Stacked(<<fr>> \o fs, U, base) /\ U[1] = t /\ U[Len(U)] = T[Len(T)]
  BY StackPushed
<1> HIDE DEF U
<1> QED BY <1>1

LEMMA StackReplaced ==
  ASSUME NEW fs, NEW T, NEW base, Stacked(fs, T, base), fs # <<>>,
         NEW fr \in Frames, NEW t, Good(t), Link(fr, t, T[2], base)
  PROVE  \E U : Stacked(<<fr>> \o Tail(fs), U, base) /\ U[1] = t /\ U[Len(U)] = T[Len(T)]
<1> DEFINE g == Tail(fs)
           V == Tail(T)
<1>1. Stacked(g, V, base) /\ V[1] = T[2] /\ V[Len(V)] = T[Len(T)]
  BY StackPopped
<1> HIDE DEF g, V
<1>2. PICK U : Stacked(<<fr>> \o g, U, base) /\ U[1] = t /\ U[Len(U)] = V[Len(V)]
  BY <1>1, StackOver
<1> QED BY <1>1, <1>2 DEF g

LEMMA StackEmpty ==
  ASSUME NEW T, NEW base, Stacked(<<>>, T, base)
  PROVE  Len(T) = 1 /\ Good(T[1])
<1>1. T \in Seq(Typings) /\ Len(T) = Len(<<>>) + 1 /\ \A i \in DOMAIN T : Good(T[i])
  BY DEF Stacked
<1>2. Len(T) = 1 /\ 1 \in DOMAIN T
  BY <1>1
<1> QED BY <1>1, <1>2

(* The holds around the innermost statement are those of the stack.         *)
LEMMA HoldsOfStack ==
  ASSUME NEW fs, NEW T, NEW base, Stacked(fs, T, base), T[Len(T)].own = <<>>, NEW rel
  PROVE  HeldBy(fs, rel) = HeldBy(T[1].own, rel)
<1> DEFINE E == {k \in Nat : \A gs \in Seq(Frames), U \in Seq(Typings) :
                   Len(gs) = k /\ Stacked(gs, U, base) /\ U[Len(U)].own = <<>>
                     => HeldBy(gs, rel) = HeldBy(U[1].own, rel)}
<1>1. 0 \in E
  <2>1. ASSUME NEW gs \in Seq(Frames), NEW U \in Seq(Typings), Len(gs) = 0, Stacked(gs, U, base),
               U[Len(U)].own = <<>>
        PROVE  HeldBy(gs, rel) = HeldBy(U[1].own, rel)
    <3>1. gs = <<>>
      BY <2>1
    <3>2. Len(U) = 1
      BY <2>1, <3>1, StackEmpty
    <3> QED BY <2>1, <3>1, <3>2, HeldByNone
  <2> QED BY <2>1
<1>2. ASSUME NEW k \in Nat, k \in E PROVE k + 1 \in E
  <2>1. ASSUME NEW gs \in Seq(Frames), NEW U \in Seq(Typings), Len(gs) = k + 1, Stacked(gs, U, base),
               U[Len(U)].own = <<>>
        PROVE  HeldBy(gs, rel) = HeldBy(U[1].own, rel)
    <3>1. gs # <<>>
      BY <2>1
    <3>2. /\ Stacked(Tail(gs), Tail(U), base) /\ Head(gs) \in Frames
          /\ Tail(gs) \in Seq(Frames) /\ Tail(U) \in Seq(Typings)
          /\ Good(U[1]) /\ Good(U[2]) /\ Link(Head(gs), U[1], U[2], base)
          /\ Tail(U)[1] = U[2] /\ Tail(U)[Len(Tail(U))] = U[Len(U)]
      BY <2>1, <3>1, StackPopped
    <3>3. Len(Tail(gs)) = k /\ gs = <<Head(gs)>> \o Tail(gs)
      BY <2>1, <3>1, Uncons
    <3>4. HeldBy(Tail(gs), rel) = HeldBy(U[2].own, rel)
      BY <1>2, <2>1, <3>2, <3>3, ZenonT(60)
    <3>5. /\ Holds(Head(gs), rel) => HeldBy(gs, rel) = <<Head(gs).got>> \o HeldBy(Tail(gs), rel)
          /\ ~Holds(Head(gs), rel) => HeldBy(gs, rel) = HeldBy(Tail(gs), rel)
      BY <3>1, HeldByHead
    <3>6. CASE Head(gs).at = "hold"
      <4>1. U[1].own = <<Head(gs)>> \o U[2].own
        BY <3>2, <3>6 DEF Link, HoldLink
      <4>2. U[2].own \in Seq(Frames)
        BY <3>2 DEF Good, Typings
      <4>3. \A f \in Frames : \A q \in Seq(Frames) :
              /\ Holds(f, rel) => HeldBy(<<f>> \o q, rel) = <<f.got>> \o HeldBy(q, rel)
              /\ ~Holds(f, rel) => HeldBy(<<f>> \o q, rel) = HeldBy(q, rel)
        BY HeldByCons
      <4>4. /\ Holds(Head(gs), rel) => HeldBy(U[1].own, rel) = <<Head(gs).got>> \o HeldBy(U[2].own, rel)
            /\ ~Holds(Head(gs), rel) => HeldBy(U[1].own, rel) = HeldBy(U[2].own, rel)
        BY <3>2, <4>1, <4>2, <4>3, ZenonT(60)
      <4> QED BY <3>4, <3>5, <4>4
    <3>7. CASE Head(gs).at # "hold"
      <4>1. Head(gs).at \in {"block", "loop", "try", "hold"}
        BY <3>2 DEF Frames
      <4>2. U[1].own = U[2].own
        BY <3>2, <3>7, <4>1 DEF Link, BlockLink, LoopLink, TryLink
      <4>3. ~Holds(Head(gs), rel)
        BY <3>7 DEF Holds
      <4> QED BY <3>4, <3>5, <4>2, <4>3
    <3> QED BY <3>6, <3>7
  <2> QED BY <2>1
<1>3. Nat \subseteq E
  <2> HIDE DEF E
  <2> QED BY <1>1, <1>2, SetInduction
<1>4. fs \in Seq(Frames) /\ T \in Seq(Typings) /\ Len(fs) \in Nat
  BY DEF Stacked
<1> QED BY <1>3, <1>4
-----------------------------------------------------------------------------
(* The store, as the scope over it grows and shrinks.                       *)

LEMMA LocalsTyped ==
  ASSUME NEW K \in Contexts
  PROVE  /\ K.locals \in Seq([x : STRING, ty : Types]) /\ Len(K.locals) \in Nat
         /\ DOMAIN K.locals = 1..Len(K.locals)
         /\ \A i \in DOMAIN K.locals : K.locals[i].x \in STRING /\ K.locals[i].ty \in Types
<1>1. K.locals \in Seq([x : STRING, ty : Types])
  BY DEF Contexts
<1>2. Len(K.locals) \in Nat /\ DOMAIN K.locals = 1..Len(K.locals)
  BY <1>1
<1>3. ASSUME NEW i \in DOMAIN K.locals PROVE K.locals[i].x \in STRING /\ K.locals[i].ty \in Types
  <2>1. K.locals[i] \in [x : STRING, ty : Types]
    BY <1>1, ElementOf
  <2> QED BY <2>1
<1> QED BY <1>1, <1>2, <1>3

LEMMA StoreTyped ==
  ASSUME NEW K \in Contexts, NEW loc, NEW lay, NEW base \in Nat, NEW moved, NEW live,
         StoreOk(loc, lay, K, base, moved, live)
  PROVE  /\ loc \in Seq(Bindings) /\ Len(loc) = Len(K.locals) + base /\ Len(K.locals) \in Nat
         /\ DOMAIN loc = 1..Len(loc) /\ DOMAIN K.locals = 1..Len(K.locals)
         /\ DOMAIN K.locals \subseteq DOMAIN loc
<1>1. loc \in Seq(Bindings) /\ Len(loc) = Len(K.locals) + base
  BY DEF StoreOk
<1> QED BY <1>1, LocalsTyped

(* The same scope, with less asked of it; under another layout, when no     *)
(* view must be live.                                                       *)
LEMMA StoreWeaker ==
  ASSUME NEW K, NEW L, L.locals = K.locals, NEW loc, NEW lay, NEW lay2, NEW base,
         NEW moved, NEW live, NEW moved2, NEW live2,
         StoreOk(loc, lay, K, base, moved, live),
         moved \cap NamesOf(K) \subseteq moved2, live2 \cap NamesOf(K) \subseteq live,
         lay2 = lay \/ live2 \cap ViewsInScope(K) = {}
  PROVE  StoreOk(loc, lay2, L, base, moved2, live2)
<1>1. ASSUME NEW i \in DOMAIN K.locals
      PROVE  HoldsAs(loc[i], K.locals[i].ty, lay2, K.locals[i].x \in moved2, K.locals[i].x \in live2)
  <2>1. HoldsAs(loc[i], K.locals[i].ty, lay, K.locals[i].x \in moved, K.locals[i].x \in live)
    BY DEF StoreOk
  <2>2. K.locals[i].x \in NamesOf(K)
    BY DEF NamesOf
  <2>3. K.locals[i].ty = "view" => K.locals[i].x \in ViewsInScope(K)
    BY DEF ViewsInScope
  <2> QED BY <2>1, <2>2, <2>3 DEF HoldsAs
<1> QED BY <1>1 DEF StoreOk

LEMMA StorePushed ==
  ASSUME NEW K \in Contexts, NEW L \in Contexts, NEW e, L.locals = <<e>> \o K.locals,
         NEW loc, NEW lay, NEW base \in Nat, NEW moved, NEW live, StoreOk(loc, lay, K, base, moved, live),
         NEW b \in Bindings, e \in [x : STRING, ty : Types], b.x = e.x,
         HoldsAs(b, e.ty, lay, e.x \in moved, e.x \in live)
  PROVE  StoreOk(<<b>> \o loc, lay, L, base, moved, live)
<1> DEFINE r == <<b>> \o loc
           q == L.locals
<1>1. /\ loc \in Seq(Bindings) /\ Len(loc) = Len(K.locals) + base /\ Len(K.locals) \in Nat
      /\ DOMAIN loc = 1..Len(loc) /\ DOMAIN K.locals = 1..Len(K.locals)
  BY StoreTyped
<1>2. /\ r \in Seq(Bindings) /\ Len(r) = Len(loc) + 1 /\ r[1] = b
      /\ \A i \in DOMAIN r : i = 1 \/ (i - 1 \in DOMAIN loc /\ r[i] = loc[i - 1])
  BY <1>1, ConsParts, SMTT(60)
<1>3. /\ Len(q) = Len(K.locals) + 1 /\ q[1] = e
      /\ \A i \in DOMAIN q : i = 1 \/ (i - 1 \in DOMAIN K.locals /\ q[i] = K.locals[i - 1])
  <2>1. K.locals \in Seq([x : STRING, ty : Types])
    BY LocalsTyped
  <2> HIDE DEF q
  <2>2. q = <<e>> \o K.locals
    BY DEF q
  <2>3. \A k \in Seq([x : STRING, ty : Types]) :
          /\ Len(<<e>> \o k) = Len(k) + 1 /\ (<<e>> \o k)[1] = e
          /\ \A i \in DOMAIN (<<e>> \o k) : i = 1 \/ (i - 1 \in DOMAIN k /\ (<<e>> \o k)[i] = k[i - 1])
    BY ConsParts
  <2> QED BY <2>1, <2>2, <2>3
<1>4. DOMAIN q = 1..Len(q) /\ DOMAIN r = 1..Len(r)
  BY <1>2, LocalsTyped
<1> HIDE DEF r, q
<1>5. ASSUME NEW i \in DOMAIN q
      PROVE  r[i].x = q[i].x /\ HoldsAs(r[i], q[i].ty, lay, q[i].x \in moved, q[i].x \in live)
  <2>1. CASE i = 1
    BY <1>2, <1>3, <2>1
  <2>2. CASE i # 1
    <3>1. i - 1 \in DOMAIN K.locals /\ q[i] = K.locals[i - 1] /\ i \in DOMAIN r
      BY <1>1, <1>2, <1>3, <1>4, <2>2, SMTT(60)
    <3>2. r[i] = loc[i - 1]
      BY <1>2, <2>2, <3>1
    <3>3. /\ loc[i - 1].x = K.locals[i - 1].x
          /\ HoldsAs(loc[i - 1], K.locals[i - 1].ty, lay, K.locals[i - 1].x \in moved, K.locals[i - 1].x \in live)
      BY <3>1 DEF StoreOk
    <3> QED BY <3>1, <3>2, <3>3
  <2> QED BY <2>1, <2>2
<1>6. ASSUME NEW i \in DOMAIN r, i \notin DOMAIN q PROVE r[i].kind # "cast"
  <2>1. i - 1 \in DOMAIN loc /\ i - 1 \notin DOMAIN K.locals /\ i # 1
    BY <1>1, <1>2, <1>3, <1>4, <1>6, SMTT(60)
  <2>2. r[i] = loc[i - 1]
    BY <1>2, <2>1
  <2>3. loc[i - 1].kind # "cast"
    BY <2>1 DEF StoreOk
  <2> QED BY <2>2, <2>3
<1>7. Len(r) = Len(q) + base
  BY <1>1, <1>2, <1>3
<1> QED BY <1>2, <1>5, <1>6, <1>7 DEF StoreOk, r, q

LEMMA StorePopped ==
  ASSUME NEW K \in Contexts, NEW L \in Contexts, NEW e, L.locals = <<e>> \o K.locals,
         e \in [x : STRING, ty : Types],
         NEW loc, NEW lay, NEW base \in Nat, NEW moved, NEW live, StoreOk(loc, lay, L, base, moved, live)
  PROVE  /\ StoreOk(Tail(loc), lay, K, base, moved, live) /\ loc # <<>>
         /\ Len(loc) = Len(K.locals) + base + 1
<1> DEFINE r == Tail(loc)
           q == L.locals
<1>1. /\ loc \in Seq(Bindings) /\ Len(loc) = Len(q) + base /\ Len(q) \in Nat
      /\ DOMAIN loc = 1..Len(loc) /\ DOMAIN q = 1..Len(q)
  BY StoreTyped
<1>2. K.locals \in Seq([x : STRING, ty : Types]) /\ Len(K.locals) \in Nat /\ DOMAIN K.locals = 1..Len(K.locals)
  BY LocalsTyped
<1>3. /\ Len(q) = Len(K.locals) + 1
      /\ \A i \in DOMAIN K.locals : i + 1 \in DOMAIN q /\ q[i + 1] = K.locals[i]
  <2> HIDE DEF q
  <2>2. q = <<e>> \o K.locals
    BY DEF q
  <2>3. \A k \in Seq([x : STRING, ty : Types]) :
          /\ Len(<<e>> \o k) = Len(k) + 1
          /\ \A i \in DOMAIN k : i + 1 \in DOMAIN (<<e>> \o k) /\ (<<e>> \o k)[i + 1] = k[i]
    BY ConsParts, SMTT(60)
  <2> QED BY <1>2, <2>2, <2>3
<1>4. loc # <<>>
  BY <1>1, <1>2, <1>3
<1>5. /\ r \in Seq(Bindings) /\ Len(r) = Len(loc) - 1
      /\ \A i \in DOMAIN r : i + 1 \in DOMAIN loc /\ r[i] = loc[i + 1]
  BY <1>1, <1>4, Uncons
<1>6. DOMAIN r = 1..Len(r)
  BY <1>5
<1> HIDE DEF r, q
<1>7. ASSUME NEW i \in DOMAIN K.locals
      PROVE  /\ r[i].x = K.locals[i].x
             /\ HoldsAs(r[i], K.locals[i].ty, lay, K.locals[i].x \in moved, K.locals[i].x \in live)
  <2>1. i \in DOMAIN r /\ i + 1 \in DOMAIN q
    BY <1>1, <1>2, <1>3, <1>5, <1>6, SMTT(60)
  <2>2. r[i] = loc[i + 1] /\ q[i + 1] = K.locals[i]
    BY <1>3, <1>5, <2>1
  <2>3. /\ loc[i + 1].x = q[i + 1].x
        /\ HoldsAs(loc[i + 1], q[i + 1].ty, lay, q[i + 1].x \in moved, q[i + 1].x \in live)
    BY <2>1 DEF StoreOk, q
  <2> QED BY <2>2, <2>3
<1>8. ASSUME NEW i \in DOMAIN r, i \notin DOMAIN K.locals PROVE r[i].kind # "cast"
  <2>1. i + 1 \in DOMAIN loc /\ i + 1 \notin DOMAIN q
    BY <1>1, <1>2, <1>3, <1>5, <1>6, <1>8
  <2>2. loc[i + 1].kind # "cast"
    BY <2>1 DEF StoreOk, q
  <2> QED BY <1>5, <2>2
<1>9. Len(r) = Len(K.locals) + base /\ Len(loc) = Len(K.locals) + base + 1
  BY <1>1, <1>2, <1>3, <1>5, SMTT(60)
<1> QED BY <1>4, <1>5, <1>7, <1>8, <1>9 DEF StoreOk, r
(* The scope L opens over K by one entry e, and the two stores.             *)
LEMMA LocalsPushed ==
  ASSUME NEW K \in Contexts, NEW L, NEW e \in [x : STRING, ty : Types], L.locals = <<e>> \o K.locals
  PROVE  /\ L.locals \in Seq([x : STRING, ty : Types])
         /\ Len(L.locals) = Len(K.locals) + 1 /\ L.locals[1] = e /\ Len(K.locals) \in Nat
         /\ DOMAIN K.locals = 1..Len(K.locals) /\ DOMAIN L.locals = 1..(Len(K.locals) + 1)
         /\ \A i \in DOMAIN K.locals : i + 1 \in DOMAIN L.locals /\ L.locals[i + 1] = K.locals[i]
         /\ \A i \in DOMAIN L.locals : i = 1 \/ (i - 1 \in DOMAIN K.locals /\ L.locals[i] = K.locals[i - 1])
<1> DEFINE k == K.locals
           q == L.locals
<1>1. k \in Seq([x : STRING, ty : Types]) /\ Len(k) \in Nat /\ DOMAIN k = 1..Len(k)
  BY LocalsTyped
<1>2. q = <<e>> \o k
  OBVIOUS
<1> HIDE DEF k, q
<1>3. /\ q \in Seq([x : STRING, ty : Types]) /\ Len(q) = Len(k) + 1 /\ q[1] = e
      /\ \A i \in DOMAIN k : i + 1 \in DOMAIN q /\ q[i + 1] = k[i]
      /\ \A i \in DOMAIN q : i = 1 \/ (i - 1 \in DOMAIN k /\ q[i] = k[i - 1])
  BY <1>1, <1>2, ConsParts, SMTT(60)
<1>4. DOMAIN q = 1..(Len(k) + 1)
  BY <1>3
<1> QED BY <1>1, <1>3, <1>4 DEF k, q

(* The same in two opaque words: what the scopes of a pushed name satisfy.  *)
Opens(L, K, e) == L.locals = <<e>> \o K.locals
Shifted(L, K) ==
  /\ Len(K.locals) \in Nat /\ Len(L.locals) = Len(K.locals) + 1
  /\ DOMAIN K.locals = 1..Len(K.locals) /\ DOMAIN L.locals = 1..(Len(K.locals) + 1)
  /\ \A i \in DOMAIN K.locals : i + 1 \in DOMAIN L.locals /\ L.locals[i + 1] = K.locals[i]
LEMMA OpensShifts ==
  ASSUME NEW K \in Contexts, NEW L, NEW e \in [x : STRING, ty : Types], Opens(L, K, e)
  PROVE  Shifted(L, K)
<1>1. L.locals = <<e>> \o K.locals
  BY DEF Opens
<1> QED BY <1>1, LocalsPushed, SMTT(60) DEF Shifted

LEMMA GuardPushed ==
  ASSUME NEW K \in Contexts, NEW L, NEW e \in [x : STRING, ty : Types], L.locals = <<e>> \o K.locals,
         K.derived \subseteq L.derived,
         NEW loc \in Seq(Bindings), DOMAIN K.locals \subseteq DOMAIN loc, NEW b \in Bindings,
         NEW i \in DOMAIN K.locals, Guarded(loc, K, i)
  PROVE  Guarded(<<b>> \o loc, L, i + 1)
<1> DEFINE r == <<b>> \o loc
<1>1. \A j \in DOMAIN loc : j + 1 \in DOMAIN r /\ r[j + 1] = loc[j]
  BY ConsParts
<1>2. /\ Len(K.locals) \in Nat /\ DOMAIN K.locals = 1..Len(K.locals)
      /\ \A j \in DOMAIN K.locals : j + 1 \in DOMAIN L.locals /\ L.locals[j + 1] = K.locals[j]
  <2>1. Opens(L, K, e)
    BY DEF Opens
  <2>2. Shifted(L, K)
    BY <2>1, OpensShifts, Zenon
  <2> QED BY <2>2 DEF Shifted
<1> HIDE DEF r
<1>3. PICK j \in DOMAIN K.locals :
        /\ i < j /\ K.locals[j].ty = "sock" /\ loc[j].kind = "own" /\ loc[j].n = loc[i].of
        /\ \E d \in K.derived : d[2] = K.locals[j].x /\ \E k \in i..(j - 1) : K.locals[k].x = d[1]
  BY DEF Guarded
<1>4. PICK d \in K.derived : d[2] = K.locals[j].x /\ \E k \in i..(j - 1) : K.locals[k].x = d[1]
  BY <1>3
<1>5. PICK k \in i..(j - 1) : K.locals[k].x = d[1]
  BY <1>4
<1>6. k \in DOMAIN K.locals /\ k + 1 \in (i + 1)..((j + 1) - 1) /\ i + 1 < j + 1
  <2> DEFINE N == Len(K.locals)
  <2>1. N \in Nat /\ i \in 1..N /\ j \in 1..N /\ i < j /\ DOMAIN K.locals = 1..N
    BY <1>2, <1>3
  <2> HIDE DEF N
  <2>2. k \in 1..N /\ k + 1 \in (i + 1)..((j + 1) - 1) /\ i + 1 < j + 1
    BY <1>5, <2>1, SMTT(60)
  <2> QED BY <2>1, <2>2
<1>7. /\ j + 1 \in DOMAIN L.locals /\ L.locals[j + 1] = K.locals[j] /\ L.locals[k + 1] = K.locals[k]
      /\ r[j + 1] = loc[j] /\ r[i + 1] = loc[i]
  BY <1>1, <1>2, <1>6
<1>8. d \in L.derived
  BY <1>4
<1>9. /\ i + 1 < j + 1 /\ L.locals[j + 1].ty = "sock" /\ r[j + 1].kind = "own" /\ r[j + 1].n = r[i + 1].of
      /\ d[2] = L.locals[j + 1].x /\ L.locals[k + 1].x = d[1]
  BY <1>3, <1>4, <1>5, <1>6, <1>7
<1> QED BY <1>6, <1>7, <1>8, <1>9 DEF Guarded, r

LEMMA GuardPopped ==
  ASSUME NEW K \in Contexts, NEW L, NEW e \in [x : STRING, ty : Types], L.locals = <<e>> \o K.locals,
         \A d \in L.derived : d[1] \in NamesOf(K) => d \in K.derived,
         NEW loc \in Seq(Bindings), loc # <<>>, DOMAIN L.locals \subseteq DOMAIN loc,
         NEW i \in DOMAIN K.locals, Guarded(loc, L, i + 1)
  PROVE  Guarded(Tail(loc), K, i)
<1> DEFINE r == Tail(loc)
<1>1. /\ \A j \in DOMAIN r : j + 1 \in DOMAIN loc /\ r[j] = loc[j + 1]
      /\ DOMAIN r = 1..Len(r) /\ Len(r) = Len(loc) - 1 /\ Len(loc) \in Nat /\ DOMAIN loc = 1..Len(loc)
  BY Uncons
<1>2. /\ Len(K.locals) \in Nat /\ DOMAIN K.locals = 1..Len(K.locals)
      /\ DOMAIN L.locals = 1..(Len(K.locals) + 1)
      /\ \A j \in DOMAIN K.locals : j + 1 \in DOMAIN L.locals /\ L.locals[j + 1] = K.locals[j]
  <2>1. Opens(L, K, e)
    BY DEF Opens
  <2>2. Shifted(L, K)
    BY <2>1, OpensShifts, Zenon
  <2> QED BY <2>2 DEF Shifted
<1> HIDE DEF r
<1>3. PICK j \in DOMAIN L.locals :
        /\ i + 1 < j /\ L.locals[j].ty = "sock" /\ loc[j].kind = "own" /\ loc[j].n = loc[i + 1].of
        /\ \E d \in L.derived : d[2] = L.locals[j].x /\ \E k \in (i + 1)..(j - 1) : L.locals[k].x = d[1]
  BY DEF Guarded
<1>4. PICK d \in L.derived : d[2] = L.locals[j].x /\ \E k \in (i + 1)..(j - 1) : L.locals[k].x = d[1]
  BY <1>3
<1>5. PICK k \in (i + 1)..(j - 1) : L.locals[k].x = d[1]
  BY <1>4
<1>6. /\ j - 1 \in DOMAIN K.locals /\ k - 1 \in DOMAIN K.locals /\ k - 1 \in i..((j - 1) - 1) /\ i < j - 1
      /\ (j - 1) + 1 = j /\ (k - 1) + 1 = k
  <2> DEFINE N == Len(K.locals)
  <2>1. N \in Nat /\ i \in 1..N /\ j \in 1..(N + 1) /\ i + 1 < j /\ DOMAIN K.locals = 1..N
    BY <1>2, <1>3
  <2> HIDE DEF N
  <2>2. /\ j - 1 \in 1..N /\ k - 1 \in 1..N /\ k - 1 \in i..((j - 1) - 1) /\ i < j - 1
        /\ (j - 1) + 1 = j /\ (k - 1) + 1 = k
    BY <1>5, <2>1, SMTT(60)
  <2> QED BY <2>1, <2>2
<1>7. L.locals[j] = K.locals[j - 1] /\ L.locals[k] = K.locals[k - 1]
  <2> QED BY <1>2, <1>6
<1>8. r[j - 1] = loc[j] /\ r[i] = loc[i + 1]
  <2>1. j - 1 \in DOMAIN r /\ i \in DOMAIN r
    <3>1. j \in DOMAIN loc
      BY <1>3
    <3> DEFINE N == Len(K.locals)
               M == Len(loc)
    <3>2. N \in Nat /\ M \in Nat /\ i \in 1..N /\ j - 1 \in 1..N /\ i < j - 1 /\ j \in 1..M
      BY <1>1, <1>2, <1>6, <3>1
    <3>3. DOMAIN r = 1..(M - 1)
      BY <1>1
    <3> HIDE DEF N, M
    <3>4. j - 1 \in 1..(M - 1) /\ i \in 1..(M - 1)
      BY <3>2, SMTT(60)
    <3> QED BY <3>3, <3>4
  <2> QED BY <1>1, <1>6, <2>1
<1>9. d \in K.derived
  <2>1. d[1] \in NamesOf(K)
    BY <1>5, <1>6, <1>7 DEF NamesOf
  <2> QED BY <1>4, <2>1
<1>10. /\ i < j - 1 /\ K.locals[j - 1].ty = "sock" /\ r[j - 1].kind = "own" /\ r[j - 1].n = r[i].of
       /\ d[2] = K.locals[j - 1].x /\ K.locals[k - 1].x = d[1]
  BY <1>3, <1>4, <1>5, <1>6, <1>7, <1>8
<1> QED BY <1>6, <1>9, <1>10 DEF Guarded, r

LEMMA CastsPushed ==
  ASSUME NEW K \in Contexts, NEW L, NEW e \in [x : STRING, ty : Types], L.locals = <<e>> \o K.locals,
         K.derived \subseteq L.derived,
         NEW loc \in Seq(Bindings), DOMAIN K.locals \subseteq DOMAIN loc, NEW b \in Bindings,
         CastsOk(loc, K), e.ty = "cast" => Guarded(<<b>> \o loc, L, 1)
  PROVE  CastsOk(<<b>> \o loc, L)
<1> SUFFICES ASSUME NEW i \in DOMAIN L.locals, L.locals[i].ty = "cast"
             PROVE  Guarded(<<b>> \o loc, L, i)
  BY DEF CastsOk
<1>1. L.locals[1] = e /\ (i = 1 \/ (i - 1 \in DOMAIN K.locals /\ L.locals[i] = K.locals[i - 1]))
  BY LocalsPushed, SMTT(60)
<1>2. CASE i = 1
  BY <1>1, <1>2
<1>3. CASE i # 1
  <2>1. i - 1 \in DOMAIN K.locals /\ Guarded(loc, K, i - 1)
    BY <1>1, <1>3 DEF CastsOk
  <2>2. Guarded(<<b>> \o loc, L, (i - 1) + 1)
    BY <2>1, GuardPushed
  <2>3. (i - 1) + 1 = i
    BY <2>1, LocalsTyped
  <2> QED BY <2>2, <2>3
<1> QED BY <1>2, <1>3

LEMMA CastsPopped ==
  ASSUME NEW K \in Contexts, NEW L, NEW e \in [x : STRING, ty : Types], L.locals = <<e>> \o K.locals,
         \A d \in L.derived : d[1] \in NamesOf(K) => d \in K.derived,
         NEW loc \in Seq(Bindings), loc # <<>>, DOMAIN L.locals \subseteq DOMAIN loc, CastsOk(loc, L)
  PROVE  CastsOk(Tail(loc), K)
<1> SUFFICES ASSUME NEW i \in DOMAIN K.locals, K.locals[i].ty = "cast"
             PROVE  Guarded(Tail(loc), K, i)
  BY DEF CastsOk
<1>1. i + 1 \in DOMAIN L.locals /\ L.locals[i + 1] = K.locals[i]
  BY LocalsPushed, SMTT(60)
<1>2. Guarded(loc, L, i + 1)
  BY <1>1 DEF CastsOk
<1> QED BY <1>2, GuardPopped
LEMMA OwnedPushed ==
  ASSUME NEW K \in Contexts, NEW L, NEW e \in [x : STRING, ty : Types], L.locals = <<e>> \o K.locals,
         NEW loc \in Seq(Bindings), DOMAIN K.locals \subseteq DOMAIN loc, NEW b \in Bindings,
         NEW own, NEW rel, NEW nxt \in Nat, NEW nxt2 \in Nat, nxt =< nxt2, OwnedOk(loc, rel, nxt, K, own),
         \A j \in DOMAIN own : own[j].x # e.x
  PROVE  OwnedOk(<<b>> \o loc, rel, nxt2, L, own)
<1> DEFINE r == <<b>> \o loc
<1>1. \A j \in DOMAIN loc : j + 1 \in DOMAIN r /\ r[j + 1] = loc[j]
  BY ConsParts
<1>2. /\ L.locals[1] = e
      /\ \A i \in DOMAIN L.locals : i = 1 \/ (i - 1 \in DOMAIN K.locals /\ L.locals[i] = K.locals[i - 1])
  BY LocalsPushed, SMTT(60)
<1>3. DOMAIN K.locals = 1..Len(K.locals) /\ Len(K.locals) \in Nat
  BY LocalsTyped
<1> HIDE DEF r
<1>4. ASSUME NEW j \in DOMAIN own PROVE own[j].got.res = "sockref" => own[j].got.obj.n \in 0..(nxt2 - 1)
  <2>1. own[j].got.res = "sockref" => own[j].got.obj.n \in 0..(nxt - 1)
    BY DEF OwnedOk
  <2> QED BY <2>1
<1>5. ASSUME NEW j \in DOMAIN own, NEW i \in DOMAIN L.locals, L.locals[i].x = own[j].x
      PROVE  /\ r[i].n = own[j].got.obj.n
             /\ r[i].kind = "moved" <=> own[j].got.res = "sockref" /\ own[j].got.obj.n \in rel
  <2>1. i # 1
    BY <1>2, <1>5
  <2>2. i - 1 \in DOMAIN K.locals /\ L.locals[i] = K.locals[i - 1] /\ i - 1 \in DOMAIN loc
    BY <1>2, <2>1
  <2>3. (i - 1) + 1 = i
    BY <1>3, <2>2
  <2>4. r[i] = loc[i - 1]
    BY <1>1, <2>2, <2>3
  <2>5. /\ loc[i - 1].n = own[j].got.obj.n
        /\ loc[i - 1].kind = "moved" <=> own[j].got.res = "sockref" /\ own[j].got.obj.n \in rel
    BY <1>5, <2>2 DEF OwnedOk
  <2> QED BY <2>4, <2>5
<1> QED BY <1>4, <1>5 DEF OwnedOk, r

LEMMA OwnedPopped ==
  ASSUME NEW K \in Contexts, NEW L, NEW e \in [x : STRING, ty : Types], L.locals = <<e>> \o K.locals,
         NEW loc \in Seq(Bindings), loc # <<>>, Len(L.locals) =< Len(loc),
         NEW own, NEW rel, NEW nxt, OwnedOk(loc, rel, nxt, L, own)
  PROVE  OwnedOk(Tail(loc), rel, nxt, K, own)
<1> DEFINE r == Tail(loc)
<1>1. /\ \A j \in DOMAIN r : j + 1 \in DOMAIN loc /\ r[j] = loc[j + 1]
      /\ DOMAIN r = 1..(Len(loc) - 1) /\ Len(loc) \in Nat
  BY Uncons
<1>2. \A j \in DOMAIN K.locals : j + 1 \in DOMAIN L.locals /\ L.locals[j + 1] = K.locals[j]
  <2>1. Opens(L, K, e)
    BY DEF Opens
  <2>2. Shifted(L, K)
    BY <2>1, OpensShifts, Zenon
  <2> QED BY <2>2 DEF Shifted
<1>5. Len(K.locals) \in Nat /\ DOMAIN K.locals = 1..Len(K.locals)
  BY LocalsTyped
<1>0. Len(L.locals) = Len(K.locals) + 1
  <2>1. Opens(L, K, e)
    BY DEF Opens
  <2>2. Shifted(L, K)
    BY <2>1, OpensShifts, Zenon
  <2> QED BY <2>2 DEF Shifted
<1> HIDE DEF r
<1>3. ASSUME NEW j \in DOMAIN own, NEW i \in DOMAIN K.locals, K.locals[i].x = own[j].x
      PROVE  /\ r[i].n = own[j].got.obj.n
             /\ r[i].kind = "moved" <=> own[j].got.res = "sockref" /\ own[j].got.obj.n \in rel
  <2>1. i + 1 \in DOMAIN L.locals /\ L.locals[i + 1] = K.locals[i]
    BY <1>2
  <2>2. i \in DOMAIN r
    BY <1>0, <1>1, <1>5
  <2>3. r[i] = loc[i + 1]
    BY <1>1, <2>2
  <2>4. /\ loc[i + 1].n = own[j].got.obj.n
        /\ loc[i + 1].kind = "moved" <=> own[j].got.res = "sockref" /\ own[j].got.obj.n \in rel
    BY <1>3, <2>1, SMTT(60) DEF OwnedOk
  <2> QED BY <2>3, <2>4
<1>4. \A j \in DOMAIN own : own[j].got.res = "sockref" => own[j].got.obj.n \in 0..(nxt - 1)
  BY DEF OwnedOk
<1> QED BY <1>3, <1>4 DEF OwnedOk, r

(* A name in scope names one type and one binding.                          *)
LEMMA TypeIs ==
  ASSUME NEW K \in Contexts, Scoped(K), NEW i \in DOMAIN K.locals
  PROVE  TypeOf(K, K.locals[i].x) = K.locals[i].ty
<1> DEFINE P(j) == j \in DOMAIN K.locals /\ K.locals[j].x = K.locals[i].x
                     /\ \A k \in 1..(j - 1) : K.locals[k].x # K.locals[i].x
           c == CHOOSE j \in DOMAIN K.locals : K.locals[j].x = K.locals[i].x
                     /\ \A k \in 1..(j - 1) : K.locals[k].x # K.locals[i].x
<1>1. DOMAIN K.locals = 1..Len(K.locals) /\ Len(K.locals) \in Nat
  BY LocalsTyped
<1>2. \A k \in 1..(i - 1) : K.locals[k].x # K.locals[i].x
  <2> SUFFICES ASSUME NEW k \in 1..(i - 1), K.locals[k].x = K.locals[i].x PROVE FALSE
    OBVIOUS
  <2>1. k \in DOMAIN K.locals /\ k # i
    BY <1>1
  <2> QED BY <2>1 DEF Scoped
<1>3. c \in DOMAIN K.locals /\ K.locals[c].x = K.locals[i].x
  BY <1>2
<1>4. c = i
  <2> HIDE DEF c
  <2> QED BY <1>3 DEF Scoped
<1>5. TypeOf(K, K.locals[i].x) = K.locals[c].ty
  BY DEF TypeOf
<1> HIDE DEF c
<1> QED BY <1>4, <1>5

LEMMA LocalIs ==
  ASSUME NEW K \in Contexts, Scoped(K), NEW lay, NEW base \in Nat, NEW moved, NEW live,
         StoreOk(locals, lay, K, base, moved, live), NEW i \in DOMAIN K.locals
  PROVE  /\ Local(K.locals[i].x) = locals[i] /\ i \in DOMAIN locals
         /\ locals[i] \in Bindings
         /\ HoldsAs(locals[i], K.locals[i].ty, lay, K.locals[i].x \in moved, K.locals[i].x \in live)
<1> DEFINE x == K.locals[i].x
           c == CHOOSE j \in DOMAIN locals :
                  locals[j].x = x /\ \A k \in 1..(j - 1) : locals[k].x # x
<1>1. /\ locals \in Seq(Bindings) /\ DOMAIN locals = 1..Len(locals) /\ Len(locals) \in Nat
      /\ DOMAIN K.locals = 1..Len(K.locals) /\ Len(K.locals) \in Nat
      /\ DOMAIN K.locals \subseteq DOMAIN locals
  BY StoreTyped
<1>2. \A j \in DOMAIN K.locals : locals[j].x = K.locals[j].x
  BY DEF StoreOk
<1>3. i \in DOMAIN locals /\ locals[i].x = x
  BY <1>1, <1>2
<1>4. \A k \in 1..(i - 1) : locals[k].x # x
  <2> SUFFICES ASSUME NEW k \in 1..(i - 1), locals[k].x = x PROVE FALSE
    OBVIOUS
  <2>1. k \in DOMAIN K.locals /\ k # i
    BY <1>1
  <2> QED BY <1>2, <2>1 DEF Scoped
<1> HIDE DEF x
<1>5. c \in DOMAIN locals /\ locals[c].x = x /\ \A k \in 1..(c - 1) : locals[k].x # x
  BY <1>3, <1>4
<1>6. Local(x) = locals[c]
  BY <1>3 DEF Local
<1> HIDE DEF c
<1>7. c = i
  <2>1. ~(i \in 1..(c - 1)) /\ ~(c \in 1..(i - 1))
    BY <1>3, <1>4, <1>5
  <2>2. i \in 1..Len(locals) /\ c \in 1..Len(locals)
    BY <1>1, <1>3, <1>5
  <2> QED BY <1>1, <2>1, <2>2
<1>8. locals[i] \in Bindings
  BY <1>1, <1>3, ElementOf
<1> QED BY <1>3, <1>6, <1>7, <1>8 DEF StoreOk, x

LEMMA DropAll ==
  ASSUME NEW S, locals \in Seq(S)
  PROVE  DropTo(Len(locals)) = locals
<1>1. Len(locals) - Len(locals) + 1 = 1
  OBVIOUS
<1>2. SubSeq(locals, 1, Len(locals)) = locals
  OBVIOUS
<1> QED BY <1>1, <1>2 DEF DropTo

LEMMA DropOne ==
  ASSUME NEW S, locals \in Seq(S), locals # <<>>
  PROVE  DropTo(Len(locals) - 1) = Tail(locals)
<1>1. Len(locals) - (Len(locals) - 1) + 1 = 2
  OBVIOUS
<1>2. SubSeq(locals, 2, Len(locals)) = Tail(locals)
  OBVIOUS
<1> QED BY <1>1, <1>2 DEF DropTo
-----------------------------------------------------------------------------
(* Typings.                                                                 *)

LEMMA TypingIs ==
  ASSUME NEW n \in Nat, NEW K \in Contexts, NEW G \in FactSets, NEW live \in SUBSET STRING,
         NEW own \in Seq(Frames), NEW t, t = Typing(n, K, G, live, own)
  PROVE  t \in Typings /\ t.n = n /\ t.K = K /\ t.G = G /\ t.live = live /\ t.own = own
BY DEF Typings, Typing

LEMMA GoodParts ==
  ASSUME NEW t, Good(t)
  PROVE  /\ t.n \in Nat /\ t.K \in Contexts /\ t.G \in FactSets /\ t.live \in SUBSET STRING
         /\ t.own \in Seq(Frames)
         /\ Scoped(t.K) /\ Known(t.K, t.G, t.live)
         /\ Mirrors(t.K, t.own) /\ Apart(t.own) /\ Paired(t.K, t.own)
BY DEF Good, Typings

LEMMA OwnerTyped ==
  ASSUME NEW K \in Contexts
  PROVE  /\ OwnerOf(K) \in Owners /\ K.held \in Seq([res : STRING, x : STRING])
         /\ NamesOf(K) \in SUBSET STRING /\ K.derived \subseteq STRING \X STRING
         /\ Len(K.held) \in Nat /\ DOMAIN K.held = 1..Len(K.held)
<1>1. K.held \in Seq([res : STRING, x : STRING]) /\ K.derived \subseteq STRING \X STRING
  BY ContextParts
<1>2. K.held # <<>> => Head(K.held).x \in STRING
  <2> SUFFICES ASSUME K.held # <<>> PROVE Head(K.held).x \in STRING
    OBVIOUS
  <2>1. Head(K.held) \in [res : STRING, x : STRING]
    BY <1>1, Uncons
  <2> QED BY <2>1
<1>3. OwnerOf(K) \in Owners
  <2>1. CASE K.held = <<>>
    <3>1. OwnerOf(K) = "_"
      BY <2>1 DEF OwnerOf
    <3> QED BY <3>1 DEF Owners
  <2>2. CASE K.held # <<>>
    BY <1>2, <2>2 DEF OwnerOf, Owners
  <2> QED BY <2>1, <2>2
<1>4. Len(K.held) \in Nat /\ DOMAIN K.held = 1..Len(K.held)
  BY <1>1
<1> QED BY <1>1, <1>3, <1>4, NamesAreStrings

LEMMA GoodWith ==
  ASSUME NEW t, Good(t), NEW n \in Nat, NEW G \in FactSets, Known(t.K, G, t.live),
         NEW u, u = Typing(n, t.K, G, t.live, t.own)
  PROVE  Good(u) /\ u.n = n /\ u.K = t.K /\ u.G = G /\ u.live = t.live /\ u.own = t.own
<1>1. /\ t.K \in Contexts /\ t.live \in SUBSET STRING /\ t.own \in Seq(Frames)
      /\ Scoped(t.K) /\ Mirrors(t.K, t.own) /\ Apart(t.own) /\ Paired(t.K, t.own)
  BY GoodParts
<1>2. u \in Typings /\ u.n = n /\ u.K = t.K /\ u.G = G /\ u.live = t.live /\ u.own = t.own
  BY <1>1, TypingIs
<1> QED BY <1>1, <1>2 DEF Good

LEMMA Knows ==
  ASSUME NEW K, NEW live, NEW F, NEW G, NEW kills, NEW ends, Known(K, F, live),
         Follows(K, F, G, kills, ends), G.ok, kills => live \cap ViewsInScope(K) = {}
  PROVE  Known(K, G, live)
BY DEF Known, Follows

(* A block of the stack fs whose first statement s is begun: t is what it   *)
(* was checked as, G the facts after s, a what the rest is checked as.      *)
Advancing(fs) == <<[Head(fs) EXCEPT !.rest = Tail(@)]>> \o Tail(fs)
Starts(t, s) ==
  /\ Good(t) /\ s \in Stmts(t.n) /\ Step(t.n, t.K, t.G, s).ok
  /\ PlainStmt(PlainAt(t.n), NamesOf(t.K), OwnerOf(t.K), s)
  /\ Kills(ResizeAt(t.n), s) => t.live \cap ViewsInScope(t.K) = {}
Begun(fs, T, base, t, s, G, a, U) ==
  /\ t = T[1] /\ s = Head(Head(fs).rest) /\ G = Step(t.n, t.K, t.G, s)
  /\ Starts(t, s)
  /\ Good(a) /\ a.K = t.K /\ a.G = G /\ a.live = t.live /\ a.own = t.own
  /\ Stacked(Advancing(fs), U, base) /\ U[1] = a /\ U[Len(U)] = T[Len(T)]

LEMMA Advanced ==
  ASSUME NEW fs, NEW T, NEW base, Stacked(fs, T, base), fs # <<>>,
         Head(fs).at = "block", Head(fs).rest # <<>>
  PROVE  \E t, s, G, a, U : Begun(fs, T, base, t, s, G, a, U)
<1> DEFINE f == Head(fs)
           b == f.rest
           t == T[1]
           u == T[2]
           s == Head(b)
           G == Step(t.n, t.K, t.G, s)
           a == Typing(t.n, t.K, G, t.live, t.own)
           fr == [f EXCEPT !.rest = Tail(@)]
<1>1. /\ Stacked(Tail(fs), Tail(T), base) /\ f \in Frames
      /\ Good(t) /\ Link(f, t, u, base) /\ Tail(T)[1] = u /\ Tail(T)[Len(Tail(T))] = T[Len(T)]
  BY StackPopped
<1>2. /\ t.n \in Nat /\ t.K \in Contexts /\ t.G \in FactSets
      /\ Known(t.K, t.G, t.live)
  BY <1>1, GoodParts
<1>3. BlockLink(f, t, u, base) /\ SameUnit(t.K, u.K)
  BY <1>1 DEF Link
<1>4. Checked(t, b)
  BY <1>3, SMTT(60) DEF BlockLink
<1>5. b \in Blocks[t.n] /\ b # <<>> /\ s = Head(b) /\ t.G.ok
  BY <1>2, <1>4 DEF Checked, Known
<1> HIDE DEF b, t, s, G, a, fr
<1>6. /\ s \in Stmts(t.n) /\ Tail(b) \in Blocks[t.n] /\ G \in FactSets
      /\ After(t.n, t.K, t.G, b) = After(t.n, t.K, G, Tail(b))
  BY <1>2, <1>5, AfterStep DEF G
<1>7. After(t.n, t.K, t.G, b).ok /\ Plain[t.n][NamesOf(t.K)][OwnerOf(t.K)][b]
  BY <1>4 DEF Checked, EndOf
<1>8. ResizeIn[t.n][b] => t.live \cap ViewsInScope(t.K) = {}
  BY <1>4 DEF Checked
<1>9. G.ok
  BY <1>2, <1>6, <1>7, AfterRefused, SMTT(60)
<1>10. /\ Kills(ResizeAt(t.n), s) \/ ResizeIn[t.n][Tail(b)] => ResizeIn[t.n][b]
       /\ PlainStmt(PlainAt(t.n), NamesOf(t.K), OwnerOf(t.K), s)
       /\ Plain[t.n][NamesOf(t.K)][OwnerOf(t.K)][Tail(b)]
  <2>1. NamesOf(t.K) \in SUBSET STRING /\ OwnerOf(t.K) \in Owners
    BY <1>2, OwnerTyped
  <2> QED BY <1>2, <1>5, <1>7, <2>1, RulesStep
<1>11. Kills(ResizeAt(t.n), s) => t.live \cap ViewsInScope(t.K) = {}
  BY <1>8, <1>10
<1>12. Follows(t.K, t.G, G, Kills(ResizeAt(t.n), s), EndsPath(ExitsAt(t.n), s))
  <2>1. s.op \in Compound => BlocksFollow(t.n - 1)
    BY <1>2, <1>6, InnerBlocks, AllFollow
  <2>2. OwnerOf(t.K) \in Owners
    BY <1>2, OwnerTyped
  <2> QED BY <1>2, <1>6, <1>9, <1>10, <2>1, <2>2, StmtFollows DEF G
<1>13. Known(t.K, G, t.live)
  BY <1>2, <1>9, <1>11, <1>12, Knows
<1>14. Good(a) /\ a.n = t.n /\ a.K = t.K /\ a.G = G /\ a.live = t.live /\ a.own = t.own
  BY <1>1, <1>2, <1>6, <1>13, GoodWith DEF a
<1>15. fr \in Frames /\ fr.at = "block" /\ fr.rest = Tail(b) /\ fr.n = f.n
  <2>1. Tail(b) \in AnyBlock
    BY <1>2, <1>6 DEF AnyBlock
  <2> QED BY <1>1, <2>1 DEF Frames, b, fr
<1>16. Link(fr, a, u, base)
  <2>1. EndOf(a, Tail(b)) = EndOf(t, b)
    BY <1>6, <1>14 DEF EndOf
  <2>2. Checked(a, Tail(b))
    BY <1>6, <1>7, <1>8, <1>10, <1>14, <2>1 DEF Checked, EndOf
  <2>3. /\ t.K = u.K /\ t.live = u.live /\ t.own = u.own /\ f.n = Len(t.K.locals) + base
        /\ Covers(u.K, EndOf(t, b), u.G)
    BY <1>3 DEF BlockLink, b
  <2>4. BlockLink(fr, a, u, base)
    BY <1>14, <1>15, <2>1, <2>2, <2>3 DEF BlockLink
  <2> QED BY <1>3, <1>14, <1>15, <2>4 DEF Link
<1>17. PICK U : Stacked(<<fr>> \o Tail(fs), U, base) /\ U[1] = a /\ U[Len(U)] = T[Len(T)]
  <2>1. fr \in Frames /\ Good(a) /\ Link(fr, a, T[2], base)
    BY <1>14, <1>15, <1>16
  <2> HIDE DEF u
  <2> QED BY <2>1, StackReplaced
<1>18. Advancing(fs) = <<fr>> \o Tail(fs)
  BY DEF Advancing, fr
<1>19. t = T[1] /\ s = Head(Head(fs).rest) /\ G = Step(t.n, t.K, t.G, s)
  BY DEF t, s, G, b
<1>20. Starts(t, s)
  BY <1>1, <1>6, <1>9, <1>10, <1>11, <1>19 DEF Starts
<1>21. Begun(fs, T, base, t, s, G, a, U)
  BY <1>14, <1>17, <1>18, <1>19, <1>20 DEF Begun
<1> QED BY <1>21
(* What a statement with blocks enters them with.                           *)
LEMMA EntersKnown ==
  ASSUME NEW t, NEW s, Starts(t, s), s.op \in Compound, NEW M, M = Entering(t.K, t.G, s)
  PROVE  /\ M \in FactSets /\ Known(t.K, M, t.live) /\ M.bottom = t.G.bottom
         /\ M.moved = t.G.moved /\ t.G.dead \subseteq M.dead
         /\ Resizes(s) => ViewsInScope(t.K) \subseteq M.dead
<1>1. Good(t) /\ s \in Stmts(t.n) /\ (Resizes(s) => t.live \cap ViewsInScope(t.K) = {})
  BY DEF Starts, Kills
<1>2. t.n \in Nat /\ t.K \in Contexts /\ t.G \in FactSets /\ Known(t.K, t.G, t.live)
  BY <1>1, GoodParts
<1>3. /\ M \in FactSets /\ M.ok = t.G.ok /\ M.bottom = t.G.bottom
      /\ M.moved = t.G.moved \cup Moves(s)
      /\ M.dead = t.G.dead \cup (IF Resizes(s) THEN ViewsInScope(t.K) ELSE {})
  BY <1>1, <1>2, EnteringParts
<1>4. Moves(s) = {}
  BY DEF Moves, Compound
<1>5. t.G.moved \in SUBSET STRING
  BY <1>2, FactParts
<1>6. M.moved = t.G.moved
  BY <1>3, <1>4
<1>7. M.dead \cap t.live = {}
  BY <1>1, <1>2, <1>3 DEF Known
<1> QED BY <1>2, <1>3, <1>6, <1>7 DEF Known

(* A block in the same scope: a branch, or the `else` of what failed.       *)
Inside(t, s, c) ==
  c.K = t.K /\ c.G = Entering(t.K, t.G, s) /\ c.live = t.live /\ c.own = t.own
BranchOf(s, b) ==
  \/ s.op = "ite" /\ s.c # "no" /\ b = s.t
  \/ s.op = "ite" /\ s.c # "yes" /\ b = s.e
  \/ s.op = "try" /\ b = s.e
  \/ s.op = "hold" /\ s.e # <<>> /\ b = s.e

LEMMA BranchChecked ==
  ASSUME NEW t, NEW s, Starts(t, s), NEW b, BranchOf(s, b), NEW M, M = Entering(t.K, t.G, s),
         NEW G, G = Step(t.n, t.K, t.G, s)
  PROVE  /\ t.n - 1 \in Nat /\ b \in Blocks[t.n - 1]
         /\ After(t.n - 1, t.K, M, b) \in FactSets /\ After(t.n - 1, t.K, M, b).ok
         /\ Plain[t.n - 1][NamesOf(t.K)][OwnerOf(t.K)][b]
         /\ ResizeIn[t.n - 1][b] => t.live \cap ViewsInScope(t.K) = {}
         /\ Covers(t.K, After(t.n - 1, t.K, M, b), G)
<1> DEFINE n == t.n
           K == t.K
<1>1. /\ Good(t) /\ s \in Stmts(n) /\ Step(n, K, t.G, s).ok /\ PlainStmt(PlainAt(n), NamesOf(K), OwnerOf(K), s)
      /\ Kills(ResizeAt(n), s) => t.live \cap ViewsInScope(K) = {}
  BY DEF Starts
<1>2. n \in Nat /\ K \in Contexts /\ t.G \in FactSets
  BY <1>1, GoodParts
<1>3. s.op \in {"ite", "try", "hold"} /\ s.op \in Compound
  BY DEF BranchOf, Compound
<1>4. n - 1 \in Nat /\ n # 0 /\ s.t \in Blocks[n - 1] /\ s.e \in Blocks[n - 1]
  BY <1>1, <1>2, <1>3, InnerBlocks
<1>5. PlainAt(n) = Plain[n - 1] /\ ResizeAt(n) = ResizeIn[n - 1]
  BY <1>4 DEF PlainAt, ResizeAt
<1>6. b = s.t \/ b = s.e
  BY DEF BranchOf
<1>7. ResizeIn[n - 1][b] => Kills(ResizeAt(n), s)
  BY <1>3, <1>5, <1>6, SMTT(60) DEF Kills
<1>8. Plain[n - 1][NamesOf(K)][OwnerOf(K)][b]
  BY <1>1, <1>5, <1>6 DEF PlainStmt, BranchOf
<1>9. s.op \in {"try", "hold"} => s.x \notin NamesOf(K)
  BY <1>1 DEF PlainStmt
<1>10. /\ After(n - 1, K, M, b) \in FactSets /\ After(n - 1, K, M, b).ok
       /\ Covers(K, After(n - 1, K, M, b), G)
  <2>1. CASE s.op = "ite"
    <3> DEFINE Ft == After(n - 1, K, M, s.t)
               Fe == After(n - 1, K, M, s.e)
    <3>1. /\ Ft \in FactSets /\ Fe \in FactSets /\ Ft.ok /\ Fe.ok
          /\ s.c # "no"  => Covers(K, Ft, G)
          /\ s.c # "yes" => Covers(K, Fe, G)
      BY <1>1, <1>2, <2>1, IteAccepted
    <3> HIDE DEF Ft, Fe
    <3>2. (b = s.t /\ s.c # "no") \/ (b = s.e /\ s.c # "yes")
      BY <2>1 DEF BranchOf
    <3> QED BY <3>1, <3>2 DEF Ft, Fe
  <2>2. CASE s.op = "try"
    <3> DEFINE L == TryContext(K, s)
               Ft == After(n - 1, L, M, s.t)
               Fe == After(n - 1, K, M, s.e)
    <3>1. Fe \in FactSets /\ Fe.ok /\ Covers(K, Fe, G)
      <4>1. L = TryContext(K, s) /\ Ft = After(n - 1, L, M, s.t) /\ Fe = After(n - 1, K, M, s.e)
        OBVIOUS
      <4> HIDE DEF L, Ft, Fe
      <4> QED BY <1>1, <1>2, <1>9, <2>2, <4>1, TryCovers
    <3> QED BY <2>2, <3>1 DEF BranchOf
  <2>3. CASE s.op = "hold"
    <3> DEFINE L == HoldContext(K, s)
               Fb == After(n - 1, L, M, s.t)
               Fe == ElseOf(n, K, M, s)
    <3>1. Fe \in FactSets /\ Fe.ok /\ Covers(K, Fe, G)
      <4>1. L = HoldContext(K, s) /\ Fb = After(n - 1, L, M, s.t) /\ Fe = ElseOf(n, K, M, s)
        OBVIOUS
      <4> HIDE DEF L, Fb, Fe
      <4> QED BY <1>1, <1>2, <1>9, <2>3, <4>1, HoldCovers
    <3> QED BY <2>3, <3>1 DEF BranchOf, ElseOf
  <2> QED BY <1>3, <2>1, <2>2, <2>3
<1> QED BY <1>1, <1>4, <1>6, <1>7, <1>8, <1>10

LEMMA BranchEntered ==
  ASSUME NEW fs, NEW T, NEW base, NEW t, NEW s, NEW G, NEW a, NEW U,
         Begun(fs, T, base, t, s, G, a, U), NEW b, BranchOf(s, b),
         NEW fr \in Frames, fr.at = "block", fr.rest = b, fr.n = Len(t.K.locals) + base
  PROVE  \E c, V : /\ Inside(t, s, c)
                   /\ Stacked(<<fr>> \o Advancing(fs), V, base) /\ V[1] = c /\ V[Len(V)] = T[Len(T)]
<1> DEFINE M == Entering(t.K, t.G, s)
           c == Typing(t.n - 1, t.K, M, t.live, t.own)
<1>1. /\ Starts(t, s) /\ G = Step(t.n, t.K, t.G, s) /\ Good(t)
      /\ Good(a) /\ a.K = t.K /\ a.G = G /\ a.live = t.live /\ a.own = t.own
      /\ Stacked(Advancing(fs), U, base) /\ U[1] = a /\ U[Len(U)] = T[Len(T)]
  BY DEF Begun, Starts
<1>2. s.op \in Compound
  BY SMTT(60) DEF BranchOf, Compound
<1>3. /\ t.n - 1 \in Nat /\ b \in Blocks[t.n - 1] /\ After(t.n - 1, t.K, M, b).ok
      /\ Plain[t.n - 1][NamesOf(t.K)][OwnerOf(t.K)][b]
      /\ ResizeIn[t.n - 1][b] => t.live \cap ViewsInScope(t.K) = {}
      /\ Covers(t.K, After(t.n - 1, t.K, M, b), G)
  BY <1>1, BranchChecked
<1>4. M \in FactSets /\ Known(t.K, M, t.live)
  BY <1>1, <1>2, EntersKnown
<1> HIDE DEF M
<1>5. Good(c) /\ c.n = t.n - 1 /\ c.K = t.K /\ c.G = M /\ c.live = t.live /\ c.own = t.own
  BY <1>1, <1>3, <1>4, GoodWith
<1> HIDE DEF c
<1>6. Link(fr, c, a, base)
  <2>1. EndOf(c, b) = After(t.n - 1, t.K, M, b)
    BY <1>5 DEF EndOf
  <2>2. Checked(c, b)
    BY <1>3, <1>5, <2>1 DEF Checked
  <2>3. BlockLink(fr, c, a, base)
    BY <1>1, <1>3, <1>5, <2>1, <2>2 DEF BlockLink
  <2> QED BY <1>1, <1>5, <2>3 DEF Link, SameUnit
<1>7. PICK V : Stacked(<<fr>> \o Advancing(fs), V, base) /\ V[1] = c /\ V[Len(V)] = U[Len(U)]
  BY <1>1, <1>5, <1>6, StackOver
<1>8. Inside(t, s, c)
  BY <1>5, SMTT(60) DEF Inside, M
<1> QED BY <1>1, <1>7, <1>8

(* The body of a loop, checked under the facts at the loop's head, which    *)
(* every iteration starts from.                                             *)
LEMMA LoopChecked ==
  ASSUME NEW t, NEW s, Starts(t, s), s.op = "loop", ~t.G.bottom,
         NEW M, M = Entering(t.K, t.G, s), NEW L, L = LoopContext(t.K, M),
         NEW G, G = Step(t.n, t.K, t.G, s)
  PROVE  /\ t.n - 1 \in Nat /\ s.t \in Blocks[t.n - 1]
         /\ G \in FactSets /\ G.ok /\ ~G.bottom /\ G.moved = t.G.moved /\ t.G.dead \subseteq G.dead
         /\ L \in Contexts /\ SameScope(L, t.K) /\ SameUnit(L, t.K) /\ L.inLoop /\ L.loopMoved = G.moved
         /\ L = LoopContext(t.K, G)
         /\ After(t.n - 1, L, G, s.t) \in FactSets /\ After(t.n - 1, L, G, s.t).ok
         /\ Plain[t.n - 1][NamesOf(t.K)][OwnerOf(t.K)][s.t]
         /\ ResizeIn[t.n - 1][s.t] => ViewsInScope(t.K) \subseteq G.dead
         /\ Covers(L, After(t.n - 1, L, G, s.t), G)
<1> DEFINE n == t.n
           K == t.K
           E == After(n - 1, L, G, s.t)
<1>1. /\ Good(t) /\ s \in Stmts(n) /\ Step(n, K, t.G, s).ok /\ PlainStmt(PlainAt(n), NamesOf(K), OwnerOf(K), s)
  BY DEF Starts
<1>2. n \in Nat /\ K \in Contexts /\ t.G \in FactSets /\ Known(K, t.G, t.live)
  BY <1>1, GoodParts
<1>3. s.op \in Compound
  BY DEF Compound
<1>4. n - 1 \in Nat /\ n # 0 /\ s.t \in Blocks[n - 1]
  BY <1>1, <1>2, <1>3, InnerBlocks
<1>5. PlainAt(n) = Plain[n - 1]
  BY <1>4 DEF PlainAt
<1>6. Plain[n - 1][NamesOf(K)][OwnerOf(K)][s.t]
  BY <1>1, <1>5 DEF PlainStmt
<1>7. M \in FactSets /\ ~M.bottom /\ M.moved = t.G.moved /\ t.G.dead \subseteq M.dead
  BY <1>3, EntersKnown
<1>8. /\ L \in Contexts /\ SameScope(L, K) /\ SameUnit(L, K) /\ L.inLoop /\ L.loopMoved = M.moved
  BY <1>2, <1>7, LoopContextParts
<1>9. /\ G \in FactSets /\ E \in FactSets /\ E.ok /\ LoopMovedOk(K, E)
      /\ G = IF ResizeIn[n - 1][s.t] THEN KillViews(K, M) ELSE M
  <2> DEFINE Fh == IF ResizeIn[n - 1][s.t] THEN KillViews(K, M) ELSE M
             Fb == After(n - 1, LoopContext(K, M), Fh, s.t)
  <2>1. Fh = (IF ResizeIn[n - 1][s.t] THEN KillViews(K, M) ELSE M) /\ Fb = After(n - 1, LoopContext(K, M), Fh, s.t)
    OBVIOUS
  <2> HIDE DEF Fh, Fb
  <2>2. /\ Fh \in FactSets /\ Fb \in FactSets /\ Fb.ok /\ LoopMovedOk(K, Fb)
    BY <1>1, <1>2, <2>1, LoopAccepted
  <2>3. Step(n, K, t.G, s) = Fh
    BY <1>1, <1>2, <2>1, LoopAccepted
  <2>4. G = Fh
    BY <2>3, SMTT(60)
  <2> QED BY <2>1, <2>2, <2>4
<1>10. /\ G.bottom = M.bottom /\ G.moved = M.moved /\ M.dead \subseteq G.dead
       /\ ResizeIn[n - 1][s.t] => ViewsInScope(K) \subseteq G.dead
  BY <1>2, <1>7, <1>9, KilledViews
<1>11. G.ok
  BY <1>1
<1>12. L = LoopContext(K, G)
  BY <1>10 DEF LoopContext
<1>13. NamesOf(L) = NamesOf(K) /\ ViewsInScope(L) = ViewsInScope(K) /\ OwnerOf(L) = OwnerOf(K)
  BY <1>8, SMTT(60) DEF SameScope, NamesOf, ViewsInScope, OwnerOf
<1>14. Follows(L, G, E, ResizeIn[n - 1][s.t], Exits[n - 1][s.t])
  <2>1. BlocksFollow(n - 1)
    BY <1>4, AllFollow
  <2>2. OwnerOf(K) \in Owners
    BY <1>2, OwnerTyped
  <2>3. Plain[n - 1][NamesOf(L)][OwnerOf(K)][s.t]
    BY <1>6, <1>13
  <2> QED BY <1>4, <1>8, <1>9, <2>1, <2>2, <2>3 DEF BlocksFollow
<1>15. E.dead \subseteq G.dead
  BY <1>10, <1>13, <1>14, SMTT(60) DEF Follows
<1>16. E.bottom \/ E.moved \subseteq G.moved
  BY <1>2, <1>7, <1>9, <1>10, SMTT(60) DEF LoopMovedOk, Known
<1>17. Covers(L, E, G)
  BY <1>7, <1>10, <1>15, <1>16 DEF Covers
<1> QED BY <1>4, <1>6, <1>7, <1>8, <1>9, <1>10, <1>11, <1>12, <1>17

LEMMA SamePairs ==
  ASSUME NEW K, NEW L, L.locals = K.locals, NEW own, Paired(K, own)
  PROVE  Paired(L, own)
<1> DEFINE q == L.locals
<1>1. K.locals = q
  OBVIOUS
<1> HIDE DEF q
<1>2. /\ \A i \in DOMAIN q : q[i].ty = "sock" =>
          \E j \in DOMAIN own : own[j].x = q[i].x /\ own[j].got.res = "sockref"
      /\ \A j \in DOMAIN own : own[j].x # "_" =>
          \E i \in DOMAIN q : q[i].x = own[j].x /\ q[i].ty = OwnType(own[j].got.res)
  BY <1>1 DEF Paired
<1> QED BY <1>2 DEF Paired, q

(* A typing of the same scope with more known of its loop.                  *)
LEMMA GoodLoop ==
  ASSUME NEW t, Good(t), NEW n \in Nat, NEW L \in Contexts, SameScope(L, t.K),
         NEW G \in FactSets, G.ok, G.moved \subseteq NamesOf(t.K), L.loopMoved \subseteq G.moved,
         NEW live, live = NamesOf(t.K) \ G.dead,
         NEW u, u = Typing(n, L, G, live, t.own)
  PROVE  Good(u) /\ u.n = n /\ u.K = L /\ u.G = G /\ u.live = live /\ u.own = t.own
<1>1. /\ t.K \in Contexts /\ t.own \in Seq(Frames)
      /\ Scoped(t.K) /\ Mirrors(t.K, t.own) /\ Apart(t.own) /\ Paired(t.K, t.own)
  BY GoodParts
<1>2. live \in SUBSET STRING
  BY <1>1, NamesAreStrings
<1>3. u \in Typings /\ u.n = n /\ u.K = L /\ u.G = G /\ u.live = live /\ u.own = t.own
  BY <1>1, <1>2, TypingIs
<1>4. L.locals = t.K.locals /\ L.held = t.K.held /\ NamesOf(L) = NamesOf(t.K)
  BY DEF SameScope, NamesOf
<1>5. Scoped(L) /\ Mirrors(L, t.own) /\ Paired(L, t.own)
  <2>1. Scoped(L)
    BY <1>1, <1>4 DEF Scoped
  <2>2. Mirrors(L, t.own)
    BY <1>1, <1>4 DEF Mirrors
  <2>3. Paired(L, t.own)
    BY <1>1, <1>4, SamePairs
  <2> QED BY <2>1, <2>2, <2>3
<1>6. Known(L, G, live)
  BY <1>4 DEF Known
<1> QED BY <1>1, <1>3, <1>5, <1>6 DEF Good

Looping(t, s, G, c) ==
  /\ SameScope(c.K, t.K) /\ c.K.inLoop /\ c.K.loopMoved = G.moved
  /\ c.G = G /\ c.live = NamesOf(t.K) \ G.dead /\ c.own = t.own
  /\ ~G.bottom /\ G.moved = t.G.moved /\ t.G.dead \subseteq G.dead

LEMMA LoopEntered ==
  ASSUME NEW fs, NEW T, NEW base, NEW t, NEW s, NEW G, NEW a, NEW U,
         Begun(fs, T, base, t, s, G, a, U), s.op = "loop", ~t.G.bottom,
         NEW fr \in Frames, fr.at = "loop", fr.rest = s.t
  PROVE  \E c, V : /\ Looping(t, s, G, c)
                   /\ Stacked(<<fr>> \o Advancing(fs), V, base) /\ V[1] = c /\ V[Len(V)] = T[Len(T)]
<1> DEFINE M == Entering(t.K, t.G, s)
           L == LoopContext(t.K, M)
           live == NamesOf(t.K) \ G.dead
           c == Typing(t.n - 1, L, G, live, t.own)
<1>1. /\ Starts(t, s) /\ G = Step(t.n, t.K, t.G, s) /\ Good(t)
      /\ Good(a) /\ a.K = t.K /\ a.G = G /\ a.live = t.live /\ a.own = t.own
      /\ Stacked(Advancing(fs), U, base) /\ U[1] = a /\ U[Len(U)] = T[Len(T)]
  BY DEF Begun, Starts
<1>2. /\ M = Entering(t.K, t.G, s) /\ L = LoopContext(t.K, M) /\ live = NamesOf(t.K) \ G.dead
      /\ c = Typing(t.n - 1, L, G, live, t.own)
  OBVIOUS
<1> HIDE DEF M, L, live, c
<1>3. /\ t.n - 1 \in Nat /\ s.t \in Blocks[t.n - 1]
      /\ G \in FactSets /\ G.ok /\ ~G.bottom /\ G.moved = t.G.moved /\ t.G.dead \subseteq G.dead
      /\ L \in Contexts /\ SameScope(L, t.K) /\ SameUnit(L, t.K) /\ L.inLoop /\ L.loopMoved = G.moved
  <2>1. t.n - 1 \in Nat /\ s.t \in Blocks[t.n - 1]
    BY <1>1, <1>2, LoopChecked, SMTT(60)
  <2>2. G \in FactSets /\ G.ok /\ ~G.bottom
    BY <1>1, <1>2, LoopChecked, SMTT(60)
  <2>3. G.moved = t.G.moved /\ t.G.dead \subseteq G.dead
    BY <1>1, <1>2, LoopChecked, SMTT(60)
  <2>4. L \in Contexts /\ SameScope(L, t.K) /\ SameUnit(L, t.K)
    BY <1>1, <1>2, LoopChecked, SMTT(60)
  <2>5. L.inLoop /\ L.loopMoved = G.moved
    BY <1>1, <1>2, LoopChecked, SMTT(60)
  <2> QED BY <2>1, <2>2, <2>3, <2>4, <2>5, SMTT(60)
<1>4. /\ L = LoopContext(t.K, G)
      /\ After(t.n - 1, L, G, s.t) \in FactSets /\ After(t.n - 1, L, G, s.t).ok
      /\ Plain[t.n - 1][NamesOf(t.K)][OwnerOf(t.K)][s.t]
      /\ ResizeIn[t.n - 1][s.t] => ViewsInScope(t.K) \subseteq G.dead
      /\ Covers(L, After(t.n - 1, L, G, s.t), G)
  BY <1>1, <1>2, LoopChecked, SMTT(60)
<1>5. Good(c) /\ c.n = t.n - 1 /\ c.K = L /\ c.G = G /\ c.live = live /\ c.own = t.own
  <2>1. G.moved \subseteq NamesOf(t.K)
    BY <1>1, <1>3, GoodParts DEF Known
  <2>2. L.loopMoved \subseteq G.moved
    BY <1>3
  <2>3. Good(c)
    BY <1>1, <1>2, <1>3, <2>1, <2>2, GoodLoop
  <2>4. c.n = t.n - 1 /\ c.K = L /\ c.G = G
    BY <1>2 DEF Typing
  <2>5. c.live = live /\ c.own = t.own
    BY <1>2 DEF Typing
  <2> QED BY <2>3, <2>4, <2>5
<1>6. NamesOf(L) = NamesOf(t.K) /\ ViewsInScope(L) = ViewsInScope(t.K) /\ OwnerOf(L) = OwnerOf(t.K)
  BY <1>3 DEF SameScope, NamesOf, ViewsInScope, OwnerOf
<1>7. Link(fr, c, a, base)
  <2>1. EndOf(c, s.t) = After(t.n - 1, L, G, s.t)
    BY <1>5 DEF EndOf
  <2>2. Checked(c, s.t)
    BY <1>2, <1>3, <1>4, <1>5, <1>6, <2>1, ZenonT(60) DEF Checked
  <2>3. Covers(a.K, c.G, a.G)
    BY <1>1, <1>5, SelfCovers
  <2>4. LoopLink(fr, c, a)
    BY <1>1, <1>2, <1>3, <1>4, <1>5, <1>6, <2>1, <2>2, <2>3, ZenonT(60) DEF LoopLink
  <2> QED BY <1>1, <1>3, <1>5, <2>4 DEF Link
<1>8. PICK V : Stacked(<<fr>> \o Advancing(fs), V, base) /\ V[1] = c /\ V[Len(V)] = U[Len(U)]
  BY <1>1, <1>5, <1>7, StackOver
<1>9. Looping(t, s, G, c)
  BY <1>2, <1>3, <1>5 DEF Looping
<1> QED BY <1>1, <1>8, <1>9, SMTT(60)

(* The scope a binder opens over a typing's.                                *)
LEMMA WiderScoped ==
  ASSUME NEW K \in Contexts, NEW L \in Contexts, NEW x \in STRING, NEW ty \in Types, Widened(K, L, x, ty),
         Scoped(K)
  PROVE  Scoped(L)
<1>1. NamesOf(L) = NamesOf(K) \cup Named(x)
  BY WidenedNames
<1>2. "_" \notin NamesOf(L)
  BY <1>1 DEF Scoped, Named
<1>3. CASE x = "_"
  <2>1. L.locals = K.locals
    BY <1>3 DEF Widened
  <2> QED BY <1>2, <2>1 DEF Scoped
<1>4. CASE x # "_"
  <2> DEFINE e == [x |-> x, ty |-> ty]
  <2>1. e \in [x : STRING, ty : Types] /\ e.x = x /\ L.locals = <<e>> \o K.locals
    BY <1>4 DEF Widened
  <2> HIDE DEF e
  <2>2. /\ L.locals[1] = e
        /\ \A i \in DOMAIN L.locals : i = 1 \/ (i - 1 \in DOMAIN K.locals /\ L.locals[i] = K.locals[i - 1])
    BY <2>1, LocalsPushed, SMTT(60)
  <2>3. DOMAIN L.locals = 1..Len(L.locals) /\ Len(L.locals) \in Nat
    BY LocalsTyped
  <2>4. \A i \in DOMAIN K.locals : K.locals[i].x # x
    BY DEF Widened, NamesOf
  <2>5. ASSUME NEW i \in DOMAIN L.locals, NEW j \in DOMAIN L.locals, L.locals[i].x = L.locals[j].x
        PROVE  i = j
    <3>1. CASE i = 1
      BY <2>1, <2>2, <2>4, <2>5, <3>1
    <3>2. CASE j = 1
      BY <2>1, <2>2, <2>4, <2>5, <3>2
    <3>3. CASE i # 1 /\ j # 1
      <4>1. /\ i - 1 \in DOMAIN K.locals /\ L.locals[i] = K.locals[i - 1]
            /\ j - 1 \in DOMAIN K.locals /\ L.locals[j] = K.locals[j - 1]
        BY <2>2, <3>3
      <4>2. i - 1 = j - 1
        BY <2>5, <4>1 DEF Scoped
      <4> QED BY <2>3, <4>2
    <3> QED BY <3>1, <3>2, <3>3
  <2> QED BY <1>2, <2>5 DEF Scoped
<1> QED BY <1>3, <1>4

LEMMA WiderKnown ==
  ASSUME NEW K \in Contexts, NEW L \in Contexts, NEW x \in STRING, NEW ty \in Types, Widened(K, L, x, ty),
         SameLoop(L, K), NEW F, NEW live, Known(K, F, live)
  PROVE  Known(L, F, live)
<1>1. NamesOf(L) = NamesOf(K) \cup Named(x)
  BY WidenedNames
<1> QED BY <1>1 DEF Known, SameLoop

LEMMA WiderNames ==
  ASSUME NEW K \in Contexts, NEW L \in Contexts, NEW x \in STRING, NEW ty \in Types, Widened(K, L, x, ty)
  PROVE  NamesOf(L) = NamesOf(K) \cup Named(x)
BY WidenedNames

LEMMA WiderViews ==
  ASSUME NEW K \in Contexts, NEW L \in Contexts, NEW x \in STRING, NEW ty \in Types, Widened(K, L, x, ty),
         NEW live, live \subseteq NamesOf(K), live \cap ViewsInScope(K) = {}
  PROVE  live \cap ViewsInScope(L) = {}
<1>1. ViewsInScope(L) = ViewsInScope(K) \cup (IF ty = "view" THEN Named(x) ELSE {})
  BY WidenedNames, ZenonT(60)
<1>2. x \notin live
  BY DEF Widened
<1> QED BY <1>1, <1>2 DEF Named

LEMMA WiderPaired ==
  ASSUME NEW K \in Contexts, NEW L \in Contexts, NEW x \in STRING, NEW ty \in {"view", "cast"},
         Widened(K, L, x, ty), NEW own, Paired(K, own)
  PROVE  Paired(L, own)
<1>1. CASE x = "_"
  <2>1. L.locals = K.locals
    BY <1>1 DEF Widened
  <2> QED BY <2>1, SamePairs
<1>2. CASE x # "_"
  <2> DEFINE e == [x |-> x, ty |-> ty]
             q == L.locals
             k == K.locals
  <2>1. e \in [x : STRING, ty : Types] /\ e.ty # "sock" /\ L.locals = <<e>> \o K.locals
    BY <1>2 DEF Widened, Types
  <2> HIDE DEF e
  <2>2. q[1] = e /\ \A i \in DOMAIN q : i = 1 \/ (i - 1 \in DOMAIN k /\ q[i] = k[i - 1])
    BY <2>1, LocalsPushed, SMTT(60)
  <2>3. \A i \in DOMAIN k : i + 1 \in DOMAIN q /\ q[i + 1] = k[i]
    BY <2>1, LocalsPushed, SMTT(60)
  <2>4. /\ \A i \in DOMAIN k : k[i].ty = "sock" =>
            \E j \in DOMAIN own : own[j].x = k[i].x /\ own[j].got.res = "sockref"
        /\ \A j \in DOMAIN own : own[j].x # "_" =>
            \E i \in DOMAIN k : k[i].x = own[j].x /\ k[i].ty = OwnType(own[j].got.res)
    BY DEF Paired
  <2> HIDE DEF q, k
  <2>5. ASSUME NEW i \in DOMAIN q, q[i].ty = "sock"
        PROVE  \E j \in DOMAIN own : own[j].x = q[i].x /\ own[j].got.res = "sockref"
    <3>1. i - 1 \in DOMAIN k /\ q[i] = k[i - 1]
      BY <2>1, <2>2, <2>5
    <3> QED BY <2>4, <2>5, <3>1
  <2>6. ASSUME NEW j \in DOMAIN own, own[j].x # "_"
        PROVE  \E i \in DOMAIN q : q[i].x = own[j].x /\ q[i].ty = OwnType(own[j].got.res)
    <3>1. PICK i \in DOMAIN k : k[i].x = own[j].x /\ k[i].ty = OwnType(own[j].got.res)
      BY <2>4, <2>6
    <3> QED BY <2>3, <3>1
  <2> QED BY <2>5, <2>6 DEF Paired, q
<1> QED BY <1>1, <1>2

(* What a `try` binds and what it checks its block with.                    *)
LEMMA TryChecked ==
  ASSUME NEW t, NEW s, Starts(t, s), s.op = "try",
         NEW M, M = Entering(t.K, t.G, s), NEW L, L = TryContext(t.K, s),
         NEW Ft, Ft = After(t.n - 1, L, M, s.t), NEW G, G = Step(t.n, t.K, t.G, s)
  PROVE  /\ t.n - 1 \in Nat /\ s.t \in Blocks[t.n - 1] /\ s.x \in STRING
         /\ L \in Contexts /\ Ft \in FactSets /\ Ft.ok
         /\ SameUnit(L, t.K) /\ SameLoop(L, t.K) /\ L.held = t.K.held
         /\ FallibleOk(t.K, s)
         /\ \E ty \in {"view", "cast"} : Widened(t.K, L, s.x, ty)
         /\ \A d \in L.derived : d[1] \in NamesOf(t.K) => d \in t.K.derived
         /\ Plain[t.n - 1][NamesOf(L)][OwnerOf(L)][s.t]
         /\ ResizeIn[t.n - 1][s.t] => t.live \cap ViewsInScope(L) = {}
         /\ Follows(L, M, Ft, ResizeIn[t.n - 1][s.t], Exits[t.n - 1][s.t])
         /\ Covers(t.K, Ft, G)
<1> DEFINE n == t.n
           K == t.K
<1>1. /\ Good(t) /\ s \in Stmts(n) /\ Step(n, K, t.G, s).ok /\ PlainStmt(PlainAt(n), NamesOf(K), OwnerOf(K), s)
      /\ Kills(ResizeAt(n), s) => t.live \cap ViewsInScope(K) = {}
  BY DEF Starts
<1>2. n \in Nat /\ K \in Contexts /\ t.G \in FactSets /\ Known(K, t.G, t.live)
  BY <1>1, GoodParts
<1>3. s.op \in Compound
  BY DEF Compound
<1>4. n - 1 \in Nat /\ n # 0 /\ s.t \in Blocks[n - 1] /\ s.x \in STRING /\ s.y \in STRING /\ s.f \in Fallibles
  BY <1>1, <1>2, <1>3, InnerBlocks
<1>5. PlainAt(n) = Plain[n - 1] /\ ResizeAt(n) = ResizeIn[n - 1]
  BY <1>4 DEF PlainAt, ResizeAt
<1>6. s.x \notin NamesOf(K) /\ Plain[n - 1][NamesOf(K) \cup Named(s.x)][OwnerOf(K)][s.t]
  BY <1>1, <1>5 DEF PlainStmt
<1>7. ResizeIn[n - 1][s.t] => t.live \cap ViewsInScope(K) = {}
  BY <1>1, <1>5 DEF Kills
<1>8. L \in Contexts /\ Ft \in FactSets /\ Ft.ok /\ FallibleOk(K, s) /\ Covers(K, Ft, G)
  <2> DEFINE Fe == After(n - 1, K, M, s.e)
  <2>1. Fe = After(n - 1, K, M, s.e)
    OBVIOUS
  <2> HIDE DEF Fe
  <2> QED BY <1>1, <1>2, <1>6, <2>1, TryCovers
<1>9. /\ L.locals = IF s.x = "_" THEN K.locals ELSE <<[x |-> s.x, ty |-> Bound[s.f]]>> \o K.locals
      /\ L.held = K.held /\ SameLoop(L, K) /\ SameUnit(L, K)
  BY <1>2, <1>4, TryContextParts
<1>10. L.derived = IF s.f = "cast" /\ s.x # "_" THEN K.derived \cup {<<s.x, s.y>>} ELSE K.derived
  BY <1>2, <1>4, TryContextParts
<1>11. PICK ty \in {"view", "cast"} : Widened(K, L, s.x, ty)
  <2>1. CASE s.x = "_"
    BY <1>6, <1>9, <2>1 DEF Widened
  <2>2. CASE s.x # "_"
    <3>1. Bound[s.f] \in {"view", "cast"}
      <4>1. Bound[s.f] # "none"
        BY <1>8, <2>2 DEF FallibleOk
      <4>2. /\ Bound["view"] = "view" /\ Bound["cast"] = "cast"
            /\ Bound["resize"] = "none" /\ Bound["tail"] = "none"
        BY DEF Bound
      <4> QED BY <1>4, <4>1, <4>2 DEF Fallibles
    <3> QED BY <1>6, <1>9, <2>2, <3>1 DEF Widened
  <2> QED BY <2>1, <2>2
<1>12. \A d \in L.derived : d[1] \in NamesOf(K) => d \in K.derived
  <2> SUFFICES ASSUME NEW d \in L.derived, d[1] \in NamesOf(K) PROVE d \in K.derived
    OBVIOUS
  <2>1. d \in K.derived \/ d = <<s.x, s.y>>
    BY <1>10
  <2>2. d # <<s.x, s.y>>
    BY <1>6
  <2> QED BY <2>1, <2>2
<1>13. /\ NamesOf(L) = NamesOf(K) \cup Named(s.x)
       /\ ResizeIn[n - 1][s.t] => t.live \cap ViewsInScope(L) = {}
  <2>1. ty \in Types
    BY DEF Types
  <2>2. NamesOf(L) = NamesOf(K) \cup Named(s.x)
    BY <1>2, <1>4, <1>8, <1>11, <2>1, WiderNames
  <2>3. ASSUME ResizeIn[n - 1][s.t] PROVE t.live \cap ViewsInScope(L) = {}
    <3>1. t.live \subseteq NamesOf(K) /\ t.live \cap ViewsInScope(K) = {}
      BY <1>2, <1>7, <2>3 DEF Known
    <3> QED BY <1>2, <1>4, <1>8, <1>11, <2>1, <3>1, WiderViews
  <2> QED BY <2>2, <2>3
<1>14. OwnerOf(L) = OwnerOf(K)
  BY <1>9 DEF OwnerOf
<1>15. Plain[n - 1][NamesOf(L)][OwnerOf(L)][s.t]
  BY <1>6, <1>13, <1>14
<1>16. ResizeIn[n - 1][s.t] => t.live \cap ViewsInScope(L) = {}
  BY <1>13
<1>17. Follows(L, M, Ft, ResizeIn[n - 1][s.t], Exits[n - 1][s.t])
  <2>1. BlocksFollow(n - 1)
    BY <1>4, AllFollow
  <2>2. OwnerOf(L) \in Owners
    BY <1>8, OwnerTyped
  <2>3. M \in FactSets
    BY <1>3, EntersKnown
  <2> QED BY <1>4, <1>8, <1>15, <2>1, <2>2, <2>3 DEF BlocksFollow
<1> QED BY <1>4, <1>8, <1>9, <1>11, <1>12, <1>15, <1>16, <1>17

(* The frames of a `try` taken, and what its block is checked as.           *)
LEMMA GoodTry ==
  ASSUME NEW t, Good(t), NEW n \in Nat, NEW L \in Contexts, SameLoop(L, t.K), L.held = t.K.held,
         NEW x \in STRING, NEW ty \in {"view", "cast"}, Widened(t.K, L, x, ty),
         NEW F \in FactSets, Known(L, F, t.live)
  PROVE  Good(Typing(n, L, F, t.live, t.own))
<1> DEFINE u == Typing(n, L, F, t.live, t.own)
<1>1. /\ t.K \in Contexts /\ t.live \in SUBSET STRING /\ t.own \in Seq(Frames)
      /\ Scoped(t.K) /\ Mirrors(t.K, t.own) /\ Apart(t.own) /\ Paired(t.K, t.own)
  BY GoodParts
<1>2. u \in Typings /\ u.n = n /\ u.K = L /\ u.G = F /\ u.live = t.live /\ u.own = t.own
  BY <1>1, TypingIs
<1> HIDE DEF u
<1>3. ty \in Types
  BY DEF Types
<1>4. Scoped(L)
  BY <1>1, <1>3, WiderScoped
<1>5. Paired(L, t.own)
  BY <1>1, WiderPaired
<1>6. Mirrors(L, t.own)
  BY <1>1 DEF Mirrors
<1>7. Good(u)
  BY <1>1, <1>2, <1>4, <1>5, <1>6 DEF Good
<1> QED BY <1>7 DEF u

TryOpened(t, s, c) ==
  /\ c.K = TryContext(t.K, s) /\ c.G = Entering(t.K, t.G, s) /\ c.live = t.live /\ c.own = t.own
  /\ c.K \in Contexts /\ SameLoop(c.K, t.K) /\ SameUnit(c.K, t.K) /\ c.K.held = t.K.held
  /\ FallibleOk(t.K, s)
  /\ s.x \notin NamesOf(t.K)

LEMMA TryEntered ==
  ASSUME NEW fs, NEW T, NEW base, NEW t, NEW s, NEW G, NEW a, NEW U,
         Begun(fs, T, base, t, s, G, a, U), s.op = "try",
         NEW f1 \in Frames, f1.at = "block", f1.rest = s.t,
         f1.n = Len(TryContext(t.K, s).locals) + base,
         NEW f2 \in Frames, f2.at = "try", f2.n = Len(t.K.locals) + base
  PROVE  \E c, V : /\ TryOpened(t, s, c)
                   /\ Stacked(<<f1>> \o (<<f2>> \o Advancing(fs)), V, base)
                   /\ V[1] = c /\ V[Len(V)] = T[Len(T)]
<1> DEFINE M == Entering(t.K, t.G, s)
           L == TryContext(t.K, s)
           Ft == After(t.n - 1, L, M, s.t)
           m == t.n - 1
           c1 == Typing(m, L, M, t.live, t.own)
           c2 == Typing(m, L, Ft, t.live, t.own)
<1>1. /\ Starts(t, s) /\ G = Step(t.n, t.K, t.G, s) /\ Good(t)
      /\ Good(a) /\ a.K = t.K /\ a.G = G /\ a.live = t.live /\ a.own = t.own
      /\ Stacked(Advancing(fs), U, base) /\ U[1] = a /\ U[Len(U)] = T[Len(T)]
  BY DEF Begun, Starts
<1>2. /\ M = Entering(t.K, t.G, s) /\ L = TryContext(t.K, s) /\ Ft = After(t.n - 1, L, M, s.t)
      /\ c1 = Typing(m, L, M, t.live, t.own) /\ c2 = Typing(m, L, Ft, t.live, t.own)
      /\ m = t.n - 1
  OBVIOUS
<1> HIDE DEF M, L, Ft, c1, c2, m
<1>3. t.K \in Contexts /\ Known(t.K, t.G, t.live) /\ s.op \in Compound
  BY <1>1, GoodParts DEF Compound
<1>4. M \in FactSets /\ Known(t.K, M, t.live)
  BY <1>1, <1>2, <1>3, EntersKnown, SMTT(60)
<1>5. m \in Nat /\ s.t \in Blocks[m] /\ s.x \in STRING
  BY <1>1, <1>2, TryChecked, SMTT(60)
<1>6. L \in Contexts /\ Ft \in FactSets /\ Ft.ok /\ Ft = After(m, L, M, s.t)
  BY <1>1, <1>2, TryChecked, SMTT(60)
<1>7. SameUnit(L, t.K) /\ SameLoop(L, t.K) /\ L.held = t.K.held /\ FallibleOk(t.K, s)
  BY <1>1, <1>2, TryChecked, SMTT(60)
<1>8. PICK ty \in {"view", "cast"} : Widened(t.K, L, s.x, ty)
  BY <1>1, <1>2, TryChecked, SMTT(60)
<1>9. \A d \in L.derived : d[1] \in NamesOf(t.K) => d \in t.K.derived
  BY <1>1, <1>2, TryChecked, SMTT(60)
<1>10. Plain[m][NamesOf(L)][OwnerOf(L)][s.t] /\ (ResizeIn[m][s.t] => t.live \cap ViewsInScope(L) = {})
  BY <1>1, <1>2, TryChecked, SMTT(60)
<1>11. Follows(L, M, Ft, ResizeIn[m][s.t], Exits[m][s.t])
  BY <1>1, <1>2, TryChecked, SMTT(60)
<1>12. Covers(t.K, Ft, G)
  BY <1>1, <1>2, TryChecked
<1>13. ty \in Types
  BY DEF Types
<1>14. Known(L, M, t.live)
  BY <1>3, <1>4, <1>5, <1>6, <1>7, <1>8, <1>13, WiderKnown
<1>15. Known(L, Ft, t.live)
  BY <1>6, <1>10, <1>11, <1>14, Knows
<1>16. Good(c1) /\ c1.n = m /\ c1.K = L /\ c1.G = M /\ c1.live = t.live /\ c1.own = t.own
  <2>1. Good(c1)
    <3>1. Good(Typing(m, L, M, t.live, t.own))
      BY <1>1, <1>4, <1>5, <1>6, <1>7, <1>8, <1>14, GoodTry
    <3> QED BY <1>2, <3>1
  <2> QED BY <1>2, <2>1 DEF Typing
<1>17. Good(c2) /\ c2.n = m /\ c2.K = L /\ c2.G = Ft /\ c2.live = t.live /\ c2.own = t.own
  <2>1. Good(c2)
    <3>1. Good(Typing(m, L, Ft, t.live, t.own))
      BY <1>1, <1>5, <1>6, <1>7, <1>8, <1>15, GoodTry
    <3> QED BY <1>2, <3>1
  <2> QED BY <1>2, <2>1 DEF Typing
<1>18. Link(f2, c2, a, base)
  <2>1. Covers(a.K, c2.G, a.G)
    BY <1>1, <1>12, <1>17
  <2>2. \E x \in NamesOf(L) \cup {"_"}, tz \in {"view", "cast"} : Widened(t.K, L, x, tz)
    <3>1. NamesOf(L) = NamesOf(t.K) \cup Named(s.x)
      BY <1>3, <1>5, <1>6, <1>8, <1>13, WiderNames
    <3>2. s.x \in NamesOf(L) \cup {"_"}
      BY <3>1 DEF Named
    <3> QED BY <1>8, <3>2
  <2>3. TryLink(f2, c2, a, base)
    BY <1>1, <1>7, <1>9, <1>17, <2>1, <2>2 DEF TryLink
  <2> QED BY <1>1, <1>7, <1>17, <2>3 DEF Link
<1>19. PICK W : Stacked(<<f2>> \o Advancing(fs), W, base) /\ W[1] = c2 /\ W[Len(W)] = U[Len(U)]
  BY <1>1, <1>17, <1>18, StackOver
<1>20. Link(f1, c1, c2, base)
  <2>1. EndOf(c1, s.t) = Ft
    BY <1>6, <1>16 DEF EndOf
  <2>2. Checked(c1, s.t)
    BY <1>5, <1>6, <1>10, <1>16, <2>1 DEF Checked
  <2>3. Covers(c2.K, Ft, c2.G)
    BY <1>17, SelfCovers
  <2>4. f1.n = Len(c1.K.locals) + base
    BY <1>2, <1>16
  <2>5. BlockLink(f1, c1, c2, base)
    BY <1>16, <1>17, <2>1, <2>2, <2>3, <2>4 DEF BlockLink
  <2> QED BY <1>16, <1>17, <2>5 DEF Link, SameUnit
<1>21. PICK V : Stacked(<<f1>> \o (<<f2>> \o Advancing(fs)), V, base) /\ V[1] = c1 /\ V[Len(V)] = W[Len(W)]
  <2> DEFINE g == <<f2>> \o Advancing(fs)
  <2>1. Stacked(g, W, base)
    BY <1>19
  <2> HIDE DEF g
  <2>2. \E V : Stacked(<<f1>> \o g, V, base) /\ V[1] = c1 /\ V[Len(V)] = W[Len(W)]
    BY <1>16, <1>19, <1>20, <2>1, StackOver
  <2> QED BY <2>2 DEF g
<1>22. TryOpened(t, s, c1)
  <2>1. s.x \notin NamesOf(t.K)
    BY <1>8 DEF Widened
  <2> QED BY <1>2, <1>6, <1>7, <1>16, <2>1 DEF TryOpened
<1> QED BY <1>1, <1>19, <1>21, <1>22

(* What a `hold` binds and what it checks its block with.                   *)
LEMMA HoldChecked ==
  ASSUME NEW t, NEW s, Starts(t, s), s.op = "hold",
         NEW M, M = Entering(t.K, t.G, s), NEW L, L = HoldContext(t.K, s),
         NEW Fb, Fb = After(t.n - 1, L, M, s.t), NEW G, G = Step(t.n, t.K, t.G, s)
  PROVE  /\ t.n - 1 \in Nat /\ s.t \in Blocks[t.n - 1] /\ s.x \in STRING /\ s.r \in STRING
         /\ L \in Contexts /\ Fb \in FactSets /\ Fb.ok
         /\ SameUnit(L, t.K) /\ SameLoop(L, t.K) /\ L.held = <<[res |-> s.r, x |-> s.x]>> \o t.K.held
         /\ HoldOk(RulesAt(t.n), t.K, s) /\ CheckHeld(t.K, s)
         /\ Widened(t.K, L, s.x, OwnType(s.r)) /\ L.derived = t.K.derived
         /\ Plain[t.n - 1][NamesOf(L)][OwnerOf(L)][s.t]
         /\ ResizeIn[t.n - 1][s.t] => t.live \cap ViewsInScope(L) = {}
         /\ Follows(L, M, Fb, ResizeIn[t.n - 1][s.t], Exits[t.n - 1][s.t])
         /\ Covers(t.K, Fb, G)
<1> DEFINE n == t.n
           K == t.K
           ty == OwnType(s.r)
<1>1. /\ Good(t) /\ s \in Stmts(n) /\ Step(n, K, t.G, s).ok /\ PlainStmt(PlainAt(n), NamesOf(K), OwnerOf(K), s)
      /\ Kills(ResizeAt(n), s) => t.live \cap ViewsInScope(K) = {}
  BY DEF Starts
<1>2. n \in Nat /\ K \in Contexts /\ t.G \in FactSets /\ Known(K, t.G, t.live)
  BY <1>1, GoodParts
<1>3. s.op \in Compound
  BY DEF Compound
<1>4. n - 1 \in Nat /\ n # 0 /\ s.t \in Blocks[n - 1] /\ s.x \in STRING /\ s.r \in STRING
  BY <1>1, <1>2, <1>3, InnerBlocks
<1>5. PlainAt(n) = Plain[n - 1] /\ ResizeAt(n) = ResizeIn[n - 1]
  BY <1>4, SMTT(60) DEF PlainAt, ResizeAt
<1>6. s.x \notin NamesOf(K) /\ Plain[n - 1][NamesOf(K) \cup Named(s.x)][s.x][s.t]
  BY <1>1, <1>5 DEF PlainStmt
<1>7. ResizeIn[n - 1][s.t] => t.live \cap ViewsInScope(K) = {}
  BY <1>1, <1>5 DEF Kills
<1>8. L \in Contexts /\ Fb \in FactSets /\ Fb.ok /\ HoldOk(RulesAt(n), K, s) /\ Covers(K, Fb, G)
  <2> DEFINE Fe == ElseOf(n, K, M, s)
  <2>1. Fe = ElseOf(n, K, M, s)
    OBVIOUS
  <2> HIDE DEF Fe
  <2>2. L \in Contexts /\ Fb \in FactSets /\ Fb.ok
    BY <1>1, <1>2, <1>6, <2>1, HoldCovers
  <2>3. HoldOk(RulesAt(n), K, s)
    BY <1>1, <1>2, <1>6, <2>1, HoldCovers, SMTT(60)
  <2>4. Covers(K, Fb, G)
    BY <1>1, <1>2, <1>6, <2>1, HoldCovers
  <2> QED BY <2>2, <2>3, <2>4
<1>9. /\ L.locals = IF s.x = "_" THEN K.locals ELSE <<[x |-> s.x, ty |-> ty]>> \o K.locals
      /\ L.held = <<[res |-> s.r, x |-> s.x]>> \o K.held /\ L.derived = K.derived
      /\ SameLoop(L, K) /\ SameUnit(L, K)
  <2>1. L.locals = IF s.x = "_" THEN K.locals
                   ELSE <<[x |-> s.x, ty |-> IF s.r = "sockref" THEN "sock" ELSE "rec"]>> \o K.locals
    BY <1>2, <1>4, HoldContextParts
  <2>2. L.held = <<[res |-> s.r, x |-> s.x]>> \o K.held /\ L.derived = K.derived
    BY <1>2, <1>4, HoldContextParts
  <2>3. SameLoop(L, K) /\ SameUnit(L, K)
    BY <1>2, <1>4, HoldContextParts
  <2> QED BY <2>1, <2>2, <2>3 DEF OwnType
<1>10. ty \in Types
  BY SMTT(60) DEF OwnType, Types
<1>11. Widened(K, L, s.x, ty)
  <2> HIDE DEF ty
  <2> QED BY <1>6, <1>9 DEF Widened
<1>12. OwnerOf(L) = s.x
  <2> DEFINE e == [res |-> s.r, x |-> s.x]
  <2>1. e \in [res : STRING, x : STRING] /\ e.x = s.x
    BY <1>4
  <2>2. K.held \in Seq([res : STRING, x : STRING])
    BY <1>2, OwnerTyped
  <2>3. L.held = <<e>> \o K.held
    BY <1>9
  <2> HIDE DEF e
  <2>4. L.held # <<>> /\ Head(L.held) = e
    BY <2>1, <2>2, <2>3, ConsParts
  <2> QED BY <2>1, <2>4 DEF OwnerOf
<1> HIDE DEF ty
<1>13. NamesOf(L) = NamesOf(K) \cup Named(s.x)
  BY <1>2, <1>4, <1>8, <1>10, <1>11, WiderNames
<1>14. ASSUME ResizeIn[n - 1][s.t] PROVE t.live \cap ViewsInScope(L) = {}
  <2>1. t.live \subseteq NamesOf(K) /\ t.live \cap ViewsInScope(K) = {}
    BY <1>2, <1>7, <1>14, SMTT(60) DEF Known
  <2> QED BY <1>2, <1>4, <1>8, <1>10, <1>11, <2>1, WiderViews
<1>15. Plain[n - 1][NamesOf(L)][OwnerOf(L)][s.t]
  BY <1>6, <1>12, <1>13
<1>16. CheckHeld(K, s)
  BY <1>1, <1>2, StepAccepted, SMTT(60)
<1>17. Follows(L, M, Fb, ResizeIn[n - 1][s.t], Exits[n - 1][s.t])
  <2>1. BlocksFollow(n - 1)
    BY <1>4, AllFollow
  <2>2. OwnerOf(L) \in Owners
    BY <1>8, OwnerTyped
  <2>3. M \in FactSets
    BY <1>3, EntersKnown
  <2> QED BY <1>4, <1>8, <1>15, <2>1, <2>2, <2>3 DEF BlocksFollow
<1> QED BY <1>4, <1>8, <1>9, <1>11, <1>14, <1>15, <1>16, <1>17 DEF ty

(* A sequence longer by one, at its head.                                   *)
Extends(r, a, q) ==
  /\ Len(q) \in Nat /\ Len(r) = Len(q) + 1 /\ r[1] = a /\ 1 \in DOMAIN r
  /\ DOMAIN q = 1..Len(q) /\ DOMAIN r = 1..(Len(q) + 1)
  /\ \A i \in DOMAIN q : i + 1 \in DOMAIN r /\ r[i + 1] = q[i]
  /\ \A i \in DOMAIN r : i = 1 \/ (i - 1 \in DOMAIN q /\ (i - 1) + 1 = i /\ r[i] = q[i - 1])

LEMMA ConsExtends ==
  ASSUME NEW S, NEW a \in S, NEW q \in Seq(S), NEW r, r = <<a>> \o q
  PROVE  Extends(r, a, q)
<1>1. /\ Len(q) \in Nat /\ Len(r) = Len(q) + 1 /\ r[1] = a /\ 1 \in DOMAIN r
      /\ \A i \in DOMAIN q : i + 1 \in DOMAIN r /\ r[i + 1] = q[i]
  BY ConsParts
<1>2. \A i \in DOMAIN r : i = 1 \/ (i - 1 \in DOMAIN q /\ r[i] = q[i - 1])
  BY ConsParts
<1>3. r \in Seq(S)
  BY ConsParts
<1>4. DOMAIN q = 1..Len(q) /\ DOMAIN r = 1..(Len(q) + 1)
  BY <1>1, <1>3
<1>5. \A i \in DOMAIN r : (i - 1) + 1 = i
  BY <1>1, <1>4
<1> QED BY <1>1, <1>2, <1>4, <1>5 DEF Extends

LEMMA LocalsExtend ==
  ASSUME NEW K \in Contexts, NEW L, NEW e \in [x : STRING, ty : Types], L.locals = <<e>> \o K.locals
  PROVE  Extends(L.locals, e, K.locals)
<1>1. K.locals \in Seq([x : STRING, ty : Types])
  BY LocalsTyped
<1> QED BY <1>1, ConsExtends

(* A hold around what it holds: the stack of owners grows by its frame.     *)
LEMMA OwnsMirror ==
  ASSUME NEW K \in Contexts, NEW L, NEW own \in Seq(Frames), Mirrors(K, own),
         NEW f \in Frames, f.at = "hold", GotOk(f.got), f.x # "_" <=> Yields(f.got.res),
         NEW e \in [res : STRING, x : STRING], e.x = f.x, e.res = f.got.res, L.held = <<e>> \o K.held
  PROVE  Mirrors(L, <<f>> \o own)
<1> DEFINE r == <<f>> \o own
           h == K.held
           q == L.held
<1>1. Extends(r, f, own)
  BY ConsExtends
<1>2. Extends(q, e, h)
  <2>1. h \in Seq([res : STRING, x : STRING])
    BY OwnerTyped
  <2> QED BY <2>1, ConsExtends
<1>3. Len(own) = Len(h)
  BY DEF Mirrors
<1> HIDE DEF r, q, h
<1>4. /\ Len(r) = Len(own) + 1 /\ r[1] = f
      /\ \A i \in DOMAIN r : i = 1 \/ (i - 1 \in DOMAIN own /\ (i - 1) + 1 = i /\ r[i] = own[i - 1])
  BY <1>1 DEF Extends
<1>5. /\ Len(q) = Len(h) + 1 /\ q[1] = e
      /\ \A i \in DOMAIN h : i + 1 \in DOMAIN q /\ q[i + 1] = h[i]
  BY <1>2 DEF Extends
<1>6. DOMAIN h = 1..Len(h) /\ DOMAIN own = 1..Len(own)
  BY <1>1, <1>2 DEF Extends
<1>7. ASSUME NEW j \in DOMAIN r
      PROVE  /\ r[j].at = "hold" /\ GotOk(r[j].got)
             /\ r[j].x = q[j].x /\ r[j].got.res = q[j].res
             /\ r[j].x # "_" <=> Yields(r[j].got.res)
  <2>1. CASE j = 1
    BY <1>4, <1>5, <2>1
  <2>2. CASE j # 1
    <3>1. j - 1 \in DOMAIN own /\ (j - 1) + 1 = j /\ r[j] = own[j - 1]
      BY <1>4, <2>2
    <3>2. j - 1 \in DOMAIN h
      BY <1>3, <1>6, <3>1
    <3>3. q[j] = h[j - 1]
      BY <1>5, <3>1, <3>2
    <3>4. /\ own[j - 1].at = "hold" /\ GotOk(own[j - 1].got)
          /\ own[j - 1].x = h[j - 1].x /\ own[j - 1].got.res = h[j - 1].res
          /\ own[j - 1].x # "_" <=> Yields(own[j - 1].got.res)
      BY <3>1 DEF Mirrors, h
    <3> QED BY <3>1, <3>3, <3>4
  <2> QED BY <2>1, <2>2
<1>8. Len(r) = Len(q)
  BY <1>3, <1>4, <1>5
<1> QED BY <1>7, <1>8 DEF Mirrors, r, q

LEMMA OwnsPaired ==
  ASSUME NEW K \in Contexts, NEW L \in Contexts, NEW own \in Seq(Frames), Paired(K, own),
         NEW f \in Frames, f.x \in STRING, Widened(K, L, f.x, OwnType(f.got.res)),
         f.x # "_" <=> Yields(f.got.res)
  PROVE  Paired(L, <<f>> \o own)
<1> DEFINE r == <<f>> \o own
           q == L.locals
           k == K.locals
           e == [x |-> f.x, ty |-> OwnType(f.got.res)]
<1>1. /\ r[1] = f /\ 1 \in DOMAIN r
      /\ \A j \in DOMAIN own : j + 1 \in DOMAIN r /\ r[j + 1] = own[j]
      /\ \A j \in DOMAIN r : j = 1 \/ (j - 1 \in DOMAIN own /\ r[j] = own[j - 1])
  <2>1. Extends(r, f, own)
    BY ConsExtends
  <2> HIDE DEF r
  <2> QED BY <2>1 DEF Extends
<1>2. /\ \A i \in DOMAIN k : k[i].ty = "sock" =>
           \E j \in DOMAIN own : own[j].x = k[i].x /\ own[j].got.res = "sockref"
      /\ \A j \in DOMAIN own : own[j].x # "_" =>
           \E i \in DOMAIN k : k[i].x = own[j].x /\ k[i].ty = OwnType(own[j].got.res)
  BY DEF Paired
<1>3. CASE f.x = "_"
  <2>1. q = k
    BY <1>3 DEF Widened
  <2> HIDE DEF r, q, k
  <2>2. ASSUME NEW i \in DOMAIN q, q[i].ty = "sock"
        PROVE  \E j \in DOMAIN r : r[j].x = q[i].x /\ r[j].got.res = "sockref"
    <3>1. PICK j \in DOMAIN own : own[j].x = k[i].x /\ own[j].got.res = "sockref"
      BY <1>2, <2>1, <2>2
    <3> QED BY <1>1, <2>1, <3>1, ZenonT(60)
  <2>3. ASSUME NEW j \in DOMAIN r, r[j].x # "_"
        PROVE  \E i \in DOMAIN q : q[i].x = r[j].x /\ q[i].ty = OwnType(r[j].got.res)
    <3>1. j - 1 \in DOMAIN own /\ r[j] = own[j - 1]
      BY <1>1, <1>3, <2>3
    <3> QED BY <1>2, <2>1, <2>3, <3>1, ZenonT(60)
  <2> QED BY <2>2, <2>3 DEF Paired, q, r
<1>4. CASE f.x # "_"
  <2>1. e \in [x : STRING, ty : Types] /\ e.x = f.x /\ e.ty = OwnType(f.got.res) /\ L.locals = <<e>> \o K.locals
    BY <1>4 DEF Widened, OwnType, Types
  <2>2. e.ty = "sock" => f.got.res = "sockref"
    BY <2>1 DEF OwnType
  <2> HIDE DEF e, r
  <2>9. Extends(q, e, k)
    BY <2>1, LocalsExtend
  <2> HIDE DEF q, k
  <2>3. q[1] = e /\ \A i \in DOMAIN q : i = 1 \/ (i - 1 \in DOMAIN k /\ q[i] = k[i - 1])
    BY <2>9 DEF Extends
  <2>4. 1 \in DOMAIN q /\ \A i \in DOMAIN k : i + 1 \in DOMAIN q /\ q[i + 1] = k[i]
    BY <2>9 DEF Extends
  <2>5. ASSUME NEW i \in DOMAIN q, q[i].ty = "sock"
        PROVE  \E j \in DOMAIN r : r[j].x = q[i].x /\ r[j].got.res = "sockref"
    <3>1. CASE i = 1
      BY <1>1, <2>1, <2>2, <2>3, <2>5, <3>1
    <3>2. CASE i # 1
      <4>1. i - 1 \in DOMAIN k /\ q[i] = k[i - 1]
        BY <2>3, <3>2
      <4>2. PICK j \in DOMAIN own : own[j].x = k[i - 1].x /\ own[j].got.res = "sockref"
        BY <1>2, <2>5, <4>1
      <4> QED BY <1>1, <4>1, <4>2, ZenonT(60)
    <3> QED BY <3>1, <3>2
  <2>6. ASSUME NEW j \in DOMAIN r, r[j].x # "_"
        PROVE  \E i \in DOMAIN q : q[i].x = r[j].x /\ q[i].ty = OwnType(r[j].got.res)
    <3>1. CASE j = 1
      BY <1>1, <2>1, <2>3, <2>4, <3>1
    <3>2. CASE j # 1
      <4>1. j - 1 \in DOMAIN own /\ r[j] = own[j - 1]
        BY <1>1, <3>2
      <4>2. PICK i \in DOMAIN k : k[i].x = own[j - 1].x /\ k[i].ty = OwnType(own[j - 1].got.res)
        BY <1>2, <2>6, <4>1
      <4> QED BY <2>4, <4>1, <4>2
    <3> QED BY <3>1, <3>2
  <2> QED BY <2>5, <2>6 DEF Paired, q, r
<1> QED BY <1>3, <1>4

LEMMA OwnsApart ==
  ASSUME NEW own \in Seq(Frames), Apart(own),
         NEW f \in Frames, f.got.res = "sockref" => Foreign(own, f.got.obj.n)
  PROVE  Apart(<<f>> \o own)
<1> DEFINE r == <<f>> \o own
<1>1. Extends(r, f, own)
  BY ConsExtends
<1> HIDE DEF r
<1>2. /\ DOMAIN own = 1..Len(own) /\ r[1] = f
      /\ \A i \in DOMAIN r : i = 1 \/ (i - 1 \in DOMAIN own /\ (i - 1) + 1 = i /\ r[i] = own[i - 1])
  BY <1>1 DEF Extends
<1>3. ASSUME NEW j \in DOMAIN r, NEW k \in DOMAIN r, r[j].got.res = "sockref", r[k].got.res = "sockref",
             r[j].got.obj.n = r[k].got.obj.n
      PROVE  j = k
  <2>1. CASE j = 1 /\ k = 1
    BY <2>1
  <2>2. CASE j = 1 /\ k # 1
    <3>1. k - 1 \in DOMAIN own /\ r[k] = own[k - 1]
      BY <1>2, <2>2
    <3> QED BY <1>2, <1>3, <2>2, <3>1 DEF Foreign
  <2>3. CASE j # 1 /\ k = 1
    <3>1. j - 1 \in DOMAIN own /\ r[j] = own[j - 1]
      BY <1>2, <2>3
    <3> QED BY <1>2, <1>3, <2>3, <3>1 DEF Foreign
  <2>4. CASE j # 1 /\ k # 1
    <3>1. /\ j - 1 \in DOMAIN own /\ r[j] = own[j - 1] /\ (j - 1) + 1 = j
          /\ k - 1 \in DOMAIN own /\ r[k] = own[k - 1] /\ (k - 1) + 1 = k
      BY <1>2, <2>4
    <3>2. j - 1 = k - 1
      BY <1>3, <3>1 DEF Apart
    <3> QED BY <3>1, <3>2
  <2> QED BY <2>1, <2>2, <2>3, <2>4
<1> QED BY <1>3 DEF Apart, r

(* The frames of a `hold` taken, and what its block is checked as.  The     *)
(* frame f got what nothing around it has.                                  *)
Takes(t, s, f) ==
  /\ f \in Frames /\ f.at = "hold" /\ f.x = s.x /\ f.got.res = s.r /\ GotOk(f.got)
  /\ f.got.res = "sockref" => Foreign(t.own, f.got.obj.n)

HoldsCall(K) == ~OpenBy(K.held)

LEMMA NothingOpen ==
  ASSUME NEW K, NEW s, CheckHeld(K, s), "call" \in Effects(s)
  PROVE  HoldsCall(K)
<1> SUFFICES ASSUME NEW i \in DOMAIN K.held, K.held[i].res = "spinlock" PROVE FALSE
  BY DEF HoldsCall, OpenBy
<1>1. "call" \in Forbids(K.held[i].res)
  BY DEF Forbids
<1> QED BY <1>1 DEF CheckHeld

LEMMA GoodHold ==
  ASSUME NEW t, Good(t), NEW n \in Nat, NEW L \in Contexts, SameLoop(L, t.K),
         NEW s, s.x \in STRING, s.r \in STRING, L.held = <<[res |-> s.r, x |-> s.x]>> \o t.K.held,
         Yields(s.r) <=> s.x # "_", Widened(t.K, L, s.x, OwnType(s.r)), NEW f, Takes(t, s, f),
         NEW F \in FactSets, Known(L, F, t.live)
  PROVE  Good(Typing(n, L, F, t.live, <<f>> \o t.own))
<1> DEFINE own == <<f>> \o t.own
           u == Typing(n, L, F, t.live, own)
           ty == OwnType(s.r)
           e == [res |-> s.r, x |-> s.x]
<1>1. /\ t.K \in Contexts /\ t.live \in SUBSET STRING /\ t.own \in Seq(Frames)
      /\ Scoped(t.K) /\ Mirrors(t.K, t.own) /\ Apart(t.own) /\ Paired(t.K, t.own)
  BY GoodParts
<1>2. f \in Frames /\ f.at = "hold" /\ GotOk(f.got) /\ f.x = s.x /\ f.got.res = s.r
  BY DEF Takes
<1>3. ty \in Types
  BY DEF OwnType, Types
<1>4. e \in [res : STRING, x : STRING] /\ e.x = f.x /\ e.res = f.got.res /\ L.held = <<e>> \o t.K.held
  BY <1>2
<1>5. Widened(t.K, L, f.x, OwnType(f.got.res)) /\ (f.x # "_" <=> Yields(f.got.res)) /\ f.x \in STRING
  BY <1>2
<1> HIDE DEF e, ty
<1>6. own \in Seq(Frames)
  BY <1>1, <1>2, ConsParts
<1>7. Scoped(L)
  BY <1>1, <1>3, WiderScoped DEF ty
<1>8. Mirrors(L, own)
  BY <1>1, <1>2, <1>4, <1>5, OwnsMirror
<1>9. Paired(L, own)
  BY <1>1, <1>2, <1>5, OwnsPaired
<1>10. Apart(own)
  BY <1>1, <1>2, OwnsApart DEF Takes
<1> HIDE DEF own
<1>11. u \in Typings /\ u.n = n /\ u.K = L /\ u.G = F /\ u.live = t.live /\ u.own = own
  <2>1. u.n = n /\ u.K = L /\ u.G = F /\ u.live = t.live /\ u.own = own
    BY DEF Typing
  <2>2. u \in Typings
    BY <1>1, <1>6 DEF Typing, Typings
  <2> QED BY <2>1, <2>2
<1> HIDE DEF u
<1>12. Good(u)
  BY <1>7, <1>8, <1>9, <1>10, <1>11 DEF Good
<1> QED BY <1>12 DEF u, own

HoldOpened(t, s, f, c) ==
  /\ c.K = HoldContext(t.K, s) /\ c.G = Entering(t.K, t.G, s) /\ c.live = t.live
  /\ c.own = <<f>> \o t.own
  /\ c.K \in Contexts /\ SameLoop(c.K, t.K) /\ SameUnit(c.K, t.K) /\ c.K.derived = t.K.derived
  /\ Widened(t.K, c.K, s.x, OwnType(s.r))

LEMMA HoldEntered ==
  ASSUME NEW fs, NEW T, NEW base, NEW t, NEW s, NEW G, NEW a, NEW U,
         Begun(fs, T, base, t, s, G, a, U), s.op = "hold",
         NEW f1 \in Frames, f1.at = "block", f1.rest = s.t,
         f1.n = Len(HoldContext(t.K, s).locals) + base,
         NEW f2, Takes(t, s, f2), f2.n = Len(t.K.locals) + base
  PROVE  \E c, V : /\ HoldOpened(t, s, f2, c)
                   /\ Stacked(<<f1>> \o (<<f2>> \o Advancing(fs)), V, base)
                   /\ V[1] = c /\ V[Len(V)] = T[Len(T)]
<1> DEFINE M == Entering(t.K, t.G, s)
           L == HoldContext(t.K, s)
           Fb == After(t.n - 1, L, M, s.t)
           m == t.n - 1
           ty == OwnType(s.r)
           own == <<f2>> \o t.own
           c1 == Typing(m, L, M, t.live, own)
           c2 == Typing(m, L, Fb, t.live, own)
<1>1. /\ Starts(t, s) /\ G = Step(t.n, t.K, t.G, s) /\ Good(t)
      /\ Good(a) /\ a.K = t.K /\ a.G = G /\ a.live = t.live /\ a.own = t.own
      /\ Stacked(Advancing(fs), U, base) /\ U[1] = a /\ U[Len(U)] = T[Len(T)]
  BY DEF Begun, Starts
<1>2. /\ M = Entering(t.K, t.G, s) /\ L = HoldContext(t.K, s) /\ Fb = After(t.n - 1, L, M, s.t)
      /\ c1 = Typing(m, L, M, t.live, own) /\ c2 = Typing(m, L, Fb, t.live, own)
      /\ m = t.n - 1 /\ own = <<f2>> \o t.own /\ ty = OwnType(s.r)
  OBVIOUS
<1> HIDE DEF M, L, Fb, c1, c2, m, own, ty
<1>3. t.K \in Contexts /\ Known(t.K, t.G, t.live) /\ s.op \in Compound
  BY <1>1, GoodParts DEF Compound
<1>4. M \in FactSets /\ Known(t.K, M, t.live)
  BY <1>1, <1>2, <1>3, EntersKnown, SMTT(60)
<1>5. m \in Nat /\ s.t \in Blocks[m] /\ s.x \in STRING /\ s.r \in STRING
  BY <1>1, <1>2, HoldChecked
<1>6. L \in Contexts /\ Fb \in FactSets /\ Fb.ok /\ Fb = After(m, L, M, s.t)
  BY <1>1, <1>2, HoldChecked
<1>7. SameUnit(L, t.K) /\ SameLoop(L, t.K)
  BY <1>1, <1>2, HoldChecked
<1>8. L.held = <<[res |-> s.r, x |-> s.x]>> \o t.K.held
  BY <1>1, <1>2, HoldChecked, SMTT(60)
<1>9. HoldOk(RulesAt(t.n), t.K, s) /\ CheckHeld(t.K, s)
  <2>1. HoldOk(RulesAt(t.n), t.K, s)
    BY <1>1, <1>2, HoldChecked
  <2>2. CheckHeld(t.K, s)
    BY <1>1, <1>2, HoldChecked
  <2> QED BY <2>1, <2>2, SMTT(60)
<1>10. Widened(t.K, L, s.x, ty) /\ L.derived = t.K.derived
  <2>1. Widened(t.K, L, s.x, OwnType(s.r))
    BY <1>1, <1>2, HoldChecked
  <2>2. L.derived = t.K.derived
    BY <1>2, <1>3 DEF HoldContext, Bind, Contexts
  <2> QED BY <1>2, <2>1, <2>2
<1>11. Plain[m][NamesOf(L)][OwnerOf(L)][s.t] /\ (ResizeIn[m][s.t] => t.live \cap ViewsInScope(L) = {})
  BY <1>1, <1>2, HoldChecked, ZenonT(60)
<1>12. Follows(L, M, Fb, ResizeIn[m][s.t], Exits[m][s.t])
  BY <1>1, <1>2, HoldChecked
<1>13. Covers(t.K, Fb, G)
  BY <1>1, <1>2, HoldChecked
<1>14. ty \in Types
  BY <1>2 DEF OwnType, Types
<1>15. Known(L, M, t.live)
  BY <1>3, <1>4, <1>5, <1>6, <1>7, <1>10, <1>14, WiderKnown
<1>16. Known(L, Fb, t.live)
  BY <1>6, <1>11, <1>12, <1>15, Knows
<1>17. Yields(s.r) <=> s.x # "_"
  BY <1>9 DEF HoldOk
<1>18. Widened(t.K, L, s.x, OwnType(s.r))
  BY <1>2, <1>10
<1>19. Good(c1) /\ c1.n = m /\ c1.K = L /\ c1.G = M /\ c1.live = t.live /\ c1.own = own
  <2>1. Good(Typing(m, L, M, t.live, <<f2>> \o t.own))
    BY <1>1, <1>4, <1>5, <1>6, <1>7, <1>8, <1>15, <1>17, <1>18, GoodHold
  <2> QED BY <1>2, <2>1 DEF Typing
<1>20. Good(c2) /\ c2.n = m /\ c2.K = L /\ c2.G = Fb /\ c2.live = t.live /\ c2.own = own
  <2>1. Good(Typing(m, L, Fb, t.live, <<f2>> \o t.own))
    BY <1>1, <1>5, <1>6, <1>7, <1>8, <1>16, <1>17, <1>18, GoodHold
  <2> QED BY <1>2, <2>1, SMTT(60) DEF Typing
<1>21. f2 \in Frames /\ f2.at = "hold" /\ f2.x = s.x /\ f2.got.res = s.r
  BY DEF Takes
<1>22. Link(f2, c2, a, base)
  <2>1. Covers(a.K, c2.G, a.G)
    BY <1>1, <1>13, <1>20
  <2>2. "call" \in Effects(s)
    BY DEF Effects
  <2>3. ~OpenBy(a.K.held)
    BY <1>1, <1>9, <2>2, NothingOpen, SMTT(30) DEF HoldsCall
  <2>4. c2.K = HoldContext(a.K, [x |-> f2.x, r |-> f2.got.res])
    BY <1>1, <1>2, <1>20, <1>21, ZenonT(60) DEF HoldContext
  <2>5. f2.x \notin NamesOf(a.K)
    BY <1>1, <1>10, <1>21 DEF Widened
  <2>6. HoldLink(f2, c2, a, base)
    BY <1>1, <1>2, <1>20, <2>1, <2>3, <2>4, <2>5 DEF HoldLink
  <2> QED BY <1>1, <1>7, <1>20, <1>21, <2>6 DEF Link
<1>23. PICK W : Stacked(<<f2>> \o Advancing(fs), W, base) /\ W[1] = c2 /\ W[Len(W)] = U[Len(U)]
  BY <1>1, <1>20, <1>21, <1>22, StackOver
<1>24. Link(f1, c1, c2, base)
  <2>1. EndOf(c1, s.t) = Fb
    BY <1>6, <1>19 DEF EndOf
  <2>2. Checked(c1, s.t)
    BY <1>5, <1>6, <1>11, <1>19, <2>1 DEF Checked
  <2>3. Covers(c2.K, Fb, c2.G)
    BY <1>20, SelfCovers
  <2>4. f1.n = Len(c1.K.locals) + base
    BY <1>2, <1>19
  <2>5. BlockLink(f1, c1, c2, base)
    BY <1>19, <1>20, <2>1, <2>2, <2>3, <2>4 DEF BlockLink
  <2> QED BY <1>19, <1>20, <2>5 DEF Link, SameUnit
<1>25. PICK V : Stacked(<<f1>> \o (<<f2>> \o Advancing(fs)), V, base) /\ V[1] = c1 /\ V[Len(V)] = W[Len(W)]
  <2> DEFINE g == <<f2>> \o Advancing(fs)
  <2>1. Stacked(g, W, base)
    BY <1>23
  <2> HIDE DEF g
  <2>2. \E V : Stacked(<<f1>> \o g, V, base) /\ V[1] = c1 /\ V[Len(V)] = W[Len(W)]
    BY <1>19, <1>23, <1>24, <2>1, StackOver
  <2> QED BY <2>2 DEF g
<1>26. HoldOpened(t, s, f2, c1)
  BY <1>2, <1>6, <1>7, <1>10, <1>18, <1>19 DEF HoldOpened
<1> QED BY <1>1, <1>23, <1>25, <1>26

-----------------------------------------------------------------------------
(* What the machine's operations do to the world of the invariant.          *)
WorldTo(rel, h, lay, nxt) ==
  World' /\ Released' = rel /\ held' = h /\ layout' = lay /\ nextId' = nxt

LEMMA WorldKept ==
  ASSUME World, UNCHANGED <<status, held, nextId, trace, layout>>
  PROVE  WorldTo(Released, held, layout, nextId)
BY DEF World, WorldTo, Released, TracedWith

LEMMA AppendParts ==
  ASSUME NEW S, NEW q \in Seq(S), NEW e \in S, NEW r, r = Append(q, e)
  PROVE  /\ r \in Seq(S) /\ Len(r) = Len(q) + 1 /\ Len(q) \in Nat
         /\ DOMAIN q = 1..Len(q) /\ DOMAIN r = 1..(Len(q) + 1)
         /\ \A i \in DOMAIN q : r[i] = q[i]
         /\ r[Len(q) + 1] = e
OBVIOUS

(* A call that releases nothing, and one that releases the object i.        *)
LEMMA CallTraced ==
  ASSUME trace \in Seq(Events), NEW d \in Calls, NEW i \in Nat \cup {-1}, NEW o \in Outcomes,
         trace' = Append(trace, Event(d, i, o))
  PROVE  /\ trace' \in Seq(Events)
         /\ d # "sk_release" => Released' = Released
         /\ d = "sk_release" /\ o = "ok" => Released' = Released \cup {i}
<1>1. Event(d, i, o) \in Events /\ Event(d, i, o).decl = d /\ Event(d, i, o).obj = i /\ Event(d, i, o).out = o
  BY DEF Events, Event
<1> DEFINE e == Event(d, i, o)
<1> HIDE DEF e
<1>0. e \in Events /\ e.decl = d /\ e.obj = i /\ e.out = o
  BY <1>1 DEF e
<1>2. /\ trace' \in Seq(Events) /\ Len(trace) \in Nat
      /\ DOMAIN trace = 1..Len(trace) /\ DOMAIN trace' = 1..(Len(trace) + 1)
      /\ \A k \in DOMAIN trace : trace'[k] = trace[k]
      /\ trace'[Len(trace) + 1] = e
  <2>1. trace' = Append(trace, e)
    BY DEF e
  <2> QED
    BY <2>1, <1>0, AppendParts
<1>3. CASE d # "sk_release"
  <2>1. TracedWith("sk_release")' = TracedWith("sk_release")
    BY <1>2, <1>3, <1>0 DEF TracedWith
  <2>2. \A k \in TracedWith("sk_release") : trace'[k].obj = trace[k].obj
    BY <1>2 DEF TracedWith
  <2> QED
    BY <2>1, <2>2, <1>2, <1>3 DEF Released
<1>4. CASE d = "sk_release" /\ o = "ok"
  <2>1. TracedWith("sk_release")' = TracedWith("sk_release") \cup {Len(trace) + 1}
    BY <1>2, <1>4, <1>0 DEF TracedWith
  <2>2. \A k \in TracedWith("sk_release") : trace'[k].obj = trace[k].obj
    BY <1>2 DEF TracedWith
  <2>3. trace'[Len(trace) + 1].obj = i
    BY <1>2, <1>0
  <2>4. \A y \in Released' : y \in Released \cup {i}
    BY <2>1, <2>2, <2>3 DEF Released
  <2>5. i \in Released' /\ \A y \in Released : y \in Released'
    BY <2>1, <2>2, <2>3 DEF Released
  <2> QED
    BY <2>4, <2>5, <1>2, <1>4
<1> QED
  BY <1>2, <1>3, <1>4
LEMMA CallMade ==
  ASSUME World, NEW o \in Outcomes, OtherCall(o), ~ForbidsCall({})
  PROVE  WorldTo(Released, held, layout, nextId)
<1>1. /\ trace' = Append(trace, Event("other", -1, o))
      /\ UNCHANGED <<status, held, nextId, layout>>
  BY DEF OtherCall, Record, pktVars
<1>2. trace' \in Seq(Events) /\ Released' = Released
  BY <1>1, CallTraced DEF World, Calls
<1> QED
  BY <1>1, <1>2 DEF World, WorldTo

LEMMA CastMade ==
  ASSUME World, SkCast, ~ForbidsCall({})
  PROVE  WorldTo(Released, held, layout, nextId + 1)
<1>1. /\ trace' = Append(trace, Event("sk_cast", nextId, "ok"))
      /\ nextId' = nextId + 1 /\ UNCHANGED <<status, held, layout>>
  BY DEF SkCast, Record, Fresh, pktVars
<1>2. trace' \in Seq(Events) /\ Released' = Released
  BY <1>1, CallTraced DEF World, Calls, Outcomes
<1> QED
  BY <1>1, <1>2 DEF World, WorldTo

LEMMA ResizeMade ==
  ASSUME World, NEW d, Resize(d), ~ForbidsCall({})
  PROVE  WorldTo(Released, held, layout, nextId) \/ WorldTo(Released, held, layout + 1, nextId)
<1>1. \E o \in Outcomes : /\ trace' = Append(trace, Event("resize", -1, o))
                          /\ layout' \in {layout, layout + 1} /\ UNCHANGED <<status, held, nextId>>
  BY DEF Resize, Record, pktVars, Outcomes
<1>2. trace' \in Seq(Events) /\ Released' = Released
  BY <1>1, CallTraced DEF World, Calls
<1> QED
  BY <1>1, <1>2 DEF World, WorldTo

LEMMA SocketReleased ==
  ASSUME World, NEW i \in 0..(nextId - 1), SkRelease(i), ~ForbidsCall({"sockref"}),
         Innermost("sockref", Object(i))
  PROVE  WorldTo(Released \cup {i}, Tail(held), layout, nextId)
<1>1. /\ trace' = Append(trace, Event("sk_release", i, "ok"))
      /\ held' = Tail(held) /\ UNCHANGED <<status, nextId, layout>>
  BY DEF SkRelease, Record, pktVars
<1>2. trace' \in Seq(Events) /\ Released' = Released \cup {i}
  BY <1>1, CallTraced DEF World, Calls, Outcomes
<1> QED
  BY <1>1, <1>2 DEF World, WorldTo

LEMMA Popped ==
  ASSUME World, NEW r, NEW o, PopHeld(r, o), Innermost(r, o)
  PROVE  WorldTo(Released, Tail(held), layout, nextId)
BY DEF PopHeld, World, WorldTo, Released, TracedWith, pktVars

LEMMA Submitted ==
  ASSUME World, NEW i, Submit(i), Innermost("ringbuf", Object(i))
  PROVE  WorldTo(Released, Tail(held), layout, nextId)
BY DEF Submit, World, WorldTo, Released, TracedWith, pktVars

(* What an acquisition pushes.                                              *)
Got(r, o) == [res |-> r, obj |-> o]

LEMMA Entered ==
  ASSUME World, NEW r, Enter(r), CanPush(r)
  PROVE  WorldTo(Released, <<Got(r, NoObj)>> \o held, layout, nextId)
BY DEF Enter, Push, Got, World, WorldTo, Released, TracedWith, pktVars

LEMMA Locked ==
  ASSUME World, NEW p, Lock(p), CanPush("spinlock")
  PROVE  WorldTo(Released, <<Got("spinlock", Slot(p.num))>> \o held, layout, nextId)
BY DEF Lock, Push, Got, World, WorldTo, Released, TracedWith, pktVars

LEMMA Reserved ==
  ASSUME World, NEW n, Reserve(n)
  PROVE  WorldTo(Released, <<Got("ringbuf", Object(nextId))>> \o held, layout, nextId + 1)
BY DEF Reserve, Fresh, Push, Got, World, WorldTo, Released, TracedWith, pktVars

LEMMA LookedUp ==
  ASSUME World, SkLookup, ~ForbidsCall({})
  PROVE  \/ WorldTo(Released, <<Got("sockref", Object(nextId))>> \o held, layout, nextId + 1)
         \/ WorldTo(Released, held, layout, nextId)
<1>1. CASE /\ Fresh("socket", 0) /\ Record("sk_lookup", nextId, "ok") /\ Push("sockref", Object(nextId))
           /\ UNCHANGED <<status, ring, mapVars, pktVars>>
  <2>1. /\ trace' = Append(trace, Event("sk_lookup", nextId, "ok"))
        /\ nextId' = nextId + 1 /\ UNCHANGED <<status, layout>>
        /\ held' = <<Got("sockref", Object(nextId))>> \o held
    BY <1>1 DEF Record, Fresh, Push, Got, pktVars
  <2>2. trace' \in Seq(Events) /\ Released' = Released
    BY <2>1, CallTraced DEF World, Calls, Outcomes
  <2> QED
    BY <2>1, <2>2 DEF World, WorldTo
<1>2. CASE /\ Record("sk_lookup", -1, "failed")
           /\ UNCHANGED <<status, held, kernelObjs, nextId, ring, mapVars, pktVars>>
  <2>1. /\ trace' = Append(trace, Event("sk_lookup", -1, "failed"))
        /\ UNCHANGED <<status, held, nextId, layout>>
    BY <1>2 DEF Record, pktVars
  <2>2. trace' \in Seq(Events) /\ Released' = Released
    BY <2>1, CallTraced DEF World, Calls, Outcomes
  <2> QED
    BY <2>1, <2>2 DEF World, WorldTo
<1> QED
  BY <1>1, <1>2 DEF SkLookup
LEMMA InnermostReleased ==
  ASSUME World, NEW normal, Release(normal), held # <<>>, NEW h, h = Head(held), GotOk(h),
         h.res = "sockref" => h.obj.n \in 0..(nextId - 1) /\ ~ForbidsCall({"sockref"})
  PROVE  /\ h.res # "sockref" => WorldTo(Released, Tail(held), layout, nextId)
         /\ h.res = "sockref" => WorldTo(Released \cup {h.obj.n}, Tail(held), layout, nextId)
<1>1. "sockref" \notin Scopes /\ "ringbuf" \notin Scopes
  BY MachineAssumption
<1>2. \/ h.res \in Scopes /\ PopHeld(h.res, NoObj)
      \/ h.res = "spinlock" /\ PopHeld("spinlock", h.obj)
      \/ h.res = "ringbuf" /\ Submit(h.obj.n)
      \/ h.res = "ringbuf" /\ PopHeld("ringbuf", Object(h.obj.n))
      \/ h.res = "sockref" /\ SkRelease(h.obj.n)
  BY DEF Release, Leave, Discard
<1>3. CASE h.res \in Scopes /\ PopHeld(h.res, NoObj)
  <2>1. Innermost(h.res, NoObj)
    BY <1>3 DEF Innermost, GotOk
  <2> QED
    BY <1>1, <1>3, <2>1, Popped
<1>4. CASE h.res = "spinlock" /\ PopHeld("spinlock", h.obj)
  <2>1. Innermost("spinlock", h.obj)
    BY <1>4 DEF Innermost
  <2> QED
    BY <1>4, <2>1, Popped
<1>5. CASE h.res = "ringbuf" /\ (Submit(h.obj.n) \/ PopHeld("ringbuf", Object(h.obj.n)))
  <2>1. Innermost("ringbuf", Object(h.obj.n))
    BY <1>5 DEF Innermost, GotOk
  <2> QED
    BY <1>5, <2>1, Popped, Submitted
<1>6. CASE h.res = "sockref" /\ SkRelease(h.obj.n)
  <2>1. Innermost("sockref", Object(h.obj.n))
    BY <1>6 DEF Innermost, GotOk
  <2> QED
    BY <1>6, <2>1, SocketReleased
<1> QED
  BY <1>2, <1>3, <1>4, <1>5, <1>6

-----------------------------------------------------------------------------
(* The frames a statement pushes.                                           *)
LEMMA BlockOfLevel == ASSUME NEW n \in Nat, NEW b \in Blocks[n] PROVE b \in AnyBlock
BY DEF AnyBlock

LEMMA NothingHeld == NoneHeld \in Gots /\ "_" \in Labels /\ <<>> \in AnyBlock
<1>1. <<>> \in Blocks[0]
  BY EmptyBlock
<1> QED
  BY <1>1, BlockOfLevel DEF NoneHeld, Gots, NoObj, HeldObjs, Labels

LEMMA BlockFrame ==
  ASSUME locals \in Seq(Bindings), NEW b \in AnyBlock, NEW f, f = Block(b)
  PROVE  f \in Frames /\ f.at = "block" /\ f.rest = b /\ f.n = Len(locals)
<1>1. NoneHeld \in Gots /\ "_" \in Labels /\ b \in AnyBlock
  BY NothingHeld
<1>2. PICK x, h : x = "_" /\ h = NoneHeld
  OBVIOUS
<1>3. f = Frame("block", b, x, 0, h) /\ x \in Labels /\ h \in Gots /\ b \in AnyBlock
  BY <1>1, <1>2 DEF Block
<1> QED
  BY <1>3 DEF Frame, Frames

(* The same over a store of another length.                                 *)
BlockFor(b, m) == [Block(b) EXCEPT !.n = m]
LEMMA BlockOver ==
  ASSUME locals \in Seq(Bindings), NEW b \in AnyBlock, NEW m \in Nat,
         NEW f, f = BlockFor(b, m)
  PROVE  f \in Frames /\ f.at = "block" /\ f.rest = b /\ f.n = m
<1>1. PICK g : g = Block(b)
  OBVIOUS
<1>2. g \in Frames /\ g.at = "block" /\ g.rest = b
  BY <1>1, BlockFrame
<1>3. f = [g EXCEPT !.n = m]
  BY <1>1 DEF BlockFor
<1> HIDE <1>1
<1> QED
  BY <1>2, <1>3 DEF Frames

LEMMA TwoFrames ==
  ASSUME NEW S, NEW f \in S, NEW g \in S, NEW q \in Seq(S)
  PROVE  <<f, g>> \o q = <<f>> \o (<<g>> \o q)
<1> DEFINE r == <<g>> \o q
<1> DEFINE a == <<f, g>> \o q
<1> DEFINE b == <<f>> \o r
<1>1. /\ a \in Seq(S) /\ Len(a) = Len(q) + 2 /\ Len(q) \in Nat
      /\ \A i \in 1..(Len(q) + 2) : a[i] = IF i = 1 THEN f ELSE IF i = 2 THEN g ELSE q[i - 2]
  OBVIOUS
<1>2. /\ r \in Seq(S) /\ Len(r) = Len(q) + 1
      /\ \A i \in 1..(Len(q) + 1) : r[i] = IF i = 1 THEN g ELSE q[i - 1]
  OBVIOUS
<1> HIDE DEF r
<1>3. /\ b \in Seq(S) /\ Len(b) = Len(r) + 1
      /\ \A i \in 1..(Len(r) + 1) : b[i] = IF i = 1 THEN f ELSE r[i - 1]
  BY <1>2
<1> HIDE DEF a, b
<1>4. \A i \in 1..(Len(q) + 2) : a[i] = b[i]
  <2> TAKE i \in 1..(Len(q) + 2)
  <2>1. CASE i = 1
    BY <2>1, <1>1, <1>2, <1>3
  <2>2. CASE i \in 2..(Len(q) + 2)
    <3>1. b[i] = r[i - 1] /\ i - 1 \in 1..(Len(q) + 1)
      BY <2>2, <1>1, <1>2, <1>3
    <3>2. r[i - 1] = IF i = 2 THEN g ELSE q[i - 2]
      BY <2>2, <3>1, <1>1, <1>2
    <3> QED
      BY <2>2, <3>1, <3>2, <1>1
  <2> QED
    BY <2>1, <2>2, <1>1
<1>5. Len(a) = Len(b)
  BY <1>1, <1>2, <1>3
<1>6. a = b
  BY <1>1, <1>3, <1>4, <1>5
<1> QED
  BY <1>6 DEF a, b, r

LEMMA NoFrames ==
  ASSUME NEW S, NEW q \in Seq(S)
  PROVE  <<>> \o q = q
OBVIOUS

-----------------------------------------------------------------------------
(* The same scope at another point of the run.                              *)
LEMMA FitsOn ==
  ASSUME NEW t, NEW a, a.K.locals = t.K.locals, a.K.derived = t.K.derived, a.own = t.own,
         NEW loc, NEW lay, NEW lay2, NEW nxt \in Nat, NEW nxt2 \in Nat, nxt =< nxt2, NEW rel, NEW h,
         NEW o, NEW p, NEW base, Fits(t, loc, lay, nxt, rel, h, o, base),
         MovedBy(t, o) \cap NamesOf(t.K) \subseteq MovedBy(a, p),
         LiveBy(a, p) \cap NamesOf(t.K) \subseteq LiveBy(t, o),
         lay2 = lay \/ LiveBy(a, p) \cap ViewsInScope(t.K) = {},
         OutOk(a, p)
  PROVE  Fits(a, loc, lay2, nxt2, rel, h, p, base)
<1>1. StoreOk(loc, lay2, a.K, base, MovedBy(a, p), LiveBy(a, p))
  BY StoreWeaker DEF Fits
<1>2. CastsOk(loc, a.K)
  BY DEF Fits, CastsOk, Guarded
<1>3. OwnedOk(loc, rel, nxt2, a.K, a.own)
  BY DEF Fits, OwnedOk
<1> QED
  BY <1>1, <1>2, <1>3 DEF Fits

LEMMA LoopFrame ==
  ASSUME locals \in Seq(Bindings), NEW b \in AnyBlock, NEW k \in Int, NEW f, f = LoopOf(b, k)
  PROVE  f \in Frames /\ f.at = "loop" /\ f.rest = b
<1>1. NoneHeld \in Gots /\ "_" \in Labels /\ b \in AnyBlock
  BY NothingHeld
<1>2. PICK x, h : x = "_" /\ h = NoneHeld
  OBVIOUS
<1>3. f = Frame("loop", b, x, k, h) /\ x \in Labels /\ h \in Gots /\ b \in AnyBlock
  BY <1>1, <1>2 DEF LoopOf
<1> QED
  BY <1>3 DEF Frame, Frames

LEMMA TryFrame ==
  ASSUME locals \in Seq(Bindings), NEW f, f = TryOf
  PROVE  f \in Frames /\ f.at = "try" /\ f.n = Len(locals)
<1>1. NoneHeld \in Gots /\ "_" \in Labels /\ <<>> \in AnyBlock
  BY NothingHeld
<1>2. PICK x, h, b : x = "_" /\ h = NoneHeld /\ b = <<>>
  OBVIOUS
<1>3. f = Frame("try", b, x, 0, h) /\ x \in Labels /\ h \in Gots /\ b \in AnyBlock
  BY <1>1, <1>2 DEF TryOf
<1> QED
  BY <1>3 DEF Frame, Frames

LEMMA HoldFrame ==
  ASSUME locals \in Seq(Bindings), NEW x \in Labels, NEW h \in Gots, NEW f, f = HoldOf(x, h)
  PROVE  f \in Frames /\ f.at = "hold" /\ f.x = x /\ f.got = h /\ f.n = Len(locals)
<1>1. <<>> \in AnyBlock
  BY NothingHeld
<1>2. PICK b : b = <<>>
  OBVIOUS
<1>3. f = Frame("hold", b, x, 0, h) /\ x \in Labels /\ h \in Gots /\ b \in AnyBlock
  BY <1>1, <1>2 DEF HoldOf
<1> QED
  BY <1>3 DEF Frame, Frames

(* Where a statement is about to run.                                       *)
AtStmt(T, t, s, G, a, U) ==
  /\ RunInv(T) /\ Begun(ctl, T, Base, t, s, G, a, U) /\ s = Stmt
  /\ Fits(t, locals, layout, nextId, Released, held, "normal", Base)
  /\ Good(t) /\ ~t.G.bottom
  /\ World /\ phase \in {"body", "handler"} /\ out = "normal" /\ Base \in Nat
  /\ Advance = Advancing(ctl) /\ Advance \in Seq(Frames)
  /\ locals \in Seq(Bindings) /\ Len(locals) = Len(t.K.locals) + Base

LEMMA AtStatement ==
  ASSUME IInv, NEW op, Runs(op)
  PROVE  \E T, t, s, G, a, U : AtStmt(T, t, s, G, a, U) /\ s.op = op
<1>1. /\ phase \in {"body", "handler"} /\ out = "normal" /\ ctl # <<>>
      /\ Head(ctl).at = "block" /\ Head(ctl).rest # <<>> /\ Head(Head(ctl).rest).op = op
  BY DEF Runs, Executing, Top
<1>2. PICK T : RunInv(T)
  BY <1>1 DEF IInv
<1>3. Stacked(ctl, T, Base)
  BY <1>2 DEF RunInv
<1>4. PICK t, s, G, a, U : Begun(ctl, T, Base, t, s, G, a, U)
  BY <1>1, <1>3, Advanced
<1>5. t = T[1] /\ s = Head(Head(ctl).rest) /\ Good(t)
  BY <1>4 DEF Begun, Starts
<1>6. Fits(t, locals, layout, nextId, Released, held, "normal", Base)
  BY <1>1, <1>2, <1>5 DEF RunInv
<1>7. ~t.G.bottom
  BY <1>6 DEF Fits, OutOk
<1>8. Base \in Nat
  BY DEF Base
<1>9. Advance = Advancing(ctl)
  BY DEF Advance, Advancing, Top
<1>10. Advance \in Seq(Frames)
  BY <1>4, <1>9 DEF Begun, Stacked
<1>11. StoreOk(locals, layout, t.K, Base, MovedBy(t, "normal"), LiveBy(t, "normal"))
  BY <1>6 DEF Fits
<1>12. locals \in Seq(Bindings) /\ Len(locals) = Len(t.K.locals) + Base
  BY <1>11 DEF StoreOk
<1> QED
  BY <1>1, <1>2, <1>4, <1>5, <1>6, <1>7, <1>8, <1>9, <1>10, <1>12 DEF AtStmt, IInv, Stmt, Top

(* A step that leaves the run going leads to a run that fits.               *)
LEMMA Resumed ==
  ASSUME NEW T, RunInv(T), phase \in {"body", "handler"}, UNCHANGED <<phase, prog>>,
         NEW rel, NEW h, NEW lay, NEW nxt, WorldTo(rel, h, lay, nxt),
         NEW V, Stacked(ctl', V, Base), V[Len(V)] = T[Len(T)],
         Fits(V[1], locals', lay, nxt, rel, h, out', Base)
  PROVE  IInv'
<1>1. Base' = Base
  BY DEF Base
<1>2. Bottom(V[Len(V)])'
  BY DEF RunInv, Bottom
<1>3. ProgOk'
  BY DEF RunInv, ProgOk
<1>4. Fits(V[1], locals', layout', nextId', Released', held', out', Base')
  BY <1>1 DEF WorldTo
<1>5. RunInv(V)'
  BY <1>1, <1>2, <1>3, <1>4 DEF RunInv
<1>6. World'
  BY DEF WorldTo
<1> QED
  BY <1>5, <1>6 DEF IInv
-----------------------------------------------------------------------------
(* What the checker has made sure of where a statement is about to run.     *)
LEMMA Accepted ==
  ASSUME NEW t, NEW s, Starts(t, s)
  PROVE  /\ t.n \in Nat /\ t.K \in Contexts /\ t.G \in FactSets /\ s \in Stmts(t.n)
         /\ \A x \in Mentions(s) : InScope(t.K, x)
         /\ Mentions(s) \cap (t.G.dead \cup t.G.moved) = {}
         /\ CheckHeld(t.K, s)
         /\ Step(t.n, t.K, t.G, s) = CheckBody(RulesAt(t.n), t.K, Entering(t.K, t.G, s), s)
         /\ Step(t.n, t.K, t.G, s).ok
         /\ Entering(t.K, t.G, s) \in FactSets /\ Entering(t.K, t.G, s).ok
         /\ Entering(t.K, t.G, s).bottom = t.G.bottom
         /\ Entering(t.K, t.G, s).moved = t.G.moved \cup Moves(s)
         /\ t.G.dead \subseteq Entering(t.K, t.G, s).dead
<1>1. /\ t.n \in Nat /\ t.K \in Contexts /\ t.G \in FactSets /\ s \in Stmts(t.n)
      /\ Step(t.n, t.K, t.G, s).ok /\ t.G.ok
  BY GoodParts DEF Starts, Known
<1>2. /\ \A x \in Mentions(s) : InScope(t.K, x)
      /\ Mentions(s) \cap (t.G.dead \cup t.G.moved) = {}
      /\ CheckHeld(t.K, s)
      /\ Step(t.n, t.K, t.G, s) = CheckBody(RulesAt(t.n), t.K, Entering(t.K, t.G, s), s)
  BY <1>1, StepAccepted
<1>3. /\ Entering(t.K, t.G, s) \in FactSets
      /\ Entering(t.K, t.G, s).ok = t.G.ok /\ Entering(t.K, t.G, s).bottom = t.G.bottom
      /\ Entering(t.K, t.G, s).moved = t.G.moved \cup Moves(s)
      /\ t.G.dead \subseteq Entering(t.K, t.G, s).dead
  <2>1. Entering(t.K, t.G, s) \in FactSets
    BY <1>1, EnteringParts
  <2>2. /\ Entering(t.K, t.G, s).ok = t.G.ok
        /\ Entering(t.K, t.G, s).bottom = t.G.bottom
    <3>1. Entering(t.K, t.G, s).ok = t.G.ok
      BY <1>1, EnteringParts, ZenonT(60)
    <3>2. Entering(t.K, t.G, s).bottom = t.G.bottom
      BY <1>1, EnteringParts
    <3> QED
      BY <3>1, <3>2
  <2>3. Entering(t.K, t.G, s).moved = t.G.moved \cup Moves(s)
    BY <1>1, EnteringParts
  <2>4. t.G.dead \subseteq Entering(t.K, t.G, s).dead
    BY <1>1, EnteringParts
  <2> QED
    BY <2>1, <2>2, <2>3, <2>4
<1> QED
  BY <1>1, <1>2, <1>3

LEMMA PlainLeaf ==
  ASSUME NEW t, NEW s, Starts(t, s), s.op \in {"call", "use"}
  PROVE  /\ Step(t.n, t.K, t.G, s).bottom = t.G.bottom
         /\ Step(t.n, t.K, t.G, s).moved = t.G.moved
         /\ t.G.dead \subseteq Step(t.n, t.K, t.G, s).dead
<1>1. Step(t.n, t.K, t.G, s) = CheckBody(RulesAt(t.n), t.K, Entering(t.K, t.G, s), s)
  BY Accepted
<1>2. Step(t.n, t.K, t.G, s) = Entering(t.K, t.G, s)
  BY <1>1 DEF CheckBody
<1>3. Moves(s) = {}
  BY DEF Moves
<1>4. /\ Entering(t.K, t.G, s).bottom = t.G.bottom
      /\ Entering(t.K, t.G, s).moved = t.G.moved \cup Moves(s)
      /\ t.G.dead \subseteq Entering(t.K, t.G, s).dead
  BY Accepted
<1> QED
  BY <1>2, <1>3, <1>4

LEMMA ExitLeaf ==
  ASSUME NEW t, NEW s, Starts(t, s), ~t.G.bottom, s.op \in {"ret", "raise", "brk", "cont"}
  PROVE  /\ s.op = "raise" => t.K.mayFail
         /\ s.op \in {"brk", "cont"} => t.K.inLoop /\ t.G.moved \subseteq t.K.loopMoved
<1> DEFINE M == Entering(t.K, t.G, s)
<1>1. /\ Step(t.n, t.K, t.G, s) = CheckBody(RulesAt(t.n), t.K, M, s)
      /\ Step(t.n, t.K, t.G, s).ok
      /\ M.bottom = t.G.bottom /\ t.G.moved \subseteq M.moved
  BY Accepted
<1>2. ~Refused.ok
  BY DEF Refused, Facts0
<1> HIDE DEF M
<1>3. CASE s.op = "raise"
  <2>1. CheckBody(RulesAt(t.n), t.K, M, s) = IF t.K.mayFail THEN Bot(M) ELSE Refused
    BY <1>3 DEF CheckBody
  <2> QED
    BY <1>1, <1>2, <1>3, <2>1
<1>4. CASE s.op \in {"brk", "cont"}
  <2>1. CheckBody(RulesAt(t.n), t.K, M, s) = IF t.K.inLoop /\ LoopMovedOk(t.K, M) THEN Bot(M) ELSE Refused
    BY <1>4 DEF CheckBody
  <2> QED
    BY <1>1, <1>2, <1>4, <2>1 DEF LoopMovedOk
<1> QED
  BY <1>3, <1>4

(* Nothing held forbids a call where no lock is around.                     *)
LEMMA LockFree ==
  ASSUME NEW t, Good(t), NEW loc, NEW lay, NEW nxt, NEW rel, NEW o, NEW base,
         Fits(t, loc, lay, nxt, rel, held, o, base), ~OpenBy(t.K.held)
  PROVE  /\ \A i \in DOMAIN held : held[i].res # "spinlock"
         /\ \A releases : ~ForbidsCall(releases)
<1>1. t.own \in Seq(Frames) /\ Mirrors(t.K, t.own) /\ t.K \in Contexts
  BY GoodParts
<1>2. held = HeldBy(t.own, rel)
  BY DEF Fits
<1>3. \A j \in DOMAIN t.own : t.own[j].got.res # "spinlock"
  <2> TAKE j \in DOMAIN t.own
  <2>1. t.own[j].got.res = t.K.held[j].res /\ j \in DOMAIN t.K.held
    <3>1. Len(t.own) = Len(t.K.held) /\ DOMAIN t.own = 1..Len(t.own)
      <4>1. Len(t.own) = Len(t.K.held)
        BY <1>1 DEF Mirrors
      <4> QED
        BY <1>1, <4>1
    <3>2. DOMAIN t.K.held = 1..Len(t.K.held)
      BY <1>1, OwnerTyped
    <3> QED
      BY <1>1, <3>1, <3>2 DEF Mirrors
  <2> QED
    BY <2>1 DEF OpenBy
<1>4. \A i \in DOMAIN held : held[i].res # "spinlock"
  BY <1>1, <1>2, <1>3, HeldByEntries
<1> QED
  BY <1>4 DEF ForbidsCall, Forbidden

LEMMA MayCall ==
  ASSUME NEW T, NEW t, NEW s, NEW G, NEW a, NEW U, AtStmt(T, t, s, G, a, U), "call" \in Effects(s)
  PROVE  \A releases : ~ForbidsCall(releases)
<1>1. Starts(t, s) /\ Good(t) /\ Fits(t, locals, layout, nextId, Released, held, "normal", Base)
  BY DEF AtStmt, Begun
<1>2. CheckHeld(t.K, s)
  BY <1>1, Accepted
<1>3. ~OpenBy(t.K.held)
  BY <1>2, NothingOpen DEF HoldsCall
<1> QED
  BY <1>1, <1>3, LockFree

(* The statement is over and the next one runs.                             *)
LEMMA NextStmt ==
  ASSUME NEW T, NEW t, NEW s, NEW G, NEW a, NEW U, AtStmt(T, t, s, G, a, U),
         G.bottom = t.G.bottom, t.G.moved \subseteq G.moved, t.G.dead \subseteq G.dead,
         Goto(<<>>), locals' = locals, WorldTo(Released, held, layout, nextId)
  PROVE  IInv'
<1>1. /\ RunInv(T) /\ Good(t) /\ ~t.G.bottom
      /\ a.K = t.K /\ a.G = G /\ a.own = t.own
      /\ Stacked(Advancing(ctl), U, Base) /\ U[1] = a /\ U[Len(U)] = T[Len(T)]
      /\ Advance = Advancing(ctl) /\ Advance \in Seq(Frames)
      /\ phase \in {"body", "handler"} /\ out = "normal" /\ nextId \in Nat
      /\ Fits(t, locals, layout, nextId, Released, held, "normal", Base)
  BY DEF AtStmt, Begun, World
<1>2. ctl' = Advancing(ctl) /\ UNCHANGED <<phase, prog, out>>
  BY <1>1, NoFrames DEF Goto
<1>3. OutOk(a, "normal")
  BY <1>1 DEF OutOk
<1>4. Fits(a, locals, layout, nextId, Released, held, "normal", Base)
  <2>1. MovedBy(t, "normal") = t.G.moved /\ MovedBy(a, "normal") = G.moved
    BY <1>1 DEF MovedBy
  <2>2. LiveBy(t, "normal") = NamesOf(t.K) \ t.G.dead /\ LiveBy(a, "normal") = NamesOf(t.K) \ G.dead
    BY <1>1 DEF LiveBy
  <2>3. /\ MovedBy(t, "normal") \cap NamesOf(t.K) \subseteq MovedBy(a, "normal")
        /\ LiveBy(a, "normal") \cap NamesOf(t.K) \subseteq LiveBy(t, "normal")
    BY <2>1, <2>2
  <2>4. a.K.locals = t.K.locals /\ a.K.derived = t.K.derived /\ nextId =< nextId
    BY <1>1
  <2> QED
    BY <1>1, <1>3, <2>3, <2>4, FitsOn
<1> QED
  BY <1>1, <1>2, <1>4, Resumed
(* A name the checker lets the program mention.                             *)
LEMMA Mentioned ==
  ASSUME NEW t, Good(t), NEW rel, NEW h, NEW nxt, Fits(t, locals, layout, nxt, rel, h, "normal", Base),
         NEW x, InScope(t.K, x), x \notin t.G.dead \cup t.G.moved
  PROVE  \E i \in DOMAIN t.K.locals :
           /\ t.K.locals[i].x = x /\ i \in DOMAIN locals /\ Local(x) = locals[i] /\ locals[i] \in Bindings
           /\ HoldsAs(locals[i], t.K.locals[i].ty, layout, FALSE, TRUE)
           /\ Usable(locals[i])
<1>1. t.K \in Contexts /\ Scoped(t.K)
  BY GoodParts
<1>2. PICK i \in DOMAIN t.K.locals : t.K.locals[i].x = x
  BY DEF InScope
<1>3. StoreOk(locals, layout, t.K, Base, t.G.moved, NamesOf(t.K) \ t.G.dead)
  BY DEF Fits, MovedBy, LiveBy
<1>4. Base \in Nat
  BY DEF Base
<1>5. x \in NamesOf(t.K)
  BY <1>2 DEF NamesOf
<1>6. /\ Local(t.K.locals[i].x) = locals[i] /\ i \in DOMAIN locals /\ locals[i] \in Bindings
      /\ HoldsAs(locals[i], t.K.locals[i].ty, layout, t.K.locals[i].x \in t.G.moved,
                 t.K.locals[i].x \in NamesOf(t.K) \ t.G.dead)
  BY <1>1, <1>2, <1>3, <1>4, LocalIs
<1>7. HoldsAs(locals[i], t.K.locals[i].ty, layout, FALSE, TRUE)
  BY <1>2, <1>5, <1>6 DEF HoldsAs
<1>8. t.K.locals[i].ty \in {"view", "cast", "sock", "rec", "none"}
  BY <1>1, <1>2, LocalsTyped DEF Types
<1>9. Usable(locals[i])
  BY <1>7, <1>8 DEF Usable, HoldsAs
<1> QED
  BY <1>2, <1>6, <1>7, <1>9

LEMMA UseKeeps == ASSUME IInv, ExecUse PROVE IInv'
<1>1. Runs("use")
  BY DEF ExecUse
<1>2. PICK T, t, s, G, a, U : AtStmt(T, t, s, G, a, U) /\ s.op = "use"
  BY <1>1, AtStatement
<1>3. /\ Starts(t, s) /\ Good(t) /\ G = Step(t.n, t.K, t.G, s) /\ s = Stmt /\ World
      /\ Fits(t, locals, layout, nextId, Released, held, "normal", Base)
  BY <1>2 DEF AtStmt, Begun
<1>4. InScope(t.K, s.x) /\ s.x \notin t.G.dead \cup t.G.moved
  <2>1. Mentions(s) = {s.x}
    BY <1>2 DEF Mentions
  <2>2. \A x \in Mentions(s) : InScope(t.K, x)
    BY <1>3, Accepted
  <2>3. Mentions(s) \cap (t.G.dead \cup t.G.moved) = {}
    BY <1>3, Accepted
  <2> QED
    BY <2>1, <2>2, <2>3
<1>5. Usable(Local(s.x))
  BY <1>3, <1>4, Mentioned
<1>6. Goto(<<>>) /\ locals' = locals /\ UNCHANGED <<status, held, nextId, trace, layout>>
  BY <1>3, <1>5 DEF ExecUse, vars, protocol, pktVars
<1>7. WorldTo(Released, held, layout, nextId)
  BY <1>3, <1>6, WorldKept
<1>8. G.bottom = t.G.bottom /\ G.moved = t.G.moved /\ t.G.dead \subseteq G.dead
  BY <1>2, <1>3, PlainLeaf
<1> QED
  BY <1>2, <1>6, <1>7, <1>8, NextStmt

LEMMA CallKeeps == ASSUME IInv, ExecCall PROVE IInv'
<1>1. Runs("call") /\ OtherCall("ok") /\ Goto(<<>>) /\ locals' = locals
  BY DEF ExecCall
<1>2. PICK T, t, s, G, a, U : AtStmt(T, t, s, G, a, U) /\ s.op = "call"
  BY <1>1, AtStatement
<1>3. Starts(t, s) /\ G = Step(t.n, t.K, t.G, s) /\ World
  BY <1>2 DEF AtStmt, Begun
<1>4. "call" \in Effects(s)
  BY <1>2 DEF Effects
<1>5. ~ForbidsCall({})
  BY <1>2, <1>4, MayCall
<1>6. WorldTo(Released, held, layout, nextId)
  <2>1. "ok" \in Outcomes
    BY DEF Outcomes
  <2> QED
    BY <1>1, <1>3, <1>5, <2>1, CallMade
<1>7. G.bottom = t.G.bottom /\ G.moved = t.G.moved /\ t.G.dead \subseteq G.dead
  BY <1>2, <1>3, PlainLeaf
<1> QED
  BY <1>1, <1>2, <1>6, <1>7, NextStmt

(* The statement exits: what it leaves fits every exit it may be.           *)
LEMMA Exited ==
  ASSUME NEW T, NEW t, NEW s, NEW G, NEW a, NEW U, AtStmt(T, t, s, G, a, U),
         NEW o \in {"ret", "raise", "brk", "cont", "tail"}, OutOk(t, o),
         o \in {"brk", "cont"} => t.G.moved \subseteq t.K.loopMoved,
         ctl' = Advance, out' = o, locals' = locals, UNCHANGED <<phase, prog>>,
         WorldTo(Released, held, layout, nextId)
  PROVE  IInv'
<1>1. /\ RunInv(T) /\ Good(t)
      /\ a.K = t.K /\ a.live = t.live /\ a.own = t.own
      /\ Stacked(Advancing(ctl), U, Base) /\ U[1] = a /\ U[Len(U)] = T[Len(T)]
      /\ Advance = Advancing(ctl)
      /\ phase \in {"body", "handler"} /\ nextId \in Nat
      /\ Fits(t, locals, layout, nextId, Released, held, "normal", Base)
  BY DEF AtStmt, Begun, World
<1>2. OutOk(a, o)
  BY <1>1 DEF OutOk
<1>3. t.live \cap t.G.dead = {} /\ t.live \subseteq NamesOf(t.K) /\ t.G.moved \subseteq NamesOf(t.K)
  BY <1>1 DEF Good, Known
<1>4. Fits(a, locals, layout, nextId, Released, held, o, Base)
  <2>1. MovedBy(t, "normal") = t.G.moved /\ LiveBy(t, "normal") = NamesOf(t.K) \ t.G.dead
    BY DEF MovedBy, LiveBy
  <2>2. MovedBy(t, "normal") \cap NamesOf(t.K) \subseteq MovedBy(a, o)
    BY <1>1, <1>3, <2>1 DEF MovedBy
  <2>3. LiveBy(a, o) \cap NamesOf(t.K) \subseteq LiveBy(t, "normal")
    BY <1>1, <1>3, <2>1 DEF LiveBy
  <2>4. a.K.locals = t.K.locals /\ a.K.derived = t.K.derived /\ nextId =< nextId
    BY <1>1
  <2> QED
    BY <1>1, <1>2, <2>2, <2>3, <2>4, FitsOn
<1> QED
  BY <1>1, <1>4, Resumed

LEMMA ExitKeeps == ASSUME IInv, ExecExit PROVE IInv'
<1>1. PICK op \in {"ret", "raise", "brk", "cont"} :
        /\ Runs(op) /\ out' = op /\ ctl' = Advance /\ locals' = locals
        /\ UNCHANGED <<phase, prog>> /\ UNCHANGED <<status, held, nextId, trace, layout>>
  BY DEF ExecExit, vars, protocol, pktVars
<1>2. PICK T, t, s, G, a, U : AtStmt(T, t, s, G, a, U) /\ s.op = op
  BY <1>1, AtStatement
<1>3. Starts(t, s) /\ World /\ ~t.G.bottom
  BY <1>2 DEF AtStmt, Begun
<1>4. /\ op = "raise" => t.K.mayFail
      /\ op \in {"brk", "cont"} => t.K.inLoop /\ t.G.moved \subseteq t.K.loopMoved
  BY <1>1, <1>2, <1>3, ExitLeaf
<1>5. OutOk(t, op)
  BY <1>1, <1>4 DEF OutOk
<1>6. WorldTo(Released, held, layout, nextId)
  BY <1>1, <1>3, WorldKept
<1> QED
  BY <1>1, <1>2, <1>4, <1>5, <1>6, Exited
(* What a block inside the statement starts from fits what is there.        *)
LEMMA EntryFits ==
  ASSUME NEW t, NEW s, Starts(t, s), s.op \in Compound, ~t.G.bottom,
         NEW c, c.K.locals = t.K.locals, c.K.derived = t.K.derived, c.own = t.own,
         c.G = Entering(t.K, t.G, s),
         NEW loc, NEW lay, NEW lay2, NEW nxt \in Nat, NEW nxt2 \in Nat, nxt =< nxt2, NEW rel, NEW h, NEW base,
         Fits(t, loc, lay, nxt, rel, h, "normal", base),
         lay2 = lay \/ Resizes(s)
  PROVE  Fits(c, loc, lay2, nxt2, rel, h, "normal", base)
<1>1. PICK M : M = Entering(t.K, t.G, s)
  OBVIOUS
<1>2. /\ Known(t.K, M, t.live) /\ M.bottom = t.G.bottom
      /\ M.moved = t.G.moved /\ t.G.dead \subseteq M.dead
      /\ Resizes(s) => ViewsInScope(t.K) \subseteq M.dead
  BY <1>1, EntersKnown
<1>3. c.G = M
  BY <1>1
<1>4. NamesOf(c.K) = NamesOf(t.K)
  BY DEF NamesOf
<1>5. OutOk(c, "normal")
  BY <1>2, <1>3 DEF OutOk
<1>6. MovedBy(t, "normal") = t.G.moved /\ MovedBy(c, "normal") = t.G.moved
  BY <1>2, <1>3 DEF MovedBy
<1>7. LiveBy(t, "normal") = NamesOf(t.K) \ t.G.dead /\ LiveBy(c, "normal") = NamesOf(t.K) \ M.dead
  BY <1>3, <1>4 DEF LiveBy
<1>8. /\ MovedBy(t, "normal") \cap NamesOf(t.K) \subseteq MovedBy(c, "normal")
      /\ LiveBy(c, "normal") \cap NamesOf(t.K) \subseteq LiveBy(t, "normal")
      /\ lay2 = lay \/ LiveBy(c, "normal") \cap ViewsInScope(t.K) = {}
  BY <1>2, <1>6, <1>7
<1> HIDE <1>1
<1> QED
  BY <1>5, <1>8, FitsOn

LEMMA Branched ==
  ASSUME NEW T, NEW t, NEW s, NEW G, NEW a, NEW U, AtStmt(T, t, s, G, a, U), NEW b, BranchOf(s, b),
         ctl' = <<Block(b)>> \o Advance, locals' = locals, UNCHANGED <<phase, prog, out>>,
         NEW lay, lay = layout \/ Resizes(s), WorldTo(Released, held, lay, nextId)
  PROVE  IInv'
<1>1. /\ RunInv(T) /\ Begun(ctl, T, Base, t, s, G, a, U) /\ Starts(t, s) /\ Good(t) /\ ~t.G.bottom
      /\ Advance = Advancing(ctl) /\ phase \in {"body", "handler"} /\ nextId \in Nat /\ out = "normal"
      /\ Fits(t, locals, layout, nextId, Released, held, "normal", Base)
      /\ locals \in Seq(Bindings) /\ Len(locals) = Len(t.K.locals) + Base
  BY DEF AtStmt, Begun, World
<1>2. b \in AnyBlock
  <2>1. t.n - 1 \in Nat /\ b \in Blocks[t.n - 1]
    BY <1>1, BranchChecked
  <2> QED
    BY <2>1, BlockOfLevel
<1>3. PICK fr : fr = Block(b)
  OBVIOUS
<1>4. fr \in Frames /\ fr.at = "block" /\ fr.rest = b /\ fr.n = Len(t.K.locals) + Base
  BY <1>1, <1>2, <1>3, BlockFrame
<1>5. ctl' = <<fr>> \o Advancing(ctl)
  BY <1>1, <1>3
<1> HIDE <1>3
<1>6. PICK c, V : /\ Inside(t, s, c)
                  /\ Stacked(<<fr>> \o Advancing(ctl), V, Base) /\ V[1] = c /\ V[Len(V)] = T[Len(T)]
  BY <1>1, <1>4, BranchEntered, SMTT(60)
<1>7. s.op \in Compound
  BY DEF BranchOf, Compound
<1>8. c.K.locals = t.K.locals /\ c.K.derived = t.K.derived /\ c.own = t.own /\ c.G = Entering(t.K, t.G, s)
  BY <1>6 DEF Inside
<1>9. nextId =< nextId
  BY <1>1
<1>10. Fits(c, locals, lay, nextId, Released, held, "normal", Base)
  BY <1>1, <1>7, <1>8, <1>9, EntryFits
<1> QED
  BY <1>1, <1>5, <1>6, <1>10, Resumed

LEMMA IteKeeps == ASSUME IInv, ExecIte PROVE IInv'
<1>1. Runs("ite") /\ UNCHANGED <<phase, prog, out>> /\ locals' = locals
      /\ UNCHANGED <<status, held, nextId, trace, layout>>
  BY DEF ExecIte, Goto, vars, protocol, pktVars
<1>2. PICK T, t, s, G, a, U : AtStmt(T, t, s, G, a, U) /\ s.op = "ite"
  BY <1>1, AtStatement
<1>3. s = Stmt /\ World
  BY <1>2 DEF AtStmt
<1>4. PICK b : BranchOf(s, b) /\ ctl' = <<Block(b)>> \o Advance
  BY <1>2, <1>3 DEF ExecIte, Goto, BranchOf
<1>5. WorldTo(Released, held, layout, nextId)
  BY <1>1, <1>3, WorldKept
<1> QED
  BY <1>1, <1>2, <1>4, <1>5, Branched

LEMMA LoopKeeps == ASSUME IInv, ExecLoop PROVE IInv'
<1>1. PICK k \in 0..MaxIters :
        /\ Runs("loop") /\ UNCHANGED <<phase, prog, out>> /\ locals' = locals
        /\ ctl' = <<LoopOf(Stmt.t, k)>> \o Advance
        /\ UNCHANGED <<status, held, nextId, trace, layout>>
  BY DEF ExecLoop, Goto, vars, protocol, pktVars
<1>2. PICK T, t, s, G, a, U : AtStmt(T, t, s, G, a, U) /\ s.op = "loop"
  BY <1>1, AtStatement
<1>3. /\ RunInv(T) /\ Begun(ctl, T, Base, t, s, G, a, U) /\ Starts(t, s) /\ Good(t) /\ ~t.G.bottom
      /\ Advance = Advancing(ctl) /\ phase \in {"body", "handler"} /\ nextId \in Nat /\ out = "normal"
      /\ Fits(t, locals, layout, nextId, Released, held, "normal", Base)
      /\ locals \in Seq(Bindings) /\ s = Stmt /\ World
  BY <1>2 DEF AtStmt, Begun, World
<1>4. s.t \in AnyBlock
  <2>1. t.n - 1 \in Nat /\ s.t \in Blocks[t.n - 1]
    BY <1>2, <1>3, LoopChecked
  <2> QED
    BY <2>1, BlockOfLevel
<1>5. PICK fr : fr = LoopOf(s.t, k)
  OBVIOUS
<1>6. fr \in Frames /\ fr.at = "loop" /\ fr.rest = s.t
  BY <1>3, <1>4, <1>5, LoopFrame
<1>7. ctl' = <<fr>> \o Advancing(ctl)
  BY <1>1, <1>3, <1>5
<1> HIDE <1>5
<1>8. PICK c, V : /\ Looping(t, s, G, c)
                  /\ Stacked(<<fr>> \o Advancing(ctl), V, Base) /\ V[1] = c /\ V[Len(V)] = T[Len(T)]
  BY <1>2, <1>3, <1>6, LoopEntered
<1>9. /\ c.K.locals = t.K.locals /\ c.K.derived = t.K.derived /\ c.own = t.own
      /\ c.G = G /\ ~G.bottom /\ G.moved = t.G.moved /\ t.G.dead \subseteq G.dead
  BY <1>8 DEF Looping, SameScope
<1>10. Fits(c, locals, layout, nextId, Released, held, "normal", Base)
  <2>1. OutOk(c, "normal")
    BY <1>9 DEF OutOk
  <2>2. NamesOf(c.K) = NamesOf(t.K)
    BY <1>9 DEF NamesOf
  <2>3. /\ MovedBy(t, "normal") \cap NamesOf(t.K) \subseteq MovedBy(c, "normal")
        /\ LiveBy(c, "normal") \cap NamesOf(t.K) \subseteq LiveBy(t, "normal")
    BY <1>9, <2>2 DEF MovedBy, LiveBy
  <2>4. nextId =< nextId
    BY <1>3
  <2> QED
    BY <1>3, <1>9, <2>1, <2>3, <2>4, FitsOn
<1>11. WorldTo(Released, held, layout, nextId)
  BY <1>1, <1>3, WorldKept
<1> QED
  BY <1>1, <1>3, <1>7, <1>8, <1>10, <1>11, Resumed
-----------------------------------------------------------------------------
(* Fallible operations.                                                     *)
LEMMA TailKeeps == ASSUME IInv, ExecTail PROVE IInv' /\ held = <<>>
<1>1. /\ Runs("try") /\ Stmt.f = "tail" /\ out' = "tail" /\ ctl' = Advance /\ locals' = locals
      /\ UNCHANGED <<phase, prog>> /\ UNCHANGED <<status, held, nextId, trace, layout>>
  BY DEF ExecTail, vars, protocol, pktVars
<1>2. PICK T, t, s, G, a, U : AtStmt(T, t, s, G, a, U) /\ s.op = "try"
  BY <1>1, AtStatement
<1>3. /\ Starts(t, s) /\ World /\ s = Stmt /\ Good(t)
      /\ Fits(t, locals, layout, nextId, Released, held, "normal", Base)
  BY <1>2 DEF AtStmt, Begun
<1>4. FallibleOk(t.K, s)
  BY <1>2, <1>3, TryChecked
<1>5. t.K.held = <<>>
  BY <1>1, <1>3, <1>4 DEF FallibleOk, TailAllowed
<1>6. OutOk(t, "tail")
  BY <1>5 DEF OutOk
<1>7. WorldTo(Released, held, layout, nextId)
  BY <1>1, <1>3, WorldKept
<1>8. held = <<>>
  <2>1. t.own \in Seq(Frames) /\ Mirrors(t.K, t.own)
    BY <1>3, GoodParts
  <2>2. Len(t.own) = 0
    BY <1>5, <2>1 DEF Mirrors
  <2>3. t.own = <<>>
    BY <2>1, <2>2
  <2> QED
    BY <1>3, <2>3, HeldByNone DEF Fits
<1> QED
  BY <1>1, <1>2, <1>6, <1>7, <1>8, Exited

(* No name.                                                                 *)
Bare(x) == x = "_"

LEMMA TryDerived ==
  ASSUME NEW K \in Contexts, NEW s, s.x \in STRING, s.y \in STRING, s.f \in Fallibles, NEW L, L = TryContext(K, s)
  PROVE  /\ K.derived \subseteq L.derived
         /\ s.f = "cast" /\ ~Bare(s.x) => <<s.x, s.y>> \in L.derived
         /\ Bare(s.x) => L.derived = K.derived
<1>1. L.derived = IF s.f = "cast" /\ ~Bare(s.x) THEN K.derived \cup {<<s.x, s.y>>} ELSE K.derived
  BY TryContextParts DEF Bare
<1> QED
  BY <1>1

LEMMA TryLocals ==
  ASSUME NEW K \in Contexts, NEW s, s.x \in STRING, s.y \in STRING, s.f \in Fallibles, NEW L, L = TryContext(K, s)
  PROVE  /\ L \in Contexts
         /\ Bare(s.x) => L.locals = K.locals
         /\ ~Bare(s.x) => L.locals = <<[x |-> s.x, ty |-> Bound[s.f]]>> \o K.locals
<1>1. L.locals = IF Bare(s.x) THEN K.locals ELSE <<[x |-> s.x, ty |-> Bound[s.f]]>> \o K.locals
  BY TryContextParts DEF Bare
<1>2. L \in Contexts
  BY TryContextParts
<1> QED
  BY <1>1, <1>2

LEMMA OwnNames ==
  ASSUME NEW K, NEW own, Paired(K, own), NEW x, x \notin NamesOf(K), ~Bare(x)
  PROVE  \A j \in DOMAIN own : own[j].x # x
<1> SUFFICES ASSUME NEW j \in DOMAIN own, own[j].x = x PROVE FALSE
  OBVIOUS
<1>1. PICK i \in DOMAIN K.locals : K.locals[i].x = own[j].x
  BY DEF Paired, Bare
<1> QED
  BY <1>1 DEF NamesOf

(* A binding that a fallible operation yields for its name.                 *)
Yielded(t, s, loc, lay, b) ==
  /\ b \in Bindings /\ b.x = s.x /\ s.f \in {"view", "cast"} /\ b.kind = s.f
  /\ s.f = "view" => b.n = lay
  /\ s.f = "cast" => \E j \in DOMAIN t.K.locals :
       /\ t.K.locals[j].ty = "sock" /\ loc[j].kind = "own" /\ loc[j].n = b.of
       /\ \/ t.K.locals[j].x = s.y
          \/ \E d \in t.K.derived : d[2] = t.K.locals[j].x
                                    /\ \E k \in 1..(j - 1) : t.K.locals[k].x = d[1]

LEMMA YieldGuards ==
  ASSUME NEW K \in Contexts, NEW L, NEW e \in [x : STRING, ty : Types], L.locals = <<e>> \o K.locals,
         NEW loc \in Seq(Bindings), DOMAIN K.locals \subseteq DOMAIN loc, NEW b \in Bindings,
         NEW j \in DOMAIN K.locals, K.locals[j].ty = "sock", loc[j].kind = "own", loc[j].n = b.of,
         NEW d \in L.derived, d[2] = K.locals[j].x,
         d[1] = e.x \/ \E k \in 1..(j - 1) : K.locals[k].x = d[1]
  PROVE  Guarded(<<b>> \o loc, L, 1)
<1>1. PICK r : r = <<b>> \o loc
  OBVIOUS
<1>2. Extends(r, b, loc)
  BY <1>1, ConsExtends
<1>3. Extends(L.locals, e, K.locals)
  BY LocalsExtend
<1> HIDE <1>1
<1>4. /\ j \in Nat \ {0} /\ j + 1 \in DOMAIN L.locals /\ L.locals[j + 1] = K.locals[j] /\ r[j + 1] = loc[j]
      /\ 1 < j + 1 /\ r[1] = b /\ L.locals[1] = e
  <2>1. j \in 1..Len(K.locals) /\ Len(K.locals) \in Nat
    BY <1>3 DEF Extends
  <2>2. j + 1 \in DOMAIN L.locals /\ L.locals[j + 1] = K.locals[j] /\ L.locals[1] = e
    BY <1>3 DEF Extends
  <2>3. j \in DOMAIN loc
    OBVIOUS
  <2>4. r[j + 1] = loc[j] /\ r[1] = b
    BY <1>2, <2>3 DEF Extends
  <2> QED
    BY <2>1, <2>2, <2>4, SMTT(60)
<1>5. \E k \in 1..((j + 1) - 1) : L.locals[k].x = d[1]
  <2>0. (j + 1) - 1 = j /\ 1 \in 1..j
    BY <1>4
  <2>1. CASE d[1] = e.x
    BY <1>4, <2>0, <2>1
  <2>2. CASE \E k \in 1..(j - 1) : K.locals[k].x = d[1]
    <3>1. PICK k \in 1..(j - 1) : K.locals[k].x = d[1]
      BY <2>2
    <3>2. DOMAIN K.locals = 1..Len(K.locals) /\ Len(K.locals) \in Nat
      BY <1>3 DEF Extends
    <3>3. k \in DOMAIN K.locals /\ k + 1 \in 1..((j + 1) - 1)
      <4>1. j \in 1..Len(K.locals) /\ j \in Nat
        BY <1>4, <3>2
      <4>2. k \in 1..Len(K.locals)
        BY <3>1, <3>2, <4>1
      <4>3. k + 1 \in 1..((j + 1) - 1)
        BY <3>1, <4>1
      <4> QED
        BY <3>2, <4>2, <4>3
    <3>4. L.locals[k + 1] = K.locals[k]
      BY <1>3, <3>3 DEF Extends
    <3> QED
      BY <3>1, <3>3, <3>4
  <2> QED
    BY <2>1, <2>2
<1>6. Guarded(r, L, 1)
  BY <1>4, <1>5 DEF Guarded
<1> QED
  BY <1>1, <1>6
(* The store with what was yielded.                                         *)
Grown(t, s, loc, lay, loc2) ==
  \/ Bare(s.x) /\ loc2 = loc
  \/ ~Bare(s.x) /\ \E b : Yielded(t, s, loc, lay, b) /\ loc2 = <<b>> \o loc

LEMMA BoundIs == ASSUME NEW f \in {"view", "cast"} PROVE Bound[f] = f
BY DEF Bound

LEMMA SameNat == ASSUME NEW n \in Nat PROVE n =< n
OBVIOUS

LEMMA TryFits ==
  ASSUME NEW t, NEW s, Starts(t, s), s.op = "try", ~t.G.bottom, NEW c, TryOpened(t, s, c),
         NEW loc, NEW lay, NEW lay2, NEW nxt \in Nat, NEW nxt2 \in Nat, nxt =< nxt2, NEW rel, NEW h, NEW base \in Nat,
         Fits(t, loc, lay, nxt, rel, h, "normal", base), lay2 = lay \/ Resizes(s), NEW loc2,
         Grown(t, s, loc, lay2, loc2)
  PROVE  Fits(c, loc2, lay2, nxt2, rel, h, "normal", base)
<1>0. nxt2 =< nxt2
  BY SameNat
<1>1. /\ t.K \in Contexts /\ Scoped(t.K) /\ Good(t) /\ t.own \in Seq(Frames) /\ Paired(t.K, t.own)
      /\ t.n \in Nat /\ s \in Stmts(t.n) /\ s.op \in Compound
  BY GoodParts DEF Starts, Compound
<1>2. s.x \in STRING /\ s.y \in STRING /\ s.f \in Fallibles
  BY <1>1, InnerBlocks DEF Compound
<1>3. c.K = TryContext(t.K, s) /\ c.G = Entering(t.K, t.G, s) /\ c.own = t.own /\ s.x \notin NamesOf(t.K)
  BY DEF TryOpened
<1>4. CASE Bare(s.x) /\ loc2 = loc
  <2>1. c.K.locals = t.K.locals
    <3>1. PICK L : L = TryContext(t.K, s)
      OBVIOUS
    <3>2. L.locals = t.K.locals
      BY <1>1, <1>2, <1>4, <3>1, TryLocals
    <3> QED
      BY <1>3, <3>1, <3>2
  <2>2. c.K.derived = t.K.derived
    BY <1>1, <1>2, <1>3, <1>4, TryDerived
  <2> QED
    BY <1>1, <1>3, <1>4, <2>1, <2>2, EntryFits
<1>5. ASSUME ~Bare(s.x), NEW b, Yielded(t, s, loc, lay2, b), loc2 = <<b>> \o loc
      PROVE  Fits(c, loc2, lay2, nxt2, rel, h, "normal", base)
  <2>1. PICK M : M = Entering(t.K, t.G, s)
    OBVIOUS
  <2>2. PICK d : d = Typing(t.n, t.K, M, t.live, t.own)
    OBVIOUS
  <2>3. d.K = t.K /\ d.own = t.own /\ d.G = M
    BY <2>2 DEF Typing
  <2>4. Fits(d, loc, lay2, nxt2, rel, h, "normal", base)
    BY <1>1, <2>1, <2>3, EntryFits
  <2>5. M.bottom = t.G.bottom /\ M.moved = t.G.moved /\ M.moved \subseteq NamesOf(t.K)
    <3>1. M.bottom = t.G.bottom /\ M.moved = t.G.moved
      BY <1>1, <2>1, EntersKnown
    <3>2. t.G.moved \subseteq NamesOf(t.K)
      BY <1>1, GoodParts DEF Known
    <3> QED
      BY <3>1, <3>2
  <2>6. c.G = M
    BY <1>3, <2>1
  <2>7. /\ StoreOk(loc, lay2, t.K, base, M.moved, NamesOf(t.K) \ M.dead)
        /\ CastsOk(loc, t.K) /\ OwnedOk(loc, rel, nxt2, t.K, t.own) /\ h = HeldBy(t.own, rel)
    BY <2>3, <2>4 DEF Fits, MovedBy, LiveBy
  <2>8. PICK L : L = c.K
    OBVIOUS
  <2>9. PICK e : e = [x |-> s.x, ty |-> Bound[s.f]]
    OBVIOUS
  <2>10. L \in Contexts /\ L.locals = <<e>> \o t.K.locals
    <3>1. L = TryContext(t.K, s)
      BY <1>3, <2>8
    <3>2. L \in Contexts /\ L.locals = <<[x |-> s.x, ty |-> Bound[s.f]]>> \o t.K.locals
      BY <1>1, <1>2, <1>5, <3>1, TryLocals, ZenonT(60)
    <3> QED
      BY <2>9, <3>2
  <2>11. t.K.derived \subseteq L.derived /\ (s.f = "cast" => <<s.x, s.y>> \in L.derived)
    BY <1>1, <1>2, <1>3, <1>5, <2>8, TryDerived
  <2>12. /\ b \in Bindings /\ b.x = s.x /\ s.f \in {"view", "cast"} /\ b.kind = s.f
         /\ s.f = "view" => b.n = lay2
    BY <1>5 DEF Yielded
  <2>13. e.x = s.x /\ e.ty = s.f /\ e \in [x : STRING, ty : Types]
    <3>1. e.x = s.x /\ e.ty = Bound[s.f]
      BY <2>9
    <3>2. Bound[s.f] = s.f
      BY <2>12, BoundIs
    <3>3. s.f \in Types
      BY <2>12 DEF Types
    <3>4. e \in [x : STRING, ty : Types]
      BY <1>2, <2>9, <3>2, <3>3
    <3> QED
      BY <3>1, <3>2, <3>4
  <2> HIDE <2>1, <2>2, <2>8, <2>9
  <2>14. NamesOf(L) = NamesOf(t.K) \cup {s.x}
    <3>1. Widened(t.K, L, s.x, s.f)
      <4>1. e = [x |-> s.x, ty |-> s.f]
        BY <2>13
      <4> QED
        BY <1>3, <1>5, <2>10, <4>1 DEF Widened, Bare
    <3>2. s.f \in Types
      BY <2>12 DEF Types
    <3>3. NamesOf(L) = NamesOf(t.K) \cup Named(s.x)
      BY <1>1, <1>2, <2>10, <3>1, <3>2, WiderNames
    <3> QED
      BY <1>5, <3>3 DEF Named, Bare
  <2>15. StoreOk(loc, lay2, t.K, base, M.moved, NamesOf(L) \ M.dead)
    <3>1. PICK lv, kv : lv = NamesOf(L) \ M.dead /\ kv = NamesOf(t.K) \ M.dead
      OBVIOUS
    <3>2. lv \cap NamesOf(t.K) \subseteq kv /\ StoreOk(loc, lay2, t.K, base, M.moved, kv)
      BY <2>7, <3>1
    <3>3. M.moved \cap NamesOf(t.K) \subseteq M.moved
      OBVIOUS
    <3>4. StoreOk(loc, lay2, t.K, base, M.moved, lv)
      BY <3>2, <3>3, StoreWeaker
    <3> QED
      BY <3>1, <3>4
  <2>16. HoldsAs(b, e.ty, lay2, e.x \in M.moved, e.x \in NamesOf(L) \ M.dead)
    BY <2>12, <2>13 DEF HoldsAs
  <2>17. StoreOk(loc2, lay2, L, base, M.moved, NamesOf(L) \ M.dead)
    BY <1>1, <1>5, <2>10, <2>12, <2>13, <2>15, <2>16, StorePushed
  <2>18. loc \in Seq(Bindings) /\ DOMAIN t.K.locals \subseteq DOMAIN loc
    BY <1>1, <2>7, StoreTyped
  <2>19. e.ty = "cast" => Guarded(<<b>> \o loc, L, 1)
    <3> SUFFICES ASSUME s.f = "cast" PROVE Guarded(<<b>> \o loc, L, 1)
      BY <2>13
    <3>1. PICK j \in DOMAIN t.K.locals :
            /\ t.K.locals[j].ty = "sock" /\ loc[j].kind = "own" /\ loc[j].n = b.of
            /\ \/ t.K.locals[j].x = s.y
               \/ \E g \in t.K.derived : g[2] = t.K.locals[j].x
                                         /\ \E k \in 1..(j - 1) : t.K.locals[k].x = g[1]
      BY <1>5 DEF Yielded
    <3>2. PICK g \in L.derived : g[2] = t.K.locals[j].x
                                 /\ (g[1] = e.x \/ \E k \in 1..(j - 1) : t.K.locals[k].x = g[1])
      <4>1. <<s.x, s.y>>[1] = e.x /\ <<s.x, s.y>>[2] = s.y
        BY <2>13
      <4> QED
        BY <2>11, <3>1, <4>1
    <3> QED
      BY <1>1, <2>10, <2>12, <2>13, <2>18, <3>1, <3>2, YieldGuards
  <2>20. CastsOk(loc2, L)
    BY <1>1, <1>5, <2>7, <2>10, <2>11, <2>12, <2>13, <2>18, <2>19, CastsPushed
  <2>21. \A j \in DOMAIN t.own : t.own[j].x # e.x
    BY <1>1, <1>3, <1>5, <2>13, OwnNames
  <2>22. OwnedOk(loc2, rel, nxt2, L, t.own)
    <3> QED
      BY <1>0, <1>1, <1>5, <2>7, <2>10, <2>12, <2>13, <2>18, <2>21, OwnedPushed
  <2>23. L = c.K
    BY <2>8
  <2>24. OutOk(c, "normal") /\ MovedBy(c, "normal") = M.moved /\ LiveBy(c, "normal") = NamesOf(L) \ M.dead
    BY <2>5, <2>6, <2>23 DEF OutOk, MovedBy, LiveBy
  <2> QED
    BY <1>3, <2>7, <2>17, <2>20, <2>22, <2>23, <2>24 DEF Fits
<1> QED
  BY <1>4, <1>5 DEF Grown
SizedAs(loc, K, base) ==
  loc \in Seq(Bindings) /\ base \in Nat /\ Len(K.locals) \in Nat /\ Len(loc) = Len(K.locals) + base

LEMMA TryLength ==
  ASSUME NEW t, NEW s, Starts(t, s), s.op = "try", NEW base, NEW loc, SizedAs(loc, t.K, base), NEW lay,
         NEW loc2, Grown(t, s, loc, lay, loc2)
  PROVE  SizedAs(loc2, TryContext(t.K, s), base)
<1> DEFINE L == TryContext(t.K, s)
<1>3. /\ t.K \in Contexts /\ t.n \in Nat /\ s \in Stmts(t.n) /\ s.op \in Compound
  BY GoodParts DEF Starts, Compound
<1>4. s.x \in STRING /\ s.y \in STRING /\ s.f \in Fallibles
  BY <1>3, InnerBlocks DEF Compound
<1>5. loc \in Seq(Bindings) /\ base \in Nat /\ Len(loc) = Len(t.K.locals) + base
  BY DEF SizedAs
<1>1. CASE Bare(s.x) /\ loc2 = loc
  <2>1. L.locals = t.K.locals
    BY <1>1, <1>3, <1>4, TryLocals
  <2> QED
    BY <1>1, <2>1 DEF SizedAs
<1>2. ASSUME ~Bare(s.x), NEW b, Yielded(t, s, loc, lay, b), loc2 = <<b>> \o loc
      PROVE  SizedAs(loc2, L, base)
  <2>1. b \in Bindings /\ s.f \in {"view", "cast"}
    BY <1>2 DEF Yielded
  <2>2. L.locals = <<[x |-> s.x, ty |-> Bound[s.f]]>> \o t.K.locals
    BY <1>2, <1>3, <1>4, TryLocals
  <2>3. Bound[s.f] \in Types
    BY <2>1, BoundIs DEF Types
  <2>4. PICK e : e = [x |-> s.x, ty |-> Bound[s.f]]
    OBVIOUS
  <2>5. e \in [x : STRING, ty : Types] /\ L.locals = <<e>> \o t.K.locals
    <3>1. e \in [x : STRING, ty : Types]
      BY <1>4, <2>3, <2>4
    <3> QED
      BY <2>2, <2>4, <3>1
  <2> HIDE <2>4
  <2>6. Len(L.locals) = Len(t.K.locals) + 1 /\ Len(t.K.locals) \in Nat
    BY <1>3, <2>5, LocalsPushed
  <2>7. Extends(loc2, b, loc)
    BY <1>2, <1>5, <2>1, ConsExtends
  <2>8. loc2 \in Seq(Bindings)
    BY <1>2, <1>5, <2>1, ConsParts
  <2>9. Len(loc2) = Len(loc) + 1
    BY <2>7 DEF Extends
  <2> QED
    BY <1>5, <2>6, <2>8, <2>9 DEF SizedAs
<1> QED
  BY <1>1, <1>2 DEF Grown

(* The step of a fallible operation that yielded b.                         *)
Taken(s, b) ==
  /\ locals' = WithBound(s.x, b) /\ UNCHANGED <<phase, prog, out>>
  /\ ctl' = <<[Block(s.t) EXCEPT !.n = Len(locals')], TryOf>> \o Advance

LEMMA TryTaken ==
  ASSUME NEW T, NEW t, NEW s, NEW G, NEW a, NEW U, AtStmt(T, t, s, G, a, U), s.op = "try",
         NEW lay, lay = layout \/ Resizes(s), NEW nxt \in Nat, nextId =< nxt,
         WorldTo(Released, held, lay, nxt),
         NEW b, ~Bare(s.x) => Yielded(t, s, locals, lay, b),
         Taken(s, b)
  PROVE  IInv'
<1>1. /\ RunInv(T) /\ Begun(ctl, T, Base, t, s, G, a, U) /\ Starts(t, s) /\ Good(t) /\ ~t.G.bottom
      /\ Advance = Advancing(ctl) /\ Advance \in Seq(Frames)
      /\ phase \in {"body", "handler"} /\ nextId \in Nat /\ out = "normal" /\ Base \in Nat
      /\ Fits(t, locals, layout, nextId, Released, held, "normal", Base)
      /\ locals \in Seq(Bindings) /\ Len(locals) = Len(t.K.locals) + Base
  BY DEF AtStmt, Begun, World
<1>0. SizedAs(locals, t.K, Base) /\ locals \in Seq(Bindings)
  <2>1. Len(t.K.locals) \in Nat
    BY <1>1, GoodParts, LocalsTyped
  <2> QED
    BY <1>1, <2>1 DEF SizedAs
<1>2. s.t \in AnyBlock
  <2>1. t.n - 1 \in Nat /\ s.t \in Blocks[t.n - 1]
    BY <1>1, TryChecked
  <2> QED
    BY <2>1, BlockOfLevel
<1>5. PICK L : L = TryContext(t.K, s)
  OBVIOUS
<1>6. PICK loc2 : loc2 = locals'
  OBVIOUS
<1>7. /\ loc2 = WithBound(s.x, b) /\ UNCHANGED <<phase, prog, out>>
      /\ ctl' = <<BlockFor(s.t, Len(loc2)), TryOf>> \o Advance
  BY <1>6 DEF Taken, BlockFor
<1>8. Grown(t, s, locals, lay, loc2)
  BY <1>7 DEF WithBound, Grown, Bare
<1>17. loc2 \in Seq(Bindings) /\ Len(loc2) \in Nat /\ Len(loc2) = Len(L.locals) + Base
  <2>1. SizedAs(loc2, TryContext(t.K, s), Base)
    BY <1>0, <1>1, <1>8, TryLength
  <2>2. SizedAs(loc2, L, Base)
    BY <1>5, <2>1
  <2> QED
    BY <2>2 DEF SizedAs
<1>9. PICK m : m = Len(loc2)
  OBVIOUS
<1>10. PICK f1 : f1 = BlockFor(s.t, m)
  OBVIOUS
<1>11. f1 \in Frames /\ f1.at = "block" /\ f1.rest = s.t /\ f1.n = Len(L.locals) + Base
  <2>1. m \in Nat /\ m = Len(L.locals) + Base
    BY <1>9, <1>17
  <2>2. f1 \in Frames /\ f1.at = "block" /\ f1.rest = s.t /\ f1.n = m
    BY <1>0, <1>2, <1>10, <2>1, BlockOver
  <2> QED
    BY <2>1, <2>2
<1>12. PICK f2 : f2 = TryOf
  OBVIOUS
<1>13. f2 \in Frames /\ f2.at = "try" /\ f2.n = Len(t.K.locals) + Base
  <2>1. f2 \in Frames /\ f2.at = "try" /\ f2.n = Len(locals)
    BY <1>0, <1>12, TryFrame
  <2>2. Len(locals) = Len(t.K.locals) + Base
    BY <1>0 DEF SizedAs
  <2> QED
    BY <2>1, <2>2
<1>14. ctl' = <<f1>> \o (<<f2>> \o Advancing(ctl))
  <2>1. ctl' = <<f1, f2>> \o Advance
    BY <1>7, <1>9, <1>10, <1>12
  <2>2. Advance = Advancing(ctl) /\ Advance \in Seq(Frames) /\ f1 \in Frames /\ f2 \in Frames
    BY <1>1, <1>11, <1>13
  <2>3. <<f1, f2>> \o Advance = <<f1>> \o (<<f2>> \o Advance)
    BY <2>2, TwoFrames, SMTT(60)
  <2> QED
    BY <2>1, <2>2, <2>3
<1> HIDE <1>9, <1>10, <1>12
<1>15. f1.n = Len(TryContext(t.K, s).locals) + Base
  BY <1>5, <1>11
<1>16. PICK c, V : /\ TryOpened(t, s, c)
                   /\ Stacked(<<f1>> \o (<<f2>> \o Advancing(ctl)), V, Base)
                   /\ V[1] = c /\ V[Len(V)] = T[Len(T)]
  <2>1. Begun(ctl, T, Base, t, s, G, a, U)
    BY <1>1
  <2>2. f1 \in Frames /\ f1.at = "block" /\ f1.rest = s.t
    BY <1>11
  <2> QED
    BY <1>13, <1>15, <2>1, <2>2, TryEntered
<1>18. Fits(c, loc2, lay, nxt, Released, held, "normal", Base)
  BY <1>1, <1>16, <1>8, TryFits
<1> QED
  BY <1>1, <1>6, <1>7, <1>14, <1>16, <1>18, Resumed
(* The failure, and the untaken tail call, run the `else`.                  *)
LEMMA TryMissed ==
  ASSUME NEW T, NEW t, NEW s, NEW G, NEW a, NEW U, AtStmt(T, t, s, G, a, U), s.op = "try",
         NEW lay, lay = layout \/ Resizes(s), WorldTo(Released, held, lay, nextId),
         Missed, UNCHANGED <<phase, prog, out>>
  PROVE  IInv'
<1>1. s = Stmt
  BY DEF AtStmt
<1>2. ctl' = <<Block(s.e)>> \o Advance /\ locals' = locals
  BY <1>1 DEF Missed
<1>3. BranchOf(s, s.e)
  BY DEF BranchOf
<1> QED
  BY <1>2, <1>3, Branched

LEMMA TookIsTaken ==
  ASSUME NEW s, s = Stmt, NEW b, Took(b), UNCHANGED <<phase, prog, out>>
  PROVE  Taken(s, b)
BY DEF Took, Taken

LEMMA TryParts ==
  ASSUME NEW t, NEW s, Starts(t, s), s.op = "try"
  PROVE  /\ s.x \in Labels /\ s.x \in STRING /\ s.y \in STRING /\ s.f \in Fallibles /\ FallibleOk(t.K, s)
         /\ t.K \in Contexts
<1>1. t.n \in Nat /\ s \in Stmts(t.n) /\ t.K \in Contexts
  BY GoodParts DEF Starts
<1>2. s.x \in STRING /\ s.y \in STRING /\ s.f \in Fallibles
  BY <1>1, InnerBlocks DEF Compound
<1>3. FallibleOk(t.K, s)
  BY TryChecked
<1>4. \A x \in STRING : x \in Labels
  BY DEF Labels
<1> QED
  BY <1>1, <1>2, <1>3, <1>4

LEMMA BindingTyped ==
  ASSUME NEW x \in Labels, NEW k \in {"own", "cast", "view", "value", "none", "moved"}, NEW n \in Int, NEW of \in Int,
         NEW b, b = Binding(x, k, n, of)
  PROVE  b \in Bindings /\ b.x = x /\ b.kind = k /\ b.n = n /\ b.of = of
BY DEF Binding, Bindings

LEMMA ViewKeeps ==
  ASSUME NEW T, NEW t, NEW s, NEW G, NEW a, NEW U, AtStmt(T, t, s, G, a, U), s.op = "try", s.f = "view",
         TryView, UNCHANGED <<phase, prog, out>>
  PROVE  IInv'
<1>1. Starts(t, s) /\ World /\ s = Stmt /\ layout \in Nat /\ nextId \in Nat
  BY DEF AtStmt, Begun, World
<1>2. UNCHANGED <<status, held, nextId, trace, layout>>
  BY DEF TryView, View, vars, protocol, pktVars
<1>3. WorldTo(Released, held, layout, nextId)
  BY <1>1, <1>2, WorldKept
<1>4. CASE Missed
  BY <1>3, <1>4, TryMissed
<1>5. CASE Took(Binding(s.x, "view", layout, -1))
  <2>1. PICK b : b = Binding(s.x, "view", layout, -1)
    OBVIOUS
  <2>2. b \in Bindings /\ b.x = s.x /\ b.kind = "view" /\ b.n = layout
    <3>1. s.x \in Labels /\ layout \in Int
      BY <1>1, TryParts
    <3> QED
      BY <2>1, <3>1, BindingTyped
  <2>3. Yielded(t, s, locals, layout, b)
    BY <2>2 DEF Yielded
  <2>4. Taken(s, b)
    BY <1>1, <1>5, <2>1, TookIsTaken
  <2>5. nextId =< nextId
    BY <1>1
  <2> QED
    BY <1>1, <1>3, <2>3, <2>4, <2>5, TryTaken
<1> QED
  BY <1>1, <1>4, <1>5 DEF TryView

LEMMA ResizeKeeps ==
  ASSUME NEW T, NEW t, NEW s, NEW G, NEW a, NEW U, AtStmt(T, t, s, G, a, U), s.op = "try", s.f = "resize",
         TryResize, UNCHANGED <<phase, prog, out>>
  PROVE  IInv'
<1>1. Starts(t, s) /\ World /\ s = Stmt /\ nextId \in Nat
  BY DEF AtStmt, Begun, World
<1>2. PICK d \in Deltas : Resize(d) /\ (Took(Binding("_", "none", 0, -1)) \/ Missed)
  BY DEF TryResize
<1>3. Resizes(s)
  BY DEF Resizes
<1>4. ~ForbidsCall({})
  <2>1. "call" \in Effects(s)
    BY DEF Effects
  <2> QED
    BY <2>1, MayCall
<1>5. PICK lay : WorldTo(Released, held, lay, nextId)
  BY <1>1, <1>2, <1>4, ResizeMade
<1>6. CASE Missed
  BY <1>3, <1>5, <1>6, TryMissed
<1>7. CASE Took(Binding("_", "none", 0, -1))
  <2>1. PICK b : b = Binding("_", "none", 0, -1)
    OBVIOUS
  <2>2. Taken(s, b)
    BY <1>1, <1>7, <2>1, TookIsTaken
  <2>3. Bare(s.x)
    <3>1. FallibleOk(t.K, s)
      BY <1>1, TryParts
    <3>2. Bound["resize"] = "none"
      BY DEF Bound
    <3> QED
      BY <3>1, <3>2 DEF FallibleOk, Bare
  <2>4. nextId =< nextId
    BY <1>1
  <2> QED
    BY <1>1, <1>3, <1>5, <2>2, <2>3, <2>4, TryTaken
<1> QED
  BY <1>2, <1>6, <1>7
(* The same, in one word.                                                   *)
PlaceOf(t, x) ==
  \E i \in DOMAIN t.K.locals :
    /\ t.K.locals[i].x = x /\ i \in DOMAIN locals /\ Local(x) = locals[i] /\ locals[i] \in Bindings
    /\ HoldsAs(locals[i], t.K.locals[i].ty, layout, FALSE, TRUE)
    /\ Usable(locals[i])
LEMMA MentionedPlace ==
  ASSUME NEW t, Good(t), NEW rel, NEW h, NEW nxt, Fits(t, locals, layout, nxt, rel, h, "normal", Base),
         NEW x, InScope(t.K, x), x \notin t.G.dead \cup t.G.moved
  PROVE  PlaceOf(t, x)
BY Mentioned, ZenonT(60) DEF PlaceOf

(* What a cast is of is a place the program may use, and what it yields     *)
(* derives from a socket in scope.                                          *)
LEMMA CastYields ==
  ASSUME NEW t, NEW s, Starts(t, s), Good(t), s.op = "try", s.f = "cast",
         NEW rel, NEW h, NEW nxt, Fits(t, locals, layout, nxt, rel, h, "normal", Base),
         NEW k \in Int, NEW p, p = Local(s.y),
         NEW b, b = Binding(s.x, "cast", k, IF p.kind = "own" THEN p.n ELSE p.of)
  PROVE  Usable(p) /\ Yielded(t, s, locals, layout, b)
<1>1. /\ s.x \in Labels /\ FallibleOk(t.K, s) /\ t.K \in Contexts /\ Scoped(t.K)
      /\ CastsOk(locals, t.K)
  BY TryParts, GoodParts DEF Fits
<1>2. InScope(t.K, s.y) /\ s.y \notin t.G.dead \cup t.G.moved
  <2>1. Mentions(s) = {s.y}
    BY DEF Mentions
  <2>2. \A x \in Mentions(s) : InScope(t.K, x)
    BY Accepted
  <2>3. Mentions(s) \cap (t.G.dead \cup t.G.moved) = {}
    BY Accepted
  <2> QED
    BY <2>1, <2>2, <2>3
<1>3. PICK i \in DOMAIN t.K.locals :
        /\ t.K.locals[i].x = s.y /\ i \in DOMAIN locals /\ Local(s.y) = locals[i] /\ locals[i] \in Bindings
        /\ HoldsAs(locals[i], t.K.locals[i].ty, layout, FALSE, TRUE)
        /\ Usable(locals[i])
  <2>1. PICK y : y = s.y
    OBVIOUS
  <2>2. InScope(t.K, y) /\ y \notin t.G.dead \cup t.G.moved
    BY <1>2, <2>1
  <2>3. PlaceOf(t, y)
    BY <2>2, MentionedPlace
  <2> QED
    BY <2>1, <2>3 DEF PlaceOf
<1>4. t.K.locals[i].ty \in {"sock", "cast"}
  <2>1. TypeOf(t.K, t.K.locals[i].x) = t.K.locals[i].ty
    BY <1>1, TypeIs
  <2> QED
    BY <1>1, <1>3, <2>1 DEF FallibleOk, CastAllowed
<1>5. p \in Bindings /\ p = locals[i] /\ Usable(p)
  BY <1>3
<1>6. PICK of : of = IF p.kind = "own" THEN p.n ELSE p.of
  OBVIOUS
<1>7. of \in Int
  BY <1>5, <1>6 DEF Bindings
<1>8. b \in Bindings /\ b.x = s.x /\ b.kind = "cast" /\ b.of = of
  <2>1. b = Binding(s.x, "cast", k, of)
    BY <1>6
  <2> QED
    BY <1>1, <1>7, <2>1, BindingTyped
<1>9. \E j \in DOMAIN t.K.locals :
        /\ t.K.locals[j].ty = "sock" /\ locals[j].kind = "own" /\ locals[j].n = b.of
        /\ \/ t.K.locals[j].x = s.y
           \/ \E d \in t.K.derived : d[2] = t.K.locals[j].x
                                     /\ \E q \in 1..(j - 1) : t.K.locals[q].x = d[1]
  <2>1. CASE t.K.locals[i].ty = "sock"
    <3>1. p.kind = "own"
      BY <1>3, <1>5, <2>1 DEF HoldsAs
    <3>2. b.of = p.n
      BY <1>6, <1>8, <3>1
    <3> QED
      BY <1>3, <1>5, <2>1, <3>1, <3>2
  <2>2. CASE t.K.locals[i].ty = "cast"
    <3>1. p.kind = "cast"
      BY <1>3, <1>5, <2>2 DEF HoldsAs
    <3>2. b.of = locals[i].of
      BY <1>5, <1>6, <1>8, <3>1
    <3>3. Guarded(locals, t.K, i)
      BY <1>1, <2>2 DEF CastsOk
    <3>4. PICK j \in DOMAIN t.K.locals :
            /\ i < j /\ t.K.locals[j].ty = "sock" /\ locals[j].kind = "own" /\ locals[j].n = locals[i].of
            /\ \E d \in t.K.derived : d[2] = t.K.locals[j].x /\ \E q \in i..(j - 1) : t.K.locals[q].x = d[1]
      BY <3>3 DEF Guarded
    <3>5. PICK d \in t.K.derived : d[2] = t.K.locals[j].x /\ \E q \in i..(j - 1) : t.K.locals[q].x = d[1]
      BY <3>4
    <3>6. \E q \in 1..(j - 1) : t.K.locals[q].x = d[1]
      <4>1. PICK q \in i..(j - 1) : t.K.locals[q].x = d[1]
        BY <3>5
      <4>2. DOMAIN t.K.locals = 1..Len(t.K.locals) /\ Len(t.K.locals) \in Nat
        BY <1>1, LocalsTyped
      <4>3. i \in 1..Len(t.K.locals) /\ j \in 1..Len(t.K.locals)
        BY <4>2
      <4>4. q \in 1..(j - 1)
        BY <4>1, <4>2, <4>3
      <4> QED
        BY <4>1, <4>4
    <3> QED
      BY <3>2, <3>4, <3>5, <3>6
  <2> QED
    BY <1>4, <2>1, <2>2
<1> QED
  BY <1>5, <1>8, <1>9 DEF Yielded

LEMMA CastKeeps ==
  ASSUME NEW T, NEW t, NEW s, NEW G, NEW a, NEW U, AtStmt(T, t, s, G, a, U), s.op = "try", s.f = "cast",
         TryCast, UNCHANGED <<phase, prog, out>>
  PROVE  IInv'
<1>1. /\ Starts(t, s) /\ Good(t) /\ World /\ s = Stmt /\ nextId \in Nat
      /\ Fits(t, locals, layout, nextId, Released, held, "normal", Base)
  BY DEF AtStmt, Begun, World
<1>2. PICK p, b : p = Local(s.y) /\ b = Binding(s.x, "cast", nextId, IF p.kind = "own" THEN p.n ELSE p.of)
  OBVIOUS
<1>3. Usable(p) /\ Yielded(t, s, locals, layout, b)
  <2>1. nextId \in Int
    BY <1>1
  <2> QED
    BY <1>1, <1>2, <2>1, CastYields
<1>4. (SkCast /\ Took(b)) \/ (OtherCall("failed") /\ Missed)
  <2>1. Usable(Local(Stmt.y))
    BY <1>1, <1>2, <1>3
  <2> QED
    BY <1>1, <1>2, <2>1 DEF TryCast
<1>5. ~ForbidsCall({})
  <2>1. "call" \in Effects(s)
    BY DEF Effects
  <2> QED
    BY <2>1, MayCall
<1> HIDE <1>2
<1>6. CASE SkCast /\ Took(b)
  <2>1. WorldTo(Released, held, layout, nextId + 1)
    BY <1>1, <1>5, <1>6, CastMade
  <2>2. Taken(s, b)
    BY <1>1, <1>6, TookIsTaken
  <2>3. nextId + 1 \in Nat /\ nextId =< nextId + 1
    BY <1>1
  <2> QED
    BY <1>3, <2>1, <2>2, <2>3, TryTaken
<1>7. CASE OtherCall("failed") /\ Missed
  <2>1. "failed" \in Outcomes
    BY DEF Outcomes
  <2>2. WorldTo(Released, held, layout, nextId)
    BY <1>1, <1>5, <1>7, <2>1, CallMade
  <2> QED
    BY <1>7, <2>2, TryMissed
<1> QED
  BY <1>4, <1>6, <1>7

LEMMA TryKeeps == ASSUME IInv, ExecTry PROVE IInv'
<1>1. Runs("try") /\ UNCHANGED <<phase, prog, out>>
  BY DEF ExecTry
<1>2. PICK T, t, s, G, a, U : AtStmt(T, t, s, G, a, U) /\ s.op = "try"
  BY <1>1, AtStatement
<1>3. s = Stmt /\ World
  BY <1>2 DEF AtStmt
<1>4. CASE s.f = "view" /\ TryView
  BY <1>1, <1>2, <1>4, ViewKeeps
<1>5. CASE s.f = "resize" /\ TryResize
  BY <1>1, <1>2, <1>5, ResizeKeeps
<1>6. CASE s.f = "cast" /\ TryCast
  BY <1>1, <1>2, <1>6, CastKeeps
<1>7. CASE UNCHANGED vars /\ Missed
  <2>1. UNCHANGED <<status, held, nextId, trace, layout>>
    BY <1>7 DEF vars, protocol, pktVars
  <2>2. WorldTo(Released, held, layout, nextId)
    BY <1>3, <2>1, WorldKept
  <2> QED
    BY <1>1, <1>2, <1>7, <2>2, TryMissed
<1> QED
  BY <1>3, <1>4, <1>5, <1>6, <1>7 DEF ExecTry
-----------------------------------------------------------------------------
(* Handing a socket away.                                                   *)

LEMMA Rebinds ==
  ASSUME locals \in Seq(Bindings), NEW x, NEW r, r = Rebound(x)
  PROVE  /\ r \in Seq(Bindings) /\ Len(r) = Len(locals) /\ DOMAIN r = DOMAIN locals
         /\ \A i \in DOMAIN locals :
              /\ r[i].x = locals[i].x /\ r[i].n = locals[i].n /\ r[i].of = locals[i].of
              /\ locals[i].x = x => r[i].kind = "moved"
              /\ locals[i].x # x => r[i] = locals[i]
<1>1. DOMAIN r = DOMAIN locals /\ DOMAIN locals = 1..Len(locals) /\ Len(locals) \in Nat
  BY DEF Rebound
<1>2. \A i \in DOMAIN locals : locals[i] \in Bindings
  OBVIOUS
<1>3. \A i \in DOMAIN locals :
        r[i] = IF locals[i].x = x THEN [locals[i] EXCEPT !.kind = "moved"] ELSE locals[i]
  BY DEF Rebound
<1>4. \A i \in DOMAIN locals :
        /\ r[i] \in Bindings
        /\ r[i].x = locals[i].x /\ r[i].n = locals[i].n /\ r[i].of = locals[i].of
        /\ locals[i].x = x => r[i].kind = "moved"
        /\ locals[i].x # x => r[i] = locals[i]
  BY <1>2, <1>3, ZenonT(60) DEF Bindings
<1>5. r \in Seq(Bindings) /\ Len(r) = Len(locals)
  <2>1. r = [i \in 1..Len(locals) |-> r[i]]
    BY <1>1 DEF Rebound
  <2>2. r \in [1..Len(locals) -> Bindings]
    BY <1>1, <1>4, <2>1
  <2> QED
    BY <1>1, <2>2
<1> QED
  BY <1>1, <1>4, <1>5

(* The socket the innermost hold took, still held under its name x at i.    *)
Hands(t, loc, rel, nxt, x, i, n) ==
  /\ i \in DOMAIN t.K.locals /\ t.K.locals[i].x = x /\ t.K.locals[i].ty = "sock"
  /\ loc[i].kind = "own" /\ loc[i].n = n
  /\ t.own # <<>> /\ t.own[1].x = x /\ t.own[1].got.res = "sockref"
  /\ t.own[1].got.obj = Object(n) /\ t.own[1].got.obj.n = n
  /\ n \notin rel /\ n \in 0..(nxt - 1)
  /\ ~Bare(x)

LEMMA OwnerHands ==
  ASSUME NEW t, Good(t), NEW x, x = OwnerOf(t.K), NEW i \in DOMAIN t.K.locals,
         t.K.locals[i].x = x, t.K.locals[i].ty = "sock",
         NEW loc, loc[i].kind = "own", NEW rel, NEW nxt, OwnedOk(loc, rel, nxt, t.K, t.own)
  PROVE  Hands(t, loc, rel, nxt, x, i, loc[i].n)
<1>1. /\ Scoped(t.K) /\ Mirrors(t.K, t.own) /\ Paired(t.K, t.own) /\ t.K \in Contexts
      /\ t.own \in Seq(Frames)
  BY GoodParts
<1>2. ~Bare(x)
  <2>1. x \in NamesOf(t.K)
    BY DEF NamesOf
  <2> QED
    BY <1>1, <2>1, Zenon DEF Scoped, Bare
<1>3. t.K.held # <<>> /\ x = Head(t.K.held).x
  BY <1>2, Zenon DEF OwnerOf, Bare
<1>4. 1 \in DOMAIN t.own /\ t.own # <<>> /\ t.own[1].x = x
  <2>1. t.K.held \in Seq([res : STRING, x : STRING])
    BY <1>1, OwnerTyped
  <2>2. Len(t.K.held) \in Nat \ {0} /\ Head(t.K.held) = t.K.held[1]
    BY <1>3, <2>1, Uncons
  <2>3. Len(t.own) = Len(t.K.held)
    BY <1>1 DEF Mirrors
  <2>4. 1 \in DOMAIN t.own /\ t.own # <<>>
    BY <1>1, <2>2, <2>3
  <2>5. t.own[1].x = t.K.held[1].x
    BY <1>1, <2>4 DEF Mirrors
  <2> QED
    BY <1>3, <2>2, <2>4, <2>5
<1>5. GotOk(t.own[1].got)
  BY <1>1, <1>4 DEF Mirrors
<1>6. t.own[1].got.res = "sockref"
  <2>1. \A j \in DOMAIN t.own : ~Bare(t.own[j].x) =>
          \E k \in DOMAIN t.K.locals : t.K.locals[k].x = t.own[j].x
                                       /\ t.K.locals[k].ty = OwnType(t.own[j].got.res)
    BY <1>1, Zenon DEF Paired, Bare
  <2>2. PICK k \in DOMAIN t.K.locals : t.K.locals[k].x = x /\ t.K.locals[k].ty = OwnType(t.own[1].got.res)
    BY <1>2, <1>4, <2>1
  <2>3. \A j, l \in DOMAIN t.K.locals : t.K.locals[j].x = t.K.locals[l].x => j = l
    BY <1>1, Zenon DEF Scoped
  <2>4. OwnType(t.own[1].got.res) = "sock"
    BY <2>2, <2>3
  <2> QED
    BY <2>4 DEF OwnType
<1>7. t.own[1].got.obj = Object(t.own[1].got.obj.n)
  BY <1>5, <1>6 DEF GotOk
<1>8. /\ t.own[1].got.obj.n \in 0..(nxt - 1)
      /\ loc[i].n = t.own[1].got.obj.n
      /\ loc[i].kind = "moved" <=> t.own[1].got.res = "sockref" /\ t.own[1].got.obj.n \in rel
  BY <1>4, <1>6 DEF OwnedOk
<1>9. t.own[1].got.obj.n \notin rel
  BY <1>6, <1>8
<1> QED
  BY <1>2, <1>4, <1>6, <1>7, <1>8, <1>9 DEF Hands

(* What is held before and after.                                           *)
Releasing(t, h, rel, n) ==
  /\ h # <<>> /\ Head(h).res = "sockref" /\ Head(h).obj = Object(n)
  /\ Tail(h) = HeldBy(t.own, rel \cup {n})
LEMMA HandsRelease ==
  ASSUME NEW t, Good(t), NEW loc, NEW rel, NEW nxt, NEW x, NEW i, NEW n, Hands(t, loc, rel, nxt, x, i, n)
  PROVE  Releasing(t, HeldBy(t.own, rel), rel, n)
<1>1. t.own \in Seq(Frames) /\ Apart(t.own) /\ t.own # <<>>
  BY GoodParts DEF Hands
<1>2. PICK f, fs : f = Head(t.own) /\ fs = Tail(t.own)
  OBVIOUS
<1>3. f \in Frames /\ fs \in Seq(Frames) /\ f = t.own[1] /\ t.own = <<f>> \o fs
  BY <1>1, <1>2, Uncons
<1>4. f.got.res = "sockref" /\ f.got.obj = Object(n) /\ f.got.obj.n = n /\ n \notin rel
  BY <1>3 DEF Hands
<1>5. f.got \in Gots /\ f.at = "hold"
  <2>1. Mirrors(t.K, t.own) /\ 1 \in DOMAIN t.own
    BY <1>1, Uncons, GoodParts
  <2> QED
    BY <1>3, <2>1 DEF Mirrors, Frames
<1>6. Holds(f, rel) /\ ~Holds(f, rel \cup {n})
  BY <1>4, <1>5 DEF Holds
<1>7. Foreign(fs, n)
  <2>1. SUFFICES ASSUME NEW j \in DOMAIN fs, fs[j].got.res = "sockref", fs[j].got.obj.n = n PROVE FALSE
    BY DEF Foreign
  <2>2. j + 1 \in DOMAIN t.own /\ fs[j] = t.own[j + 1] /\ 1 \in DOMAIN t.own
    BY <1>1, <1>2, Uncons, SMTT(60)
  <2>3. j + 1 = 1
    BY <1>1, <1>3, <1>4, <2>1, <2>2 DEF Apart
  <2>4. j \in 1..Len(fs) /\ Len(fs) \in Nat
    BY <1>3
  <2> QED
    BY <2>3, <2>4
<1>8. PICK h : h = HeldBy(t.own, rel) /\ h = <<f.got>> \o HeldBy(fs, rel)
  BY <1>3, <1>6, HeldByCons, ZenonT(60)
<1>9. HeldBy(t.own, rel \cup {n}) = HeldBy(fs, rel)
  <2>1. HeldBy(t.own, rel \cup {n}) = HeldBy(fs, rel \cup {n})
    <3>1. PICK r : r = rel \cup {n}
      OBVIOUS
    <3>2. ~Holds(f, r)
      BY <1>6, <3>1
    <3>3. HeldBy(<<f>> \o fs, r) = HeldBy(fs, r)
      BY <1>3, <3>2, HeldByCons
    <3> QED
      BY <1>3, <3>1, <3>3
  <2>2. HeldBy(fs, rel \cup {n}) = HeldBy(fs, rel)
    BY <1>3, <1>7, HeldByForeign
  <2> QED
    BY <2>1, <2>2
<1>10. HeldBy(fs, rel) \in Seq(Gots)
  BY <1>3, HeldByTyped
<1>11. h # <<>> /\ Head(h) = f.got /\ Tail(h) = HeldBy(fs, rel)
  BY <1>5, <1>8, <1>10, ConsParts
<1> QED
  BY <1>4, <1>8, <1>9, <1>11 DEF Releasing

(* The checker takes a sink of the innermost hold's socket only, and of one *)
(* no name derives from.                                                    *)
LEMMA SinkAccepted ==
  ASSUME NEW t, NEW s, Starts(t, s), s.op = "give", NEW G, G = Step(t.n, t.K, t.G, s)
  PROVE  /\ s.x = OwnerOf(t.K) /\ SinkTakes(t.K, s.x)
         /\ InScope(t.K, s.x) /\ s.x \notin t.G.dead \cup t.G.moved
         /\ G.moved = t.G.moved \cup {s.x} /\ G.dead = t.G.dead /\ G.bottom = t.G.bottom
<1>1. s.x = OwnerOf(t.K)
  BY DEF Starts, PlainStmt
<1>2. Mentions(s) = {s.x} /\ Moves(s) = {s.x} /\ ~Resizes(s)
  BY DEF Mentions, Moves, Resizes
<1>3. /\ \A x \in Mentions(s) : InScope(t.K, x)
      /\ Mentions(s) \cap (t.G.dead \cup t.G.moved) = {}
  BY Accepted
<1>4. G = CheckBody(RulesAt(t.n), t.K, Entering(t.K, t.G, s), s) /\ G.ok
  BY Accepted
<1>5. PICK M : M = Entering(t.K, t.G, s)
  OBVIOUS
<1>6. G = IF SinkTakes(t.K, s.x) THEN M ELSE Refused
  BY <1>4, <1>5 DEF CheckBody
<1>7. ~Refused.ok
  BY DEF Refused, Facts0
<1>8. SinkTakes(t.K, s.x) /\ G = M
  BY <1>4, <1>6, <1>7
<1>9. /\ M.moved = t.G.moved \cup Moves(s) /\ M.bottom = t.G.bottom
      /\ M.dead = t.G.dead \cup (IF Resizes(s) THEN ViewsInScope(t.K) ELSE {})
  <2>1. t.n \in Nat /\ t.K \in Contexts /\ t.G \in FactSets /\ s \in Stmts(t.n)
    BY Accepted
  <2> QED
    BY <1>5, <2>1, EnteringParts
<1> QED
  BY <1>1, <1>2, <1>3, <1>8, <1>9

(* The store after the move.                                                *)
LEMMA MovedStore ==
  ASSUME NEW K \in Contexts, Scoped(K), NEW lay, NEW base \in Nat, NEW moved, NEW live,
         StoreOk(locals, lay, K, base, moved, live), NEW i \in DOMAIN K.locals, K.locals[i].ty = "sock",
         NEW x, x = K.locals[i].x, NEW loc, loc = Rebound(x)
  PROVE  StoreOk(loc, lay, K, base, moved \cup {x}, live)
<1>1. /\ locals \in Seq(Bindings) /\ Len(locals) = Len(K.locals) + base
      /\ DOMAIN K.locals \subseteq DOMAIN locals
  BY StoreTyped
<1>2. loc \in Seq(Bindings) /\ Len(loc) = Len(locals) /\ DOMAIN loc = DOMAIN locals
  BY <1>1, Rebinds
<1>3. \A k \in DOMAIN locals :
        /\ loc[k].x = locals[k].x /\ loc[k].n = locals[k].n
        /\ locals[k].x = x => loc[k].kind = "moved"
        /\ locals[k].x # x => loc[k] = locals[k]
  BY <1>1, Rebinds
<1>4. ASSUME NEW k \in DOMAIN K.locals
      PROVE  /\ loc[k].x = K.locals[k].x
             /\ HoldsAs(loc[k], K.locals[k].ty, lay, K.locals[k].x \in moved \cup {x}, K.locals[k].x \in live)
  <2>1. /\ locals[k].x = K.locals[k].x /\ k \in DOMAIN locals
        /\ HoldsAs(locals[k], K.locals[k].ty, lay, K.locals[k].x \in moved, K.locals[k].x \in live)
    BY <1>1 DEF StoreOk
  <2>2. CASE K.locals[k].x = x
    <3>1. k = i
      BY <2>2, Zenon DEF Scoped
    <3>2. K.locals[k].ty = "sock" /\ loc[k].kind = "moved"
      BY <1>3, <2>1, <2>2, <3>1
    <3> QED
      BY <1>3, <2>1, <2>2, <3>2 DEF HoldsAs
  <2>3. CASE K.locals[k].x # x
    <3>1. loc[k] = locals[k]
      BY <1>3, <2>1, <2>3
    <3> QED
      BY <2>1, <3>1 DEF HoldsAs
  <2> QED
    BY <2>2, <2>3
<1>5. \A k \in DOMAIN loc : k \notin DOMAIN K.locals => loc[k].kind # "cast"
  <2>1. \A k \in DOMAIN locals : k \notin DOMAIN K.locals => locals[k].kind # "cast"
    BY DEF StoreOk
  <2> QED
    BY <1>2, <1>3, <2>1
<1> QED
  BY <1>1, <1>2, <1>4, <1>5 DEF StoreOk

LEMMA MovedCasts ==
  ASSUME NEW K \in Contexts, Scoped(K), NEW lay, NEW base \in Nat, NEW moved, NEW live,
         StoreOk(locals, lay, K, base, moved, live), CastsOk(locals, K),
         NEW x, SinkTakes(K, x), NEW loc, loc = Rebound(x)
  PROVE  CastsOk(loc, K)
<1>1. /\ locals \in Seq(Bindings) /\ DOMAIN K.locals \subseteq DOMAIN locals
      /\ \A k \in DOMAIN K.locals : locals[k].x = K.locals[k].x
  BY StoreTyped DEF StoreOk
<1>2. \A k \in DOMAIN locals :
        /\ loc[k].of = locals[k].of
        /\ locals[k].x # x => loc[k] = locals[k]
  BY <1>1, Rebinds
<1>3. \A d \in K.derived : d[2] # x
  BY DEF SinkTakes
<1>4. SUFFICES ASSUME NEW i \in DOMAIN K.locals, K.locals[i].ty = "cast" PROVE Guarded(loc, K, i)
  BY DEF CastsOk
<1>5. Guarded(locals, K, i)
  BY <1>4 DEF CastsOk
<1>6. PICK j \in DOMAIN K.locals :
        /\ i < j /\ K.locals[j].ty = "sock" /\ locals[j].kind = "own" /\ locals[j].n = locals[i].of
        /\ \E d \in K.derived : d[2] = K.locals[j].x /\ \E k \in i..(j - 1) : K.locals[k].x = d[1]
  BY <1>5 DEF Guarded
<1>7. K.locals[j].x # x
  BY <1>3, <1>6
<1>8. loc[j] = locals[j] /\ loc[i].of = locals[i].of
  BY <1>1, <1>2, <1>6, <1>7
<1> QED
  BY <1>6, <1>8 DEF Guarded

LEMMA MovedOwned ==
  ASSUME NEW t, Good(t), NEW lay, NEW base \in Nat, NEW moved, NEW live,
         StoreOk(locals, lay, t.K, base, moved, live), NEW rel, NEW nxt, OwnedOk(locals, rel, nxt, t.K, t.own),
         NEW x, NEW i, NEW n, Hands(t, locals, rel, nxt, x, i, n), NEW loc, loc = Rebound(x)
  PROVE  OwnedOk(loc, rel \cup {n}, nxt, t.K, t.own)
<1>1. /\ t.K \in Contexts /\ Scoped(t.K) /\ Apart(t.own) /\ Paired(t.K, t.own) /\ t.own \in Seq(Frames)
  BY GoodParts
<1>2. /\ locals \in Seq(Bindings) /\ DOMAIN t.K.locals \subseteq DOMAIN locals
      /\ \A k \in DOMAIN t.K.locals : locals[k].x = t.K.locals[k].x
  BY <1>1, StoreTyped DEF StoreOk
<1>3. \A k \in DOMAIN locals :
        /\ loc[k].n = locals[k].n
        /\ locals[k].x = x => loc[k].kind = "moved"
        /\ locals[k].x # x => loc[k] = locals[k]
  BY <1>2, Rebinds
<1>4. /\ t.own[1].x = x /\ t.own[1].got.res = "sockref" /\ t.own[1].got.obj.n = n /\ 1 \in DOMAIN t.own
      /\ ~Bare(x) /\ i \in DOMAIN t.K.locals /\ t.K.locals[i].x = x /\ locals[i].n = n /\ t.K.locals[i].ty = "sock"
  BY <1>1, Uncons DEF Hands
<1>5. \A j, k \in DOMAIN t.K.locals : t.K.locals[j].x = t.K.locals[k].x => j = k
  BY <1>1, Zenon DEF Scoped
<1>6. SUFFICES ASSUME NEW j \in DOMAIN t.own
               PROVE  /\ t.own[j].got.res = "sockref" => t.own[j].got.obj.n \in 0..(nxt - 1)
                      /\ \A k \in DOMAIN t.K.locals : t.K.locals[k].x = t.own[j].x =>
                           /\ loc[k].n = t.own[j].got.obj.n
                           /\ loc[k].kind = "moved"
                                <=> t.own[j].got.res = "sockref" /\ t.own[j].got.obj.n \in rel \cup {n}
  BY DEF OwnedOk
<1>7. t.own[j].got.res = "sockref" => t.own[j].got.obj.n \in 0..(nxt - 1)
  BY DEF OwnedOk
<1>8. ASSUME NEW k \in DOMAIN t.K.locals, t.K.locals[k].x = t.own[j].x
      PROVE  /\ loc[k].n = t.own[j].got.obj.n
             /\ loc[k].kind = "moved"
                  <=> t.own[j].got.res = "sockref" /\ t.own[j].got.obj.n \in rel \cup {n}
  <2>1. /\ locals[k].n = t.own[j].got.obj.n
        /\ locals[k].kind = "moved" <=> t.own[j].got.res = "sockref" /\ t.own[j].got.obj.n \in rel
    BY <1>8 DEF OwnedOk
  <2>2. loc[k].n = t.own[j].got.obj.n
    BY <1>2, <1>3, <2>1
  <2>3. CASE t.own[j].x = x
    <3>1. k = i
      BY <1>4, <1>5, <1>8, <2>3
    <3>2. t.own[j].got.obj.n = n
      BY <1>4, <2>1, <3>1
    <3>3. t.own[j].got.res = "sockref"
      <4>1. \A m \in DOMAIN t.own : ~Bare(t.own[m].x) =>
              \E l \in DOMAIN t.K.locals : t.K.locals[l].x = t.own[m].x
                                           /\ t.K.locals[l].ty = OwnType(t.own[m].got.res)
        BY <1>1, Zenon DEF Paired, Bare
      <4>2. PICK l \in DOMAIN t.K.locals : t.K.locals[l].x = x /\ t.K.locals[l].ty = OwnType(t.own[j].got.res)
        BY <1>4, <2>3, <4>1
      <4>3. OwnType(t.own[j].got.res) = "sock"
        BY <1>4, <1>5, <4>2
      <4> QED
        BY <4>3 DEF OwnType
    <3>4. loc[k].kind = "moved"
      BY <1>2, <1>3, <1>4, <3>1
    <3> QED
      BY <2>2, <3>2, <3>3, <3>4
  <2>4. CASE t.own[j].x # x
    <3>1. loc[k] = locals[k]
      BY <1>2, <1>3, <1>8, <2>4
    <3>2. ~(t.own[j].got.res = "sockref" /\ t.own[j].got.obj.n = n)
      BY <1>1, <1>4, <2>4 DEF Apart
    <3> QED
      BY <2>1, <3>1, <3>2
  <2> QED
    BY <2>3, <2>4
<1> QED
  BY <1>7, <1>8

LEMMA GiveFits ==
  ASSUME NEW t, NEW s, Starts(t, s), s.op = "give", Good(t), NEW G, G = Step(t.n, t.K, t.G, s), ~t.G.bottom,
         NEW a, a.K = t.K, a.G = G, a.own = t.own, NEW nxt, NEW rel, NEW h, Base \in Nat,
         Fits(t, locals, layout, nxt, rel, h, "normal", Base)
  PROVE  \E i, n : /\ Hands(t, locals, rel, nxt, s.x, i, n) /\ Local(s.x) = locals[i]
                   /\ Fits(a, Rebound(s.x), layout, nxt, rel \cup {n}, Tail(h), "normal", Base)
<1>1. /\ s.x = OwnerOf(t.K) /\ SinkTakes(t.K, s.x)
      /\ InScope(t.K, s.x) /\ s.x \notin t.G.dead \cup t.G.moved
      /\ G.moved = t.G.moved \cup {s.x} /\ G.dead = t.G.dead /\ G.bottom = t.G.bottom
  BY SinkAccepted
<1>2. PICK x : x = s.x
  OBVIOUS
<1>3. PlaceOf(t, x)
  <2>1. InScope(t.K, x) /\ x \notin t.G.dead \cup t.G.moved
    BY <1>1, <1>2
  <2> QED
    BY <2>1, MentionedPlace
<1>4. PICK i \in DOMAIN t.K.locals :
        /\ t.K.locals[i].x = x /\ i \in DOMAIN locals /\ Local(x) = locals[i] /\ locals[i] \in Bindings
        /\ HoldsAs(locals[i], t.K.locals[i].ty, layout, FALSE, TRUE)
  BY <1>3 DEF PlaceOf
<1>5. t.K \in Contexts /\ Scoped(t.K)
  BY GoodParts
<1>6. t.K.locals[i].ty = "sock"
  <2>1. TypeOf(t.K, t.K.locals[i].x) = t.K.locals[i].ty
    BY <1>5, TypeIs
  <2> QED
    BY <1>1, <1>2, <1>4, <2>1 DEF SinkTakes
<1>7. locals[i].kind = "own"
  BY <1>4, <1>6 DEF HoldsAs
<1>8. /\ StoreOk(locals, layout, t.K, Base, MovedBy(t, "normal"), LiveBy(t, "normal"))
      /\ CastsOk(locals, t.K) /\ OwnedOk(locals, rel, nxt, t.K, t.own) /\ h = HeldBy(t.own, rel)
  BY DEF Fits
<1>9. PICK n : n = locals[i].n
  OBVIOUS
<1>10. Hands(t, locals, rel, nxt, x, i, n)
  <2>1. x = OwnerOf(t.K)
    BY <1>1, <1>2
  <2> QED
    BY <1>4, <1>6, <1>7, <1>8, <1>9, <2>1, OwnerHands
<1>11. PICK loc : loc = Rebound(x)
  OBVIOUS
<1>12. StoreOk(loc, layout, t.K, Base, t.G.moved \cup {x}, NamesOf(t.K) \ t.G.dead)
  <2>1. StoreOk(locals, layout, t.K, Base, t.G.moved, NamesOf(t.K) \ t.G.dead)
    BY <1>8 DEF MovedBy, LiveBy
  <2>2. x = t.K.locals[i].x
    BY <1>4
  <2> QED
    BY <1>5, <1>6, <1>11, <2>1, <2>2, MovedStore
<1>13. StoreOk(loc, layout, a.K, Base, MovedBy(a, "normal"), LiveBy(a, "normal"))
  <2>1. MovedBy(a, "normal") = t.G.moved \cup {x}
    BY <1>1, <1>2 DEF MovedBy
  <2>2. LiveBy(a, "normal") = NamesOf(t.K) \ t.G.dead
    BY <1>1 DEF LiveBy
  <2> QED
    BY <1>12, <2>1, <2>2
<1>14. CastsOk(loc, a.K)
  <2>1. SinkTakes(t.K, x)
    BY <1>1, <1>2
  <2>2. CastsOk(loc, t.K)
    BY <1>5, <1>8, <1>11, <2>1, MovedCasts
  <2> QED
    BY <2>2
<1>15. OwnedOk(loc, rel \cup {n}, nxt, a.K, a.own)
  <2>1. OwnedOk(loc, rel \cup {n}, nxt, t.K, t.own)
    BY <1>8, <1>10, <1>11, MovedOwned
  <2> QED
    BY <2>1
<1>16. Tail(h) = HeldBy(a.own, rel \cup {n})
  <2>1. Tail(h) = HeldBy(t.own, rel \cup {n})
    <3>1. Releasing(t, HeldBy(t.own, rel), rel, n)
      BY <1>10, HandsRelease
    <3> QED
      BY <1>8, <3>1 DEF Releasing
  <2> QED
    BY <2>1
<1>17. OutOk(a, "normal")
  BY <1>1 DEF OutOk
<1>18. Fits(a, loc, layout, nxt, rel \cup {n}, Tail(h), "normal", Base)
  BY <1>13, <1>14, <1>15, <1>16, <1>17 DEF Fits
<1> QED
  BY <1>2, <1>4, <1>10, <1>11, <1>18

LEMMA GiveKeeps == ASSUME IInv, ExecGive PROVE IInv'
<1>1. Runs("give")
  BY DEF ExecGive
<1>2. PICK T, t, s, G, a, U : AtStmt(T, t, s, G, a, U) /\ s.op = "give"
  BY <1>1, AtStatement
<1>3. /\ Starts(t, s) /\ Good(t) /\ World /\ s = Stmt /\ G = Step(t.n, t.K, t.G, s) /\ ~t.G.bottom
      /\ a.K = t.K /\ a.G = G /\ a.own = t.own /\ Base \in Nat /\ nextId \in Nat
      /\ Fits(t, locals, layout, nextId, Released, held, "normal", Base)
      /\ RunInv(T) /\ phase \in {"body", "handler"} /\ out = "normal"
      /\ Advance = Advancing(ctl) /\ Advance \in Seq(Frames)
      /\ Stacked(Advancing(ctl), U, Base) /\ U[1] = a /\ U[Len(U)] = T[Len(T)]
  BY <1>2 DEF AtStmt, Begun, World
<1>4. PICK i, n : /\ Hands(t, locals, Released, nextId, s.x, i, n) /\ Local(s.x) = locals[i]
                  /\ Fits(a, Rebound(s.x), layout, nextId, Released \cup {n}, Tail(held), "normal", Base)
  BY <1>2, <1>3, GiveFits, ZenonT(60)
<1>5. locals[i].kind = "own" /\ locals[i].n = n /\ n \in 0..(nextId - 1)
  BY <1>4 DEF Hands
<1>6. SkRelease(n) /\ locals' = Rebound(s.x) /\ Goto(<<>>)
  <2>1. Local(Stmt.x) = locals[i] /\ s.x = Stmt.x
    BY <1>3, <1>4
  <2> QED
    BY <1>5, <2>1 DEF ExecGive
<1>7. ~ForbidsCall({"sockref"})
  <2>1. "call" \in Effects(s)
    BY <1>2 DEF Effects
  <2> QED
    BY <1>2, <2>1, MayCall
<1>8. Innermost("sockref", Object(n))
  <2>1. held = HeldBy(t.own, Released)
    BY <1>3 DEF Fits
  <2>2. held # <<>> /\ Head(held).res = "sockref" /\ Head(held).obj = Object(n)
    <3>1. Releasing(t, HeldBy(t.own, Released), Released, n)
      BY <1>3, <1>4, HandsRelease
    <3> QED
      BY <2>1, <3>1 DEF Releasing
  <2> QED
    BY <2>2 DEF Innermost
<1>9. WorldTo(Released \cup {n}, Tail(held), layout, nextId)
  BY <1>3, <1>5, <1>6, <1>7, <1>8, SocketReleased
<1>10. /\ ctl' = Advancing(ctl) /\ UNCHANGED <<phase, prog, out>>
  BY <1>3, <1>6, NoFrames DEF Goto
<1>11. Stacked(ctl', U, Base)
  BY <1>3, <1>10
<1>12. Fits(U[1], locals', layout, nextId, Released \cup {n}, Tail(held), out', Base)
  BY <1>3, <1>4, <1>6, <1>10
<1> QED
  BY <1>3, <1>9, <1>10, <1>11, <1>12, Resumed
-----------------------------------------------------------------------------
(* Holds.                                                                   *)

(* The frame f of a hold that took what it names, numbered nxt if it names  *)
(* anything, and the store with that name.                                  *)
TookAs(t, s, f, rel, nxt, nxt2) ==
  /\ Takes(t, s, f) /\ nxt \in Nat /\ nxt2 \in Nat /\ nxt =< nxt2 /\ nxt \notin rel
  /\ Yields(s.r) => f.got.obj.n = nxt /\ nxt \in 0..(nxt2 - 1)
Named1(s, nxt, loc, loc2) ==
  \/ Bare(s.x) /\ loc2 = loc
  \/ ~Bare(s.x) /\ \E b \in Bindings : b.x = s.x /\ b.kind = "own" /\ b.n = nxt /\ loc2 = <<b>> \o loc

LEMMA HoldParts ==
  ASSUME NEW t, NEW s, Starts(t, s), s.op = "hold"
  PROVE  /\ s.x \in STRING /\ s.x \in Labels /\ s.r \in STRING /\ s.op \in Compound
         /\ Yields(s.r) <=> ~Bare(s.x)
         /\ CanFail(s.r) => s.e # <<>>
         /\ CheckNesting(t.K, s.r) /\ CheckHeld(t.K, s)
         /\ t.K \in Contexts /\ Good(t)
<1>1. s.x \in STRING /\ s.r \in STRING /\ HoldOk(RulesAt(t.n), t.K, s) /\ CheckHeld(t.K, s)
  BY HoldChecked
<1>2. Yields(s.r) <=> ~Bare(s.x)
  BY <1>1, Zenon DEF HoldOk, Bare
<1>3. (CanFail(s.r) => s.e # <<>>) /\ CheckNesting(t.K, s.r)
  BY <1>1, Zenon DEF HoldOk
<1>4. t.K \in Contexts /\ Good(t) /\ s.op \in Compound
  BY GoodParts DEF Starts, Compound
<1>5. s.x \in Labels
  BY <1>1 DEF Labels
<1> QED
  BY <1>1, <1>2, <1>3, <1>4, <1>5

LEMMA WidenedLocals ==
  ASSUME NEW K, NEW L, NEW x, NEW ty, Widened(K, L, x, ty)
  PROVE  /\ x \notin NamesOf(K)
         /\ Bare(x) => L.locals = K.locals
         /\ ~Bare(x) => L.locals = <<[x |-> x, ty |-> ty]>> \o K.locals
<1>1. x \notin NamesOf(K)
  BY DEF Widened
<1>2. Bare(x) => L.locals = K.locals
  BY Zenon DEF Widened, Bare
<1>3. ~Bare(x) => L.locals = <<[x |-> x, ty |-> ty]>> \o K.locals
  BY Zenon DEF Widened, Bare
<1> QED
  BY <1>1, <1>2, <1>3

(* What a frame f at the head of the owners adds to what is asked of them.  *)
FreshIn(f, loc, L, rel, nxt) ==
  /\ f.got.res = "sockref" => f.got.obj.n \in 0..(nxt - 1) /\ f.got.obj.n \notin rel
  /\ \A i \in DOMAIN L.locals : L.locals[i].x = f.x => loc[i].n = f.got.obj.n /\ loc[i].kind # "moved"
LEMMA OwnedTaken ==
  ASSUME NEW L, NEW loc, NEW rel, NEW nxt, NEW own \in Seq(Frames), OwnedOk(loc, rel, nxt, L, own),
         NEW f \in Frames, FreshIn(f, loc, L, rel, nxt)
  PROVE  OwnedOk(loc, rel, nxt, L, <<f>> \o own)
<1>1. PICK q : q = <<f>> \o own
  OBVIOUS
<1>2. Extends(q, f, own)
  BY <1>1, ConsExtends
<1>3. SUFFICES ASSUME NEW j \in DOMAIN q
               PROVE  /\ q[j].got.res = "sockref" => q[j].got.obj.n \in 0..(nxt - 1)
                      /\ \A i \in DOMAIN L.locals : L.locals[i].x = q[j].x =>
                           /\ loc[i].n = q[j].got.obj.n
                           /\ loc[i].kind = "moved" <=> q[j].got.res = "sockref" /\ q[j].got.obj.n \in rel
  BY <1>1 DEF OwnedOk
<1> HIDE <1>1
<1>4. CASE j = 1
  <2>1. q[j] = f
    BY <1>2, <1>4 DEF Extends
  <2> QED
    BY <2>1 DEF FreshIn
<1>5. CASE j # 1
  <2>1. \E k \in DOMAIN own : q[j] = own[k]
    BY <1>2, <1>3, <1>5 DEF Extends
  <2> QED
    BY <2>1 DEF OwnedOk
<1> QED
  BY <1>4, <1>5

(* A binding owned under the name x, which the scope K opens to L with.     *)
LEMMA StoreNamed ==
  ASSUME NEW K \in Contexts, NEW L \in Contexts, NEW x \in STRING, ~Bare(x), NEW ty \in {"sock", "rec"},
         Widened(K, L, x, ty), L.derived = K.derived,
         NEW loc, NEW lay, NEW base \in Nat, NEW moved, NEW dead,
         StoreOk(loc, lay, K, base, moved, NamesOf(K) \ dead), CastsOk(loc, K),
         NEW b \in Bindings, b.x = x, b.kind = "own"
  PROVE  /\ StoreOk(<<b>> \o loc, lay, L, base, moved, NamesOf(L) \ dead)
         /\ CastsOk(<<b>> \o loc, L)
<1>1. PICK e : e = [x |-> x, ty |-> ty]
  OBVIOUS
<1>2. e \in [x : STRING, ty : Types] /\ e.x = x /\ e.ty = ty
  BY <1>1 DEF Types
<1>3. L.locals = <<e>> \o K.locals
  BY <1>1, WidenedLocals
<1> HIDE <1>1
<1>4. StoreOk(loc, lay, K, base, moved, NamesOf(L) \ dead)
  <2>1. NamesOf(L) = NamesOf(K) \cup Named(x) /\ x \notin NamesOf(K)
    <3>1. ty \in Types
      BY DEF Types
    <3> QED
      BY <3>1, WiderNames, WidenedLocals
  <2>2. PICK lv, kv : lv = NamesOf(L) \ dead /\ kv = NamesOf(K) \ dead
    OBVIOUS
  <2>3. lv \cap NamesOf(K) \subseteq kv /\ StoreOk(loc, lay, K, base, moved, kv)
    BY <2>2
  <2>4. moved \cap NamesOf(K) \subseteq moved
    OBVIOUS
  <2>5. StoreOk(loc, lay, K, base, moved, lv)
    BY <2>3, <2>4, StoreWeaker
  <2> QED
    BY <2>2, <2>5
<1>5. HoldsAs(b, e.ty, lay, e.x \in moved, e.x \in NamesOf(L) \ dead)
  BY <1>2 DEF HoldsAs
<1>6. StoreOk(<<b>> \o loc, lay, L, base, moved, NamesOf(L) \ dead)
  <2>1. b.x = e.x
    BY <1>2
  <2> QED
    BY <1>2, <1>3, <1>4, <1>5, <2>1, StorePushed
<1>7. loc \in Seq(Bindings) /\ DOMAIN K.locals \subseteq DOMAIN loc
  BY StoreTyped
<1>8. CastsOk(<<b>> \o loc, L)
  <2>1. e.ty # "cast"
    BY <1>2
  <2>2. K.derived \subseteq L.derived
    OBVIOUS
  <2> QED
    BY <1>2, <1>3, <1>7, <2>1, <2>2, CastsPushed
<1> QED
  BY <1>6, <1>8

(* The owners' part: the socket or record just taken, and what is held.     *)
LEMMA OwnedNamed ==
  ASSUME NEW t, Good(t), NEW s, s.x \in STRING, ~Bare(s.x), NEW L \in Contexts, NEW ty \in {"sock", "rec"},
         Widened(t.K, L, s.x, ty),
         NEW rel, NEW nxt, NEW nxt2, NEW f, TookAs(t, s, f, rel, nxt, nxt2), Yields(s.r),
         NEW loc \in Seq(Bindings), DOMAIN t.K.locals \subseteq DOMAIN loc, OwnedOk(loc, rel, nxt, t.K, t.own),
         NEW b \in Bindings, b.kind = "own", b.n = nxt
  PROVE  OwnedOk(<<b>> \o loc, rel, nxt2, L, <<f>> \o t.own)
<1>1. /\ t.K \in Contexts /\ t.own \in Seq(Frames) /\ Paired(t.K, t.own)
      /\ f \in Frames /\ f.x = s.x /\ f.got.obj.n = nxt /\ nxt \in 0..(nxt2 - 1) /\ nxt \notin rel
      /\ nxt \in Nat /\ nxt2 \in Nat /\ nxt =< nxt2
  BY GoodParts DEF TookAs, Takes
<1>2. PICK e : e = [x |-> s.x, ty |-> ty]
  OBVIOUS
<1>3. e \in [x : STRING, ty : Types] /\ e.x = s.x
  BY <1>2 DEF Types
<1>4. L.locals = <<e>> \o t.K.locals /\ s.x \notin NamesOf(t.K)
  BY <1>2, WidenedLocals
<1> HIDE <1>2
<1>5. PICK q : q = <<b>> \o loc
  OBVIOUS
<1>6. OwnedOk(q, rel, nxt2, L, t.own)
  <2>1. \A j \in DOMAIN t.own : t.own[j].x # e.x
    BY <1>1, <1>3, <1>4, OwnNames
  <2>2. OwnedOk(<<b>> \o loc, rel, nxt2, L, t.own)
    BY <1>1, <1>3, <1>4, <2>1, OwnedPushed
  <2> QED
    BY <1>5, <2>2
<1>7. FreshIn(f, q, L, rel, nxt2)
  <2>1. Extends(q, b, loc)
    BY <1>5, ConsExtends
  <2>2. Extends(L.locals, e, t.K.locals)
    BY <1>1, <1>3, <1>4, LocalsExtend
  <2>3. ASSUME NEW i \in DOMAIN L.locals, L.locals[i].x = f.x
        PROVE  q[i].n = f.got.obj.n /\ q[i].kind # "moved"
    <3>1. i = 1
      <4>1. SUFFICES ASSUME i # 1 PROVE FALSE
        OBVIOUS
      <4>2. i - 1 \in DOMAIN t.K.locals /\ L.locals[i] = t.K.locals[i - 1]
        BY <2>2, <2>3, <4>1 DEF Extends
      <4>3. s.x \in NamesOf(t.K)
        BY <1>1, <2>3, <4>2 DEF NamesOf
      <4> QED
        BY <1>4, <4>3
    <3>2. q[1] = b
      BY <2>1 DEF Extends
    <3> QED
      BY <1>1, <3>1, <3>2
  <2> QED
    BY <1>1, <2>3 DEF FreshIn
<1>8. OwnedOk(q, rel, nxt2, L, <<f>> \o t.own)
  BY <1>1, <1>6, <1>7, OwnedTaken
<1> QED
  BY <1>5, <1>8

LEMMA OwnedUnnamed ==
  ASSUME NEW t, Good(t), NEW s, s.x \in STRING, Bare(s.x), NEW L \in Contexts, L.locals = t.K.locals,
         NEW rel, NEW nxt, NEW nxt2, NEW f, TookAs(t, s, f, rel, nxt, nxt2), ~Yields(s.r),
         NEW loc, OwnedOk(loc, rel, nxt, t.K, t.own)
  PROVE  OwnedOk(loc, rel, nxt2, L, <<f>> \o t.own)
<1>1. /\ t.K \in Contexts /\ t.own \in Seq(Frames) /\ Scoped(t.K)
      /\ f \in Frames /\ f.x = s.x /\ f.got.res = s.r
      /\ nxt \in Nat /\ nxt2 \in Nat /\ nxt =< nxt2
  BY GoodParts DEF TookAs, Takes
<1>2. OwnedOk(loc, rel, nxt2, L, t.own)
  BY <1>1 DEF OwnedOk
<1>3. FreshIn(f, loc, L, rel, nxt2)
  <2>1. f.got.res # "sockref"
    BY <1>1 DEF Yields
  <2>2. f.x \notin NamesOf(t.K)
    BY <1>1, Zenon DEF Scoped, Bare
  <2>3. \A i \in DOMAIN L.locals : L.locals[i].x # f.x
    BY <2>2 DEF NamesOf
  <2> QED
    BY <2>1, <2>3 DEF FreshIn
<1> QED
  BY <1>1, <1>2, <1>3, OwnedTaken

LEMMA HoldFits ==
  ASSUME NEW t, NEW s, Starts(t, s), s.op = "hold", ~t.G.bottom,
         NEW rel, NEW nxt, NEW nxt2, NEW f, TookAs(t, s, f, rel, nxt, nxt2),
         NEW c, HoldOpened(t, s, f, c),
         NEW loc, NEW lay, NEW h, NEW base \in Nat,
         Fits(t, loc, lay, nxt, rel, h, "normal", base), NEW loc2, Named1(s, nxt, loc, loc2)
  PROVE  Fits(c, loc2, lay, nxt2, rel, <<f.got>> \o h, "normal", base)
<1>1. /\ s.x \in STRING /\ s.r \in STRING /\ s.op \in Compound /\ (Yields(s.r) <=> ~Bare(s.x))
      /\ t.K \in Contexts /\ Good(t) /\ t.own \in Seq(Frames)
  BY HoldParts, GoodParts
<1>2. PICK M : M = Entering(t.K, t.G, s)
  OBVIOUS
<1>3. PICK L : L = c.K
  OBVIOUS
<1>4. /\ L \in Contexts /\ L.derived = t.K.derived /\ Widened(t.K, L, s.x, OwnType(s.r))
      /\ c.G = M /\ c.own = <<f>> \o t.own
  BY <1>2, <1>3 DEF HoldOpened
<1>5. nxt \in Nat /\ nxt2 \in Nat /\ nxt =< nxt2 /\ nxt \notin rel /\ f \in Frames /\ f.at = "hold"
  BY DEF TookAs, Takes
<1>6. M.bottom = t.G.bottom /\ M.moved = t.G.moved
  BY <1>1, <1>2, EntersKnown
<1>7. PICK d : d = Typing(t.n, t.K, M, t.live, t.own)
  OBVIOUS
<1>8. d.K = t.K /\ d.own = t.own /\ d.G = M
  BY <1>7 DEF Typing
<1> HIDE <1>7
<1>9. Fits(d, loc, lay, nxt, rel, h, "normal", base)
  <2>1. nxt =< nxt
    BY <1>5, SameNat
  <2> QED
    BY <1>1, <1>2, <1>5, <1>8, <2>1, EntryFits
<1> HIDE <1>2
<1>10. /\ StoreOk(loc, lay, t.K, base, M.moved, NamesOf(t.K) \ M.dead)
       /\ CastsOk(loc, t.K) /\ OwnedOk(loc, rel, nxt, t.K, t.own) /\ h = HeldBy(t.own, rel)
  BY <1>8, <1>9 DEF Fits, MovedBy, LiveBy
<1>11. OwnType(s.r) \in {"sock", "rec"}
  BY DEF OwnType
<1>12. /\ StoreOk(loc2, lay, L, base, M.moved, NamesOf(L) \ M.dead)
       /\ CastsOk(loc2, L) /\ OwnedOk(loc2, rel, nxt2, L, <<f>> \o t.own)
  <2>1. CASE Bare(s.x) /\ loc2 = loc
    <3>1. L.locals = t.K.locals
      BY <1>4, <2>1, WidenedLocals
    <3>2. OwnedOk(loc, rel, nxt2, L, <<f>> \o t.own)
      BY <1>1, <1>4, <1>10, <2>1, <3>1, OwnedUnnamed
    <3>3. CastsOk(loc, L)
      BY <1>4, <1>10, <3>1 DEF CastsOk, Guarded
    <3>4. StoreOk(loc, lay, L, base, M.moved, NamesOf(L) \ M.dead)
      <4>1. NamesOf(L) = NamesOf(t.K)
        BY <3>1 DEF NamesOf
      <4>2. StoreOk(loc, lay, L, base, M.moved, NamesOf(t.K) \ M.dead)
        BY <1>10, <3>1 DEF StoreOk
      <4> QED
        BY <4>1, <4>2
    <3> QED
      BY <2>1, <3>2, <3>3, <3>4
  <2>2. ASSUME ~Bare(s.x), NEW b \in Bindings, b.x = s.x, b.kind = "own", b.n = nxt, loc2 = <<b>> \o loc
        PROVE  /\ StoreOk(loc2, lay, L, base, M.moved, NamesOf(L) \ M.dead)
               /\ CastsOk(loc2, L) /\ OwnedOk(loc2, rel, nxt2, L, <<f>> \o t.own)
    <3>1. loc \in Seq(Bindings) /\ DOMAIN t.K.locals \subseteq DOMAIN loc
      BY <1>1, <1>10, StoreTyped
    <3>2. PICK x : x = s.x
      OBVIOUS
    <3>3. /\ x \in STRING /\ ~Bare(x) /\ Widened(t.K, L, x, OwnType(s.r)) /\ b.x = x
      BY <1>1, <1>4, <2>2, <3>2
    <3>4. StoreOk(<<b>> \o loc, lay, L, base, M.moved, NamesOf(L) \ M.dead) /\ CastsOk(<<b>> \o loc, L)
      BY <1>1, <1>4, <1>10, <1>11, <2>2, <3>3, StoreNamed
    <3>5. OwnedOk(<<b>> \o loc, rel, nxt2, L, <<f>> \o t.own)
      BY <1>1, <1>4, <1>10, <1>11, <2>2, <3>1, OwnedNamed
    <3> QED
      BY <2>2, <3>4, <3>5
  <2> QED
    BY <2>1, <2>2 DEF Named1
<1>13. <<f.got>> \o h = HeldBy(<<f>> \o t.own, rel)
  <2>1. Holds(f, rel)
    <3>1. f.got.res = "sockref" => f.got.obj.n = nxt
      BY DEF TookAs, Takes, Yields
    <3> QED
      BY <1>5, <3>1 DEF Holds
  <2>2. HeldBy(<<f>> \o t.own, rel) = <<f.got>> \o HeldBy(t.own, rel)
    BY <1>1, <1>5, <2>1, HeldByCons
  <2> QED
    BY <1>10, <2>2
<1>14. OutOk(c, "normal") /\ MovedBy(c, "normal") = M.moved /\ LiveBy(c, "normal") = NamesOf(L) \ M.dead
  BY <1>3, <1>4, <1>6 DEF OutOk, MovedBy, LiveBy
<1> QED
  BY <1>3, <1>4, <1>12, <1>13, <1>14 DEF Fits

LEMMA HoldLength ==
  ASSUME NEW t, NEW s, Starts(t, s), s.op = "hold", NEW base, NEW loc, SizedAs(loc, t.K, base), NEW nxt,
         NEW loc2, Named1(s, nxt, loc, loc2)
  PROVE  SizedAs(loc2, HoldContext(t.K, s), base)
<1>1. PICK L : L = HoldContext(t.K, s)
  OBVIOUS
<1>2. Widened(t.K, L, s.x, OwnType(s.r)) /\ s.x \in STRING /\ t.K \in Contexts
  BY <1>1, HoldChecked, HoldParts
<1>3. loc \in Seq(Bindings) /\ base \in Nat /\ Len(loc) = Len(t.K.locals) + base /\ Len(t.K.locals) \in Nat
  BY DEF SizedAs
<1>4. CASE Bare(s.x) /\ loc2 = loc
  <2>1. L.locals = t.K.locals
    BY <1>2, <1>4, WidenedLocals
  <2>2. SizedAs(loc2, L, base)
    BY <1>4, <2>1 DEF SizedAs
  <2> QED
    BY <1>1, <2>2
<1>5. ASSUME ~Bare(s.x), NEW b \in Bindings, loc2 = <<b>> \o loc
      PROVE  SizedAs(loc2, HoldContext(t.K, s), base)
  <2>1. PICK e : e = [x |-> s.x, ty |-> OwnType(s.r)]
    OBVIOUS
  <2>2. e \in [x : STRING, ty : Types]
    <3>1. OwnType(s.r) \in Types
      BY DEF OwnType, Types
    <3> QED
      BY <1>2, <2>1, <3>1
  <2>3. L.locals = <<e>> \o t.K.locals
    BY <1>2, <1>5, <2>1, WidenedLocals, SMTT(60)
  <2> HIDE <2>1
  <2>4. Len(L.locals) = Len(t.K.locals) + 1
    BY <1>2, <2>2, <2>3, LocalsPushed
  <2>5. Extends(loc2, b, loc) /\ loc2 \in Seq(Bindings)
    <3>1. Extends(loc2, b, loc)
      BY <1>3, <1>5, ConsExtends
    <3>2. loc2 \in Seq(Bindings)
      BY <1>3, <1>5, ConsParts
    <3> QED
      BY <3>1, <3>2
  <2>6. Len(loc2) = Len(loc) + 1
    BY <2>5 DEF Extends
  <2>7. SizedAs(loc2, L, base)
    BY <1>3, <2>4, <2>5, <2>6 DEF SizedAs
  <2> QED
    BY <1>1, <2>7
<1> QED
  BY <1>4, <1>5 DEF Named1

(* What an acquisition got and the step of a hold that got it.              *)
Acquires(s, g, nxt) ==
  /\ g \in Gots /\ g.res = s.r /\ GotOk(g) /\ nxt \in Nat /\ nextId =< nxt
  /\ Yields(s.r) => g.obj.n = nextId /\ nextId \in 0..(nxt - 1)
Holding(s, g) ==
  /\ locals' = WithBound(s.x, Binding(s.x, "own", nextId, -1)) /\ UNCHANGED <<phase, prog, out>>
  /\ ctl' = <<[Block(s.t) EXCEPT !.n = Len(locals')], HoldOf(s.x, g)>> \o Advance

LEMMA AcquiredFrame ==
  ASSUME NEW t, NEW s, Starts(t, s), s.op = "hold", NEW g, NEW nxt, Acquires(s, g, nxt),
         locals \in Seq(Bindings), nextId \in Nat, NEW rel, rel \subseteq 0..(nextId - 1),
         NEW h, NEW lay, NEW o, NEW base, Fits(t, locals, lay, nextId, rel, h, o, base),
         NEW f, f = HoldOf(s.x, g)
  PROVE  TookAs(t, s, f, rel, nextId, nxt) /\ f.n = Len(locals) /\ f.got = g
<1>1. g \in Gots /\ g.res = s.r /\ GotOk(g) /\ nxt \in Nat /\ nextId =< nxt
  BY DEF Acquires
<1>2. s.x \in Labels
  BY HoldParts
<1>3. f \in Frames /\ f.at = "hold" /\ f.x = s.x /\ f.got = g /\ f.n = Len(locals)
  BY <1>1, <1>2, HoldFrame
<1>4. f.got.res = "sockref" => Foreign(t.own, f.got.obj.n)
  <2> SUFFICES ASSUME s.r = "sockref" PROVE Foreign(t.own, f.got.obj.n)
    BY <1>1, <1>3
  <2>1. f.got.obj.n = nextId
    BY <1>3 DEF Acquires, Yields
  <2>2. \A j \in DOMAIN t.own : t.own[j].got.res = "sockref" => t.own[j].got.obj.n \in 0..(nextId - 1)
    BY DEF Fits, OwnedOk
  <2> QED
    BY <2>1, <2>2 DEF Foreign
<1>5. nextId \notin rel
  OBVIOUS
<1>6. Takes(t, s, f)
  BY <1>1, <1>3, <1>4 DEF Takes
<1> QED
  BY <1>1, <1>3, <1>5, <1>6 DEF TookAs, Acquires

LEMMA HoldTaken ==
  ASSUME NEW T, NEW t, NEW s, NEW G, NEW a, NEW U, AtStmt(T, t, s, G, a, U), s.op = "hold",
         NEW g, NEW nxt, Acquires(s, g, nxt), WorldTo(Released, <<g>> \o held, layout, nxt), Holding(s, g)
  PROVE  IInv'
<1>1. /\ RunInv(T) /\ Begun(ctl, T, Base, t, s, G, a, U) /\ Starts(t, s) /\ ~t.G.bottom
      /\ Advance = Advancing(ctl) /\ Advance \in Seq(Frames)
      /\ phase \in {"body", "handler"} /\ nextId \in Nat /\ out = "normal" /\ Base \in Nat
      /\ Fits(t, locals, layout, nextId, Released, held, "normal", Base)
      /\ locals \in Seq(Bindings) /\ Len(locals) = Len(t.K.locals) + Base
      /\ Released \subseteq 0..(nextId - 1)
  BY DEF AtStmt, Begun, World
<1>2. SizedAs(locals, t.K, Base)
  <2>1. Len(t.K.locals) \in Nat
    BY <1>1, HoldParts, LocalsTyped
  <2> QED
    BY <1>1, <2>1 DEF SizedAs
<1>3. s.t \in AnyBlock
  <2>1. t.n - 1 \in Nat /\ s.t \in Blocks[t.n - 1]
    BY <1>1, HoldChecked
  <2> QED
    BY <2>1, BlockOfLevel
<1>4. PICK loc2 : loc2 = locals'
  OBVIOUS
<1>5. PICK b : b = Binding(s.x, "own", nextId, -1)
  OBVIOUS
<1>6. b \in Bindings /\ b.x = s.x /\ b.kind = "own" /\ b.n = nextId
  <2>1. s.x \in Labels /\ nextId \in Int /\ -1 \in Int
    BY <1>1, HoldParts
  <2> QED
    BY <1>5, <2>1, BindingTyped
<1>7. /\ loc2 = WithBound(s.x, b) /\ UNCHANGED <<phase, prog, out>>
      /\ ctl' = <<BlockFor(s.t, Len(loc2)), HoldOf(s.x, g)>> \o Advance
  BY <1>4, <1>5 DEF Holding, BlockFor
<1> HIDE <1>5
<1>8. Named1(s, nextId, locals, loc2)
  <2>1. Bare(s.x) => loc2 = locals
    BY <1>7, Zenon DEF WithBound, Bare
  <2>2. ~Bare(s.x) => loc2 = <<b>> \o locals
    BY <1>7, Zenon DEF WithBound, Bare
  <2> QED
    BY <1>6, <2>1, <2>2 DEF Named1
<1>9. PICK m : m = Len(loc2)
  OBVIOUS
<1>10. m \in Nat /\ m = Len(HoldContext(t.K, s).locals) + Base
  <2>1. SizedAs(loc2, HoldContext(t.K, s), Base)
    BY <1>1, <1>2, <1>8, HoldLength
  <2> QED
    BY <1>9, <2>1 DEF SizedAs
<1>11. PICK f1 : f1 = BlockFor(s.t, m)
  OBVIOUS
<1>12. f1 \in Frames /\ f1.at = "block" /\ f1.rest = s.t /\ f1.n = Len(HoldContext(t.K, s).locals) + Base
  <2>1. f1 \in Frames /\ f1.at = "block" /\ f1.rest = s.t /\ f1.n = m
    BY <1>1, <1>3, <1>10, <1>11, BlockOver
  <2> QED
    BY <1>10, <2>1
<1>13. PICK f2 : f2 = HoldOf(s.x, g)
  OBVIOUS
<1>14. TookAs(t, s, f2, Released, nextId, nxt) /\ f2.n = Len(locals) /\ f2.got = g
  BY <1>1, <1>13, AcquiredFrame
<1>15. Takes(t, s, f2) /\ f2.n = Len(t.K.locals) + Base /\ f2 \in Frames
  BY <1>1, <1>14 DEF TookAs, Takes
<1>16. ctl' = <<f1>> \o (<<f2>> \o Advancing(ctl))
  <2>1. ctl' = <<f1, f2>> \o Advance
    BY <1>7, <1>9, <1>11, <1>13
  <2>2. Advance = Advancing(ctl) /\ Advance \in Seq(Frames) /\ f1 \in Frames /\ f2 \in Frames
    BY <1>1, <1>12, <1>15
  <2>3. <<f1, f2>> \o Advance = <<f1>> \o (<<f2>> \o Advance)
    BY <2>2, TwoFrames, SMTT(60)
  <2> QED
    BY <2>1, <2>2, <2>3
<1> HIDE <1>9, <1>11, <1>13
<1>17. PICK c, V : /\ HoldOpened(t, s, f2, c)
                   /\ Stacked(<<f1>> \o (<<f2>> \o Advancing(ctl)), V, Base)
                   /\ V[1] = c /\ V[Len(V)] = T[Len(T)]
  <2>1. Begun(ctl, T, Base, t, s, G, a, U)
    BY <1>1
  <2> QED
    BY <1>12, <1>15, <2>1, HoldEntered
<1>18. Fits(c, loc2, layout, nxt, Released, <<f2.got>> \o held, "normal", Base)
  BY <1>1, <1>8, <1>14, <1>17, HoldFits
<1>19. Fits(c, loc2, layout, nxt, Released, <<g>> \o held, "normal", Base)
  BY <1>14, <1>18
<1> QED
  BY <1>1, <1>4, <1>7, <1>16, <1>17, <1>19, Resumed

LEMMA GotParts ==
  ASSUME NEW r \in Resources, NEW o \in HeldObjs,
         r \in Scopes => o = NoObj, r \in {"ringbuf", "sockref"} => o = Object(o.n)
  PROVE  Got(r, o) \in Gots /\ GotOk(Got(r, o)) /\ Got(r, o).res = r /\ Got(r, o).obj = o
<1>1. Got(r, o) \in Gots /\ Got(r, o).res = r /\ Got(r, o).obj = o
  BY DEF Got, Gots
<1> QED
  BY <1>1 DEF GotOk

LEMMA ObjsTyped ==
  ASSUME NEW i \in Nat
  PROVE  NoObj \in HeldObjs /\ Slot(i) \in HeldObjs /\ Object(i) \in HeldObjs /\ Object(i).n = i
BY DEF NoObj, Slot, Object, HeldObjs

(* What is held after an acquisition: one more, or the same if it may fail. *)
AcquiredAs(s) ==
  \/ \E g, nxt : Acquires(s, g, nxt) /\ WorldTo(Released, <<g>> \o held, layout, nxt)
  \/ CanFail(s.r) /\ WorldTo(Released, held, layout, nextId)

LEMMA ScopeAcquired ==
  ASSUME World, NEW s, s.r \in Scopes, Enter(s.r)
  PROVE  AcquiredAs(s)
<1>1. s.r \in {"rcu", "preempt", "irq"} /\ s.r \in Resources /\ nextId \in Nat
  BY MachineAssumption DEF Resources, World
<1>2. CanPush(s.r)
  BY <1>1 DEF CanPush, MayNest
<1>3. PICK g : g = Got(s.r, NoObj)
  OBVIOUS
<1>4. g \in Gots /\ GotOk(g) /\ g.res = s.r
  <2>1. NoObj \in HeldObjs
    BY <1>1, ObjsTyped
  <2> QED
    BY <1>1, <1>3, <2>1, GotParts
<1>5. WorldTo(Released, <<g>> \o held, layout, nextId)
  BY <1>2, <1>3, Entered
<1>6. ~Yields(s.r) /\ nextId =< nextId
  BY <1>1 DEF Yields
<1>7. Acquires(s, g, nextId)
  BY <1>1, <1>4, <1>6 DEF Acquires
<1> QED
  BY <1>5, <1>7 DEF AcquiredAs

LEMMA LockAcquired ==
  ASSUME World, NEW s, s.r = "spinlock", Lock([num |-> 0]), \A i \in DOMAIN held : held[i].res # "spinlock"
  PROVE  AcquiredAs(s)
<1>1. s.r \in Resources /\ s.r \notin Scopes /\ nextId \in Nat
  BY MachineAssumption DEF Resources, World
<1>2. CanPush("spinlock")
  BY DEF CanPush
<1>3. PICK g : g = Got("spinlock", Slot(0))
  OBVIOUS
<1>4. g \in Gots /\ GotOk(g) /\ g.res = s.r
  <2>1. Slot(0) \in HeldObjs
    BY ObjsTyped
  <2> QED
    BY <1>1, <1>3, <2>1, GotParts
<1>5. WorldTo(Released, <<g>> \o held, layout, nextId)
  <2>1. PICK p : p = [num |-> 0]
    OBVIOUS
  <2>2. WorldTo(Released, <<Got("spinlock", Slot(p.num))>> \o held, layout, nextId)
    BY <1>2, <2>1, Locked
  <2>3. p.num = 0
    BY <2>1
  <2> QED
    BY <1>3, <2>2, <2>3
<1>6. ~Yields(s.r) /\ nextId =< nextId
  BY <1>1 DEF Yields
<1>7. Acquires(s, g, nextId)
  BY <1>1, <1>4, <1>6 DEF Acquires
<1> QED
  BY <1>5, <1>7 DEF AcquiredAs

LEMMA ObjectAcquires ==
  ASSUME nextId \in Nat, NEW s, s.r \in {"ringbuf", "sockref"}, NEW g, g = Got(s.r, Object(nextId))
  PROVE  Acquires(s, g, nextId + 1)
<1>1. s.r \in Resources /\ s.r \notin Scopes
  BY MachineAssumption DEF Resources
<1>2. Object(nextId) \in HeldObjs /\ Object(nextId).n = nextId
  BY ObjsTyped
<1>3. PICK o : o = Object(nextId)
  OBVIOUS
<1>4. o \in HeldObjs /\ o.n = nextId /\ o = Object(o.n)
  BY <1>2, <1>3
<1>5. g \in Gots /\ GotOk(g) /\ g.res = s.r /\ g.obj = o
  BY <1>1, <1>3, <1>4, GotParts
<1>6. nextId + 1 \in Nat /\ nextId =< nextId + 1 /\ nextId \in 0..((nextId + 1) - 1)
  OBVIOUS
<1> QED
  BY <1>4, <1>5, <1>6 DEF Acquires

LEMMA RecordAcquired ==
  ASSUME World, NEW s, s.r = "ringbuf", Reserve(1) \/ UNCHANGED vars
  PROVE  AcquiredAs(s)
<1>1. CASE Reserve(1)
  <2>1. WorldTo(Released, <<Got("ringbuf", Object(nextId))>> \o held, layout, nextId + 1)
    BY <1>1, Reserved
  <2>2. Acquires(s, Got("ringbuf", Object(nextId)), nextId + 1)
    BY ObjectAcquires DEF World
  <2> QED
    BY <2>1, <2>2 DEF AcquiredAs
<1>2. CASE UNCHANGED vars
  <2>1. UNCHANGED <<status, held, nextId, trace, layout>>
    BY <1>2 DEF vars, protocol, pktVars
  <2>2. WorldTo(Released, held, layout, nextId)
    BY <2>1, WorldKept
  <2> QED
    BY <2>2 DEF AcquiredAs, CanFail
<1> QED
  BY <1>1, <1>2

LEMMA SocketAcquired ==
  ASSUME World, NEW s, s.r = "sockref", SkLookup, ~ForbidsCall({})
  PROVE  AcquiredAs(s)
<1>1. CASE WorldTo(Released, <<Got("sockref", Object(nextId))>> \o held, layout, nextId + 1)
  <2>2. Acquires(s, Got("sockref", Object(nextId)), nextId + 1)
    BY ObjectAcquires DEF World
  <2> QED
    BY <1>1, <2>2 DEF AcquiredAs
<1>2. CASE WorldTo(Released, held, layout, nextId)
  BY <1>2 DEF AcquiredAs, CanFail
<1> QED
  BY <1>1, <1>2, LookedUp

LEMMA HoldKeeps == ASSUME IInv, ExecHold PROVE IInv'
<1>1. Runs("hold") /\ UNCHANGED <<phase, prog, out>>
  BY DEF ExecHold
<1>2. PICK T, t, s, G, a, U : AtStmt(T, t, s, G, a, U) /\ s.op = "hold"
  BY <1>1, AtStatement
<1>3. /\ Starts(t, s) /\ Good(t) /\ World /\ s = Stmt
      /\ Fits(t, locals, layout, nextId, Released, held, "normal", Base)
  BY <1>2 DEF AtStmt, Begun
<1>4. /\ CanFail(s.r) => s.e # <<>>
      /\ CheckNesting(t.K, s.r) /\ CheckHeld(t.K, s) /\ t.own \in Seq(Frames)
  BY <1>2, <1>3, HoldParts, GoodParts
<1>5. ~OpenBy(t.K.held)
  <2>1. "call" \in Effects(s)
    BY <1>2 DEF Effects
  <2> QED
    BY <1>4, <2>1, NothingOpen DEF HoldsCall
<1>6. (\A i \in DOMAIN held : held[i].res # "spinlock") /\ \A releases : ~ForbidsCall(releases)
  BY <1>3, <1>5, LockFree
<1>7. AcquiredAs(s)
  <2>1. Acquire(s.r)
    BY <1>3 DEF ExecHold
  <2>2. CASE s.r = "spinlock" /\ Lock([num |-> 0])
    BY <1>3, <1>6, <2>2, LockAcquired
  <2>3. CASE s.r \in Scopes /\ Enter(s.r)
    BY <1>3, <2>3, ScopeAcquired
  <2>4. CASE s.r = "ringbuf" /\ (Reserve(1) \/ UNCHANGED vars)
    BY <1>3, <2>4, RecordAcquired
  <2>5. CASE s.r = "sockref" /\ SkLookup
    BY <1>3, <1>6, <2>5, SocketAcquired
  <2> QED
    BY <2>1, <2>2, <2>3, <2>4, <2>5 DEF Acquire
<1>8. held \in Seq(Gots)
  BY <1>3, <1>4, HeldByTyped DEF Fits
<1>9. ASSUME NEW g, NEW nxt, Acquires(s, g, nxt), WorldTo(Released, <<g>> \o held, layout, nxt)
      PROVE  IInv'
  <2>1. held' = <<g>> \o held /\ g \in Gots
    BY <1>9 DEF WorldTo, Acquires
  <2>2. held' # held /\ Head(held') = g
    <3>1. Len(held') = Len(held) + 1 /\ Head(held') = g /\ Len(held) \in Nat
      BY <1>8, <2>1, ConsParts
    <3> QED
      BY <3>1
  <2>3. Holding(s, g)
    BY <1>1, <1>3, <2>2 DEF ExecHold, Holding
  <2> QED
    BY <1>2, <1>9, <2>3, HoldTaken
<1>10. CASE CanFail(s.r) /\ WorldTo(Released, held, layout, nextId)
  <2>1. held' = held
    BY <1>10 DEF WorldTo
  <2>2. ctl' = <<Block(s.e)>> \o Advance /\ locals' = locals
    BY <1>3, <2>1 DEF ExecHold, Missed
  <2>3. BranchOf(s, s.e)
    BY <1>2, <1>4, <1>10 DEF BranchOf
  <2> QED
    BY <1>1, <1>2, <1>10, <2>2, <2>3, Branched
<1> QED
  BY <1>7, <1>9, <1>10 DEF AcquiredAs
-----------------------------------------------------------------------------
(* Ends of frames: the frame fr on top, checked as t, above u.              *)
Ending(T, fr, t, u) ==
  /\ RunInv(T) /\ World /\ phase \in {"body", "handler"} /\ Base \in Nat /\ nextId \in Nat
  /\ fr = Head(ctl) /\ fr \in Frames /\ t = T[1] /\ Good(t) /\ Good(u) /\ Link(fr, t, u, Base)
  /\ Stacked(ctl, T, Base) /\ ctl # <<>>
  /\ Stacked(Tail(ctl), Tail(T), Base) /\ Tail(T)[1] = u /\ Tail(T)[Len(Tail(T))] = T[Len(T)]
  /\ Fits(t, locals, layout, nextId, Released, held, out, Base)
  /\ locals \in Seq(Bindings) /\ Len(locals) = Len(t.K.locals) + Base
  /\ t.K \in Contexts /\ u.K \in Contexts
  /\ t.G \in FactSets /\ u.G \in FactSets /\ t.own \in Seq(Frames) /\ u.own \in Seq(Frames)

LEMMA AtEnd ==
  ASSUME IInv, NEW at, Unwinds(at)
  PROVE  \E T, fr, t, u : Ending(T, fr, t, u) /\ fr = Top /\ fr.at = at
<1>1. /\ phase \in {"body", "handler"} /\ ctl # <<>> /\ Head(ctl).at = at /\ Top = Head(ctl)
  BY DEF Unwinds, Executing, Top
<1>2. PICK T : RunInv(T)
  BY <1>1 DEF IInv
<1>3. Stacked(ctl, T, Base)
  BY <1>2 DEF RunInv
<1>4. /\ Stacked(Tail(ctl), Tail(T), Base)
      /\ Head(ctl) \in Frames /\ Good(T[1]) /\ Good(T[2]) /\ Link(Head(ctl), T[1], T[2], Base)
      /\ Tail(T)[1] = T[2] /\ Tail(T)[Len(Tail(T))] = T[Len(T)]
  BY <1>1, <1>3, StackPopped
<1>5. PICK fr, t, u : fr = Head(ctl) /\ t = T[1] /\ u = T[2]
  OBVIOUS
<1>6. /\ t.K \in Contexts /\ u.K \in Contexts
      /\ t.G \in FactSets /\ u.G \in FactSets /\ t.own \in Seq(Frames) /\ u.own \in Seq(Frames)
  BY <1>4, <1>5, GoodParts
<1>7. Base \in Nat /\ World /\ nextId \in Nat
  BY DEF Base, IInv, World
<1>8. Fits(t, locals, layout, nextId, Released, held, out, Base)
  BY <1>2, <1>5 DEF RunInv
<1>9. locals \in Seq(Bindings) /\ Len(locals) = Len(t.K.locals) + Base
  <2>1. StoreOk(locals, layout, t.K, Base, MovedBy(t, out), LiveBy(t, out))
    BY <1>8 DEF Fits
  <2> QED
    BY <2>1 DEF StoreOk
<1>10. Ending(T, fr, t, u)
  BY <1>1, <1>2, <1>3, <1>4, <1>5, <1>6, <1>7, <1>8, <1>9 DEF Ending
<1> QED
  BY <1>1, <1>5, <1>10

LEMMA BlockEndFits ==
  ASSUME NEW t, NEW u, NEW fr, BlockLink(fr, t, u, Base), Good(t), Good(u), SameUnit(t.K, u.K),
         fr.rest = <<>> \/ out # "normal", NEW nxt \in Nat, NEW rel, NEW h,
         Fits(t, locals, layout, nxt, rel, h, out, Base)
  PROVE  Fits(u, locals, layout, nxt, rel, h, out, Base)
<1>1. t.K = u.K /\ t.live = u.live /\ t.own = u.own /\ Covers(u.K, EndOf(t, fr.rest), u.G)
  BY DEF BlockLink
<1>2. OutOk(t, out)
  BY DEF Fits
<1>3. out = "normal" => Covers(u.K, t.G, u.G)
  <2> SUFFICES ASSUME out = "normal" PROVE Covers(u.K, t.G, u.G)
    OBVIOUS
  <2>1. EndOf(t, fr.rest) = t.G
    BY GoodParts, AfterEmpty DEF EndOf
  <2> QED
    BY <1>1, <2>1
<1>4. out = "normal" =>
        /\ ~t.G.bottom /\ ~u.G.bottom
        /\ t.G.moved \cap NamesOf(u.K) \subseteq u.G.moved
        /\ t.G.dead \cap NamesOf(u.K) \subseteq u.G.dead
  BY <1>2, <1>3 DEF Covers, OutOk
<1>5. MovedBy(t, out) \cap NamesOf(t.K) \subseteq MovedBy(u, out)
  BY <1>1, <1>4 DEF MovedBy
<1>6. LiveBy(u, out) \cap NamesOf(t.K) \subseteq LiveBy(t, out)
  BY <1>1, <1>4 DEF LiveBy
<1>7. OutOk(u, out)
  BY <1>1, <1>2, <1>4 DEF OutOk
<1>8. nxt =< nxt
  BY SameNat
<1> QED
  BY <1>1, <1>5, <1>6, <1>7, <1>8, FitsOn

LEMMA BlockEndKeeps == ASSUME IInv, BlockEnd PROVE IInv'
<1>1. /\ Unwinds("block") /\ ctl' = Tail(ctl) /\ UNCHANGED <<phase, prog>>
      /\ Top.rest = <<>> \/ out # "normal"
      /\ locals' = DropTo(Top.n) /\ UNCHANGED <<vars, out>>
  BY DEF BlockEnd, Ends
<1>2. PICK T, fr, t, u : Ending(T, fr, t, u) /\ fr = Top /\ fr.at = "block"
  BY <1>1, AtEnd
<1>3. /\ RunInv(T) /\ World /\ phase \in {"body", "handler"} /\ nextId \in Nat
      /\ Good(t) /\ Good(u) /\ Link(fr, t, u, Base)
      /\ Stacked(Tail(ctl), Tail(T), Base) /\ Tail(T)[1] = u /\ Tail(T)[Len(Tail(T))] = T[Len(T)]
      /\ Fits(t, locals, layout, nextId, Released, held, out, Base)
      /\ locals \in Seq(Bindings) /\ Len(locals) = Len(t.K.locals) + Base
  BY <1>2 DEF Ending
<1>4. BlockLink(fr, t, u, Base) /\ SameUnit(t.K, u.K)
  BY <1>2, <1>3 DEF Link
<1>5. Fits(u, locals, layout, nextId, Released, held, out, Base)
  BY <1>1, <1>2, <1>3, <1>4, BlockEndFits
<1>6. locals' = locals
  <2>1. fr.n = Len(locals)
    BY <1>3, <1>4 DEF BlockLink
  <2> QED
    BY <1>1, <1>2, <1>3, <2>1, DropAll
<1>7. WorldTo(Released, held, layout, nextId)
  <2>1. UNCHANGED <<status, held, nextId, trace, layout>>
    BY <1>1 DEF vars, protocol, pktVars
  <2> QED
    BY <1>3, <2>1, WorldKept
<1>8. PICK V : V = Tail(T)
  OBVIOUS
<1>9. Stacked(ctl', V, Base) /\ V[Len(V)] = T[Len(T)] /\ Fits(V[1], locals', layout, nextId, Released, held, out', Base)
  BY <1>1, <1>3, <1>5, <1>6, <1>8
<1> QED
  BY <1>1, <1>3, <1>7, <1>9, Resumed

(* A binder's scope is left: the store is what it was when it was entered.  *)
Narrows(t, u, x, ty) ==
  /\ t.K \in Contexts /\ u.K \in Contexts
  /\ Widened(u.K, t.K, x, ty) /\ ty \in Types /\ (~Bare(x) => x \in STRING)
  /\ \A d \in t.K.derived : d[1] \in NamesOf(u.K) => d \in u.K.derived
Shrunk(t, u, loc2, lay, nxt, rel, o, base) ==
  /\ StoreOk(loc2, lay, u.K, base, MovedBy(t, o), LiveBy(t, o))
  /\ CastsOk(loc2, u.K) /\ OwnedOk(loc2, rel, nxt, u.K, t.own)

LEMMA NarrowedBare ==
  ASSUME NEW t, NEW u, NEW x, NEW ty, Narrows(t, u, x, ty), Bare(x),
         NEW lay, NEW nxt, NEW rel, NEW h, NEW o, NEW base \in Nat, Fits(t, locals, lay, nxt, rel, h, o, base),
         NEW loc2, loc2 = DropTo(Len(u.K.locals) + base)
  PROVE  Shrunk(t, u, loc2, lay, nxt, rel, o, base)
<1>1. t.K.locals = u.K.locals
  BY WidenedLocals DEF Narrows
<1>2. /\ StoreOk(locals, lay, t.K, base, MovedBy(t, o), LiveBy(t, o))
      /\ CastsOk(locals, t.K) /\ OwnedOk(locals, rel, nxt, t.K, t.own)
  BY DEF Fits
<1>3. loc2 = locals
  <2>1. locals \in Seq(Bindings) /\ Len(locals) = Len(u.K.locals) + base
    BY <1>1, <1>2 DEF StoreOk
  <2> QED
    BY <2>1, DropAll
<1>4. StoreOk(locals, lay, u.K, base, MovedBy(t, o), LiveBy(t, o))
  BY <1>1, <1>2 DEF StoreOk
<1>5. OwnedOk(locals, rel, nxt, u.K, t.own)
  BY <1>1, <1>2 DEF OwnedOk
<1>6. CastsOk(locals, u.K)
  <2>1. SUFFICES ASSUME NEW i \in DOMAIN u.K.locals, u.K.locals[i].ty = "cast" PROVE Guarded(locals, u.K, i)
    BY DEF CastsOk
  <2>2. Guarded(locals, t.K, i)
    BY <1>1, <1>2, <2>1 DEF CastsOk
  <2>3. PICK j \in DOMAIN u.K.locals :
          /\ i < j /\ u.K.locals[j].ty = "sock" /\ locals[j].kind = "own" /\ locals[j].n = locals[i].of
          /\ \E d \in t.K.derived : d[2] = u.K.locals[j].x /\ \E k \in i..(j - 1) : u.K.locals[k].x = d[1]
    BY <1>1, <2>2 DEF Guarded
  <2>4. PICK d \in t.K.derived : d[2] = u.K.locals[j].x /\ \E k \in i..(j - 1) : u.K.locals[k].x = d[1]
    BY <2>3
  <2>5. d \in u.K.derived
    <3>1. PICK k \in i..(j - 1) : u.K.locals[k].x = d[1]
      BY <2>4
    <3>2. k \in DOMAIN u.K.locals
      <4>1. DOMAIN u.K.locals = 1..Len(u.K.locals) /\ Len(u.K.locals) \in Nat
        BY LocalsTyped DEF Narrows
      <4>2. i \in 1..Len(u.K.locals) /\ j \in 1..Len(u.K.locals)
        BY <4>1
      <4> QED
        BY <3>1, <4>1, <4>2
    <3>3. d[1] \in NamesOf(u.K)
      BY <3>1, <3>2 DEF NamesOf
    <3> QED
      BY <3>3 DEF Narrows
  <2> QED
    BY <2>3, <2>4, <2>5 DEF Guarded
<1> QED
  BY <1>3, <1>4, <1>5, <1>6 DEF Shrunk

OneOver(L, K, e) ==
  /\ K \in Contexts /\ L \in Contexts
  /\ e \in [x : STRING, ty : Types] /\ L.locals = <<e>> \o K.locals

LEMMA StoreNarrows ==
  ASSUME NEW K, NEW L, NEW e, OneOver(L, K, e),
         NEW loc, NEW lay, NEW base \in Nat, NEW moved, NEW live, StoreOk(loc, lay, L, base, moved, live)
  PROVE  /\ StoreOk(Tail(loc), lay, K, base, moved, live) /\ loc # <<>>
         /\ Len(loc) = Len(K.locals) + base + 1
BY StorePopped, SMTT(30) DEF OneOver

LEMMA NarrowedNamed ==
  ASSUME NEW t, NEW u, NEW x, NEW ty, Narrows(t, u, x, ty), ~Bare(x),
         NEW lay, NEW nxt, NEW rel, NEW h, NEW o, NEW base \in Nat, Fits(t, locals, lay, nxt, rel, h, o, base),
         NEW loc2, loc2 = DropTo(Len(u.K.locals) + base)
  PROVE  Shrunk(t, u, loc2, lay, nxt, rel, o, base)
<1>1. PICK e : e = [x |-> x, ty |-> ty]
  OBVIOUS
<1>2. t.K \in Contexts /\ u.K \in Contexts /\ e \in [x : STRING, ty : Types]
  BY <1>1 DEF Narrows
<1>3. t.K.locals = <<e>> \o u.K.locals
  <2>1. Widened(u.K, t.K, x, ty)
    BY DEF Narrows
  <2>2. PICK K, L : K = u.K /\ L = t.K
    OBVIOUS
  <2>3. Widened(K, L, x, ty)
    BY <2>1, <2>2
  <2>4. L.locals = <<[x |-> x, ty |-> ty]>> \o K.locals
    BY <2>3, WidenedLocals
  <2> QED
    BY <1>1, <2>2, <2>4
<1> HIDE <1>1
<1>4. /\ StoreOk(locals, lay, t.K, base, MovedBy(t, o), LiveBy(t, o))
      /\ CastsOk(locals, t.K) /\ OwnedOk(locals, rel, nxt, t.K, t.own)
  BY DEF Fits
<1>5. PICK loc : loc = Tail(locals)
  OBVIOUS
<1>6. StoreOk(loc, lay, u.K, base, MovedBy(t, o), LiveBy(t, o)) /\ locals # <<>>
      /\ Len(locals) = Len(u.K.locals) + base + 1
  <2>1. PICK m, l : m = MovedBy(t, o) /\ l = LiveBy(t, o)
    OBVIOUS
  <2>2. StoreOk(locals, lay, t.K, base, m, l)
    BY <1>4, <2>1
  <2>3. StoreOk(Tail(locals), lay, u.K, base, m, l) /\ locals # <<>> /\ Len(locals) = Len(u.K.locals) + base + 1
    <3>1. OneOver(t.K, u.K, e)
      BY <1>2, <1>3, Zenon DEF OneOver
    <3> QED
      BY <2>2, <3>1, StoreNarrows, ZenonT(60)
  <2> QED
    BY <1>5, <2>1, <2>3
<1>7. /\ locals \in Seq(Bindings) /\ DOMAIN t.K.locals \subseteq DOMAIN locals
      /\ Len(t.K.locals) \in Nat /\ Len(locals) = Len(t.K.locals) + base
  BY <1>2, <1>4, StoreTyped
<1>8. loc2 = loc
  <2>1. Len(u.K.locals) \in Nat
    BY <1>2, LocalsTyped
  <2>2. Len(u.K.locals) + base = Len(locals) - 1
    BY <1>6, <2>1
  <2>3. DropTo(Len(locals) - 1) = Tail(locals)
    BY <1>6, <1>7, DropOne
  <2> QED
    BY <1>5, <2>2, <2>3
<1>9. CastsOk(loc, u.K)
  <2>1. \A d \in t.K.derived : d[1] \in NamesOf(u.K) => d \in u.K.derived
    BY DEF Narrows
  <2> QED
    BY <1>2, <1>3, <1>4, <1>5, <1>6, <1>7, <2>1, CastsPopped
<1>10. OwnedOk(loc, rel, nxt, u.K, t.own)
  <2>1. Len(t.K.locals) =< Len(locals)
    BY <1>7
  <2> QED
    BY <1>2, <1>3, <1>4, <1>5, <1>6, <1>7, <2>1, OwnedPopped
<1> QED
  BY <1>6, <1>8, <1>9, <1>10 DEF Shrunk

LEMMA Narrowed ==
  ASSUME NEW t, NEW u, NEW x, NEW ty, Narrows(t, u, x, ty),
         NEW lay, NEW nxt, NEW rel, NEW h, NEW o, NEW base \in Nat, Fits(t, locals, lay, nxt, rel, h, o, base),
         MovedBy(t, o) \cap NamesOf(u.K) \subseteq MovedBy(u, o),
         LiveBy(u, o) \cap NamesOf(u.K) \subseteq LiveBy(t, o),
         NEW loc2, loc2 = DropTo(Len(u.K.locals) + base)
  PROVE  /\ StoreOk(loc2, lay, u.K, base, MovedBy(u, o), LiveBy(u, o))
         /\ CastsOk(loc2, u.K) /\ OwnedOk(loc2, rel, nxt, u.K, t.own)
<1>1. Shrunk(t, u, loc2, lay, nxt, rel, o, base)
  BY NarrowedBare, NarrowedNamed
<1>2. StoreOk(loc2, lay, u.K, base, MovedBy(t, o), LiveBy(t, o))
  BY <1>1 DEF Shrunk
<1>3. StoreOk(loc2, lay, u.K, base, MovedBy(u, o), LiveBy(u, o))
  <2>1. PICK m1, l1, m2, l2 : m1 = MovedBy(t, o) /\ l1 = LiveBy(t, o) /\ m2 = MovedBy(u, o) /\ l2 = LiveBy(u, o)
    OBVIOUS
  <2>2. StoreOk(loc2, lay, u.K, base, m1, l1) /\ m1 \cap NamesOf(u.K) \subseteq m2 /\ l2 \cap NamesOf(u.K) \subseteq l1
    BY <1>2, <2>1
  <2>3. StoreOk(loc2, lay, u.K, base, m2, l2)
    BY <2>2, StoreWeaker
  <2> QED
    BY <2>1, <2>3
<1> QED
  BY <1>1, <1>3 DEF Shrunk

(* The way out of a scope asks no more outside it than inside.              *)
LEMMA WayOut ==
  ASSUME NEW t, NEW u, SameLoop(t.K, u.K), SameUnit(t.K, u.K), t.live = u.live, Covers(u.K, t.G, u.G),
         NEW o, OutOk(t, o), NamesOf(u.K) \subseteq NamesOf(t.K), o = "tail" => u.K.held = <<>>
  PROVE  /\ MovedBy(t, o) \cap NamesOf(u.K) \subseteq MovedBy(u, o)
         /\ LiveBy(u, o) \cap NamesOf(u.K) \subseteq LiveBy(t, o)
         /\ OutOk(u, o)
<1>1. o = "normal" =>
        /\ ~t.G.bottom /\ ~u.G.bottom
        /\ t.G.moved \cap NamesOf(u.K) \subseteq u.G.moved
        /\ t.G.dead \cap NamesOf(u.K) \subseteq u.G.dead
  BY DEF Covers, OutOk
<1>2. t.K.loopMoved = u.K.loopMoved /\ t.K.inLoop = u.K.inLoop /\ t.K.mayFail = u.K.mayFail
  BY DEF SameLoop, SameUnit
<1>3. MovedBy(t, o) \cap NamesOf(u.K) \subseteq MovedBy(u, o)
  BY <1>1, <1>2 DEF MovedBy
<1>4. LiveBy(u, o) \cap NamesOf(u.K) \subseteq LiveBy(t, o)
  BY <1>1, <1>2 DEF LiveBy
<1>5. OutOk(u, o)
  BY <1>1, <1>2 DEF OutOk
<1> QED
  BY <1>3, <1>4, <1>5

LEMMA TryEndFits ==
  ASSUME NEW t, NEW u, NEW fr, TryLink(fr, t, u, Base), Good(t), Good(u), SameUnit(t.K, u.K), Base \in Nat,
         NEW nxt, NEW rel, NEW h, Fits(t, locals, layout, nxt, rel, h, out, Base),
         NEW loc2, loc2 = DropTo(fr.n)
  PROVE  Fits(u, loc2, layout, nxt, rel, h, out, Base)
<1>1. /\ t.live = u.live /\ t.own = u.own /\ t.K.held = u.K.held /\ SameLoop(t.K, u.K)
      /\ fr.n = Len(u.K.locals) + Base /\ Covers(u.K, t.G, u.G)
      /\ \A d \in t.K.derived : d[1] \in NamesOf(u.K) => d \in u.K.derived
  BY DEF TryLink
<1>2. t.K \in Contexts /\ u.K \in Contexts
  BY GoodParts
<1>3. PICK x, ty : Narrows(t, u, x, ty)
  <2>1. PICK x \in NamesOf(t.K) \cup {"_"} : \E ty \in {"view", "cast"} : Widened(u.K, t.K, x, ty)
    BY Zenon DEF TryLink
  <2>2. PICK ty \in {"view", "cast"} : Widened(u.K, t.K, x, ty)
    BY <2>1
  <2>3. ~Bare(x) => x \in STRING
    <3>1. NamesOf(t.K) \subseteq STRING
      BY <1>2, NamesAreStrings
    <3>2. ~Bare(x) => x \in NamesOf(t.K)
      BY <2>1, Zenon DEF Bare
    <3> QED
      BY <3>1, <3>2
  <2>4. ty \in Types
    BY <2>2 DEF Types
  <2> QED
    BY <1>1, <1>2, <2>2, <2>3, <2>4 DEF Narrows
<1>4. NamesOf(u.K) \subseteq NamesOf(t.K)
  <2>1. Bare(x) => t.K.locals = u.K.locals
    BY <1>3, WidenedLocals DEF Narrows
  <2>2. ~Bare(x) => NamesOf(t.K) = NamesOf(u.K) \cup Named(x)
    BY <1>3, WiderNames DEF Narrows
  <2>3. t.K.locals = u.K.locals => NamesOf(t.K) = NamesOf(u.K)
    BY DEF NamesOf
  <2> QED
    BY <2>1, <2>2, <2>3
<1>5. OutOk(t, out) /\ h = HeldBy(t.own, rel)
  BY DEF Fits
<1>6. /\ MovedBy(t, out) \cap NamesOf(u.K) \subseteq MovedBy(u, out)
      /\ LiveBy(u, out) \cap NamesOf(u.K) \subseteq LiveBy(t, out)
      /\ OutOk(u, out)
  <2>1. out = "tail" => u.K.held = <<>>
    BY <1>1, <1>5 DEF OutOk
  <2> QED
    BY <1>1, <1>4, <1>5, <2>1, WayOut
<1>7. /\ StoreOk(loc2, layout, u.K, Base, MovedBy(u, out), LiveBy(u, out))
      /\ CastsOk(loc2, u.K) /\ OwnedOk(loc2, rel, nxt, u.K, t.own)
  <2>1. loc2 = DropTo(Len(u.K.locals) + Base)
    BY <1>1
  <2> QED
    BY <1>3, <1>6, <2>1, Narrowed
<1> QED
  BY <1>1, <1>5, <1>6, <1>7 DEF Fits

LEMMA TryEndKeeps == ASSUME IInv, TryEnd PROVE IInv'
<1>1. /\ Unwinds("try") /\ ctl' = Tail(ctl) /\ UNCHANGED <<phase, prog>>
      /\ locals' = DropTo(Top.n) /\ UNCHANGED <<vars, out>>
  BY DEF TryEnd, Ends
<1>2. PICK T, fr, t, u : Ending(T, fr, t, u) /\ fr = Top /\ fr.at = "try"
  BY <1>1, AtEnd
<1>3. /\ RunInv(T) /\ World /\ phase \in {"body", "handler"} /\ nextId \in Nat /\ Base \in Nat
      /\ Good(t) /\ Good(u) /\ Link(fr, t, u, Base)
      /\ Stacked(Tail(ctl), Tail(T), Base) /\ Tail(T)[1] = u /\ Tail(T)[Len(Tail(T))] = T[Len(T)]
      /\ Fits(t, locals, layout, nextId, Released, held, out, Base)
  BY <1>2 DEF Ending
<1>4. TryLink(fr, t, u, Base) /\ SameUnit(t.K, u.K)
  BY <1>2, <1>3 DEF Link
<1>5. Fits(u, locals', layout, nextId, Released, held, out, Base)
  <2>1. PICK loc2 : loc2 = locals'
    OBVIOUS
  <2>2. loc2 = DropTo(fr.n)
    BY <1>1, <1>2, <2>1
  <2>3. Fits(u, loc2, layout, nextId, Released, held, out, Base)
    BY <1>3, <1>4, <2>2, TryEndFits
  <2> QED
    BY <2>1, <2>3
<1>7. WorldTo(Released, held, layout, nextId)
  <2>1. UNCHANGED <<status, held, nextId, trace, layout>>
    BY <1>1 DEF vars, protocol, pktVars
  <2> QED
    BY <1>3, <2>1, WorldKept
<1>8. PICK V : V = Tail(T)
  OBVIOUS
<1>9. Stacked(ctl', V, Base) /\ V[Len(V)] = T[Len(T)] /\ Fits(V[1], locals', layout, nextId, Released, held, out', Base)
  BY <1>1, <1>3, <1>5, <1>8
<1> QED
  BY <1>1, <1>3, <1>7, <1>9, Resumed

LEMMA HoldOver ==
  ASSUME NEW K \in Contexts, NEW s, s.x \in STRING, s.r \in STRING, s.x \notin NamesOf(K),
         NEW L, L = HoldContext(K, s)
  PROVE  /\ L \in Contexts /\ Widened(K, L, s.x, OwnType(s.r)) /\ L.derived = K.derived
         /\ L.held = <<[res |-> s.r, x |-> s.x]>> \o K.held
         /\ SameLoop(L, K) /\ SameUnit(L, K)
<1>1. /\ L \in Contexts /\ L.derived = K.derived
      /\ L.held = <<[res |-> s.r, x |-> s.x]>> \o K.held
      /\ SameLoop(L, K) /\ SameUnit(L, K)
  BY HoldContextParts
<1>2. L.locals = IF s.x = "_" THEN K.locals
                 ELSE <<[x |-> s.x, ty |-> IF s.r = "sockref" THEN "sock" ELSE "rec"]>> \o K.locals
  BY HoldContextParts, Zenon
<1>3. Widened(K, L, s.x, OwnType(s.r))
  BY <1>2, ZenonT(60) DEF Widened, OwnType
<1> QED
  BY <1>1, <1>3

(* The hold's frame fr at the head of the owners.                           *)
LEMMA HoldScope ==
  ASSUME NEW fr \in Frames, fr.at = "hold", NEW t, NEW u, NEW base, HoldLink(fr, t, u, base), Good(t), Good(u)
  PROVE  /\ t.own = <<fr>> \o u.own /\ GotOk(fr.got) /\ (~Bare(fr.x) <=> Yields(fr.got.res))
         /\ fr.got.res = "sockref" => Foreign(u.own, fr.got.obj.n)
         /\ Narrows(t, u, fr.x, OwnType(fr.got.res)) /\ SameLoop(t.K, u.K)
         /\ t.K.held # <<>>
         /\ fr.got.res # "spinlock" => ~OpenBy(t.K.held)
<1>1. /\ t.own = <<fr>> \o u.own /\ fr.x \notin NamesOf(u.K) /\ ~OpenBy(u.K.held)
      /\ t.K = HoldContext(u.K, [x |-> fr.x, r |-> fr.got.res])
  BY DEF HoldLink
<1>2. /\ t.K \in Contexts /\ u.K \in Contexts /\ u.own \in Seq(Frames)
      /\ Mirrors(t.K, t.own) /\ Apart(t.own)
  BY GoodParts
<1>3. PICK q : q = t.own
  OBVIOUS
<1>4. Extends(q, fr, u.own)
  BY <1>1, <1>2, <1>3, ConsExtends
<1>5. 1 \in DOMAIN q /\ q[1] = fr
  BY <1>4 DEF Extends
<1>6. /\ GotOk(fr.got) /\ fr.x = t.K.held[1].x /\ fr.got.res = t.K.held[1].res
      /\ 1 \in DOMAIN t.K.held
  <2>1. Len(q) = Len(t.K.held)
    BY <1>2, <1>3 DEF Mirrors
  <2>2. GotOk(fr.got) /\ fr.x = t.K.held[1].x /\ fr.got.res = t.K.held[1].res
    BY <1>2, <1>3, <1>5 DEF Mirrors
  <2>3. 1 \in DOMAIN t.K.held
    <3>1. Len(t.K.held) \in Nat /\ DOMAIN t.K.held = 1..Len(t.K.held)
      BY <1>2, OwnerTyped
    <3>2. Len(q) = Len(u.own) + 1 /\ Len(u.own) \in Nat
      BY <1>4 DEF Extends
    <3> QED
      BY <2>1, <3>1, <3>2
  <2> QED
    BY <2>2, <2>3
<1>7. ~Bare(fr.x) <=> Yields(fr.got.res)
  BY <1>2, <1>3, <1>5, Zenon DEF Mirrors, Bare
<1>8. fr.x \in STRING /\ fr.got.res \in STRING
  <2>1. t.K.held \in Seq([res : STRING, x : STRING])
    BY <1>2, OwnerTyped
  <2>2. t.K.held[1] \in [res : STRING, x : STRING]
    BY <1>6, <2>1, ElementOf
  <2> QED
    BY <1>6, <2>2
<1>9. PICK s : s = [x |-> fr.x, r |-> fr.got.res]
  OBVIOUS
<1>10. s.x = fr.x /\ s.r = fr.got.res /\ t.K = HoldContext(u.K, s)
  BY <1>1, <1>9
<1> HIDE <1>9
<1>11. /\ Widened(u.K, t.K, s.x, OwnType(s.r)) /\ t.K.derived = u.K.derived
       /\ t.K.held = <<[res |-> s.r, x |-> s.x]>> \o u.K.held
       /\ SameLoop(t.K, u.K)
  <2>1. s.x \in STRING /\ s.r \in STRING /\ s.x \notin NamesOf(u.K)
    BY <1>1, <1>8, <1>10
  <2> QED
    BY <1>2, <1>10, <2>1, HoldOver, SMTT(60)
<1>12. Narrows(t, u, fr.x, OwnType(fr.got.res))
  <2>1. OwnType(s.r) \in Types
    BY DEF OwnType, Types
  <2> QED
    BY <1>2, <1>8, <1>10, <1>11, <2>1 DEF Narrows
<1>13. fr.got.res = "sockref" => Foreign(u.own, fr.got.obj.n)
  <2>1. SUFFICES ASSUME fr.got.res = "sockref",
                        NEW j \in DOMAIN u.own, u.own[j].got.res = "sockref", u.own[j].got.obj.n = fr.got.obj.n
                 PROVE  FALSE
    BY DEF Foreign
  <2>2. j + 1 \in DOMAIN q /\ q[j + 1] = u.own[j] /\ j \in 1..Len(u.own) /\ Len(u.own) \in Nat
    BY <1>4 DEF Extends
  <2>3. j + 1 = 1
    BY <1>2, <1>3, <1>5, <2>1, <2>2 DEF Apart
  <2> QED
    BY <2>2, <2>3
<1>14. t.K.held # <<>>
  BY <1>2, <1>6
<1>15. fr.got.res # "spinlock" => ~OpenBy(t.K.held)
  <2>1. SUFFICES ASSUME fr.got.res # "spinlock", NEW i \in DOMAIN t.K.held, t.K.held[i].res = "spinlock"
                 PROVE  FALSE
    BY DEF OpenBy
  <2>2. u.K.held \in Seq([res : STRING, x : STRING])
    BY <1>2, OwnerTyped
  <2>3. PICK e : e = [res |-> s.r, x |-> s.x]
    OBVIOUS
  <2>4. e \in [res : STRING, x : STRING] /\ e.res = s.r
    BY <1>8, <1>10, <2>3
  <2>5. PICK g, hs : g = t.K.held /\ hs = u.K.held
    OBVIOUS
  <2>6. Extends(g, e, hs)
    BY <1>11, <2>2, <2>3, <2>4, <2>5, ConsExtends
  <2>7. i # 1
    BY <1>6, <2>1
  <2>8. i - 1 \in DOMAIN hs /\ g[i] = hs[i - 1]
    BY <2>1, <2>5, <2>6, <2>7 DEF Extends
  <2> QED
    BY <1>1, <2>1, <2>5, <2>8 DEF OpenBy
<1> QED
  BY <1>1, <1>6, <1>7, <1>11, <1>12, <1>13, <1>14, <1>15

(* The socket is released already exactly when its name was moved.          *)
LEMMA HoldMoved ==
  ASSUME NEW fr \in Frames, fr.at = "hold", NEW t, NEW u, Base \in Nat, HoldLink(fr, t, u, Base), Good(t), Good(u),
         NEW nxt, NEW rel, NEW h, Fits(t, locals, layout, nxt, rel, h, out, Base)
  PROVE  ~Bare(fr.x) /\ IsMoved(fr.x) <=> ~Holds(fr, rel)
<1>1. /\ t.own = <<fr>> \o u.own /\ (~Bare(fr.x) <=> Yields(fr.got.res))
      /\ Narrows(t, u, fr.x, OwnType(fr.got.res))
  BY HoldScope
<1>2. t.K \in Contexts /\ u.K \in Contexts /\ u.own \in Seq(Frames) /\ Scoped(t.K)
  BY GoodParts
<1>3. CASE Bare(fr.x)
  <2>1. fr.got.res # "sockref"
    BY <1>1, <1>3 DEF Yields
  <2> QED
    BY <1>3, <2>1 DEF Holds
<1>4. CASE ~Bare(fr.x)
  <2>1. PICK e : e = [x |-> fr.x, ty |-> OwnType(fr.got.res)]
    OBVIOUS
  <2>2. e \in [x : STRING, ty : Types] /\ e.x = fr.x
    BY <1>1, <1>4, <2>1 DEF Narrows
  <2>3. t.K.locals = <<e>> \o u.K.locals
    <3>1. PICK K, L, x, ty : K = u.K /\ L = t.K /\ x = fr.x /\ ty = OwnType(fr.got.res)
      OBVIOUS
    <3>2. Widened(K, L, x, ty) /\ ~Bare(x)
      BY <1>1, <1>4, <3>1 DEF Narrows
    <3>3. L.locals = <<[x |-> x, ty |-> ty]>> \o K.locals
      BY <3>2, WidenedLocals
    <3> QED
      BY <2>1, <3>1, <3>3
  <2> HIDE <2>1
  <2>4. 1 \in DOMAIN t.K.locals /\ t.K.locals[1].x = fr.x
    <3>1. t.K.locals[1] = e /\ DOMAIN t.K.locals = 1..(Len(u.K.locals) + 1) /\ Len(u.K.locals) \in Nat
      BY <1>2, <2>2, <2>3, LocalsPushed
    <3> QED
      BY <2>2, <3>1
  <2>5. Local(fr.x) = locals[1]
    <3>1. PICK m, l : m = MovedBy(t, out) /\ l = LiveBy(t, out)
      OBVIOUS
    <3>2. StoreOk(locals, layout, t.K, Base, m, l)
      BY <3>1 DEF Fits
    <3>3. Local(t.K.locals[1].x) = locals[1]
      BY <1>2, <2>4, <3>2, LocalIs
    <3> QED
      BY <2>4, <3>3
  <2>6. Extends(t.own, fr, u.own)
    BY <1>1, <1>2, ConsExtends
  <2>7. 1 \in DOMAIN t.own /\ t.own[1] = fr
    BY <2>6 DEF Extends
  <2>8. locals[1].kind = "moved" <=> fr.got.res = "sockref" /\ fr.got.obj.n \in rel
    <3>1. OwnedOk(locals, rel, nxt, t.K, t.own)
      BY DEF Fits
    <3> QED
      BY <2>4, <2>7, <3>1 DEF OwnedOk
  <2> QED
    BY <1>4, <2>5, <2>8 DEF IsMoved, Holds
<1> QED
  BY <1>3, <1>4

(* What the frame's own entry may change for the frames around it.          *)
LEMMA OwnedAround ==
  ASSUME NEW fr \in Frames, NEW own \in Seq(Frames), NEW loc, NEW rel, NEW nxt, NEW K,
         OwnedOk(loc, rel, nxt, K, <<fr>> \o own),
         NEW rel2, rel2 = rel \/ (rel2 = rel \cup {fr.got.obj.n} /\ Foreign(own, fr.got.obj.n))
  PROVE  OwnedOk(loc, rel2, nxt, K, own)
<1>1. PICK q : q = <<fr>> \o own
  OBVIOUS
<1>2. Extends(q, fr, own) /\ OwnedOk(loc, rel, nxt, K, q)
  BY <1>1, ConsExtends
<1> HIDE <1>1
<1>3. \A j \in DOMAIN own : \E k \in DOMAIN q : q[k] = own[j]
  BY <1>2 DEF Extends
<1>4. SUFFICES ASSUME NEW j \in DOMAIN own
               PROVE  /\ own[j].got.res = "sockref" => own[j].got.obj.n \in 0..(nxt - 1)
                      /\ \A i \in DOMAIN K.locals : K.locals[i].x = own[j].x =>
                           /\ loc[i].n = own[j].got.obj.n
                           /\ loc[i].kind = "moved" <=> own[j].got.res = "sockref" /\ own[j].got.obj.n \in rel2
  BY DEF OwnedOk
<1>5. PICK k \in DOMAIN q : q[k] = own[j]
  BY <1>3
<1>6. /\ own[j].got.res = "sockref" => own[j].got.obj.n \in 0..(nxt - 1)
      /\ \A i \in DOMAIN K.locals : K.locals[i].x = own[j].x =>
           /\ loc[i].n = own[j].got.obj.n
           /\ loc[i].kind = "moved" <=> own[j].got.res = "sockref" /\ own[j].got.obj.n \in rel
  BY <1>2, <1>5 DEF OwnedOk
<1>7. own[j].got.res = "sockref" => (own[j].got.obj.n \in rel2 <=> own[j].got.obj.n \in rel)
  BY DEF Foreign
<1> QED
  BY <1>6, <1>7

LEMMA HoldEndFits ==
  ASSUME NEW fr \in Frames, fr.at = "hold", NEW t, NEW u, Base \in Nat, HoldLink(fr, t, u, Base), Good(t), Good(u),
         SameUnit(t.K, u.K),
         NEW nxt, NEW rel, NEW h, Fits(t, locals, layout, nxt, rel, h, out, Base),
         NEW rel2, rel2 = rel \/ (rel2 = rel \cup {fr.got.obj.n} /\ fr.got.res = "sockref"),
         NEW loc2, loc2 = DropTo(fr.n)
  PROVE  Fits(u, loc2, layout, nxt, rel2, HeldBy(u.own, rel), out, Base)
<1>1. /\ t.own = <<fr>> \o u.own /\ SameLoop(t.K, u.K) /\ t.K.held # <<>>
      /\ Narrows(t, u, fr.x, OwnType(fr.got.res))
      /\ fr.got.res = "sockref" => Foreign(u.own, fr.got.obj.n)
  BY HoldScope
<1>2. t.live = u.live /\ fr.n = Len(u.K.locals) + Base /\ Covers(u.K, t.G, u.G)
  BY DEF HoldLink
<1>3. u.own \in Seq(Frames) /\ t.K \in Contexts /\ u.K \in Contexts
  BY GoodParts
<1>4. NamesOf(u.K) \subseteq NamesOf(t.K)
  <2>1. PICK x, ty : x = fr.x /\ ty = OwnType(fr.got.res)
    OBVIOUS
  <2>2. Narrows(t, u, x, ty)
    BY <1>1, <2>1
  <2>3. Bare(x) => t.K.locals = u.K.locals
    BY <2>2, WidenedLocals DEF Narrows
  <2>4. ~Bare(x) => NamesOf(t.K) = NamesOf(u.K) \cup Named(x)
    BY <2>2, WiderNames DEF Narrows
  <2>5. t.K.locals = u.K.locals => NamesOf(t.K) = NamesOf(u.K)
    BY DEF NamesOf
  <2> QED
    BY <2>3, <2>4, <2>5
<1>5. OutOk(t, out)
  BY DEF Fits
<1>6. /\ MovedBy(t, out) \cap NamesOf(u.K) \subseteq MovedBy(u, out)
      /\ LiveBy(u, out) \cap NamesOf(u.K) \subseteq LiveBy(t, out)
      /\ OutOk(u, out)
  <2>1. out = "tail" => u.K.held = <<>>
    BY <1>1, <1>5 DEF OutOk
  <2> QED
    BY <1>1, <1>2, <1>4, <1>5, <2>1, WayOut
<1>7. /\ StoreOk(loc2, layout, u.K, Base, MovedBy(u, out), LiveBy(u, out))
      /\ CastsOk(loc2, u.K) /\ OwnedOk(loc2, rel, nxt, u.K, t.own)
  <2>1. loc2 = DropTo(Len(u.K.locals) + Base)
    BY <1>2
  <2>2. PICK x, ty : x = fr.x /\ ty = OwnType(fr.got.res)
    OBVIOUS
  <2>3. Narrows(t, u, x, ty)
    BY <1>1, <2>2
  <2> QED
    BY <1>6, <2>1, <2>3, Narrowed
<1>8. OwnedOk(loc2, rel2, nxt, u.K, u.own)
  <2>1. OwnedOk(loc2, rel, nxt, u.K, <<fr>> \o u.own)
    BY <1>1, <1>7
  <2>2. rel2 = rel \/ (rel2 = rel \cup {fr.got.obj.n} /\ Foreign(u.own, fr.got.obj.n))
    BY <1>1
  <2> QED
    BY <1>3, <2>1, <2>2, OwnedAround
<1>9. HeldBy(u.own, rel) = HeldBy(u.own, rel2)
  <2>1. CASE rel2 = rel \cup {fr.got.obj.n} /\ fr.got.res = "sockref"
    <3>1. PICK n : n = fr.got.obj.n
      OBVIOUS
    <3>2. Foreign(u.own, n) /\ rel2 = rel \cup {n}
      BY <1>1, <2>1, <3>1
    <3> QED
      BY <1>3, <3>2, HeldByForeign
  <2> QED
    BY <2>1
<1> QED
  BY <1>6, <1>7, <1>8, <1>9 DEF Fits

LEMMA HoldEndKeeps == ASSUME IInv, HoldEnd PROVE IInv'
<1>1. /\ Unwinds("hold") /\ ctl' = Tail(ctl) /\ UNCHANGED <<phase, prog>>
      /\ ReleaseHeld /\ locals' = DropTo(Top.n) /\ UNCHANGED out
  BY DEF HoldEnd, Ends
<1>2. PICK T, fr, t, u : Ending(T, fr, t, u) /\ fr = Top /\ fr.at = "hold"
  BY <1>1, AtEnd
<1>3. /\ RunInv(T) /\ World /\ phase \in {"body", "handler"} /\ nextId \in Nat /\ Base \in Nat
      /\ Good(t) /\ Good(u) /\ Link(fr, t, u, Base) /\ fr \in Frames /\ u.own \in Seq(Frames)
      /\ Stacked(Tail(ctl), Tail(T), Base) /\ Tail(T)[1] = u /\ Tail(T)[Len(Tail(T))] = T[Len(T)]
      /\ Fits(t, locals, layout, nextId, Released, held, out, Base)
  BY <1>2 DEF Ending
<1>4. HoldLink(fr, t, u, Base) /\ SameUnit(t.K, u.K)
  BY <1>2, <1>3 DEF Link
<1>5. /\ t.own = <<fr>> \o u.own /\ GotOk(fr.got)
      /\ fr.got.res # "spinlock" => ~OpenBy(t.K.held)
  BY <1>2, <1>3, <1>4, HoldScope
<1>6. held = HeldBy(<<fr>> \o u.own, Released) /\ OwnedOk(locals, Released, nextId, t.K, t.own)
  BY <1>3, <1>5 DEF Fits
<1>7. ~Bare(fr.x) /\ IsMoved(fr.x) <=> ~Holds(fr, Released)
  BY <1>2, <1>3, <1>4, HoldMoved
<1>8. /\ ~Holds(fr, Released) => UNCHANGED vars
      /\ Holds(fr, Released) => Release(out = "normal")
  BY <1>1, <1>2, <1>7, Zenon DEF ReleaseHeld, Bare
<1>9. PICK hs : hs = HeldBy(u.own, Released)
  OBVIOUS
<1>10. \E rel2 : /\ rel2 = Released \/ (rel2 = Released \cup {fr.got.obj.n} /\ fr.got.res = "sockref")
                 /\ WorldTo(rel2, hs, layout, nextId)
  <2>1. CASE ~Holds(fr, Released)
    <3>1. held = hs
      BY <1>3, <1>6, <1>9, <2>1, HeldByCons
    <3>2. UNCHANGED <<status, held, nextId, trace, layout>>
      BY <1>8, <2>1 DEF vars, protocol, pktVars
    <3>3. WorldTo(Released, hs, layout, nextId)
      BY <1>3, <3>1, <3>2, WorldKept
    <3> QED
      BY <3>3
  <2>2. CASE Holds(fr, Released)
    <3>1. held = <<fr.got>> \o hs
      BY <1>3, <1>6, <1>9, <2>2, HeldByCons
    <3>2. hs \in Seq(Gots) /\ fr.got \in Gots
      BY <1>3, <1>9, HeldByTyped DEF Frames
    <3>3. held # <<>> /\ Head(held) = fr.got /\ Tail(held) = hs
      BY <3>1, <3>2, ConsParts
    <3>4. fr.got.res = "sockref" => fr.got.obj.n \in 0..(nextId - 1)
      <4>1. PICK q : q = t.own
        OBVIOUS
      <4>2. Extends(q, fr, u.own)
        BY <1>3, <1>5, <4>1, ConsExtends
      <4>3. 1 \in DOMAIN q /\ q[1] = fr
        BY <4>2 DEF Extends
      <4> QED
        BY <1>6, <4>1, <4>3 DEF OwnedOk
    <3>5. fr.got.res = "sockref" => ~ForbidsCall({"sockref"})
      <4> SUFFICES ASSUME fr.got.res = "sockref" PROVE ~ForbidsCall({"sockref"})
        OBVIOUS
      <4>1. ~OpenBy(t.K.held)
        BY <1>5
      <4> QED
        BY <1>3, <4>1, LockFree
    <3>6. PICK g : g = fr.got
      OBVIOUS
    <3>7. g.res = "sockref" => g.obj.n \in 0..(nextId - 1) /\ ~ForbidsCall({"sockref"})
      BY <3>4, <3>5, <3>6
    <3>8. g = Head(held) /\ GotOk(g)
      BY <1>5, <3>3, <3>6
    <3>9. /\ g.res # "sockref" => WorldTo(Released, Tail(held), layout, nextId)
          /\ g.res = "sockref" => WorldTo(Released \cup {g.obj.n}, Tail(held), layout, nextId)
      <4>1. PICK o : o = (out = "normal")
        OBVIOUS
      <4>2. Release(o)
        BY <1>8, <2>2, <4>1
      <4> QED
        BY <1>3, <3>3, <3>7, <3>8, <4>2, InnermostReleased
    <3> QED
      BY <3>3, <3>6, <3>9
  <2> QED
    BY <2>1, <2>2
<1>11. PICK rel2 : /\ rel2 = Released \/ (rel2 = Released \cup {fr.got.obj.n} /\ fr.got.res = "sockref")
                   /\ WorldTo(rel2, hs, layout, nextId)
  BY <1>10
<1>12. Fits(u, locals', layout, nextId, rel2, hs, out, Base)
  <2>1. PICK loc2 : loc2 = locals'
    OBVIOUS
  <2>2. loc2 = DropTo(fr.n)
    BY <1>1, <1>2, <2>1
  <2>3. Fits(u, loc2, layout, nextId, rel2, HeldBy(u.own, Released), out, Base)
    BY <1>2, <1>3, <1>4, <1>11, <2>2, HoldEndFits
  <2> QED
    BY <1>9, <2>1, <2>3
<1>13. PICK V : V = Tail(T)
  OBVIOUS
<1>14. Stacked(ctl', V, Base) /\ V[Len(V)] = T[Len(T)] /\ Fits(V[1], locals', layout, nextId, rel2, hs, out', Base)
  BY <1>1, <1>3, <1>12, <1>13
<1> QED
  BY <1>1, <1>3, <1>11, <1>14, Resumed

-----------------------------------------------------------------------------
(* The head of a loop.                                                      *)
LEMMA LoopScope ==
  ASSUME NEW fr, NEW t, NEW u, LoopLink(fr, t, u), Good(t), Good(u)
  PROVE  /\ t.K.locals = u.K.locals /\ t.K.derived = u.K.derived /\ t.own = u.own /\ t.K.held = u.K.held
         /\ NamesOf(t.K) = NamesOf(u.K)
         /\ t.K.loopMoved = t.G.moved /\ NamesOf(t.K) \ t.live \subseteq t.G.dead /\ ~t.G.bottom
         /\ ~u.G.bottom /\ t.G.moved \cap NamesOf(u.K) \subseteq u.G.moved
         /\ t.G.dead \cap NamesOf(u.K) \subseteq u.G.dead
<1>1. t.K = LoopContext(u.K, t.G) /\ u.K \in Contexts
  BY GoodParts DEF LoopLink
<1>2. /\ t.K.locals = u.K.locals /\ t.K.derived = u.K.derived /\ t.K.held = u.K.held
      /\ t.K.loopMoved = t.G.moved
  BY <1>1 DEF LoopContext, Contexts
<1>3. NamesOf(t.K) = NamesOf(u.K)
  BY <1>2 DEF NamesOf
<1> QED
  BY <1>2, <1>3 DEF LoopLink, Covers

(* Every iteration starts from what the loop was entered with.              *)
LEMMA LoopAgain ==
  ASSUME NEW fr, NEW t, NEW u, LoopLink(fr, t, u), Good(t), Good(u), out \in {"normal", "cont"},
         NEW nxt \in Nat, NEW rel, NEW h, Fits(t, locals, layout, nxt, rel, h, out, Base)
  PROVE  Fits(t, locals, layout, nxt, rel, h, "normal", Base)
<1>1. /\ t.K.loopMoved = t.G.moved /\ NamesOf(t.K) \ t.live \subseteq t.G.dead /\ ~t.G.bottom
  BY LoopScope
<1>2. MovedBy(t, out) \cap NamesOf(t.K) \subseteq MovedBy(t, "normal")
  BY <1>1 DEF MovedBy
<1>3. LiveBy(t, "normal") \cap NamesOf(t.K) \subseteq LiveBy(t, out)
  BY <1>1 DEF LiveBy
<1>4. OutOk(t, "normal")
  BY <1>1 DEF OutOk
<1>5. nxt =< nxt
  BY SameNat
<1> QED
  BY <1>2, <1>3, <1>4, <1>5, FitsOn

LEMMA LoopLeft ==
  ASSUME NEW fr, NEW t, NEW u, LoopLink(fr, t, u), SameUnit(t.K, u.K), Good(t), Good(u),
         NEW o, o = IF out \in {"brk", "cont"} THEN "normal" ELSE out,
         NEW nxt \in Nat, NEW rel, NEW h, Fits(t, locals, layout, nxt, rel, h, out, Base)
  PROVE  Fits(u, locals, layout, nxt, rel, h, o, Base)
<1>1. /\ t.K.locals = u.K.locals /\ t.K.derived = u.K.derived /\ t.own = u.own /\ t.K.held = u.K.held
      /\ NamesOf(t.K) = NamesOf(u.K)
      /\ t.K.loopMoved = t.G.moved /\ NamesOf(t.K) \ t.live \subseteq t.G.dead /\ ~t.G.bottom
      /\ ~u.G.bottom /\ t.G.moved \cap NamesOf(u.K) \subseteq u.G.moved
      /\ t.G.dead \cap NamesOf(u.K) \subseteq u.G.dead
  BY LoopScope
<1>2. OutOk(t, out)
  BY DEF Fits
<1>3. CASE out \in {"normal", "brk", "cont"}
  <2>1. o = "normal"
    BY <1>3
  <2>2. MovedBy(t, out) = t.G.moved /\ MovedBy(u, o) = u.G.moved
    BY <1>1, <1>3, <2>1 DEF MovedBy
  <2>3. MovedBy(t, out) \cap NamesOf(t.K) \subseteq MovedBy(u, o)
    BY <1>1, <2>2
  <2>4. LiveBy(u, o) \cap NamesOf(t.K) \subseteq LiveBy(t, out)
    BY <1>1, <1>3, <2>1 DEF LiveBy
  <2>5. OutOk(u, o)
    BY <1>1, <2>1 DEF OutOk
  <2>6. nxt =< nxt
    BY SameNat
  <2> QED
    BY <1>1, <2>3, <2>4, <2>5, <2>6, FitsOn
<1>4. CASE out \in {"ret", "raise", "tail"}
  <2>1. o = out
    BY <1>4
  <2>2. MovedBy(t, out) \cap NamesOf(t.K) \subseteq MovedBy(u, o)
    BY <1>1, <1>4, <2>1 DEF MovedBy
  <2>3. LiveBy(u, o) \cap NamesOf(t.K) \subseteq LiveBy(t, out)
    BY <1>4, <2>1 DEF LiveBy
  <2>4. OutOk(u, o)
    BY <1>1, <1>2, <1>4, <2>1 DEF OutOk, SameUnit
  <2>5. nxt =< nxt
    BY SameNat
  <2> QED
    BY <1>1, <2>2, <2>3, <2>4, <2>5, FitsOn
<1> QED
  BY <1>2, <1>3, <1>4 DEF OutOk

LEMMA LoopStepKeeps == ASSUME IInv, LoopStep PROVE IInv'
<1>1. /\ Unwinds("loop") /\ UNCHANGED <<phase, prog>> /\ locals' = locals
      /\ UNCHANGED <<status, held, nextId, trace, layout>>
      /\ out' = IF out \in {"brk", "cont"} THEN "normal" ELSE out
  BY DEF LoopStep, vars, protocol, pktVars
<1>2. PICK T, fr, t, u : Ending(T, fr, t, u) /\ fr = Top /\ fr.at = "loop"
  BY <1>1, AtEnd
<1>3. /\ RunInv(T) /\ World /\ phase \in {"body", "handler"} /\ nextId \in Nat /\ fr \in Frames
      /\ Good(t) /\ Good(u) /\ Link(fr, t, u, Base) /\ t = T[1] /\ ctl # <<>>
      /\ Stacked(ctl, T, Base) /\ Stacked(Tail(ctl), Tail(T), Base)
      /\ Tail(T)[1] = u /\ Tail(T)[Len(Tail(T))] = T[Len(T)]
      /\ Fits(t, locals, layout, nextId, Released, held, out, Base)
      /\ locals \in Seq(Bindings) /\ Len(locals) = Len(t.K.locals) + Base
  BY <1>2 DEF Ending
<1>4. LoopLink(fr, t, u) /\ SameUnit(t.K, u.K)
  BY <1>2, <1>3 DEF Link
<1>5. WorldTo(Released, held, layout, nextId)
  BY <1>1, <1>3, WorldKept
<1>6. CASE out \in {"normal", "cont"} /\ Top.left > 0
  <2>1. PICK f1, f2 : f1 = Block(fr.rest) /\ f2 = [fr EXCEPT !.left = fr.left - 1]
    OBVIOUS
  <2>2. ctl' = <<f1, f2>> \o Tail(ctl) /\ out' = "normal"
    BY <1>1, <1>2, <1>6, <2>1 DEF LoopStep, LeftAfter
  <2>3. f1 \in Frames /\ f1.at = "block" /\ f1.rest = fr.rest /\ f1.n = Len(locals)
    BY <1>3, <2>1, BlockFrame DEF Frames
  <2>4. f2 \in Frames /\ f2.at = fr.at /\ f2.rest = fr.rest
    BY <1>3, <2>1, SMTT(60) DEF Frames
  <2> HIDE <2>1
  <2>5. Link(f2, t, u, Base)
    BY <1>2, <1>3, <1>4, <2>4 DEF Link, LoopLink
  <2>6. Link(f1, t, t, Base)
    <3>1. BlockLink(f1, t, t, Base)
      BY <1>3, <1>4, <2>3 DEF LoopLink, BlockLink
    <3> QED
      BY <2>3, <3>1 DEF Link, SameUnit
  <2>7. PICK q : q = Tail(ctl)
    OBVIOUS
  <2>8. q \in Seq(Frames) /\ T[2] = u
    BY <1>3, <2>7, StackPopped
  <2>9. PICK U : Stacked(<<f2>> \o q, U, Base) /\ U[1] = t /\ U[Len(U)] = T[Len(T)]
    BY <1>3, <2>4, <2>5, <2>7, <2>8, StackReplaced, SMTT(60)
  <2>10. PICK V : Stacked(<<f1>> \o (<<f2>> \o q), V, Base) /\ V[1] = t /\ V[Len(V)] = U[Len(U)]
    BY <1>3, <2>3, <2>6, <2>9, StackOver
  <2>11. Stacked(ctl', V, Base) /\ V[Len(V)] = T[Len(T)]
    <3>1. ctl' = <<f1, f2>> \o q
      BY <2>2, <2>7
    <3>2. <<f1, f2>> \o q = <<f1>> \o (<<f2>> \o q)
      BY <2>3, <2>4, <2>8, TwoFrames, SMTT(60)
    <3>3. ctl' = <<f1>> \o (<<f2>> \o q)
      BY <3>1, <3>2, Zenon
    <3> QED
      BY <2>9, <2>10, <3>3
  <2>12. Fits(V[1], locals', layout, nextId, Released, held, out', Base)
    BY <1>1, <1>3, <1>4, <1>6, <2>2, <2>10, LoopAgain
  <2> QED
    BY <1>1, <1>3, <1>5, <2>11, <2>12, Resumed
<1>7. CASE ~(out \in {"normal", "cont"} /\ Top.left > 0)
  <2>1. ctl' = Tail(ctl)
    BY <1>7 DEF LoopStep
  <2>2. PICK o : o = out'
    OBVIOUS
  <2>3. Fits(u, locals, layout, nextId, Released, held, o, Base)
    BY <1>1, <1>3, <1>4, <2>2, LoopLeft
  <2>4. PICK V : V = Tail(T)
    OBVIOUS
  <2>5. Stacked(ctl', V, Base) /\ V[Len(V)] = T[Len(T)] /\ Fits(V[1], locals', layout, nextId, Released, held, out', Base)
    BY <1>1, <1>3, <2>1, <2>2, <2>3, <2>4
  <2> QED
    BY <1>1, <1>3, <1>5, <2>5, Resumed
<1> QED
  BY <1>6, <1>7

-----------------------------------------------------------------------------
(* The start of a block of the program, in a store that binds no local.     *)
BlockTypings(T, f, kind, fails, b, base) ==
  /\ Stacked(<<f>>, T, base)
  /\ Len(T) = 2 /\ T[1].K = Context(kind, fails) /\ T[2].K = Context(kind, fails)
  /\ T[1].G = Facts0 /\ T[1].own = <<>> /\ T[2].own = <<>>
  /\ Exits[MaxNesting][b] => T[2].G.bottom

LEMMA EmptyContext ==
  ASSUME NEW kind \in Kinds, NEW fails \in BOOLEAN, NEW K, K = Context(kind, fails)
  PROVE  /\ K \in Contexts /\ NamesOf(K) = {} /\ Bare(OwnerOf(K)) /\ Len(K.locals) = 0
         /\ K.held = <<>> /\ K.locals = <<>> /\ DOMAIN K.locals = {} /\ DOMAIN K.held = {}
         /\ K.loopMoved = {} /\ ~K.inLoop /\ K.mayFail = fails /\ K.kind = kind
         /\ ViewsInScope(K) = {}
<1>1. K \in Contexts
  BY DEF Context, Contexts
<1>2. /\ K.held = <<>> /\ K.locals = <<>> /\ K.loopMoved = {} /\ ~K.inLoop /\ K.mayFail = fails /\ K.kind = kind
  BY DEF Context
<1>3. DOMAIN K.locals = {} /\ DOMAIN K.held = {} /\ Len(K.locals) = 0
  BY <1>2
<1>4. NamesOf(K) = {} /\ ViewsInScope(K) = {}
  BY <1>3 DEF NamesOf, ViewsInScope
<1>5. Bare(OwnerOf(K))
  BY <1>2, Zenon DEF OwnerOf, Bare
<1> QED
  BY <1>1, <1>2, <1>3, <1>4, <1>5

LEMMA StartsFacts == Facts0 \in FactSets /\ Facts0.ok /\ ~Facts0.bottom /\ Facts0.moved = {} /\ Facts0.dead = {}
BY DEF Facts0, FactSets

LEMMA EmptyKnown ==
  ASSUME NEW kind \in Kinds, NEW fails \in BOOLEAN, NEW K, K = Context(kind, fails),
         NEW F \in FactSets, F.ok, F.moved = {}, NEW n \in Nat, NEW t, t = Typing(n, K, F, {}, <<>>)
  PROVE  Good(t) /\ t.n = n /\ t.K = K /\ t.G = F /\ t.live = {} /\ t.own = <<>>
<1>1. /\ K \in Contexts /\ NamesOf(K) = {} /\ DOMAIN K.locals = {} /\ K.loopMoved = {}
      /\ K.held = <<>>
  BY EmptyContext
<1>2. PICK live, own : live = {} /\ own = <<>>
  OBVIOUS
<1>3. t \in Typings /\ t.n = n /\ t.K = K /\ t.G = F /\ t.live = {} /\ t.own = <<>>
  <2>1. live \in SUBSET STRING /\ own \in Seq(Frames)
    BY <1>2
  <2>2. t = Typing(n, K, F, live, own)
    BY <1>2
  <2>3. t \in Typings /\ t.n = n /\ t.K = K /\ t.G = F /\ t.live = live /\ t.own = own
    BY <1>1, <2>1, <2>2, TypingIs
  <2> QED
    BY <1>2, <2>3
<1>4. Scoped(K)
  <2>1. \A i, j \in DOMAIN K.locals : K.locals[i].x = K.locals[j].x => i = j
    BY <1>1
  <2>2. \A x : x \notin NamesOf(K)
    BY <1>1
  <2> QED
    BY <2>1, <2>2, Zenon DEF Scoped
<1>5. Known(K, F, {})
  BY <1>1 DEF Known
<1>6. Mirrors(K, <<>>) /\ Apart(<<>>) /\ Paired(K, <<>>)
  <2>2. DOMAIN own = {} /\ Len(own) = Len(K.held)
    BY <1>1, <1>2
  <2>3. Mirrors(K, own)
    BY <2>2, Zenon DEF Mirrors
  <2>4. Apart(own)
    BY <2>2, Zenon DEF Apart
  <2>5. Paired(K, own)
    <3>1. \A i \in DOMAIN K.locals : FALSE
      BY <1>1
    <3>2. \A j \in DOMAIN own : FALSE
      BY <2>2
    <3> QED
      BY <3>1, <3>2, Zenon DEF Paired
  <2> QED
    BY <1>2, <2>3, <2>4, <2>5
<1> QED
  BY <1>3, <1>4, <1>5, <1>6 DEF Good

LEMMA BlockStarts ==
  ASSUME NEW kind \in Kinds, NEW fails \in BOOLEAN, NEW b \in Blocks[MaxNesting],
         PlainBlock(b), AcceptedBlock(kind, fails, b), NEW base \in Nat,
         NEW f \in Frames, f.at = "block", f.rest = b, f.n = base
  PROVE  \E T : BlockTypings(T, f, kind, fails, b, base)
<1>1. PICK n, K : n = MaxNesting /\ K = Context(kind, fails)
  OBVIOUS
<1>2. PICK G : G = After(n, K, Facts0, b)
  OBVIOUS
<1>3. n \in Nat
  BY <1>1, CheckAssumption
<1>4. /\ K \in Contexts /\ NamesOf(K) = {} /\ Bare(OwnerOf(K)) /\ Len(K.locals) = 0
      /\ K.held = <<>> /\ K.locals = <<>> /\ ViewsInScope(K) = {}
  BY <1>1, EmptyContext
<1>5. b \in Blocks[n] /\ G \in FactSets /\ G.ok
  BY <1>1, <1>2, <1>3, <1>4, StartsFacts, AfterTyped DEF AcceptedBlock
<1>6. Plain[n][NamesOf(K)][OwnerOf(K)][b]
  BY <1>1, <1>4, Zenon DEF PlainBlock, Bare
<1>7. Follows(K, Facts0, G, ResizeIn[n][b], Exits[n][b])
  <2>1. OwnerOf(K) \in Owners
    BY <1>4, OwnerTyped
  <2>2. BlocksFollow(n)
    BY <1>3, AllFollow
  <2>3. After(n, K, Facts0, b).ok
    BY <1>2, <1>5
  <2>4. Follows(K, Facts0, After(n, K, Facts0, b), ResizeIn[n][b], Exits[n][b])
    BY <1>4, <1>5, <1>6, <2>1, <2>2, <2>3, StartsFacts DEF BlocksFollow
  <2> QED
    BY <1>2, <2>4
<1>8. G.moved = {} /\ (Exits[n][b] => G.bottom)
  <2>1. Facts0.moved \subseteq NamesOf(K)
    BY StartsFacts
  <2> QED
    BY <1>4, <1>7, <2>1 DEF Follows
<1>9. PICK t, u : t = Typing(n, K, Facts0, {}, <<>>) /\ u = Typing(n, K, G, {}, <<>>)
  OBVIOUS
<1>10. Good(t) /\ t.n = n /\ t.K = K /\ t.G = Facts0 /\ t.live = {} /\ t.own = <<>>
  BY <1>1, <1>3, <1>9, StartsFacts, EmptyKnown
<1>11. Good(u) /\ u.n = n /\ u.K = K /\ u.G = G /\ u.live = {} /\ u.own = <<>>
  BY <1>1, <1>3, <1>5, <1>8, <1>9, EmptyKnown
<1> HIDE <1>9
<1>12. EndOf(t, b) = G
  BY <1>2, <1>10 DEF EndOf
<1>13. Checked(t, b)
  <2>1. EndOf(t, b).ok /\ b \in Blocks[t.n]
    BY <1>5, <1>10, <1>12
  <2>2. Plain[t.n][NamesOf(t.K)][OwnerOf(t.K)][b]
    BY <1>6, <1>10
  <2>3. t.live \cap ViewsInScope(t.K) = {}
    BY <1>4, <1>10
  <2> QED
    BY <2>1, <2>2, <2>3 DEF Checked
<1>14. Link(f, t, u, base)
  <2>1. Covers(u.K, EndOf(t, f.rest), u.G)
    BY <1>11, <1>12, SelfCovers
  <2>2. BlockLink(f, t, u, base)
    BY <1>4, <1>10, <1>11, <1>13, <2>1 DEF BlockLink
  <2> QED
    BY <1>10, <1>11, <2>2 DEF Link, SameUnit
<1>15. Stacked(<<>>, <<u>>, base)
  <2>1. u \in Typings
    BY <1>11 DEF Good
  <2> QED
    BY <1>11, <2>1 DEF Stacked
<1>16. PICK T : T = <<t>> \o <<u>>
  OBVIOUS
<1>17. Stacked(<<f>> \o <<>>, T, base)
  <2>1. <<u>>[1] = u
    OBVIOUS
  <2> QED
    BY <1>10, <1>14, <1>15, <1>16, <2>1, StackPushed
<1>18. Len(T) = 2 /\ T[1] = t /\ T[2] = u
  BY <1>16
<1>19. <<f>> \o <<>> = <<f>>
  OBVIOUS
<1>20. Stacked(<<f>>, T, base)
  BY <1>17, <1>19, Zenon
<1>21. BlockTypings(T, f, kind, fails, b, base)
  BY <1>1, <1>8, <1>10, <1>11, <1>18, <1>20 DEF BlockTypings
<1> QED
  BY <1>21

(* The store then holds no local, and no cast.                              *)
LEMMA BlockFits ==
  ASSUME NEW kind \in Kinds, NEW fails \in BOOLEAN, NEW b, NEW base \in Nat, NEW f, NEW T,
         BlockTypings(T, f, kind, fails, b, base),
         NEW loc \in Seq(Bindings), Len(loc) = base, \A i \in DOMAIN loc : loc[i].kind # "cast",
         NEW lay, NEW nxt, NEW rel
  PROVE  Fits(T[1], loc, lay, nxt, rel, <<>>, "normal", base)
<1>1. PICK t : t = T[1]
  OBVIOUS
<1>2. t.K = Context(kind, fails) /\ t.G = Facts0 /\ t.own = <<>>
  BY <1>1 DEF BlockTypings
<1>3. Len(t.K.locals) = 0 /\ DOMAIN t.K.locals = {}
  BY <1>2, EmptyContext
<1>4. StoreOk(loc, lay, t.K, base, MovedBy(t, "normal"), LiveBy(t, "normal"))
  BY <1>3 DEF StoreOk
<1>5. CastsOk(loc, t.K)
  BY <1>3 DEF CastsOk
<1>6. OwnedOk(loc, rel, nxt, t.K, t.own)
  <2>1. DOMAIN t.own = {}
    BY <1>2
  <2> QED
    BY <2>1 DEF OwnedOk
<1>7. <<>> = HeldBy(t.own, rel)
  BY <1>2, HeldByNone
<1>8. OutOk(t, "normal")
  BY <1>2, StartsFacts DEF OutOk
<1> QED
  BY <1>1, <1>4, <1>5, <1>6, <1>7, <1>8 DEF Fits

-----------------------------------------------------------------------------
(* The ends of the body and of the handler.                                 *)
LEMMA AtBase ==
  ASSUME IInv, Executing, ctl = <<>>
  PROVE  /\ World /\ phase \in {"body", "handler"} /\ ProgOk /\ held = <<>>
         /\ \A i \in DOMAIN locals : locals[i].kind # "cast"
         /\ out \in {"normal", "ret", "raise", "tail"}
         /\ out = "raise" => phase = "body"
         /\ out = "normal" => phase = "body" /\ ~prog.kind.pkt
<1>1. World /\ phase \in {"body", "handler"}
  BY DEF IInv, Executing
<1>2. PICK T : RunInv(T)
  BY <1>1 DEF IInv
<1>3. /\ Stacked(<<>>, T, Base) /\ Bottom(T[Len(T)]) /\ ProgOk
      /\ Fits(T[1], locals, layout, nextId, Released, held, out, Base)
  BY <1>2 DEF RunInv
<1>4. Len(T) = 1
  BY <1>3, StackEmpty
<1>5. PICK t : t = T[1]
  OBVIOUS
<1>6. Bottom(t) /\ Fits(t, locals, layout, nextId, Released, held, out, Base)
  BY <1>3, <1>4, <1>5
<1>7. /\ ~t.K.inLoop /\ t.K.locals = <<>> /\ t.own = <<>>
      /\ t.K.mayFail = (phase = "body")
      /\ phase = "handler" \/ prog.kind.verdicts => t.G.bottom
  BY <1>6, Zenon DEF Bottom
<1>8. held = <<>>
  BY <1>6, <1>7, HeldByNone DEF Fits
<1>9. \A i \in DOMAIN locals : locals[i].kind # "cast"
  <2>1. DOMAIN t.K.locals = {}
    BY <1>7
  <2>2. StoreOk(locals, layout, t.K, Base, MovedBy(t, out), LiveBy(t, out))
    BY <1>6 DEF Fits
  <2> QED
    BY <2>1, <2>2 DEF StoreOk
<1>10. OutOk(t, out)
  BY <1>6 DEF Fits
<1>11. /\ out \in {"normal", "ret", "raise", "tail"}
       /\ out = "raise" => t.K.mayFail
       /\ out = "normal" => ~t.G.bottom
  BY <1>7, <1>10 DEF OutOk
<1>12. out = "raise" => phase = "body"
  BY <1>7, <1>11
<1>13. out = "normal" => phase = "body" /\ ~prog.kind.pkt
  <2>1. prog.kind.pkt => prog.kind.verdicts
    BY <1>3 DEF ProgOk
  <2> QED
    BY <1>1, <1>7, <1>11, <2>1
<1> QED
  BY <1>1, <1>3, <1>8, <1>9, <1>11, <1>12, <1>13

LEMMA Halted ==
  ASSUME World, Halt, ctl = <<>>, held = <<>>, \A i \in DOMAIN locals : locals[i].kind # "cast"
  PROVE  IInv'
<1>1. /\ phase' = "done" /\ UNCHANGED <<prog, ctl, out, locals>>
      /\ UNCHANGED <<status, held, nextId, trace, layout>>
  BY DEF Halt, vars, protocol, pktVars
<1>2. World' /\ held' = <<>>
  BY <1>1, WorldKept DEF WorldTo
<1>3. LexicalHolds'
  <2>1. ctl' = <<>>
    BY <1>1
  <2>2. HeldBy(<<>>, Released') = <<>>
    BY HeldByNone
  <2> QED
    BY <1>2, <2>1, <2>2 DEF LexicalHolds
<1>4. CastsGuarded'
  BY <1>1, SMTT(60) DEF CastsGuarded
<1> QED
  BY <1>1, <1>2, <1>3, <1>4 DEF IInv

LEMMA BodyEndKeeps == ASSUME IInv, BodyEnd PROVE IInv'
<1>1. Executing /\ phase = "body" /\ ctl = <<>>
  BY DEF BodyEnd
<1>2. /\ World /\ ProgOk /\ held = <<>>
      /\ \A i \in DOMAIN locals : locals[i].kind # "cast"
      /\ out \in {"normal", "ret", "raise", "tail"}
      /\ out = "normal" => ~prog.kind.pkt
  BY <1>1, AtBase
<1>3. CASE out \in {"normal", "ret", "tail"}
  <2>1. Halt
    BY <1>2, <1>3 DEF BodyEnd
  <2> QED
    BY <1>1, <1>2, <2>1, Halted
<1>4. CASE out = "raise"
  <2>1. /\ phase' = "handler" /\ out' = "normal" /\ UNCHANGED prog
        /\ locals' = <<Binding("reason", "value", 0, -1)>>
        /\ ctl' = <<BlockFor(prog.handler, 1)>>
        /\ UNCHANGED <<status, held, nextId, trace, layout>>
    BY <1>2, <1>4 DEF BodyEnd, BlockFor, vars, protocol, pktVars
  <2>2. PICK b, kind, loc, f : /\ b = prog.handler /\ kind = prog.kind
                               /\ loc = locals' /\ f = BlockFor(b, 1)
    OBVIOUS
  <2>3. /\ kind \in Kinds /\ b \in Blocks[MaxNesting] /\ PlainBlock(b) /\ AcceptedBlock(kind, FALSE, b)
        /\ Exits[MaxNesting][b] /\ b \in AnyBlock
    <3>1. b \in Blocks[MaxNesting] /\ kind \in Kinds
      BY <1>2, <2>2 DEF ProgOk, Programs
    <3> QED
      BY <1>2, <2>2, <3>1, CheckAssumption, BlockOfLevel DEF ProgOk
  <2>4. f \in Frames /\ f.at = "block" /\ f.rest = b /\ f.n = 1
    <3>1. locals \in Seq(Bindings)
      <4>1. PICK T : RunInv(T)
        BY <1>1 DEF IInv
      <4> QED
        BY <4>1 DEF RunInv, Fits, StoreOk
    <3> QED
      BY <2>2, <2>3, <3>1, BlockOver
  <2>5. loc \in Seq(Bindings) /\ Len(loc) = 1 /\ \A i \in DOMAIN loc : loc[i].kind # "cast"
    <3>1. PICK v : v = Binding("reason", "value", 0, -1)
      OBVIOUS
    <3>2. v \in Bindings /\ v.kind = "value"
      <4>1. "reason" \in Labels
        BY DEF Labels
      <4> QED
        BY <3>1, <4>1, BindingTyped
    <3>3. loc = <<v>>
      BY <2>1, <2>2, <3>1
    <3> QED
      BY <3>2, <3>3
  <2>6. PICK T : BlockTypings(T, f, kind, FALSE, b, 1)
    BY <2>3, <2>4, BlockStarts
  <2>7. Fits(T[1], loc, layout, nextId, Released, <<>>, "normal", 1)
    BY <2>3, <2>5, <2>6, BlockFits
  <2>8. WorldTo(Released, held, layout, nextId)
    BY <1>2, <2>1, WorldKept
  <2>9. Base' = 1
    BY <2>1, SMTT(60) DEF Base
  <2>10. Stacked(ctl', T, Base')
    BY <2>1, <2>2, <2>6, <2>9 DEF BlockTypings
  <2>11. Fits(T[1], locals', layout', nextId', Released', held', out', Base')
    <3>1. layout' = layout /\ nextId' = nextId /\ Released' = Released /\ held' = <<>>
      BY <1>2, <2>8 DEF WorldTo
    <3> QED
      BY <2>1, <2>2, <2>7, <2>9, <3>1
  <2>12. Bottom(T[Len(T)])'
    <3>1. PICK u : u = T[2]
      OBVIOUS
    <3>2. T[Len(T)] = u /\ u.K = Context(kind, FALSE) /\ u.own = <<>> /\ u.G.bottom
      BY <2>3, <2>6, <3>1 DEF BlockTypings
    <3>3. ~u.K.inLoop /\ u.K.held = <<>> /\ u.K.locals = <<>> /\ u.K.mayFail = FALSE
      <4>1. PICK K, no : K = u.K /\ no = FALSE
        OBVIOUS
      <4>2. K = Context(kind, no) /\ no \in BOOLEAN
        BY <3>2, <4>1
      <4>3. ~K.inLoop /\ K.held = <<>> /\ K.locals = <<>> /\ K.mayFail = no
        BY <2>3, <4>2, EmptyContext
      <4> QED
        BY <4>1, <4>3
    <3>4. Bottom(u)'
      BY <2>1, <3>2, <3>3 DEF Bottom
    <3> QED
      BY <3>2, <3>4
  <2>13. ProgOk'
    BY <1>2, <2>1 DEF ProgOk
  <2>14. RunInv(T)'
    BY <2>10, <2>11, <2>12, <2>13 DEF RunInv
  <2>15. World'
    BY <2>8 DEF WorldTo
  <2> QED
    BY <2>1, <2>14, <2>15 DEF IInv
<1> QED
  BY <1>2, <1>3, <1>4

LEMMA HandlerEndKeeps == ASSUME IInv, HandlerEnd PROVE IInv'
<1>1. Executing /\ phase = "handler" /\ ctl = <<>>
  BY DEF HandlerEnd
<1>2. /\ World /\ held = <<>>
      /\ \A i \in DOMAIN locals : locals[i].kind # "cast"
      /\ out \in {"normal", "ret", "raise", "tail"}
      /\ out = "raise" => phase = "body"
      /\ out = "normal" => phase = "body"
  BY <1>1, AtBase
<1>3. out \in {"ret", "tail"}
  BY <1>1, <1>2
<1>4. Halt
  BY <1>3 DEF HandlerEnd
<1> QED
  BY <1>1, <1>2, <1>4, Halted

-----------------------------------------------------------------------------
(* The checker's verdict on the program, and the start of a run.            *)
LEMMA CheckUnitKeeps == ASSUME IInv, CheckUnit PROVE IInv'
<1>1. /\ phase = "source" /\ UNCHANGED <<out, locals>>
      /\ UNCHANGED <<status, held, nextId, trace, layout>>
  BY DEF CheckUnit, vars, protocol, pktVars
<1>2. /\ World /\ prog \in PlainPrograms
      /\ ctl = <<>> /\ out = "normal" /\ locals = <<>> /\ held = <<>>
  BY <1>1 DEF IInv
<1>3. /\ prog \in Programs /\ PlainBlock(prog.body) /\ PlainBlock(prog.handler)
      /\ prog.kind.pkt => prog.kind.verdicts
  BY <1>2 DEF PlainPrograms
<1>4. WorldTo(Released, held, layout, nextId)
  BY <1>1, <1>2, WorldKept
<1>5. CASE ~CheckProgram(prog)
  <2>1. phase' = "rejected" /\ UNCHANGED <<prog, ctl>>
    BY <1>1, <1>5 DEF CheckUnit
  <2>2. World' /\ held' = <<>> /\ ctl' = <<>> /\ locals' = <<>>
    BY <1>1, <1>2, <1>4, <2>1 DEF WorldTo
  <2>3. LexicalHolds'
    <3>1. HeldBy(<<>>, Released') = <<>>
      BY HeldByNone
    <3> QED
      BY <2>2, <3>1 DEF LexicalHolds
  <2>4. CastsGuarded'
    BY <2>2 DEF CastsGuarded
  <2> QED
    BY <2>1, <2>2, <2>3, <2>4 DEF IInv
<1>6. CASE CheckProgram(prog)
  <2>1. /\ phase' = "body" /\ ctl' = <<Block(prog.body)>>
        /\ prog' = [prog EXCEPT !.body = <<>>]
    BY <1>1, <1>6 DEF CheckUnit
  <2>2. PICK b, kind, f, yes : /\ b = prog.body /\ kind = prog.kind /\ f = Block(b) /\ yes = TRUE
    OBVIOUS
  <2>3. /\ AcceptedBlock(kind, yes, b)
        /\ kind.verdicts => Exits[MaxNesting][b]
        /\ AcceptedBlock(kind, FALSE, prog.handler) /\ Exits[MaxNesting][prog.handler]
    BY <1>6, <2>2 DEF CheckProgram, AcceptedBlock, After
  <2>4. /\ kind \in Kinds /\ b \in Blocks[MaxNesting] /\ PlainBlock(b) /\ yes \in BOOLEAN /\ b \in AnyBlock
    <3>1. b \in Blocks[MaxNesting] /\ kind \in Kinds
      BY <1>3, <2>2 DEF Programs
    <3> QED
      BY <1>3, <2>2, <3>1, CheckAssumption, BlockOfLevel
  <2>5. f \in Frames /\ f.at = "block" /\ f.rest = b /\ f.n = 0
    BY <1>2, <2>2, <2>4, BlockFrame
  <2>6. PICK T : BlockTypings(T, f, kind, yes, b, 0)
    BY <2>3, <2>4, <2>5, BlockStarts
  <2>7. Fits(T[1], <<>>, layout, nextId, Released, <<>>, "normal", 0)
    <3>1. PICK loc : loc = <<>>
      OBVIOUS
    <3>2. loc \in Seq(Bindings) /\ Len(loc) = 0 /\ \A i \in DOMAIN loc : loc[i].kind # "cast"
      BY <3>1
    <3>3. Fits(T[1], loc, layout, nextId, Released, <<>>, "normal", 0)
      <4>1. PICK base : base = 0
        OBVIOUS
      <4>2. /\ base \in Nat /\ BlockTypings(T, f, kind, yes, b, base) /\ Len(loc) = base
            /\ loc \in Seq(Bindings) /\ \A i \in DOMAIN loc : loc[i].kind # "cast"
        BY <2>6, <3>2, <4>1
      <4>3. Fits(T[1], loc, layout, nextId, Released, <<>>, "normal", base)
        BY <2>4, <4>2, BlockFits
      <4> QED
        BY <4>1, <4>3
    <3> QED
      BY <3>1, <3>3
  <2>8. Base' = 0
    BY <2>1 DEF Base
  <2>9. Stacked(ctl', T, Base')
    BY <2>1, <2>2, <2>6, <2>8 DEF BlockTypings
  <2>10. Fits(T[1], locals', layout', nextId', Released', held', out', Base')
    <3>1. layout' = layout /\ nextId' = nextId /\ Released' = Released /\ held' = <<>>
      BY <1>2, <1>4 DEF WorldTo
    <3> QED
      BY <1>1, <1>2, <2>7, <2>8, <3>1
  <2>11. Bottom(T[Len(T)])'
    <3>1. PICK u, K : u = T[2] /\ K = u.K
      OBVIOUS
    <3>2. /\ T[Len(T)] = u /\ K = Context(kind, yes) /\ u.own = <<>>
          /\ kind.verdicts => u.G.bottom
      BY <2>3, <2>6, <3>1 DEF BlockTypings
    <3>3. ~K.inLoop /\ K.held = <<>> /\ K.locals = <<>> /\ K.mayFail = yes
      BY <2>4, <3>2, EmptyContext
    <3>4. prog'.kind = kind
      BY <1>3, <2>1, <2>2 DEF Programs
    <3>5. Bottom(u)'
      BY <2>1, <2>2, <3>1, <3>2, <3>3, <3>4 DEF Bottom
    <3> QED
      BY <3>2, <3>5
  <2>12. ProgOk'
    <3>1. <<>> \in Blocks[MaxNesting]
      BY CheckAssumption, EmptyBlock
    <3>2. prog' \in Programs /\ prog'.handler = prog.handler /\ prog'.kind = prog.kind
      BY <1>3, <2>1, <3>1 DEF Programs
    <3> QED
      BY <1>3, <2>2, <2>3, <3>2 DEF ProgOk
  <2>13. RunInv(T)'
    BY <2>9, <2>10, <2>11, <2>12 DEF RunInv
  <2>14. World'
    BY <1>4 DEF WorldTo
  <2> QED
    BY <2>1, <2>13, <2>14 DEF IInv
<1> QED
  BY <1>5, <1>6

LEMMA StutterKeeps == ASSUME IInv, UNCHANGED allVars PROVE IInv'
<1>1. /\ UNCHANGED <<phase, prog, ctl, out, locals>>
      /\ UNCHANGED <<status, held, nextId, trace, layout>>
  BY DEF allVars, coreVars, vars, protocol, pktVars
<1>2. World
  BY DEF IInv
<1>3. WorldTo(Released, held, layout, nextId)
  BY <1>1, <1>2, WorldKept
<1>4. CASE phase \in {"body", "handler"}
  <2>1. PICK T : RunInv(T)
    BY <1>4 DEF IInv
  <2>2. /\ Stacked(ctl', T, Base)
        /\ Fits(T[1], locals', layout, nextId, Released, held, out', Base)
    BY <1>1, <2>1 DEF RunInv
  <2> QED
    BY <1>1, <1>3, <1>4, <2>1, <2>2, Resumed
<1>5. CASE phase \notin {"body", "handler"}
  <2>1. World' /\ Released' = Released
    BY <1>3 DEF WorldTo
  <2>2. LexicalHolds => LexicalHolds'
    BY <1>1, <2>1 DEF LexicalHolds
  <2>3. CastsGuarded => CastsGuarded'
    BY <1>1 DEF CastsGuarded, HeldSockets
  <2> QED
    BY <1>1, <1>5, <2>1, <2>2, <2>3 DEF IInv
<1> QED
  BY <1>4, <1>5

LEMMA InitFits == ASSUME NEW p \in PlainPrograms, CoreInit(p) PROVE IInv
<1>1. /\ status = "running" /\ nextId = 0 /\ layout \in Nat /\ trace = <<>> /\ held = <<>>
      /\ phase = "source" /\ prog = p
      /\ ctl = <<>> /\ out = "normal" /\ locals = <<>>
  BY DEF CoreInit, Init
<1>2. Released = {}
  BY <1>1 DEF Released, TracedWith
<1>3. World
  BY <1>1, <1>2 DEF World
<1> QED
  BY <1>1, <1>3 DEF IInv

-----------------------------------------------------------------------------
(* The invariant, and what it says.                                         *)
LEMMA StepKeeps == ASSUME IInv, [CoreNext]_allVars PROVE IInv'
<1>1. CASE CheckUnit
  BY <1>1, CheckUnitKeeps
<1>2. CASE Run
  <2>1. CASE ExecUse
    BY <2>1, UseKeeps
  <2>2. CASE ExecCall
    BY <2>2, CallKeeps
  <2>3. CASE ExecGive
    BY <2>3, GiveKeeps
  <2>4. CASE ExecExit
    BY <2>4, ExitKeeps
  <2>5. CASE ExecIte
    BY <2>5, IteKeeps
  <2>6. CASE ExecLoop
    BY <2>6, LoopKeeps
  <2>7. CASE ExecTry
    BY <2>7, TryKeeps
  <2>8. CASE ExecTail
    BY <2>8, TailKeeps
  <2>9. CASE ExecHold
    BY <2>9, HoldKeeps
  <2>10. CASE BlockEnd
    BY <2>10, BlockEndKeeps
  <2>11. CASE TryEnd
    BY <2>11, TryEndKeeps
  <2>12. CASE HoldEnd
    BY <2>12, HoldEndKeeps
  <2>13. CASE LoopStep
    BY <2>13, LoopStepKeeps
  <2>14. CASE BodyEnd
    BY <2>14, BodyEndKeeps
  <2>15. CASE HandlerEnd
    BY <2>15, HandlerEndKeeps
  <2> QED
    BY <1>2, <2>1, <2>2, <2>3, <2>4, <2>5, <2>6, <2>7, <2>8, <2>9, <2>10, <2>11, <2>12, <2>13,
       <2>14, <2>15 DEF Run
<1>3. CASE Ended
  <2>1. UNCHANGED allVars
    BY <1>3 DEF Ended
  <2> QED
    BY <2>1, StutterKeeps
<1>4. CASE UNCHANGED allVars
  BY <1>4, StutterKeeps
<1> QED
  BY <1>1, <1>2, <1>3, <1>4 DEF CoreNext

LEMMA HoldsLexically == ASSUME IInv PROVE LexicalHolds
<1>1. CASE phase = "source"
  <2>1. ctl = <<>> /\ held = <<>>
    BY <1>1 DEF IInv
  <2> QED
    BY <2>1, HeldByNone DEF LexicalHolds
<1>2. CASE phase \in {"body", "handler"}
  <2>1. PICK T : RunInv(T)
    BY <1>2 DEF IInv
  <2>2. Stacked(ctl, T, Base) /\ T[Len(T)].own = <<>>
    BY <2>1 DEF RunInv, Bottom
  <2>3. HeldBy(ctl, Released) = HeldBy(T[1].own, Released)
    BY <2>2, HoldsOfStack
  <2>4. held = HeldBy(T[1].own, Released)
    BY <2>1 DEF RunInv, Fits
  <2> QED
    BY <2>3, <2>4 DEF LexicalHolds
<1>3. CASE phase \in {"rejected", "done"}
  BY <1>3 DEF IInv
<1> QED
  BY <1>1, <1>2, <1>3 DEF IInv

(* The socket a cast derives from is under a hold of its own, and not       *)
(* handed away.                                                             *)
LEMMA CastsHeld ==
  ASSUME NEW t, Good(t), NEW loc, NEW lay, NEW nxt, NEW rel, NEW h, NEW o, NEW base \in Nat,
         Fits(t, loc, lay, nxt, rel, h, o, base), NEW i \in DOMAIN loc, loc[i].kind = "cast"
  PROVE  \E m \in DOMAIN h : h[m].res = "sockref" /\ h[m].obj.n = loc[i].of
<1>1. /\ t.K \in Contexts /\ t.own \in Seq(Frames) /\ Mirrors(t.K, t.own) /\ Paired(t.K, t.own)
  BY GoodParts
<1>2. PICK m, l : m = MovedBy(t, o) /\ l = LiveBy(t, o)
  OBVIOUS
<1>3. /\ StoreOk(loc, lay, t.K, base, m, l) /\ CastsOk(loc, t.K) /\ OwnedOk(loc, rel, nxt, t.K, t.own)
      /\ h = HeldBy(t.own, rel)
  BY <1>2 DEF Fits
<1>4. i \in DOMAIN t.K.locals
  BY <1>3 DEF StoreOk
<1>5. t.K.locals[i].ty = "cast"
  <2>1. t.K.locals[i].ty \in Types
    BY <1>1, <1>4, LocalsTyped
  <2>2. HoldsAs(loc[i], t.K.locals[i].ty, lay, t.K.locals[i].x \in m, t.K.locals[i].x \in l)
    BY <1>3, <1>4 DEF StoreOk
  <2> QED
    BY <2>1, <2>2 DEF HoldsAs, Types
<1>6. PICK j \in DOMAIN t.K.locals :
        t.K.locals[j].ty = "sock" /\ loc[j].kind = "own" /\ loc[j].n = loc[i].of
  BY <1>3, <1>4, <1>5 DEF CastsOk, Guarded
<1>7. PICK k \in DOMAIN t.own : t.own[k].x = t.K.locals[j].x /\ t.own[k].got.res = "sockref"
  BY <1>1, <1>6 DEF Paired
<1>8. /\ loc[j].n = t.own[k].got.obj.n
      /\ loc[j].kind = "moved" <=> t.own[k].got.res = "sockref" /\ t.own[k].got.obj.n \in rel
  BY <1>3, <1>6, <1>7 DEF OwnedOk
<1>9. Holds(t.own[k], rel)
  <2>1. t.own[k].at = "hold"
    BY <1>1, <1>7 DEF Mirrors
  <2> QED
    BY <1>6, <1>7, <1>8, <2>1 DEF Holds
<1>10. PICK q \in DOMAIN HeldBy(t.own, rel) : HeldBy(t.own, rel)[q] = t.own[k].got
  BY <1>1, <1>7, <1>9, HeldByEntries, ZenonT(60)
<1> QED
  BY <1>3, <1>6, <1>7, <1>8, <1>10

LEMMA GuardsCasts == ASSUME IInv PROVE CastsGuarded
<1>1. CASE phase = "source"
  <2>1. locals = <<>>
    BY <1>1 DEF IInv
  <2> QED
    BY <2>1 DEF CastsGuarded
<1>2. CASE phase \in {"body", "handler"}
  <2>1. PICK T : RunInv(T)
    BY <1>2 DEF IInv
  <2>2. Stacked(ctl, T, Base) /\ Fits(T[1], locals, layout, nextId, Released, held, out, Base)
    BY <2>1 DEF RunInv
  <2>3. Base \in Nat
    BY DEF Base
  <2>4. PICK t : t = T[1]
    OBVIOUS
  <2>5. Good(t)
    <3>1. T \in Seq(Typings) /\ Len(T) = Len(ctl) + 1 /\ ctl \in Seq(Frames) /\ \A i \in DOMAIN T : Good(T[i])
      BY <2>2 DEF Stacked
    <3>2. 1 \in DOMAIN T
      BY <3>1
    <3> QED
      BY <2>4, <3>1, <3>2
  <2>6. SUFFICES ASSUME NEW i \in DOMAIN locals, locals[i].kind = "cast"
                 PROVE  locals[i].of \in HeldSockets
    BY DEF CastsGuarded
  <2>7. PICK m \in DOMAIN held : held[m].res = "sockref" /\ held[m].obj.n = locals[i].of
    BY <2>2, <2>3, <2>4, <2>5, <2>6, CastsHeld
  <2> QED
    BY <2>7 DEF HeldSockets
<1>3. CASE phase \in {"rejected", "done"}
  BY <1>3 DEF IInv
<1> QED
  BY <1>1, <1>2, <1>3 DEF IInv

(* Only a taken tail call sets the outcome to one.                          *)
LEMMA OnlyTails ==
  ASSUME [CoreNext]_allVars, out # "tail", out' = "tail"
  PROVE  ExecTail
<1>1. ~UNCHANGED out
  OBVIOUS
<1>2. ~UNCHANGED allVars /\ ~Ended /\ ~CheckUnit
  BY <1>1 DEF allVars, coreVars, Ended, CheckUnit
<1>3. ~Errs
  BY <1>1 DEF Errs, coreVars
<1>4. ~ExecUse
  BY <1>1, <1>3 DEF ExecUse, Goto
<1>5. ~ExecCall /\ ~ExecIte /\ ~ExecLoop
  BY <1>1 DEF ExecCall, ExecIte, ExecLoop, Goto
<1>6. ~ExecGive
  BY <1>1, <1>3 DEF ExecGive, Goto
<1>7. ~ExecExit
  BY DEF ExecExit
<1>8. ~ExecTry /\ ~ExecHold
  BY <1>1 DEF ExecTry, ExecHold
<1>9. ~BlockEnd /\ ~TryEnd /\ ~HoldEnd
  BY <1>1 DEF BlockEnd, TryEnd, HoldEnd
<1>10. ~LoopStep
  BY DEF LoopStep
<1>11. ~BodyEnd /\ ~HandlerEnd
  BY <1>1, <1>3 DEF BodyEnd, HandlerEnd, Halt
<1> QED
  BY <1>2, <1>4, <1>5, <1>6, <1>7, <1>8, <1>9, <1>10, <1>11 DEF CoreNext, Run

LEMMA TailsHoldNothing ==
  ASSUME IInv, [CoreNext]_allVars
  PROVE  [out # "tail" /\ out' = "tail" => held = <<>>]_allVars
<1>1. SUFFICES ASSUME out # "tail", out' = "tail" PROVE held = <<>>
  OBVIOUS
<1>2. ExecTail
  BY <1>1, OnlyTails
<1> QED
  BY <1>2, TailKeeps

-----------------------------------------------------------------------------
(* The safety half of T1: a program the checker accepts, whatever it is and *)
(* however long it runs, never asks the machine for what it refuses, never  *)
(* uses a dead name, and ends where a body may (Interp.lean, Stmt.lean).    *)
THEOREM AcceptedRunsAreNeverRefused ==
  ASSUME NEW p \in PlainPrograms
  PROVE  CoreSpec(p) => []NeverRefused
<1>1. CoreInit(p) => IInv
  BY InitFits
<1>2. IInv /\ [CoreNext]_allVars => IInv'
  BY StepKeeps
<1>3. IInv => NeverRefused
  BY DEF IInv, World, NeverRefused
<1> QED
  BY <1>1, <1>2, <1>3, PTL DEF CoreSpec

(* What the machine holds is what the holds being executed took and did not *)
(* hand away, innermost first, in every state of every accepted program     *)
(* (Interp.lean hold).                                                      *)
THEOREM HoldsAreLexical ==
  ASSUME NEW p \in PlainPrograms
  PROVE  CoreSpec(p) => []LexicalHolds
<1>1. CoreInit(p) => IInv
  BY InitFits
<1>2. IInv /\ [CoreNext]_allVars => IInv'
  BY StepKeeps
<1>3. IInv => LexicalHolds
  BY HoldsLexically
<1> QED
  BY <1>1, <1>2, <1>3, PTL DEF CoreSpec

(* A socket cast in scope has its socket held, through every exit, move and *)
(* iteration of an accepted program (Check/Expr.lean checkArg).             *)
THEOREM CastsAreGuarded ==
  ASSUME NEW p \in PlainPrograms
  PROVE  CoreSpec(p) => []CastsGuarded
<1>1. CoreInit(p) => IInv
  BY InitFits
<1>2. IInv /\ [CoreNext]_allVars => IInv'
  BY StepKeeps
<1>3. IInv => CastsGuarded
  BY GuardsCasts
<1> QED
  BY <1>1, <1>2, <1>3, PTL DEF CoreSpec

(* A tail call of an accepted program is taken with nothing held            *)
(* (Check/Expr.lean tail).                                                  *)
THEOREM TailCallsHoldNothing ==
  ASSUME NEW p \in PlainPrograms
  PROVE  CoreSpec(p) => TailHoldsNothing
<1>1. CoreInit(p) => IInv
  BY InitFits
<1>2. IInv /\ [CoreNext]_allVars => IInv'
  BY StepKeeps
<1>3. IInv /\ [CoreNext]_allVars => [out # "tail" /\ out' = "tail" => held = <<>>]_allVars
  BY TailsHoldNothing
<1> QED
  BY <1>1, <1>2, <1>3, PTL DEF CoreSpec, TailHoldsNothing
=============================================================================
