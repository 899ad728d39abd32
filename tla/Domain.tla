------------------------------- MODULE Domain -------------------------------
(* The abstract values the checker's entailment computes with              *)
(* (Koit/Facts/Domain.lean): what is known of an integer of one type, as an *)
(* interval [lo, hi] read in the type's signedness together with the bits   *)
(* known exactly, and the transfer function of every operator of the        *)
(* predicate fragment.  Beside them, the arithmetic the program computes    *)
(* (Koit/Machine/Bytes.lean), which they must bound.                        *)
(*                                                                          *)
(* A bit pattern is the set of the positions of its one bits: `&`, `|` and  *)
(* `^` are intersection, union and symmetric difference.                    *)
EXTENDS Integers, FiniteSets, FiniteSetsExt, Binary

Larger(x, y)  == IF x >= y THEN x ELSE y
Smaller(x, y) == IF x <= y THEN x ELSE y

(* Division and remainder that truncate toward zero.                        *)
Magnitude(x) == IF x < 0 THEN -x ELSE x
TDiv(x, y) == LET q == Magnitude(x) \div Magnitude(y)
              IN  IF (x < 0) = (y < 0) THEN q ELSE -q
TMod(x, y) == x - y * TDiv(x, y)

-----------------------------------------------------------------------------
(* Widths.                                                                  *)

Ones(w)   == 0..(w - 1)
Sign(w)   == w - 1                             \* the position of the sign bit
TypeLo(signed, w) == IF signed THEN -Pow2(w - 1) ELSE 0
TypeHi(signed, w) == IF signed THEN Pow2(w - 1) - 1 ELSE Pow2(w) - 1

Number(w, B) ==
  LET sum[n \in Nat] == IF n = 0 THEN 0 ELSE sum[n - 1] + (IF n - 1 \in B THEN Pow2(n - 1) ELSE 0)
  IN  sum[w]
ToBits(w, v)  == {i \in Ones(w) : (v \div Pow2(i)) % 2 = 1}
FromBits(signed, w, B) ==
  Number(w, B) - (IF signed /\ Sign(w) \in B THEN Pow2(w) ELSE 0)
Wrap(signed, w, v) ==
  LET n == v % Pow2(w) IN IF signed /\ n >= Pow2(w - 1) THEN n - Pow2(w) ELSE n

Shl(w, B, c) == {i \in Ones(w) : i - c \in B}
Shr(w, B, c) == {i \in Ones(w) : i + c \in B}

-----------------------------------------------------------------------------
(* The arithmetic of the program: total, wrapping, with the kernel's        *)
(* division by zero and its masked shift amount.                            *)
DivInt(x, y) == IF y = 0 THEN 0 ELSE TDiv(x, y)
ModInt(x, y) == IF y = 0 THEN x ELSE TMod(x, y)

Arith(op, signed, w, x, y) ==
  LET xb == ToBits(w, x)
      yb == ToBits(w, y)
      s  == Number(w, yb) % w
  IN  Wrap(signed, w,
        CASE op = "add" -> x + y
          [] op = "sub" -> x - y
          [] op = "mul" -> x * y
          [] op = "div" -> DivInt(x, y)
          [] op = "mod" -> ModInt(x, y)
          [] op = "band" -> Number(w, xb \cap yb)
          [] op = "bor"  -> Number(w, xb \cup yb)
          [] op = "bxor" -> Number(w, SymDiff(xb, yb))
          [] op = "shl"  -> x * Pow2(s)
          [] op = "shr"  -> x \div Pow2(s))
ArithOps == {"add", "sub", "mul", "div", "mod", "band", "bor", "bxor", "shl", "shr"}

Compare(op, x, y) ==
  CASE op = "eq" -> x = y  [] op = "ne" -> x # y
    [] op = "lt" -> x < y  [] op = "le" -> x <= y
    [] op = "gt" -> x > y  [] op = "ge" -> x >= y
CmpOps == {"eq", "ne", "lt", "le", "gt", "ge"}

-----------------------------------------------------------------------------
(* Abstract integers.                                                       *)

Abs(signed, w, lo, hi, kv, km) ==
  [signed |-> signed, w |-> w, lo |-> lo, hi |-> hi, kv |-> kv, km |-> km]

Top(signed, w) == Abs(signed, w, TypeLo(signed, w), TypeHi(signed, w), {}, {})
Const(signed, w, v) ==
  LET c == Wrap(signed, w, v) IN Abs(signed, w, c, c, ToBits(w, v), Ones(w))

IsEmpty(a) == a.lo > a.hi
IsConst(a) == a.lo = a.hi
Empty(a)   == [a EXCEPT !.lo = 1, !.hi = 0]
SameType(a, b) == a.signed = b.signed /\ a.w = b.w

Unknown(a) == Ones(a.w) \ a.km                 \* the unknown-bit mask
AtLeast(a, v) == [a EXCEPT !.lo = Larger(@, v)]
AtMost(a, v)  == [a EXCEPT !.hi = Smaller(@, v)]

(* The values an abstract integer stands for.                               *)
Concrete(a) == {v \in a.lo..a.hi : ToBits(a.w, v) \cap a.km = a.kv}

(* The interval narrowed to what the known bits allow: the least value has  *)
(* the unknown bits zero and the greatest has them one, and a sign bit      *)
(* among them the other way.                                                *)
BitsToInterval(a) ==
  LET known == a.kv \cap a.km
      sign  == IF a.signed THEN {Sign(a.w)} \ a.km ELSE {}
  IN  IF a.km = {} THEN a
      ELSE AtMost(AtLeast(a, FromBits(a.signed, a.w, known \cup sign)),
                  FromBits(a.signed, a.w, (known \cup Unknown(a)) \ sign))

(* The bits the interval fixes: when both ends have the same sign, the      *)
(* leading bits their patterns share.                                       *)
Leading(w, l, h) == {i \in Ones(w) : \A j \in SymDiff(l, h) : j < i}
Fixing(a, l, high) ==
  IF SymDiff(a.kv, l) \cap a.km \cap high # {} THEN Empty(a)
  ELSE [a EXCEPT !.kv = (@ \cap a.km) \cup (l \cap high), !.km = @ \cup high]
IntervalToBits(a) ==
  IF IsEmpty(a) \/ (a.lo < 0) # (a.hi < 0) THEN a
  ELSE Fixing(a, ToBits(a.w, a.lo), Leading(a.w, ToBits(a.w, a.lo), ToBits(a.w, a.hi)))

Reduce(a) ==
  IF IsEmpty(a) THEN a ELSE BitsToInterval(IntervalToBits(BitsToInterval(a)))

(* At a join of two paths, the hull of the intervals and the bits both      *)
(* know with the same value; the meet is both known at once.                *)
BugJoin(a, b) ==
  IF IsEmpty(a) THEN b ELSE IF IsEmpty(b) THEN a
  ELSE [a EXCEPT !.lo = Smaller(@, b.lo), !.hi = Larger(@, b.hi),
                 !.kv = @ \cap b.kv, !.km = @ \cap b.km]
Join(a, b) ==
  LET km == (a.km \cap b.km) \ SymDiff(a.kv, b.kv)
  IN  IF IsEmpty(a) THEN b ELSE IF IsEmpty(b) THEN a
      ELSE [a EXCEPT !.lo = Smaller(@, b.lo), !.hi = Larger(@, b.hi),
                     !.kv = @ \cap km, !.km = km]

Meet(a, b) ==
  IF SymDiff(a.kv, b.kv) \cap a.km \cap b.km # {} THEN Empty(a)
  ELSE Reduce([a EXCEPT !.lo = Larger(@, b.lo), !.hi = Smaller(@, b.hi),
                        !.kv = (@ \cap a.km) \cup (b.kv \cap b.km),
                        !.km = @ \cup b.km])

Fits(a, lo, hi) == TypeLo(a.signed, a.w) <= lo /\ hi <= TypeHi(a.signed, a.w)
Between(a, lo, hi) == Reduce([a EXCEPT !.lo = lo, !.hi = hi])
WithInterval(a, lo, hi) ==
  IF Fits(a, lo, hi) THEN Between(a, lo, hi)
  ELSE Between(a, TypeLo(a.signed, a.w), TypeHi(a.signed, a.w))
BugWithBits(a, kv, km) ==
  Reduce([Top(a.signed, a.w) EXCEPT !.kv = kv \cap Ones(a.w), !.km = km \cap Ones(a.w)])
WithBits(a, kv, km) ==
  Reduce([Top(a.signed, a.w) EXCEPT !.kv = kv \cap km \cap Ones(a.w),
                                    !.km = km \cap Ones(a.w)])

TopOf(a) == Top(a.signed, a.w)
UpTo(a, hi) == Between(TopOf(a), 0, hi)

-----------------------------------------------------------------------------
(* Transfer functions.                                                      *)

(* The bits of a sum or difference that a carry or borrow out of an unknown *)
(* bit, or an unknown bit itself, may change.                               *)
KnownBut(w, v, mu) == [kv |-> v \ mu, km |-> Ones(w) \ mu]
BugAddBits(a, b) ==
  KnownBut(a.w, ToBits(a.w, Number(a.w, a.kv) + Number(a.w, b.kv)), Unknown(a) \cup Unknown(b))
AddBits(a, b) ==
  LET sum   == Number(a.w, a.kv) + Number(a.w, b.kv)
      sv    == ToBits(a.w, sum)
      sigma == ToBits(a.w, Number(a.w, Unknown(a)) + Number(a.w, Unknown(b)) + sum)
  IN  KnownBut(a.w, sv, SymDiff(sigma, sv) \cup Unknown(a) \cup Unknown(b))

SubBits(a, b) ==
  LET dv    == Number(a.w, a.kv) - Number(a.w, b.kv)
      alpha == ToBits(a.w, dv + Number(a.w, Unknown(a)))
      beta  == ToBits(a.w, dv - Number(a.w, Unknown(b)))
  IN  KnownBut(a.w, ToBits(a.w, dv), SymDiff(alpha, beta) \cup Unknown(a) \cup Unknown(b))

(* The result with the bits `k` known and, when it does not wrap, the       *)
(* interval [lo, hi].                                                       *)
Bounded(a, k, lo, hi) ==
  IF Fits(a, lo, hi) THEN Between([a EXCEPT !.kv = k.kv, !.km = k.km], lo, hi)
  ELSE WithBits(a, k.kv, k.km)

Add(a, b) == Bounded(a, AddBits(a, b), a.lo + b.lo, a.hi + b.hi)
Sub(a, b) == Bounded(a, SubBits(a, b), a.lo - b.hi, a.hi - b.lo)

LowZeros(a) == Cardinality({i \in Ones(a.w) : 0..i \subseteq a.km \ a.kv})

Mul(a, b) ==
  LET r == WithBits(a, {}, Ones(Smaller(LowZeros(a) + LowZeros(b), a.w)))
  IN  IF IsConst(a) /\ IsConst(b) THEN Const(a.signed, a.w, a.lo * b.lo)
      ELSE IF a.lo >= 0 /\ b.lo >= 0 /\ Fits(a, a.lo * b.lo, a.hi * b.hi)
        THEN Between(r, a.lo * b.lo, a.hi * b.hi)
      ELSE r

Div(a, b) ==
  LET y == b.lo IN
  IF IsConst(a) /\ IsConst(b) THEN Const(a.signed, a.w, DivInt(a.lo, y))
  ELSE IF IsConst(b) THEN
    IF y > 0 /\ a.lo >= 0 THEN Between(TopOf(a), TDiv(a.lo, y), TDiv(a.hi, y))
    ELSE IF y = 0 THEN Const(a.signed, a.w, 0)
    ELSE TopOf(a)
  ELSE IF a.lo >= 0 /\ b.lo >= 0 THEN UpTo(a, a.hi) ELSE TopOf(a)

(* The remainder by a constant y > 0: a power of two keeps the low bits.    *)
ModConst(a, y) ==
  LET r   == UpTo(a, y - 1)
      low == ToBits(a.w, y - 1)
  IN  IF a.hi < y THEN a
      ELSE IF ToBits(a.w, y) \cap low = {}
        THEN Meet(r, WithBits(a, a.kv \cap low, (a.km \cap low) \cup (Ones(a.w) \ low)))
      ELSE r

Mod(a, b) ==
  LET y == b.lo IN
  IF IsConst(a) /\ IsConst(b) THEN Const(a.signed, a.w, ModInt(a.lo, y))
  ELSE IF IsConst(b) THEN
    IF y = 0 THEN a
    ELSE IF y > 0 /\ a.lo >= 0 THEN ModConst(a, y) ELSE TopOf(a)
  ELSE IF a.lo >= 0 /\ b.lo >= 0
    THEN UpTo(a, IF b.lo >= 1 THEN Smaller(a.hi, b.hi - 1) ELSE a.hi)
  ELSE TopOf(a)

Band(a, b) ==
  LET kv == a.kv \cap b.kv
      um == ((a.kv \cup Unknown(a)) \cap (b.kv \cup Unknown(b))) \ kv
      r  == WithBits(a, kv, Ones(a.w) \ um)
  IN  IF a.lo >= 0 /\ b.lo >= 0 THEN Between(r, 0, Smaller(a.hi, b.hi)) ELSE r

Bor(a, b) ==
  LET kv == a.kv \cup b.kv
      um == (Unknown(a) \cup Unknown(b)) \ kv
      r  == WithBits(a, kv, Ones(a.w) \ um)
  IN  IF a.lo >= 0 /\ b.lo >= 0 THEN Between(r, Larger(a.lo, b.lo), r.hi) ELSE r

Bxor(a, b) ==
  WithBits(a, SymDiff(a.kv, b.kv), Ones(a.w) \ (Unknown(a) \cup Unknown(b)))

(* A shift by a known amount, masked to the width; by an unknown one,       *)
(* nothing is known of the result but that a right shift does not grow.     *)
ShiftAmount(a, b) == Number(a.w, ToBits(a.w, b.lo)) % a.w

ShlOp(a, b) ==
  LET c == ShiftAmount(a, b)
      r == WithBits(a, Shl(a.w, a.kv, c), Shl(a.w, a.km, c) \cup Ones(c))
  IN  IF ~IsConst(b) THEN TopOf(a)
      ELSE IF a.lo >= 0 /\ Fits(a, a.lo * Pow2(c), a.hi * Pow2(c))
        THEN Between(r, a.lo * Pow2(c), a.hi * Pow2(c))
      ELSE r

ShrOp(a, b) ==
  LET c == ShiftAmount(a, b)
      r == WithBits(a, Shr(a.w, a.kv, c),
                    Shr(a.w, a.km, c) \cup (Ones(a.w) \ Ones(a.w - c)))
  IN  IF a.lo < 0 THEN TopOf(a)
      ELSE IF IsConst(b) THEN Between(r, a.lo \div Pow2(c), a.hi \div Pow2(c))
      ELSE UpTo(a, a.hi)

Apply(op, a, b) ==
  CASE op = "add" -> Add(a, b)   [] op = "sub" -> Sub(a, b)
    [] op = "mul" -> Mul(a, b)   [] op = "div" -> Div(a, b)
    [] op = "mod" -> Mod(a, b)   [] op = "band" -> Band(a, b)
    [] op = "bor" -> Bor(a, b)   [] op = "bxor" -> Bxor(a, b)
    [] op = "shl" -> ShlOp(a, b) [] op = "shr" -> ShrOp(a, b)

(* `e as T`.                                                                *)
Truncate(a, signed, w) ==
  LET l  == ToBits(a.w, a.lo)
      h  == ToBits(a.w, a.hi)
      lo == FromBits(signed, w, l \cap Ones(w))
      hi == FromBits(signed, w, h \cap Ones(w))
      r  == WithBits(Top(signed, w), a.kv, a.km)
  IN  IF a.hi - a.lo < Pow2(w) /\ l \ Ones(w) = h \ Ones(w) /\ lo <= hi
      THEN Between(r, lo, hi) ELSE r

BugExtend(a, signed, w) ==
  Reduce(Abs(signed, w, a.lo, a.hi, a.kv, a.km \cup (Ones(w) \ Ones(a.w))))
Extend(a, signed, w) ==
  LET high == Ones(w) \ Ones(a.w)
      kv == IF Sign(a.w) \in a.kv THEN a.kv \cup high ELSE a.kv
      km == IF Sign(a.w) \in a.km THEN a.km \cup high ELSE a.km
      r  == WithBits(Top(signed, w), kv, km)
  IN  IF ~a.signed
      THEN Reduce(Abs(signed, w, a.lo, a.hi, a.kv, a.km \cup high))
      ELSE IF Fits(r, a.lo, a.hi) THEN Between(r, a.lo, a.hi) ELSE r

Reread(a, signed) ==
  LET r == WithBits(Top(signed, a.w), a.kv, a.km)
  IN  IF signed = a.signed THEN a
      ELSE IF a.lo >= 0 /\ a.hi < Pow2(a.w - 1) THEN Between(r, a.lo, a.hi) ELSE r

Cast(a, signed, w) ==
  IF IsEmpty(a) THEN Empty(Top(signed, w))
  ELSE IF w < a.w THEN Truncate(a, signed, w)
  ELSE IF w > a.w THEN Extend(a, signed, w)
  ELSE Reread(a, signed)

-----------------------------------------------------------------------------
(* Comparisons: decided from the intervals and the known bits, and both     *)
(* sides narrowed on the assumption that one holds.                         *)

Decide(yes, no) == IF yes THEN "yes" ELSE IF no THEN "no" ELSE "maybe"
TriNot(t) == CASE t = "yes" -> "no" [] t = "no" -> "yes" [] OTHER -> "maybe"
TriAnd(s, t) == Decide(s = "yes" /\ t = "yes", "no" \in {s, t})
TriOr(s, t)  == Decide("yes" \in {s, t}, s = "no" /\ t = "no")

Apart(a, b) ==
  \/ a.hi < b.lo \/ b.hi < a.lo
  \/ SymDiff(a.kv, b.kv) \cap a.km \cap b.km # {}
Same(a, b) == IsConst(a) /\ IsConst(b) /\ a.lo = b.lo

BugCmp(op, a, b) ==
  IF op = "lt" THEN Decide(a.hi <= b.lo, a.lo >= b.hi)
  ELSE IF op = "ge" THEN Decide(a.lo >= b.hi, a.hi <= b.lo)
  ELSE IF op = "eq" THEN Decide(Same(a, b), Apart(a, b)) ELSE "maybe"
Cmp(op, a, b) ==
  IF IsEmpty(a) \/ IsEmpty(b) THEN "yes"
  ELSE CASE op = "lt" -> Decide(a.hi < b.lo, a.lo >= b.hi)
         [] op = "le" -> Decide(a.hi <= b.lo, a.lo > b.hi)
         [] op = "gt" -> Decide(a.lo > b.hi, a.hi <= b.lo)
         [] op = "ge" -> Decide(a.lo >= b.hi, a.hi < b.lo)
         [] op = "eq" -> Decide(Same(a, b) /\ ~Apart(a, b), Apart(a, b))
         [] op = "ne" -> Decide(Apart(a, b), Same(a, b))

(* The value with the constant b struck off an end of its interval.         *)
Without(a, b) ==
  IF ~IsConst(b) THEN a
  ELSE IF a.lo = b.lo THEN WithInterval(a, a.lo + 1, a.hi)
  ELSE IF a.hi = b.lo THEN WithInterval(a, a.lo, a.hi - 1)
  ELSE a

Below(a, hi) == WithInterval(a, a.lo, Smaller(a.hi, hi))
Above(a, lo) == WithInterval(a, Larger(a.lo, lo), a.hi)

BugNarrow(op, a, b) ==
  CASE op = "lt" -> <<Below(a, b.hi - 1), Above(b, a.lo + 1)>>
    [] op = "le" -> <<Below(a, b.hi - 1), Above(b, a.lo)>>
    [] op = "gt" -> <<Above(a, b.lo + 1), Below(b, a.hi - 1)>>
    [] op = "ge" -> <<Above(a, b.lo), Below(b, a.hi)>>
    [] op = "eq" -> LET m == Meet(a, b) IN <<m, m>>
    [] op = "ne" -> <<Without(a, b), Without(b, a)>>
Narrow(op, a, b) ==
  CASE op = "lt" -> <<Below(a, b.hi - 1), Above(b, a.lo + 1)>>
    [] op = "le" -> <<Below(a, b.hi), Above(b, a.lo)>>
    [] op = "gt" -> <<Above(a, b.lo + 1), Below(b, a.hi - 1)>>
    [] op = "ge" -> <<Above(a, b.lo), Below(b, a.hi)>>
    [] op = "eq" -> LET m == Meet(a, b) IN <<m, m>>
    [] op = "ne" -> <<Without(a, b), Without(b, a)>>
=============================================================================
