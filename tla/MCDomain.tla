------------------------------ MODULE MCDomain ------------------------------
(* The domain over every pair of values the checker can build at one type:  *)
(* `a` and `b` start as constants or unknown values, and a step puts in `a` *)
(* what an operator, a cast and back, a join or an assumption makes of them.*)
EXTENDS Domain

CONSTANTS Widths,      \* the widths of the types
          MaxWidth     \* casts go to widths of at most MaxWidth bits

ASSUME WidthsAssumption == Widths \subseteq Nat \ {0}

VARIABLES a, b
vars == <<a, b>>

Types == BOOLEAN \X Widths
Atoms(signed, w) ==
  {Top(signed, w)} \cup {Const(signed, w, v) : v \in 0..(Pow2(w) - 1)}

Init == \E t \in Types : a \in Atoms(t[1], t[2]) /\ b \in Atoms(t[1], t[2])

Becomes(r) == ~IsEmpty(r) /\ a' = r /\ b' = b

Operate == \E op \in ArithOps : Becomes(Apply(op, a, b))
Recast  == \E s \in BOOLEAN, w \in 1..MaxWidth :
             Becomes(Cast(Cast(a, s, w), a.signed, a.w))
Rejoin  == Becomes(Join(a, b))
Swap    == a' = b /\ b' = a
Assume  == \E op \in CmpOps :
             LET n == Narrow(op, a, b)
             IN  ~IsEmpty(n[1]) /\ ~IsEmpty(n[2]) /\ a' = n[1] /\ b' = n[2]

Next == Operate \/ Recast \/ Rejoin \/ Swap \/ Assume
Spec == Init /\ [][Next]_vars

-----------------------------------------------------------------------------
(* What the checker holds of a value is within its type, the bits it gives  *)
(* values to are bits it marks as known, and no operation changes the type. *)
Consistent ==
  /\ SameType(a, b)
  /\ \A r \in {a, b} :
       /\ Fits(r, r.lo, r.hi)
       /\ r.kv \subseteq r.km /\ r.km \subseteq Ones(r.w)

(* Whatever two values the operands have, what the program computes from    *)
(* them is among the values the transfer function allows.                   *)
ArithSound ==
  \A op \in ArithOps :
    LET r == Apply(op, a, b)
    IN  \A x \in Concrete(a), y \in Concrete(b) :
          Arith(op, a.signed, a.w, x, y) \in Concrete(r)

(* A cast to any type allows the value the cast has.                        *)
CastSound ==
  \A s \in BOOLEAN, w \in 1..MaxWidth :
    LET r == Cast(a, s, w)
    IN  \A x \in Concrete(a) : Wrap(s, w, x) \in Concrete(r)

(* A comparison the domain decides comes out as decided.                    *)
CmpSound ==
  \A op \in CmpOps :
    LET t == Cmp(op, a, b)
    IN  \A x \in Concrete(a), y \in Concrete(b) :
          /\ t = "yes" => Compare(op, x, y)
          /\ t = "no" => ~Compare(op, x, y)

(* Assuming a comparison excludes no pair of values for which it holds.     *)
NarrowKeeps ==
  \A op \in CmpOps :
    LET n == Narrow(op, a, b)
    IN  \A x \in Concrete(a), y \in Concrete(b) :
          Compare(op, x, y) => x \in Concrete(n[1]) /\ y \in Concrete(n[2])

(* What both paths allow is allowed at their join.                          *)
JoinKeeps == Concrete(a) \cup Concrete(b) \subseteq Concrete(Join(a, b))
=============================================================================
