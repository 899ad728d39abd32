------------------------------- MODULE Facts --------------------------------
(* The facts the checker holds of one path (Koit/Facts/Facts.lean), the      *)
(* procedure that decides what they entail (Koit/Facts/Entail.lean), and the *)
(* statement rules that change them (Koit/Check/Stmt.lean), beside what the  *)
(* runs of the same statements do to memory: `reach` is the set of memories  *)
(* a run can have where the checker stands.  Another party may write the     *)
(* shared places between any two statements.                                 *)
(*                                                                           *)
(* Places are scalars: a local, or a field of a struct local, which a        *)
(* reference may name as well.  Array elements, boolean places, view         *)
(* offsets, and the moved and dead names the facts also carry (see Check)    *)
(* are left out, and so is arithmetic between two untyped constants.         *)
EXTENDS Domain, Sequences, SequencesExt, TLC

CONSTANTS
  Shape,       \* for each place its type: [signed |-> .., w |-> ..]
  Shared,      \* the places off the stack
  Refs,        \* for each reference name the struct local it may be bound to
  Lets,        \* the locals that are bound by `let`, the others being in scope
  Stores,      \* the assignments <<place, expression>> of programs
  Bindings,    \* their bindings <<local, expression>>
  Conds,       \* the conditions of programs
  Bodies,      \* loop bodies: sequences of <<place, expression, maybe>>
  Demands,     \* the predicates over stack places the checker demands
  Terms,       \* the expressions it asks bounds of
  Verdicts,    \* the sets it asks of such an expression to stay in
  MaxIters,    \* `repeat n` has n at most MaxIters
  MaxFrames,   \* blocks nest at most this deep
  MaxSteps     \* a program has at most this many steps

Places == DOMAIN Shape
Stack  == Places \ Shared

(* The place a name stands for where the program uses it: a reference is    *)
(* bound only to its struct.                                                *)
Named(p) == IF p.root \in DOMAIN Refs THEN [p EXCEPT !.root = Refs[@]] ELSE p
Type(p)  == Shape[Named(p)]

ASSUME ShapeAssumption ==
  /\ Shared \subseteq Places
  /\ \A p \in Places : Shape[p].signed \in BOOLEAN /\ Shape[p].w \in Nat \ {0}

VARIABLES
  facts,       \* what the checker holds here: [facts, aliases, bottom]
  reach,       \* the memories of the runs that get here
  frames,      \* the open blocks, innermost first
  steps
vars == <<facts, reach, frames, steps>>

-----------------------------------------------------------------------------
(* Expressions.                                                             *)

Lit(v)        == [k |-> "lit", v |-> v]
At(p)         == [k |-> "at", p |-> p]
Bin(op, l, r) == [k |-> "bin", op |-> op, l |-> l, r |-> r]
Rel(op, l, r) == [k |-> "rel", op |-> op, l |-> l, r |-> r]
As(e, s, w)   == [k |-> "as", e |-> e, signed |-> s, w |-> w]
Not(e)        == [k |-> "not", e |-> e]
And(l, r)     == [k |-> "and", l |-> l, r |-> r]
Or(l, r)      == [k |-> "or", l |-> l, r |-> r]

RECURSIVE Atoms(_), Rename(_, _), Negate(_), Val(_, _)

(* The places an expression reads, and the expression with another name for *)
(* each.                                                                    *)
Atoms(e) ==
  CASE e.k = "lit" -> {}
    [] e.k = "at" -> {e.p}
    [] e.k \in {"as", "not"} -> Atoms(e.e)
    [] OTHER -> Atoms(e.l) \cup Atoms(e.r)

Rename(e, name) ==
  CASE e.k = "lit" -> e
    [] e.k = "at" -> At(name[e.p])
    [] e.k \in {"as", "not"} -> [e EXCEPT !.e = Rename(@, name)]
    [] OTHER -> [e EXCEPT !.l = Rename(@, name), !.r = Rename(@, name)]

(* The negation of a condition, pushed to the comparisons.                  *)
Negation == [eq |-> "ne", ne |-> "eq", lt |-> "ge", ge |-> "lt", le |-> "gt", gt |-> "le"]
Negate(e) ==
  CASE e.k = "rel" -> Rel(Negation[e.op], e.l, e.r)
    [] e.k = "not" -> e.e
    [] e.k = "and" -> Or(Negate(e.l), Negate(e.r))
    [] e.k = "or"  -> And(Negate(e.l), Negate(e.r))
    [] OTHER -> Not(e)

(* The value of an expression in a memory.                                  *)
ValInt(s, w, v) == [k |-> "int", signed |-> s, w |-> w, v |-> v]
Val(m, e) ==
  CASE e.k = "lit" -> [k |-> "poly", v |-> e.v]
    [] e.k = "at" -> ValInt(Type(e.p).signed, Type(e.p).w, m[Named(e.p)])
    [] e.k = "as" -> ValInt(e.signed, e.w, Wrap(e.signed, e.w, Val(m, e.e).v))
    [] e.k \in {"bin", "rel"} ->
         LET l == Val(m, e.l)
             r == Val(m, e.r)
             t == IF l.k = "int" THEN l ELSE r
             x == Wrap(t.signed, t.w, l.v)
             y == Wrap(t.signed, t.w, r.v)
         IN  IF e.k = "rel" THEN [k |-> "bool", v |-> Compare(e.op, x, y)]
             ELSE ValInt(t.signed, t.w, Arith(e.op, t.signed, t.w, x, y))
    [] e.k = "not" -> [k |-> "bool", v |-> ~Val(m, e.e).v]
    [] e.k = "and" -> [k |-> "bool", v |-> Val(m, e.l).v /\ Val(m, e.r).v]
    [] e.k = "or"  -> [k |-> "bool", v |-> Val(m, e.l).v \/ Val(m, e.r).v]
Holds(m, e) == Val(m, e).v

-----------------------------------------------------------------------------
(* The abstract state: what is known of each place, built from the facts    *)
(* when a demand is checked.                                                *)

IntAV(a)  == [k |-> "int", a |-> a]
PolyAV(v) == [k |-> "poly", v |-> v]
BoolAV(t) == [k |-> "bool", t |-> t]

(* The values v.l and v.r of two operands at one type.                      *)
Aligned(v) ==
  CASE v.l.k = "int" /\ v.r.k = "int" /\ SameType(v.l.a, v.r.a) -> <<v.l.a, v.r.a>>
    [] v.l.k = "int" /\ v.r.k = "poly" -> <<v.l.a, Const(v.l.a.signed, v.l.a.w, v.r.v)>>
    [] v.l.k = "poly" /\ v.r.k = "int" -> <<Const(v.r.a.signed, v.r.a.w, v.l.v), v.r.a>>

Lookup(st, p) ==
  IF p \in DOMAIN st THEN st[p] ELSE Top(Type(p).signed, Type(p).w)
SetPlace(st, p, a) == (p :> a) @@ st
BugJoinStates(s, t) ==
  [p \in DOMAIN s \cup DOMAIN t |->
     IF p \notin DOMAIN t THEN s[p] ELSE IF p \notin DOMAIN s THEN t[p] ELSE Join(s[p], t[p])]
JoinStates(s, t) == [p \in DOMAIN s \cap DOMAIN t |-> Join(s[p], t[p])]

Applied(op, p)  == IntAV(Apply(op, p[1], p[2]))
Compared(op, p) == BoolAV(Cmp(op, p[1], p[2]))
Narrowed(op, p) == Narrow(op, p[1], p[2])
Converted(v, s, w) ==
  IntAV(IF v.k = "int" THEN Cast(v.a, s, w) ELSE Const(s, w, v.v))

RECURSIVE Eval(_, _), AssignAbs(_, _, _), NarrowBy(_, _),
          Operands(_, _), AssignMasked(_, _, _, _), AssignCast(_, _, _, _)

(* Forward interpretation of an expression.                                 *)
Eval(st, e) ==
  CASE e.k = "lit" -> PolyAV(e.v)
    [] e.k = "at" -> IntAV(Lookup(st, e.p))
    [] e.k = "bin" -> Applied(e.op, Aligned(Operands(st, e)))
    [] e.k = "rel" -> Compared(e.op, Aligned(Operands(st, e)))
    [] e.k = "as"  -> Converted(Eval(st, e.e), e.signed, e.w)
    [] e.k = "not" -> BoolAV(TriNot(Eval(st, e.e).t))
    [] e.k = "and" -> BoolAV(TriAnd(Eval(st, e.l).t, Eval(st, e.r).t))
    [] e.k = "or"  -> BoolAV(TriOr(Eval(st, e.l).t, Eval(st, e.r).t))

Operands(st, e) == [side \in {"l", "r"} |-> Eval(st, e[side])]

(* The state with `e` known to be `a`: a place under a mask learns the bits *)
(* the mask has, a place under a widening cast the value when it fits.      *)
(* A mask that is not a literal counts as the least value it can have.      *)
AssignAbs(st, e, a) ==
  CASE e.k = "at" -> SetPlace(st, e.p, a)
    [] e.k = "bin" /\ e.op = "band" -> AssignMasked(st, e, Operands(st, e), a)
    [] e.k = "as" -> AssignCast(st, e, Eval(st, e.e), a)
    [] OTHER -> st

AssignMasked(st, e, v, a) ==
  LET x    == v.l.a
      mask == ToBits(x.w, IF v.r.k = "poly" THEN v.r.v ELSE v.r.a.lo)
  IN  IF v.l.k = "int"
      THEN AssignAbs(st, e.l, Meet(x, WithBits(x, a.kv \cap mask, a.km \cap mask)))
      ELSE st

AssignCast(st, e, x, a) ==
  IF /\ x.k = "int" /\ ~x.a.signed /\ x.a.w < a.w
     /\ a.lo >= 0 /\ a.hi <= TypeHi(FALSE, x.a.w)
  THEN AssignAbs(st, e.e, Meet(x.a, Cast(a, FALSE, x.a.w)))
  ELSE st

AssignBoth(st, e, n) ==
  FoldLeft(LAMBDA s, known : AssignAbs(s, known[1], known[2]), st,
           << <<e.l, n[1]>>, <<e.r, n[2]>> >>)

(* The state narrowed by assuming a condition.                              *)
NarrowBy(st, e) ==
  CASE e.k = "and" -> NarrowBy(NarrowBy(st, e.l), e.r)
    [] e.k = "or"  -> JoinStates(NarrowBy(st, e.l), NarrowBy(st, e.r))
    [] e.k = "not" -> NarrowBy(st, Negate(e.e))
    [] e.k = "rel" ->
         AssignBoth(st, e, Narrowed(e.op, Aligned(Operands(st, e))))

EmptyState == [p \in {} |-> 0]
State(F) == FoldLeft(NarrowBy, EmptyState, F.facts)

(* The facts that write an abstract value back.                             *)
FactsOf(p, a) ==
  IF IsEmpty(a) THEN <<>>
  ELSE (IF a.lo > TypeLo(a.signed, a.w) /\ a.lo >= 0
        THEN <<Rel("ge", At(p), Lit(a.lo))>> ELSE <<>>)
    \o (IF a.hi < TypeHi(a.signed, a.w) /\ a.hi >= 0
        THEN <<Rel("le", At(p), Lit(a.hi))>> ELSE <<>>)
    \o (IF a.km # {}
        THEN <<Rel("eq", Bin("band", At(p), Lit(Number(a.w, a.km))), Lit(Number(a.w, a.kv \cap a.km)))>>
        ELSE <<>>)

-----------------------------------------------------------------------------
(* The facts of a path.                                                     *)

NoFacts == [facts |-> <<>>, aliases |-> [x \in {} |-> ""], bottom |-> FALSE]

Enter(F, e) == IF F.bottom THEN F ELSE [F EXCEPT !.facts = Append(@, e)]
EnterAll(F, es) == FoldLeft(Enter, F, es)

(* A place, or an expression, with every reference replaced by what it      *)
(* names.                                                                   *)
Resolve(F, p) ==
  IF p.root \in DOMAIN F.aliases THEN [p EXCEPT !.root = F.aliases[@]] ELSE p
ResolveExpr(F, e) == Rename(e, [p \in Atoms(e) |-> Resolve(F, p)])

Mentions(e, ps) == Atoms(e) \cap ps # {}
DropWhere(F, ps) == [F EXCEPT !.facts = SelectSeq(@, LAMBDA e : ~Mentions(e, ps))]
KillShared(F) == DropWhere(F, Shared)

Rooted(xs) == {p \in Places : p.root \in xs}
DropNames(F, xs) ==
  [DropWhere(F, Rooted(xs)) EXCEPT
     !.aliases = [x \in DOMAIN @ \ xs |-> @[x]]]

(* A condition established on this path; what it says of a shared place may *)
(* stop holding at once, so such a conjunct yields nothing.                 *)
FactForm(e) == Atoms(e) \subseteq Stack
RECURSIVE Assume(_, _)
Assume(F, e) ==
  IF e.k = "and" THEN Assume(Assume(F, e.l), e.r)
  ELSE IF e.k = "not" /\ e.e.k = "or"
    THEN Assume(Assume(F, Negate(e.e.l)), Negate(e.e.r))
  ELSE IF e.k = "not" /\ e.e.k = "not" THEN Assume(F, e.e.e)
  ELSE IF FactForm(ResolveExpr(F, e)) THEN Enter(F, ResolveExpr(F, e)) ELSE F

(* Whether a store to p may change q.                                       *)
Overlaps(p, q) == p.root = q.root /\ (p.fld = q.fld \/ "self" \in {p.fld, q.fld})
Overlapping(p) == {q \in Places : Overlaps(p, q)}

(* After a store to p: the facts about what it may change go; what the      *)
(* dropped ones told of another stack place is kept as facts of its own.    *)
Killed(F, before, changed) ==
  LET dropped == {F.facts[i] : i \in {i \in DOMAIN F.facts : Mentions(F.facts[i], changed)}}
      others  == ((UNION {Atoms(e) : e \in dropped}) \cap Stack) \ changed
  IN  FoldLeft(LAMBDA G, q : EnterAll(G, FactsOf(q, Lookup(before, q))),
               DropWhere(F, changed), SetToSeq(others))
Kill(F, name) == Killed(F, State(F), Overlapping(Resolve(F, name)))

(* After `p = e`: the equation is recorded when it stays true, or else what *)
(* was known of the value stored.                                           *)
BugRecorded(G, p, e, v) ==
  IF p \in Stack /\ FactForm(e) THEN Enter(G, Rel("eq", At(p), e)) ELSE G
Recorded(G, p, e, v) ==
  IF p \notin Stack THEN G
  ELSE IF Mentions(e, Overlapping(p))
    THEN IF v.k = "int" THEN EnterAll(G, FactsOf(p, v.a)) ELSE G
  ELSE IF FactForm(e) THEN Enter(G, Rel("eq", At(p), e))
  ELSE G
RecordIn(F, st, p, e) ==
  Recorded(Killed(F, st, Overlapping(p)), p, e, Eval(st, e))
Record(F, name, value) ==
  RecordIn(F, State(F), Resolve(F, name), ResolveExpr(F, value))

(* After two paths join: what both established, and for each place the hull *)
(* of what each knew.  A path that has exited contributes nothing.          *)
Hull(joined) ==
  LET ps == SetToSeq(DOMAIN joined)
  IN  FlattenSeq([i \in DOMAIN ps |-> FactsOf(ps[i], joined[ps[i]])])
MeetFacts(F, G) ==
  IF F.bottom THEN G ELSE IF G.bottom THEN F
  ELSE [F EXCEPT !.facts = SelectSeq(@, LAMBDA e : Contains(G.facts, e))
                           \o Hull(JoinStates(State(F), State(G)))]

-----------------------------------------------------------------------------
(* Loops.  A body is a sequence of assignments, each made every time or     *)
(* only on some turns, as under an `if`.                                    *)

Assigned(b) == {b[i][1] : i \in DOMAIN b}
Inv(F, ps) == FoldLeft(Kill, KillShared(F), SetToSeq(ps))

Increments(b) ==
  {i \in DOMAIN b : LET e == b[i][2] IN
     e.k = "bin" /\ e.op = "add" /\ e.l = At(b[i][1]) /\ b[i][1].fld = "self"}

(* The bounds kept on an unsigned local that the body only increments: it   *)
(* gains at most the sum of the addends' bounds per turn, and must not      *)
(* leave its type in n turns.                                               *)
Most(v) ==
  IF v.k = "poly" THEN v.v
  ELSE IF ~IsEmpty(v.a) /\ v.a.lo >= 0 THEN v.a.hi ELSE -1
Addend(st, b, i) ==
  LET e == b[i][2].r
  IN  IF \E p \in Assigned(b), q \in Atoms(e) : Overlaps(q, p) THEN -1
      ELSE Most(Eval(st, e))

Bound(p, a, gains, n) ==
  LET hi == a.hi + n * FoldLeft(+, 0, gains)
  IN  IF IsEmpty(a) \/ -1 \in Range(gains) \/ hi > TypeHi(FALSE, a.w) THEN <<>>
      ELSE FactsOf(p, Between(Top(FALSE, a.w), a.lo, hi))
IncrementBounds(st, b, n) ==
  LET mine(p) == SetToSeq({i \in Increments(b) : b[i][1] = p})
      steady  == {p \in {b[i][1] : i \in Increments(b)} \cap Stack :
                    ~Type(p).signed /\ \A i \in DOMAIN b : b[i][1].root = p.root => i \in Increments(b)}
      bound(p) ==
        Bound(p, Lookup(st, p), [k \in DOMAIN mine(p) |-> Addend(st, b, mine(p)[k])], n)
  IN  FlattenSeq(LET ps == SetToSeq(steady) IN [k \in DOMAIN ps |-> bound(ps[k])])

LoopHead(F, b, n) == EnterAll(Inv(F, Assigned(b)), IncrementBounds(State(F), b, n))

-----------------------------------------------------------------------------
(* Entailment: a demand is a fact, up to names the facts state equal, or it *)
(* evaluates to true in the state the facts build.                          *)

(* The representative of each place, equation by equation: of two locals    *)
(* only, a field not being one atom but two.                                *)
Local(e) == e.k = "at" /\ e.p.fld = "self"
Identify(rep, e) ==
  LET p == e.l.p
      q == e.r.p
      classed(x) == \E y \in Places : y # x /\ rep[y] = rep[x]
  IN  IF ~(e.k = "rel" /\ e.op = "eq" /\ Local(e.l) /\ Local(e.r)) THEN rep
      ELSE IF ~classed(p) /\ classed(q) THEN [rep EXCEPT ![p] = rep[q]]
      ELSE [y \in Places |-> IF rep[y] = rep[q] THEN rep[p] ELSE rep[y]]
Representative(F) == FoldLeft(Identify, [p \in Places |-> p], F.facts)

Member(F, P) ==
  LET rep == Representative(F)
  IN  \E i \in DOMAIN F.facts : Rename(F.facts[i], rep) = Rename(P, rep)
EvalTrue(F, P) == Eval(State(F), P) = BoolAV("yes")
Entails(F, P) ==
  F.bottom \/ LET Q == ResolveExpr(F, P) IN Member(F, Q) \/ EvalTrue(F, Q)

(* What the facts know of an expression: the one value it can have, the     *)
(* largest, and whether all are among `vals`.                               *)
Known(F, e) == Eval(State(F), ResolveExpr(F, e)).a
Greatest(a) == IF IsEmpty(a) THEN 0 ELSE a.hi
UpperOf(F, e) == IF F.bottom THEN 0 ELSE Greatest(Known(F, e))
BugWithin(a, vals) == IsEmpty(a) \/ {a.lo, a.hi} \subseteq vals
Within(a, vals) ==
  IsEmpty(a) \/ \A v \in a.lo..a.hi :
                  v \in vals \/ SymDiff(ToBits(a.w, v), a.kv) \cap a.km # {}
EntailsIn(F, e, vals) == F.bottom \/ Within(Known(F, e), vals)

-----------------------------------------------------------------------------
(* Statements.                                                              *)

Values(p) == TypeLo(Shape[p].signed, Shape[p].w)..TypeHi(Shape[p].signed, Shape[p].w)
Memories(ps) ==
  FoldLeft(LAMBDA ms, p : {(p :> v) @@ m : v \in Values(p), m \in ms}, {<<>>}, SetToSeq(ps))

(* Whatever the other parties make of the shared places.                    *)
Disturbed(R) == {g @@ m : g \in Memories(Shared), m \in R}
Stored(R, p, e) ==
  Disturbed({[m EXCEPT ![Named(p)] = Wrap(Type(p).signed, Type(p).w, Val(m, e).v)] : m \in R})
Where(R, e) == {m \in R : Holds(m, e)}

Here == Head(frames)
Block(k) == [k |-> k, declared |-> {}]
Names == ({p.root : p \in Places} \ Lets)
         \cup UNION {frames[i].declared : i \in DOMAIN frames}
InScope(e) == \A p \in Atoms(e) : p.root \in Names
Declaring(x) == frames' = [frames EXCEPT ![1].declared = @ \cup {x}]

Step == steps < MaxSteps /\ steps' = steps + 1
Walking == Step /\ ~facts.bottom /\ Here.k # "loop"
Goes(F, R) == facts' = F /\ reach' = R
InBlock == UNCHANGED frames

Store(p, e) ==
  /\ Walking /\ InScope(e) /\ p.root \in Names
  /\ Goes(Record(facts, p, e), Stored(reach, p, e))
  /\ InBlock

(* `let x = e`, and the binding of a name to what a call that can fail      *)
(* returns, in the block that follows it.                                   *)
Let(x, e) ==
  LET p == [root |-> x, fld |-> "self"] IN
  /\ Walking /\ InScope(e) /\ x \notin Names
  /\ Goes(Record(DropNames(facts, {x}), p, e), Stored(reach, p, e))
  /\ Declaring(x)

Try(x) ==
  LET p == [root |-> x, fld |-> "self"] IN
  /\ Walking /\ x \notin Names /\ Len(frames) < MaxFrames
  /\ frames' = <<[k |-> "try", declared |-> {x}, other |-> <<facts, reach>>]>> \o frames
  /\ Goes(facts, Disturbed({[m EXCEPT ![p] = v] : m \in reach, v \in Values(p)}))

(* `let r = s`: the reference names the place of s.                         *)
Alias(r) ==
  /\ Walking /\ r \notin Names /\ Refs[r] \in Names
  /\ Goes([DropNames(facts, {r}) EXCEPT !.aliases = (r :> Refs[r]) @@ @], reach)
  /\ Declaring(r)

(* `check c`, whose failure leaves the program.                             *)
Check(c) ==
  /\ Walking /\ InScope(c)
  /\ Goes(Assume(facts, c), Disturbed(Where(reach, c)))
  /\ InBlock

Exit ==
  /\ Walking
  /\ Goes([facts EXCEPT !.bottom = TRUE], {})
  /\ InBlock

(* Whether the facts decide a condition, and how.                           *)
Decided(F, c) == Eval(State(F), ResolveExpr(F, c)).t

If(c) ==
  /\ Walking /\ InScope(c) /\ Len(frames) < MaxFrames
  /\ frames' = <<[k |-> "then", declared |-> {}, cond |-> Decided(facts, c),
                  other |-> <<Assume(facts, Negate(c)), Disturbed(Where(reach, Negate(c)))>>]>>
               \o frames
  /\ Goes(Assume(facts, c), Disturbed(Where(reach, c)))

(* What is left of a block at its end.                                      *)
Left == DropNames(facts, Here.declared)

Else ==
  /\ Here.k = "then"
  /\ Goes(Here.other[1], Here.other[2])
  /\ frames' = [frames EXCEPT ![1] = [@ EXCEPT !.k = "else", !.declared = {},
                                               !.other = <<Left, reach>>]]
  /\ UNCHANGED steps

EndIf ==
  /\ Here.k = "else"
  /\ Goes(CASE Here.cond = "yes" -> Here.other[1]
            [] Here.cond = "no" -> Left
            [] OTHER -> MeetFacts(Here.other[1], Left),
          reach \cup Here.other[2])
  /\ frames' = Tail(frames)
  /\ UNCHANGED steps

(* The end of the block of a `try`; its `else` block is empty or exits.     *)
EndTry ==
  /\ Here.k = "try"
  /\ \/ Goes(MeetFacts(Left, Here.other[1]), reach \cup Here.other[2])
     \/ Goes(Left, reach)
  /\ frames' = Tail(frames)
  /\ UNCHANGED steps

(* `repeat n`: every turn starts from the facts of the loop's head, and     *)
(* they are what is left after it, at its end or at a break.                *)
Turns(b, n, head) ==
  /\ Goes(head, reach)
  /\ frames' = <<[k |-> "loop", declared |-> {}, body |-> b, at |-> 1, turns |-> n,
                  head |-> head]>> \o frames
Repeat(b, n) ==
  /\ Walking /\ Len(frames) < MaxFrames
  /\ \A i \in DOMAIN b : b[i][1].root \in Names /\ InScope(b[i][2])
  /\ Turns(b, n, LoopHead(facts, b, n))

Assigns(F, R, maybe) ==
  IF maybe THEN Goes(MeetFacts(F, facts), R \cup reach) ELSE Goes(F, R)
Turn ==
  LET s == Here.body[Here.at] IN
  /\ Here.k = "loop" /\ Here.at <= Len(Here.body)
  /\ Assigns(Record(facts, s[1], s[2]), Stored(reach, s[1], s[2]), s[3])
  /\ frames' = [frames EXCEPT ![1].at = @ + 1]
  /\ UNCHANGED steps

Again ==
  /\ Here.k = "loop" /\ Here.at > Len(Here.body) /\ Here.turns > 1
  /\ Goes(Here.head, reach)
  /\ frames' = [frames EXCEPT ![1].at = 1, ![1].turns = @ - 1]
  /\ UNCHANGED steps

Leave ==
  /\ Here.k = "loop"
  /\ Goes(Here.head, reach)
  /\ frames' = Tail(frames)
  /\ UNCHANGED steps

Init ==
  /\ facts = NoFacts
  /\ reach = {m \in Memories(Places) : \A p \in Places : p.root \in Lets => m[p] = 0}
  /\ frames = <<[k |-> "body", declared |-> {}]>>
  /\ steps = 0

Next ==
  \/ \E s \in Stores : Store(s[1], s[2])
  \/ \E s \in Bindings : Let(s[1], s[2])
  \/ \E x \in Lets : Try(x)
  \/ \E r \in DOMAIN Refs : Alias(r)
  \/ \E c \in Conds : Check(c) \/ If(c)
  \/ \E b \in Bodies, n \in 1..MaxIters : Repeat(b, n)
  \/ Exit \/ Else \/ EndIf \/ EndTry \/ Turn \/ Again \/ Leave

Spec == Init /\ [][Next]_vars

-----------------------------------------------------------------------------
(* Properties.                                                              *)

(* Every fact the checker holds is true of every run that gets there,       *)
(* whatever other parties have written meanwhile.                           *)
FactsHold == \A m \in reach, i \in DOMAIN facts.facts : Holds(m, facts.facts[i])

(* What the procedure says the facts entail is true in every memory in      *)
(* which they all are: the theorem entails_sound of Entail.lean.            *)
EntailsSound ==
  LET accepted == {P \in Demands : InScope(P) /\ Entails(facts, P)}
  IN  ~facts.bottom =>
        \A m \in Memories(Stack) :
          (\A i \in DOMAIN facts.facts : Holds(m, facts.facts[i]))
            => \A P \in accepted : Holds(m, P)

(* The bound a loop takes its cap from, and the set a verdict is allowed    *)
(* by, contain every value the expression has in a run.                     *)
AnswersSound ==
  \A e \in {e \in Terms : InScope(e)} :
    LET values == {Val(m, e).v : m \in reach}
    IN  /\ \A v \in values : v <= UpperOf(facts, e)
        /\ \A vals \in Verdicts : EntailsIn(facts, e, vals) => values \subseteq vals
=============================================================================
