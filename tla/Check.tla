------------------------------- MODULE Check -------------------------------
(* The checker of Core programs (Koit/Check/Stmt.lean, Decl.lean): the half *)
(* of the statement rules that decides what is held, what is moved, which   *)
(* views are dead and where control goes.  Types, refinements, numeric      *)
(* facts and effects other than `call` and `resize` are left out; what      *)
(* depends on a condition's value is left to the condition's tag.           *)
(*                                                                          *)
(* A block is a sequence of statements.  Checking it threads the facts of   *)
(* the path through it: `ok` is FALSE once an error was reported.           *)
EXTENDS Naturals, Sequences, FiniteSets, SequencesExt

CONSTANT
  MaxNesting     \* bound: how deep the blocks of a program nest

ASSUME CheckAssumption == MaxNesting \in Nat

-----------------------------------------------------------------------------
(* Statements.  `f` is the fallible operation of a `try`, `y` the name it   *)
(* takes, `x` the name a `try` or `hold` binds ("_" for none), `t` and `e`  *)
(* the blocks; a `hold` without an `else` has e = <<>>.                     *)

Ret      == [op |-> "ret"]
Raise    == [op |-> "raise"]
Brk      == [op |-> "brk"]
Cont     == [op |-> "cont"]
Call     == [op |-> "call"]                  \* a kernel call that cannot fail
Use(x)   == [op |-> "use", x |-> x]          \* any other mention of x
Give(x)  == [op |-> "give", x |-> x]         \* sk_release(move x)
Ite(c, t, e)     == [op |-> "ite", c |-> c, t |-> t, e |-> e]
Loop(t)          == [op |-> "loop", t |-> t]
Try(f, y, x, t, e) == [op |-> "try", f |-> f, y |-> y, x |-> x, t |-> t, e |-> e]
Hold(r, x, t, e) == [op |-> "hold", r |-> r, x |-> x, t |-> t, e |-> e]

(* The resource declarations, as far as the checker reads them.             *)
CanFail(r)   == r \in {"ringbuf", "sockref"}
Yields(r)    == r \in {"ringbuf", "sockref"}
Nests(r)     == r # "spinlock"
Forbids(r)   == IF r = "spinlock" THEN {"call", "resize"} ELSE {}

(* The statements over a set of blocks, and the blocks of nesting n: the    *)
(* rules below recur on the nesting.                                        *)
Fallibles == {"view", "cast", "resize", "tail"}
Leaf == [op : {"ret", "raise", "brk", "cont", "call"}] \cup [op : {"use", "give"}, x : STRING]
StmtsOver(B) ==
  Leaf
  \cup [op : {"ite"}, c : {"yes", "no", "unknown"}, t : B, e : B]
  \cup [op : {"loop"}, t : B]
  \cup [op : {"try"}, f : Fallibles, y : STRING, x : STRING, t : B, e : B]
  \cup [op : {"hold"}, r : STRING, x : STRING, t : B, e : B]
Blocks[n \in Nat] == IF n = 0 THEN Seq(Leaf) ELSE Seq(StmtsOver(Blocks[n - 1]))

(* Whether a block ends in an exit, by its last statement; `inner` is the   *)
(* rule for the blocks inside.                                              *)
EndsPath(inner, s) ==
  \/ s.op \in {"ret", "raise", "brk", "cont"}
  \/ (s.op \in {"ite", "try"} /\ inner[s.t] /\ inner[s.e])
  \/ (s.op = "hold" /\ inner[s.t] /\ (s.e # <<>> => inner[s.e]))
ExitsBy(inner, b) == b # <<>> /\ EndsPath(inner, Last(b))
Exits[n \in Nat] ==
  [b \in Blocks[n] |-> ExitsBy(IF n = 0 THEN <<>> ELSE Exits[n - 1], b)]

Resizes(s) == s.op = "try" /\ s.f = "resize"
Kills(inner, s) ==
  \/ Resizes(s)
  \/ (s.op \in {"ite", "try", "hold", "loop"} /\ inner[s.t])
  \/ (s.op \in {"ite", "try", "hold"} /\ inner[s.e])
ResizeBy(inner, b) == \E i \in DOMAIN b : Kills(inner, b[i])
ResizeIn[n \in Nat] ==
  [b \in Blocks[n] |-> ResizeBy(IF n = 0 THEN <<>> ELSE ResizeIn[n - 1], b)]

(* The names a statement itself mentions, and those it moves.               *)
Moves(s)    == IF s.op = "give" THEN {s.x} ELSE {}
Mentions(s) ==
  CASE s.op \in {"use", "give"} -> {s.x}
    [] s.op = "try" /\ s.f = "cast" -> {s.y}
    [] OTHER -> {}

(* The effects of a statement apart from its blocks.                        *)
Effects(s) ==
  (IF s.op \in {"call", "give", "hold"} \/ (s.op = "try" /\ s.f # "view")
     THEN {"call"} ELSE {})
  \cup (IF Resizes(s) THEN {"resize"} ELSE {})

-----------------------------------------------------------------------------
(* Facts and context.                                                       *)

(* `moved` the owned names moved on this path, `dead` the views whose token *)
(* was dropped, `bottom` a path that has exited.                            *)
Facts0  == [ok |-> TRUE, bottom |-> FALSE, moved |-> {}, dead |-> {}]
Refused == [Facts0 EXCEPT !.ok = FALSE]
Bot(F)  == [F EXCEPT !.bottom = TRUE]
DropNames(F, xs) == [F EXCEPT !.moved = @ \ xs, !.dead = @ \ xs]

Types    == {"view", "cast", "sock", "rec", "none"}
Kinds    == [pkt : BOOLEAN, verdicts : BOOLEAN, sockets : BOOLEAN]
FactSets == [ok : BOOLEAN, bottom : BOOLEAN, moved : SUBSET STRING, dead : SUBSET STRING]
Contexts ==
  [kind : Kinds, mayFail : BOOLEAN, locals : Seq([x : STRING, ty : Types]),
   held : Seq([res : STRING, x : STRING]), inLoop : BOOLEAN,
   loopMoved : SUBSET STRING, derived : SUBSET (STRING \X STRING)]

(* `locals` innermost first; `held` the enclosing holds, innermost first;   *)
(* `loopMoved` what is moved at the head of the innermost loop; `derived`   *)
(* the names in scope that guard on another, as pairs.                      *)
Context(kind, fails) ==
  [kind |-> kind, mayFail |-> fails, locals |-> <<>>, held |-> <<>>,
   inLoop |-> FALSE, loopMoved |-> {}, derived |-> {}]
Bind(K, x, ty) == IF x = "_" THEN K ELSE [K EXCEPT !.locals = <<[x |-> x, ty |-> ty]>> \o @]

InScope(K, x) == \E i \in DOMAIN K.locals : K.locals[i].x = x
TypeOf(K, x)  == K.locals[CHOOSE i \in DOMAIN K.locals :
                   /\ K.locals[i].x = x
                   /\ \A j \in 1..(i - 1) : K.locals[j].x # x].ty
ViewsInScope(K) ==
  {K.locals[i].x : i \in {j \in DOMAIN K.locals : K.locals[j].ty = "view"}}
KillViews(K, F) == [F EXCEPT !.dead = @ \cup ViewsInScope(K)]

(* Where two paths meet: an exited path contributes nothing, a view dead on *)
(* either is dead, and the two must agree on what is moved.                 *)
Meet(F1, F2) ==
  IF F1.bottom THEN F2
  ELSE IF F2.bottom THEN F1
  ELSE [F1 EXCEPT !.dead = @ \cup F2.dead]

JoinMoved(F1, F2) == F1.bottom \/ F2.bottom \/ F1.moved = F2.moved

(* Bug: a path back to the head may have moved a name.                      *)
BugLoopMovesFreely(K, F) == TRUE
LoopMovedOk(K, F) == F.bottom \/ F.moved \subseteq K.loopMoved

LoopHead(rules, K, F, b) == IF rules.resizes[b] THEN KillViews(K, F) ELSE F

CheckHeld(K, s) ==
  \A i \in DOMAIN K.held : Forbids(K.held[i].res) \cap Effects(s) = {}
CheckNesting(K, r) == Nests(r) \/ \A i \in DOMAIN K.held : K.held[i].res # r

(* Bug: a tail call is admitted with a resource held.                       *)
BugTailAnywhere(K) == TRUE
TailAllowed(K) == K.held = <<>>

(* Bug: a name may be moved under a name derived from it.                   *)
BugSinkIgnoresDerived(K, x) == TypeOf(K, x) = "sock"
SinkTakes(K, x) ==
  TypeOf(K, x) = "sock" /\ \A d \in K.derived : d[2] # x

(* A derived name hangs off a held name or off another derived one.         *)
CastAllowed(K, y) ==
  /\ TypeOf(K, y) \in {"sock", "cast"}
  /\ \/ \E i \in DOMAIN K.held : K.held[i].x = y
     \/ \E d \in K.derived : d[1] = y

(* The type a fallible operation binds, and its own checks.                 *)
Bound == [view |-> "view", cast |-> "cast", resize |-> "none", tail |-> "none"]
FallibleOk(K, s) ==
  /\ s.f \in {"view", "resize"} => K.kind.pkt
  /\ s.f = "tail" => TailAllowed(K)
  /\ s.f = "cast" => CastAllowed(K, s.y)
  /\ s.x # "_" => Bound[s.f] # "none"

(* The `else` of a hold stands exactly where the acquisition can fail.      *)
HoldOk(rules, K, s) ==
  /\ CheckNesting(K, s.r)
  /\ CanFail(s.r) <=> s.e # <<>>
  /\ s.e # <<>> => rules.exits[s.e]
  /\ Yields(s.r) <=> s.x # "_"
  /\ s.r = "sockref" => K.kind.sockets

-----------------------------------------------------------------------------
(* `rules` are the rules for the blocks inside a statement.                 *)
CheckIte(rules, K, F, s) ==
  LET Ft == rules.check[K][F][s.t]
      Fe == rules.check[K][F][s.e]
  IN  IF ~(Ft.ok /\ Fe.ok) THEN Refused
      ELSE CASE s.c = "yes" -> Ft          \* a condition the facts decide
             [] s.c = "no"  -> Fe
             [] OTHER -> IF JoinMoved(Ft, Fe) THEN Meet(Ft, Fe) ELSE Refused

(* The end of the body is held to the moves of the enclosing loop's head.   *)
LoopContext(K, F) == [K EXCEPT !.inLoop = TRUE, !.loopMoved = F.moved]
CheckLoop(rules, K, F, s) ==
  LET Fh == LoopHead(rules, K, F, s.t)
      Fb == rules.check[LoopContext(K, F)][Fh][s.t]
  IN  IF Fb.ok /\ LoopMovedOk(K, Fb) THEN Fh ELSE Refused

TryContext(K, s) ==
  [Bind(K, s.x, Bound[s.f]) EXCEPT
     !.derived = IF s.f = "cast" /\ s.x # "_" THEN @ \cup {<<s.x, s.y>>} ELSE @]
CheckTry(rules, K, F, s) ==
  LET Ft == DropNames(rules.check[TryContext(K, s)][F][s.t], {s.x})
      Fe == rules.check[K][F][s.e]
  IN  IF FallibleOk(K, s) /\ Ft.ok /\ Fe.ok /\ JoinMoved(Ft, Fe) THEN Meet(Ft, Fe) ELSE Refused

HoldContext(K, s) ==
  [Bind(K, s.x, IF s.r = "sockref" THEN "sock" ELSE "rec") EXCEPT
     !.held = <<[res |-> s.r, x |-> s.x]>> \o @]
CheckHold(rules, K, F, s) ==
  LET Fb == DropNames(rules.check[HoldContext(K, s)][F][s.t], {s.x})
      Fe == IF s.e = <<>> THEN Bot(F) ELSE rules.check[K][F][s.e]
  IN  IF HoldOk(rules, K, s) /\ Fb.ok /\ Fe.ok /\ JoinMoved(Fb, Fe) THEN Meet(Fb, Fe) ELSE Refused

CheckBody(rules, K, F, s) ==
  CASE s.op \in {"call", "use"} -> F
    [] s.op = "give" -> IF SinkTakes(K, s.x) THEN F ELSE Refused
    [] s.op = "ret"  -> Bot(F)
    [] s.op = "raise" -> IF K.mayFail THEN Bot(F) ELSE Refused
    [] s.op \in {"brk", "cont"} -> IF K.inLoop /\ LoopMovedOk(K, F) THEN Bot(F) ELSE Refused
    [] s.op = "ite"  -> CheckIte(rules, K, F, s)
    [] s.op = "loop" -> CheckLoop(rules, K, F, s)
    [] s.op = "try"  -> CheckTry(rules, K, F, s)
    [] s.op = "hold" -> CheckHold(rules, K, F, s)

(* The guards, then the moves, of a statement; its rule; its effects        *)
(* against what is held.                                                    *)
CheckStmt(rules, K, F, s) ==
  LET G == IF Resizes(s) THEN KillViews(K, F) ELSE F
      M == [G EXCEPT !.moved = @ \cup Moves(s)]
  IN  IF /\ \A x \in Mentions(s) : InScope(K, x)
         /\ Mentions(s) \cap (F.dead \cup F.moved) = {}
         /\ CheckHeld(K, s)
        THEN CheckBody(rules, K, M, s) ELSE Refused

(* A block: its statements in order, up to the first error.                 *)
NextFacts(rules, K, F, s) == IF F.ok THEN CheckStmt(rules, K, F, s) ELSE F
BlockFacts(rules, K, F, b) ==
  LET after[i \in 0..Len(b)] ==
        IF i = 0 THEN F ELSE NextFacts(rules, K, after[i - 1], b[i])
  IN  after[Len(b)]

(* The rules for the blocks of nesting n.                                   *)
RulesOf(n, check) == [exits |-> Exits[n], resizes |-> ResizeIn[n], check |-> check]
NoRules == [exits |-> <<>>, resizes |-> <<>>, check |-> <<>>]
CheckBlocks(n, rules) ==
  [K \in Contexts |-> [F \in FactSets |-> [b \in Blocks[n] |-> BlockFacts(rules, K, F, b)]]]
CheckStmts[n \in Nat] ==
  CheckBlocks(n, IF n = 0 THEN NoRules ELSE RulesOf(n - 1, CheckStmts[n - 1]))

-----------------------------------------------------------------------------
(* A program: its kind, its body, and the one handler the desugaring gives  *)
(* every failure kind.                                                      *)
CheckProgram(p) ==
  /\ CheckStmts[MaxNesting][Context(p.kind, FALSE)][Facts0][p.handler].ok
  /\ Exits[MaxNesting][p.handler]
  /\ CheckStmts[MaxNesting][Context(p.kind, TRUE)][Facts0][p.body].ok
  /\ p.kind.verdicts => Exits[MaxNesting][p.body]
=============================================================================
