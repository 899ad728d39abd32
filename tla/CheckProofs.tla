---------------------------- MODULE CheckProofs ----------------------------
(* What the rules of Check say, for every nesting: the recursions they are  *)
(* written with have solutions, they keep their types, and what a block     *)
(* does to the facts of the path through it.                                *)
EXTENDS Check, Arithmetic

-----------------------------------------------------------------------------
(* The recursions on the nesting.                                           *)

LEMMA BlocksSolved ==
  /\ Blocks[0] = Seq(Leaf)
  /\ \A n \in Nat : Blocks[n + 1] = Seq(StmtsOver(Blocks[n]))
<1> DEFINE Step(B) == Seq(StmtsOver(B))
           Upto(n, g) == g[0] = Seq(Leaf) /\ \A k \in 0..(n - 1) : g[k + 1] = Step(g[k])
           S == {n \in Nat : \E g : Upto(n, g)}
<1> HIDE DEF Step
<1>1. 0 \in S
  <2>1. Upto(0, [k \in {0} |-> Seq(Leaf)])
    OBVIOUS
  <2> QED BY <2>1
<1>2. ASSUME NEW n \in Nat, n \in S PROVE n + 1 \in S
  <2>1. PICK g : Upto(n, g)
    BY <1>2
  <2> DEFINE h == [k \in 0..(n + 1) |-> IF k = n + 1 THEN Step(g[n]) ELSE g[k]]
  <2>2. h[0] = Seq(Leaf)
    BY <2>1
  <2>3. ASSUME NEW k \in 0..n PROVE h[k + 1] = Step(h[k])
    <3>1. CASE k = n
      <4>1. n \in 0..(n + 1) /\ n + 1 \in 0..(n + 1) /\ n # n + 1
        OBVIOUS
      <4> QED BY <3>1, <4>1
    <3>2. CASE k # n
      <4>1. k \in 0..(n - 1) /\ k \in 0..(n + 1) /\ k + 1 \in 0..(n + 1) /\ k # n + 1 /\ k + 1 # n + 1
        BY <3>2
      <4>2. h[k + 1] = g[k + 1] /\ h[k] = g[k]
        BY <4>1
      <4> HIDE DEF h
      <4> QED BY <2>1, <4>1, <4>2
    <3> QED BY <3>1, <3>2
  <2> HIDE DEF h
  <2>4. Upto(n + 1, h)
    BY <2>2, <2>3
  <2> HIDE DEF Upto
  <2> QED BY <2>4
<1>3. Nat \subseteq S
  <2> HIDE DEF S
  <2> QED BY <1>1, <1>2, SetInduction
<1>4. ASSUME NEW m \in Nat, NEW n \in Nat, m =< n, NEW g, NEW h, Upto(m, g), Upto(n, h)
      PROVE  g[m] = h[m]
  <2> DEFINE E == {k \in Nat : k =< m => g[k] = h[k]}
  <2>1. 0 \in E
    BY <1>4
  <2>2. ASSUME NEW k \in Nat, k \in E PROVE k + 1 \in E
    <3>1. CASE k + 1 =< m
      <4>1. k \in 0..(m - 1) /\ k \in 0..(n - 1) /\ k =< m
        BY <3>1, <1>4
      <4>2. g[k + 1] = Step(g[k]) /\ h[k + 1] = Step(h[k])
        BY <1>4, <4>1
      <4> QED BY <4>1, <4>2, <2>2
    <3> QED BY <3>1
  <2>3. Nat \subseteq E
    <3> HIDE DEF E
    <3> QED BY <2>1, <2>2, SetInduction
  <2> QED BY <2>3
<1> DEFINE G(n) == CHOOSE g : Upto(n, g)
           F == [n \in Nat |-> G(n)[n]]
<1>5. ASSUME NEW n \in Nat PROVE Upto(n, G(n))
  BY <1>3
<1>6. F[0] = Seq(Leaf)
  <2>1. Upto(0, G(0))
    <3>1. \A m \in Nat : Upto(m, G(m))
      BY <1>5
    <3> HIDE DEF Upto, G
    <3> QED BY <3>1
  <2>2. F[0] = G(0)[0]
    <3> HIDE DEF G
    <3> QED OBVIOUS
  <2> HIDE DEF F, G
  <2> QED BY <2>1, <2>2
<1>7. ASSUME NEW n \in Nat PROVE F[n + 1] = Step(F[n])
  <2>1. Upto(n, G(n)) /\ Upto(n + 1, G(n + 1)) /\ n + 1 \in Nat /\ n =< n + 1 /\ n \in 0..((n + 1) - 1)
    <3>1. \A m \in Nat : Upto(m, G(m))
      BY <1>5
    <3> HIDE DEF Upto, G
    <3> QED BY <3>1
  <2>2. G(n)[n] = G(n + 1)[n]
    <3> HIDE DEF Upto, G
    <3> QED BY <2>1, <1>4
  <2>3. G(n + 1)[n + 1] = Step(G(n + 1)[n])
    <3> HIDE DEF G
    <3> QED BY <2>1
  <2>4. F[n + 1] = G(n + 1)[n + 1] /\ F[n] = G(n)[n]
    <3> HIDE DEF G
    <3> QED BY <2>1
  <2> HIDE DEF G, F, Upto
  <2> QED BY <2>2, <2>3, <2>4
<1>8. F = [n \in Nat |-> IF n = 0 THEN Seq(Leaf) ELSE Seq(StmtsOver(F[n - 1]))]
  <2> SUFFICES ASSUME NEW n \in Nat
               PROVE  F[n] = IF n = 0 THEN Seq(Leaf) ELSE Seq(StmtsOver(F[n - 1]))
    OBVIOUS
  <2> HIDE DEF F
  <2>1. CASE n = 0
    BY <2>1, <1>6
  <2>2. CASE n # 0
    <3>1. n - 1 \in Nat /\ (n - 1) + 1 = n
      BY <2>2
    <3>2. F[n] = Step(F[n - 1])
      BY <3>1, <1>7
    <3> QED BY <2>2, <3>2 DEF Step
  <2> QED BY <2>1, <2>2
<1> HIDE DEF F
<1>9. Blocks = [n \in Nat |-> IF n = 0 THEN Seq(Leaf) ELSE Seq(StmtsOver(Blocks[n - 1]))]
  BY <1>8 DEF Blocks
<1>10. ASSUME NEW n \in Nat PROVE Blocks[n + 1] = Seq(StmtsOver(Blocks[n]))
  <2>1. n + 1 \in Nat /\ n + 1 # 0 /\ (n + 1) - 1 = n
    OBVIOUS
  <2> HIDE DEF Blocks
  <2> QED BY <1>9, <2>1
<1> QED BY <1>9, <1>10

LEMMA BlocksExist ==
  ASSUME NEW n \in Nat
  PROVE  n + 1 \in Nat /\ n + 1 # 0 /\ (n + 1) - 1 = n
OBVIOUS

(* A rule for blocks that answers yes or no.                                *)
LEMMA ExitsSolved ==
  /\ Exits[0] = [b \in Blocks[0] |-> ExitsBy(<<>>, b)]
  /\ \A n \in Nat : Exits[n + 1] = [b \in Blocks[n + 1] |-> ExitsBy(Exits[n], b)]
<1> DEFINE V == UNION {[Blocks[n] -> BOOLEAN] : n \in Nat}
           base == [b \in Blocks[0] |-> ExitsBy(<<>>, b)]
           step == [n \in Nat |-> [f \in V |-> [b \in Blocks[n + 1] |-> ExitsBy(f, b)]]]
<1>1. ASSUME NEW n \in Nat, NEW f PROVE [b \in Blocks[n] |-> ExitsBy(f, b)] \in V
  <2>1. ASSUME NEW b PROVE ExitsBy(f, b) \in BOOLEAN
    BY DEF ExitsBy
  <2>2. [b \in Blocks[n] |-> ExitsBy(f, b)] \in [Blocks[n] -> BOOLEAN]
    BY <2>1
  <2> QED BY <2>2
<1>2. base \in V /\ step \in [Nat -> [V -> V]]
  <2>1. base \in V
    BY <1>1
  <2>2. ASSUME NEW n \in Nat, NEW f \in V PROVE [b \in Blocks[n + 1] |-> ExitsBy(f, b)] \in V
    BY <1>1
  <2> HIDE DEF V
  <2> QED BY <2>1, <2>2
<1> HIDE DEF V
<1>3. PICK g \in [Nat -> V] : Recurs(g, base, step)
  <2> HIDE DEF base, step
  <2> QED BY <1>2, RecursionSolved
<1>4. g = [n \in Nat |-> [b \in Blocks[n] |-> ExitsBy(IF n = 0 THEN <<>> ELSE g[n - 1], b)]]
  <2>1. ASSUME NEW n \in Nat
        PROVE  g[n] = [b \in Blocks[n] |-> ExitsBy(IF n = 0 THEN <<>> ELSE g[n - 1], b)]
    <3>1. g[n] = IF n = 0 THEN base ELSE step[n - 1][g[n - 1]]
      BY <1>3 DEF Recurs
    <3>2. CASE n = 0
      BY <3>1, <3>2
    <3>3. CASE n # 0
      <4>1. n - 1 \in Nat /\ (n - 1) + 1 = n /\ g[n - 1] \in V
        BY <3>3, <1>3
      <4>2. step[n - 1][g[n - 1]] = [b \in Blocks[(n - 1) + 1] |-> ExitsBy(g[n - 1], b)]
        BY <4>1
      <4> HIDE DEF step, base
      <4> QED BY <3>1, <3>3, <4>1, <4>2
    <3> QED BY <3>2, <3>3
  <2> QED BY <2>1, <1>3
<1>5. Exits = [n \in Nat |-> [b \in Blocks[n] |-> ExitsBy(IF n = 0 THEN <<>> ELSE Exits[n - 1], b)]]
  BY <1>4 DEF Exits
<1> HIDE DEF Exits
<1> QED BY <1>5, BlocksExist
LEMMA ResizeInSolved ==
  /\ ResizeIn[0] = [b \in Blocks[0] |-> ResizeBy(<<>>, b)]
  /\ \A n \in Nat : ResizeIn[n + 1] = [b \in Blocks[n + 1] |-> ResizeBy(ResizeIn[n], b)]
<1> DEFINE V == UNION {[Blocks[n] -> BOOLEAN] : n \in Nat}
           base == [b \in Blocks[0] |-> ResizeBy(<<>>, b)]
           step == [n \in Nat |-> [f \in V |-> [b \in Blocks[n + 1] |-> ResizeBy(f, b)]]]
<1>1. ASSUME NEW n \in Nat, NEW f PROVE [b \in Blocks[n] |-> ResizeBy(f, b)] \in V
  <2>1. ASSUME NEW b PROVE ResizeBy(f, b) \in BOOLEAN
    BY DEF ResizeBy
  <2>2. [b \in Blocks[n] |-> ResizeBy(f, b)] \in [Blocks[n] -> BOOLEAN]
    BY <2>1
  <2> QED BY <2>2
<1>2. base \in V /\ step \in [Nat -> [V -> V]]
  <2>1. base \in V
    BY <1>1
  <2>2. ASSUME NEW n \in Nat, NEW f \in V PROVE [b \in Blocks[n + 1] |-> ResizeBy(f, b)] \in V
    BY <1>1
  <2> HIDE DEF V
  <2> QED BY <2>1, <2>2
<1> HIDE DEF V
<1>3. PICK g \in [Nat -> V] : Recurs(g, base, step)
  <2> HIDE DEF base, step
  <2> QED BY <1>2, RecursionSolved
<1>4. g = [n \in Nat |-> [b \in Blocks[n] |-> ResizeBy(IF n = 0 THEN <<>> ELSE g[n - 1], b)]]
  <2>1. ASSUME NEW n \in Nat
        PROVE  g[n] = [b \in Blocks[n] |-> ResizeBy(IF n = 0 THEN <<>> ELSE g[n - 1], b)]
    <3>1. g[n] = IF n = 0 THEN base ELSE step[n - 1][g[n - 1]]
      BY <1>3 DEF Recurs
    <3>2. CASE n = 0
      BY <3>1, <3>2
    <3>3. CASE n # 0
      <4>1. n - 1 \in Nat /\ (n - 1) + 1 = n /\ g[n - 1] \in V
        BY <3>3, <1>3
      <4>2. step[n - 1][g[n - 1]] = [b \in Blocks[(n - 1) + 1] |-> ResizeBy(g[n - 1], b)]
        BY <4>1
      <4> HIDE DEF step, base
      <4> QED BY <3>1, <3>3, <4>1, <4>2
    <3> QED BY <3>2, <3>3
  <2> QED BY <2>1, <1>3
<1>5. ResizeIn = [n \in Nat |-> [b \in Blocks[n] |-> ResizeBy(IF n = 0 THEN <<>> ELSE ResizeIn[n - 1], b)]]
  BY <1>4 DEF ResizeIn
<1> HIDE DEF ResizeIn
<1> QED BY <1>5, BlocksExist

(* The programs the theorems are about: a binder takes no name in scope,    *)
(* and a move takes the name of the innermost enclosing hold (`owner`).     *)
Named(x) == {x} \ {"_"}
Owners   == STRING \cup {"_"}
PlainStmt(inner, names, owner, s) ==
  /\ s.op = "give" => s.x = owner
  /\ s.op \in {"try", "hold"} => s.x \notin names
  /\ s.op \in {"ite", "loop"} => inner[names][owner][s.t]
  /\ s.op = "try" => inner[names \cup Named(s.x)][owner][s.t]
  /\ s.op = "hold" => inner[names \cup Named(s.x)][s.x][s.t]
  /\ s.op \in {"ite", "try", "hold"} => inner[names][owner][s.e]
PlainBy(inner, names, owner, b) == \A i \in DOMAIN b : PlainStmt(inner, names, owner, b[i])
PlainBlocks(B, inner) ==
  [names \in SUBSET STRING |-> [owner \in Owners |-> [b \in B |-> PlainBy(inner, names, owner, b)]]]
Plain[n \in Nat] == PlainBlocks(Blocks[n], IF n = 0 THEN <<>> ELSE Plain[n - 1])

PlainTypes(n) == [SUBSET STRING -> [Owners -> [Blocks[n] -> BOOLEAN]]]
LEMMA PlainSolved ==
  /\ Plain[0] = PlainBlocks(Blocks[0], <<>>)
  /\ \A n \in Nat : Plain[n + 1] = PlainBlocks(Blocks[n + 1], Plain[n])
<1> DEFINE V == UNION {PlainTypes(n) : n \in Nat}
           base == PlainBlocks(Blocks[0], <<>>)
           step == [n \in Nat |-> [f \in V |-> PlainBlocks(Blocks[n + 1], f)]]
<1>1. ASSUME NEW n \in Nat, NEW f PROVE PlainBlocks(Blocks[n], f) \in V
  <2>1. ASSUME NEW names, NEW owner, NEW b PROVE PlainBy(f, names, owner, b) \in BOOLEAN
    BY DEF PlainBy
  <2>2. PlainBlocks(Blocks[n], f) \in PlainTypes(n)
    BY <2>1 DEF PlainBlocks, PlainTypes
  <2> QED BY <2>2
<1>2. base \in V /\ step \in [Nat -> [V -> V]]
  <2>1. base \in V
    BY <1>1
  <2>2. ASSUME NEW n \in Nat, NEW f \in V PROVE PlainBlocks(Blocks[n + 1], f) \in V
    BY <1>1
  <2> HIDE DEF V
  <2> QED BY <2>1, <2>2
<1> HIDE DEF V
<1>3. PICK g \in [Nat -> V] : Recurs(g, base, step)
  <2> HIDE DEF base, step
  <2> QED BY <1>2, RecursionSolved
<1>4. g = [n \in Nat |-> PlainBlocks(Blocks[n], IF n = 0 THEN <<>> ELSE g[n - 1])]
  <2>1. ASSUME NEW n \in Nat
        PROVE  g[n] = PlainBlocks(Blocks[n], IF n = 0 THEN <<>> ELSE g[n - 1])
    <3>1. g[n] = IF n = 0 THEN base ELSE step[n - 1][g[n - 1]]
      BY <1>3 DEF Recurs
    <3>2. CASE n = 0
      BY <3>1, <3>2
    <3>3. CASE n # 0
      <4>1. n - 1 \in Nat /\ (n - 1) + 1 = n /\ g[n - 1] \in V
        BY <3>3, <1>3
      <4>2. step[n - 1][g[n - 1]] = PlainBlocks(Blocks[(n - 1) + 1], g[n - 1])
        BY <4>1
      <4> HIDE DEF step, base
      <4> QED BY <3>1, <3>3, <4>1, <4>2
    <3> QED BY <3>2, <3>3
  <2> QED BY <2>1, <1>3
<1>5. Plain = [n \in Nat |-> PlainBlocks(Blocks[n], IF n = 0 THEN <<>> ELSE Plain[n - 1])]
  BY <1>4 DEF Plain
<1> HIDE DEF Plain
<1> QED BY <1>5, BlocksExist

LEMMA ChecksSolved ==
  /\ CheckStmts[0] = CheckBlocks(0, NoRules)
  /\ \A n \in Nat : CheckStmts[n + 1] = CheckBlocks(n + 1, RulesOf(n, CheckStmts[n]))
<1> DEFINE Step(m, C) == CheckBlocks(m + 1, RulesOf(m, C))
           Upto(n, g) == g[0] = CheckBlocks(0, NoRules) /\ \A k \in 0..(n - 1) : g[k + 1] = Step(k, g[k])
           S == {n \in Nat : \E g : Upto(n, g)}
<1> HIDE DEF Step
<1>1. 0 \in S
  <2>1. Upto(0, [k \in {0} |-> CheckBlocks(0, NoRules)])
    OBVIOUS
  <2> QED BY <2>1
<1>2. ASSUME NEW n \in Nat, n \in S PROVE n + 1 \in S
  <2>1. PICK g : Upto(n, g)
    BY <1>2
  <2> DEFINE h == [k \in 0..(n + 1) |-> IF k = n + 1 THEN Step(n, g[n]) ELSE g[k]]
  <2>2. h[0] = CheckBlocks(0, NoRules)
    BY <2>1
  <2>3. ASSUME NEW k \in 0..n PROVE h[k + 1] = Step(k, h[k])
    <3>1. CASE k = n
      <4>1. n \in 0..(n + 1) /\ n + 1 \in 0..(n + 1) /\ n # n + 1
        OBVIOUS
      <4> QED BY <3>1, <4>1
    <3>2. CASE k # n
      <4>1. k \in 0..(n - 1) /\ k \in 0..(n + 1) /\ k + 1 \in 0..(n + 1) /\ k # n + 1 /\ k + 1 # n + 1
        BY <3>2
      <4>2. h[k + 1] = g[k + 1] /\ h[k] = g[k]
        BY <4>1
      <4> HIDE DEF h
      <4> QED BY <2>1, <4>1, <4>2
    <3> QED BY <3>1, <3>2
  <2> HIDE DEF h
  <2>4. Upto(n + 1, h)
    BY <2>2, <2>3
  <2> HIDE DEF Upto
  <2> QED BY <2>4
<1>3. Nat \subseteq S
  <2> HIDE DEF S
  <2> QED BY <1>1, <1>2, SetInduction
<1>4. ASSUME NEW m \in Nat, NEW n \in Nat, m =< n, NEW g, NEW h, Upto(m, g), Upto(n, h)
      PROVE  g[m] = h[m]
  <2> DEFINE E == {k \in Nat : k =< m => g[k] = h[k]}
  <2>1. 0 \in E
    BY <1>4
  <2>2. ASSUME NEW k \in Nat, k \in E PROVE k + 1 \in E
    <3>1. CASE k + 1 =< m
      <4>1. k \in 0..(m - 1) /\ k \in 0..(n - 1) /\ k =< m
        BY <3>1, <1>4
      <4>2. g[k + 1] = Step(k, g[k]) /\ h[k + 1] = Step(k, h[k])
        BY <1>4, <4>1
      <4> QED BY <4>1, <4>2, <2>2
    <3> QED BY <3>1
  <2>3. Nat \subseteq E
    <3> HIDE DEF E
    <3> QED BY <2>1, <2>2, SetInduction
  <2> QED BY <2>3
<1> DEFINE G(n) == CHOOSE g : Upto(n, g)
           F == [n \in Nat |-> G(n)[n]]
<1>5. ASSUME NEW n \in Nat PROVE Upto(n, G(n))
  BY <1>3
<1>6. F[0] = CheckBlocks(0, NoRules)
  <2>1. Upto(0, G(0))
    <3>1. \A m \in Nat : Upto(m, G(m))
      BY <1>5
    <3> HIDE DEF Upto, G
    <3> QED BY <3>1
  <2>2. F[0] = G(0)[0]
    <3> HIDE DEF G
    <3> QED OBVIOUS
  <2> HIDE DEF F, G
  <2> QED BY <2>1, <2>2
<1>7. ASSUME NEW n \in Nat PROVE F[n + 1] = Step(n, F[n])
  <2>1. Upto(n, G(n)) /\ Upto(n + 1, G(n + 1)) /\ n + 1 \in Nat /\ n =< n + 1 /\ n \in 0..((n + 1) - 1)
    <3>1. \A m \in Nat : Upto(m, G(m))
      BY <1>5
    <3> HIDE DEF Upto, G
    <3> QED BY <3>1
  <2>2. G(n)[n] = G(n + 1)[n]
    <3> HIDE DEF Upto, G
    <3> QED BY <2>1, <1>4
  <2>3. G(n + 1)[n + 1] = Step(n, G(n + 1)[n])
    <3> HIDE DEF G
    <3> QED BY <2>1
  <2>4. F[n + 1] = G(n + 1)[n + 1] /\ F[n] = G(n)[n]
    <3> HIDE DEF G
    <3> QED BY <2>1
  <2> HIDE DEF G, F, Upto
  <2> QED BY <2>2, <2>3, <2>4
<1>8. F = [n \in Nat |-> IF n = 0 THEN CheckBlocks(0, NoRules) ELSE CheckBlocks(n, RulesOf(n - 1, F[n - 1]))]
  <2>0. F = [n \in Nat |-> F[n]]
    <3> HIDE DEF G
    <3> QED OBVIOUS
  <2> HIDE DEF F
  <2> SUFFICES ASSUME NEW n \in Nat
               PROVE  F[n] = IF n = 0 THEN CheckBlocks(0, NoRules) ELSE CheckBlocks(n, RulesOf(n - 1, F[n - 1]))
    BY <2>0
  <2>1. CASE n = 0
    BY <2>1, <1>6
  <2>2. CASE n # 0
    <3>1. n - 1 \in Nat /\ (n - 1) + 1 = n
      BY <2>2
    <3>2. F[n] = Step(n - 1, F[n - 1])
      BY <3>1, <1>7
    <3> QED BY <2>2, <3>2 DEF Step
  <2> QED BY <2>1, <2>2
<1> HIDE DEF F
<1>9. CheckStmts = [n \in Nat |-> IF n = 0 THEN CheckBlocks(0, NoRules) ELSE CheckBlocks(n, RulesOf(n - 1, CheckStmts[n - 1]))]
  BY <1>8 DEF CheckStmts
<1>10. ASSUME NEW n \in Nat PROVE CheckStmts[n + 1] = CheckBlocks(n + 1, RulesOf(n, CheckStmts[n]))
  <2>1. n + 1 \in Nat /\ n + 1 # 0 /\ (n + 1) - 1 = n
    OBVIOUS
  <2> HIDE DEF CheckStmts
  <2> QED BY <1>9, <2>1
<1> QED BY <1>9, <1>10

-----------------------------------------------------------------------------
(* Types.                                                                   *)

Stmts(n)   == IF n = 0 THEN Leaf ELSE StmtsOver(Blocks[n - 1])
RulesAt(n) == IF n = 0 THEN NoRules ELSE RulesOf(n - 1, CheckStmts[n - 1])

LEMMA LevelFacts ==
  ASSUME NEW n \in Nat
  PROVE  Blocks[n] = Seq(Stmts(n)) /\ CheckStmts[n] = CheckBlocks(n, RulesAt(n))
<1>1. CASE n = 0
  BY <1>1, BlocksSolved, ChecksSolved DEF Stmts, RulesAt
<1>2. CASE n # 0
  <2>1. n - 1 \in Nat /\ (n - 1) + 1 = n
    BY <1>2
  <2>2. /\ Blocks[(n - 1) + 1] = Seq(StmtsOver(Blocks[n - 1]))
        /\ CheckStmts[(n - 1) + 1] = CheckBlocks((n - 1) + 1, RulesOf(n - 1, CheckStmts[n - 1]))
    BY <2>1, BlocksSolved, ChecksSolved
  <2> QED BY <1>2, <2>1, <2>2 DEF Stmts, RulesAt
<1> QED BY <1>1, <1>2

LEMMA EmptyBlock == ASSUME NEW n \in Nat PROVE <<>> \in Blocks[n]
<1>1. Blocks[n] = Seq(Stmts(n))
  BY LevelFacts
<1> QED BY <1>1

LEMMA ElementOf == ASSUME NEW S, NEW q \in Seq(S), NEW i \in DOMAIN q PROVE q[i] \in S /\ i \in 1..Len(q)
OBVIOUS

(* What a statement carries.                                                *)
Compound == {"ite", "loop", "try", "hold"}
LEMMA StmtParts ==
  ASSUME NEW B, NEW s \in StmtsOver(B)
  PROVE  /\ s.op \in {"ret", "raise", "brk", "cont", "call", "use", "give"} \cup Compound
         /\ s.op \in {"use", "give", "try", "hold"} => s.x \in STRING
         /\ s.op = "ite" => s.c \in {"yes", "no", "unknown"}
         /\ s.op \in Compound => s.t \in B
         /\ s.op \in {"ite", "try", "hold"} => s.e \in B
         /\ s.op = "try" => s.f \in Fallibles /\ s.y \in STRING
         /\ s.op = "hold" => s.r \in STRING
         /\ s.op \notin Compound => s \in Leaf
BY DEF StmtsOver, Leaf, Compound

LEMMA LeafParts ==
  ASSUME NEW s \in Leaf
  PROVE  /\ s.op \in {"ret", "raise", "brk", "cont", "call", "use", "give"}
         /\ s.op \notin Compound
         /\ s.op \in {"use", "give"} => s.x \in STRING
BY DEF Leaf, Compound

LEMMA ContextParts ==
  ASSUME NEW K \in Contexts
  PROVE  /\ K.kind \in Kinds /\ K.mayFail \in BOOLEAN /\ K.inLoop \in BOOLEAN
         /\ K.locals \in Seq([x : STRING, ty : Types])
         /\ K.held \in Seq([res : STRING, x : STRING])
         /\ K.loopMoved \in SUBSET STRING /\ K.derived \in SUBSET (STRING \X STRING)
BY DEF Contexts

LEMMA FactParts ==
  ASSUME NEW F \in FactSets
  PROVE  /\ F.ok \in BOOLEAN /\ F.bottom \in BOOLEAN
         /\ F.moved \in SUBSET STRING /\ F.dead \in SUBSET STRING
BY DEF FactSets

LEMMA FactOps ==
  ASSUME NEW F \in FactSets, NEW G \in FactSets, NEW xs \in SUBSET STRING
  PROVE  /\ Facts0 \in FactSets /\ Facts0.ok /\ ~Facts0.bottom /\ Facts0.moved = {} /\ Facts0.dead = {}
         /\ Refused \in FactSets /\ ~Refused.ok
         /\ Bot(F) \in FactSets /\ Bot(F).ok = F.ok /\ Bot(F).bottom
         /\ Bot(F).moved = F.moved /\ Bot(F).dead = F.dead
         /\ DropNames(F, xs) \in FactSets /\ DropNames(F, xs).ok = F.ok
         /\ DropNames(F, xs).bottom = F.bottom
         /\ DropNames(F, xs).moved = F.moved \ xs /\ DropNames(F, xs).dead = F.dead \ xs
         /\ Meet(F, G) \in FactSets
BY DEF FactSets, Facts0, Refused, Bot, DropNames, Meet

LEMMA DropParts ==
  ASSUME NEW F \in FactSets, NEW xs \in SUBSET STRING
  PROVE  /\ DropNames(F, xs) \in FactSets /\ DropNames(F, xs).ok = F.ok
         /\ DropNames(F, xs).bottom = F.bottom
         /\ DropNames(F, xs).moved = F.moved \ xs /\ DropNames(F, xs).dead = F.dead \ xs
BY DEF FactSets, DropNames

LEMMA ViewsAreNames ==
  ASSUME NEW K \in Contexts
  PROVE  ViewsInScope(K) \in SUBSET STRING
<1>1. K.locals \in Seq([x : STRING, ty : Types])
  BY ContextParts
<1>2. ASSUME NEW i \in DOMAIN K.locals PROVE K.locals[i].x \in STRING
  <2>1. K.locals[i] \in [x : STRING, ty : Types]
    BY <1>1, ElementOf
  <2> QED BY <2>1
<1> QED BY <1>2 DEF ViewsInScope

LEMMA KilledViews ==
  ASSUME NEW K \in Contexts, NEW F \in FactSets
  PROVE  /\ KillViews(K, F) \in FactSets
         /\ KillViews(K, F).ok = F.ok /\ KillViews(K, F).bottom = F.bottom
         /\ KillViews(K, F).moved = F.moved
         /\ KillViews(K, F).dead = F.dead \cup ViewsInScope(K)
BY ViewsAreNames DEF KillViews, FactSets

-----------------------------------------------------------------------------
(* The contexts of the blocks inside a statement.                           *)

NamesOf(K) == {K.locals[i].x : i \in DOMAIN K.locals}
SameScope(K, L) == K.locals = L.locals /\ K.held = L.held /\ K.derived = L.derived
SameLoop(K, L)  == K.inLoop = L.inLoop /\ K.loopMoved = L.loopMoved
SameUnit(K, L)  == K.kind = L.kind /\ K.mayFail = L.mayFail

LEMMA BindParts ==
  ASSUME NEW K \in Contexts, NEW x \in STRING, NEW ty \in Types
  PROVE  /\ Bind(K, x, ty) \in Contexts
         /\ Bind(K, x, ty).locals =
              IF x = "_" THEN K.locals ELSE <<[x |-> x, ty |-> ty]>> \o K.locals
         /\ Bind(K, x, ty).held = K.held /\ Bind(K, x, ty).derived = K.derived
         /\ SameLoop(Bind(K, x, ty), K) /\ SameUnit(Bind(K, x, ty), K)
<1>1. K.locals \in Seq([x : STRING, ty : Types])
  BY ContextParts
<1>2. <<[x |-> x, ty |-> ty]>> \o K.locals \in Seq([x : STRING, ty : Types])
  BY <1>1
<1> QED BY <1>2 DEF Bind, Contexts, SameLoop, SameUnit

LEMMA LoopContextParts ==
  ASSUME NEW K \in Contexts, NEW F \in FactSets
  PROVE  /\ LoopContext(K, F) \in Contexts
         /\ SameScope(LoopContext(K, F), K) /\ SameUnit(LoopContext(K, F), K)
         /\ LoopContext(K, F).inLoop /\ LoopContext(K, F).loopMoved = F.moved
BY FactParts DEF LoopContext, Contexts, SameScope, SameUnit

LEMMA SameDerived ==
  ASSUME NEW L \in Contexts
  PROVE  [L EXCEPT !.derived = L.derived] = L
BY SMTT(30) DEF Contexts

LEMMA TryContextParts ==
  ASSUME NEW K \in Contexts, NEW s, s.x \in STRING, s.y \in STRING, s.f \in Fallibles
  PROVE  /\ TryContext(K, s) \in Contexts
         /\ TryContext(K, s).locals =
              IF s.x = "_" THEN K.locals ELSE <<[x |-> s.x, ty |-> Bound[s.f]]>> \o K.locals
         /\ TryContext(K, s).held = K.held
         /\ TryContext(K, s).derived = IF s.f = "cast" /\ s.x # "_"
                                         THEN K.derived \cup {<<s.x, s.y>>} ELSE K.derived
         /\ SameLoop(TryContext(K, s), K) /\ SameUnit(TryContext(K, s), K)
<1>1. Bound[s.f] \in Types
  BY DEF Bound, Fallibles, Types
<1> DEFINE L == Bind(K, s.x, Bound[s.f])
<1>2. /\ L \in Contexts /\ L.held = K.held /\ L.derived = K.derived
      /\ L.locals = IF s.x = "_" THEN K.locals ELSE <<[x |-> s.x, ty |-> Bound[s.f]]>> \o K.locals
      /\ SameLoop(L, K) /\ SameUnit(L, K)
  BY <1>1, BindParts
<1> HIDE DEF L
<1>3. TryContext(K, s) = [L EXCEPT !.derived = IF s.f = "cast" /\ s.x # "_" THEN @ \cup {<<s.x, s.y>>} ELSE @]
  BY DEF TryContext, L
<1>4. K.derived \in SUBSET (STRING \X STRING) /\ K.derived \cup {<<s.x, s.y>>} \in SUBSET (STRING \X STRING)
  BY ContextParts
<1>5. CASE s.f = "cast" /\ s.x # "_"
  <2>1. TryContext(K, s) = [L EXCEPT !.derived = K.derived \cup {<<s.x, s.y>>}]
    BY <1>2, <1>3, <1>5
  <2> QED BY <1>2, <1>4, <1>5, <2>1 DEF Contexts, SameLoop, SameUnit
<1>6. CASE ~(s.f = "cast" /\ s.x # "_")
  <2>1. TryContext(K, s) = [L EXCEPT !.derived = L.derived]
    BY <1>2, <1>3, <1>6
  <2>2. TryContext(K, s) = L
    BY <1>2, <2>1, SameDerived
  <2> QED BY <1>2, <1>6, <2>2
<1> QED BY <1>5, <1>6

LEMMA HoldContextParts ==
  ASSUME NEW K \in Contexts, NEW s, s.x \in STRING, s.r \in STRING
  PROVE  /\ HoldContext(K, s) \in Contexts
         /\ HoldContext(K, s).locals =
              IF s.x = "_" THEN K.locals
              ELSE <<[x |-> s.x, ty |-> IF s.r = "sockref" THEN "sock" ELSE "rec"]>> \o K.locals
         /\ HoldContext(K, s).held = <<[res |-> s.r, x |-> s.x]>> \o K.held
         /\ HoldContext(K, s).derived = K.derived
         /\ SameLoop(HoldContext(K, s), K) /\ SameUnit(HoldContext(K, s), K)
<1> DEFINE ty == IF s.r = "sockref" THEN "sock" ELSE "rec"
           L == Bind(K, s.x, ty)
<1>1. ty \in Types
  BY DEF Types
<1>2. /\ L \in Contexts /\ L.held = K.held /\ L.derived = K.derived
      /\ L.locals = IF s.x = "_" THEN K.locals ELSE <<[x |-> s.x, ty |-> ty]>> \o K.locals
      /\ SameLoop(L, K) /\ SameUnit(L, K)
  <2> HIDE DEF ty
  <2> QED BY <1>1, BindParts
<1>3. HoldContext(K, s) = [L EXCEPT !.held = <<[res |-> s.r, x |-> s.x]>> \o @]
  BY DEF HoldContext
<1> HIDE DEF L
<1>4. <<[res |-> s.r, x |-> s.x]>> \o L.held \in Seq([res : STRING, x : STRING])
  <2>1. L.held \in Seq([res : STRING, x : STRING])
    BY <1>2, ContextParts
  <2>2. [res |-> s.r, x |-> s.x] \in [res : STRING, x : STRING]
    OBVIOUS
  <2> QED BY <2>1, <2>2
<1> QED BY <1>2, <1>3, <1>4 DEF Contexts, SameLoop, SameUnit

(* Rules for the blocks of B that keep the types of facts.                  *)
TypedRules(rules, B) == rules.check \in [Contexts -> [FactSets -> [B -> FactSets]]]

LEMMA RuleTyped ==
  ASSUME NEW rules, NEW B, TypedRules(rules, B), NEW K \in Contexts, NEW F \in FactSets, NEW b \in B
  PROVE  rules.check[K][F][b] \in FactSets
BY DEF TypedRules

LEMMA IteTyped ==
  ASSUME NEW rules, NEW B, TypedRules(rules, B), NEW s \in StmtsOver(B), s.op = "ite",
         NEW K \in Contexts, NEW F \in FactSets
  PROVE  CheckIte(rules, K, F, s) \in FactSets
<1>1. rules.check[K][F][s.t] \in FactSets /\ rules.check[K][F][s.e] \in FactSets
  BY RuleTyped, StmtParts DEF Compound
<1> QED BY <1>1, FactOps DEF CheckIte

LEMMA LoopTyped ==
  ASSUME NEW rules, NEW K \in Contexts, NEW F \in FactSets, NEW s
  PROVE  /\ LoopHead(rules, K, F, s.t) \in FactSets
         /\ CheckLoop(rules, K, F, s) \in FactSets
BY KilledViews, FactOps DEF LoopHead, CheckLoop

LEMMA TryTyped ==
  ASSUME NEW rules, NEW B, TypedRules(rules, B), NEW s \in StmtsOver(B), s.op = "try",
         NEW K \in Contexts, NEW F \in FactSets
  PROVE  CheckTry(rules, K, F, s) \in FactSets
<1>1. s.x \in STRING /\ s.y \in STRING /\ s.f \in Fallibles /\ s.t \in B /\ s.e \in B
  BY StmtParts DEF Compound
<1>2. TryContext(K, s) \in Contexts
  BY <1>1, TryContextParts
<1>3. rules.check[TryContext(K, s)][F][s.t] \in FactSets /\ rules.check[K][F][s.e] \in FactSets
  BY <1>1, <1>2, RuleTyped
<1>4. {s.x} \in SUBSET STRING
  BY <1>1
<1> QED BY <1>3, <1>4, FactOps DEF CheckTry

LEMMA HoldTyped ==
  ASSUME NEW rules, NEW B, TypedRules(rules, B), NEW s \in StmtsOver(B), s.op = "hold",
         NEW K \in Contexts, NEW F \in FactSets
  PROVE  CheckHold(rules, K, F, s) \in FactSets
<1>1. s.x \in STRING /\ s.r \in STRING /\ s.t \in B /\ s.e \in B
  BY StmtParts DEF Compound
<1>2. HoldContext(K, s) \in Contexts
  BY <1>1, HoldContextParts
<1>3. rules.check[HoldContext(K, s)][F][s.t] \in FactSets /\ rules.check[K][F][s.e] \in FactSets
  BY <1>1, <1>2, RuleTyped
<1>4. {s.x} \in SUBSET STRING
  BY <1>1
<1> QED BY <1>3, <1>4, FactOps, ZenonT(60) DEF CheckHold

-----------------------------------------------------------------------------
(* Blocks: the facts after the statements of b, one at a time.              *)

(* `after` lists the facts before each statement of b and at its end.       *)
Threads(after, rules, K, F, b) ==
  /\ after \in [0..Len(b) -> FactSets]
  /\ after[0] = F
  /\ \A i \in 1..Len(b) : after[i] = NextFacts(rules, K, after[i - 1], b[i])

(* The statements of S keep the types of facts.                             *)
TypedOn(rules, K, S) ==
  \A s \in S : \A F \in FactSets : NextFacts(rules, K, F, s) \in FactSets

LEMMA BlockThreads ==
  ASSUME NEW rules, NEW K, NEW S, TypedOn(rules, K, S), NEW b \in Seq(S), NEW F \in FactSets
  PROVE  \E after : Threads(after, rules, K, F, b) /\ BlockFacts(rules, K, F, b) = after[Len(b)]
<1> DEFINE step == [n \in Nat |-> [H \in FactSets |->
                      IF n + 1 \in 1..Len(b) THEN NextFacts(rules, K, H, b[n + 1]) ELSE H]]
<1>1. step \in [Nat -> [FactSets -> FactSets]]
  <2>1. ASSUME NEW n \in Nat, NEW H \in FactSets, n + 1 \in 1..Len(b)
        PROVE  NextFacts(rules, K, H, b[n + 1]) \in FactSets
    <3>1. b[n + 1] \in S
      BY <2>1
    <3> QED BY <3>1 DEF TypedOn
  <2> QED BY <2>1
<1>2. PICK g \in [Nat -> FactSets] : Recurs(g, F, step)
  <2> HIDE DEF step
  <2> QED BY <1>1, RecursionSolved
<1>3. Len(b) \in Nat
  OBVIOUS
<1> DEFINE h == [i \in 0..Len(b) |-> g[i]]
<1>4. ASSUME NEW i \in 0..Len(b)
      PROVE  h[i] = IF i = 0 THEN F ELSE NextFacts(rules, K, h[i - 1], b[i])
  <2>0. i \in Nat
    BY <1>3
  <2>1. g[i] = IF i = 0 THEN F ELSE step[i - 1][g[i - 1]]
    <3> HIDE DEF step
    <3> QED BY <1>2, <2>0 DEF Recurs
  <2>2. CASE i = 0
    <3> HIDE DEF step
    <3> QED BY <2>1, <2>2
  <2>3. CASE i # 0
    <3>1. i - 1 \in Nat /\ i - 1 \in 0..Len(b) /\ (i - 1) + 1 = i /\ i \in 1..Len(b)
      BY <1>3, <2>3
    <3>2. g[i - 1] \in FactSets
      BY <1>2, <3>1
    <3>3. step[i - 1][g[i - 1]] = NextFacts(rules, K, g[i - 1], b[i])
      BY <3>1, <3>2
    <3> HIDE DEF step
    <3> QED BY <2>1, <2>3, <3>1, <3>3
  <2> QED BY <2>2, <2>3
<1> HIDE DEF step
<1>5. h = [i \in 0..Len(b) |-> IF i = 0 THEN F ELSE NextFacts(rules, K, h[i - 1], b[i])]
  <2> SUFFICES ASSUME NEW i \in 0..Len(b)
               PROVE  h[i] = IF i = 0 THEN F ELSE NextFacts(rules, K, h[i - 1], b[i])
    OBVIOUS
  <2> QED BY <1>4
<1>6. ASSUME NEW f, f = [i \in 0..Len(b) |-> IF i = 0 THEN F ELSE NextFacts(rules, K, f[i - 1], b[i])]
      PROVE  f[Len(b)] = h[Len(b)]
  <2> DEFINE E == {i \in Nat : i =< Len(b) => f[i] = h[i]}
  <2>1. 0 \in E
    <3>1. 0 \in 0..Len(b)
      BY <1>3
    <3>2. f[0] = F /\ h[0] = F
      <4> HIDE DEF h
      <4> QED BY <1>4, <1>6, <3>1
    <3> HIDE DEF h
    <3> QED BY <3>2
  <2>2. ASSUME NEW i \in Nat, i \in E PROVE i + 1 \in E
    <3>1. CASE i + 1 =< Len(b)
      <4>1. i + 1 \in 0..Len(b) /\ i + 1 # 0 /\ (i + 1) - 1 = i /\ i =< Len(b)
        BY <1>3, <3>1
      <4>2. h[i + 1] = NextFacts(rules, K, h[i], b[i + 1])
        BY <1>4, <4>1
      <4>3. f[i + 1] = NextFacts(rules, K, f[i], b[i + 1])
        BY <1>6, <4>1
      <4>4. f[i] = h[i]
        BY <2>2, <4>1
      <4> HIDE DEF h
      <4> QED BY <4>2, <4>3, <4>4
    <3> QED BY <3>1
  <2>3. Nat \subseteq E
    <3> HIDE DEF E
    <3> QED BY <2>1, <2>2, SetInduction
  <2> HIDE DEF h
  <2> QED BY <1>3, <2>3
<1>7. BlockFacts(rules, K, F, b) = h[Len(b)]
  <2> DEFINE R(f) == f = [i \in 0..Len(b) |-> IF i = 0 THEN F ELSE NextFacts(rules, K, f[i - 1], b[i])]
  <2>1. R(h)
    BY <1>5
  <2>2. R(CHOOSE f : R(f))
    <3> HIDE DEF h
    <3>1. \E f : R(f)
      BY <2>1
    <3> QED BY <3>1
  <2>3. BlockFacts(rules, K, F, b) = (CHOOSE f : R(f))[Len(b)]
    BY DEF BlockFacts
  <2>4. \A f : R(f) => f[Len(b)] = h[Len(b)]
    <3> HIDE DEF h
    <3> QED BY <1>6
  <2> HIDE DEF R, h
  <2> QED BY <2>2, <2>3, <2>4
<1>8. Threads(h, rules, K, F, b)
  <2>1. h[0] = F
    <3>1. 0 \in 0..Len(b)
      BY <1>3
    <3> HIDE DEF h
    <3> QED BY <1>4, <3>1
  <2>2. ASSUME NEW i \in 1..Len(b) PROVE h[i] = NextFacts(rules, K, h[i - 1], b[i])
    <3>1. i \in 0..Len(b) /\ i # 0
      BY <1>3
    <3> HIDE DEF h
    <3> QED BY <1>4, <3>1
  <2>3. h \in [0..Len(b) -> FactSets]
    BY <1>2, <1>3
  <2> HIDE DEF h
  <2> QED BY <2>1, <2>2, <2>3 DEF Threads
<1> HIDE DEF h
<1> QED BY <1>7, <1>8
LEMMA BlockEmpty ==
  ASSUME NEW rules, NEW K, NEW F \in FactSets
  PROVE  BlockFacts(rules, K, F, <<>>) = F
<1>1. TypedOn(rules, K, {}) /\ <<>> \in Seq({})
  BY DEF TypedOn
<1>2. PICK a : Threads(a, rules, K, F, <<>>) /\ BlockFacts(rules, K, F, <<>>) = a[Len(<<>>)]
  BY <1>1, BlockThreads, ZenonT(60)
<1> QED BY <1>2 DEF Threads

LEMMA BlockTyped ==
  ASSUME NEW rules, NEW K, NEW S, TypedOn(rules, K, S), NEW b \in Seq(S), NEW F \in FactSets
  PROVE  BlockFacts(rules, K, F, b) \in FactSets
<1>1. PICK a : Threads(a, rules, K, F, b) /\ BlockFacts(rules, K, F, b) = a[Len(b)]
  BY BlockThreads
<1>2. Len(b) \in 0..Len(b)
  OBVIOUS
<1> QED BY <1>1, <1>2 DEF Threads

LEMMA HeadTail ==
  ASSUME NEW S, NEW q \in Seq(S), q # <<>>
  PROVE  /\ Head(q) \in S /\ Head(q) = q[1] /\ 1 \in DOMAIN q
         /\ Tail(q) \in Seq(S) /\ Len(Tail(q)) = Len(q) - 1 /\ Len(q) \in Nat \ {0}
         /\ \A i \in 1..Len(Tail(q)) : Tail(q)[i] = q[i + 1] /\ i + 1 \in DOMAIN q
OBVIOUS

LEMMA BlockStep ==
  ASSUME NEW rules, NEW K, NEW S, TypedOn(rules, K, S), NEW b \in Seq(S), b # <<>>, NEW F \in FactSets
  PROVE  /\ NextFacts(rules, K, F, Head(b)) \in FactSets
         /\ BlockFacts(rules, K, F, b) = BlockFacts(rules, K, NextFacts(rules, K, F, Head(b)), Tail(b))
<1> DEFINE G == NextFacts(rules, K, F, Head(b))
<1>1. G \in FactSets
  BY HeadTail DEF TypedOn
<1>2. PICK a : Threads(a, rules, K, F, b) /\ BlockFacts(rules, K, F, b) = a[Len(b)]
  BY BlockThreads
<1>3. PICK c : Threads(c, rules, K, G, Tail(b)) /\ BlockFacts(rules, K, G, Tail(b)) = c[Len(Tail(b))]
  <2>1. Tail(b) \in Seq(S)
    BY HeadTail
  <2> HIDE DEF G
  <2> QED BY <1>1, <2>1, BlockThreads, ZenonT(60)
<1>4. a[1] = G
  <2>1. 1 \in 1..Len(b) /\ Head(b) = b[1]
    BY HeadTail
  <2> QED BY <1>2, <2>1 DEF Threads
<1> HIDE DEF G
<1> DEFINE E == {i \in Nat : i =< Len(b) - 1 => c[i] = a[i + 1]}
<1>5. 0 \in E
  BY <1>3, <1>4 DEF Threads
<1>6. ASSUME NEW i \in Nat, i \in E PROVE i + 1 \in E
  <2>1. CASE i + 1 =< Len(b) - 1
    <3>1. /\ Len(b) \in Nat /\ Len(Tail(b)) = Len(b) - 1 /\ i + 1 \in 1..Len(Tail(b))
          /\ Tail(b)[i + 1] = b[(i + 1) + 1] /\ (i + 1) + 1 \in 1..Len(b) /\ i =< Len(b) - 1
          /\ (i + 1) - 1 = i /\ ((i + 1) + 1) - 1 = i + 1
      BY <2>1, HeadTail
    <3>2. c[i + 1] = NextFacts(rules, K, c[(i + 1) - 1], Tail(b)[i + 1])
      BY <1>3, <3>1 DEF Threads
    <3>3. a[(i + 1) + 1] = NextFacts(rules, K, a[((i + 1) + 1) - 1], b[(i + 1) + 1])
      BY <1>2, <3>1 DEF Threads
    <3>4. c[i] = a[i + 1]
      BY <1>6, <3>1
    <3> QED BY <3>1, <3>2, <3>3, <3>4
  <2> QED BY <2>1
<1>7. Nat \subseteq E
  <2> HIDE DEF E
  <2> QED BY <1>5, <1>6, SetInduction
<1>8. c[Len(Tail(b))] = a[Len(b)]
  <2>1. Len(b) \in Nat \ {0} /\ Len(Tail(b)) = Len(b) - 1
    BY HeadTail
  <2>2. Len(b) - 1 \in E /\ (Len(b) - 1) + 1 = Len(b) /\ Len(b) - 1 \in Nat
    BY <1>7, <2>1
  <2> QED BY <2>1, <2>2
<1> QED BY <1>1, <1>2, <1>3, <1>8 DEF G
(* One statement keeps the types of facts, when the rules inside it do.     *)
LEMMA StmtTyped ==
  ASSUME NEW rules, NEW B, NEW K \in Contexts, NEW F \in FactSets, NEW s,
         s \in Leaf \/ (s \in StmtsOver(B) /\ TypedRules(rules, B))
  PROVE  CheckStmt(rules, K, F, s) \in FactSets
<1> DEFINE G == IF Resizes(s) THEN KillViews(K, F) ELSE F
           M == [G EXCEPT !.moved = @ \cup Moves(s)]
<1>0. s.op \in {"ret", "raise", "brk", "cont", "call", "use", "give"} \cup Compound
  BY LeafParts, StmtParts
<1>1. Moves(s) \in SUBSET STRING
  BY LeafParts, StmtParts DEF Moves
<1>2. G \in FactSets
  BY KilledViews
<1>3. M \in FactSets
  <2> HIDE DEF G
  <2> QED BY <1>1, <1>2 DEF FactSets
<1>4. CheckBody(rules, K, M, s) \in FactSets
  <2> HIDE DEF M
  <2>1. Bot(M) \in FactSets /\ Refused \in FactSets
    BY <1>3, FactOps
  <2>2. CASE s.op \in {"ret", "raise", "brk", "cont", "call", "use", "give"}
    BY <1>3, <2>1, <2>2 DEF CheckBody
  <2>3. CASE s.op \in Compound
    <3>1. s \in StmtsOver(B) /\ TypedRules(rules, B)
      BY <2>3, LeafParts
    <3>2. s.op = "ite" => CheckIte(rules, K, M, s) \in FactSets
      BY <1>3, <3>1, IteTyped
    <3>3. s.op = "loop" => CheckLoop(rules, K, M, s) \in FactSets
      BY <1>3, <3>1, LoopTyped
    <3>4. s.op = "try" => CheckTry(rules, K, M, s) \in FactSets
      BY <1>3, <3>1, TryTyped
    <3>5. s.op = "hold" => CheckHold(rules, K, M, s) \in FactSets
      BY <1>3, <3>1, HoldTyped
    <3> QED BY <2>3, <3>2, <3>3, <3>4, <3>5 DEF CheckBody, Compound
  <2> QED BY <1>0, <2>2, <2>3
<1>5. CheckStmt(rules, K, F, s) \in {CheckBody(rules, K, M, s), Refused}
  <2> HIDE DEF Refused, CheckBody
  <2> QED BY DEF CheckStmt
<1>6. Refused \in FactSets
  BY FactOps
<1> HIDE DEF M
<1> QED BY <1>4, <1>5, <1>6

(* The rules of every nesting keep the types of facts.                      *)
CheckTypes(n) == [Contexts -> [FactSets -> [Blocks[n] -> FactSets]]]
LEMMA ChecksTyped == \A n \in Nat : CheckStmts[n] \in CheckTypes(n)
<1> DEFINE S == {n \in Nat : CheckStmts[n] \in CheckTypes(n)}
<1>1. ASSUME NEW n \in Nat, NEW rules,
             \A K \in Contexts : TypedOn(rules, K, Stmts(n))
      PROVE  CheckBlocks(n, rules) \in CheckTypes(n)
  <2>1. ASSUME NEW K \in Contexts, NEW F \in FactSets, NEW b \in Blocks[n]
        PROVE  BlockFacts(rules, K, F, b) \in FactSets
    <3>1. b \in Seq(Stmts(n)) /\ TypedOn(rules, K, Stmts(n))
      BY <1>1, LevelFacts
    <3> QED BY <3>1, BlockTyped
  <2> QED BY <2>1 DEF CheckBlocks, CheckTypes
<1>2. 0 \in S
  <2>1. \A K \in Contexts : TypedOn(NoRules, K, Stmts(0))
    BY StmtTyped DEF Stmts, TypedOn, NextFacts
  <2> QED BY <1>1, <2>1, ChecksSolved
<1>3. ASSUME NEW n \in Nat, n \in S PROVE n + 1 \in S
  <2>0. n + 1 \in Nat /\ n + 1 # 0 /\ (n + 1) - 1 = n
    OBVIOUS
  <2> DEFINE rules == RulesOf(n, CheckStmts[n])
  <2>1. TypedRules(rules, Blocks[n])
    BY <1>3 DEF RulesOf, TypedRules, CheckTypes
  <2> HIDE DEF rules
  <2>2. \A K \in Contexts : TypedOn(rules, K, Stmts(n + 1))
    BY <2>0, <2>1, StmtTyped DEF Stmts, TypedOn, NextFacts
  <2>3. CheckStmts[n + 1] = CheckBlocks(n + 1, rules)
    BY ChecksSolved DEF rules
  <2> QED BY <1>1, <2>0, <2>2, <2>3
<1>4. Nat \subseteq S
  <2> HIDE DEF S
  <2> QED BY <1>2, <1>3, SetInduction
<1> QED BY <1>4

-----------------------------------------------------------------------------
(* The rules of nesting n.                                                  *)

After(n, K, F, b) == CheckStmts[n][K][F][b]
Step(n, K, F, s)  == CheckStmt(RulesAt(n), K, F, s)
(* The facts a statement's own rule starts from.                            *)
Entering(K, F, s) == [(IF Resizes(s) THEN KillViews(K, F) ELSE F) EXCEPT !.moved = @ \cup Moves(s)]

LEMMA InnerBlocks ==
  ASSUME NEW n \in Nat, NEW s \in Stmts(n)
  PROVE  /\ s.op \in {"ret", "raise", "brk", "cont", "call", "use", "give"} \cup Compound
         /\ s.op \in {"use", "give", "try", "hold"} => s.x \in STRING
         /\ s.op \in Compound =>
              /\ n - 1 \in Nat /\ n # 0 /\ (n - 1) + 1 = n
              /\ s \in StmtsOver(Blocks[n - 1]) /\ s.t \in Blocks[n - 1]
              /\ RulesAt(n) = RulesOf(n - 1, CheckStmts[n - 1])
         /\ s.op \in {"ite", "try", "hold"} => s.e \in Blocks[n - 1]
         /\ s.op = "ite" => s.c \in {"yes", "no", "unknown"}
         /\ s.op = "try" => s.f \in Fallibles /\ s.y \in STRING
         /\ s.op = "hold" => s.r \in STRING
<1>1. CASE n = 0
  BY <1>1, LeafParts DEF Stmts, Compound
<1>2. CASE n # 0
  <2>1. n - 1 \in Nat /\ (n - 1) + 1 = n /\ s \in StmtsOver(Blocks[n - 1])
        /\ RulesAt(n) = RulesOf(n - 1, CheckStmts[n - 1])
    BY <1>2 DEF Stmts, RulesAt
  <2> QED BY <1>2, <2>1, StmtParts DEF Compound
<1> QED BY <1>1, <1>2

LEMMA AfterTyped ==
  ASSUME NEW n \in Nat, NEW K \in Contexts, NEW F \in FactSets, NEW b \in Blocks[n]
  PROVE  After(n, K, F, b) \in FactSets
BY ChecksTyped DEF After, CheckTypes

LEMMA StepTyped ==
  ASSUME NEW n \in Nat, NEW K \in Contexts, NEW F \in FactSets, NEW s \in Stmts(n)
  PROVE  Step(n, K, F, s) \in FactSets
<1>1. CASE n = 0
  BY <1>1, StmtTyped DEF Stmts, Step
<1>2. CASE n # 0
  <2>1. n - 1 \in Nat /\ s \in StmtsOver(Blocks[n - 1]) /\ RulesAt(n) = RulesOf(n - 1, CheckStmts[n - 1])
    BY <1>2 DEF Stmts, RulesAt
  <2>2. TypedRules(RulesAt(n), Blocks[n - 1])
    BY <2>1, ChecksTyped DEF RulesOf, TypedRules, CheckTypes
  <2> QED BY <2>1, <2>2, StmtTyped DEF Step
<1> QED BY <1>1, <1>2

LEMMA AfterBlock ==
  ASSUME NEW n \in Nat, NEW K \in Contexts, NEW F \in FactSets, NEW b \in Blocks[n]
  PROVE  /\ After(n, K, F, b) = BlockFacts(RulesAt(n), K, F, b)
         /\ b \in Seq(Stmts(n)) /\ TypedOn(RulesAt(n), K, Stmts(n))
<1>1. CheckStmts[n] = CheckBlocks(n, RulesAt(n)) /\ b \in Seq(Stmts(n))
  BY LevelFacts
<1>2. TypedOn(RulesAt(n), K, Stmts(n))
  BY StepTyped DEF Step, TypedOn, NextFacts
<1> QED BY <1>1, <1>2 DEF After, CheckBlocks

LEMMA AfterEmpty ==
  ASSUME NEW n \in Nat, NEW K \in Contexts, NEW F \in FactSets
  PROVE  After(n, K, F, <<>>) = F
<1>1. <<>> \in Blocks[n]
  BY EmptyBlock
<1> QED BY <1>1, AfterBlock, BlockEmpty

LEMMA BlockParts ==
  ASSUME NEW n \in Nat, NEW b \in Blocks[n], b # <<>>
  PROVE  /\ Head(b) \in Stmts(n) /\ Tail(b) \in Blocks[n] /\ Len(Tail(b)) = Len(b) - 1
         /\ Len(b) \in Nat \ {0} /\ Head(b) = b[1] /\ 1 \in DOMAIN b
         /\ \A i \in DOMAIN Tail(b) : Tail(b)[i] = b[i + 1] /\ i + 1 \in DOMAIN b
<1>1. Blocks[n] = Seq(Stmts(n))
  BY LevelFacts
<1>2. b \in Seq(Stmts(n))
  BY <1>1
<1>3. /\ Head(b) \in Stmts(n) /\ Tail(b) \in Seq(Stmts(n)) /\ Len(Tail(b)) = Len(b) - 1
      /\ Len(b) \in Nat \ {0} /\ Head(b) = b[1] /\ 1 \in DOMAIN b
      /\ \A i \in 1..Len(Tail(b)) : Tail(b)[i] = b[i + 1] /\ i + 1 \in DOMAIN b
  BY <1>2, HeadTail
<1>4. DOMAIN Tail(b) = 1..Len(Tail(b))
  BY <1>3
<1> QED BY <1>1, <1>3, <1>4

LEMMA AfterStep ==
  ASSUME NEW n \in Nat, NEW K \in Contexts, NEW F \in FactSets, NEW b \in Blocks[n], b # <<>>, F.ok
  PROVE  /\ Head(b) \in Stmts(n) /\ Tail(b) \in Blocks[n]
         /\ Step(n, K, F, Head(b)) \in FactSets
         /\ After(n, K, F, b) = After(n, K, Step(n, K, F, Head(b)), Tail(b))
<1> DEFINE G == Step(n, K, F, Head(b))
<1>1. Head(b) \in Stmts(n) /\ Tail(b) \in Blocks[n]
  BY BlockParts
<1>2. G \in FactSets
  BY <1>1, StepTyped
<1>3. NextFacts(RulesAt(n), K, F, Head(b)) = G
  BY DEF NextFacts, Step
<1>4. b \in Seq(Stmts(n)) /\ TypedOn(RulesAt(n), K, Stmts(n))
  BY AfterBlock
<1>5. BlockFacts(RulesAt(n), K, F, b) = BlockFacts(RulesAt(n), K, G, Tail(b))
  <2> HIDE DEF G
  <2> QED BY <1>3, <1>4, BlockStep
<1> HIDE DEF G
<1>6. After(n, K, G, Tail(b)) = BlockFacts(RulesAt(n), K, G, Tail(b))
  BY <1>1, <1>2, AfterBlock
<1>7. After(n, K, F, b) = BlockFacts(RulesAt(n), K, F, b)
  BY AfterBlock
<1> QED BY <1>1, <1>2, <1>5, <1>6, <1>7 DEF G

(* Once refused, a path stays refused.                                      *)
LEMMA AfterRefused ==
  ASSUME NEW n \in Nat, NEW K \in Contexts, NEW F \in FactSets, ~F.ok, NEW b \in Blocks[n]
  PROVE  ~After(n, K, F, b).ok
<1> DEFINE E == {k \in Nat : \A c \in Blocks[n] : Len(c) = k => BlockFacts(RulesAt(n), K, F, c) = F}
<1>1. 0 \in E
  <2>1. ASSUME NEW c \in Blocks[n], Len(c) = 0 PROVE BlockFacts(RulesAt(n), K, F, c) = F
    <3>1. c = <<>>
      BY <2>1, LevelFacts
    <3> QED BY <3>1, BlockEmpty
  <2> QED BY <2>1
<1>2. ASSUME NEW k \in Nat, k \in E PROVE k + 1 \in E
  <2>1. ASSUME NEW c \in Blocks[n], Len(c) = k + 1 PROVE BlockFacts(RulesAt(n), K, F, c) = F
    <3>1. c \in Seq(Stmts(n)) /\ TypedOn(RulesAt(n), K, Stmts(n))
      BY AfterBlock
    <3>2. c # <<>>
      BY <2>1
    <3>3. Tail(c) \in Blocks[n] /\ Len(Tail(c)) = k
      BY <2>1, <3>2, BlockParts
    <3>4. NextFacts(RulesAt(n), K, F, Head(c)) = F
      BY DEF NextFacts
    <3>5. BlockFacts(RulesAt(n), K, F, c) = BlockFacts(RulesAt(n), K, F, Tail(c))
      BY <3>1, <3>2, <3>4, BlockStep
    <3> QED BY <1>2, <3>3, <3>5
  <2> QED BY <2>1
<1>3. Nat \subseteq E
  <2> HIDE DEF E
  <2> QED BY <1>1, <1>2, SetInduction
<1>4. Len(b) \in Nat
  BY LevelFacts
<1>5. BlockFacts(RulesAt(n), K, F, b) = F
  BY <1>3, <1>4
<1> QED BY <1>5, AfterBlock

(* What an accepted statement has passed.                                   *)
LEMMA EnteringParts ==
  ASSUME NEW n \in Nat, NEW K \in Contexts, NEW F \in FactSets, NEW s \in Stmts(n)
  PROVE  /\ Entering(K, F, s) \in FactSets
         /\ Entering(K, F, s).ok = F.ok /\ Entering(K, F, s).bottom = F.bottom
         /\ Entering(K, F, s).moved = F.moved \cup Moves(s)
         /\ Entering(K, F, s).dead = F.dead \cup (IF Resizes(s) THEN ViewsInScope(K) ELSE {})
<1> DEFINE G == IF Resizes(s) THEN KillViews(K, F) ELSE F
<1>1. /\ G \in FactSets /\ G.ok = F.ok /\ G.bottom = F.bottom /\ G.moved = F.moved
      /\ G.dead = F.dead \cup (IF Resizes(s) THEN ViewsInScope(K) ELSE {})
  BY KilledViews
<1>2. Moves(s) \in SUBSET STRING
  BY InnerBlocks DEF Moves
<1>3. Entering(K, F, s) = [G EXCEPT !.moved = @ \cup Moves(s)]
  BY DEF Entering
<1> HIDE DEF G
<1> QED BY <1>1, <1>2, <1>3 DEF FactSets

LEMMA StepAccepted ==
  ASSUME NEW n \in Nat, NEW K \in Contexts, NEW F \in FactSets, NEW s \in Stmts(n),
         Step(n, K, F, s).ok
  PROVE  /\ \A x \in Mentions(s) : InScope(K, x)
         /\ Mentions(s) \cap (F.dead \cup F.moved) = {}
         /\ CheckHeld(K, s)
         /\ Step(n, K, F, s) = CheckBody(RulesAt(n), K, Entering(K, F, s), s)
<1>1. ~Refused.ok
  BY DEF Refused, Facts0
<1>2. \/ Step(n, K, F, s) = Refused
      \/ /\ \A x \in Mentions(s) : InScope(K, x)
         /\ Mentions(s) \cap (F.dead \cup F.moved) = {}
         /\ CheckHeld(K, s)
         /\ Step(n, K, F, s) = CheckBody(RulesAt(n), K, Entering(K, F, s), s)
  <2> HIDE DEF Refused, CheckBody
  <2> QED BY DEF Step, CheckStmt, Entering
<1> QED BY <1>1, <1>2

(* What a path joined to another keeps of it: C is what one path ends with  *)
(* and G what the paths together do.                                        *)
Covers(K, C, G) ==
  C.bottom \/ /\ ~G.bottom
              /\ C.moved \cap NamesOf(K) \subseteq G.moved
              /\ C.dead \cap NamesOf(K) \subseteq G.dead

LEMMA MeetCovers ==
  ASSUME NEW K, NEW F \in FactSets, NEW G \in FactSets, JoinMoved(F, G)
  PROVE  /\ Covers(K, F, Meet(F, G)) /\ Covers(K, G, Meet(F, G))
         /\ Meet(F, G) \in FactSets
         /\ F.ok /\ G.ok => Meet(F, G).ok
         /\ Meet(F, G).bottom = (F.bottom /\ G.bottom)
         /\ Meet(F, G).moved \in {F.moved, G.moved}
         /\ Meet(F, G).dead \subseteq F.dead \cup G.dead
BY DEF Meet, JoinMoved, Covers, FactSets

LEMMA DropCovers ==
  ASSUME NEW K, NEW F \in FactSets, NEW x, x \notin NamesOf(K), NEW G,
         Covers(K, DropNames(F, {x}), G)
  PROVE  Covers(K, F, G)
BY DEF DropNames, Covers, FactSets

LEMMA SelfCovers == ASSUME NEW K, NEW F PROVE Covers(K, F, F)
BY DEF Covers

(* The rule of each statement with blocks, where it accepts.  M is what the *)
(* statement enters with.                                                   *)
LEMMA IteAccepted ==
  ASSUME NEW n \in Nat, NEW K \in Contexts, NEW F \in FactSets, NEW s \in Stmts(n), s.op = "ite",
         Step(n, K, F, s).ok, NEW M, M = Entering(K, F, s),
         NEW Ft, Ft = After(n - 1, K, M, s.t), NEW Fe, Fe = After(n - 1, K, M, s.e)
  PROVE  /\ M \in FactSets /\ Ft \in FactSets /\ Fe \in FactSets /\ Ft.ok /\ Fe.ok
         /\ s.c # "no"  => Covers(K, Ft, Step(n, K, F, s))
         /\ s.c # "yes" => Covers(K, Fe, Step(n, K, F, s))
         /\ \/ Step(n, K, F, s) = Ft \/ Step(n, K, F, s) = Fe
            \/ JoinMoved(Ft, Fe) /\ Step(n, K, F, s) = Meet(Ft, Fe)
<1>1. /\ n - 1 \in Nat /\ s.t \in Blocks[n - 1] /\ s.e \in Blocks[n - 1]
      /\ RulesAt(n) = RulesOf(n - 1, CheckStmts[n - 1]) /\ s.c \in {"yes", "no", "unknown"}
  BY InnerBlocks DEF Compound
<1>2. M \in FactSets
  BY EnteringParts
<1>3. Ft \in FactSets /\ Fe \in FactSets
  BY <1>1, <1>2, AfterTyped
<1>4. Step(n, K, F, s) = CheckIte(RulesAt(n), K, M, s)
  BY StepAccepted DEF CheckBody
<1>5. RulesAt(n).check[K][M][s.t] = Ft /\ RulesAt(n).check[K][M][s.e] = Fe
  BY <1>1 DEF RulesOf, After
<1>6. ~Refused.ok
  BY DEF Refused, Facts0
<1> DEFINE S == Step(n, K, F, s)
<1>7. \/ S = Refused
      \/ /\ Ft.ok /\ Fe.ok
         /\ \/ s.c = "yes" /\ S = Ft
            \/ s.c = "no" /\ S = Fe
            \/ s.c \notin {"yes", "no"} /\ JoinMoved(Ft, Fe) /\ S = Meet(Ft, Fe)
  <2>1. S = IF ~(Ft.ok /\ Fe.ok) THEN Refused
            ELSE CASE s.c = "yes" -> Ft
                   [] s.c = "no"  -> Fe
                   [] OTHER -> IF JoinMoved(Ft, Fe) THEN Meet(Ft, Fe) ELSE Refused
    <3> HIDE DEF Refused
    <3> QED BY <1>4, <1>5 DEF CheckIte
  <2> HIDE DEF Refused, S
  <2> QED BY <2>1
<1>8. /\ Ft.ok /\ Fe.ok
      /\ \/ s.c = "yes" /\ S = Ft
         \/ s.c = "no" /\ S = Fe
         \/ s.c \notin {"yes", "no"} /\ JoinMoved(Ft, Fe) /\ S = Meet(Ft, Fe)
  BY <1>6, <1>7
<1>9. JoinMoved(Ft, Fe) => Covers(K, Ft, Meet(Ft, Fe)) /\ Covers(K, Fe, Meet(Ft, Fe))
  BY <1>3, MeetCovers
<1> HIDE DEF S
<1>10. /\ s.c # "no"  => Covers(K, Ft, S)
       /\ s.c # "yes" => Covers(K, Fe, S)
  BY <1>8, <1>9, SelfCovers
<1> QED BY <1>2, <1>3, <1>8, <1>10 DEF S

LEMMA LoopAccepted ==
  ASSUME NEW n \in Nat, NEW K \in Contexts, NEW F \in FactSets, NEW s \in Stmts(n), s.op = "loop",
         Step(n, K, F, s).ok, NEW M, M = Entering(K, F, s),
         NEW Fh, Fh = IF ResizeIn[n - 1][s.t] THEN KillViews(K, M) ELSE M,
         NEW Fb, Fb = After(n - 1, LoopContext(K, M), Fh, s.t)
  PROVE  /\ M \in FactSets /\ Fh \in FactSets /\ Fb \in FactSets /\ Fb.ok
         /\ LoopMovedOk(K, Fb)
         /\ Step(n, K, F, s) = Fh
<1>1. n - 1 \in Nat /\ s.t \in Blocks[n - 1] /\ RulesAt(n) = RulesOf(n - 1, CheckStmts[n - 1])
  BY InnerBlocks DEF Compound
<1>2. M \in FactSets
  BY EnteringParts
<1>3. Fh \in FactSets
  BY <1>2, KilledViews
<1>4. LoopContext(K, M) \in Contexts
  BY <1>2, LoopContextParts
<1>5. Fb \in FactSets
  BY <1>1, <1>3, <1>4, AfterTyped
<1>6. Step(n, K, F, s) = CheckLoop(RulesAt(n), K, M, s)
  BY StepAccepted DEF CheckBody
<1>7. LoopHead(RulesAt(n), K, M, s.t) = Fh
  BY <1>1 DEF LoopHead, RulesOf
<1>8. RulesAt(n).check[LoopContext(K, M)][Fh][s.t] = Fb
  BY <1>1 DEF RulesOf, After
<1>9. ~Refused.ok
  BY SMTT(60) DEF Refused, Facts0
<1>10. \/ Step(n, K, F, s) = Refused
       \/ Fb.ok /\ LoopMovedOk(K, Fb) /\ Step(n, K, F, s) = Fh
  <2> HIDE DEF Refused, LoopHead, LoopContext, LoopMovedOk
  <2> QED BY <1>6, <1>7, <1>8 DEF CheckLoop
<1> QED BY <1>2, <1>3, <1>5, <1>9, <1>10

(* The facts G after a branch that bound x and ended in F, and its `else`,  *)
(* which ended in E.                                                        *)
Joins(F, E, x, G) ==
  JoinMoved(DropNames(F, {x}), E) /\ G = Meet(DropNames(F, {x}), E)

LEMMA TryAccepted ==
  ASSUME NEW n \in Nat, NEW K \in Contexts, NEW F \in FactSets, NEW s \in Stmts(n), s.op = "try",
         Step(n, K, F, s).ok, NEW M, M = Entering(K, F, s),
         NEW L, L = TryContext(K, s),
         NEW Ft, Ft = After(n - 1, L, M, s.t), NEW Fe, Fe = After(n - 1, K, M, s.e)
  PROVE  /\ M \in FactSets /\ L \in Contexts /\ Ft \in FactSets /\ Fe \in FactSets /\ Ft.ok /\ Fe.ok
         /\ FallibleOk(K, s)
         /\ Joins(Ft, Fe, s.x, Step(n, K, F, s))
<1>1. /\ n - 1 \in Nat /\ s.t \in Blocks[n - 1] /\ s.e \in Blocks[n - 1]
      /\ RulesAt(n) = RulesOf(n - 1, CheckStmts[n - 1])
      /\ s.x \in STRING /\ s.y \in STRING /\ s.f \in Fallibles
  BY InnerBlocks DEF Compound
<1>2. M \in FactSets
  BY EnteringParts
<1>3. L \in Contexts
  BY <1>1, TryContextParts
<1>4. Ft \in FactSets /\ Fe \in FactSets
  BY <1>1, <1>2, <1>3, AfterTyped
<1>5. Step(n, K, F, s) = CheckTry(RulesAt(n), K, M, s)
  BY StepAccepted DEF CheckBody
<1>6. RulesAt(n).check[L][M][s.t] = Ft /\ RulesAt(n).check[K][M][s.e] = Fe
  BY <1>1 DEF RulesOf, After
<1>7. ~Refused.ok
  BY DEF Refused, Facts0
<1>8. {s.x} \in SUBSET STRING
  BY <1>1
<1>9. DropNames(Ft, {s.x}).ok = Ft.ok
  BY <1>4, <1>8, DropParts
<1>10. \/ Step(n, K, F, s) = Refused
       \/ /\ FallibleOk(K, s) /\ DropNames(Ft, {s.x}).ok /\ Fe.ok /\ JoinMoved(DropNames(Ft, {s.x}), Fe)
          /\ Step(n, K, F, s) = Meet(DropNames(Ft, {s.x}), Fe)
  <2> HIDE DEF Refused
  <2> QED BY <1>5, <1>6 DEF CheckTry
<1> QED BY <1>2, <1>3, <1>4, <1>7, <1>9, <1>10 DEF Joins

ElseOf(n, K, M, s) == IF s.e = <<>> THEN Bot(M) ELSE After(n - 1, K, M, s.e)
LEMMA HoldAccepted ==
  ASSUME NEW n \in Nat, NEW K \in Contexts, NEW F \in FactSets, NEW s \in Stmts(n), s.op = "hold",
         Step(n, K, F, s).ok, NEW M, M = Entering(K, F, s),
         NEW L, L = HoldContext(K, s),
         NEW Fb, Fb = After(n - 1, L, M, s.t),
         NEW Fe, Fe = ElseOf(n, K, M, s)
  PROVE  /\ M \in FactSets /\ L \in Contexts /\ Fb \in FactSets /\ Fe \in FactSets /\ Fb.ok /\ Fe.ok
         /\ HoldOk(RulesAt(n), K, s)
         /\ s.e # <<>> => Exits[n - 1][s.e]
         /\ Joins(Fb, Fe, s.x, Step(n, K, F, s))
<1>1. /\ n - 1 \in Nat /\ s.t \in Blocks[n - 1] /\ s.e \in Blocks[n - 1]
      /\ RulesAt(n) = RulesOf(n - 1, CheckStmts[n - 1])
      /\ s.x \in STRING /\ s.r \in STRING
  BY InnerBlocks DEF Compound
<1>2. M \in FactSets
  BY EnteringParts
<1>3. L \in Contexts
  BY <1>1, HoldContextParts
<1>4. Fb \in FactSets /\ Fe \in FactSets
  <2>1. Bot(M) \in FactSets
    BY <1>2, FactOps
  <2> QED BY <1>1, <1>2, <1>3, <2>1, AfterTyped DEF ElseOf
<1>5. Step(n, K, F, s) = CheckHold(RulesAt(n), K, M, s)
  BY StepAccepted DEF CheckBody
<1>6. /\ RulesAt(n).check[L][M][s.t] = Fb
      /\ Fe = IF s.e = <<>> THEN Bot(M) ELSE RulesAt(n).check[K][M][s.e]
  BY <1>1 DEF RulesOf, After, ElseOf
<1>7. ~Refused.ok
  BY DEF Refused, Facts0
<1>8. {s.x} \in SUBSET STRING
  BY <1>1
<1>9. DropNames(Fb, {s.x}).ok = Fb.ok
  BY <1>4, <1>8, DropParts, SMTT(60)
<1>10. \/ Step(n, K, F, s) = Refused
       \/ /\ HoldOk(RulesAt(n), K, s) /\ DropNames(Fb, {s.x}).ok /\ Fe.ok /\ JoinMoved(DropNames(Fb, {s.x}), Fe)
          /\ Step(n, K, F, s) = Meet(DropNames(Fb, {s.x}), Fe)
  <2> HIDE DEF Refused, Bot, HoldOk
  <2> QED BY <1>5, <1>6 DEF CheckHold
<1>11. HoldOk(RulesAt(n), K, s) => (s.e # <<>> => Exits[n - 1][s.e])
  <2>1. RulesAt(n).exits = Exits[n - 1]
    BY <1>1 DEF RulesOf
  <2> QED BY <2>1 DEF HoldOk
<1> QED BY <1>2, <1>3, <1>4, <1>7, <1>9, <1>10, <1>11 DEF Joins

-----------------------------------------------------------------------------
(* What checking does to the facts of a path: it forgets no move, kills     *)
(* views only, none where nothing resizes, and knows a path that ended.     *)
Follows(K, F, G, kills, ends) ==
  /\ G \in FactSets
  /\ F.bottom => G.bottom
  /\ F.moved \subseteq NamesOf(K) => F.moved \subseteq G.moved /\ G.moved \subseteq NamesOf(K)
  /\ G.dead \subseteq F.dead \cup ViewsInScope(K)
  /\ ~kills => G.dead \subseteq F.dead
  /\ ends => G.bottom

LEMMA FollowsSelf ==
  ASSUME NEW K, NEW F \in FactSets, NEW kills
  PROVE  Follows(K, F, F, kills, FALSE)
BY DEF Follows

LEMMA FollowsTrans ==
  ASSUME NEW K, NEW F, NEW G, NEW H, NEW kills, NEW ends,
         NEW k1, NEW k2, NEW e1, NEW e2, Follows(K, F, G, k1, e1), Follows(K, G, H, k2, e2),
         k1 \/ k2 => kills, ends => e1 \/ e2
  PROVE  Follows(K, F, H, kills, ends)
BY DEF Follows

(* The scope a binder opens.                                                *)
Widened(K, L, x, ty) ==
  /\ L.locals = IF x = "_" THEN K.locals ELSE <<[x |-> x, ty |-> ty]>> \o K.locals
  /\ x \notin NamesOf(K)

LEMMA WidenedNames ==
  ASSUME NEW K \in Contexts, NEW L \in Contexts, NEW x \in STRING, NEW ty \in Types, Widened(K, L, x, ty)
  PROVE  /\ NamesOf(L) = NamesOf(K) \cup Named(x)
         /\ x = "_" => ViewsInScope(L) = ViewsInScope(K)
         /\ ViewsInScope(L) = ViewsInScope(K) \cup (IF ty = "view" THEN Named(x) ELSE {})
<1>1. K.locals \in Seq([x : STRING, ty : Types])
  BY ContextParts
<1>2. CASE x = "_"
  BY <1>2 DEF Widened, NamesOf, ViewsInScope, Named
<1>3. CASE x # "_"
  <2> DEFINE l == [x |-> x, ty |-> ty]
  <2>1. L.locals = <<l>> \o K.locals
    BY <1>3 DEF Widened
  <2>2. /\ Len(K.locals) \in Nat /\ DOMAIN K.locals = 1..Len(K.locals)
        /\ DOMAIN L.locals = 1..(Len(K.locals) + 1) /\ L.locals[1] = l
        /\ \A i \in DOMAIN K.locals : L.locals[i + 1] = K.locals[i]
    <3> HIDE DEF l
    <3> QED BY <1>1, <2>1, SMTT(60)
  <2>3. \A i \in DOMAIN L.locals : i = 1 \/ (i - 1 \in DOMAIN K.locals /\ L.locals[i] = K.locals[i - 1])
    <3> SUFFICES ASSUME NEW i \in DOMAIN L.locals, i # 1
                 PROVE  i - 1 \in DOMAIN K.locals /\ L.locals[i] = K.locals[i - 1]
      OBVIOUS
    <3>1. i - 1 \in DOMAIN K.locals /\ (i - 1) + 1 = i
      BY <2>2
    <3> QED BY <2>2, <3>1
  <2>4. l.x = x /\ l.ty = ty
    OBVIOUS
  <2> HIDE DEF l
  <2>5. 1 \in DOMAIN L.locals /\ \A i \in DOMAIN K.locals : i + 1 \in DOMAIN L.locals
    BY <2>2
  <2>6. NamesOf(L) = NamesOf(K) \cup {x}
    <3>1. ASSUME NEW v \in NamesOf(L) PROVE v \in NamesOf(K) \cup {x}
      <4>1. PICK i \in DOMAIN L.locals : v = L.locals[i].x
        BY <3>1 DEF NamesOf
      <4>2. CASE i = 1
        BY <2>2, <2>4, <4>1, <4>2
      <4>3. CASE i # 1
        BY <2>3, <4>1, <4>3 DEF NamesOf
      <4> QED BY <4>2, <4>3
    <3>2. ASSUME NEW v \in NamesOf(K) PROVE v \in NamesOf(L)
      <4>1. PICK i \in DOMAIN K.locals : v = K.locals[i].x
        BY <3>2 DEF NamesOf
      <4>2. i + 1 \in DOMAIN L.locals /\ L.locals[i + 1] = K.locals[i]
        BY <2>2, <2>5
      <4> QED BY <4>1, <4>2 DEF NamesOf
    <3>3. x \in NamesOf(L)
      BY <2>2, <2>4, <2>5 DEF NamesOf
    <3> QED BY <3>1, <3>2, <3>3
  <2>7. ViewsInScope(L) = ViewsInScope(K) \cup (IF ty = "view" THEN {x} ELSE {})
    <3>1. ASSUME NEW v \in ViewsInScope(L) PROVE v \in ViewsInScope(K) \cup (IF ty = "view" THEN {x} ELSE {})
      <4>1. PICK i \in DOMAIN L.locals : L.locals[i].ty = "view" /\ v = L.locals[i].x
        BY <3>1 DEF ViewsInScope
      <4>2. CASE i = 1
        BY <2>2, <2>4, <4>1, <4>2
      <4>3. CASE i # 1
        BY <2>3, <4>1, <4>3 DEF ViewsInScope
      <4> QED BY <4>2, <4>3
    <3>2. ASSUME NEW v \in ViewsInScope(K) PROVE v \in ViewsInScope(L)
      <4>1. PICK i \in DOMAIN K.locals : K.locals[i].ty = "view" /\ v = K.locals[i].x
        BY <3>2 DEF ViewsInScope
      <4>2. i + 1 \in DOMAIN L.locals /\ L.locals[i + 1] = K.locals[i]
        BY <2>2, <2>5
      <4> QED BY <4>1, <4>2 DEF ViewsInScope
    <3>3. ty = "view" => x \in ViewsInScope(L)
      BY <2>2, <2>4, <2>5 DEF ViewsInScope
    <3> QED BY <3>1, <3>2, <3>3
  <2>8. Named(x) = {x}
    BY <1>3 DEF Named
  <2> QED BY <1>3, <2>6, <2>7, <2>8
<1> QED BY <1>2, <1>3

(* A branch in a wider scope, the binder's name dropped at its end, joined  *)
(* to the branch that binds nothing.                                        *)
LEMMA FollowsMeet ==
  ASSUME NEW K \in Contexts, NEW L \in Contexts, NEW x \in STRING, NEW ty \in Types, Widened(K, L, x, ty),
         NEW F \in FactSets, NEW Ft \in FactSets, NEW Fe \in FactSets,
         NEW k1, NEW k2, NEW e1, NEW e2, NEW kills, NEW ends,
         Follows(L, F, Ft, k1, e1), Follows(K, F, Fe, k2, e2),
         k1 \/ k2 => kills, ends => e1 /\ e2,
         JoinMoved(DropNames(Ft, {x}), Fe)
  PROVE  Follows(K, F, Meet(DropNames(Ft, {x}), Fe), kills, ends)
<1> DEFINE D == DropNames(Ft, {x})
           G == Meet(D, Fe)
<1>1. /\ D \in FactSets /\ D.bottom = Ft.bottom /\ D.moved = Ft.moved \ {x} /\ D.dead = Ft.dead \ {x}
  <2>1. {x} \in SUBSET STRING
    OBVIOUS
  <2> QED BY <2>1, DropParts
<1> HIDE DEF D
<1>2. /\ G \in FactSets /\ G.bottom = (D.bottom /\ Fe.bottom) /\ G.moved \in {D.moved, Fe.moved}
      /\ G.dead \subseteq D.dead \cup Fe.dead
  BY <1>1, MeetCovers, SMTT(60) DEF D
<1> HIDE DEF G
<1>3. NamesOf(L) = NamesOf(K) \cup Named(x)
  BY WidenedNames
<1>4. ViewsInScope(L) \subseteq ViewsInScope(K) \cup {x}
  <2>1. ViewsInScope(L) = ViewsInScope(K) \cup (IF ty = "view" THEN Named(x) ELSE {})
    BY WidenedNames, ZenonT(60)
  <2>2. Named(x) \subseteq {x}
    BY DEF Named
  <2> QED BY <2>1, <2>2
<1>5. x \notin NamesOf(K) /\ Named(x) \subseteq {x}
  BY DEF Widened, Named
<1>6. F.bottom => G.bottom
  BY <1>1, <1>2 DEF Follows
<1>7. F.moved \subseteq NamesOf(K) => F.moved \subseteq G.moved /\ G.moved \subseteq NamesOf(K)
  BY <1>1, <1>2, <1>3, <1>5 DEF Follows
<1>8. G.dead \subseteq F.dead \cup ViewsInScope(K)
  BY <1>1, <1>2, <1>4 DEF Follows
<1>9. ~kills => G.dead \subseteq F.dead
  BY <1>1, <1>2 DEF Follows
<1>10. ends => G.bottom
  BY <1>1, <1>2 DEF Follows
<1> QED BY <1>2, <1>6, <1>7, <1>8, <1>9, <1>10 DEF Follows, G, D

(* The same in one scope.                                                   *)
LEMMA FollowsJoin ==
  ASSUME NEW K, NEW F \in FactSets, NEW Ft \in FactSets, NEW Fe \in FactSets,
         NEW k1, NEW k2, NEW e1, NEW e2, NEW kills, NEW ends,
         Follows(K, F, Ft, k1, e1), Follows(K, F, Fe, k2, e2),
         k1 \/ k2 => kills, ends => e1 /\ e2, JoinMoved(Ft, Fe)
  PROVE  Follows(K, F, Meet(Ft, Fe), kills, ends)
<1> DEFINE G == Meet(Ft, Fe)
<1>1. /\ G \in FactSets /\ G.bottom = (Ft.bottom /\ Fe.bottom) /\ G.moved \in {Ft.moved, Fe.moved}
      /\ G.dead \subseteq Ft.dead \cup Fe.dead
  BY MeetCovers
<1> HIDE DEF G
<1> QED BY <1>1 DEF Follows, G

LEMMA NamesAreStrings == ASSUME NEW K \in Contexts PROVE NamesOf(K) \in SUBSET STRING
<1>1. K.locals \in Seq([x : STRING, ty : Types])
  BY ContextParts
<1>2. ASSUME NEW i \in DOMAIN K.locals PROVE K.locals[i].x \in STRING
  <2>1. K.locals[i] \in [x : STRING, ty : Types]
    BY <1>1, ElementOf
  <2> QED BY <2>1
<1> QED BY <1>2 DEF NamesOf

(* The rules of nesting n for the blocks inside.                            *)
PlainAt(n)  == IF n = 0 THEN <<>> ELSE Plain[n - 1]
ResizeAt(n) == IF n = 0 THEN <<>> ELSE ResizeIn[n - 1]
ExitsAt(n)  == IF n = 0 THEN <<>> ELSE Exits[n - 1]

LEMMA LevelRules ==
  ASSUME NEW n \in Nat, NEW b \in Blocks[n]
  PROVE  /\ Exits[n][b] = ExitsBy(ExitsAt(n), b)
         /\ ResizeIn[n][b] = ResizeBy(ResizeAt(n), b)
         /\ \A names \in SUBSET STRING : \A owner \in Owners :
              Plain[n][names][owner][b] = PlainBy(PlainAt(n), names, owner, b)
<1>1. CASE n = 0
  <2>1. b \in Blocks[0]
    BY <1>1
  <2>2. Exits[n][b] = ExitsBy(ExitsAt(n), b)
    BY <1>1, <2>1, ExitsSolved DEF ExitsAt
  <2>3. ResizeIn[n][b] = ResizeBy(ResizeAt(n), b)
    BY <1>1, <2>1, ResizeInSolved DEF ResizeAt
  <2>4. Plain[n] = PlainBlocks(Blocks[n], PlainAt(n))
    BY <1>1, PlainSolved DEF PlainAt
  <2>7. ASSUME NEW names \in SUBSET STRING, NEW owner \in Owners
        PROVE  Plain[n][names][owner][b] = PlainBy(PlainAt(n), names, owner, b)
    <3>1. PlainBlocks(Blocks[n], PlainAt(n))[names][owner][b] = PlainBy(PlainAt(n), names, owner, b)
      BY SMTT(30) DEF PlainBlocks
    <3> QED BY <2>4, <3>1
  <2> HIDE DEF ResizeBy, ExitsBy, PlainBy
  <2> QED BY <2>2, <2>3, <2>7
<1>2. CASE n # 0
  <2>1. n - 1 \in Nat /\ (n - 1) + 1 = n
    BY <1>2
  <2>2. /\ Exits[(n - 1) + 1] = [c \in Blocks[(n - 1) + 1] |-> ExitsBy(Exits[n - 1], c)]
        /\ ResizeIn[(n - 1) + 1] = [c \in Blocks[(n - 1) + 1] |-> ResizeBy(ResizeIn[n - 1], c)]
        /\ Plain[(n - 1) + 1] = PlainBlocks(Blocks[(n - 1) + 1], Plain[n - 1])
    BY <2>1, ExitsSolved, ResizeInSolved, PlainSolved
  <2>3. /\ Exits[n] = [c \in Blocks[n] |-> ExitsBy(Exits[n - 1], c)]
        /\ ResizeIn[n] = [c \in Blocks[n] |-> ResizeBy(ResizeIn[n - 1], c)]
        /\ Plain[n] = PlainBlocks(Blocks[n], Plain[n - 1])
    BY <2>1, <2>2
  <2>4. ExitsAt(n) = Exits[n - 1] /\ ResizeAt(n) = ResizeIn[n - 1] /\ PlainAt(n) = Plain[n - 1]
    BY <1>2 DEF ExitsAt, ResizeAt, PlainAt
  <2>5. Exits[n][b] = ExitsBy(ExitsAt(n), b) /\ ResizeIn[n][b] = ResizeBy(ResizeAt(n), b)
    BY <2>3, <2>4
  <2>6. Plain[n] = PlainBlocks(Blocks[n], PlainAt(n))
    BY <2>3, <2>4
  <2>7. ASSUME NEW names \in SUBSET STRING, NEW owner \in Owners
        PROVE  Plain[n][names][owner][b] = PlainBy(PlainAt(n), names, owner, b)
    <3>1. PlainBlocks(Blocks[n], PlainAt(n))[names][owner][b] = PlainBy(PlainAt(n), names, owner, b)
      BY SMTT(30) DEF PlainBlocks
    <3> QED BY <2>6, <3>1
  <2> HIDE DEF ResizeBy, ExitsBy, PlainBy
  <2> QED BY <2>5, <2>7
<1> QED BY <1>1, <1>2

(* The rules of a block, by its first statement and the rest.               *)
LEMMA RulesStep ==
  ASSUME NEW n \in Nat, NEW b \in Blocks[n], b # <<>>
  PROVE  /\ Exits[n][b] => EndsPath(ExitsAt(n), Head(b)) \/ Exits[n][Tail(b)]
         /\ Kills(ResizeAt(n), Head(b)) \/ ResizeIn[n][Tail(b)] => ResizeIn[n][b]
         /\ \A names \in SUBSET STRING : \A owner \in Owners : Plain[n][names][owner][b] =>
              /\ PlainStmt(PlainAt(n), names, owner, Head(b))
              /\ Plain[n][names][owner][Tail(b)]
<1>1. /\ Tail(b) \in Blocks[n] /\ Len(Tail(b)) = Len(b) - 1
      /\ Len(b) \in Nat \ {0} /\ Head(b) = b[1] /\ 1 \in DOMAIN b
      /\ \A i \in DOMAIN Tail(b) : Tail(b)[i] = b[i + 1] /\ i + 1 \in DOMAIN b
  BY BlockParts
<1>2. Exits[n][b] => EndsPath(ExitsAt(n), Head(b)) \/ Exits[n][Tail(b)]
  <2>1. Exits[n][b] = ExitsBy(ExitsAt(n), b) /\ Exits[n][Tail(b)] = ExitsBy(ExitsAt(n), Tail(b))
    BY <1>1, LevelRules
  <2>2. CASE Tail(b) = <<>>
    <3>1. Len(b) = 1 /\ Last(b) = Head(b)
      BY <1>1, <2>2 DEF Last
    <3> QED BY <2>1, <3>1 DEF ExitsBy
  <2>3. CASE Tail(b) # <<>>
    <3>1. Blocks[n] = Seq(Stmts(n))
      BY LevelFacts
    <3>2. Len(Tail(b)) \in DOMAIN Tail(b) /\ Len(Tail(b)) + 1 = Len(b)
      BY <1>1, <2>3, <3>1
    <3>3. Last(b) = Last(Tail(b))
      BY <1>1, <3>2 DEF Last
    <3> QED BY <2>1, <2>3, <3>3 DEF ExitsBy
  <2> QED BY <2>2, <2>3
<1>3. Kills(ResizeAt(n), Head(b)) \/ ResizeIn[n][Tail(b)] => ResizeIn[n][b]
  <2>1. /\ ResizeIn[n][b] = ResizeBy(ResizeAt(n), b)
        /\ ResizeIn[n][Tail(b)] = ResizeBy(ResizeAt(n), Tail(b))
    BY <1>1, LevelRules
  <2> QED BY <1>1, <2>1 DEF ResizeBy
<1>4. ASSUME NEW names \in SUBSET STRING, NEW owner \in Owners, Plain[n][names][owner][b]
      PROVE  PlainStmt(PlainAt(n), names, owner, Head(b)) /\ Plain[n][names][owner][Tail(b)]
  <2>1. /\ Plain[n][names][owner][b] = PlainBy(PlainAt(n), names, owner, b)
        /\ Plain[n][names][owner][Tail(b)] = PlainBy(PlainAt(n), names, owner, Tail(b))
    BY <1>1, LevelRules, ZenonT(60)
  <2> QED BY <1>1, <1>4, <2>1 DEF PlainBy
<1> QED BY <1>2, <1>3, <1>4

LEMMA EnteringFollows ==
  ASSUME NEW n \in Nat, NEW K \in Contexts, NEW F \in FactSets, NEW s \in Stmts(n), Step(n, K, F, s).ok
  PROVE  Follows(K, F, Entering(K, F, s), Resizes(s), FALSE)
<1>1. Moves(s) \subseteq NamesOf(K)
  <2>1. \A x \in Mentions(s) : InScope(K, x)
    BY StepAccepted
  <2>2. Moves(s) \subseteq Mentions(s)
    BY DEF Moves, Mentions
  <2> QED BY <2>1, <2>2 DEF InScope, NamesOf
<1> QED BY <1>1, EnteringParts DEF Follows

(* What is to be shown of the blocks of nesting m.                          *)
BlocksFollow(m) ==
  \A K \in Contexts : \A F \in FactSets : \A b \in Blocks[m] : \A owner \in Owners :
    After(m, K, F, b).ok /\ Plain[m][NamesOf(K)][owner][b]
      => Follows(K, F, After(m, K, F, b), ResizeIn[m][b], Exits[m][b])

LEMMA StmtFollows ==
  ASSUME NEW n \in Nat, NEW K \in Contexts, NEW F \in FactSets, NEW s \in Stmts(n), Step(n, K, F, s).ok,
         s.op \in Compound => BlocksFollow(n - 1),
         NEW owner \in Owners, PlainStmt(PlainAt(n), NamesOf(K), owner, s)
  PROVE  Follows(K, F, Step(n, K, F, s), Kills(ResizeAt(n), s), EndsPath(ExitsAt(n), s))
<1> DEFINE M == Entering(K, F, s)
           S == Step(n, K, F, s)
           kills == Kills(ResizeAt(n), s)
           ends == EndsPath(ExitsAt(n), s)
<1>1. M \in FactSets /\ Follows(K, F, M, Resizes(s), FALSE)
  BY EnteringParts, EnteringFollows
<1>2. /\ s.op \in {"ret", "raise", "brk", "cont", "call", "use", "give"} \cup Compound
      /\ Resizes(s) => kills
  BY InnerBlocks DEF Kills
<1>3. SUFFICES Follows(K, M, S, kills, ends)
  <2>1. ASSUME Follows(K, M, S, kills, ends) PROVE Follows(K, F, S, kills, ends)
    <3> HIDE DEF M, S, kills, ends
    <3> QED BY <1>1, <1>2, <2>1 DEF Follows
  <2> HIDE DEF M
  <2> QED BY <2>1
<1>4. S = CheckBody(RulesAt(n), K, M, s) /\ S.ok
  BY StepAccepted
<1> HIDE DEF M, S
<1>5. CASE s.op \in {"ret", "raise", "brk", "cont", "call", "use", "give"}
  <2>1. ~Refused.ok
    BY DEF Refused, Facts0
  <2>2. S = IF s.op \in {"call", "use", "give"} THEN M ELSE Bot(M)
    <3> HIDE DEF Refused, Bot
    <3> QED BY <1>4, <1>5, <2>1 DEF CheckBody
  <2>3. ends => s.op \in {"ret", "raise", "brk", "cont"}
    BY <1>5 DEF EndsPath
  <2>4. Follows(K, M, M, kills, FALSE)
    BY <1>1, FollowsSelf
  <2>5. Follows(K, M, Bot(M), kills, TRUE)
    <3>1. /\ Bot(M) \in FactSets /\ Bot(M).bottom /\ Bot(M).moved = M.moved /\ Bot(M).dead = M.dead
      BY <1>1, FactOps
    <3> QED BY <3>1 DEF Follows
  <2> HIDE DEF kills, ends
  <2> QED BY <1>5, <2>2, <2>3, <2>4, <2>5 DEF Follows
<1>6. CASE s.op \in Compound
  <2>1. n - 1 \in Nat /\ n # 0 /\ s.t \in Blocks[n - 1] /\ BlocksFollow(n - 1)
    BY <1>6, InnerBlocks
  <2>2. PlainAt(n) = Plain[n - 1] /\ ResizeAt(n) = ResizeIn[n - 1] /\ ExitsAt(n) = Exits[n - 1]
    BY <2>1 DEF PlainAt, ResizeAt, ExitsAt
  <2>3. \A L \in Contexts : \A o \in Owners : \A b \in Blocks[n - 1] :
          After(n - 1, L, M, b).ok /\ Plain[n - 1][NamesOf(L)][o][b]
            => Follows(L, M, After(n - 1, L, M, b), ResizeIn[n - 1][b], Exits[n - 1][b])
    BY <1>1, <2>1 DEF BlocksFollow
  <2>4. CASE s.op = "ite"
    <3> DEFINE Ft == After(n - 1, K, M, s.t)
               Fe == After(n - 1, K, M, s.e)
    <3>1. /\ Ft \in FactSets /\ Fe \in FactSets /\ Ft.ok /\ Fe.ok
          /\ S = Ft \/ S = Fe \/ (JoinMoved(Ft, Fe) /\ S = Meet(Ft, Fe))
      BY <1>4, <2>4, IteAccepted DEF M, S
    <3>2. s.e \in Blocks[n - 1]
      BY <2>4, InnerBlocks
    <3>3. /\ Follows(K, M, Ft, ResizeIn[n - 1][s.t], Exits[n - 1][s.t])
          /\ Follows(K, M, Fe, ResizeIn[n - 1][s.e], Exits[n - 1][s.e])
      BY <2>1, <2>2, <2>3, <2>4, <3>1, <3>2 DEF PlainStmt
    <3>4. /\ ResizeIn[n - 1][s.t] \/ ResizeIn[n - 1][s.e] => kills
          /\ ends => Exits[n - 1][s.t] /\ Exits[n - 1][s.e]
      BY <2>2, <2>4 DEF Kills, EndsPath
    <3> HIDE DEF Ft, Fe, kills, ends
    <3>5. JoinMoved(Ft, Fe) => Follows(K, M, Meet(Ft, Fe), kills, ends)
      BY <1>1, <3>1, <3>3, <3>4, FollowsJoin
    <3>6. Follows(K, M, Ft, kills, ends) /\ Follows(K, M, Fe, kills, ends)
      BY <3>3, <3>4 DEF Follows
    <3> QED BY <3>1, <3>5, <3>6
  <2>5. CASE s.op = "loop"
    <3>1. S = IF ResizeIn[n - 1][s.t] THEN KillViews(K, M) ELSE M
      BY <1>4, <2>5, LoopAccepted DEF M, S
    <3>2. ResizeIn[n - 1][s.t] => kills
      BY <2>2, <2>5 DEF Kills
    <3>3. ~ends
      BY <2>5 DEF EndsPath
    <3> HIDE DEF kills, ends
    <3> QED BY <1>1, <3>1, <3>2, <3>3, KilledViews DEF Follows
  <2>6. CASE s.op = "try"
    <3> DEFINE L == TryContext(K, s)
               Ft == After(n - 1, L, M, s.t)
               Fe == After(n - 1, K, M, s.e)
               ty == Bound[s.f]
    <3>0. L \in Contexts /\ Ft \in FactSets /\ Fe \in FactSets /\ Ft.ok /\ Fe.ok /\ Joins(Ft, Fe, s.x, S)
      BY <1>4, <2>6, TryAccepted, ZenonT(60) DEF M, S
    <3>1. /\ L \in Contexts /\ Ft \in FactSets /\ Fe \in FactSets /\ Ft.ok /\ Fe.ok
          /\ JoinMoved(DropNames(Ft, {s.x}), Fe) /\ S = Meet(DropNames(Ft, {s.x}), Fe)
      BY <3>0 DEF Joins
    <3>2. s.e \in Blocks[n - 1] /\ s.x \in STRING /\ s.y \in STRING /\ s.f \in Fallibles
      BY <2>6, InnerBlocks
    <3>3. ty \in Types
      BY <3>2 DEF Bound, Fallibles, Types
    <3>4. Widened(K, L, s.x, ty)
      <4>1. s.x \notin NamesOf(K)
        BY <2>6 DEF PlainStmt
      <4>2. L.locals = IF s.x = "_" THEN K.locals ELSE <<[x |-> s.x, ty |-> ty]>> \o K.locals
        BY <3>2, TryContextParts
      <4> HIDE DEF L, ty
      <4> QED BY <4>1, <4>2 DEF Widened
    <3> HIDE DEF L, ty, Ft, Fe
    <3>5. NamesOf(L) = NamesOf(K) \cup Named(s.x)
      BY <3>1, <3>2, <3>3, <3>4, WidenedNames, ZenonT(60)
    <3>6. Plain[n - 1][NamesOf(L)][owner][s.t] /\ Plain[n - 1][NamesOf(K)][owner][s.e]
      BY <2>2, <2>6, <3>5 DEF PlainStmt
    <3>7. /\ Follows(L, M, Ft, ResizeIn[n - 1][s.t], Exits[n - 1][s.t])
          /\ Follows(K, M, Fe, ResizeIn[n - 1][s.e], Exits[n - 1][s.e])
      BY <2>1, <2>3, <3>1, <3>2, <3>6 DEF Ft, Fe
    <3>8. /\ ResizeIn[n - 1][s.t] \/ ResizeIn[n - 1][s.e] => kills
          /\ ends => Exits[n - 1][s.t] /\ Exits[n - 1][s.e]
      BY <2>2, <2>6 DEF Kills, EndsPath
    <3> HIDE DEF kills, ends
    <3>9. Follows(K, M, Meet(DropNames(Ft, {s.x}), Fe), kills, ends)
      BY <1>1, <3>1, <3>2, <3>3, <3>4, <3>7, <3>8, FollowsMeet
    <3> QED BY <3>1, <3>9
  <2>7. CASE s.op = "hold"
    <3> DEFINE L == HoldContext(K, s)
               Ft == After(n - 1, L, M, s.t)
               Fe == ElseOf(n, K, M, s)
               ty == IF s.r = "sockref" THEN "sock" ELSE "rec"
               e2 == s.e # <<>> => Exits[n - 1][s.e]
    <3>0. L \in Contexts /\ Ft \in FactSets /\ Fe \in FactSets /\ Ft.ok /\ Fe.ok /\ Joins(Ft, Fe, s.x, S)
      BY <1>4, <2>7, HoldAccepted, ZenonT(60) DEF M, S
    <3>1. /\ L \in Contexts /\ Ft \in FactSets /\ Fe \in FactSets /\ Ft.ok /\ Fe.ok
          /\ JoinMoved(DropNames(Ft, {s.x}), Fe) /\ S = Meet(DropNames(Ft, {s.x}), Fe)
      BY <3>0 DEF Joins
    <3>2. s.e \in Blocks[n - 1] /\ s.x \in STRING /\ s.r \in STRING /\ s.x \in Owners
      BY <2>7, InnerBlocks DEF Owners
    <3>3. ty \in Types
      BY DEF Types
    <3>4. Widened(K, L, s.x, ty)
      <4>1. s.x \notin NamesOf(K)
        BY <2>7 DEF PlainStmt
      <4>2. L.locals = IF s.x = "_" THEN K.locals ELSE <<[x |-> s.x, ty |-> ty]>> \o K.locals
        BY <3>2, HoldContextParts
      <4> HIDE DEF L, ty
      <4> QED BY <4>1, <4>2 DEF Widened
    <3>5. Follows(K, M, Fe, ResizeIn[n - 1][s.e], e2)
      <4>1. CASE s.e = <<>>
        <5>1. Bot(M) \in FactSets /\ Bot(M).bottom /\ Bot(M).moved = M.moved /\ Bot(M).dead = M.dead
          BY <1>1, FactOps
        <5> QED BY <4>1, <5>1 DEF Follows, ElseOf
      <4>2. CASE s.e # <<>>
        <5>1. Plain[n - 1][NamesOf(K)][owner][s.e]
          BY <2>2, <2>7 DEF PlainStmt
        <5>2. Follows(K, M, After(n - 1, K, M, s.e), ResizeIn[n - 1][s.e], Exits[n - 1][s.e])
          BY <2>3, <3>1, <3>2, <4>2, <5>1 DEF ElseOf
        <5> QED BY <4>2, <5>2 DEF Follows, ElseOf
      <4> QED BY <4>1, <4>2
    <3> HIDE DEF L, ty, Ft, Fe
    <3>6. NamesOf(L) = NamesOf(K) \cup Named(s.x)
      BY <3>1, <3>2, <3>3, <3>4, WidenedNames, ZenonT(60)
    <3>7. Plain[n - 1][NamesOf(L)][s.x][s.t]
      BY <2>2, <2>7, <3>6 DEF PlainStmt
    <3>8. Follows(L, M, Ft, ResizeIn[n - 1][s.t], Exits[n - 1][s.t])
      BY <2>1, <2>3, <3>1, <3>2, <3>7 DEF Ft
    <3>9. /\ ResizeIn[n - 1][s.t] \/ ResizeIn[n - 1][s.e] => kills
          /\ ends => Exits[n - 1][s.t] /\ e2
      BY <2>2, <2>7 DEF Kills, EndsPath
    <3> HIDE DEF kills, ends, e2
    <3>10. Follows(K, M, Meet(DropNames(Ft, {s.x}), Fe), kills, ends)
      BY <1>1, <3>1, <3>2, <3>3, <3>4, <3>5, <3>8, <3>9, FollowsMeet
    <3> QED BY <3>1, <3>10
  <2> QED BY <1>6, <2>4, <2>5, <2>6, <2>7 DEF Compound
<1> QED BY <1>2, <1>5, <1>6

LEMMA LevelFollows ==
  ASSUME NEW n \in Nat, n # 0 => BlocksFollow(n - 1)
  PROVE  BlocksFollow(n)
<1> SUFFICES ASSUME NEW K \in Contexts, NEW owner \in Owners
             PROVE  \A F \in FactSets : \A b \in Blocks[n] :
                      After(n, K, F, b).ok /\ Plain[n][NamesOf(K)][owner][b]
                        => Follows(K, F, After(n, K, F, b), ResizeIn[n][b], Exits[n][b])
  BY DEF BlocksFollow
<1> DEFINE E == {k \in Nat : \A F \in FactSets : \A b \in Blocks[n] :
                   Len(b) = k /\ After(n, K, F, b).ok /\ Plain[n][NamesOf(K)][owner][b]
                     => Follows(K, F, After(n, K, F, b), ResizeIn[n][b], Exits[n][b])}
<1>1. 0 \in E
  <2>1. ASSUME NEW F \in FactSets, NEW b \in Blocks[n], Len(b) = 0
        PROVE  Follows(K, F, After(n, K, F, b), ResizeIn[n][b], Exits[n][b])
    <3>1. b = <<>>
      BY <2>1, LevelFacts
    <3>2. After(n, K, F, b) = F
      BY <3>1, AfterEmpty
    <3>3. ~Exits[n][b]
      BY <3>1, LevelRules DEF ExitsBy
    <3> QED BY <3>2, <3>3 DEF Follows
  <2> QED BY <2>1
<1>2. ASSUME NEW k \in Nat, k \in E PROVE k + 1 \in E
  <2>1. ASSUME NEW F \in FactSets, NEW b \in Blocks[n], Len(b) = k + 1,
               After(n, K, F, b).ok, Plain[n][NamesOf(K)][owner][b]
        PROVE  Follows(K, F, After(n, K, F, b), ResizeIn[n][b], Exits[n][b])
    <3> DEFINE G == Step(n, K, F, Head(b))
    <3>1. b # <<>> /\ F.ok
      BY <2>1, AfterRefused
    <3>2. /\ Head(b) \in Stmts(n) /\ Tail(b) \in Blocks[n] /\ G \in FactSets
          /\ After(n, K, F, b) = After(n, K, G, Tail(b))
      BY <3>1, AfterStep
    <3>3. Len(Tail(b)) = k
      BY <2>1, <3>1, BlockParts
    <3>4. NamesOf(K) \in SUBSET STRING
      BY NamesAreStrings
    <3>5. /\ PlainStmt(PlainAt(n), NamesOf(K), owner, Head(b)) /\ Plain[n][NamesOf(K)][owner][Tail(b)]
          /\ Exits[n][b] => EndsPath(ExitsAt(n), Head(b)) \/ Exits[n][Tail(b)]
          /\ Kills(ResizeAt(n), Head(b)) \/ ResizeIn[n][Tail(b)] => ResizeIn[n][b]
      BY <2>1, <3>1, <3>4, RulesStep
    <3> HIDE DEF G
    <3>6. G.ok
      BY <2>1, <3>2, AfterRefused
    <3>7. Head(b).op \in Compound => BlocksFollow(n - 1)
      BY <3>2, InnerBlocks
    <3>8. Follows(K, F, G, Kills(ResizeAt(n), Head(b)), EndsPath(ExitsAt(n), Head(b)))
      BY <3>2, <3>5, <3>6, <3>7, StmtFollows DEF G
    <3>9. Follows(K, G, After(n, K, G, Tail(b)), ResizeIn[n][Tail(b)], Exits[n][Tail(b)])
      BY <1>2, <2>1, <3>2, <3>3, <3>5
    <3> QED BY <3>2, <3>5, <3>8, <3>9, FollowsTrans
  <2> QED BY <2>1
<1>3. Nat \subseteq E
  <2> HIDE DEF E
  <2> QED BY <1>1, <1>2, SetInduction
<1>4. \A b \in Blocks[n] : Len(b) \in Nat
  BY LevelFacts
<1> QED BY <1>3, <1>4

(* So it is for every nesting.                                              *)
LEMMA AllFollow == \A n \in Nat : BlocksFollow(n)
<1> DEFINE S == {n \in Nat : BlocksFollow(n)}
<1>1. 0 \in S
  BY LevelFollows
<1>2. ASSUME NEW n \in Nat, n \in S PROVE n + 1 \in S
  <2>1. n + 1 \in Nat /\ (n + 1) - 1 = n
    OBVIOUS
  <2> QED BY <1>2, <2>1, LevelFollows
<1>3. Nat \subseteq S
  <2> HIDE DEF S
  <2> QED BY <1>1, <1>2, SetInduction
<1> QED BY <1>3

(* A branch that binds a name, and its `else`, against what they meet in.   *)
LEMMA DroppedCovers ==
  ASSUME NEW K, NEW F \in FactSets, NEW G \in FactSets, NEW x \in STRING, x \notin NamesOf(K),
         JoinMoved(DropNames(F, {x}), G), NEW H, H = Meet(DropNames(F, {x}), G)
  PROVE  Covers(K, F, H) /\ Covers(K, G, H)
<1> DEFINE D == DropNames(F, {x})
<1>1. D \in FactSets
  BY DropParts
<1> HIDE DEF D
<1>2. Covers(K, D, Meet(D, G)) /\ Covers(K, G, Meet(D, G))
  BY <1>1, MeetCovers DEF D
<1>3. Covers(K, F, H)
  BY <1>2, DropCovers DEF D
<1> QED BY <1>2, <1>3 DEF D

(* A branch that binds a name and its `else`, against the facts after them. *)
LEMMA TryCovers ==
  ASSUME NEW n \in Nat, NEW K \in Contexts, NEW F \in FactSets, NEW s \in Stmts(n), s.op = "try",
         Step(n, K, F, s).ok, s.x \notin NamesOf(K), NEW M, M = Entering(K, F, s),
         NEW L, L = TryContext(K, s),
         NEW Ft, Ft = After(n - 1, L, M, s.t), NEW Fe, Fe = After(n - 1, K, M, s.e),
         NEW G, G = Step(n, K, F, s)
  PROVE  /\ M \in FactSets /\ L \in Contexts /\ Ft \in FactSets /\ Fe \in FactSets /\ Ft.ok /\ Fe.ok
         /\ FallibleOk(K, s)
         /\ Covers(K, Ft, G) /\ Covers(K, Fe, G)
<1>1. /\ M \in FactSets /\ L \in Contexts /\ Ft \in FactSets /\ Fe \in FactSets /\ Ft.ok /\ Fe.ok
      /\ FallibleOk(K, s)
  BY TryAccepted, ZenonT(60)
<1>2. Joins(Ft, Fe, s.x, Step(n, K, F, s))
  BY TryAccepted, ZenonT(60)
<1>3. JoinMoved(DropNames(Ft, {s.x}), Fe) /\ Step(n, K, F, s) = Meet(DropNames(Ft, {s.x}), Fe)
  BY <1>2 DEF Joins
<1>4. s.x \in STRING
  BY InnerBlocks
<1>5. Covers(K, Ft, G) /\ Covers(K, Fe, G)
  <2>1. \A Fx, Gx \in FactSets : \A x \in STRING : \A Hx :
          x \notin NamesOf(K) /\ JoinMoved(DropNames(Fx, {x}), Gx) /\ Hx = Meet(DropNames(Fx, {x}), Gx)
            => Covers(K, Fx, Hx) /\ Covers(K, Gx, Hx)
    BY DroppedCovers
  <2> QED BY <1>1, <1>2, <1>3, <1>4, <2>1, Zenon
<1> QED BY <1>1, <1>5

LEMMA HoldCovers ==
  ASSUME NEW n \in Nat, NEW K \in Contexts, NEW F \in FactSets, NEW s \in Stmts(n), s.op = "hold",
         Step(n, K, F, s).ok, s.x \notin NamesOf(K), NEW M, M = Entering(K, F, s),
         NEW L, L = HoldContext(K, s),
         NEW Fb, Fb = After(n - 1, L, M, s.t),
         NEW Fe, Fe = ElseOf(n, K, M, s), NEW G, G = Step(n, K, F, s)
  PROVE  /\ M \in FactSets /\ L \in Contexts /\ Fb \in FactSets /\ Fe \in FactSets /\ Fb.ok /\ Fe.ok
         /\ HoldOk(RulesAt(n), K, s)
         /\ Covers(K, Fb, G) /\ Covers(K, Fe, G)
<1>1. /\ M \in FactSets /\ L \in Contexts /\ Fb \in FactSets /\ Fe \in FactSets /\ Fb.ok /\ Fe.ok
      /\ HoldOk(RulesAt(n), K, s)
  BY HoldAccepted, ZenonT(90)
<1>2. Joins(Fb, Fe, s.x, Step(n, K, F, s))
  BY HoldAccepted, ZenonT(60)
<1>3. JoinMoved(DropNames(Fb, {s.x}), Fe) /\ Step(n, K, F, s) = Meet(DropNames(Fb, {s.x}), Fe)
  BY <1>2 DEF Joins
<1>4. s.x \in STRING
  BY InnerBlocks
<1>5. Covers(K, Fb, G) /\ Covers(K, Fe, G)
  <2>1. \A Fx, Gx \in FactSets : \A x \in STRING : \A Hx :
          x \notin NamesOf(K) /\ JoinMoved(DropNames(Fx, {x}), Gx) /\ Hx = Meet(DropNames(Fx, {x}), Gx)
            => Covers(K, Fx, Hx) /\ Covers(K, Gx, Hx)
    BY DroppedCovers
  <2> QED BY <1>1, <1>2, <1>3, <1>4, <2>1, Zenon
<1> QED BY <1>1, <1>5
=============================================================================
