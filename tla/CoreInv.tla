------------------------------ MODULE CoreInv ------------------------------
(* The inductive invariant of Core.  Interp.lean runs a block inside the    *)
(* call that runs the statement around it; here ctl is that stack, and the  *)
(* invariant says of each of its frames what the checker, which recurs in   *)
(* the same way, knew when it checked what the frame has left to run.       *)
EXTENDS Core, CheckProofs

-----------------------------------------------------------------------------
(* Types of the evaluator's state.                                          *)
AnyBlock == UNION {Blocks[n] : n \in Nat}
Labels   == STRING \cup {"_", "reason"}
Gots     == [res : Resources \cup {"none"}, obj : HeldObjs]
Frames   == [at : {"block", "loop", "try", "hold"}, rest : AnyBlock, x : Labels,
             left : Int, n : Nat, got : Gots]
Bindings == [x : Labels, kind : {"own", "cast", "view", "value", "none", "moved"},
             n : Int, of : Int]

(* What the checker knew when it checked what a frame has left to run: the  *)
(* nesting n, the context K, the facts G of the path, the views `live` that *)
(* no resize around may kill, and the holds around, innermost first.        *)
Typings == [n : Nat, K : Contexts, G : FactSets, live : SUBSET STRING, own : Seq(Frames)]
Typing(n, K, G, live, own) == [n |-> n, K |-> K, G |-> G, live |-> live, own |-> own]

OwnerOf(K) == IF K.held = <<>> THEN "_" ELSE Head(K.held).x
Scoped(K)  ==
  /\ \A i, j \in DOMAIN K.locals : K.locals[i].x = K.locals[j].x => i = j
  /\ "_" \notin NamesOf(K)

Known(K, G, live) ==
  /\ G.ok
  /\ live \subseteq NamesOf(K) /\ G.dead \cap live = {}
  /\ G.moved \subseteq NamesOf(K) /\ K.loopMoved \subseteq G.moved

OwnType(r) == IF r = "sockref" THEN "sock" ELSE "rec"
GotOk(got) ==
  /\ got.res \in Resources
  /\ got.res \in Scopes => got.obj = NoObj
  /\ got.res \in {"ringbuf", "sockref"} => got.obj = Object(got.obj.n)
Mirrors(K, own) ==
  /\ Len(own) = Len(K.held)
  /\ \A j \in DOMAIN own : /\ own[j].at = "hold" /\ GotOk(own[j].got)
                           /\ own[j].x = K.held[j].x /\ own[j].got.res = K.held[j].res
                           /\ own[j].x # "_" <=> Yields(own[j].got.res)
Apart(own) ==
  \A j, k \in DOMAIN own :
    own[j].got.res = "sockref" /\ own[k].got.res = "sockref"
      /\ own[j].got.obj.n = own[k].got.obj.n => j = k
Paired(K, own) ==
  /\ \A i \in DOMAIN K.locals : K.locals[i].ty = "sock" =>
       \E j \in DOMAIN own : own[j].x = K.locals[i].x /\ own[j].got.res = "sockref"
  /\ \A j \in DOMAIN own : own[j].x # "_" =>
       \E i \in DOMAIN K.locals : K.locals[i].x = own[j].x /\ K.locals[i].ty = OwnType(own[j].got.res)

Good(t) ==
  /\ t \in Typings
  /\ Scoped(t.K) /\ Known(t.K, t.G, t.live)
  /\ Mirrors(t.K, t.own) /\ Apart(t.own) /\ Paired(t.K, t.own)

EndOf(t, b) == After(t.n, t.K, t.G, b)
Checked(t, b) ==
  /\ b \in Blocks[t.n]
  /\ EndOf(t, b).ok
  /\ Plain[t.n][NamesOf(t.K)][OwnerOf(t.K)][b]
  /\ ResizeIn[t.n][b] => t.live \cap ViewsInScope(t.K) = {}

OpenBy(h) == \E i \in DOMAIN h : h[i].res = "spinlock"

(* A frame fr whose rest was checked as t, above what was checked as u.     *)
BlockLink(fr, t, u, base) ==
  /\ t.K = u.K /\ t.live = u.live /\ t.own = u.own
  /\ fr.n = Len(t.K.locals) + base
  /\ Checked(t, fr.rest)
  /\ Covers(u.K, EndOf(t, fr.rest), u.G)
LoopLink(fr, t, u) ==
  /\ t.K = LoopContext(u.K, t.G) /\ t.own = u.own
  /\ NamesOf(t.K) \ t.live \subseteq t.G.dead
  /\ Checked(t, fr.rest)
  /\ Covers(t.K, EndOf(t, fr.rest), t.G)
  /\ ~t.G.bottom
  /\ Covers(u.K, t.G, u.G)
TryLink(fr, t, u, base) ==
  /\ t.live = u.live /\ t.own = u.own /\ t.K.held = u.K.held /\ SameLoop(t.K, u.K)
  /\ fr.n = Len(u.K.locals) + base
  /\ Covers(u.K, t.G, u.G)
  /\ \E x \in NamesOf(t.K) \cup {"_"}, ty \in {"view", "cast"} : Widened(u.K, t.K, x, ty)
  /\ \A d \in t.K.derived : d[1] \in NamesOf(u.K) => d \in u.K.derived
HoldLink(fr, t, u, base) ==
  /\ t.live = u.live /\ t.own = <<fr>> \o u.own
  /\ fr.x \notin NamesOf(u.K)
  /\ t.K = HoldContext(u.K, [x |-> fr.x, r |-> fr.got.res])
  /\ fr.n = Len(u.K.locals) + base
  /\ Covers(u.K, t.G, u.G)
  /\ ~OpenBy(u.K.held)
Link(fr, t, u, base) ==
  /\ SameUnit(t.K, u.K)
  /\ fr.at = "block" => BlockLink(fr, t, u, base)
  /\ fr.at = "loop"  => LoopLink(fr, t, u)
  /\ fr.at = "try"   => TryLink(fr, t, u, base)
  /\ fr.at = "hold"  => HoldLink(fr, t, u, base)

Stacked(fs, T, base) ==
  /\ fs \in Seq(Frames) /\ T \in Seq(Typings) /\ Len(T) = Len(fs) + 1
  /\ \A i \in DOMAIN T : Good(T[i])
  /\ \A i \in DOMAIN fs : Link(fs[i], T[i], T[i + 1], base)

(* What the store holds, by the types: `moved` may be moved, `live` must be *)
(* views under the layout as it is.                                         *)
HoldsAs(b, ty, lay, mayMove, mustLive) ==
  /\ ty = "view" => b.kind = "view" /\ (mustLive => b.n = lay)
  /\ ty = "rec"  => b.kind = "own"
  /\ ty = "sock" => b.kind = "own" \/ (b.kind = "moved" /\ mayMove)
  /\ ty = "cast" => b.kind = "cast"
  /\ ty # "none"
StoreOk(loc, lay, K, base, moved, live) ==
  /\ loc \in Seq(Bindings) /\ Len(loc) = Len(K.locals) + base
  /\ \A i \in DOMAIN K.locals :
       /\ loc[i].x = K.locals[i].x
       /\ HoldsAs(loc[i], K.locals[i].ty, lay, K.locals[i].x \in moved, K.locals[i].x \in live)
  /\ \A i \in DOMAIN loc : i \notin DOMAIN K.locals => loc[i].kind # "cast"

(* A cast in scope has the socket it came from below it, not moved, and a   *)
(* name no lower than that socket holds the socket back from being moved.   *)
Guarded(loc, K, i) ==
  \E j \in DOMAIN K.locals :
    /\ i < j /\ K.locals[j].ty = "sock" /\ loc[j].kind = "own" /\ loc[j].n = loc[i].of
    /\ \E d \in K.derived : d[2] = K.locals[j].x /\ \E k \in i..(j - 1) : K.locals[k].x = d[1]
CastsOk(loc, K) == \A i \in DOMAIN K.locals : K.locals[i].ty = "cast" => Guarded(loc, K, i)

OwnedOk(loc, rel, nxt, K, own) ==
  \A j \in DOMAIN own :
    /\ own[j].got.res = "sockref" => own[j].got.obj.n \in 0..(nxt - 1)
    /\ \A i \in DOMAIN K.locals : K.locals[i].x = own[j].x =>
         /\ loc[i].n = own[j].got.obj.n
         /\ loc[i].kind = "moved" <=> own[j].got.res = "sockref" /\ own[j].got.obj.n \in rel

(* What an outcome on its way up may leave behind.                          *)
MovedBy(t, o) == IF o = "normal" THEN t.G.moved
                 ELSE IF o \in {"brk", "cont"} THEN t.K.loopMoved ELSE NamesOf(t.K)
LiveBy(t, o)  == IF o = "normal" THEN NamesOf(t.K) \ t.G.dead
                 ELSE IF o \in {"brk", "cont"} THEN t.live ELSE {}
OutOk(t, o) ==
  /\ o \in {"normal", "ret", "raise", "brk", "cont", "tail"}
  /\ o = "normal" => ~t.G.bottom
  /\ o \in {"brk", "cont"} => t.K.inLoop
  /\ o = "raise" => t.K.mayFail
  /\ o = "tail" => t.K.held = <<>>

Fits(t, loc, lay, nxt, rel, h, o, base) ==
  /\ StoreOk(loc, lay, t.K, base, MovedBy(t, o), LiveBy(t, o))
  /\ CastsOk(loc, t.K)
  /\ OwnedOk(loc, rel, nxt, t.K, t.own)
  /\ h = HeldBy(t.own, rel)
  /\ OutOk(t, o)

Base == IF phase = "handler" THEN 1 ELSE 0
Bottom(t) ==
  /\ ~t.K.inLoop /\ t.K.held = <<>> /\ t.K.locals = <<>> /\ t.own = <<>>
  /\ t.K.mayFail = (phase = "body")
  /\ phase = "handler" \/ prog.kind.verdicts => t.G.bottom

Programs == [kind : Kinds, body : Blocks[MaxNesting], handler : Blocks[MaxNesting]]
PlainBlock(b) == Plain[MaxNesting][{}]["_"][b]
PlainPrograms ==
  {p \in Programs : /\ PlainBlock(p.body) /\ PlainBlock(p.handler)
                    /\ p.kind.pkt => p.kind.verdicts}
AcceptedBlock(kind, fails, b) == After(MaxNesting, Context(kind, fails), Facts0, b).ok

ProgOk ==
  /\ prog \in Programs /\ PlainBlock(prog.handler)
  /\ prog.kind.pkt => prog.kind.verdicts
  /\ AcceptedBlock(prog.kind, FALSE, prog.handler) /\ Exits[MaxNesting][prog.handler]

RunInv(T) ==
  /\ Stacked(ctl, T, Base)
  /\ Bottom(T[Len(T)])
  /\ Fits(T[1], locals, layout, nextId, Released, held, out, Base)
  /\ ProgOk

World ==
  /\ status = "running" /\ nextId \in Nat /\ layout \in Nat
  /\ trace \in Seq(Events) /\ Released \subseteq 0..(nextId - 1)

IInv ==
  /\ World
  /\ phase \in {"source", "rejected", "body", "handler", "done"}
  /\ phase = "source" =>
       /\ prog \in PlainPrograms
       /\ ctl = <<>> /\ out = "normal" /\ locals = <<>> /\ held = <<>>
  /\ phase \in {"body", "handler"} => \E T : RunInv(T)
  /\ phase \in {"rejected", "done"} => LexicalHolds /\ CastsGuarded
=============================================================================
