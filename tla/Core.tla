-------------------------------- MODULE Core --------------------------------
(* One program of a unit, from its source to its verdict: the checker       *)
(* accepts it or not (Check), and the reference evaluator of Core           *)
(* (Koit/Core/Interp.lean) runs it, one step at a time, on the shared       *)
(* machine (Machine).  Every action on the machine is the machine's own.    *)
(*                                                                          *)
(* The evaluator's recursion is the control stack `ctl`, innermost frame    *)
(* first, and its result the outcome `out` on its way up: "normal" while    *)
(* statements run, otherwise the exit that is unwinding the stack.  A       *)
(* failure (`fail`) is the machine's status "error".                        *)
EXTENDS Machine, Check

CONSTANTS
  MaxIters     \* bound: the iterations of one loop

VARIABLES
  phase,       \* "source", "rejected", "body", "handler", "done"
  prog,        \* the program; its body is dropped once it runs
  ctl,         \* the control stack
  out,         \* the outcome being returned
  locals       \* the store: bindings, innermost first

coreVars == <<phase, prog, ctl, out, locals>>
allVars  == <<vars, coreVars>>

-----------------------------------------------------------------------------
(* The store.  A binding is a place: an owned object, a socket cast (with   *)
(* the socket it derives from), a view under its token; or moved.           *)

Binding(x, k, n, of) == [x |-> x, kind |-> k, n |-> n, of |-> of]

Local(x) == IF \E i \in DOMAIN locals : locals[i].x = x
              THEN locals[CHOOSE i \in DOMAIN locals :
                     locals[i].x = x /\ \A j \in 1..(i - 1) : locals[j].x # x]
              ELSE Binding(x, "unbound", 0, -1)
WithBound(x, b) == IF x = "_" THEN locals ELSE <<b>> \o locals
Rebound(x)    == [i \in DOMAIN locals |->
                    IF locals[i].x = x THEN [locals[i] EXCEPT !.kind = "moved"] ELSE locals[i]]
DropTo(n)     == SubSeq(locals, Len(locals) - n + 1, Len(locals))
IsMoved(x)    == Local(x).kind = "moved"
Usable(b)     == b.kind \in {"own", "cast"} \/ (b.kind = "view" /\ b.n = layout)

(* Frames.  `n` is the length of the store the frame restores; a hold's     *)
(* frame records what it acquired.                                          *)
Frame(at, b, x, left, h) ==
  [at |-> at, rest |-> b, x |-> x, left |-> left, n |-> Len(locals), got |-> h]
NoneHeld        == [res |-> "none", obj |-> NoObj]
Block(b)        == Frame("block", b, "_", 0, NoneHeld)
LoopOf(b, k)    == Frame("loop", b, "_", k, NoneHeld)
TryOf           == Frame("try", <<>>, "_", 0, NoneHeld)
HoldOf(x, h)    == Frame("hold", <<>>, x, 0, h)

Top       == Head(ctl)
Executing == phase \in {"body", "handler"} /\ status = "running"
Runs(op)  == /\ Executing /\ out = "normal" /\ ctl # <<>>
             /\ Top.at = "block" /\ Top.rest # <<>> /\ Head(Top.rest).op = op
Stmt      == Head(Top.rest)
Advance   == <<[Top EXCEPT !.rest = Tail(@)]>> \o Tail(ctl)
Goto(fs)  == ctl' = fs \o Advance /\ UNCHANGED <<phase, prog, out>>
Unwinds(at) == Executing /\ ctl # <<>> /\ Top.at = at
Ends(at)  == Unwinds(at) /\ ctl' = Tail(ctl) /\ UNCHANGED <<phase, prog>>
Errs      == Fail /\ UNCHANGED coreVars

-----------------------------------------------------------------------------
(* The checker.                                                             *)

CheckUnit ==
  /\ phase = "source"
  /\ IF CheckProgram(prog)
       THEN /\ phase' = "body" /\ ctl' = <<Block(prog.body)>>
            /\ prog' = [prog EXCEPT !.body = <<>>]
       ELSE phase' = "rejected" /\ UNCHANGED <<prog, ctl>>
  /\ UNCHANGED <<vars, out, locals>>

-----------------------------------------------------------------------------
(* Statements.                                                              *)

ExecUse ==
  /\ Runs("use")
  /\ IF Usable(Local(Stmt.x))
       THEN Goto(<<>>) /\ UNCHANGED <<vars, locals>>
       ELSE Errs

ExecCall == Runs("call") /\ OtherCall("ok") /\ Goto(<<>>) /\ UNCHANGED locals

(* The name is dead before the sink runs.                                   *)
ExecGive ==
  /\ Runs("give")
  /\ LET b == Local(Stmt.x) IN
       IF b.kind \in {"own", "cast", "view"}
         THEN SkRelease(b.n) /\ locals' = Rebound(Stmt.x) /\ Goto(<<>>)
         ELSE Errs

ExecExit ==
  \E op \in {"ret", "raise", "brk", "cont"} :
    /\ Runs(op)
    /\ out' = op /\ ctl' = Advance
    /\ UNCHANGED <<vars, phase, prog, locals>>

ExecIte ==
  /\ Runs("ite")
  /\ \/ Stmt.c # "no"  /\ Goto(<<Block(Stmt.t)>>)
     \/ Stmt.c # "yes" /\ Goto(<<Block(Stmt.e)>>)
  /\ UNCHANGED <<vars, locals>>

ExecLoop ==
  /\ Runs("loop")
  /\ \E k \in 0..MaxIters : Goto(<<LoopOf(Stmt.t, k)>>)
  /\ UNCHANGED <<vars, locals>>

(* A fallible operation that yielded b, and one that failed.                *)
Took(b)  == locals' = WithBound(Stmt.x, b) /\ ctl' = <<[Block(Stmt.t) EXCEPT !.n = Len(locals')],
                                                     TryOf>> \o Advance
Missed   == locals' = locals /\ ctl' = <<Block(Stmt.e)>> \o Advance

TryView ==
  IF 1 <= packet THEN View(0, 1) /\ Took(Binding(Stmt.x, "view", layout, -1))
                 ELSE UNCHANGED vars /\ Missed
TryResize ==
  \E d \in Deltas :
    /\ Resize(d)
    /\ IF packet + d >= 0 THEN Took(Binding("_", "none", 0, -1)) ELSE Missed
TryCast ==
  LET p == Local(Stmt.y) IN
    IF ~Usable(p) THEN Fail /\ UNCHANGED <<ctl, locals>>
    ELSE \/ /\ SkCast
            /\ Took(Binding(Stmt.x, "cast", nextId, IF p.kind = "own" THEN p.n ELSE p.of))
         \/ OtherCall("failed") /\ Missed

ExecTry ==
  /\ Runs("try")
  /\ \/ Stmt.f = "view"   /\ TryView
     \/ Stmt.f = "resize" /\ TryResize
     \/ Stmt.f = "cast"   /\ TryCast
     \/ Stmt.f = "tail"   /\ UNCHANGED vars /\ Missed      \* not taken
  /\ UNCHANGED <<phase, prog, out>>

(* A taken tail call leaves the program; the scopes it unwinds release.     *)
ExecTail ==
  /\ Runs("try") /\ Stmt.f = "tail"
  /\ out' = "tail" /\ ctl' = Advance
  /\ UNCHANGED <<vars, phase, prog, locals>>

(* The machine's acquisition; a failure leaves the held stack alone.        *)
Acquire(r) ==
  \/ r = "spinlock" /\ Lock([num |-> 0])
  \/ r \in Scopes   /\ Enter(r)
  \/ r = "ringbuf"  /\ IF RingBytes + 1 <= RingCapacity THEN Reserve(1) ELSE UNCHANGED vars
  \/ r = "sockref"  /\ SkLookup

ExecHold ==
  /\ Runs("hold")
  /\ Acquire(Stmt.r)
  /\ IF held' # held
       THEN /\ locals' = WithBound(Stmt.x, Binding(Stmt.x, "own", nextId, -1))
            /\ ctl' = <<[Block(Stmt.t) EXCEPT !.n = Len(locals')],
                        HoldOf(Stmt.x, Head(held'))>> \o Advance
       ELSE Missed
  /\ UNCHANGED <<phase, prog, out>>

-----------------------------------------------------------------------------
(* Ends of blocks and unwinding.                                            *)

BlockEnd ==
  /\ Ends("block")
  /\ Top.rest = <<>> \/ out # "normal"
  /\ locals' = DropTo(Top.n)
  /\ UNCHANGED <<vars, out>>

TryEnd == Ends("try") /\ locals' = DropTo(Top.n) /\ UNCHANGED <<vars, out>>

(* Bug: an exit leaves the resource held.                                   *)
BugReleaseOnNormalOnly ==
  IF out # "normal" THEN UNCHANGED vars ELSE Release(TRUE)
ReleaseHeld ==
  IF Top.x # "_" /\ IsMoved(Top.x) THEN UNCHANGED vars ELSE Release(out = "normal")

(* Released on the way out, whatever the way, unless moved.                 *)
HoldEnd ==
  /\ Ends("hold")
  /\ ReleaseHeld
  /\ locals' = DropTo(Top.n) /\ UNCHANGED out

(* Bug: `continue` does not use up an iteration.                            *)
BugContinueKeepsCount == IF out = "cont" THEN Top.left ELSE Top.left - 1
LeftAfter == Top.left - 1

LoopStep ==
  /\ Unwinds("loop")
  /\ IF out \in {"normal", "cont"} /\ Top.left > 0
       THEN ctl' = <<Block(Top.rest), [Top EXCEPT !.left = LeftAfter]>> \o Tail(ctl)
       ELSE ctl' = Tail(ctl)
  /\ out' = IF out \in {"brk", "cont"} THEN "normal" ELSE out
  /\ UNCHANGED <<vars, phase, prog, locals>>

(* The body's outcome, then the handler's.                                  *)
Halt == phase' = "done" /\ UNCHANGED <<vars, prog, ctl, out, locals>>

BodyEnd ==
  /\ Executing /\ phase = "body" /\ ctl = <<>>
  /\ CASE out = "tail" -> Halt
       [] out = "ret" /\ held = <<>> -> Halt
       [] out = "normal" /\ ~prog.kind.pkt /\ held = <<>> -> Halt
       [] out = "raise" /\ held = <<>> ->
            /\ phase' = "handler" /\ out' = "normal"
            /\ locals' = <<Binding("reason", "value", 0, -1)>>
            /\ ctl' = <<[Block(prog.handler) EXCEPT !.n = 1]>>
            /\ UNCHANGED <<vars, prog>>
       [] OTHER -> Errs

HandlerEnd ==
  /\ Executing /\ phase = "handler" /\ ctl = <<>>
  /\ IF out \in {"ret", "tail"} THEN Halt ELSE Errs

Ended == (phase \in {"rejected", "done"} \/ status = "error") /\ UNCHANGED allVars

CoreInit(p) ==
  /\ Init
  /\ phase = "source" /\ prog = p
  /\ ctl = <<>> /\ out = "normal" /\ locals = <<>>

Run ==
  \/ ExecUse \/ ExecCall \/ ExecGive \/ ExecExit \/ ExecIte \/ ExecLoop
  \/ ExecTry \/ ExecTail \/ ExecHold
  \/ BlockEnd \/ TryEnd \/ HoldEnd \/ LoopStep
  \/ BodyEnd \/ HandlerEnd

CoreNext == CheckUnit \/ Run \/ Ended
CoreSpec(p) == CoreInit(p) /\ [][CoreNext]_allVars /\ WF_allVars(Run)

-----------------------------------------------------------------------------
(* Properties.                                                              *)

(* T1, its safety half: no run of an accepted program reaches an error.     *)
(* The machine refuses no operation, no view is used after a resize and no  *)
(* name after its move, and the body ends where a body may (Interp.lean     *)
(* runProgram, Check/Stmt.lean).                                            *)
NeverRefused == status = "running"

(* What the holds among some frames still hold: all but a socket released.  *)
Holds(fr, released) ==
  fr.at = "hold" /\ (fr.got.res = "sockref" => fr.got.obj.n \notin released)
HeldBy(frames, released) ==
  LET outer[k \in 0..Len(frames)] ==        \* of the k outermost frames
        IF k = 0 THEN <<>>
        ELSE LET fr == frames[Len(frames) - k + 1] IN
             IF Holds(fr, released) THEN <<fr.got>> \o outer[k - 1] ELSE outer[k - 1]
  IN  outer[Len(frames)]

(* The holds being executed whose resource was not handed away, innermost   *)
(* first, are exactly the machine's held stack: a scope's release always    *)
(* finds its own resource on top, and nothing stays held past its scope     *)
(* (Interp.lean hold, spec/language.md 11.3).                               *)
LexicalHolds == held = HeldBy(ctl, Released)

(* A socket cast in scope still has its socket held, through every exit,    *)
(* move and iteration: the evaluator never looks, so only the checker keeps *)
(* a freed socket from being read (Check/Expr.lean checkArg, language.md    *)
(* 11.5).                                                                   *)
CastsGuarded ==
  \A i \in DOMAIN locals : locals[i].kind = "cast" => locals[i].of \in HeldSockets

(* A tail call is taken with nothing held: in the kernel it does not return *)
(* and nothing would be released (Check/Expr.lean tail, language.md 11.4).  *)
TailHoldsNothing == [][out # "tail" /\ out' = "tail" => held = <<>>]_allVars

(* T1, its other half: every accepted program halts with a verdict.         *)
Halts == phase = "body" ~> phase = "done"
=============================================================================
