------------------------------- MODULE MCCore -------------------------------
(* Core on every program of a bounded size.  A family of programs is the    *)
(* statement forms it is written with and the number of statements a body   *)
(* has, nested ones counted.  The programs are not listed: they are written *)
(* statement by statement (`pen`), with the names in scope, so that every   *)
(* program of a family is the source of some behavior.                      *)
EXTENDS Core

CONSTANTS
  Families,      \* pairs: a set of forms, and the statements of a body
  LastMoves,     \* whether only the innermost owned name is moved
  Shadowing,     \* whether a binder may take a name in scope
  Kind           \* the program kind

VARIABLE pen     \* the program being written: its forms, the statements left,
                 \* and the open blocks, innermost first

MCVars == <<allVars, pen>>

Tc      == [pkt |-> TRUE,  verdicts |-> TRUE,  sockets |-> TRUE]
Handler == <<Hold("rcu", "_", <<Ret>>, <<>>)>>

Names == <<"a", "b", "c", "d", "e", "f">>

(* An open block: the statement it belongs to, which of its blocks it is,   *)
(* what is written of it, and its scope: the names with their types and the *)
(* names or resources held, innermost first, and whether a loop is open.    *)
Open(s, part, names, holds, inLoop) ==
  [of |-> s, part |-> part, blk |-> <<>>, names |-> names, holds |-> holds, inLoop |-> inLoop]

Here       == Head(pen.open)
NamesHere  == {Here.names[i][1] : i \in DOMAIN Here.names}
SocksHere  == {Here.names[i][1] : i \in {j \in DOMAIN Here.names : Here.names[j][2] = "sock"}}
Giveable   == {x \in SocksHere : LastMoves => Here.holds # <<>> /\ Head(Here.holds) = x}
Binders    == {Names[Len(Here.names) + 1]} \cup (IF Shadowing THEN NamesHere ELSE {})
Writing    == phase = "writing" /\ pen.open # <<>>
More       == Writing /\ pen.left > 0 /\ (Here.blk # <<>> => ~Exits[MaxNesting][Here.blk])
Wrote(fs, n) == pen' = [pen EXCEPT !.open = fs, !.left = @ - n] /\ UNCHANGED allVars

Leaves ==
  {Ret, Raise, Call}
  \cup (IF Here.inLoop THEN {Brk, Cont} ELSE {})
  \cup {Use(x) : x \in NamesHere} \cup {Give(x) : x \in Giveable}

WriteLeaf ==
  /\ More
  /\ \E s \in Leaves :
       /\ s.op \in pen.forms
       /\ Wrote(<<[Here EXCEPT !.blk = Append(@, s)]>> \o Tail(pen.open), 1)

(* The first block of a compound statement, and what it sees of the scope.  *)
Bound1(x, ty) == <<<<x, ty>>>> \o Here.names
Heads ==
  {Open(Ite("unknown", <<>>, <<>>), "t", Here.names, Here.holds, Here.inLoop),
   Open(Loop(<<>>), "t", Here.names, Here.holds, TRUE),
   Open(Try("resize", "_", "_", <<>>, <<>>), "t", Here.names, Here.holds, Here.inLoop),
   Open(Try("tail", "_", "_", <<>>, <<>>), "e", Here.names, Here.holds, Here.inLoop)}
  \cup {Open(Try("view", "_", x, <<>>, <<>>), "t", Bound1(x, "view"), Here.holds, Here.inLoop)
          : x \in Binders}
  \cup {Open(Try("cast", y, x, <<>>, <<>>), "t", Bound1(x, "cast"), Here.holds, Here.inLoop)
          : x \in Binders, y \in SocksHere}
  \cup {Open(Hold(r, "_", <<>>, <<>>), "t", Here.names, <<r>> \o Here.holds, Here.inLoop)
          : r \in {"rcu", "spinlock"}}
  \cup {Open(Hold(r, x, <<>>, <<Raise>>), "t", Bound1(x, IF r = "sockref" THEN "sock" ELSE "rec"),
             <<x>> \o Here.holds, Here.inLoop)
          : r \in {"ringbuf", "sockref"}, x \in Binders}
FormOf(s) == IF s.op = "try" THEN s.f ELSE IF s.op = "hold" THEN s.r ELSE s.op

WriteHead ==
  /\ More
  /\ \E o \in Heads : FormOf(o.of) \in pen.forms /\ Wrote(<<o>> \o pen.open, 1)

(* The first block is closed: the second is opened where there is one, else *)
(* the statement takes its place in the block around it.                    *)
HasElse(s) == s.op = "ite" \/ (s.op = "try" /\ s.f # "cast")
CloseBlock ==
  /\ Writing /\ Len(pen.open) > 1
  /\ LET s  == IF Here.part = "t" THEN [Here.of EXCEPT !.t = Here.blk]
                                  ELSE [Here.of EXCEPT !.e = Here.blk]
         up == pen.open[2]
     IN IF Here.part = "t" /\ HasElse(s)
          THEN Wrote(<<Open(s, "e", up.names, up.holds, up.inLoop)>> \o Tail(pen.open), 0)
          ELSE Wrote(<<[up EXCEPT !.blk = Append(@, s)]>> \o Tail(Tail(pen.open)), 0)

(* A body that falls off its end is given its verdict, unless the kind has  *)
(* none.                                                                    *)
Closed(b) == IF Kind.verdicts /\ ~Exits[MaxNesting][b] THEN b \o <<Ret>> ELSE b
Finish ==
  /\ Writing /\ Len(pen.open) = 1
  /\ phase' = "source"
  /\ prog' = [kind |-> Kind, body |-> Closed(Here.blk), handler |-> Handler]
  /\ pen' = [pen EXCEPT !.open = <<>>, !.left = 0, !.forms = {}]
  /\ UNCHANGED <<vars, ctl, out, locals>>

MCInit ==
  /\ Init
  /\ phase = "writing" /\ prog = [kind |-> Kind, body |-> <<>>, handler |-> Handler]
  /\ ctl = <<>> /\ out = "normal" /\ locals = <<>>
  /\ \E fam \in Families :
       pen = [forms |-> fam[1], left |-> fam[2],
              open |-> <<Open(Ret, "t", <<>>, <<>>, FALSE)>>]

MCNext ==
  \/ WriteLeaf \/ WriteHead \/ CloseBlock \/ Finish
  \/ phase # "writing" /\ CoreNext /\ UNCHANGED pen
MCSpec == MCInit /\ [][MCNext]_MCVars /\ WF_MCVars(Run /\ UNCHANGED pen)

Owning   == {"ret", "brk", "give", "ite", "loop", "sockref"}
Guarding == {"give", "use", "raise", "cast", "sockref", "rcu", "ite"}
Sections == {"call", "raise", "spinlock", "rcu", "ringbuf", "tail"}
Carving  == {"use", "brk", "cont", "loop", "view", "resize"}
MCFamilies == {<<Owning, 5>>, <<Guarding, 4>>, <<Sections, 4>>, <<Carving, 4>>}
OrderFamilies  == {<<{"give", "sockref", "rcu"}, 3>>}
ShadowFamilies == {<<{"give", "sockref", "view", "resize", "use"}, 4>>}
MCScopes      == {"rcu"}
MCDeltas      == {-1, 0}
MCRecordSizes == {1}
MCNone        == {}
=============================================================================
