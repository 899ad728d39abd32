------------------------------ MODULE MCFacts -------------------------------
(* Facts on programs of a few statements over two-bit locals x, y and z, a  *)
(* field s.f that r.f names too, and a shared place g.                      *)
EXTENDS Facts

X  == [root |-> "x", fld |-> "self"]
Y  == [root |-> "y", fld |-> "self"]
Z  == [root |-> "z", fld |-> "self"]
SF == [root |-> "s", fld |-> "f"]
RF == [root |-> "r", fld |-> "f"]
G  == [root |-> "g", fld |-> "f"]

U2 == [signed |-> FALSE, w |-> 2]
MCShape  == (X :> U2) @@ (Z :> U2) @@ (SF :> U2) @@ (G :> U2) @@ (Y :> [signed |-> TRUE, w |-> 2])
MCShared == {G}
MCRefs   == [r |-> "s"]
MCLets   == {"y", "z"}

Wide(p) == As(At(p), FALSE, 3)

MCStores ==
  {<<X, At(G)>>, <<X, Bin("add", At(X), Lit(1))>>, <<X, Bin("band", At(SF), Lit(2))>>,
   <<SF, At(X)>>, <<RF, Bin("mod", At(X), Lit(3))>>, <<G, At(X)>>}
MCBindings == {<<"y", As(At(X), TRUE, 2)>>, <<"z", At(X)>>}
MCConds ==
  {Rel("lt", At(X), Lit(2)), Rel("eq", At(X), At(RF)), Rel("lt", At(Y), Lit(0)),
   Rel("eq", Bin("band", At(X), Lit(2)), Lit(0)),
   And(Rel("eq", At(G), Lit(0)), Rel("ne", At(X), Lit(3))),
   Or(Rel("lt", At(SF), At(X)), Not(Rel("ge", Bin("add", At(X), Lit(1)), Lit(2)))),
   Rel("gt", Bin("add", Wide(X), Wide(SF)), Lit(4))}
MCBodies ==
  {<< <<X, Bin("add", At(X), Lit(1)), FALSE>> >>,
   << <<X, Bin("add", At(X), At(SF)), TRUE>>, <<G, At(X), FALSE>> >>,
   << <<X, Bin("add", At(X), At(SF)), FALSE>>, <<SF, Lit(1), TRUE>> >>,
   << <<X, Bin("add", At(X), Lit(1)), TRUE>>, <<X, Bin("add", At(X), Lit(1)), FALSE>> >>}
MCDemands ==
  {Rel("lt", At(X), Lit(2)), Rel("ge", At(X), Lit(1)), Rel("le", At(RF), At(X)),
   Rel("eq", At(X), At(SF)), Rel("eq", Bin("band", At(X), Lit(1)), Lit(0)),
   Rel("ne", At(RF), Lit(3)), Rel("lt", Bin("add", Wide(X), Lit(1)), Lit(4)),
   Not(Rel("eq", At(X), Lit(2))), Rel("ge", At(Y), Lit(0)),
   Or(Rel("lt", At(X), Lit(1)), Rel("gt", At(SF), Lit(0))),
   Rel("gt", Bin("add", Wide(Z), Wide(SF)), Lit(4))}
MCTerms == {At(X), At(RF), Bin("add", At(X), At(SF)), Bin("sub", Wide(X), Wide(SF))}
MCVerdicts == {{0}, {0, 1}, {1, 3}, {0, 2}, {0, 3}}

(* A mask that is a local, and a loop that writes through a reference the   *)
(* field its counter is advanced by.                                        *)
MaskConds   == MCConds \cup {Rel("ge", At(SF), Lit(1)), Rel("eq", Bin("band", At(X), At(SF)), Lit(0))}
AliasBodies == {<< <<X, Bin("add", At(X), At(SF)), FALSE>>, <<RF, Lit(3), FALSE>> >>}
AliasStores == {<<SF, Lit(1)>>}
AliasConds  == {And(Rel("lt", At(X), Lit(1)), Rel("lt", At(SF), Lit(2)))}
=============================================================================
