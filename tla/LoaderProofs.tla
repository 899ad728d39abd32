----------------------------- MODULE LoaderProofs -----------------------------
(* Theorems about Loader: its types; that it puts a unit in place in          *)
(* Rollout's order, for every document, kernel and outcome of its calls; that *)
(* from the end of its making to the first run every array holds what its     *)
(* document says, a read-only one for good, and every program loaded names    *)
(* the objects its document says; and what it prints, the verdict of each run *)
(* and the report of each map.                                                *)
EXTENDS Loader, Arithmetic

-----------------------------------------------------------------------------
(* The inductive invariant: where the tool's cursors are says what is in      *)
(* place, and the names of the kernel's objects are those the tool keeps      *)
(* their descriptors by.                                                      *)

(* A sequence, of whatever it holds. *)
IsSeq(s) == s \in Seq(Elems(s))

(* The names of the first k - 1 elements. *)
Before(s, k) == {s[n].name : n \in 1 .. k - 1}

Mapping == {"maps", "btf", "create", "fill", "freeze"}
Later == {"programs", "slots", "run", "report", "done"}
Running == {"run", "report", "done"}

(* What the program arrays hold when entry l of map k is next: all of the     *)
(* maps before, and the first l - 1 of this one.                              *)
FirstLinks(m, l) == {<<m.name, s - 1, m.programs[s]>> : s \in 1 .. l - 1}
LinksOfFirst(k) == UNION {LinksOf(Maps[n]) : n \in 1 .. k - 1}
LinksBefore(k, l) ==
  LinksOfFirst(k) \cup (IF k <= Len(Maps) THEN FirstLinks(Maps[k], l) ELSE {})

ObjectsNamed ==
  /\ IsSeq(objs)
  /\ \A o \in DOMAIN objs : "what" \in DOMAIN objs[o] /\ "name" \in DOMAIN objs[o]
  /\ \A l \in links : l[1] \in DOMAIN objs /\ l[3] \in DOMAIN objs

IsProg(n) ==
  /\ n \in DOMAIN progFds /\ progFds[n] \in DOMAIN fds
  /\ objs[fds[progFds[n]]].what = "prog" /\ objs[fds[progFds[n]]].name = n

Cursor ==
  /\ pc = "start" => DOMAIN mapFds = {}
  /\ pc \in Mapping => /\ i \in 1 .. Len(Maps) + 1
                       /\ DOMAIN mapFds = Before(Maps, i)
  /\ pc \in Mapping \ {"maps"} => i <= Len(Maps)
  /\ pc \in {"fill", "freeze"} =>
       /\ fd \in DOMAIN fds
       /\ objs[fds[fd]].what = "map" /\ objs[fds[fd]].name = M.name
  /\ pc \in Later => DOMAIN mapFds = NamesOf(Maps)

ProgramsCursor ==
  /\ pc \in {"start"} \cup Mapping => DOMAIN progFds = {}
  /\ pc = "programs" => i \in 1 .. Len(Programs) + 1 /\ DOMAIN progFds = Before(Programs, i)
  /\ pc \in {"slots"} \cup Running => DOMAIN progFds = NamesOf(Programs)
  /\ pc \in {"programs", "slots"} => \A n \in DOMAIN progFds : IsProg(n)
  /\ pc = "run" => /\ i \in 1 .. Len(Programs) + 1
                   /\ \A k \in i .. Len(Programs) : IsProg(Programs[k].name)

LinksCursor ==
  LET linked == {Names(l) : l \in links}
  IN /\ pc \in {"start", "programs"} \cup Mapping => links = {}
     /\ pc = "slots" => /\ i \in 1 .. Len(Maps) + 1 /\ j \in Nat \ {0}
                        /\ i <= Len(Maps) => j <= Len(M.programs) + 1
                        /\ linked = LinksBefore(i, j)
     /\ pc \in Running => linked = Plan.links

RunsCursor ==
  LET names == {ran[n][1] : n \in DOMAIN ran}
  IN /\ IsSeq(ran)
     /\ pc \in {"start", "programs", "slots"} \cup Mapping => ran = <<>>
     /\ pc = "run" => names = Before(Programs, i)

Inv == TypeOK /\ ObjectsNamed /\ Cursor /\ ProgramsCursor /\ LinksCursor /\ RunsCursor

-----------------------------------------------------------------------------
(* Sequences and functions. *)

LEMMA SeqFacts ==
  ASSUME NEW s, IsSeq(s)
  PROVE  /\ Len(s) \in Nat /\ DOMAIN s = 1 .. Len(s)
         /\ \A k \in 1 .. Len(s) : s[k] \in Elems(s)
  BY DEF IsSeq, Elems

LEMMA AppendIsSeq ==
  ASSUME NEW s, IsSeq(s), NEW e
  PROVE  /\ IsSeq(Append(s, e))
         /\ Len(Append(s, e)) = Len(s) + 1
         /\ DOMAIN Append(s, e) = 1 .. Len(s) + 1
         /\ \A k \in 1 .. Len(s) : Append(s, e)[k] = s[k]
         /\ Append(s, e)[Len(s) + 1] = e
<1> DEFINE S == Elems(s) \cup {e}
           t == Append(s, e)
<1>1. s \in Seq(S)
  BY SeqFacts DEF IsSeq, Elems
<1>2. t \in Seq(S) /\ Len(t) = Len(s) + 1 /\ Len(s) \in Nat
  BY <1>1
<1>3. /\ DOMAIN t = 1 .. Len(s) + 1
      /\ \A k \in 1 .. Len(s) : t[k] = s[k]
      /\ t[Len(s) + 1] = e
  BY <1>1, <1>2
<1>4. t \in Seq(Elems(t))
  <2>1. \A k \in 1 .. Len(t) : t[k] \in Elems(t)
    BY <1>2, <1>3 DEF Elems
  <2> HIDE DEF t
  <2> QED BY <1>2, <2>1
<1> QED BY <1>2, <1>3, <1>4 DEF IsSeq

LEMMA ExceptIsSeq ==
  ASSUME NEW s, IsSeq(s), NEW o \in DOMAIN s, NEW e
  PROVE  /\ IsSeq([s EXCEPT ![o] = e])
         /\ Len([s EXCEPT ![o] = e]) = Len(s)
         /\ DOMAIN [s EXCEPT ![o] = e] = DOMAIN s
<1> DEFINE S == Elems(s) \cup {e}
           t == [s EXCEPT ![o] = e]
<1>1. s \in Seq(S) /\ DOMAIN s = 1 .. Len(s) /\ Len(s) \in Nat
  BY SeqFacts DEF IsSeq, Elems
<1>2. t \in Seq(S) /\ Len(t) = Len(s) /\ DOMAIN t = DOMAIN s
  BY <1>1
<1>3. \A k \in 1 .. Len(t) : t[k] \in Elems(t)
  BY <1>1, <1>2 DEF Elems
<1>4. t \in Seq(Elems(t))
  <2> HIDE DEF t
  <2> QED BY <1>2, <1>3
<1> QED BY <1>2, <1>4 DEF IsSeq

(* One more name before the next element than before this one. *)
LEMMA BeforeNext ==
  ASSUME NEW s, IsSeq(s), NEW k \in 1 .. Len(s)
  PROVE  Before(s, k + 1) = Before(s, k) \cup {s[k].name}
<1>1. Len(s) \in Nat
  BY SeqFacts
<1>2. 1 .. (k + 1) - 1 = (1 .. k - 1) \cup {k}
  BY <1>1
<1> QED BY <1>2 DEF Before

LEMMA BeforeAll ==
  ASSUME NEW s, IsSeq(s)
  PROVE  Before(s, 1) = {} /\ Before(s, Len(s) + 1) = NamesOf(s)
<1>1. Len(s) \in Nat /\ DOMAIN s = 1 .. Len(s)
  BY SeqFacts
<1>2. 1 .. (Len(s) + 1) - 1 = DOMAIN s /\ 1 .. 1 - 1 = {}
  BY <1>1
<1> QED BY <1>2 DEF Before, NamesOf

(* Where names are distinct, an element's is not among the ones before it.    *)
LEMMA NotBefore ==
  ASSUME NEW s, IsSeq(s), DistinctNames(s), NEW k \in 1 .. Len(s)
  PROVE  s[k].name \notin Before(s, k) /\ s[k].name \in NamesOf(s)
<1>1. DOMAIN s = 1 .. Len(s) /\ Len(s) \in Nat
  BY SeqFacts
<1>2. \A n \in 1 .. k - 1 : n \in DOMAIN s /\ n # k
  BY <1>1
<1> QED BY <1>1, <1>2 DEF Before, NamesOf, DistinctNames

-----------------------------------------------------------------------------
(* The document. *)

LEMMA MapsFacts ==
  ASSUME job \in Jobs
  PROVE  /\ IsSeq(Maps) /\ DistinctNames(Maps)
         /\ \A k \in 1 .. Len(Maps) : IsSeq(Maps[k].programs)
<1>1. IsSeq(Maps) /\ DistinctNames(Maps)
  BY LoaderAssumption DEF IsSeq, Maps
<1> QED BY <1>1, SeqFacts, LoaderAssumption DEF IsSeq, Maps

LEMMA ProgramsFacts ==
  ASSUME job \in Jobs
  PROVE  /\ IsSeq(Programs) /\ DistinctNames(Programs)
         /\ NamesOf(Programs) \subseteq NamesOf(job.programs)
<1>1. IsSeq(job.programs) /\ DistinctNames(job.programs)
  BY LoaderAssumption DEF IsSeq
<1>2. CASE job.only = None
  BY <1>1, <1>2 DEF Programs
<1>3. CASE job.only # None /\ job.only \in NamesOf(job.programs)
  <2> DEFINE p == Named(job.programs, job.only)
  <2>1. PICK k \in DOMAIN job.programs : p = job.programs[k] /\ p.name = job.only
    BY <1>3 DEF NamesOf, Named
  <2>2. Programs = <<p>>
    BY <1>3 DEF Programs
  <2> HIDE DEF p
  <2>3. Elems(<<p>>) = {p} /\ <<p>> \in Seq({p}) /\ DOMAIN <<p>> = {1} /\ <<p>>[1] = p
    BY DEF Elems
  <2>4. NamesOf(<<p>>) = {p.name}
    BY <2>3 DEF NamesOf
  <2> QED BY <2>1, <2>2, <2>3, <2>4, <1>3 DEF IsSeq, DistinctNames
<1>4. CASE job.only # None /\ job.only \notin NamesOf(job.programs)
  <2>1. Programs = <<>> /\ Elems(<<>>) = {} /\ <<>> \in Seq({}) /\ DOMAIN <<>> = {}
    BY <1>4 DEF Programs, Elems
  <2> QED BY <2>1 DEF IsSeq, DistinctNames, NamesOf
<1> QED BY <1>2, <1>3, <1>4

(* The kernel's objects keep what they are and their names, and may be more.  *)
Grown(s, t) ==
  /\ IsSeq(t) /\ DOMAIN s \subseteq DOMAIN t
  /\ \A o \in DOMAIN t : "what" \in DOMAIN t[o] /\ "name" \in DOMAIN t[o]
  /\ \A o \in DOMAIN s : t[o].what = s[o].what /\ t[o].name = s[o].name

LEMMA GrownSame ==
  ASSUME ObjectsNamed PROVE Grown(objs, objs)
  BY DEF ObjectsNamed, Grown

(* What a call on a map changes of it is its contents, or that it is frozen.  *)
LEMMA FieldChanged ==
  ASSUME ObjectsNamed, NEW o \in DOMAIN objs, NEW c
  PROVE  /\ Grown(objs, [objs EXCEPT ![o].contents = c])
         /\ Grown(objs, [objs EXCEPT ![o].frozen = c])
<1>1. \A r : "what" \in DOMAIN r /\ "name" \in DOMAIN r =>
        /\ DOMAIN [r EXCEPT !.contents = c] = DOMAIN r
        /\ DOMAIN [r EXCEPT !.frozen = c] = DOMAIN r
        /\ [r EXCEPT !.contents = c].what = r.what /\ [r EXCEPT !.contents = c].name = r.name
        /\ [r EXCEPT !.frozen = c].what = r.what /\ [r EXCEPT !.frozen = c].name = r.name
  OBVIOUS
<1>2. \A e : "what" \in DOMAIN e /\ "name" \in DOMAIN e
             /\ e.what = objs[o].what /\ e.name = objs[o].name
             => Grown(objs, [objs EXCEPT ![o] = e])
  BY ExceptIsSeq DEF ObjectsNamed, Grown
<1> QED BY <1>1, <1>2 DEF ObjectsNamed

(* A new object has the descriptor that came back, a free one until then.     *)
LEMMA Created ==
  ASSUME ObjectsNamed, NEW d \in Fds, NEW o, "what" \in DOMAIN o, "name" \in DOMAIN o,
         NewObject(d, o)
  PROVE  /\ Grown(objs, objs') /\ d \notin DOMAIN fds
         /\ DOMAIN fds' = DOMAIN fds \cup {d}
         /\ \A e \in DOMAIN fds : fds'[e] = fds[e]
         /\ fds'[d] \in DOMAIN objs' /\ objs'[fds'[d]] = o
<1>1. /\ objs' = Append(objs, o) /\ fds' = Put(fds, d, Len(objs) + 1)
      /\ d \notin DOMAIN fds
  BY DEF NewObject, NextFree
<1>2. Grown(objs, objs')
  BY <1>1, AppendIsSeq, SeqFacts DEF ObjectsNamed, Grown
<1>3. Len(objs) + 1 \in DOMAIN objs' /\ objs'[Len(objs) + 1] = o
  BY <1>1, AppendIsSeq, SeqFacts DEF ObjectsNamed
<1>4. /\ DOMAIN fds' = DOMAIN fds \cup {d} /\ fds'[d] = Len(objs) + 1
      /\ \A e \in DOMAIN fds : fds'[e] = fds[e]
  BY <1>1 DEF Put
<1> QED BY <1>1, <1>2, <1>3, <1>4

(* A run changes only what maps hold. *)
LEMMA EffectGrows ==
  ASSUME TypeOK, ObjectsNamed, DOMAIN mapFds = NamesOf(Maps), Effect
  PROVE  Grown(objs, objs')
<1>1. CASE UNCHANGED objs
  BY <1>1, GrownSame
<1>2. ASSUME NEW k \in DOMAIN Maps, NEW c,
             objs' = [objs EXCEPT ![MapObject(Maps[k].name)].contents = c]
      PROVE  Grown(objs, objs')
  <2>1. MapObject(Maps[k].name) \in DOMAIN objs
    BY DEF TypeOK, IsMap, MapObject, NamesOf
  <2> QED BY <1>2, <2>1, FieldChanged
<1> QED BY <1>1, <1>2 DEF Effect

-----------------------------------------------------------------------------
(* Each of the tool's steps preserves the invariant. *)

LEMMA InvInit == Init => Inv
<1> SUFFICES ASSUME Init PROVE Inv
  OBVIOUS
<1> USE DEF Init, Empty
<1>1. TypeOK
  BY DEF TypeOK
<1>2. ObjectsNamed /\ IsSeq(ran)
  BY DEF ObjectsNamed, IsSeq, Elems
<1>3. Cursor /\ ProgramsCursor /\ LinksCursor /\ RunsCursor
  BY <1>2 DEF Cursor, ProgramsCursor, LinksCursor, RunsCursor, Mapping, Later, Running
<1> QED BY <1>1, <1>2, <1>3 DEF Inv

LEMMA SameDocument ==
  ASSUME job' = job
  PROVE  /\ Maps' = Maps /\ Programs' = Programs /\ Plan' = Plan
         /\ \A a, b : LinksBefore(a, b)' = LinksBefore(a, b)
  BY DEF Maps, Programs, Plan, LinksOf, LinksBefore, LinksOfFirst, FirstLinks

(* The links' names are those of objects that stay. *)
LEMMA SameLinks ==
  ASSUME ObjectsNamed, Grown(objs, objs'), links' = links
  PROVE  ObjectsNamed' /\ {Names(l) : l \in links}' = {Names(l) : l \in links}
<1>1. ObjectsNamed'
  BY DEF ObjectsNamed, Grown
<1>2. \A l \in links : Names(l)' = Names(l)
  BY DEF ObjectsNamed, Grown, Names
<1> QED BY <1>1, <1>2

LEMMA ExitInv ==
  ASSUME Inv, Exit, logs' \subseteq NamesOf(job.programs)
  PROVE  Inv'
<1> USE DEF Inv, Exit, kernelVars
<1>1. TypeOK'
  BY DEF TypeOK, IsMap, MapObject
<1>2. ObjectsNamed'
  BY DEF ObjectsNamed
<1>3. Cursor' /\ ProgramsCursor' /\ LinksCursor' /\ RunsCursor'
  BY DEF Cursor, ProgramsCursor, LinksCursor, RunsCursor, Mapping, Later, Running
<1> QED BY <1>1, <1>2, <1>3

LEMMA FailsInv ==
  ASSUME Inv, Fails PROVE Inv'
<1>1. logs' \subseteq NamesOf(job.programs)
  BY DEF Inv, TypeOK, Fails
<1> QED BY <1>1, ExitInv DEF Fails

(* Steps that change only where the tool is. *)
LEMMA MoveInv ==
  ASSUME Inv, UNCHANGED <<job, fd, mapFds, progFds, out, logs, kernelVars, ran>>,
         pc' # "exited", pc' \in {"maps", "btf", "create", "programs", "slots", "run", "report", "done"},
         i' \in Nat, j' \in Nat
  PROVE  /\ TypeOK' /\ ObjectsNamed'
         /\ Maps' = Maps /\ Programs' = Programs /\ Plan' = Plan
         /\ {Names(l) : l \in links}' = {Names(l) : l \in links}
         /\ \A n : IsProg(n)' <=> IsProg(n)
         /\ \A a, b : LinksBefore(a, b)' = LinksBefore(a, b)
<1> USE DEF Inv, kernelVars
<1>1. TypeOK'
  BY DEF TypeOK, IsMap, MapObject
<1>2. ObjectsNamed' /\ {Names(l) : l \in links}' = {Names(l) : l \in links}
  BY SameLinks, GrownSame
<1> QED BY <1>1, <1>2, SameDocument DEF IsProg

LEMMA BeginInv ==
  ASSUME Inv, Begin PROVE Inv'
<1>1. job \in Jobs
  BY DEF Inv, TypeOK
<1>2. /\ UNCHANGED <<job, j, fd, mapFds, progFds, out, logs, kernelVars, ran>>
      /\ pc = "start" /\ pc' = "maps" /\ i' = 1 /\ j' \in Nat
  BY DEF Begin, Inv, TypeOK
<1>3. /\ TypeOK' /\ ObjectsNamed' /\ Maps' = Maps /\ Programs' = Programs
  BY <1>2, MoveInv
<1>4. IsSeq(Maps) /\ Len(Maps) \in Nat /\ Before(Maps, 1) = {}
  BY <1>1, MapsFacts, SeqFacts, BeforeAll
<1>5. Cursor' /\ ProgramsCursor' /\ LinksCursor' /\ RunsCursor'
  BY <1>2, <1>3, <1>4
  DEF Inv, Cursor, ProgramsCursor, LinksCursor, RunsCursor, Mapping, Later, Running, kernelVars
<1> QED BY <1>3, <1>5 DEF Inv

LEMMA NextMapInv ==
  ASSUME Inv, NextMap PROVE Inv'
<1>1. job \in Jobs /\ i \in Nat
  BY DEF Inv, TypeOK
<1>2. /\ UNCHANGED <<job, j, fd, mapFds, progFds, out, logs, kernelVars, ran>>
      /\ pc = "maps" /\ j' \in Nat
      /\ \/ i <= Len(Maps) /\ pc' \in {"btf", "create"} /\ i' = i
         \/ ~(i <= Len(Maps)) /\ pc' = "programs" /\ i' = 1
  BY DEF NextMap, Inv, TypeOK
<1>3. /\ TypeOK' /\ ObjectsNamed' /\ Maps' = Maps /\ Programs' = Programs
  BY <1>1, <1>2, MoveInv
<1>4. /\ Len(Maps) \in Nat /\ Before(Maps, Len(Maps) + 1) = NamesOf(Maps)
      /\ Len(Programs) \in Nat /\ Before(Programs, 1) = {}
  BY <1>1, MapsFacts, ProgramsFacts, SeqFacts, BeforeAll
<1>5. i \in 1 .. Len(Maps) + 1 /\ DOMAIN mapFds = Before(Maps, i) /\ DOMAIN progFds = {}
      /\ links = {} /\ ran = <<>> /\ IsSeq(ran)
  BY <1>2 DEF Inv, Cursor, ProgramsCursor, LinksCursor, RunsCursor, Mapping
<1>6. CASE i <= Len(Maps) /\ pc' \in {"btf", "create"} /\ i' = i
  <2>1. Cursor'
    BY <1>2, <1>3, <1>5, <1>6 DEF Cursor, Mapping, Later
  <2>2. ProgramsCursor' /\ LinksCursor' /\ RunsCursor'
    BY <1>2, <1>3, <1>5, <1>6
    DEF ProgramsCursor, LinksCursor, RunsCursor, Mapping, Running, kernelVars
  <2> QED BY <1>3, <2>1, <2>2 DEF Inv
<1>7. CASE ~(i <= Len(Maps)) /\ pc' = "programs" /\ i' = 1
  <2>0. i = Len(Maps) + 1
    BY <1>1, <1>4, <1>5, <1>7
  <2>1. Cursor'
    BY <1>2, <1>3, <1>4, <1>5, <1>7, <2>0 DEF Cursor, Mapping, Later
  <2>2. ProgramsCursor' /\ LinksCursor' /\ RunsCursor'
    BY <1>2, <1>3, <1>4, <1>5, <1>7
    DEF ProgramsCursor, LinksCursor, RunsCursor, Mapping, Running, kernelVars
  <2> QED BY <1>3, <2>1, <2>2 DEF Inv
<1> QED BY <1>2, <1>6, <1>7

(* What is named by a descriptor stays so when more objects are made and      *)
(* descriptors only come.                                                     *)
LEMMA GrownKeeps ==
  ASSUME Inv, ObjectsNamed, Grown(objs, objs'), mapFds' = mapFds, progFds' = progFds,
         DOMAIN fds \subseteq DOMAIN fds', \A d \in DOMAIN fds : fds'[d] = fds[d]
  PROVE  /\ \A n : IsMap(n) => IsMap(n)'
         /\ \A n : IsProg(n) => IsProg(n)'
<1>1. \A d \in DOMAIN fds : /\ d \in DOMAIN fds' /\ fds'[d] \in DOMAIN objs'
                            /\ objs'[fds'[d]].what = objs[fds[d]].what
                            /\ objs'[fds'[d]].name = objs[fds[d]].name
  BY DEF Inv, TypeOK, Grown
<1> QED BY <1>1 DEF IsMap, MapObject, IsProg

(* In the middle of a map: the cursors of programs, links and runs.           *)
LEMMA MappingKeeps ==
  ASSUME Inv, pc \in Mapping, pc' \in Mapping, UNCHANGED <<job, progFds, links, ran>>
  PROVE  ProgramsCursor' /\ LinksCursor' /\ RunsCursor'
  BY DEF Inv, ProgramsCursor, LinksCursor, RunsCursor, Mapping, Running

LEMMA LoadBtfInv ==
  ASSUME Inv, LoadBtf PROVE Inv'
<1>1. CASE Fails
  BY <1>1, FailsInv
<1>2. ASSUME NEW d \in Fds, NewObject(d, [what |-> "btf", name |-> M.name]), fd' = d,
             pc = "btf", pc' = "create",
             UNCHANGED <<job, i, j, mapFds, progFds, kfuncIds, out, logs, links, ran>>
      PROVE  Inv'
  <2> DEFINE o == [what |-> "btf", name |-> M.name]
  <2>0. "what" \in DOMAIN o /\ "name" \in DOMAIN o /\ ObjectsNamed
    BY DEF Inv
  <2> HIDE DEF o
  <2>1. /\ Grown(objs, objs') /\ DOMAIN fds' = DOMAIN fds \cup {d}
        /\ \A e \in DOMAIN fds : fds'[e] = fds[e]
        /\ fds'[d] \in DOMAIN objs'
    BY <1>2, <2>0, Created DEF o
  <2>2. ObjectsNamed'
    BY <1>2, <2>0, <2>1, SameLinks
  <2>3. \A n : IsMap(n) => IsMap(n)'
    BY <1>2, <2>0, <2>1, GrownKeeps
  <2>4. TypeOK'
    BY <1>2, <2>1, <2>3 DEF Inv, TypeOK, Grown
  <2>5. Cursor'
    BY <1>2, SameDocument DEF Inv, Cursor, Mapping, Later
  <2>6. ProgramsCursor' /\ LinksCursor' /\ RunsCursor'
    BY <1>2, MappingKeeps DEF Mapping
  <2> QED BY <2>2, <2>4, <2>5, <2>6 DEF Inv
<1> QED BY <1>1, <1>2 DEF LoadBtf

LEMMA CreateMapInv ==
  ASSUME Inv, CreateMap PROVE Inv'
<1>1. CASE Fails
  BY <1>1, FailsInv
<1>2. ASSUME NEW d \in Fds,
             NewObject(d, [what |-> "map", name |-> M.name, contents |-> FirstContents(M),
                           frozen |-> FALSE, btf |-> IF M.lock # None THEN fds[fd] ELSE None]),
             fd' = d, j' = 0, pc = "create", pc' = AfterEntries(0),
             UNCHANGED <<job, i, mapFds, progFds, kfuncIds, out, logs, links, ran>>
      PROVE  Inv'
  <2> DEFINE o == [what |-> "map", name |-> M.name, contents |-> FirstContents(M),
                   frozen |-> FALSE, btf |-> IF M.lock # None THEN fds[fd] ELSE None]
  <2>0. "what" \in DOMAIN o /\ "name" \in DOMAIN o /\ ObjectsNamed
        /\ o.what = "map" /\ o.name = M.name /\ pc' \in {"fill", "freeze"}
    BY <1>2 DEF Inv, AfterEntries
  <2> HIDE DEF o
  <2>1. /\ Grown(objs, objs') /\ DOMAIN fds' = DOMAIN fds \cup {d}
        /\ \A e \in DOMAIN fds : fds'[e] = fds[e]
        /\ fds'[d] \in DOMAIN objs' /\ objs'[fds'[d]] = o
    BY <1>2, <2>0, Created DEF o
  <2>2. ObjectsNamed'
    BY <1>2, <2>0, <2>1, SameLinks
  <2>3. \A n : IsMap(n) => IsMap(n)'
    BY <1>2, <2>0, <2>1, GrownKeeps
  <2>4. TypeOK'
    BY <1>2, <2>0, <2>1, <2>3 DEF Inv, TypeOK, Grown
  <2>5. M' = M /\ Maps' = Maps
    BY <1>2, SameDocument DEF M
  <2>6. Cursor'
    BY <1>2, <2>0, <2>1, <2>5 DEF Inv, Cursor, Mapping, Later
  <2>7. ProgramsCursor' /\ LinksCursor' /\ RunsCursor'
    BY <1>2, <2>0, MappingKeeps DEF Mapping
  <2> QED BY <2>2, <2>4, <2>6, <2>7 DEF Inv
<1> QED BY <1>1, <1>2 DEF CreateMap

(* What the descriptor of the map in the making names. *)
LEMMA Making ==
  ASSUME Inv, pc \in {"fill", "freeze"}
  PROVE  /\ fd \in DOMAIN fds /\ fds[fd] \in DOMAIN objs
         /\ objs[fds[fd]].what = "map" /\ objs[fds[fd]].name = M.name
         /\ i \in 1 .. Len(Maps) /\ IsSeq(Maps) /\ DistinctNames(Maps)
         /\ DOMAIN mapFds = Before(Maps, i)
<1>1. job \in Jobs
  BY DEF Inv, TypeOK
<1>2. IsSeq(Maps) /\ DistinctNames(Maps) /\ Len(Maps) \in Nat
  BY <1>1, MapsFacts, SeqFacts
<1> QED BY <1>2 DEF Inv, TypeOK, Cursor, Mapping

LEMMA FillEntryInv ==
  ASSUME Inv, FillEntry PROVE Inv'
<1>1. CASE Fails
  BY <1>1, FailsInv
<1>2. CASE /\ pc = "fill" /\ objs' = [objs EXCEPT ![fds[fd]].contents[j] = Entry(M, j)]
           /\ j' = j + 1 /\ pc' = AfterEntries(j + 1)
           /\ UNCHANGED <<job, i, fd, mapFds, progFds, kfuncIds, out, logs, fds, links, ran>>
  <2> DEFINE o == fds[fd]
             c == [objs[o].contents EXCEPT ![j] = Entry(M, j)]
  <2>0. ObjectsNamed /\ o \in DOMAIN objs /\ pc' \in {"fill", "freeze"} /\ j + 1 \in Nat
    BY <1>2, Making DEF Inv, TypeOK, AfterEntries
  <2>1. objs' = [objs EXCEPT ![o].contents = c]
    BY <1>2
  <2> HIDE DEF o, c
  <2>2. Grown(objs, objs')
    BY <2>0, <2>1, FieldChanged
  <2>3. ObjectsNamed' /\ \A n : IsMap(n) => IsMap(n)'
    BY <1>2, <2>0, <2>2, SameLinks, GrownKeeps, SMTT(60)
  <2>4. TypeOK'
    BY <1>2, <2>0, <2>2, <2>3 DEF Inv, TypeOK, Grown
  <2>5. M' = M /\ Maps' = Maps
    BY <1>2, SameDocument DEF M
  <2>6. Cursor'
    BY <1>2, <2>0, <2>2, <2>5, Making DEF Inv, Cursor, Mapping, Later, Grown
  <2>7. ProgramsCursor' /\ LinksCursor' /\ RunsCursor'
    BY <1>2, <2>0, MappingKeeps DEF Mapping
  <2> QED BY <2>3, <2>4, <2>6, <2>7 DEF Inv
<1> QED BY <1>1, <1>2 DEF FillEntry

LEMMA FreezeMapInv ==
  ASSUME Inv, FreezeMap PROVE Inv'
<1>1. CASE Fails
  BY <1>1, FailsInv
<1>2. CASE /\ pc = "freeze" /\ pc' = "maps" /\ i' = i + 1
           /\ objs' = IF IsFinal(M) THEN [objs EXCEPT ![fds[fd]].frozen = TRUE] ELSE objs
           /\ mapFds' = Put(mapFds, M.name, fd)
           /\ UNCHANGED <<job, j, fd, progFds, kfuncIds, out, logs, fds, links, ran>>
  <2>1. /\ fd \in DOMAIN fds /\ fds[fd] \in DOMAIN objs /\ ObjectsNamed
        /\ objs[fds[fd]].what = "map" /\ objs[fds[fd]].name = M.name
        /\ i \in 1 .. Len(Maps) /\ Len(Maps) \in Nat /\ IsSeq(Maps)
        /\ DOMAIN mapFds = Before(Maps, i)
    BY <1>2, Making, SeqFacts DEF Inv
  <2>2. Grown(objs, objs')
    BY <1>2, <2>1, FieldChanged, GrownSame
  <2>3. ObjectsNamed'
    BY <1>2, <2>1, <2>2, SameLinks
  <2>4. /\ DOMAIN mapFds' = DOMAIN mapFds \cup {M.name} /\ mapFds'[M.name] = fd
        /\ \A n \in DOMAIN mapFds : n # M.name => mapFds'[n] = mapFds[n]
    BY <1>2 DEF Put
  <2>5. \A d \in DOMAIN fds : /\ fds[d] \in DOMAIN objs
                              /\ objs'[fds[d]].what = objs[fds[d]].what
                              /\ objs'[fds[d]].name = objs[fds[d]].name
    BY <2>2 DEF Inv, TypeOK, Grown
  <2>6. \A n \in DOMAIN mapFds' : IsMap(n)'
    <3> SUFFICES ASSUME NEW n \in DOMAIN mapFds' PROVE IsMap(n)'
      BY SMTT(60)
    <3>1. CASE n = M.name
      BY <1>2, <2>1, <2>4, <2>5, <3>1, SMTT(60) DEF IsMap, MapObject
    <3>2. CASE n # M.name
      BY <1>2, <2>4, <2>5, <3>2 DEF Inv, TypeOK, IsMap, MapObject
    <3> QED BY <3>1, <3>2
  <2>7. TypeOK'
    BY <1>2, <2>1, <2>2, <2>6 DEF Inv, TypeOK, Grown
  <2>8. Maps' = Maps /\ DOMAIN mapFds' = Before(Maps, i + 1)
    BY <1>2, <2>1, <2>4, BeforeNext, SameDocument DEF M
  <2>9. Cursor'
    BY <1>2, <2>1, <2>8 DEF Cursor, Mapping, Later
  <2>10. ProgramsCursor' /\ LinksCursor' /\ RunsCursor'
    BY <1>2, MappingKeeps DEF Mapping
  <2> QED BY <2>3, <2>7, <2>9, <2>10 DEF Inv
<1> QED BY <1>1, <1>2 DEF FreezeMap

LEMMA LoadProgramInv ==
  ASSUME Inv, LoadProgram PROVE Inv'
<1>0. /\ pc = "programs" /\ i \in 1 .. Len(Programs) /\ Len(Programs) \in Nat
      /\ IsSeq(Programs) /\ DistinctNames(Programs) /\ DOMAIN progFds = Before(Programs, i)
      /\ P.name \notin DOMAIN progFds /\ P.name \in NamesOf(job.programs)
      /\ logs' = logs \cup {P.name}
  <2>1. IsSeq(Programs) /\ DistinctNames(Programs) /\ Len(Programs) \in Nat
        /\ NamesOf(Programs) \subseteq NamesOf(job.programs)
    BY ProgramsFacts, SeqFacts DEF Inv, TypeOK
  <2>2. /\ pc = "programs" /\ i \in 1 .. Len(Programs) /\ DOMAIN progFds = Before(Programs, i)
        /\ logs' = logs \cup {P.name}
    BY <2>1 DEF LoadProgram, Inv, ProgramsCursor
  <2> QED BY <2>1, <2>2, NotBefore DEF P
<1>1. CASE Exit
  BY <1>0, <1>1, ExitInv DEF Inv, TypeOK
<1>2. ASSUME NEW d \in Fds, NEW refs,
             NewObject(d, [what |-> "prog", name |-> P.name, refs |-> refs]),
             progFds' = Put(progFds, P.name, d), i' = i + 1,
             UNCHANGED <<job, pc, j, fd, mapFds, kfuncIds, out, links, ran>>
      PROVE  Inv'
  <2> DEFINE o == [what |-> "prog", name |-> P.name, refs |-> refs]
  <2>0. "what" \in DOMAIN o /\ "name" \in DOMAIN o /\ ObjectsNamed
        /\ o.what = "prog" /\ o.name = P.name
    BY DEF Inv
  <2> HIDE DEF o
  <2>1. /\ Grown(objs, objs') /\ DOMAIN fds' = DOMAIN fds \cup {d}
        /\ \A e \in DOMAIN fds : fds'[e] = fds[e]
        /\ fds'[d] \in DOMAIN objs' /\ objs'[fds'[d]] = o
    BY <1>2, <2>0, Created DEF o
  <2>2. ObjectsNamed'
    BY <1>2, <2>0, <2>1, SameLinks
  <2>3. \A e \in DOMAIN fds : /\ e \in DOMAIN fds' /\ fds'[e] \in DOMAIN objs'
                              /\ objs'[fds'[e]].what = objs[fds[e]].what
                              /\ objs'[fds'[e]].name = objs[fds[e]].name
    BY <2>1 DEF Inv, TypeOK, Grown
  <2>4. TypeOK'
    <3>1. \A n \in DOMAIN mapFds' : IsMap(n)'
      BY <1>2, <2>3 DEF Inv, TypeOK, IsMap, MapObject
    <3> QED BY <1>0, <1>2, <2>1, <3>1 DEF Inv, TypeOK, Grown
  <2>5. /\ DOMAIN progFds' = DOMAIN progFds \cup {P.name} /\ progFds'[P.name] = d
        /\ \A n \in DOMAIN progFds : progFds'[n] = progFds[n]
    BY <1>0, <1>2 DEF Put
  <2>6. \A n \in DOMAIN progFds' : IsProg(n)'
    <3>1. \A n \in DOMAIN progFds : IsProg(n)
      BY <1>0 DEF Inv, ProgramsCursor
    <3> QED BY <2>0, <2>1, <2>3, <2>5, <3>1 DEF IsProg
  <2>7. Maps' = Maps /\ Programs' = Programs /\ DOMAIN progFds' = Before(Programs, i + 1)
    BY <1>0, <1>2, <2>5, BeforeNext, SameDocument DEF P
  <2>8. ProgramsCursor'
    BY <1>0, <1>2, <2>6, <2>7 DEF ProgramsCursor, Mapping, Running
  <2>9. Cursor' /\ LinksCursor' /\ RunsCursor'
    BY <1>0, <1>2, <2>7 DEF Inv, Cursor, LinksCursor, RunsCursor, Mapping, Later, Running
  <2> QED BY <2>2, <2>4, <2>8, <2>9 DEF Inv
<1> QED BY <1>1, <1>2 DEF LoadProgram

LEMMA ProgramsDoneInv ==
  ASSUME Inv, ProgramsDone PROVE Inv'
<1>1. /\ UNCHANGED <<job, fd, mapFds, progFds, out, logs, kernelVars, ran>>
      /\ pc = "programs" /\ pc' = "slots" /\ i' = 1 /\ j' = 1 /\ i > Len(Programs)
  BY DEF ProgramsDone, AllLoaded
<1>2. /\ TypeOK' /\ ObjectsNamed' /\ Maps' = Maps /\ Programs' = Programs
      /\ {Names(l) : l \in links}' = {Names(l) : l \in links}
      /\ \A n : IsProg(n)' <=> IsProg(n)
      /\ LinksBefore(1, 1)' = LinksBefore(1, 1)
  BY <1>1, MoveInv
<1>3. /\ IsSeq(Programs) /\ Len(Programs) \in Nat /\ IsSeq(Maps) /\ Len(Maps) \in Nat
      /\ Before(Programs, Len(Programs) + 1) = NamesOf(Programs)
      /\ \A k \in 1 .. Len(Maps) : IsSeq(Maps[k].programs)
  BY MapsFacts, ProgramsFacts, SeqFacts, BeforeAll DEF Inv, TypeOK
<1>4. DOMAIN progFds = NamesOf(Programs)
  BY <1>1, <1>3 DEF Inv, ProgramsCursor
<1>5. LinksBefore(1, 1) = {}
  BY DEF LinksBefore, LinksOfFirst, FirstLinks
<1>6. links = {} /\ ran = <<>> /\ IsSeq(ran) /\ DOMAIN mapFds = NamesOf(Maps)
      /\ \A n \in DOMAIN progFds : IsProg(n)
  BY <1>1 DEF Inv, LinksCursor, RunsCursor, Cursor, Later, ProgramsCursor
<1>7. Cursor' /\ ProgramsCursor' /\ RunsCursor'
  BY <1>1, <1>2, <1>4, <1>6
  DEF Cursor, ProgramsCursor, RunsCursor, Mapping, Later, Running, kernelVars
<1>8. LinksCursor'
  <2>1. i' \in 1 .. Len(Maps') + 1 /\ j' \in Nat \ {0}
    BY <1>1, <1>2, <1>3
  <2>2. i' <= Len(Maps') => j' <= Len(M'.programs) + 1
    <3>1. i' <= Len(Maps') => Len(Maps[1].programs) \in Nat
      BY <1>1, <1>2, <1>3, SeqFacts
    <3> QED BY <1>1, <1>2, <3>1 DEF M
  <2>3. {Names(l) : l \in links}' = LinksBefore(i, j)'
    <3>1. {Names(l) : l \in links}' = {}
      BY <1>2, <1>6
    <3>2. LinksBefore(i, j)' = {}
      BY <1>1 DEF LinksBefore, LinksOfFirst, FirstLinks
    <3> QED BY <3>1, <3>2
  <2> QED BY <1>1, <2>1, <2>2, <2>3 DEF LinksCursor, Mapping, Running
<1> QED BY <1>2, <1>7, <1>8 DEF Inv

LEMMA RunsDoneInv ==
  ASSUME Inv, RunsDone PROVE Inv'
<1>1. /\ UNCHANGED <<job, j, fd, mapFds, progFds, out, logs, kernelVars, ran>>
      /\ pc = "run" /\ pc' = "report" /\ i' = 1 /\ j' \in Nat
  BY DEF RunsDone, Inv, TypeOK
<1>2. /\ TypeOK' /\ ObjectsNamed' /\ Maps' = Maps /\ Programs' = Programs /\ Plan' = Plan
      /\ {Names(l) : l \in links}' = {Names(l) : l \in links}
  BY <1>1, MoveInv
<1>3. Cursor' /\ ProgramsCursor' /\ LinksCursor' /\ RunsCursor'
  BY <1>1, <1>2
  DEF Inv, Cursor, ProgramsCursor, LinksCursor, RunsCursor, Mapping, Later, Running, kernelVars
<1> QED BY <1>2, <1>3 DEF Inv

LEMMA FinishInv ==
  ASSUME Inv, Finish PROVE Inv'
<1>1. /\ UNCHANGED <<job, i, j, fd, mapFds, progFds, out, logs, kernelVars, ran>>
      /\ pc = "report" /\ pc' = "done" /\ i' \in Nat /\ j' \in Nat
  BY DEF Finish, Inv, TypeOK
<1>2. /\ TypeOK' /\ ObjectsNamed' /\ Maps' = Maps /\ Programs' = Programs /\ Plan' = Plan
      /\ {Names(l) : l \in links}' = {Names(l) : l \in links}
  BY <1>1, MoveInv
<1>3. Cursor' /\ ProgramsCursor' /\ LinksCursor' /\ RunsCursor'
  BY <1>1, <1>2
  DEF Inv, Cursor, ProgramsCursor, LinksCursor, RunsCursor, Mapping, Later, Running, kernelVars
<1> QED BY <1>2, <1>3 DEF Inv

(* A ring's records are consumed by reading them: no more than that changes.  *)
LEMMA ReportGrows ==
  ASSUME Inv, ReportOne, ~Fails PROVE Grown(objs, objs')
<1> DEFINE o == MapObject(M.name)
           c == [objs[o].contents EXCEPT !.cons = objs[o].contents.prod]
<1>1. ObjectsNamed /\ IsSeq(objs)
  BY DEF Inv, ObjectsNamed
<1>2. objs' = IF M.kind = "ringbuf" THEN [objs EXCEPT ![o].contents = c] ELSE objs
  BY DEF ReportOne
<1> HIDE DEF o, c
<1>3. CASE o \in DOMAIN objs
  BY <1>1, <1>2, <1>3, FieldChanged, GrownSame
<1>4. CASE o \notin DOMAIN objs
  <2>1. objs' = objs
    BY <1>1, <1>2, <1>4 DEF IsSeq
  <2> QED BY <1>1, <2>1, GrownSame
<1> QED BY <1>3, <1>4

LEMMA ReportOneInv ==
  ASSUME Inv, ReportOne PROVE Inv'
<1>1. CASE Fails
  BY <1>1, FailsInv
<1>2. CASE ~Fails
  <2>1. /\ i' = i + 1 /\ pc = "report" /\ ObjectsNamed
        /\ UNCHANGED <<job, pc, j, fd, mapFds, progFds, kfuncIds, logs, fds, links, ran>>
    BY <1>2 DEF ReportOne, Inv
  <2>2. Grown(objs, objs')
    BY <1>2, ReportGrows
  <2>3. /\ ObjectsNamed' /\ {Names(l) : l \in links}' = {Names(l) : l \in links}
        /\ \A n : IsMap(n) => IsMap(n)'
    BY <2>1, <2>2, SameLinks, GrownKeeps
  <2>4. TypeOK'
    BY <2>1, <2>2, <2>3 DEF Inv, TypeOK, Grown
  <2>5. Maps' = Maps /\ Programs' = Programs /\ Plan' = Plan
    BY <2>1, SameDocument
  <2>6. Cursor' /\ ProgramsCursor' /\ LinksCursor' /\ RunsCursor'
    BY <2>1, <2>3, <2>5
    DEF Inv, Cursor, ProgramsCursor, LinksCursor, RunsCursor, Mapping, Later, Running
  <2> QED BY <2>3, <2>4, <2>6 DEF Inv
<1> QED BY <1>1, <1>2

LEMMA LinksNext ==
  ASSUME job \in Jobs, NEW a \in 1 .. Len(Maps), NEW b \in 1 .. Len(Maps[a].programs)
  PROVE  LET new == <<Maps[a].name, b - 1, Maps[a].programs[b]>>
         IN /\ LinksBefore(a, b + 1) = LinksBefore(a, b) \cup {new}
            /\ new \in Plan.links
            /\ \A e \in LinksBefore(a, b) : e[1] = Maps[a].name => e[2] # b - 1
<1> DEFINE new == <<Maps[a].name, b - 1, Maps[a].programs[b]>>
<1>1. /\ IsSeq(Maps) /\ DistinctNames(Maps) /\ Len(Maps) \in Nat /\ DOMAIN Maps = 1 .. Len(Maps)
      /\ Len(Maps[a].programs) \in Nat
      /\ DOMAIN Maps[a].programs = 1 .. Len(Maps[a].programs)
  BY MapsFacts, SeqFacts
<1>2. /\ LinksBefore(a, b + 1) = LinksOfFirst(a) \cup FirstLinks(Maps[a], b + 1)
      /\ LinksBefore(a, b) = LinksOfFirst(a) \cup FirstLinks(Maps[a], b)
  BY <1>1 DEF LinksBefore
<1>3. FirstLinks(Maps[a], b + 1) = FirstLinks(Maps[a], b) \cup {new}
  <2>1. 1 .. (b + 1) - 1 = (1 .. b - 1) \cup {b}
    BY <1>1
  <2> QED BY <2>1 DEF FirstLinks
<1>4. new \in Plan.links
  <2>1. new \in LinksOf(Maps[a])
    BY <1>1 DEF LinksOf
  <2>2. a \in DOMAIN Maps /\ Plan.links = UNION {LinksOf(Maps[k]) : k \in DOMAIN Maps}
    BY <1>1 DEF Plan
  <2> HIDE DEF new
  <2> QED BY <2>1, <2>2
<1>5. ASSUME NEW e \in LinksBefore(a, b), e[1] = Maps[a].name
      PROVE  e[2] # b - 1
  <2>1. ASSUME NEW n \in 1 .. a - 1, e \in LinksOf(Maps[n])
        PROVE  FALSE
    <3>1. e[1] = Maps[n].name
      BY <2>1 DEF LinksOf
    <3>2. n \in DOMAIN Maps /\ a \in DOMAIN Maps /\ n # a
      BY <1>1
    <3> QED BY <1>1, <1>5, <3>1, <3>2 DEF DistinctNames
  <2>2. e \in FirstLinks(Maps[a], b)
    BY <1>2, <1>5, <2>1 DEF LinksOfFirst
  <2>3. PICK s \in 1 .. b - 1 : e[2] = s - 1
    BY <2>2 DEF FirstLinks
  <2> QED BY <1>1, <2>3
<1> QED BY <1>2, <1>3, <1>4, <1>5

LEMMA LinksOfArrays ==
  ASSUME job \in Jobs
  PROVE  /\ \A a \in 1 .. Len(Maps) :
              LinksBefore(a, Len(Maps[a].programs) + 1) = LinksBefore(a + 1, 1)
         /\ \A b : LinksBefore(Len(Maps) + 1, b) = Plan.links
<1>1. /\ Len(Maps) \in Nat /\ DOMAIN Maps = 1 .. Len(Maps)
      /\ \A k \in 1 .. Len(Maps) :
           /\ Len(Maps[k].programs) \in Nat
           /\ DOMAIN Maps[k].programs = 1 .. Len(Maps[k].programs)
  BY MapsFacts, SeqFacts
<1>2. ASSUME NEW a \in 1 .. Len(Maps)
      PROVE  LinksBefore(a, Len(Maps[a].programs) + 1) = LinksBefore(a + 1, 1)
  <2>1. FirstLinks(Maps[a], Len(Maps[a].programs) + 1) = LinksOf(Maps[a])
    <3>1. 1 .. (Len(Maps[a].programs) + 1) - 1 = DOMAIN Maps[a].programs
      BY <1>1
    <3> QED BY <3>1 DEF FirstLinks, LinksOf
  <2>2. LinksOfFirst(a + 1) = LinksOfFirst(a) \cup LinksOf(Maps[a])
    <3>1. 1 .. (a + 1) - 1 = (1 .. a - 1) \cup {a}
      BY <1>1
    <3> QED BY <3>1 DEF LinksOfFirst
  <2>3. FirstLinks(Maps[a + 1], 1) = {}
    BY DEF FirstLinks
  <2>4. LinksBefore(a + 1, 1) = LinksOfFirst(a + 1)
    BY <2>3 DEF LinksBefore
  <2>5. LinksBefore(a, Len(Maps[a].programs) + 1) = LinksOfFirst(a) \cup LinksOf(Maps[a])
    <3>1. a <= Len(Maps)
      BY <1>1
    <3> QED BY <2>1, <3>1 DEF LinksBefore
  <2> QED BY <2>2, <2>4, <2>5
<1>3. ASSUME NEW b PROVE LinksBefore(Len(Maps) + 1, b) = Plan.links
  <2>1. 1 .. (Len(Maps) + 1) - 1 = DOMAIN Maps /\ ~(Len(Maps) + 1 <= Len(Maps))
    BY <1>1
  <2>2. Plan.links = UNION {LinksOf(Maps[k]) : k \in DOMAIN Maps}
    BY DEF Plan
  <2> QED BY <2>1, <2>2 DEF LinksBefore, LinksOfFirst
<1> QED BY <1>2, <1>3

(* What linking a slot adds: no entry of the array's had the index.           *)
LEMMA Linked ==
  ASSUME Inv, LinkSlot, ~Fails
  PROVE  LET new == <<M.name, j - 1, M.programs[j]>>
         IN /\ i \in 1 .. Len(Maps) /\ j \in 1 .. Len(M.programs) /\ IsSeq(M.programs)
            /\ {Names(l) : l \in links} = LinksBefore(i, j)
            /\ {Names(l) : l \in links}' = {Names(l) : l \in links} \cup {new}
            /\ ObjectsNamed'
            /\ new \notin {Names(l) : l \in links}
<1> DEFINE o == MapObject(M.name)
           p == fds[progFds[M.programs[j]]]
<1>1. /\ pc = "slots" /\ i <= Len(Maps) /\ j <= Len(M.programs)
      /\ M.programs[j] \in DOMAIN progFds
      /\ links' = {l \in links : <<l[1], l[2]>> # <<o, j - 1>>} \cup {<<o, j - 1, p>>}
      /\ UNCHANGED <<job, pc, i, fd, mapFds, progFds, kfuncIds, out, logs, fds, objs, ran>>
  BY DEF LinkSlot
<1>2. /\ job \in Jobs /\ IsSeq(Maps) /\ Len(Maps) \in Nat /\ i \in 1 .. Len(Maps) + 1
      /\ j \in Nat \ {0} /\ {Names(l) : l \in links} = LinksBefore(i, j)
      /\ DOMAIN mapFds = NamesOf(Maps) /\ ObjectsNamed
  BY <1>1, MapsFacts, SeqFacts DEF Inv, TypeOK, LinksCursor, Cursor, Later
<1>3. i \in 1 .. Len(Maps) /\ IsSeq(M.programs) /\ Len(M.programs) \in Nat
      /\ j \in 1 .. Len(M.programs)
  <2>1. i \in 1 .. Len(Maps)
    BY <1>1, <1>2
  <2>2. IsSeq(M.programs) /\ Len(M.programs) \in Nat
    BY <1>2, <2>1, MapsFacts, SeqFacts DEF M
  <2> QED BY <1>1, <1>2, <2>1, <2>2
<1>4. o \in DOMAIN objs /\ objs[o].name = M.name
  BY <1>2, <1>3, SeqFacts, ZenonT(60) DEF Inv, TypeOK, IsMap, MapObject, NamesOf, M
<1>5. p \in DOMAIN objs /\ objs[p].name = M.programs[j]
  BY <1>1 DEF Inv, TypeOK, ProgramsCursor, IsProg
<1> HIDE DEF o, p
<1>6. \A e \in LinksBefore(i, j) : e[1] = M.name => e[2] # j - 1
  BY <1>2, <1>3, LinksNext DEF M
<1>7. \A l \in links : l[1] = o => l[2] # j - 1
  <2> SUFFICES ASSUME NEW l \in links, l[1] = o PROVE l[2] # j - 1
    OBVIOUS
  <2>1. Names(l) \in LinksBefore(i, j)
    BY <1>2
  <2>2. Names(l)[1] = M.name /\ Names(l)[2] = l[2]
    BY <1>4 DEF Names
  <2> QED BY <1>6, <2>1, <2>2
<1>8. links' = links \cup {<<o, j - 1, p>>}
  BY <1>1, <1>7
<1>9. \A l : Names(l)' = Names(l)
  BY <1>1 DEF Names
<1>10. Names(<<o, j - 1, p>>) = <<M.name, j - 1, M.programs[j]>>
  BY <1>4, <1>5 DEF Names
<1>11. {Names(l) : l \in links}' = {Names(l) : l \in links} \cup {<<M.name, j - 1, M.programs[j]>>}
  BY <1>8, <1>9, <1>10
<1>12. ObjectsNamed'
  BY <1>1, <1>2, <1>4, <1>5, <1>8 DEF ObjectsNamed
<1> QED BY <1>2, <1>3, <1>6, <1>11, <1>12

LEMMA LinkSlotInv ==
  ASSUME Inv, LinkSlot PROVE Inv'
<1>1. CASE Fails
  BY <1>1, FailsInv
<1>2. CASE ~Fails
  <2>1. /\ pc = "slots" /\ j' = j + 1
        /\ UNCHANGED <<job, pc, i, fd, mapFds, progFds, kfuncIds, out, logs, fds, objs, ran>>
    BY <1>2 DEF LinkSlot
  <2>2. /\ i \in 1 .. Len(Maps) /\ j \in 1 .. Len(M.programs) /\ Len(M.programs) \in Nat
        /\ {Names(l) : l \in links}' = LinksBefore(i, j + 1)
        /\ ObjectsNamed'
    <3>1. job \in Jobs
      BY DEF Inv, TypeOK
    <3> QED BY <1>2, <3>1, Linked, LinksNext, SeqFacts DEF M
  <2>3. Maps' = Maps /\ Programs' = Programs /\ M' = M /\ LinksBefore(i, j)' = LinksBefore(i, j + 1)
    BY <2>1, SameDocument DEF M, LinksBefore, LinksOf, LinksOfFirst, FirstLinks
  <2>4. TypeOK'
    BY <2>1, <2>2 DEF Inv, TypeOK, IsMap, MapObject
  <2>5. Cursor' /\ ProgramsCursor' /\ RunsCursor'
    BY <2>1, <2>3
    DEF Inv, Cursor, ProgramsCursor, RunsCursor, Mapping, Later, Running, IsProg
  <2>6. LinksCursor'
    <3>1. i' \in 1 .. Len(Maps') + 1 /\ j' \in Nat \ {0} /\ j' <= Len(M'.programs) + 1
      BY <2>1, <2>2, <2>3
    <3> QED BY <2>1, <2>2, <2>3, <3>1 DEF LinksCursor, Mapping, Running
  <2> QED BY <2>2, <2>4, <2>5, <2>6 DEF Inv
<1> QED BY <1>1, <1>2

LEMMA NextArrayInv ==
  ASSUME Inv, NextArray PROVE Inv'
<1>1. /\ UNCHANGED <<job, fd, mapFds, progFds, out, logs, kernelVars, ran>>
      /\ pc = "slots" /\ i \in Nat /\ j \in Nat /\ job \in Jobs
      /\ \/ i <= Len(Maps) /\ j > Len(M.programs) /\ pc' = "slots" /\ i' = i + 1 /\ j' = 1
         \/ ~(i <= Len(Maps)) /\ pc' = "run" /\ i' = 1 /\ j' = j
  BY DEF NextArray, Inv, TypeOK
<1>2. /\ TypeOK' /\ ObjectsNamed' /\ Maps' = Maps /\ Programs' = Programs /\ Plan' = Plan
      /\ {Names(l) : l \in links}' = {Names(l) : l \in links}
      /\ \A n : IsProg(n)' <=> IsProg(n)
      /\ \A a, b : LinksBefore(a, b)' = LinksBefore(a, b)
  <2>1. pc' \in {"slots", "run"} /\ i' \in Nat /\ j' \in Nat
    BY <1>1
  <2> QED BY <1>1, <2>1, MoveInv
<1>3. /\ IsSeq(Maps) /\ Len(Maps) \in Nat /\ IsSeq(Programs) /\ Len(Programs) \in Nat
      /\ \A k \in 1 .. Len(Maps) : Len(Maps[k].programs) \in Nat
      /\ Before(Programs, 1) = {} /\ DOMAIN Programs = 1 .. Len(Programs)
  BY <1>1, MapsFacts, ProgramsFacts, SeqFacts, BeforeAll
<1>4. /\ i \in 1 .. Len(Maps) + 1 /\ j \in Nat \ {0}
      /\ i <= Len(Maps) => j <= Len(M.programs) + 1
      /\ {Names(l) : l \in links} = LinksBefore(i, j)
      /\ DOMAIN progFds = NamesOf(Programs) /\ \A n \in DOMAIN progFds : IsProg(n)
      /\ ran = <<>> /\ IsSeq(ran) /\ DOMAIN mapFds = NamesOf(Maps)
  BY <1>1
  DEF Inv, LinksCursor, ProgramsCursor, RunsCursor, Cursor, Later, Running
<1>5. Cursor'
  BY <1>1, <1>2, <1>4 DEF Cursor, Mapping, Later, kernelVars
<1>6. CASE /\ i <= Len(Maps) /\ j > Len(M.programs) /\ pc' = "slots" /\ i' = i + 1 /\ j' = 1
  <2>1. i \in 1 .. Len(Maps) /\ i + 1 \in 1 .. Len(Maps) + 1 /\ j = Len(Maps[i].programs) + 1
    <3>1. i \in 1 .. Len(Maps) /\ i + 1 \in 1 .. Len(Maps) + 1
      BY <1>3, <1>4, <1>6
    <3>2. Len(Maps[i].programs) \in Nat /\ j <= Len(Maps[i].programs) + 1
          /\ j > Len(Maps[i].programs)
      BY <1>3, <1>4, <1>6, <3>1 DEF M
    <3> QED BY <1>4, <3>1, <3>2
  <2>2. {Names(l) : l \in links}' = LinksBefore(i + 1, 1)
    BY <1>1, <1>2, <1>4, <2>1, LinksOfArrays
  <2>3. i + 1 <= Len(Maps) => 1 <= Len(M'.programs) + 1
    BY <1>2, <1>3, <1>6, <2>1, SMTT(60) DEF M
  <2>4. LinksBefore(i, j)' = LinksBefore(i + 1, 1)
    BY <1>2, <1>6
       DEF LinksBefore, LinksOfFirst, FirstLinks, LinksOf
  <2>5. LinksCursor'
    BY <1>2, <1>6, <2>1, <2>2, <2>3, <2>4 DEF LinksCursor, Mapping, Running
  <2>6. ProgramsCursor' /\ RunsCursor'
    BY <1>1, <1>2, <1>4, <1>6 DEF ProgramsCursor, RunsCursor, Mapping, Running
  <2> QED BY <1>2, <1>5, <2>5, <2>6 DEF Inv
<1>7. CASE ~(i <= Len(Maps)) /\ pc' = "run" /\ i' = 1 /\ j' = j
  <2>1. i = Len(Maps) + 1
    BY <1>3, <1>4, <1>7
  <2>2. {Names(l) : l \in links}' = Plan'.links
    BY <1>1, <1>2, <1>4, <2>1, LinksOfArrays
  <2>3. LinksCursor'
    BY <1>7, <2>2 DEF LinksCursor, Mapping, Running
  <2>4. \A k \in 1 .. Len(Programs) : IsProg(Programs[k].name)
    BY <1>3, <1>4 DEF NamesOf
  <2>5. ProgramsCursor'
    <3>1. 1 \in 1 .. Len(Programs) + 1
      BY <1>3
    <3> QED BY <1>1, <1>2, <1>4, <1>7, <2>4, <3>1 DEF ProgramsCursor, Mapping, Running
  <2>6. RunsCursor'
    BY <1>1, <1>2, <1>3, <1>4, <1>7 DEF RunsCursor, Mapping
  <2> QED BY <1>2, <1>5, <2>3, <2>5, <2>6 DEF Inv
<1> QED BY <1>1, <1>6, <1>7

(* The program that ran is one not run before. *)
LEMMA RanNext ==
  ASSUME Inv, NEW r, pc = "run", i <= Len(Programs), ran' = Append(ran, <<P.name, r>>)
  PROVE  /\ i \in 1 .. Len(Programs) /\ IsSeq(ran')
         /\ {ran[n][1] : n \in DOMAIN ran} = Before(Programs, i)
         /\ {ran[n][1] : n \in DOMAIN ran}' = Before(Programs, i) \cup {P.name}
         /\ P.name \notin Before(Programs, i) /\ P.name \in NamesOf(Programs)
<1>1. /\ IsSeq(Programs) /\ DistinctNames(Programs) /\ Len(Programs) \in Nat
  BY ProgramsFacts, SeqFacts DEF Inv, TypeOK
<1>2. /\ i \in 1 .. Len(Programs) /\ IsSeq(ran)
      /\ {ran[n][1] : n \in DOMAIN ran} = Before(Programs, i)
  BY <1>1 DEF Inv, ProgramsCursor, RunsCursor, Running
<1> DEFINE e == <<P.name, r>>
<1>3. e[1] = P.name
  OBVIOUS
<1> HIDE DEF e
<1>4. /\ IsSeq(ran') /\ DOMAIN ran' = DOMAIN ran \cup {Len(ran) + 1}
      /\ \A k \in DOMAIN ran : ran'[k] = ran[k]
      /\ ran'[Len(ran) + 1] = e
  BY <1>2, AppendIsSeq, SeqFacts DEF e
<1>5. {ran'[n][1] : n \in DOMAIN ran'} = {ran[n][1] : n \in DOMAIN ran} \cup {P.name}
  BY <1>3, <1>4
<1> QED BY <1>1, <1>2, <1>4, <1>5, NotBefore DEF P

LEMMA TestRunInv ==
  ASSUME Inv, TestRun PROVE Inv'
<1>1. CASE Fails
  BY <1>1, FailsInv
<1>2. ASSUME NEW r, Effect, ran' = Append(ran, <<P.name, r>>), fds' = StillOpen, i' = i + 1,
             pc = "run", i <= Len(Programs),
             UNCHANGED <<job, pc, j, fd, mapFds, progFds, kfuncIds, logs, links>>
      PROVE  Inv'
  <2>1. /\ i \in 1 .. Len(Programs) /\ Len(Programs) \in Nat /\ IsSeq(ran')
        /\ IsSeq(Programs) /\ DistinctNames(Programs)
        /\ {ran[n][1] : n \in DOMAIN ran}' = Before(Programs, i + 1)
    <3>1. IsSeq(Programs) /\ DistinctNames(Programs) /\ Len(Programs) \in Nat
      BY ProgramsFacts, SeqFacts DEF Inv, TypeOK
    <3> QED BY <1>2, <3>1, RanNext, BeforeNext DEF P
  <2>2. /\ ObjectsNamed /\ DOMAIN mapFds = NamesOf(Maps) /\ IsProg(P.name)
        /\ \A k \in i .. Len(Programs) : IsProg(Programs[k].name)
    BY <1>2, <2>1 DEF Inv, Cursor, Later, ProgramsCursor, P
  <2>3. Grown(objs, objs')
    BY <1>2, <2>2, EffectGrows DEF Inv
  <2>4. /\ ObjectsNamed' /\ {Names(l) : l \in links}' = {Names(l) : l \in links}
    BY <1>2, <2>2, <2>3, SameLinks
  <2>5. /\ DOMAIN fds' = DOMAIN fds \ {progFds[P.name]}
        /\ \A d \in DOMAIN fds' : /\ fds'[d] = fds[d] /\ d \in Fds /\ fds[d] \in DOMAIN objs
                                  /\ fds[d] \in DOMAIN objs'
                                  /\ objs'[fds[d]].what = objs[fds[d]].what
                                  /\ objs'[fds[d]].name = objs[fds[d]].name
    BY <1>2, <2>3 DEF StillOpen, Inv, TypeOK, Grown
  <2>6. \A n \in DOMAIN mapFds : IsMap(n)'
    <3> SUFFICES ASSUME NEW n \in DOMAIN mapFds PROVE IsMap(n)'
      OBVIOUS
    <3>1. mapFds[n] \in DOMAIN fds /\ objs[fds[mapFds[n]]].what = "map"
          /\ objs[fds[mapFds[n]]].name = n
      BY DEF Inv, TypeOK, IsMap, MapObject
    <3>2. mapFds[n] # progFds[P.name]
      BY <2>2, <3>1 DEF IsProg
    <3> QED BY <1>2, <2>5, <3>1, <3>2 DEF IsMap, MapObject
  <2>7. TypeOK'
    BY <1>2, <2>1, <2>3, <2>5, <2>6 DEF Inv, TypeOK
  <2>8. Maps' = Maps /\ Programs' = Programs /\ Plan' = Plan
    BY <1>2, SameDocument
  <2>9. \A k \in i + 1 .. Len(Programs) : IsProg(Programs[k].name)'
    <3>1. ASSUME NEW n, IsProg(n), n # P.name PROVE IsProg(n)'
      <4>1. progFds[n] # progFds[P.name]
        BY <2>2, <3>1 DEF IsProg
      <4> QED BY <1>2, <2>5, <3>1, <4>1 DEF IsProg
    <3>2. ASSUME NEW k \in i + 1 .. Len(Programs)
          PROVE  IsProg(Programs[k].name) /\ Programs[k].name # P.name
      <4>1. k \in i .. Len(Programs) /\ k # i /\ k \in DOMAIN Programs /\ i \in DOMAIN Programs
        BY <2>1, SeqFacts
      <4> QED BY <2>1, <2>2, <4>1 DEF DistinctNames, P
    <3> QED BY <2>8, <3>1, <3>2
  <2>10. ProgramsCursor'
    BY <1>2, <2>1, <2>8, <2>9 DEF Inv, ProgramsCursor, Mapping, Running
  <2>11. Cursor' /\ LinksCursor'
    BY <1>2, <2>4, <2>8 DEF Inv, Cursor, LinksCursor, Mapping, Later, Running
  <2>12. RunsCursor'
    BY <1>2, <2>1, <2>8 DEF RunsCursor, Mapping
  <2> QED BY <2>4, <2>7, <2>10, <2>11, <2>12 DEF Inv
<1> QED BY <1>1, <1>2 DEF TestRun

LEMMA InvNext == Inv /\ [Next]_vars => Inv'
<1> SUFFICES ASSUME Inv, [Next]_vars PROVE Inv'
  OBVIOUS
<1>1. CASE UNCHANGED vars
  <2>1. TypeOK' /\ ObjectsNamed'
    BY <1>1 DEF Inv, vars, toolVars, kernelVars, TypeOK, ObjectsNamed, IsMap, MapObject
  <2>2. Maps' = Maps /\ Programs' = Programs /\ Plan' = Plan /\ M' = M
        /\ {Names(l) : l \in links}' = {Names(l) : l \in links}
        /\ LinksBefore(i, j)' = LinksBefore(i, j)
    BY <1>1, SMTT(60) DEF vars, toolVars, kernelVars, Maps, M, Programs, Plan, Names,
                LinksBefore, LinksOfFirst, FirstLinks, LinksOf
  <2>3. Cursor' /\ ProgramsCursor' /\ LinksCursor' /\ RunsCursor'
    BY <1>1, <2>2, ZenonT(60)
    DEF Inv, vars, toolVars, kernelVars, Cursor, ProgramsCursor, LinksCursor, RunsCursor, IsProg
  <2> QED BY <2>1, <2>3 DEF Inv
<1>2. CASE Next
  <2>1. CASE Decline
    BY <2>1, FailsInv DEF Decline
  <2> QED BY <1>2, <2>1, BeginInv, NextMapInv, LoadBtfInv, CreateMapInv, FillEntryInv,
             FreezeMapInv, LoadProgramInv, ProgramsDoneInv, LinkSlotInv, NextArrayInv,
             TestRunInv, RunsDoneInv, ReportOneInv, FinishInv DEF Next
<1> QED BY <1>1, <1>2

LEMMA SpecInv == Spec => []Inv
BY InvInit, InvNext, PTL DEF Spec

(* The types of the tool's state and of the kernel's, and that the tool's     *)
(* dictionary of maps names, whatever descriptors were given out and closed,  *)
(* objects of the kernel that are those maps (load.py, main).                 *)
THEOREM Types == Spec => []TypeOK
<1>1. Inv => TypeOK
  BY DEF Inv
<1> QED BY <1>1, SpecInv, PTL

-----------------------------------------------------------------------------
(* Each of the tool's steps is one of Rollout's, or changes nothing of it.    *)

LEMMA Stutters ==
  ASSUME job' = job, DOMAIN mapFds' = DOMAIN mapFds, DOMAIN progFds' = DOMAIN progFds,
         {Names(l) : l \in links}' = {Names(l) : l \in links}, ran' = ran,
         pc \notin {"done", "exited"}, pc' \notin {"done", "exited"}
  PROVE  [R!Next]_(R!vars)
<1>1. (pc' \in {"done", "exited"}) = (pc \in {"done", "exited"})
  OBVIOUS
<1>2. Plan' = Plan
  BY SameDocument
<1> QED BY <1>1, <1>2 DEF R!vars

LEMMA Stops ==
  ASSUME UNCHANGED <<job, mapFds, progFds, kernelVars, ran>>,
         pc \notin {"done", "exited"}, pc' \in {"done", "exited"}
  PROVE  [R!Next]_(R!vars)
<1>1. Plan' = Plan /\ {Names(l) : l \in links}' = {Names(l) : l \in links}
  BY SameDocument DEF kernelVars, Names
<1>2. ~(pc \in {"done", "exited"}) /\ (pc' \in {"done", "exited"}) = TRUE
  OBVIOUS
<1>3. R!Stop
  BY <1>1, <1>2 DEF R!Stop
<1> QED BY <1>3 DEF R!Next

LEMMA FailsStops ==
  ASSUME Exit, pc \notin {"done", "exited"}
  PROVE  [R!Next]_(R!vars)
  BY Stops DEF Exit

LEMMA FreezeMapMakes ==
  ASSUME Inv, FreezeMap PROVE [R!Next]_(R!vars)
<1>1. CASE Fails
  BY <1>1, FailsStops DEF Fails, FreezeMap
<1>2. CASE /\ pc = "freeze" /\ pc' = "maps" /\ mapFds' = Put(mapFds, M.name, fd)
           /\ UNCHANGED <<job, progFds, links, ran>>
  <2>1. /\ i \in 1 .. Len(Maps) /\ IsSeq(Maps) /\ DistinctNames(Maps)
        /\ DOMAIN mapFds = Before(Maps, i)
    BY <1>2, Making
  <2>2. M.name \in NamesOf(Maps) \ DOMAIN mapFds
    BY <2>1, NotBefore DEF M
  <2>3. DOMAIN mapFds' = DOMAIN mapFds \cup {M.name}
    BY <1>2 DEF Put
  <2>4. links = {} /\ links' = {} /\ DOMAIN progFds = {}
    BY <1>2 DEF Inv, LinksCursor, ProgramsCursor, Mapping
  <2>5. Plan' = Plan /\ M.name \in Plan.maps
    BY <1>2, <2>2, SameDocument DEF Plan
  <2>6. ~(pc \in {"done", "exited"})
        /\ (pc' \in {"done", "exited"}) = (pc \in {"done", "exited"})
    BY <1>2
  <2>7. R!Make(M.name)
    BY <1>2, <2>2, <2>3, <2>4, <2>5, <2>6 DEF R!Make
  <2> QED BY <2>5, <2>7 DEF R!Next
<1> QED BY <1>1, <1>2 DEF FreezeMap

LEMMA LoadProgramLoads ==
  ASSUME Inv, LoadProgram PROVE [R!Next]_(R!vars)
<1>1. CASE Exit
  BY <1>1, FailsStops DEF LoadProgram
<1>2. ASSUME NEW d, progFds' = Put(progFds, P.name, d), pc = "programs",
             i <= Len(Programs), UNCHANGED <<job, pc, mapFds, links, ran>>
      PROVE  [R!Next]_(R!vars)
  <2>1. /\ IsSeq(Programs) /\ DistinctNames(Programs) /\ Len(Programs) \in Nat
    BY ProgramsFacts, SeqFacts DEF Inv, TypeOK
  <2>2. /\ i \in 1 .. Len(Programs) /\ DOMAIN progFds = Before(Programs, i)
        /\ DOMAIN mapFds = NamesOf(Maps) /\ links = {} /\ links' = {}
    BY <1>2, <2>1 DEF Inv, ProgramsCursor, LinksCursor, Cursor, Later
  <2>3. P.name \in NamesOf(Programs) \ DOMAIN progFds
    BY <2>1, <2>2, NotBefore DEF P
  <2>4. DOMAIN progFds' = DOMAIN progFds \cup {P.name}
    BY <1>2 DEF Put
  <2>5. Plan' = Plan /\ P.name \in Plan.programs /\ DOMAIN mapFds = Plan.maps
    BY <1>2, <2>2, <2>3, SameDocument DEF Plan
  <2>6. ~(pc \in {"done", "exited"})
        /\ (pc' \in {"done", "exited"}) = (pc \in {"done", "exited"})
    BY <1>2
  <2>7. P.name \in Plan.programs \ DOMAIN progFds /\ {Names(l) : l \in links} = {}
        /\ {Names(l) : l \in links}' = {}
    BY <2>2, <2>3, <2>5
  <2>8. R!Load(P.name)
    BY <1>2, <2>4, <2>5, <2>6, <2>7 DEF R!Load
  <2> QED BY <2>5, <2>8 DEF R!Next
<1> QED BY <1>1, <1>2 DEF LoadProgram

LEMMA LinkSlotLinks ==
  ASSUME Inv, LinkSlot PROVE [R!Next]_(R!vars)
<1>1. CASE Fails
  BY <1>1, FailsStops DEF Fails, LinkSlot
<1>2. CASE ~Fails
  <2> DEFINE new == <<M.name, j - 1, M.programs[j]>>
  <2>1. pc = "slots" /\ UNCHANGED <<job, pc, mapFds, progFds, ran>>
    BY <1>2 DEF LinkSlot
  <2>2. /\ {Names(l) : l \in links}' = {Names(l) : l \in links} \cup {new}
        /\ new \notin {Names(l) : l \in links}
        /\ i \in 1 .. Len(Maps) /\ j \in 1 .. Len(M.programs)
    BY <1>2, Linked
  <2>3. new \in Plan.links
    BY <2>2, LinksNext DEF Inv, TypeOK, M
  <2> HIDE DEF new
  <2>4. /\ DOMAIN mapFds = NamesOf(Maps) /\ DOMAIN progFds = NamesOf(Programs) /\ ran = <<>>
    BY <2>1 DEF Inv, Cursor, ProgramsCursor, RunsCursor, Later
  <2>5. Plan' = Plan /\ DOMAIN mapFds = Plan.maps /\ DOMAIN progFds = Plan.programs
        /\ {ran[n][1] : n \in DOMAIN ran} = {}
    BY <2>1, <2>4, SameDocument DEF Plan
  <2>6. ~(pc \in {"done", "exited"})
        /\ (pc' \in {"done", "exited"}) = (pc \in {"done", "exited"})
    BY <2>1
  <2>7. R!Link(new)
    BY <2>1, <2>2, <2>3, <2>5, <2>6 DEF R!Link
  <2> QED BY <2>3, <2>7 DEF R!Next
<1> QED BY <1>1, <1>2

LEMMA TestRunRuns ==
  ASSUME Inv, TestRun PROVE [R!Next]_(R!vars)
<1>1. CASE Fails
  BY <1>1, FailsStops DEF Fails, TestRun
<1>2. ASSUME NEW r, Effect, ran' = Append(ran, <<P.name, r>>), pc = "run", i <= Len(Programs),
             UNCHANGED <<job, pc, mapFds, progFds, links>>
      PROVE  [R!Next]_(R!vars)
  <2>1. /\ {ran[n][1] : n \in DOMAIN ran}' = {ran[n][1] : n \in DOMAIN ran} \cup {P.name}
        /\ P.name \in NamesOf(Programs) \ {ran[n][1] : n \in DOMAIN ran}
    BY <1>2, RanNext
  <2>2. /\ ObjectsNamed /\ DOMAIN mapFds = NamesOf(Maps) /\ DOMAIN progFds = NamesOf(Programs)
        /\ {Names(l) : l \in links} = Plan.links
    BY <1>2 DEF Inv, Cursor, ProgramsCursor, LinksCursor, Later, Running
  <2>3. Grown(objs, objs')
    BY <1>2, <2>2, EffectGrows DEF Inv
  <2>4. {Names(l) : l \in links}' = {Names(l) : l \in links}
    BY <1>2, <2>2, <2>3, SameLinks
  <2>5. Plan' = Plan /\ DOMAIN mapFds = Plan.maps /\ DOMAIN progFds = Plan.programs
        /\ P.name \in Plan.programs \ {ran[n][1] : n \in DOMAIN ran}
    BY <1>2, <2>1, <2>2, SameDocument DEF Plan
  <2>6. ~(pc \in {"done", "exited"})
        /\ (pc' \in {"done", "exited"}) = (pc \in {"done", "exited"})
    BY <1>2
  <2>7. PICK n \in Plan.programs : n = P.name
    BY <2>5
  <2>8. R!Run(n)
    BY <1>2, <2>1, <2>2, <2>4, <2>5, <2>6, <2>7 DEF R!Run
  <2> QED BY <2>8 DEF R!Next
<1> QED BY <1>1, <1>2 DEF TestRun

LEMMA ReportOneStutters ==
  ASSUME Inv, ReportOne PROVE [R!Next]_(R!vars)
<1>1. CASE Fails
  BY <1>1, FailsStops DEF Fails, ReportOne
<1>2. CASE ~Fails
  <2>1. /\ pc = "report" /\ UNCHANGED <<job, pc, mapFds, progFds, fds, links, ran>>
    BY <1>2 DEF ReportOne
  <2>2. {Names(l) : l \in links}' = {Names(l) : l \in links}
    <3>1. Grown(objs, objs')
      BY <1>2, ReportGrows
    <3> QED BY <2>1, <3>1, SameLinks DEF Inv
  <2> QED BY <2>1, <2>2, Stutters
<1> QED BY <1>1, <1>2

(* Up to the programs no array has an entry. *)
LEMMA BeforeLinks ==
  ASSUME Inv, Begin \/ NextMap \/ LoadBtf \/ CreateMap \/ FillEntry \/ ProgramsDone
  PROVE  [R!Next]_(R!vars)
<1>1. CASE Fails
  BY <1>1, FailsStops
  DEF Fails, Begin, NextMap, LoadBtf, CreateMap, FillEntry, ProgramsDone
<1>2. CASE ~Fails
  <2>1. /\ pc \in {"start", "maps", "btf", "create", "fill", "programs"}
        /\ pc' \in {"maps", "btf", "create", "fill", "freeze", "programs", "slots"}
        /\ UNCHANGED <<job, mapFds, progFds, links, ran>>
    BY <1>2 DEF Begin, NextMap, LoadBtf, CreateMap, FillEntry, ProgramsDone, AfterEntries,
                kernelVars
  <2>2. links = {} /\ links' = {}
    BY <2>1 DEF Inv, LinksCursor, Mapping
  <2> QED BY <2>1, <2>2, Stutters
<1> QED BY <1>1, <1>2

LEMMA MovesStutter ==
  ASSUME NextArray \/ RunsDone
  PROVE  [R!Next]_(R!vars)
<1>1. /\ pc \in {"slots", "run"} /\ pc' \in {"slots", "run", "report"}
      /\ UNCHANGED <<job, mapFds, progFds, objs, links, ran>>
  BY DEF NextArray, RunsDone, kernelVars
<1>2. {Names(l) : l \in links}' = {Names(l) : l \in links}
  BY <1>1 DEF Names
<1> QED BY <1>1, <1>2, Stutters

LEMMA RolloutInit == Init => R!Init
<1> SUFFICES ASSUME Init PROVE R!Init
  OBVIOUS
<1>1. DOMAIN mapFds = {} /\ DOMAIN progFds = {} /\ links = {} /\ ran = <<>>
  BY DEF Init, Empty
<1>2. (pc \in {"done", "exited"}) = FALSE
  BY DEF Init
<1> QED BY <1>1, <1>2 DEF R!Init

LEMMA RolloutNext == Inv /\ [Next]_vars => [R!Next]_(R!vars)
<1> SUFFICES ASSUME Inv, [Next]_vars PROVE [R!Next]_(R!vars)
  OBVIOUS
<1>1. CASE UNCHANGED vars
  <2>1. Plan' = Plan /\ {Names(l) : l \in links}' = {Names(l) : l \in links}
        /\ pc' = pc /\ mapFds' = mapFds /\ progFds' = progFds /\ ran' = ran
    BY <1>1, SameDocument DEF vars, toolVars, kernelVars, Names
  <2> QED BY <2>1 DEF R!vars
<1>2. CASE Next
  <2>1. CASE Decline
    BY <2>1, FailsStops DEF Decline, Fails
  <2>2. CASE Finish
    BY <2>2, Stops DEF Finish
  <2> QED BY <1>2, <2>1, <2>2, BeforeLinks, FreezeMapMakes, LoadProgramLoads, LinkSlotLinks,
             MovesStutter, TestRunRuns, ReportOneStutters DEF Next
<1> QED BY <1>1, <1>2

(* The tool creates every map before it loads a program, loads every program  *)
(* before it fills an array's entry, and fills all of them before it runs     *)
(* one, each program once, whatever fails (main): it implements Rollout.      *)
THEOREM InOrder == Spec => RolloutSpec
<1>1. Init => R!Init
  BY RolloutInit
<1>2. Inv /\ [Next]_vars => [R!Next]_(R!vars)
  BY RolloutNext
<1> QED BY <1>1, <1>2, SpecInv, PTL DEF Spec, RolloutSpec, R!Spec

-----------------------------------------------------------------------------
(* The contents.  The inductive invariant, beside Inv. *)

(* What the document says of byte b of entry e. *)
Declared(m, e, b) ==
  LET n == e * m.valueSize + b IN IF n \in DOMAIN m.data THEN m.data[n] ELSE 0

(* The first n entries are as declared, the others as the kernel made them.   *)
FilledTo(m, c, n) ==
  \A e \in DOMAIN c :
    /\ e \in Nat /\ e < m.entries
    /\ \A b \in 1 .. m.valueSize : c[e][b] = IF e < n THEN Declared(m, e, b) ELSE 0

Shaped ==
  \A o \in DOMAIN objs : objs[o].what = "map" => {"contents", "frozen"} \subseteq DOMAIN objs[o]

(* The map in the making. *)
Made == objs[fds[fd]]
FilledSoFar ==
  /\ pc = "fill" /\ M.kind = "array" => FilledTo(M, Made.contents, j)
  /\ pc = "freeze" /\ M.kind = "array" => HoldsDeclared(M, Made.contents)

Reporting == pc = "report" => i \in Nat \ {0}

ContentsInv == Inv /\ Shaped /\ FilledSoFar /\ ContentsFinal /\ Reporting

(* What ContentsFinal says of one map. *)
FinalFor(m, o, before) ==
  /\ m.kind = "array" /\ (before \/ m.access = "ro") => HoldsDeclared(m, o.contents)
  /\ m.access = "ro" => o.frozen

LEMMA FinalMeans ==
  /\ ContentsFinal =
       \A m \in Elems(Maps) : m.name \in DOMAIN mapFds =>
         FinalFor(m, objs[MapObject(m.name)], ran = <<>>)
  BY DEF ContentsFinal, FinalFor

LEMMA FinalMeansNext ==
  /\ ContentsFinal' =
       \A m \in Elems(Maps') : m.name \in DOMAIN mapFds' =>
         FinalFor(m, objs'[fds'[mapFds'[m.name]]], ran' = <<>>)
  BY DEF ContentsFinal, FinalFor, MapObject, HoldsDeclared, Elems

-----------------------------------------------------------------------------
(* Filling an array. *)

LEMMA MapFacts ==
  ASSUME job \in Jobs, NEW k \in 1 .. Len(Maps)
  PROVE  /\ Maps[k] \in Elems(Maps)
         /\ Maps[k].entries \in Nat /\ Maps[k].valueSize \in Nat
         /\ Len(Maps[k].data) \in Nat /\ DOMAIN Maps[k].data = 1 .. Len(Maps[k].data)
<1>1. IsSeq(Maps) /\ Maps[k] \in Elems(Maps)
  BY MapsFacts, SeqFacts
<1>2. /\ Maps[k].entries \in Nat /\ Maps[k].valueSize \in Nat
      /\ IsSeq(Maps[k].data)
  BY <1>1, ContentsAssumption DEF Maps, IsSeq
<1> QED BY <1>1, <1>2, SeqFacts

(* Where no entry is left, what was not written is zero in the document too.  *)
LEMMA AllFilled ==
  ASSUME NEW m, m.entries \in Nat, m.valueSize \in Nat,
         Len(m.data) \in Nat, DOMAIN m.data = 1 .. Len(m.data),
         NEW n \in Nat, NEW c, FilledTo(m, c, n), ~HasEntry(m, n)
  PROVE  HoldsDeclared(m, c)
<1> SUFFICES ASSUME NEW e \in DOMAIN c, NEW b \in 1 .. m.valueSize
             PROVE  c[e][b] = Declared(m, e, b)
  BY DEF HoldsDeclared, Declared
<1>1. /\ e \in Nat /\ e < m.entries
      /\ c[e][b] = IF e < n THEN Declared(m, e, b) ELSE 0
  BY DEF FilledTo
<1>2. CASE e < n
  BY <1>1, <1>2
<1>3. CASE ~ e < n
  <2>1. Len(m.data) <= n * m.valueSize
    BY <1>1, <1>3, SMTT(60) DEF HasEntry
  <2>2. n * m.valueSize <= e * m.valueSize
    <3>1. PICK v \in Nat, d \in Nat : v = m.valueSize /\ e = n + d
      <4>1. e - n \in Nat /\ e = n + (e - n)
        BY <1>1, <1>3
      <4> QED BY <4>1
    <3>2. (n + d) * v = n * v + d * v /\ d * v \in Nat /\ n * v \in Nat
      BY <3>1, SMTT(60)
    <3> QED BY <3>1, <3>2
  <2>3. e * m.valueSize + b \notin 1 .. Len(m.data)
    <3>1. e * m.valueSize \in Nat /\ n * m.valueSize \in Nat
      BY <1>1, SMTT(60)
    <3> QED BY <2>1, <2>2, <3>1, SMTT(60)
  <2> QED BY <1>1, <1>3, <2>3 DEF Declared
<1> QED BY <1>2, <1>3

LEMMA FirstFilled ==
  ASSUME NEW m, m.entries \in Nat, m.kind = "array"
  PROVE  FilledTo(m, FirstContents(m), 0)
<1>1. FirstContents(m) = [e \in 0 .. m.entries - 1 |-> [b \in 1 .. m.valueSize |-> 0]]
  BY DEF FirstContents
<1> QED BY <1>1 DEF FilledTo

LEMMA NextFilled ==
  ASSUME NEW m, m.entries \in Nat, m.valueSize \in Nat,
         Len(m.data) \in Nat, DOMAIN m.data = 1 .. Len(m.data),
         NEW n \in Nat, NEW c, FilledTo(m, c, n)
  PROVE  FilledTo(m, [c EXCEPT ![n] = Entry(m, n)], n + 1)
<1> DEFINE d == [c EXCEPT ![n] = Entry(m, n)]
<1> SUFFICES ASSUME NEW e \in DOMAIN c
             PROVE  /\ e \in Nat /\ e < m.entries
                    /\ \A b \in 1 .. m.valueSize :
                         d[e][b] = IF e < n + 1 THEN Declared(m, e, b) ELSE 0
  BY DEF FilledTo
<1>1. /\ e \in Nat /\ e < m.entries
      /\ \A b \in 1 .. m.valueSize : c[e][b] = IF e < n THEN Declared(m, e, b) ELSE 0
  BY DEF FilledTo
<1>2. CASE e = n
  <2>1. d[e] = Entry(m, n)
    BY <1>2
  <2>2. \A b \in 1 .. m.valueSize :
          (e * m.valueSize + b \in 1 .. Len(m.data)) <=> (e * m.valueSize + b <= Len(m.data))
    <3>1. e * m.valueSize \in Nat
      BY <1>1
    <3> QED BY <3>1
  <2>3. \A b \in 1 .. m.valueSize : Entry(m, n)[b] = Declared(m, e, b)
    BY <1>2, <2>2 DEF Entry, Declared
  <2> QED BY <1>1, <1>2, <2>1, <2>3
<1>3. CASE e # n
  <2>1. d[e] = c[e]
    BY <1>3
  <2>2. (e < n + 1) <=> (e < n)
    BY <1>1, <1>3
  <2> QED BY <1>1, <2>1, <2>2
<1> QED BY <1>2, <1>3

-----------------------------------------------------------------------------
(* The maps that are made. *)

(* A map that is made is the kernel's object of its name; one in the making   *)
(* is another object than each of them.                                       *)
LEMMA MadeNamed ==
  ASSUME Inv, NEW n \in DOMAIN mapFds
  PROVE  /\ mapFds[n] \in DOMAIN fds /\ fds[mapFds[n]] \in DOMAIN objs
         /\ MapObject(n) = fds[mapFds[n]]
         /\ objs[MapObject(n)].what = "map" /\ objs[MapObject(n)].name = n
  BY DEF Inv, TypeOK, IsMap, MapObject

(* Two maps of one name are one. *)
LEMMA OneMap ==
  ASSUME job \in Jobs, NEW k \in 1 .. Len(Maps), NEW m \in Elems(Maps), m.name = Maps[k].name
  PROVE  m = Maps[k]
<1>1. IsSeq(Maps) /\ DistinctNames(Maps)
  BY MapsFacts
<1>2. PICK l \in DOMAIN Maps : m = Maps[l]
  BY DEF Elems
<1>3. k \in DOMAIN Maps
  BY <1>1, SeqFacts
<1> QED BY <1>1, <1>2, <1>3 DEF DistinctNames

(* Steps that leave the objects there are and the descriptors that name them. *)
Extends ==
  /\ IsSeq(objs) /\ DOMAIN objs \subseteq DOMAIN objs'
  /\ \A o \in DOMAIN objs : objs'[o] = objs[o]
  /\ \A d \in DOMAIN fds : d \in DOMAIN fds' /\ fds'[d] = fds[d]

LEMMA ExtendsKeeps ==
  ASSUME ContentsInv, Extends, UNCHANGED <<job, mapFds, ran>>
  PROVE  ContentsFinal'
<1>1. Maps' = Maps
  BY DEF Maps
<1>2. ASSUME NEW m \in Elems(Maps), m.name \in DOMAIN mapFds
      PROVE  FinalFor(m, objs'[fds'[mapFds'[m.name]]], ran' = <<>>)
  <2>1. FinalFor(m, objs[MapObject(m.name)], ran = <<>>)
    BY <1>2, FinalMeans DEF ContentsInv
  <2>2. objs'[fds'[mapFds'[m.name]]] = objs[MapObject(m.name)]
    BY <1>2, MadeNamed DEF ContentsInv, Extends
  <2> QED BY <2>1, <2>2
<1> QED BY <1>1, <1>2, FinalMeansNext

LEMMA SameExtends ==
  ASSUME Inv, UNCHANGED <<objs, fds>> PROVE Extends
  BY DEF Inv, ObjectsNamed, Extends

(* No map is made, nor in the making afterwards. *)
LEMMA StillKeeps ==
  ASSUME ContentsInv, UNCHANGED <<job, mapFds, ran, objs, fds>>, pc' \notin {"fill", "freeze"}
  PROVE  Shaped' /\ FilledSoFar' /\ ContentsFinal'
<1>1. ContentsFinal'
  BY SameExtends, ExtendsKeeps DEF ContentsInv
<1>2. Shaped'
  BY DEF ContentsInv, Shaped
<1> QED BY <1>1, <1>2 DEF FilledSoFar

(* A new object, and what a new map starts as. *)
LEMMA NewExtends ==
  ASSUME ContentsInv, NEW d \in Fds, NEW o, "what" \in DOMAIN o, "name" \in DOMAIN o,
         NewObject(d, o), o.what = "map" => {"contents", "frozen"} \subseteq DOMAIN o
  PROVE  Extends /\ Shaped' /\ d \in DOMAIN fds' /\ objs'[fds'[d]] = o
<1>1. objs' = Append(objs, o) /\ IsSeq(objs)
  BY DEF NewObject, ContentsInv, Inv, ObjectsNamed
<1>2. PICK n \in Nat : n = Len(objs) /\ DOMAIN objs = 1 .. n
  BY <1>1, SeqFacts
<1>3. /\ DOMAIN objs' = 1 .. n + 1 /\ objs'[n + 1] = o
      /\ \A k \in 1 .. n : objs'[k] = objs[k]
  BY <1>1, <1>2, AppendIsSeq
<1>4. /\ DOMAIN fds' = DOMAIN fds \cup {d} /\ objs'[fds'[d]] = o
      /\ \A e \in DOMAIN fds : fds'[e] = fds[e]
  BY Created DEF ContentsInv, Inv
<1>5. Extends
  BY <1>1, <1>2, <1>3, <1>4 DEF Extends
<1>6. Shaped'
  <2> SUFFICES ASSUME NEW k \in 1 .. n + 1, objs'[k].what = "map"
               PROVE  {"contents", "frozen"} \subseteq DOMAIN objs'[k]
    BY <1>3 DEF Shaped
  <2>1. k \in 1 .. n \/ k = n + 1
    BY <1>2
  <2> QED BY <2>1, <1>2, <1>3 DEF ContentsInv, Shaped
<1> QED BY <1>4, <1>5, <1>6

-----------------------------------------------------------------------------
(* The steps. *)

LEMMA ContentsExit ==
  ASSUME ContentsInv, Exit PROVE Shaped' /\ FilledSoFar' /\ ContentsFinal'
  BY StillKeeps DEF Exit, kernelVars

LEMMA ContentsLoadBtf ==
  ASSUME ContentsInv, LoadBtf PROVE Shaped' /\ FilledSoFar' /\ ContentsFinal'
<1>1. CASE Fails
  BY <1>1, ContentsExit DEF Fails
<1>2. ASSUME NEW d \in Fds, NewObject(d, [what |-> "btf", name |-> M.name]), pc' = "create",
             UNCHANGED <<job, mapFds, ran>>
      PROVE  Shaped' /\ FilledSoFar' /\ ContentsFinal'
  <2>1. PICK o : o = [what |-> "btf", name |-> M.name]
    OBVIOUS
  <2>2. "what" \in DOMAIN o /\ "name" \in DOMAIN o /\ o.what # "map"
    BY <2>1
  <2>3. Extends /\ Shaped'
    BY <1>2, <2>1, <2>2, NewExtends
  <2> QED BY <1>2, <2>3, ExtendsKeeps DEF FilledSoFar
<1> QED BY <1>1, <1>2 DEF LoadBtf

LEMMA ContentsLoadProgram ==
  ASSUME ContentsInv, LoadProgram PROVE Shaped' /\ FilledSoFar' /\ ContentsFinal'
<1>1. CASE Exit
  BY <1>1, ContentsExit
<1>2. ASSUME NEW d \in Fds, NEW refs, NewObject(d, [what |-> "prog", name |-> P.name, refs |-> refs]),
             pc = "programs", UNCHANGED <<job, pc, mapFds, ran>>
      PROVE  Shaped' /\ FilledSoFar' /\ ContentsFinal'
  <2>1. PICK o : o = [what |-> "prog", name |-> P.name, refs |-> refs]
    OBVIOUS
  <2>2. "what" \in DOMAIN o /\ "name" \in DOMAIN o /\ o.what # "map"
    BY <2>1
  <2>3. Extends /\ Shaped'
    BY <1>2, <2>1, <2>2, NewExtends
  <2> QED BY <1>2, <2>3, ExtendsKeeps DEF FilledSoFar
<1> QED BY <1>1, <1>2 DEF LoadProgram

(* A new array is not filled yet; one without contents needs no filling.      *)
LEMMA ContentsCreateMap ==
  ASSUME ContentsInv, CreateMap PROVE Shaped' /\ FilledSoFar' /\ ContentsFinal'
<1>1. CASE Fails
  BY <1>1, ContentsExit DEF Fails
<1>2. ASSUME NEW d \in Fds, NEW btf,
             NewObject(d, [what |-> "map", name |-> M.name, contents |-> FirstContents(M),
                           frozen |-> FALSE, btf |-> btf]),
             fd' = d, j' = 0, pc = "create", pc' = AfterEntries(0), UNCHANGED <<job, i, mapFds, ran>>
      PROVE  Shaped' /\ FilledSoFar' /\ ContentsFinal'
  <2>1. PICK o : o = [what |-> "map", name |-> M.name, contents |-> FirstContents(M),
                      frozen |-> FALSE, btf |-> btf]
    OBVIOUS
  <2>2. /\ "what" \in DOMAIN o /\ "name" \in DOMAIN o /\ {"contents", "frozen"} \subseteq DOMAIN o
        /\ o.contents = FirstContents(M)
    BY <2>1
  <2>3. Extends /\ Shaped' /\ objs'[fds'[d]] = o
    BY <1>2, <2>1, <2>2, NewExtends
  <2>4. ContentsFinal'
    BY <1>2, <2>3, ExtendsKeeps
  <2>5. M' = M /\ Made'.contents = FirstContents(M)
    BY <1>2, <2>2, <2>3 DEF M, Maps, Made
  <2>6. job \in Jobs /\ i \in 1 .. Len(Maps)
    <3>1. IsSeq(Maps) /\ job \in Jobs /\ Len(Maps) \in Nat
      BY MapsFacts, SeqFacts DEF ContentsInv, Inv, TypeOK
    <3> QED BY <1>2, <3>1 DEF ContentsInv, Inv, Cursor, Mapping
  <2>7. ASSUME M.kind = "array"
        PROVE  /\ FilledTo(M, FirstContents(M), 0)
               /\ ~HasEntry(M, 0) => HoldsDeclared(M, FirstContents(M))
    BY <2>6, <2>7, MapFacts, FirstFilled, AllFilled DEF M
  <2>8. pc' = "freeze" => ~HasEntry(M, 0)
    BY <1>2 DEF AfterEntries
  <2>9. FilledSoFar'
    BY <1>2, <2>5, <2>7, <2>8 DEF FilledSoFar, FilledTo, HoldsDeclared, Declared
  <2> QED BY <2>3, <2>4, <2>9
<1> QED BY <1>1, <1>2 DEF CreateMap

(* A call on the object of the map in the making: no made map changes.        *)
LEMMA MakingKeeps ==
  ASSUME ContentsInv, pc \in {"fill", "freeze"}, NEW e, objs' = [objs EXCEPT ![fds[fd]] = e],
         UNCHANGED <<job, fds, ran>>,
         NEW n \in DOMAIN mapFds, mapFds'[n] = mapFds[n]
  PROVE  objs'[fds'[mapFds'[n]]] = objs[MapObject(n)]
<1>1. objs[fds[fd]].name = M.name /\ M.name \notin DOMAIN mapFds
  BY Making, NotBefore DEF ContentsInv, M
<1>2. fds[mapFds[n]] \in DOMAIN objs /\ fds[mapFds[n]] # fds[fd] /\ MapObject(n) = fds[mapFds[n]]
  BY <1>1, MadeNamed DEF ContentsInv
<1> QED BY <1>2

LEMMA ContentsFillEntry ==
  ASSUME ContentsInv, FillEntry PROVE Shaped' /\ FilledSoFar' /\ ContentsFinal'
<1>1. CASE Fails
  BY <1>1, ContentsExit DEF Fails
<1>2. CASE /\ pc = "fill" /\ objs' = [objs EXCEPT ![fds[fd]].contents[j] = Entry(M, j)]
           /\ j' = j + 1 /\ pc' = AfterEntries(j + 1)
           /\ UNCHANGED <<job, i, fd, mapFds, fds, ran>>
  <2>1. PICK o : o = fds[fd]
    OBVIOUS
  <2>2. PICK c : c = [objs[o].contents EXCEPT ![j] = Entry(M, j)]
    OBVIOUS
  <2>3. PICK r : r = [objs[o] EXCEPT !.contents = c]
    OBVIOUS
  <2>4. objs' = [objs EXCEPT ![o] = r]
    BY <1>2, <2>1, <2>2, <2>3
  <2>5. /\ o \in DOMAIN objs /\ objs[o].what = "map" /\ {"contents", "frozen"} \subseteq DOMAIN objs[o]
        /\ i \in 1 .. Len(Maps) /\ job \in Jobs /\ j \in Nat
    BY <1>2, <2>1, Making DEF ContentsInv, Shaped, Inv, TypeOK
  <2>6. /\ DOMAIN r = DOMAIN objs[o] /\ r.contents = c
    BY <2>3, <2>5
  <2>7. Shaped'
    BY <2>4, <2>5, <2>6 DEF ContentsInv, Shaped, Inv, ObjectsNamed
  <2>8. M' = M /\ Maps' = Maps /\ Made'.contents = c
    BY <1>2, <2>1, <2>4, <2>5, <2>6 DEF M, Maps, Made
  <2>9. M.kind = "array" => FilledTo(M, c, j + 1)
    <3>1. M.kind = "array" => FilledTo(M, objs[o].contents, j)
      BY <1>2, <2>1 DEF ContentsInv, FilledSoFar, Made
    <3> QED BY <2>2, <2>5, <3>1, MapFacts, NextFilled DEF M
  <2>10. M.kind = "array" /\ ~HasEntry(M, j + 1) => HoldsDeclared(M, c)
    <3>1. j + 1 \in Nat
      BY <2>5
    <3> QED BY <2>5, <2>9, <3>1, MapFacts, AllFilled DEF M
  <2>11. FilledSoFar'
    BY <1>2, <2>8, <2>9, <2>10 DEF FilledSoFar, AfterEntries, FilledTo, HoldsDeclared, Declared
  <2>12. ASSUME NEW m \in Elems(Maps), m.name \in DOMAIN mapFds
         PROVE  FinalFor(m, objs'[fds'[mapFds'[m.name]]], ran' = <<>>)
    <3>1. FinalFor(m, objs[MapObject(m.name)], ran = <<>>)
      BY <2>12, FinalMeans DEF ContentsInv
    <3>2. objs'[fds'[mapFds'[m.name]]] = objs[MapObject(m.name)]
      BY <1>2, <2>1, <2>4, <2>12, MakingKeeps
    <3> QED BY <1>2, <3>1, <3>2
  <2> QED BY <1>2, <2>7, <2>8, <2>11, <2>12, FinalMeansNext
<1> QED BY <1>1, <1>2 DEF FillEntry

(* A map that is done holds what the document says, frozen if it is read-only. *)
LEMMA ContentsFreezeMap ==
  ASSUME ContentsInv, FreezeMap PROVE Shaped' /\ FilledSoFar' /\ ContentsFinal'
<1>1. CASE Fails
  BY <1>1, ContentsExit DEF Fails
<1>2. CASE /\ pc = "freeze" /\ pc' = "maps"
           /\ objs' = IF IsFinal(M) THEN [objs EXCEPT ![fds[fd]].frozen = TRUE] ELSE objs
           /\ mapFds' = Put(mapFds, M.name, fd)
           /\ UNCHANGED <<job, fds, ran>>
  <2>1. PICK o : o = fds[fd]
    OBVIOUS
  <2>2. PICK r : r = IF IsFinal(M) THEN [objs[o] EXCEPT !.frozen = TRUE] ELSE objs[o]
    OBVIOUS
  <2>3. /\ o \in DOMAIN objs /\ objs[o].what = "map" /\ {"contents", "frozen"} \subseteq DOMAIN objs[o]
        /\ i \in 1 .. Len(Maps) /\ job \in Jobs
    BY <1>2, <2>1, Making DEF ContentsInv, Shaped, Inv, TypeOK
  <2>4. objs' = [objs EXCEPT ![o] = r]
    <3>1. CASE IsFinal(M)
      BY <1>2, <2>1, <2>2, <3>1
    <3>2. CASE ~IsFinal(M)
      <4>1. objs \in [1 .. Len(objs) -> Elems(objs)]
        BY DEF ContentsInv, Inv, ObjectsNamed, IsSeq
      <4>2. [objs EXCEPT ![o] = objs[o]] = objs
        BY <4>1
      <4> QED BY <1>2, <2>2, <3>2, <4>2
    <3> QED BY <3>1, <3>2
  <2>5. /\ DOMAIN r = DOMAIN objs[o] /\ r.contents = objs[o].contents
        /\ M.access = "ro" => r.frozen
    BY <2>2, <2>3 DEF IsFinal
  <2>6. Shaped'
    BY <2>3, <2>4, <2>5 DEF ContentsInv, Shaped, Inv, ObjectsNamed
  <2>7. Maps' = Maps /\ FilledSoFar'
    BY <1>2 DEF Maps, FilledSoFar
  <2>8. /\ DOMAIN mapFds' = DOMAIN mapFds \cup {M.name} /\ mapFds'[M.name] = fd
        /\ \A n \in DOMAIN mapFds : n # M.name => mapFds'[n] = mapFds[n]
    BY <1>2 DEF Put
  <2>9. M.name \notin DOMAIN mapFds
    BY <1>2, Making, NotBefore DEF ContentsInv, M
  <2>10. FinalFor(M, r, ran = <<>>)
    <3>1. M.kind = "array" => HoldsDeclared(M, objs[o].contents)
      BY <1>2, <2>1 DEF ContentsInv, FilledSoFar, Made
    <3> QED BY <2>5, <3>1 DEF FinalFor
  <2>11. ASSUME NEW m \in Elems(Maps), m.name \in DOMAIN mapFds'
         PROVE  FinalFor(m, objs'[fds'[mapFds'[m.name]]], ran' = <<>>)
    <3>1. CASE m.name = M.name
      <4>1. m = M
        BY <2>3, <3>1, OneMap DEF M
      <4>2. objs'[fds'[mapFds'[M.name]]] = r
        BY <1>2, <2>1, <2>3, <2>4, <2>8
      <4> QED BY <1>2, <2>10, <4>1, <4>2
    <3>2. CASE m.name # M.name
      <4>1. m.name \in DOMAIN mapFds /\ mapFds'[m.name] = mapFds[m.name]
        BY <2>8, <2>11, <3>2
      <4>2. FinalFor(m, objs[MapObject(m.name)], ran = <<>>)
        BY <4>1, FinalMeans DEF ContentsInv
      <4>3. objs'[fds'[mapFds'[m.name]]] = objs[MapObject(m.name)]
        BY <1>2, <2>1, <2>4, <4>1, MakingKeeps
      <4> QED BY <1>2, <4>2, <4>3
    <3> QED BY <3>1, <3>2
  <2> QED BY <2>6, <2>7, <2>11, FinalMeansNext
<1> QED BY <1>1, <1>2 DEF FreezeMap

(* The k-th map's contents become c. *)
Changes(k, c) == objs' = [objs EXCEPT ![MapObject(Maps[k].name)].contents = c]

(* One made map's contents change: what is final of the others stays.         *)
LEMMA OneChanges ==
  ASSUME ContentsInv, NEW k \in DOMAIN Maps, Maps[k].name \in DOMAIN mapFds, NEW c, Changes(k, c),
         UNCHANGED <<job, mapFds>>,
         \A n \in DOMAIN mapFds : fds'[mapFds[n]] = fds[mapFds[n]],
         NEW m \in Elems(Maps), m.name \in DOMAIN mapFds
  PROVE  /\ Shaped'
         /\ m # Maps[k] => objs'[fds'[mapFds'[m.name]]] = objs[MapObject(m.name)]
         /\ m = Maps[k] => objs'[fds'[mapFds'[m.name]]].contents = c
         /\ objs'[fds'[mapFds'[m.name]]].frozen = objs[MapObject(m.name)].frozen
<1>1. PICK o : o = MapObject(Maps[k].name)
  OBVIOUS
<1>2. PICK r : r = [objs[o] EXCEPT !.contents = c]
  OBVIOUS
<1>3. objs' = [objs EXCEPT ![o] = r]
  BY <1>1, <1>2 DEF Changes
<1>4. /\ o \in DOMAIN objs /\ objs[o].what = "map" /\ objs[o].name = Maps[k].name
      /\ {"contents", "frozen"} \subseteq DOMAIN objs[o]
  BY <1>1, MadeNamed DEF ContentsInv, Shaped
<1>5. DOMAIN r = DOMAIN objs[o] /\ r.frozen = objs[o].frozen /\ r.contents = c
  BY <1>2, <1>4
<1>6. Shaped'
  BY <1>3, <1>4, <1>5 DEF ContentsInv, Shaped, Inv, ObjectsNamed
<1>7. /\ MapObject(m.name) \in DOMAIN objs /\ objs[MapObject(m.name)].name = m.name
      /\ objs'[fds'[mapFds'[m.name]]] = objs'[MapObject(m.name)]
  BY MadeNamed DEF ContentsInv
<1>8. m # Maps[k] => m.name # Maps[k].name
  BY OneMap, MapsFacts, SeqFacts DEF ContentsInv, Inv, TypeOK
<1>9. m = Maps[k] => MapObject(m.name) = o
  BY <1>1
<1> QED BY <1>3, <1>4, <1>5, <1>6, <1>7, <1>8, <1>9

(* A run finds every map made, and its end closes none of them. *)
LEMMA RunLeavesMaps ==
  ASSUME Inv, pc = "run", i <= Len(Programs), fds' = StillOpen
  PROVE  /\ DOMAIN mapFds = NamesOf(Maps) /\ IsSeq(Maps)
         /\ \A n \in DOMAIN mapFds : fds'[mapFds[n]] = fds[mapFds[n]]
<1>1. DOMAIN mapFds = NamesOf(Maps) /\ IsSeq(Maps)
  BY MapsFacts DEF Inv, TypeOK, Cursor, Later
<1>2. IsProg(P.name)
  <2>1. Len(Programs) \in Nat /\ i \in 1 .. Len(Programs) + 1
        /\ \A k \in i .. Len(Programs) : IsProg(Programs[k].name)
    BY ProgramsFacts, SeqFacts DEF Inv, TypeOK, ProgramsCursor
  <2>2. i \in i .. Len(Programs)
    BY <2>1
  <2> QED BY <2>1, <2>2 DEF P
<1>3. ASSUME NEW n \in DOMAIN mapFds PROVE fds'[mapFds[n]] = fds[mapFds[n]]
  <2>1. mapFds[n] \in DOMAIN fds /\ objs[fds[mapFds[n]]].what = "map"
    BY MadeNamed
  <2>2. mapFds[n] # progFds[P.name]
    BY <1>2, <2>1 DEF IsProg
  <2> QED BY <2>1, <2>2 DEF StillOpen
<1> QED BY <1>1, <1>3

(* A run changes no read-only map. *)
LEMMA ContentsTestRun ==
  ASSUME ContentsInv, TestRun PROVE Shaped' /\ FilledSoFar' /\ ContentsFinal'
<1>1. CASE Fails
  BY <1>1, ContentsExit DEF Fails
<1>2. ASSUME NEW v, ran' = Append(ran, v), Effect, fds' = StillOpen, pc = "run", i <= Len(Programs),
             UNCHANGED <<job, pc, mapFds>>
      PROVE  Shaped' /\ FilledSoFar' /\ ContentsFinal'
  <2>1. /\ Inv /\ DOMAIN mapFds = NamesOf(Maps) /\ Maps' = Maps /\ FilledSoFar' /\ IsSeq(Maps)
    BY <1>2, RunLeavesMaps DEF ContentsInv, Maps, FilledSoFar
  <2>2. ran' # <<>>
    <3>1. IsSeq(ran)
      BY <2>1 DEF Inv, RunsCursor
    <3>2. Len(ran') = Len(ran) + 1 /\ Len(ran) \in Nat
      BY <1>2, <3>1, AppendIsSeq, SeqFacts
    <3> QED BY <3>2
  <2>4. \A n \in DOMAIN mapFds : fds'[mapFds[n]] = fds[mapFds[n]]
    BY <1>2, <2>1, RunLeavesMaps
  <2>5. CASE UNCHANGED objs
    <3>1. Shaped'
      BY <2>5 DEF ContentsInv, Shaped
    <3>2. ASSUME NEW m \in Elems(Maps), m.name \in DOMAIN mapFds
          PROVE  FinalFor(m, objs'[fds'[mapFds'[m.name]]], ran' = <<>>)
      <4>1. FinalFor(m, objs[MapObject(m.name)], ran = <<>>)
        BY <3>2, FinalMeans DEF ContentsInv
      <4>2. objs'[fds'[mapFds'[m.name]]] = objs[MapObject(m.name)]
        BY <1>2, <2>1, <2>4, <2>5, <3>2, MadeNamed
      <4> QED BY <2>2, <4>1, <4>2 DEF FinalFor
    <3> QED BY <1>2, <2>1, <3>1, <3>2, FinalMeansNext
  <2>6. ASSUME NEW k \in DOMAIN Maps, NEW c, Maps[k].access # "ro", Changes(k, c)
        PROVE  Shaped' /\ ContentsFinal'
    <3>1. Maps[k].name \in DOMAIN mapFds /\ Maps[k] \in Elems(Maps)
      BY <2>1 DEF NamesOf, Elems
    <3>2. Shaped'
      BY <1>2, <2>4, <2>6, <3>1, OneChanges
    <3>3. ASSUME NEW m \in Elems(Maps), m.name \in DOMAIN mapFds
          PROVE  FinalFor(m, objs'[fds'[mapFds'[m.name]]], ran' = <<>>)
      <4>1. FinalFor(m, objs[MapObject(m.name)], ran = <<>>)
        BY <3>3, FinalMeans DEF ContentsInv
      <4>2. m # Maps[k] => objs'[fds'[mapFds'[m.name]]] = objs[MapObject(m.name)]
        BY <1>2, <2>4, <2>6, <3>1, <3>3, OneChanges
      <4>3. CASE m = Maps[k]
        BY <2>2, <2>6, <4>3 DEF FinalFor
      <4>4. CASE m # Maps[k]
        BY <2>2, <4>1, <4>2, <4>4 DEF FinalFor
      <4> QED BY <4>3, <4>4
    <3> QED BY <1>2, <2>1, <3>2, <3>3, FinalMeansNext
  <2> QED BY <1>2, <2>1, <2>5, <2>6 DEF Effect, Changes
<1> QED BY <1>1, <1>2 DEF TestRun

(* A report consumes the records of a ring, nothing else. *)
LEMMA ContentsReportOne ==
  ASSUME ContentsInv, ReportOne PROVE Shaped' /\ FilledSoFar' /\ ContentsFinal'
<1>1. CASE Fails
  BY <1>1, ContentsExit DEF Fails
<1>2. CASE ~Fails
  <2>1. /\ pc = "report" /\ i <= Len(Maps) /\ UNCHANGED <<job, pc, mapFds, fds, ran>>
        /\ objs' = IF M.kind = "ringbuf"
                   THEN [objs EXCEPT ![MapObject(M.name)].contents.cons
                           = objs[MapObject(M.name)].contents.prod] ELSE objs
    BY <1>2 DEF ReportOne
  <2>2. CASE M.kind # "ringbuf"
    BY <2>1, <2>2, StillKeeps, SMTT(60)
  <2>3. CASE M.kind = "ringbuf"
    <3>1. /\ job \in Jobs /\ DOMAIN mapFds = NamesOf(Maps) /\ i \in DOMAIN Maps
          /\ IsSeq(Maps) /\ Maps' = Maps
      <4>1. job \in Jobs /\ DOMAIN mapFds = NamesOf(Maps) /\ i \in Nat \ {0}
        BY <2>1 DEF ContentsInv, Reporting, Inv, TypeOK, Cursor, Later
      <4>2. IsSeq(Maps) /\ DOMAIN Maps = 1 .. Len(Maps) /\ Len(Maps) \in Nat
        BY <4>1, MapsFacts, SeqFacts, SMTT(60)
      <4> QED BY <2>1, <4>1, <4>2 DEF Maps
    <3>2. PICK c : objs' = [objs EXCEPT ![MapObject(Maps[i].name)].contents = c]
      BY <2>1, <2>3 DEF M
    <3>3. PICK k \in DOMAIN Maps : k = i
      BY <3>1
    <3>4. /\ Maps[k].name \in DOMAIN mapFds /\ Maps[k] \in Elems(Maps) /\ Maps[k].kind = "ringbuf"
          /\ Changes(k, c)
          /\ \A n \in DOMAIN mapFds : fds'[mapFds[n]] = fds[mapFds[n]]
      BY <2>1, <2>3, <3>1, <3>2, <3>3 DEF NamesOf, Elems, M, Changes
    <3>5. Shaped' /\ FilledSoFar'
      BY <2>1, <3>4, OneChanges DEF FilledSoFar
    <3>6. ASSUME NEW m \in Elems(Maps), m.name \in DOMAIN mapFds
          PROVE  FinalFor(m, objs'[fds'[mapFds'[m.name]]], ran' = <<>>)
      <4>1. FinalFor(m, objs[MapObject(m.name)], ran = <<>>)
        BY <3>6, FinalMeans DEF ContentsInv
      <4>2. /\ m # Maps[k] => objs'[fds'[mapFds'[m.name]]] = objs[MapObject(m.name)]
            /\ objs'[fds'[mapFds'[m.name]]].frozen = objs[MapObject(m.name)].frozen
        <5>1. UNCHANGED <<job, mapFds>>
          BY <2>1
        <5> QED BY <3>4, <3>6, <5>1, OneChanges
      <4>3. CASE m = Maps[k]
        BY <3>4, <4>1, <4>2, <4>3, SMTT(60) DEF FinalFor
      <4>4. CASE m # Maps[k]
        BY <2>1, <4>1, <4>2, <4>4 DEF FinalFor
      <4> QED BY <4>3, <4>4
    <3> QED BY <2>1, <3>1, <3>5, <3>6, FinalMeansNext
  <2> QED BY <2>2, <2>3
<1> QED BY <1>1, <1>2

LEMMA ReportingNext ==
  ASSUME Inv, Reporting, [Next]_vars PROVE Reporting'
<1>1. i \in Nat
  BY DEF Inv, TypeOK
<1>2. CASE UNCHANGED vars
  BY <1>2 DEF vars, toolVars, Reporting
<1>3. CASE RunsDone
  BY <1>3 DEF RunsDone, Reporting
<1>4. CASE ReportOne
  BY <1>1, <1>4 DEF ReportOne, Fails, Exit, Reporting
<1>5. ASSUME Next, ~RunsDone, ~ReportOne PROVE pc' # "report"
  <2>1. CASE Begin \/ Decline \/ NextMap \/ LoadBtf
    BY <2>1 DEF Begin, Decline, NextMap, LoadBtf, Fails, Exit
  <2>2. CASE CreateMap \/ FillEntry \/ FreezeMap
    BY <2>2 DEF CreateMap, FillEntry, FreezeMap, AfterEntries, Fails, Exit
  <2>3. CASE LoadProgram \/ ProgramsDone \/ LinkSlot \/ NextArray
    BY <2>3 DEF LoadProgram, ProgramsDone, LinkSlot, NextArray, Fails, Exit
  <2>4. CASE TestRun \/ Finish
    BY <2>4 DEF TestRun, Finish, Fails, Exit
  <2> QED BY <1>5, <2>1, <2>2, <2>3, <2>4 DEF Next
<1> QED BY <1>2, <1>3, <1>4, <1>5 DEF Reporting

LEMMA ContentsInvInit == Init => ContentsInv
<1> SUFFICES ASSUME Init PROVE ContentsInv
  OBVIOUS
<1>1. objs = <<>> /\ mapFds = Empty /\ pc = "start" /\ DOMAIN objs = {} /\ DOMAIN mapFds = {}
  BY DEF Init, Empty
<1> QED
  BY <1>1, InvInit DEF ContentsInv, Shaped, FilledSoFar, ContentsFinal, Reporting

LEMMA ContentsInvNext == ContentsInv /\ [Next]_vars => ContentsInv'
<1> SUFFICES ASSUME ContentsInv, [Next]_vars PROVE ContentsInv'
  OBVIOUS
<1>1. Inv' /\ Reporting'
  BY InvNext, ReportingNext DEF ContentsInv
<1>2. CASE UNCHANGED vars
  <2>1. UNCHANGED <<job, pc, i, j, fd, mapFds, objs, fds, ran>>
    BY <1>2 DEF vars, toolVars, kernelVars
  <2>2. ContentsFinal' /\ Shaped'
    BY <2>1, SameExtends, ExtendsKeeps DEF ContentsInv, Shaped
  <2>3. FilledSoFar'
    BY <2>1 DEF ContentsInv, FilledSoFar, M, Maps, Made, FilledTo, HoldsDeclared, Declared
  <2> QED BY <1>1, <2>2, <2>3 DEF ContentsInv
<1>3. CASE Decline
  BY <1>1, <1>3, ContentsExit DEF Decline, Fails, ContentsInv
<1>4. CASE Begin \/ NextMap \/ ProgramsDone \/ NextArray \/ RunsDone \/ Finish
  BY <1>1, <1>4, StillKeeps
  DEF ContentsInv, Begin, NextMap, ProgramsDone, NextArray, RunsDone, Finish, kernelVars
<1>5. CASE LinkSlot
  <2>1. CASE Fails
    BY <1>1, <2>1, ContentsExit DEF Fails, ContentsInv
  <2>2. CASE ~Fails
    BY <1>1, <1>5, <2>2, StillKeeps DEF ContentsInv, LinkSlot
  <2> QED BY <2>1, <2>2
<1>6. CASE LoadBtf \/ CreateMap \/ FillEntry \/ FreezeMap \/ LoadProgram \/ TestRun \/ ReportOne
  BY <1>1, <1>6, ContentsLoadBtf, ContentsCreateMap, ContentsFillEntry, ContentsFreezeMap,
     ContentsLoadProgram, ContentsTestRun, ContentsReportOne DEF ContentsInv
<1> QED BY <1>2, <1>3, <1>4, <1>5, <1>6 DEF Next

(* Whatever the document, the failures, the descriptors and what programs do  *)
(* to the maps they may write: an array holds what the document gives it from *)
(* the end of its making to the first run, and a read-only map is frozen and  *)
(* holds it for good (load.py, create_map).                                   *)
THEOREM ContentsStay == Spec => []ContentsFinal
<1>1. ContentsInv => ContentsFinal
  BY DEF ContentsInv
<1> QED BY <1>1, ContentsInvInit, ContentsInvNext, PTL DEF Spec

-----------------------------------------------------------------------------
(* Looking up by name and by index. *)

(* The first of a set of indices. *)
LEMMA First ==
  ASSUME NEW T, T \subseteq Nat, T # {}
  PROVE  (CHOOSE k \in T : \A l \in T : k <= l) \in T
<1>1. \E k \in T : \A l \in T : k <= l
  BY LeastElement
<1> QED BY <1>1

(* The programs asked for are the document's. *)
LEMMA NamedIs ==
  ASSUME NEW s, DistinctNames(s), NEW k \in DOMAIN s
  PROVE  Named(s, s[k].name) = s[k]
<1>1. (CHOOSE l \in DOMAIN s : s[l].name = s[k].name) = k
  BY DEF DistinctNames
<1> QED BY <1>1 DEF Named

LEMMA ProgramIs ==
  ASSUME job \in Jobs, NEW k \in 1 .. Len(Programs)
  PROVE  /\ Programs[k] \in Elems(job.programs)
         /\ Named(job.programs, Programs[k].name) = Programs[k]
<1>1. IsSeq(job.programs) /\ DistinctNames(job.programs)
  BY LoaderAssumption DEF IsSeq
<1>2. PICK n \in DOMAIN job.programs : Programs[k] = job.programs[n]
  <2>1. CASE job.only = None
    BY <1>1, <2>1, SeqFacts DEF Programs
  <2>2. CASE job.only # None /\ job.only \in NamesOf(job.programs)
    <3>1. Programs = << Named(job.programs, job.only) >>
      BY <2>2 DEF Programs
    <3>2. PICK n \in DOMAIN job.programs : job.programs[n].name = job.only
      BY <2>2 DEF NamesOf
    <3>3. Named(job.programs, job.only) = job.programs[n]
      BY <1>1, <3>2, NamedIs
    <3> QED BY <3>1, <3>3
  <2>3. CASE job.only # None /\ job.only \notin NamesOf(job.programs)
    BY <2>3, SMTT(60) DEF Programs
  <2> QED BY <2>1, <2>2, <2>3
<1> QED BY <1>1, <1>2, NamedIs DEF Elems

-----------------------------------------------------------------------------
(* Patching: each relocation changes its own words, and only them. *)

(* What a relocation leaves in the words it is for. *)
Patched(w, r, mapFd, kfunc) ==
  IF r.kind = "kfunc"
  THEN w[r.index + 1].src = PseudoKfuncCall /\ w[r.index + 1].imm = kfunc[r.target]
  ELSE /\ w[r.index + 1].src = (IF r.kind = "map_fd" THEN PseudoMapFd ELSE PseudoMapValue)
       /\ w[r.index + 1].imm = mapFd[r.target]
       /\ r.kind = "map_value" => w[r.index + 2].imm = r.offset

(* The words after the first n relocations. *)
PatchedTo(p, w, n, mapFd, kfunc) ==
  /\ DOMAIN w = DOMAIN p.words
  /\ \A k \in DOMAIN p.words :
       /\ DOMAIN w[k] = {"op", "src", "imm"} /\ w[k].op = p.words[k].op
       /\ (\A l \in 1 .. n : p.relocs[l].index + 1 # k) => w[k].src = p.words[k].src
  /\ \A l \in 1 .. n : Patched(w, p.relocs[l], mapFd, kfunc)

LEMMA EncodedFacts ==
  ASSUME NEW p, NEW maps, Encoded(p, maps)
  PROVE  /\ IsSeq(p.words) /\ IsSeq(p.relocs)
         /\ \A k \in DOMAIN p.words :
              /\ DOMAIN p.words[k] = {"op", "src", "imm"}
              /\ p.words[k].op = "call" => p.words[k].src # PseudoKfuncCall
              /\ p.words[k].op = "lddw" /\ p.words[k].src # 0 =>
                   \E l \in 1 .. Len(p.relocs) : p.relocs[l].index + 1 = k
         /\ \A l \in 1 .. Len(p.relocs) :
              LET r == p.relocs[l]
              IN /\ r.kind \in {"map_fd", "map_value", "kfunc"}
                 /\ r.index \in Nat /\ r.index + 1 \in DOMAIN p.words
                 /\ r.kind = "kfunc" => p.words[r.index + 1].op = "call"
                 /\ r.kind # "kfunc" => /\ r.target \in NamesOf(maps)
                                        /\ p.words[r.index + 1].op = "lddw"
                                        /\ r.index + 2 \in DOMAIN p.words
                                        /\ p.words[r.index + 2].op = "rest"
         /\ \A k, l \in 1 .. Len(p.relocs) : p.relocs[k].index = p.relocs[l].index => k = l
<1>1. IsSeq(p.words) /\ IsSeq(p.relocs)
  BY DEF Encoded, IsSeq
<1>2. /\ DOMAIN p.relocs = 1 .. Len(p.relocs)
      /\ \A l \in 1 .. Len(p.relocs) : p.relocs[l] \in Elems(p.relocs)
      /\ \A r \in Elems(p.relocs) : \E l \in 1 .. Len(p.relocs) : r = p.relocs[l]
  BY <1>1, SeqFacts DEF Elems
<1>3. \A k \in DOMAIN p.words : p.words[k] \in Elems(p.words)
  BY DEF Elems
<1>4. ASSUME NEW k \in DOMAIN p.words
      PROVE  /\ DOMAIN p.words[k] = {"op", "src", "imm"}
             /\ p.words[k].op = "call" => p.words[k].src # PseudoKfuncCall
             /\ p.words[k].op = "lddw" /\ p.words[k].src # 0 =>
                  \E l \in 1 .. Len(p.relocs) : p.relocs[l].index + 1 = k
  <2>1. p.words[k] \in Elems(p.words)
    BY <1>3
  <2>2. p.words[k].op = "lddw" /\ p.words[k].src # 0 => \E r \in Elems(p.relocs) : r.index + 1 = k
    BY DEF Encoded
  <2>3. p.words[k].op = "lddw" /\ p.words[k].src # 0 =>
          \E l \in 1 .. Len(p.relocs) : p.relocs[l].index + 1 = k
    BY <1>2, <2>2
  <2> QED BY <2>1, <2>3 DEF Encoded
<1>5. ASSUME NEW r \in Elems(p.relocs)
      PROVE  /\ r.kind \in {"map_fd", "map_value", "kfunc"}
             /\ r.index \in Nat /\ r.index + 1 \in DOMAIN p.words
             /\ r.kind = "kfunc" => p.words[r.index + 1].op = "call"
             /\ r.kind # "kfunc" => /\ r.target \in NamesOf(maps)
                                    /\ p.words[r.index + 1].op = "lddw"
                                    /\ r.index + 2 \in DOMAIN p.words
                                    /\ p.words[r.index + 2].op = "rest"
  BY DEF Encoded
<1>6. \A k, l \in 1 .. Len(p.relocs) : p.relocs[k].index = p.relocs[l].index => k = l
  BY <1>2 DEF Encoded
<1> QED BY <1>1, <1>2, <1>4, <1>5, <1>6

(* One relocation more. *)
LEMMA PatchOneMore ==
  ASSUME NEW p, NEW maps, Encoded(p, maps), NEW mapFd, NEW kfunc, NEW n \in 1 .. Len(p.relocs),
         NEW w, PatchedTo(p, w, n - 1, mapFd, kfunc)
  PROVE  PatchedTo(p, PatchOne(w, p.relocs[n], mapFd, kfunc), n, mapFd, kfunc)
<1>1. PICK N \in Nat : N = Len(p.relocs)
  BY EncodedFacts, SeqFacts
<1>2. PICK r : r = p.relocs[n]
  OBVIOUS
<1>3. PICK a \in Nat : a = r.index + 1 /\ r.index \in Nat /\ a \in DOMAIN p.words /\ r.index + 2 = a + 1
  <2>1. r.index \in Nat /\ r.index + 1 \in DOMAIN p.words
    BY <1>2, EncodedFacts
  <2> QED BY <2>1
<1>4. PICK v : v = PatchOne(w, r, mapFd, kfunc)
  OBVIOUS
<1>5. /\ DOMAIN w = DOMAIN p.words
      /\ \A k \in DOMAIN p.words : DOMAIN w[k] = {"op", "src", "imm"} /\ w[k].op = p.words[k].op
  BY DEF PatchedTo
(* The words it is for, and those it is not. *)
<1>6. /\ DOMAIN v = DOMAIN p.words
      /\ \A k \in DOMAIN p.words : k # a /\ (r.kind = "kfunc" \/ k # a + 1) => v[k] = w[k]
      /\ DOMAIN v[a] = {"op", "src", "imm"} /\ v[a].op = w[a].op
      /\ r.kind # "kfunc" => /\ DOMAIN v[a + 1] = {"op", "src", "imm"}
                             /\ v[a + 1].op = w[a + 1].op /\ v[a + 1].src = w[a + 1].src
      /\ Patched(v, r, mapFd, kfunc)
  <2>1. CASE r.kind = "kfunc"
    <3>1. PICK x : x = [w[a] EXCEPT !.src = PseudoKfuncCall, !.imm = kfunc[r.target]]
      OBVIOUS
    <3>2. v = [w EXCEPT ![a] = x]
      BY <1>3, <1>4, <2>1, <3>1 DEF PatchOne
    <3>3. /\ DOMAIN x = {"op", "src", "imm"} /\ x.op = w[a].op
          /\ x.src = PseudoKfuncCall /\ x.imm = kfunc[r.target]
      BY <1>3, <1>5, <3>1
    <3> QED BY <1>3, <1>5, <2>1, <3>2, <3>3 DEF Patched
  <2>2. CASE r.kind # "kfunc"
    <3>1. PICK x : x = [w[a] EXCEPT !.src = IF r.kind = "map_fd" THEN PseudoMapFd ELSE PseudoMapValue,
                                    !.imm = mapFd[r.target]]
      OBVIOUS
    <3>2. PICK y : y = [w[a + 1] EXCEPT !.imm = IF r.kind = "map_value" THEN r.offset ELSE @]
      OBVIOUS
    <3>3. a + 1 \in DOMAIN p.words
      BY <1>2, <1>3, <2>2, EncodedFacts, SMTT(60)
    <3>4. /\ DOMAIN v = DOMAIN p.words /\ v[a] = x /\ v[a + 1] = y
          /\ \A k \in DOMAIN p.words : k # a /\ k # a + 1 => v[k] = w[k]
      <4>1. PICK c : c = IF r.kind = "map_fd" THEN PseudoMapFd ELSE PseudoMapValue
        OBVIOUS
      <4>2. PICK f : f = mapFd[r.target]
        BY SMTT(60)
      <4>3. v = [w EXCEPT ![a].src = c, ![a].imm = f,
                          ![a + 1].imm = IF r.kind = "map_value" THEN r.offset ELSE @]
        BY <1>3, <1>4, <2>2, <4>1, <4>2 DEF PatchOne
      <4>4. a # a + 1
        OBVIOUS
      <4>5. v[a] = [w[a] EXCEPT !.src = c, !.imm = f]
        BY <1>3, <1>5, <3>3, <4>3, <4>4
      <4>6. v[a + 1] = y
        BY <1>5, <3>2, <3>3, <4>3, <4>4
      <4>7. v[a] = x
        BY <3>1, <4>1, <4>2, <4>5
      <4> QED BY <1>5, <4>3, <4>6, <4>7
    <3>5. /\ DOMAIN x = {"op", "src", "imm"} /\ x.op = w[a].op
          /\ x.src = (IF r.kind = "map_fd" THEN PseudoMapFd ELSE PseudoMapValue)
          /\ x.imm = mapFd[r.target]
      BY <1>3, <1>5, <3>1
    <3>6. /\ DOMAIN y = {"op", "src", "imm"} /\ y.op = w[a + 1].op /\ y.src = w[a + 1].src
          /\ r.kind = "map_value" => y.imm = r.offset
      BY <1>5, <3>2, <3>3
    <3>7. Patched(v, r, mapFd, kfunc)
      BY <1>3, <2>2, <3>4, <3>5, <3>6 DEF Patched
    <3> QED BY <2>2, <3>4, <3>5, <3>6, <3>7
  <2> QED BY <2>1, <2>2
<1>7. \A k \in DOMAIN p.words : DOMAIN v[k] = {"op", "src", "imm"} /\ v[k].op = p.words[k].op
  BY <1>5, <1>6
<1>8. ASSUME NEW k \in DOMAIN p.words, \A l \in 1 .. n : p.relocs[l].index + 1 # k
      PROVE  v[k].src = p.words[k].src
  <2>1. k # a /\ \A l \in 1 .. n - 1 : p.relocs[l].index + 1 # k
    <3>1. n \in 1 .. n /\ \A l \in 1 .. n - 1 : l \in 1 .. n
      BY <1>1
    <3> QED BY <1>2, <1>3, <1>8, <3>1
  <2>2. w[k].src = p.words[k].src
    BY <2>1 DEF PatchedTo
  <2> QED BY <1>6, <2>1, <2>2
<1>9. ASSUME NEW l \in 1 .. n PROVE Patched(v, p.relocs[l], mapFd, kfunc)
  <2>1. CASE l = n
    BY <1>2, <1>6, <2>1
  <2>2. CASE l # n
    <3>1. l \in 1 .. n - 1 /\ l \in 1 .. Len(p.relocs) /\ n \in 1 .. Len(p.relocs)
      BY <1>1, <2>2
    <3>2. PICK q : q = p.relocs[l] /\ Patched(w, q, mapFd, kfunc)
      BY <3>1 DEF PatchedTo
    <3>3. PICK b \in Nat : /\ b = q.index + 1 /\ q.index \in Nat /\ q.index + 2 = b + 1
                           /\ b \in DOMAIN p.words
      <4>1. q.index \in Nat /\ q.index + 1 \in DOMAIN p.words
        BY <3>1, <3>2, EncodedFacts
      <4> QED BY <4>1, SMTT(60)
    <3>4. b # a
      <4>1. q.index # r.index
        BY <1>2, <2>2, <3>1, <3>2, EncodedFacts
      <4> QED BY <1>3, <3>3, <4>1, SMTT(60)
    (* No relocation is for the second word of another. *)
    <3>5. /\ p.words[a].op # "rest" /\ p.words[b].op # "rest"
          /\ r.kind # "kfunc" => p.words[a + 1].op = "rest"
          /\ q.kind # "kfunc" => p.words[b + 1].op = "rest" /\ b + 1 \in DOMAIN p.words
      <4>1. ASSUME NEW m \in 1 .. Len(p.relocs)
            PROVE  LET s == p.relocs[m]
                   IN /\ p.words[s.index + 1].op # "rest"
                      /\ s.kind # "kfunc" => /\ p.words[s.index + 2].op = "rest"
                                             /\ s.index + 2 \in DOMAIN p.words
        BY EncodedFacts, SMTT(60)
      <4> QED BY <1>2, <1>3, <3>1, <3>2, <3>3, <4>1
    <3>6. v[b] = w[b]
      BY <1>6, <3>3, <3>4, <3>5
    <3>7. q.kind # "kfunc" => v[b + 1] = w[b + 1]
      <4> SUFFICES ASSUME q.kind # "kfunc" PROVE v[b + 1] = w[b + 1]
        OBVIOUS
      <4>1. b + 1 \in DOMAIN p.words /\ b + 1 # a /\ b + 1 # a + 1
        BY <3>3, <3>4, <3>5, SMTT(60)
      <4> QED BY <1>6, <4>1
    <3> QED BY <3>2, <3>3, <3>6, <3>7 DEF Patched
  <2> QED BY <2>1, <2>2
<1> QED BY <1>2, <1>4, <1>6, <1>7, <1>8, <1>9 DEF PatchedTo

(* All of them. *)
LEMMA PatchAll ==
  ASSUME NEW p, NEW maps, Encoded(p, maps), NEW mapFd, NEW kfunc
  PROVE  PatchedTo(p, Patch(p.words, p.relocs, mapFd, kfunc), Len(p.relocs), mapFd, kfunc)
<1>1. PICK N \in Nat : N = Len(p.relocs) /\ IsSeq(p.words)
  BY EncodedFacts, SeqFacts
<1> DEFINE One(w, k) == PatchOne(w, p.relocs[k], mapFd, kfunc)
           Upto(n, g) == /\ g = [k \in 0 .. n |-> g[k]] /\ g[0] = p.words
                         /\ \A k \in 1 .. n : g[k] = One(g[k - 1], k)
           S == {n \in Nat : \E g : Upto(n, g)}
<1> HIDE DEF One
<1>2. 0 \in S
  <2>1. PICK g : g = [k \in 0 .. 0 |-> p.words]
    OBVIOUS
  <2>2. Upto(0, g)
    BY <2>1
  <2> QED BY <2>2
<1>3. ASSUME NEW n \in Nat, n \in S PROVE n + 1 \in S
  <2>1. PICK g : Upto(n, g)
    BY <1>3
  <2>2. PICK h : h = [k \in 0 .. n + 1 |-> IF k = n + 1 THEN One(g[n], n + 1) ELSE g[k]]
    OBVIOUS
  <2>3. Upto(n + 1, h)
    <3>1. h = [k \in 0 .. n + 1 |-> h[k]]
      BY <2>2
    <3>2. h[0] = p.words /\ h[n + 1] = One(g[n], n + 1) /\ \A k \in 0 .. n : h[k] = g[k]
      BY <2>1, <2>2
    <3>3. ASSUME NEW k \in 1 .. n + 1 PROVE h[k] = One(h[k - 1], k)
      <4>1. CASE k = n + 1
        <5>1. k - 1 = n /\ n \in 0 .. n
          BY <4>1
        <5> QED BY <3>2, <4>1, <5>1
      <4>2. CASE k \in 1 .. n
        <5>1. k \in 0 .. n /\ k - 1 \in 0 .. n
          BY <4>2
        <5> QED BY <2>1, <3>2, <4>2, <5>1
      <4> QED BY <4>1, <4>2
    <3> QED BY <3>1, <3>2, <3>3
  <2> HIDE DEF Upto
  <2> QED BY <2>3
<1>4. PICK g : Upto(N, g)
  <2>1. Nat \subseteq S
    <3> HIDE DEF S
    <3> QED BY <1>2, <1>3, SetInduction
  <2> QED BY <2>1
<1>5. g = [k \in 0 .. N |-> IF k = 0 THEN p.words ELSE One(g[k - 1], k)]
  BY <1>4
<1>6. PICK f : /\ f = [k \in 0 .. N |-> IF k = 0 THEN p.words ELSE One(f[k - 1], k)]
               /\ Patch(p.words, p.relocs, mapFd, kfunc) = f[N]
  <2>1. Patch(p.words, p.relocs, mapFd, kfunc) =
          (CHOOSE f : f = [k \in 0 .. N |-> IF k = 0 THEN p.words ELSE One(f[k - 1], k)])[N]
    BY <1>1 DEF Patch, One
  <2> QED BY <1>5, <2>1
<1> DEFINE T == {n \in Nat : n <= N => PatchedTo(p, f[n], n, mapFd, kfunc)}
<1>7. 0 \in T
  <2>1. f[0] = p.words
    BY <1>6
  <2>2. PatchedTo(p, p.words, 0, mapFd, kfunc)
    BY EncodedFacts DEF PatchedTo
  <2> QED BY <2>1, <2>2
<1>8. ASSUME NEW n \in Nat, n \in T PROVE n + 1 \in T
  <2> SUFFICES ASSUME n + 1 <= N PROVE PatchedTo(p, f[n + 1], n + 1, mapFd, kfunc)
    OBVIOUS
  <2>1. n + 1 \in 1 .. N /\ (n + 1) - 1 = n /\ n <= N
    OBVIOUS
  <2>2. f[n + 1] = One(f[n], n + 1)
    BY <1>6, <2>1
  <2>3. PatchedTo(p, f[n], n, mapFd, kfunc)
    BY <1>8, <2>1
  <2> QED BY <1>1, <2>1, <2>2, <2>3, PatchOneMore DEF One
<1>9. Nat \subseteq T
  <2> HIDE DEF T
  <2> QED BY <1>7, <1>8, SetInduction
<1>10. N \in T
  BY <1>9
<1> QED BY <1>1, <1>6, <1>10

(* The first function of a name. *)
LEMMA KfuncIdIs ==
  ASSUME NEW types, types \in Seq(Elems(types)), \A t \in Elems(types) : t = [kind |-> t.kind, name |-> t.name],
         NEW name, KfuncId(types, name) # 0
  PROVE  types[KfuncId(types, name)] = [kind |-> "func", name |-> name]
<1>1. PICK at : at = {k \in DOMAIN types : types[k].kind = "func" /\ types[k].name = name}
  OBVIOUS
<1>2. PICK id : id = KfuncId(types, name)
  OBVIOUS
<1>3. id = IF at = {} THEN 0 ELSE CHOOSE k \in at : \A l \in at : k <= l
  BY <1>1, <1>2 DEF KfuncId
<1>4. at # {} /\ id = CHOOSE k \in at : \A l \in at : k <= l
  BY <1>2, <1>3
<1>5. id \in at
  <2>1. at \subseteq Nat
    BY <1>1, SeqFacts DEF IsSeq
  <2> QED BY <1>4, <2>1, First
<1>6. PICK t : t = types[id] /\ t \in Elems(types) /\ t.kind = "func" /\ t.name = name
  BY <1>1, <1>5 DEF Elems
<1> QED BY <1>2, <1>6

-----------------------------------------------------------------------------
(* What a loaded program names. *)

(* RefsResolve of one program among the kernel's objects. *)
RefsOf(unit, o, table) ==
  LET p == Named(unit.programs, o.name)
  IN /\ DOMAIN o.refs = {r.index + 1 : r \in Elems(p.relocs)}
     /\ \A r \in Elems(p.relocs) :
          LET ref == o.refs[r.index + 1]
          IN IF r.kind = "kfunc"
             THEN ref.to = "kfunc" /\ unit.vmlinux[ref.object] = [kind |-> "func", name |-> r.target]
             ELSE /\ ref.object \in DOMAIN table
                  /\ table[ref.object].what = "map" /\ table[ref.object].name = r.target
                  /\ ref.to = IF r.kind = "map_value" THEN "value" ELSE "map"
                  /\ ref.offset = IF r.kind = "map_value" THEN r.offset ELSE 0

KfuncsFound ==
  \A n \in KfuncNames : /\ job.vmlinux # None /\ n \in DOMAIN kfuncIds
                        /\ kfuncIds[n] = KfuncId(job.vmlinux, n) /\ kfuncIds[n] # 0

RefsInv ==
  /\ Inv /\ Reporting
  /\ pc \notin {"start", "exited"} => KfuncsFound
  /\ \A o \in DOMAIN objs : objs[o].what = "prog" => RefsOf(job, objs[o], objs)

LEMMA RefsInvMeans == RefsInv => RefsResolve
<1> SUFFICES ASSUME RefsInv, NEW o \in Elems(objs), o.what = "prog"
             PROVE  RefsOf(job, o, objs)
  BY DEF RefsResolve, RefsOf
<1>1. PICK k \in DOMAIN objs : o = objs[k]
  BY SMTT(60) DEF Elems
<1> QED BY <1>1, SMTT(60) DEF RefsInv

LEMMA ResolvedIs ==
  ASSUME Inv, KfuncsFound, pc = "programs", i <= Len(Programs)
  PROVE  LET w == Patch(P.words, P.relocs, mapFds, kfuncIds)
         IN /\ DOMAIN Resolved(w) = {r.index + 1 : r \in Elems(P.relocs)}
            /\ \A r \in Elems(P.relocs) :
                 LET ref == Resolved(w)[r.index + 1]
                 IN IF r.kind = "kfunc"
                    THEN ref.to = "kfunc" /\ job.vmlinux[ref.object] = [kind |-> "func", name |-> r.target]
                    ELSE /\ ref.object \in DOMAIN objs
                         /\ objs[ref.object].what = "map" /\ objs[ref.object].name = r.target
                         /\ ref.to = IF r.kind = "map_value" THEN "value" ELSE "map"
                         /\ ref.offset = IF r.kind = "map_value" THEN r.offset ELSE 0
<1>1. job \in Jobs /\ i \in 1 .. Len(Programs)
  <2>1. job \in Jobs /\ Len(Programs) \in Nat
    BY ProgramsFacts, SeqFacts DEF Inv, TypeOK
  <2> QED BY <2>1 DEF Inv, ProgramsCursor
<1>2. PICK p : p = P /\ p \in Elems(job.programs) /\ Encoded(p, Maps)
  BY <1>1, ProgramIs, RelocsAssumption DEF P, Maps
<1>3. PICK w : w = Patch(p.words, p.relocs, mapFds, kfuncIds)
  OBVIOUS
<1>4. PICK N \in Nat : N = Len(p.relocs) /\ PatchedTo(p, w, N, mapFds, kfuncIds)
  BY <1>2, <1>3, PatchAll, EncodedFacts, SeqFacts
<1>5. Elems(p.relocs) = {p.relocs[l] : l \in 1 .. N}
  BY <1>2, <1>4, EncodedFacts, SeqFacts DEF Elems
<1>6. PICK D : D = {k \in DOMAIN w : \/ w[k].op = "lddw" /\ w[k].src # 0
                                     \/ w[k].op = "call" /\ w[k].src = PseudoKfuncCall}
  OBVIOUS
<1>7. PICK f : /\ f = Resolved(w)
               /\ f = [k \in D |->
                        IF w[k].op = "call" THEN [to |-> "kfunc", object |-> w[k].imm, offset |-> 0]
                        ELSE IF w[k].src = PseudoMapFd
                             THEN [to |-> "map", object |-> fds[w[k].imm], offset |-> 0]
                        ELSE [to |-> "value", object |-> fds[w[k].imm], offset |-> w[k + 1].imm]]
  <2>1. Resolved(w) = [k \in D |->
                        IF w[k].op = "call" THEN [to |-> "kfunc", object |-> w[k].imm, offset |-> 0]
                        ELSE IF w[k].src = PseudoMapFd
                             THEN [to |-> "map", object |-> fds[w[k].imm], offset |-> 0]
                        ELSE [to |-> "value", object |-> fds[w[k].imm], offset |-> w[k + 1].imm]]
    BY <1>6 DEF Resolved
  <2> QED BY <2>1
(* A relocated word names what its relocation says. *)
<1>8. ASSUME NEW l \in 1 .. N
      PROVE  LET r == p.relocs[l]
                 ref == f[r.index + 1]
             IN /\ r.index + 1 \in D
                /\ r.kind = "kfunc" =>
                     ref.to = "kfunc" /\ job.vmlinux[ref.object] = [kind |-> "func", name |-> r.target]
                /\ r.kind # "kfunc" =>
                     /\ ref.object \in DOMAIN objs
                     /\ objs[ref.object].what = "map" /\ objs[ref.object].name = r.target
                     /\ ref.to = IF r.kind = "map_value" THEN "value" ELSE "map"
                     /\ ref.offset = IF r.kind = "map_value" THEN r.offset ELSE 0
  <2>1. PICK r : r = p.relocs[l] /\ r \in Elems(p.relocs)
    BY <1>5
  <2>2. PICK a : /\ a = r.index + 1 /\ a \in DOMAIN p.words /\ r.index + 2 = a + 1
                 /\ r.kind \in {"map_fd", "map_value", "kfunc"}
                 /\ r.kind = "kfunc" => p.words[a].op = "call"
                 /\ r.kind # "kfunc" => p.words[a].op = "lddw" /\ r.target \in NamesOf(Maps)
    <3>1. r.index \in Nat => r.index + 2 = (r.index + 1) + 1
      OBVIOUS
    <3> QED BY <1>2, <1>4, <2>1, <3>1, EncodedFacts, SMTT(60)
  <2>3. Patched(w, r, mapFds, kfuncIds) /\ a \in DOMAIN w /\ w[a].op = p.words[a].op
    BY <1>4, <2>1, <2>2 DEF PatchedTo
  <2>4. CASE r.kind = "kfunc"
    <3>1. w[a].op = "call" /\ w[a].src = PseudoKfuncCall /\ w[a].imm = kfuncIds[r.target]
      BY <2>2, <2>3, <2>4 DEF Patched
    <3>2. r.target \in KfuncNames
      BY <1>1, <1>2, <2>1, <2>4, ProgramsFacts, SeqFacts DEF KfuncNames, P
    <3>3. job.vmlinux[kfuncIds[r.target]] = [kind |-> "func", name |-> r.target]
      BY <1>1, <3>2, KfuncIdIs, RelocsAssumption DEF KfuncsFound
    <3>4. a \in D /\ f[a] = [to |-> "kfunc", object |-> w[a].imm, offset |-> 0]
      BY <1>6, <1>7, <2>3, <3>1, SMTT(60)
    <3> QED BY <2>1, <2>2, <2>4, <3>1, <3>3, <3>4
  <2>5. CASE r.kind # "kfunc"
    <3>1. /\ w[a].op = "lddw" /\ w[a].imm = mapFds[r.target]
          /\ w[a].src = (IF r.kind = "map_fd" THEN PseudoMapFd ELSE PseudoMapValue)
          /\ r.kind = "map_value" => w[a + 1].imm = r.offset
      BY <2>2, <2>3, <2>5 DEF Patched
    <3>2. r.target \in DOMAIN mapFds
      BY <2>2, <2>5 DEF Inv, Cursor, Later
    <3>3. PICK o : /\ o = fds[mapFds[r.target]] /\ o \in DOMAIN objs
                   /\ objs[o].what = "map" /\ objs[o].name = r.target
      BY <3>2, MadeNamed
    <3>4. a \in D
      <4>1. w[a].src # 0
        BY <3>1, SMTT(60) DEF PseudoMapFd, PseudoMapValue
      <4> QED BY <1>6, <2>3, <3>1, <4>1
    <3>5. CASE r.kind = "map_fd"
      <4>1. f[a] = [to |-> "map", object |-> o, offset |-> 0]
        BY <1>7, <3>1, <3>3, <3>4, <3>5, SMTT(60)
      <4> QED BY <2>1, <2>2, <2>5, <3>3, <3>4, <3>5, <4>1
    <3>6. CASE r.kind = "map_value"
      <4>1. f[a] = [to |-> "value", object |-> o, offset |-> r.offset]
        BY <1>7, <3>1, <3>3, <3>4, <3>6, SMTT(60) DEF PseudoMapFd, PseudoMapValue
      <4> QED BY <2>1, <2>2, <2>5, <3>3, <3>4, <3>6, <4>1
    <3> QED BY <2>2, <2>5, <3>5, <3>6
  <2> QED BY <2>4, <2>5
(* No other word names anything. *)
<1>9. ASSUME NEW k \in D PROVE \E l \in 1 .. N : k = p.relocs[l].index + 1
  <2> SUFFICES ASSUME \A l \in 1 .. N : p.relocs[l].index + 1 # k PROVE FALSE
    OBVIOUS
  <2>1. k \in DOMAIN p.words /\ w[k].op = p.words[k].op /\ w[k].src = p.words[k].src
    BY <1>4, <1>6 DEF PatchedTo
  <2> QED BY <1>2, <1>4, <1>6, <2>1, EncodedFacts
<1>10. DOMAIN f = {r.index + 1 : r \in Elems(p.relocs)}
  <2>1. DOMAIN f = D
    BY <1>7, SMTT(60)
  <2>2. \A k : k \in D <=> \E l \in 1 .. N : k = p.relocs[l].index + 1
    BY <1>8, <1>9
  <2>3. \A k : k \in {r.index + 1 : r \in Elems(p.relocs)} <=> \E l \in 1 .. N : k = p.relocs[l].index + 1
    BY <1>5
  <2> QED BY <2>1, <2>2, <2>3
<1>11. ASSUME NEW r \in Elems(p.relocs)
       PROVE  LET ref == f[r.index + 1]
              IN IF r.kind = "kfunc"
                 THEN ref.to = "kfunc" /\ job.vmlinux[ref.object] = [kind |-> "func", name |-> r.target]
                 ELSE /\ ref.object \in DOMAIN objs
                      /\ objs[ref.object].what = "map" /\ objs[ref.object].name = r.target
                      /\ ref.to = IF r.kind = "map_value" THEN "value" ELSE "map"
                      /\ ref.offset = IF r.kind = "map_value" THEN r.offset ELSE 0
  <2>1. PICK l \in 1 .. N : r = p.relocs[l]
    BY <1>5
  <2> QED BY <1>8, <2>1
<1>12. f = Resolved(Patch(P.words, P.relocs, mapFds, kfuncIds))
  BY <1>2, <1>3, <1>7, SMTT(60)
<1> QED BY <1>2, <1>10, <1>11, <1>12

ProgramsResolved == \A o \in DOMAIN objs : objs[o].what = "prog" => RefsOf(job, objs[o], objs)

(* A program's object stays as it is, and what it names keeps its name. *)
ProgramsStay ==
  /\ Grown(objs, objs')
  /\ \A o \in DOMAIN objs : objs[o].what = "prog" => objs'[o] = objs[o]

LEMMA RefsStay ==
  ASSUME ProgramsStay, ProgramsResolved, job' = job,
         \A o \in DOMAIN objs' \ DOMAIN objs : objs'[o].what = "prog" => RefsOf(job, objs'[o], objs)
  PROVE  ProgramsResolved'
<1> SUFFICES ASSUME NEW o \in DOMAIN objs', objs'[o].what = "prog"
             PROVE  RefsOf(job', objs'[o], objs')
  BY DEF ProgramsResolved
<1>1. RefsOf(job, objs'[o], objs)
  BY DEF ProgramsStay, ProgramsResolved, Grown
<1>2. \A k \in DOMAIN objs : /\ k \in DOMAIN objs' /\ objs'[k].what = objs[k].what
                             /\ objs'[k].name = objs[k].name
  BY SMTT(60) DEF ProgramsStay, Grown
<1>3. RefsOf(job, objs'[o], objs')
  BY <1>1, <1>2, ZenonT(60) DEF RefsOf
<1> QED BY <1>3 DEF RefsOf

LEMMA SameStay ==
  ASSUME Inv, objs' = objs PROVE ProgramsStay
  BY GrownSame DEF ProgramsStay, Inv

(* A call on a map. *)
LEMMA MapChanges ==
  ASSUME Inv, NEW o \in DOMAIN objs, objs[o].what = "map", NEW e, objs' = [objs EXCEPT ![o] = e],
         Grown(objs, objs')
  PROVE  ProgramsStay
  BY DEF ProgramsStay

(* A new object. *)
LEMMA NewStays ==
  ASSUME Inv, NEW d \in Fds, NEW o, "what" \in DOMAIN o, "name" \in DOMAIN o, NewObject(d, o)
  PROVE  /\ ProgramsStay
         /\ \A k \in DOMAIN objs' \ DOMAIN objs : objs'[k] = o
<1>1. objs' = Append(objs, o) /\ IsSeq(objs) /\ Grown(objs, objs')
  BY Created DEF NewObject, Inv, ObjectsNamed
<1>2. PICK n \in Nat : n = Len(objs) /\ DOMAIN objs = 1 .. n
  BY <1>1, SeqFacts
<1>3. /\ DOMAIN objs' = 1 .. n + 1 /\ objs'[n + 1] = o
      /\ \A k \in 1 .. n : objs'[k] = objs[k]
  BY <1>1, <1>2, AppendIsSeq
<1>4. \A k \in DOMAIN objs' \ DOMAIN objs : k = n + 1
  BY <1>2, <1>3
<1> QED BY <1>1, <1>2, <1>3, <1>4 DEF ProgramsStay

LEMMA RefsMaking ==
  ASSUME RefsInv, LoadBtf \/ CreateMap \/ FillEntry \/ FreezeMap
  PROVE  ProgramsResolved'
<1>1. Inv /\ ProgramsResolved
  BY DEF RefsInv, ProgramsResolved
<1>2. CASE UNCHANGED <<job, objs>>
  BY <1>1, <1>2, SameStay, RefsStay
<1>3. ASSUME NEW d \in Fds, NEW o, "what" \in DOMAIN o, "name" \in DOMAIN o, o.what # "prog",
             NewObject(d, o), job' = job
      PROVE  ProgramsResolved'
  <2>1. /\ ProgramsStay
        /\ \A k \in DOMAIN objs' \ DOMAIN objs : objs'[k] = o
    BY <1>1, <1>3, NewStays
  <2> QED BY <1>1, <1>3, <2>1, RefsStay
<1>4. CASE LoadBtf
  <2>1. CASE Fails
    BY <1>2, <2>1 DEF Fails, Exit, kernelVars
  <2>2. ASSUME NEW d \in Fds, NewObject(d, [what |-> "btf", name |-> M.name]), job' = job
        PROVE  ProgramsResolved'
    <3>1. PICK o : o = [what |-> "btf", name |-> M.name]
      OBVIOUS
    <3> QED BY <1>3, <2>2, <3>1
  <2> QED BY <1>4, <2>1, <2>2 DEF LoadBtf
<1>5. CASE CreateMap
  <2>1. CASE Fails
    BY <1>2, <2>1 DEF Fails, Exit, kernelVars
  <2>2. ASSUME NEW d \in Fds, NEW btf, job' = job,
               NewObject(d, [what |-> "map", name |-> M.name, contents |-> FirstContents(M),
                             frozen |-> FALSE, btf |-> btf])
        PROVE  ProgramsResolved'
    <3>1. PICK o : o = [what |-> "map", name |-> M.name, contents |-> FirstContents(M),
                        frozen |-> FALSE, btf |-> btf]
      OBVIOUS
    <3> QED BY <1>3, <2>2, <3>1
  <2> QED BY <1>5, <2>1, <2>2 DEF CreateMap
<1>6. ASSUME pc \in {"fill", "freeze"}, job' = job, NEW c,
             objs' = [objs EXCEPT ![fds[fd]].contents = c] \/ objs' = [objs EXCEPT ![fds[fd]].frozen = c]
      PROVE  ProgramsResolved'
  <2>1. PICK o \in DOMAIN objs : o = fds[fd] /\ objs[o].what = "map"
    BY <1>1, <1>6, Making
  <2>2. Grown(objs, objs')
    <3>1. objs' = [objs EXCEPT ![o].contents = c] \/ objs' = [objs EXCEPT ![o].frozen = c]
      BY <1>6, <2>1
    <3>2. /\ Grown(objs, [objs EXCEPT ![o].contents = c])
          /\ Grown(objs, [objs EXCEPT ![o].frozen = c])
      BY <1>1, <2>1, FieldChanged DEF Inv
    <3>3. CASE objs' = [objs EXCEPT ![o].contents = c]
      BY <3>2, <3>3
    <3>4. CASE objs' = [objs EXCEPT ![o].frozen = c]
      BY <3>2, <3>4
    <3> QED BY <3>1, <3>3, <3>4
  <2>3. \E e : objs' = [objs EXCEPT ![o] = e]
    BY <1>6, <2>1
  <2>4. ProgramsStay
    BY <1>1, <2>1, <2>2, <2>3, MapChanges
  <2>5. DOMAIN objs' = DOMAIN objs
    BY <2>3
  <2> QED BY <1>1, <1>6, <2>4, <2>5, RefsStay
<1>7. CASE FillEntry
  <2>1. CASE Fails
    BY <1>2, <2>1 DEF Fails, Exit, kernelVars
  <2>2. CASE /\ pc = "fill" /\ job' = job
             /\ objs' = [objs EXCEPT ![fds[fd]].contents[j] = Entry(M, j)]
    <3>1. objs' = [objs EXCEPT ![fds[fd]].contents = [objs[fds[fd]].contents EXCEPT ![j] = Entry(M, j)]]
      BY <2>2
    <3> QED BY <1>6, <2>2, <3>1
  <2> QED BY <1>7, <2>1, <2>2 DEF FillEntry
<1>8. CASE FreezeMap
  <2>1. CASE Fails
    BY <1>2, <2>1 DEF Fails, Exit, kernelVars
  <2>2. CASE objs' = objs /\ job' = job
    BY <1>2, <2>2
  <2>3. CASE /\ pc = "freeze" /\ job' = job
             /\ objs' = [objs EXCEPT ![fds[fd]].frozen = TRUE]
    BY <1>6, <2>3
  <2> QED BY <1>8, <2>1, <2>2, <2>3 DEF FreezeMap
<1> QED BY <1>4, <1>5, <1>7, <1>8

LEMMA RefsLoadProgram ==
  ASSUME RefsInv, LoadProgram PROVE ProgramsResolved'
<1>1. Inv /\ ProgramsResolved
  BY DEF RefsInv, ProgramsResolved
<1>2. CASE Exit
  BY <1>1, <1>2, SameStay, RefsStay DEF Exit, kernelVars
<1>3. ASSUME NEW d \in Fds, NEW w, w = Patch(P.words, P.relocs, mapFds, kfuncIds),
             NewObject(d, [what |-> "prog", name |-> P.name, refs |-> Resolved(w)]),
             pc = "programs", i <= Len(Programs), job' = job
      PROVE  ProgramsResolved'
  <2>1. PICK o : o = [what |-> "prog", name |-> P.name, refs |-> Resolved(w)]
    OBVIOUS
  <2>2. /\ ProgramsStay
        /\ \A k \in DOMAIN objs' \ DOMAIN objs : objs'[k] = o
    BY <1>1, <1>3, <2>1, NewStays
  <2>3. Named(job.programs, o.name) = P
    <3>1. job \in Jobs /\ Len(Programs) \in Nat /\ i \in Nat \ {0}
      BY <1>1, <1>3, ProgramsFacts, SeqFacts DEF Inv, TypeOK, ProgramsCursor
    <3> QED BY <1>3, <2>1, <3>1, ProgramIs DEF P
  <2>4. KfuncsFound
    BY <1>3, SMTT(60) DEF RefsInv
  <2>5. RefsOf(job, o, objs)
    BY <1>1, <1>3, <2>1, <2>3, <2>4, ResolvedIs DEF RefsOf
  <2> QED BY <1>1, <1>3, <2>2, <2>5, RefsStay
<1> QED BY <1>2, <1>3 DEF LoadProgram

LEMMA RefsTestRun ==
  ASSUME RefsInv, TestRun PROVE ProgramsResolved'
<1>1. Inv /\ ProgramsResolved
  BY DEF RefsInv, ProgramsResolved
<1>2. CASE UNCHANGED <<job, objs>>
  BY <1>1, <1>2, SameStay, RefsStay
<1>3. ASSUME NEW k \in DOMAIN Maps, NEW c, pc = "run", job' = job,
             objs' = [objs EXCEPT ![MapObject(Maps[k].name)].contents = c]
      PROVE  ProgramsResolved'
  <2>1. PICK o \in DOMAIN objs : o = MapObject(Maps[k].name) /\ objs[o].what = "map"
    <3>1. Maps[k].name \in DOMAIN mapFds
      BY <1>1, <1>3 DEF Inv, Cursor, Later, NamesOf
    <3> QED BY <1>1, <3>1, MadeNamed
  <2>2. objs' = [objs EXCEPT ![o].contents = c] /\ Grown(objs, objs')
    BY <1>1, <1>3, <2>1, FieldChanged DEF Inv
  <2>3. \E e : objs' = [objs EXCEPT ![o] = e]
    BY <2>2
  <2> QED BY <1>1, <1>3, <2>1, <2>2, <2>3, MapChanges, RefsStay
<1> QED BY <1>2, <1>3 DEF TestRun, Effect, Fails, Exit, kernelVars

LEMMA RefsReportOne ==
  ASSUME RefsInv, ReportOne PROVE ProgramsResolved'
<1>1. Inv /\ ProgramsResolved
  BY DEF RefsInv, ProgramsResolved
<1>2. CASE UNCHANGED <<job, objs>>
  BY <1>1, <1>2, SameStay, RefsStay
<1>3. CASE ~Fails /\ objs' # objs
  <2>1. /\ pc = "report" /\ i <= Len(Maps) /\ job' = job
        /\ objs' = [objs EXCEPT ![MapObject(M.name)].contents.cons = objs[MapObject(M.name)].contents.prod]
    BY <1>3 DEF ReportOne
  <2>2. PICK o \in DOMAIN objs : o = MapObject(M.name) /\ objs[o].what = "map"
    <3>1. job \in Jobs /\ i \in Nat \ {0} /\ DOMAIN mapFds = NamesOf(Maps)
      BY <1>1, <2>1 DEF RefsInv, Reporting, Inv, TypeOK, Cursor, Later
    <3>2. M.name \in DOMAIN mapFds
      BY <2>1, <3>1, MapsFacts, SeqFacts DEF NamesOf, M
    <3> QED BY <1>1, <3>2, MadeNamed
  <2>3. Grown(objs, objs')
    BY <1>1, <1>3, ReportGrows
  <2>4. \E e : objs' = [objs EXCEPT ![o] = e]
    BY <2>1, <2>2
  <2>5. ProgramsStay
    BY <1>1, <2>2, <2>3, <2>4, MapChanges
  <2>6. DOMAIN objs' = DOMAIN objs
    BY <2>4
  <2> QED BY <1>1, <2>1, <2>5, <2>6, RefsStay
<1>4. Fails => UNCHANGED <<job, objs>>
  BY DEF Fails, Exit, kernelVars
<1>5. job' = job
  BY DEF ReportOne, Fails, Exit
<1> QED BY <1>2, <1>3, <1>4, <1>5

LEMMA RefsOther ==
  ASSUME RefsInv,
         \/ Begin \/ Decline \/ NextMap \/ ProgramsDone \/ LinkSlot \/ NextArray \/ RunsDone \/ Finish
         \/ UNCHANGED vars
  PROVE  ProgramsResolved'
<1>1. Inv /\ ProgramsResolved
  BY DEF RefsInv, ProgramsResolved
<1>2. UNCHANGED <<job, objs>>
  BY DEF Begin, Decline, NextMap, ProgramsDone, LinkSlot, NextArray, RunsDone, Finish, Fails, Exit,
         kernelVars, vars, toolVars
<1> QED BY <1>1, <1>2, SameStay, RefsStay

LEMMA KfuncsStayFound ==
  ASSUME RefsInv, [Next]_vars, pc' \notin {"start", "exited"} PROVE KfuncsFound'
<1>1. CASE Begin
  <2>1. /\ job' = job /\ KfuncsKnown
        /\ kfuncIds' = [n \in KfuncNames |-> KfuncId(job.vmlinux, n)]
    BY <1>1 DEF Begin
  <2>2. KfuncNames' = KfuncNames
    BY <2>1 DEF KfuncNames, Programs
  <2>3. ASSUME NEW n \in KfuncNames
        PROVE  /\ job.vmlinux # None /\ n \in DOMAIN kfuncIds'
               /\ kfuncIds'[n] = KfuncId(job.vmlinux, n) /\ kfuncIds'[n] # 0
    BY <2>1 DEF KfuncsKnown
  <2> QED BY <2>1, <2>2, <2>3 DEF KfuncsFound
<1>2. ASSUME UNCHANGED <<job, kfuncIds>>, pc \notin {"start", "exited"} PROVE KfuncsFound'
  <2>1. KfuncNames' = KfuncNames
    BY <1>2 DEF KfuncNames, Programs
  <2> QED BY <1>2, <2>1 DEF KfuncsFound, RefsInv
<1>3. CASE UNCHANGED vars
  BY <1>2, <1>3 DEF vars, toolVars
<1>4. CASE Next /\ ~Begin
  <2>1. CASE Decline \/ NextMap \/ LoadBtf \/ CreateMap \/ FillEntry \/ FreezeMap
    BY <1>2, <2>1 DEF Decline, NextMap, LoadBtf, CreateMap, FillEntry, FreezeMap, Fails, Exit
  <2>2. CASE LoadProgram \/ ProgramsDone \/ LinkSlot \/ NextArray
    BY <1>2, <2>2 DEF LoadProgram, ProgramsDone, LinkSlot, NextArray, Fails, Exit
  <2>3. CASE TestRun \/ RunsDone \/ ReportOne \/ Finish
    BY <1>2, <2>3 DEF TestRun, RunsDone, ReportOne, Finish, Fails, Exit
  <2> QED BY <1>4, <2>1, <2>2, <2>3 DEF Next
<1> QED BY <1>1, <1>3, <1>4

LEMMA RefsInvInit == Init => RefsInv
<1> SUFFICES ASSUME Init PROVE RefsInv
  OBVIOUS
<1>1. objs = <<>> /\ pc = "start" /\ DOMAIN objs = {}
  BY DEF Init
<1> QED BY <1>1, InvInit DEF RefsInv, Reporting

LEMMA RefsInvNext == RefsInv /\ [Next]_vars => RefsInv'
<1> SUFFICES ASSUME RefsInv, [Next]_vars PROVE RefsInv'
  OBVIOUS
<1>1. Inv' /\ Reporting'
  BY InvNext, ReportingNext DEF RefsInv
<1>2. ProgramsResolved'
  BY RefsMaking, RefsLoadProgram, RefsTestRun, RefsReportOne, RefsOther DEF Next
<1> QED BY <1>1, <1>2, KfuncsStayFound DEF RefsInv, ProgramsResolved

(* Whatever descriptors the process is given, and whatever fails: every       *)
(* program the kernel holds names the map or the kfunc, and the offset, that  *)
(* its document says, at its relocations and nowhere else.                    *)
THEOREM RefsStand == Spec => []RefsResolve
BY RefsInvInit, RefsInvNext, RefsInvMeans, PTL DEF Spec

-----------------------------------------------------------------------------
(* The verdicts. *)

(* What VerdictsNamed says of one run of p. *)
VerdictFor(p, r, line) ==
  LET names == {v[1] : v \in {v \in Elems(p.verdicts) : (v[2] - r) % Pow2(p.bits) = 0}}
  IN /\ line.named = (names # {})
     /\ IF names # {} THEN line.as \in names
        ELSE /\ line.as \in ResultRange(p)
             /\ (line.as - r) % Pow2(p.bits) = 0

(* What is printed is the register's value as its type has it. *)
LEMMA SignedResultIs ==
  ASSUME NEW p, p.bits \in Nat \ {0}, p.signed \in BOOLEAN, NEW r \in 0 .. Pow2(p.bits) - 1
  PROVE  /\ SignedResult(p, r) \in ResultRange(p)
         /\ (SignedResult(p, r) - r) % Pow2(p.bits) = 0
<1>1. PICK h \in Nat \ {0} : h = Pow2(p.bits - 1) /\ Pow2(p.bits) = 2 * h
  <2>1. p.bits - 1 \in Nat /\ (p.bits - 1) + 1 = p.bits
    OBVIOUS
  <2> QED BY <2>1, Pow2Facts
<1>2. /\ r \in Nat /\ r < 2 * h
      /\ r % (2 * h) = r
  BY <1>1
<1>3. 0 % (2 * h) = 0 /\ (-(2 * h)) % (2 * h) = 0
  <2>1. (2 * h) * 0 = 0 /\ (2 * h) * (-1) = -(2 * h) /\ 2 * h \in Nat \ {0}
    BY <1>1
  <2> QED BY <2>1, ModMultiple
<1>4. CASE ~p.signed
  <2>1. SignedResult(p, r) = r /\ ResultRange(p) = 0 .. 2 * h - 1
    BY <1>1, <1>4 DEF SignedResult, ResultRange
  <2>2. r - r = 0
    BY <1>2
  <2> QED BY <1>1, <1>2, <1>3, <2>1, <2>2
<1>5. CASE p.signed
  <2>1. PICK s : s = SignedResult(p, r) /\ s = IF r >= h THEN r - 2 * h ELSE r
    BY <1>1, <1>2, <1>5 DEF SignedResult
  <2>2. SignedResult(p, r) \in ResultRange(p)
    <3>1. ResultRange(p) = -h .. h - 1
      BY <1>1, <1>5 DEF ResultRange
    <3>2. s \in -h .. h - 1
      BY <1>1, <1>2, <2>1
    <3> QED BY <2>1, <3>1, <3>2
  <2>3. SignedResult(p, r) - r \in {0, -(2 * h)}
    BY <1>1, <1>2, <2>1
  <2>4. \A x \in {0, -(2 * h)} : x % (2 * h) = 0
    BY <1>3
  <2>5. (SignedResult(p, r) - r) % (2 * h) = 0
    BY <2>3, <2>4
  <2> QED BY <1>1, <2>2, <2>5
<1> QED BY <1>4, <1>5

(* Two results of a type equal modulo its width are one. *)
LEMMA ResultsApart ==
  ASSUME NEW p, p.bits \in Nat \ {0}, p.signed \in BOOLEAN,
         NEW v \in ResultRange(p), NEW w \in ResultRange(p), (v - w) % Pow2(p.bits) = 0
  PROVE  v = w
<1>1. PICK h \in Nat \ {0} : h = Pow2(p.bits - 1) /\ Pow2(p.bits) = 2 * h
  <2>1. p.bits - 1 \in Nat /\ (p.bits - 1) + 1 = p.bits
    OBVIOUS
  <2> QED BY <2>1, Pow2Facts
<1>2. v \in Int /\ w \in Int /\ v - w < 2 * h /\ w - v < 2 * h /\ 2 * h \in Nat \ {0}
  BY <1>1 DEF ResultRange
<1> QED BY <1>1, <1>2, ModZero

LEMMA VerdictIs ==
  ASSUME NEW unit \in Jobs, NEW p \in Elems(unit.programs), NEW r \in Registers
  PROVE  VerdictFor(p, r, VerdictName(p, r))
<1>1. /\ p.bits \in Nat \ {0} /\ p.signed \in BOOLEAN /\ IsSeq(p.verdicts)
      /\ \A v \in Elems(p.verdicts) : v[2] \in ResultRange(p)
      /\ r \in 0 .. Pow2(p.bits) - 1
  BY VerdictsAssumption DEF IsSeq
<1>2. PICK v : /\ v = SignedResult(p, r) /\ v \in ResultRange(p)
               /\ (v - r) % Pow2(p.bits) = 0
  BY <1>1, SignedResultIs
<1>3. PICK at : at = {k \in DOMAIN p.verdicts : p.verdicts[k][2] = v}
  OBVIOUS
<1>4. PICK line : /\ line = VerdictName(p, r)
                  /\ line = IF at = {} THEN [named |-> FALSE, as |-> v]
                            ELSE [named |-> TRUE,
                                  as |-> p.verdicts[CHOOSE k \in at : \A l \in at : k <= l][1]]
  BY <1>2, <1>3 DEF VerdictName
(* The values the register's value is named by are v. *)
<1>5. \A w \in ResultRange(p) : (w - r) % Pow2(p.bits) = 0 <=> w = v
  <2>1. PICK m \in Nat \ {0} : m = Pow2(p.bits)
    BY <1>1, Pow2Facts
  <2>2. ASSUME NEW w \in ResultRange(p), (w - r) % m = 0 PROVE w = v
    <3>1. w \in Int /\ v \in Int /\ r \in Int
      BY <1>1, <1>2, Pow2Facts DEF ResultRange
    <3>2. PICK a \in Int, b \in Int : w - r = m * a /\ v - r = m * b
      <4>1. w - r \in Int /\ v - r \in Int /\ (w - r) % m = 0 /\ (v - r) % m = 0
        BY <1>2, <2>1, <2>2, <3>1
      <4>2. ASSUME NEW x \in Int, x % m = 0 PROVE \E a \in Int : x = m * a
        <5>1. x \div m \in Int /\ x = m * (x \div m) + (x % m)
          BY DivMod
        <5>2. x = m * (x \div m)
          BY <4>2, <5>1
        <5> QED BY <5>1, <5>2
      <4> QED BY <4>1, <4>2
    <3>3. w - v = m * (a - b) /\ a - b \in Int
      BY <3>1, <3>2
    <3>4. (w - v) % m = 0
      BY <3>3, ModMultiple
    <3> QED BY <1>1, <1>2, <2>1, <3>4, ResultsApart
  <2> QED BY <1>2, <2>1, <2>2
<1>6. PICK names : /\ names = {w[1] : w \in {w \in Elems(p.verdicts) : (w[2] - r) % Pow2(p.bits) = 0}}
                   /\ names = {w[1] : w \in {w \in Elems(p.verdicts) : w[2] = v}}
  BY <1>1, <1>5
<1>7. names = {p.verdicts[k][1] : k \in at}
  <2>1. {w \in Elems(p.verdicts) : w[2] = v} = {p.verdicts[k] : k \in at}
    BY <1>3 DEF Elems
  <2>2. names = {w[1] : w \in {p.verdicts[k] : k \in at}}
    BY <1>6, <2>1
  <2>3. \A n : n \in names <=> \E k \in at : n = p.verdicts[k][1]
    BY <2>2
  <2> QED BY <2>3
<1>8. CASE at = {}
  <2>1. names = {} /\ line = [named |-> FALSE, as |-> v]
    BY <1>4, <1>7, <1>8
  <2>2. line.named = FALSE /\ line.as = v
    BY <2>1
  <2> QED BY <1>2, <1>4, <1>6, <2>1, <2>2 DEF VerdictFor
<1>9. CASE at # {}
  <2>1. at \subseteq Nat
    BY <1>1, <1>3, SeqFacts
  <2>2. PICK first \in at : first = CHOOSE k \in at : \A l \in at : k <= l
    BY <1>9, <2>1, First
  <2>3. line = [named |-> TRUE, as |-> p.verdicts[first][1]]
    BY <1>4, <1>9, <2>2
  <2>4. line.named = TRUE /\ line.as \in names /\ names # {}
    BY <1>7, <2>3
  <2> QED BY <1>4, <1>6, <2>4 DEF VerdictFor
<1> QED BY <1>8, <1>9

-----------------------------------------------------------------------------
(* One line per run, and the lines of the runs stay. *)

Printing == {"start", "programs", "slots", "run"} \cup Mapping

Printed ==
  /\ IsSeq(out) /\ Len(ran) <= Len(out)
  /\ pc \in Printing => Len(out) = Len(ran)
  /\ VerdictsNamed

VerdictsInv == Inv /\ Printed

LEMMA VerdictsMeans ==
  /\ VerdictsNamed =
       \A n \in DOMAIN ran :
         LET p == Named(job.programs, ran[n][1])
         IN out[n].of = p.name /\ VerdictFor(p, ran[n][2], out[n].line)
  /\ VerdictsNamed' =
       \A n \in DOMAIN ran' :
         LET p == Named(job'.programs, ran'[n][1])
         IN out'[n].of = p.name /\ VerdictFor(p, ran'[n][2], out'[n].line)
  BY DEF VerdictsNamed, VerdictFor

LEMMA PrintedSame ==
  ASSUME VerdictsInv, UNCHANGED <<job, out, ran>>, pc' \in Printing => pc \in Printing
  PROVE  Printed'
  BY VerdictsMeans DEF VerdictsInv, Printed

LEMMA PrintedInit == Init => Printed
<1> SUFFICES ASSUME Init PROVE Printed
  OBVIOUS
<1>1. out = <<>> /\ ran = <<>>
  BY DEF Init
<1>2. IsSeq(<<>>) /\ Len(<<>>) = 0 /\ DOMAIN <<>> = {}
  BY DEF IsSeq, Elems
<1> QED BY <1>1, <1>2 DEF Printed, VerdictsNamed

LEMMA PrintedTestRun ==
  ASSUME VerdictsInv, TestRun PROVE Printed'
<1>1. CASE Fails
  BY <1>1, PrintedSame DEF Fails, Exit, Printing, Mapping
<1>2. ASSUME NEW r \in Registers, pc = "run", i <= Len(Programs), job' = job, pc' = pc,
             ran' = Append(ran, <<P.name, r>>),
             out' = Append(out, [of |-> P.name, line |-> VerdictName(P, r)])
      PROVE  Printed'
  <2>1. i \in 1 .. Len(Programs) /\ IsSeq(ran) /\ IsSeq(out) /\ job \in Jobs
    BY <1>2, RanNext DEF VerdictsInv, Printed, Inv, TypeOK, RunsCursor
  <2>2. PICK n \in Nat : n = Len(ran) /\ n = Len(out)
    BY <1>2, <2>1, SeqFacts DEF VerdictsInv, Printed, Printing
  <2>3. PICK p : p = P /\ p \in Elems(job.programs) /\ Named(job.programs, p.name) = p
    BY <2>1, ProgramIs DEF P
  <2>4. PICK line : line = [of |-> p.name, line |-> VerdictName(p, r)]
    OBVIOUS
  <2>5. PICK run : run = <<p.name, r>>
    OBVIOUS
  <2>6. /\ IsSeq(out') /\ Len(out') = n + 1 /\ out'[n + 1] = line
        /\ \A k \in 1 .. n : out'[k] = out[k]
    BY <1>2, <2>1, <2>2, <2>3, <2>4, AppendIsSeq
  <2>7. /\ Len(ran') = n + 1 /\ ran'[n + 1] = run /\ DOMAIN ran' = 1 .. n + 1
        /\ \A k \in 1 .. n : ran'[k] = ran[k]
    <3>1. ran' = Append(ran, run)
      BY <1>2, <2>3, <2>5
    <3>2. /\ Len(ran') = Len(ran) + 1 /\ DOMAIN ran' = 1 .. Len(ran) + 1
          /\ \A k \in 1 .. Len(ran) : ran'[k] = ran[k]
          /\ ran'[Len(ran) + 1] = run
      BY <2>1, <3>1, AppendIsSeq
    <3> QED BY <2>2, <3>2
  <2>8. VerdictFor(p, r, VerdictName(p, r))
    BY <2>1, <2>3, VerdictIs
  <2>9. ASSUME NEW k \in 1 .. n + 1
        PROVE  LET q == Named(job.programs, ran'[k][1])
               IN out'[k].of = q.name /\ VerdictFor(q, ran'[k][2], out'[k].line)
    <3>1. CASE k = n + 1
      <4>1. ran'[k][1] = p.name /\ ran'[k][2] = r
        BY <2>5, <2>7, <3>1
      <4>2. out'[k].of = p.name /\ out'[k].line = VerdictName(p, r)
        BY <2>4, <2>6, <3>1
      <4> QED BY <2>3, <2>8, <4>1, <4>2
    <3>2. CASE k \in 1 .. n
      <4>1. k \in DOMAIN ran
        BY <2>1, <2>2, <3>2, SeqFacts
      <4>2. LET q == Named(job.programs, ran[k][1])
            IN out[k].of = q.name /\ VerdictFor(q, ran[k][2], out[k].line)
        BY <4>1, VerdictsMeans DEF VerdictsInv, Printed
      <4> QED BY <2>6, <2>7, <3>2, <4>2
    <3> QED BY <2>2, <3>1, <3>2
  <2>10. VerdictsNamed'
    BY <1>2, <2>7, <2>9, VerdictsMeans
  <2> QED BY <2>2, <2>6, <2>7, <2>10 DEF Printed
<1> QED BY <1>1, <1>2 DEF TestRun

LEMMA PrintedReportOne ==
  ASSUME VerdictsInv, ReportOne PROVE Printed'
<1>1. CASE Fails
  BY <1>1, PrintedSame DEF Fails, Exit, Printing, Mapping
<1>2. ASSUME NEW line, pc = "report", UNCHANGED <<job, pc, ran>>, out' = Append(out, line)
      PROVE  Printed'
  <2>1. IsSeq(out) /\ IsSeq(ran)
    BY DEF VerdictsInv, Printed, Inv, RunsCursor
  <2>2. PICK n \in Nat, m \in Nat : n = Len(ran) /\ m = Len(out) /\ n <= m /\ DOMAIN ran = 1 .. n
    BY <2>1, SeqFacts DEF VerdictsInv, Printed
  <2>3. /\ IsSeq(out') /\ Len(out') = m + 1
        /\ \A k \in 1 .. m : out'[k] = out[k]
    BY <1>2, <2>1, <2>2, AppendIsSeq
  <2>4. \A k \in DOMAIN ran : out'[k] = out[k]
    BY <2>2, <2>3
  <2>5. VerdictsNamed'
    BY <1>2, <2>4, VerdictsMeans DEF VerdictsInv, Printed
  <2> QED BY <1>2, <2>2, <2>3, <2>5 DEF Printed, Printing, Mapping
<1> QED BY <1>1, <1>2 DEF ReportOne

LEMMA PrintedNext == VerdictsInv /\ [Next]_vars => Printed'
<1> SUFFICES ASSUME VerdictsInv, [Next]_vars PROVE Printed'
  OBVIOUS
<1>1. CASE TestRun
  BY <1>1, PrintedTestRun
<1>2. CASE ReportOne
  BY <1>2, PrintedReportOne
<1>3. CASE Begin \/ Decline \/ NextMap \/ LoadBtf \/ CreateMap \/ FillEntry \/ FreezeMap
  <2>1. UNCHANGED <<job, out, ran>> /\ pc \in Printing
    BY <1>3 DEF Begin, Decline, NextMap, LoadBtf, CreateMap, FillEntry, FreezeMap, Fails, Exit,
                Printing, Mapping
  <2> QED BY <2>1, PrintedSame
<1>4. CASE LoadProgram \/ ProgramsDone \/ LinkSlot \/ NextArray
  <2>1. UNCHANGED <<job, out, ran>> /\ pc \in Printing
    BY <1>4 DEF LoadProgram, ProgramsDone, LinkSlot, NextArray, Fails, Exit, Printing
  <2> QED BY <2>1, PrintedSame
<1>5. CASE RunsDone \/ Finish
  BY <1>5, PrintedSame DEF RunsDone, Finish, Printing, Mapping
<1>6. CASE UNCHANGED vars
  BY <1>6, PrintedSame DEF vars, toolVars
<1> QED BY <1>1, <1>2, <1>3, <1>4, <1>5, <1>6 DEF Next

(* Whatever fails: the line printed for a run is the name the kind gives the  *)
(* value returned, or the value itself as its type has it.                    *)
THEOREM VerdictsStand == Spec => []VerdictsNamed
<1>1. VerdictsInv => VerdictsNamed
  BY DEF VerdictsInv, Printed
<1> QED BY <1>1, SpecInv, PrintedInit, PrintedNext, PTL DEF Spec, VerdictsInv

-----------------------------------------------------------------------------
(* Sequences in which the first components go up. *)
LEMMA AppendAscends ==
  ASSUME NEW s, IsSeq(s), NEW e, Ascending(s), \A k \in DOMAIN s : s[k][1] < e[1]
  PROVE  /\ Ascending(Append(s, e)) /\ Elems(Append(s, e)) = Elems(s) \cup {e}
<1>1. PICK n \in Nat : n = Len(s) /\ DOMAIN s = 1 .. n
  BY SeqFacts
<1>2. PICK t : t = Append(s, e)
  OBVIOUS
<1>3. DOMAIN t = 1 .. n + 1 /\ t[n + 1] = e /\ \A k \in 1 .. n : t[k] = s[k]
  BY <1>1, <1>2, AppendIsSeq
<1>4. Ascending(t)
  <2> SUFFICES ASSUME NEW k \in 1 .. n + 1, NEW l \in 1 .. n + 1, k < l
               PROVE  t[k][1] < t[l][1]
    BY <1>3 DEF Ascending
  <2>1. k \in 1 .. n /\ (l \in 1 .. n \/ l = n + 1)
    OBVIOUS
  <2>2. CASE l \in 1 .. n
    BY <1>1, <1>3, <2>1, <2>2 DEF Ascending
  <2>3. CASE l = n + 1
    BY <1>1, <1>3, <2>1, <2>3
  <2> QED BY <2>1, <2>2, <2>3
<1>5. Elems(t) = Elems(s) \cup {e}
  <2>1. \A k \in 1 .. n + 1 : k \in 1 .. n \/ k = n + 1
    OBVIOUS
  <2>2. Elems(t) = {t[k] : k \in 1 .. n + 1} /\ Elems(s) = {s[k] : k \in 1 .. n}
    BY <1>1, <1>3 DEF Elems
  <2>3. n + 1 \in 1 .. n + 1 /\ 1 .. n \subseteq 1 .. n + 1
    OBVIOUS
  <2>4. ASSUME NEW x PROVE x \in Elems(t) <=> x \in Elems(s) \cup {e}
    BY <1>3, <2>1, <2>2, <2>3
  <2> QED BY <2>4
<1> QED BY <1>2, <1>4, <1>5

Indexed(s, n, c) == Len(s) = n /\ \A k \in 1 .. n : s[k] = <<k - 1, c[k - 1]>>
LiveOf(c, n) == {<<e, c[e]>> : e \in {e \in 0 .. n - 1 : ~IsZero(c[e])}}

(* The report of an array: its live entries, in the order of their indices.   *)
LEMMA LiveEntries ==
  ASSUME NEW m, m.kind \notin {"ringbuf", "hash"}, NEW n \in Nat, NEW c,
         NEW s, Indexed(s, n, c)
  PROVE  /\ Ascending(ReportMap(m, s))
         /\ Elems(ReportMap(m, s)) = LiveOf(c, n)
<1>2. Len(s) = n /\ \A k \in 1 .. n : s[k] = <<k - 1, c[k - 1]>>
  BY DEF Indexed
<1> DEFINE One(l, k) == IF Live(s[k]) THEN Append(l, s[k]) ELSE l
<1>3. ReportMap(m, s) =
        (CHOOSE f : f = [k \in 0 .. n |-> IF k = 0 THEN <<>> ELSE One(f[k - 1], k)])[n]
  BY <1>2, Zenon DEF ReportMap
<1> HIDE DEF One
<1> DEFINE Upto(k, g) == /\ g = [l \in 0 .. k |-> g[l]] /\ g[0] = <<>>
                         /\ \A l \in 1 .. k : g[l] = One(g[l - 1], l)
           S == {k \in Nat : \E g : Upto(k, g)}
<1>4. \E g : Upto(n, g)
  <2>1. 0 \in S
    <3>1. PICK g : g = [l \in 0 .. 0 |-> <<>>]
      OBVIOUS
    <3>2. g = [l \in 0 .. 0 |-> g[l]] /\ g[0] = <<>> /\ 1 .. 0 = {}
      BY <3>1
    <3>3. Upto(0, g)
      BY <3>2
    <3> QED BY <3>3
  <2>2. ASSUME NEW k \in Nat, k \in S PROVE k + 1 \in S
    <3>1. PICK g : Upto(k, g)
      BY <2>2
    <3>2. PICK h : h = [l \in 0 .. k + 1 |-> IF l = k + 1 THEN One(g[k], k + 1) ELSE g[l]]
      OBVIOUS
    <3>3. h[k + 1] = One(g[k], k + 1) /\ \A l \in 0 .. k : h[l] = g[l]
      BY <3>2
    <3>4. h = [l \in 0 .. k + 1 |-> h[l]]
      BY <3>2
    <3>5. \A l \in 1 .. k + 1 : h[l] = One(h[l - 1], l)
      <4> TAKE l \in 1 .. k + 1
      <4>1. CASE l = k + 1
        <5>1. l - 1 = k /\ k \in 0 .. k
          BY <4>1
        <5> QED BY <3>3, <4>1, <5>1
      <4>2. CASE l \in 1 .. k
        <5>1. l - 1 \in 0 .. k /\ l \in 0 .. k
          BY <4>2
        <5> QED BY <3>1, <3>3, <4>2, <5>1
      <4> QED BY <4>1, <4>2
    <3>6. h[0] = <<>>
      BY <3>1, <3>3
    <3>7. Upto(k + 1, h)
      BY <3>4, <3>5, <3>6
    <3> HIDE DEF Upto
    <3>8. \E x : Upto(k + 1, x)
      BY <3>7
    <3> QED BY <3>8
  <2> HIDE DEF S
  <2>3. n \in S
    BY <2>1, <2>2, SetInduction
  <2> QED BY <2>3 DEF S
<1>5. PICK f : /\ f = [k \in 0 .. n |-> IF k = 0 THEN <<>> ELSE One(f[k - 1], k)]
               /\ ReportMap(m, s) = f[n]
  <2>1. PICK g : Upto(n, g)
    BY <1>4
  <2>2. PICK h : h = [k \in 0 .. n |-> IF k = 0 THEN <<>> ELSE One(g[k - 1], k)]
    OBVIOUS
  <2>3. ASSUME NEW k \in 0 .. n PROVE h[k] = g[k]
    <3>1. CASE k = 0
      BY <2>1, <2>2, <3>1
    <3>2. CASE k \in 1 .. n
      BY <2>1, <2>2, <3>2
    <3> QED BY <3>1, <3>2
  <2>4. h = g
    BY <2>1, <2>2, <2>3
  <2>5. \E x : x = [k \in 0 .. n |-> IF k = 0 THEN <<>> ELSE One(x[k - 1], k)]
    BY <2>2, <2>4
  <2> QED BY <1>3, <2>5
<1>6. f[0] = <<>> /\ \A k \in 1 .. n : f[k] = One(f[k - 1], k)
  BY <1>5
<1> HIDE DEF Upto, S
<1> DEFINE Shows(l, k) == /\ IsSeq(l) /\ Ascending(l)
                          /\ Elems(l) = {s[e] : e \in {e \in 1 .. k : Live(s[e])}}
           D == {k \in Nat : k <= n => Shows(f[k], k)}
<1>7. 0 \in D
  <2>1. IsSeq(<<>>) /\ DOMAIN <<>> = {} /\ 1 .. 0 = {}
    BY DEF IsSeq, Elems
  <2>2. Elems(<<>>) = {} /\ Ascending(<<>>)
    BY <2>1 DEF Elems, Ascending
  <2>3. Shows(f[0], 0)
    BY <1>6, <2>1, <2>2
  <2> HIDE DEF Shows
  <2> QED BY <2>3
<1> HIDE DEF Shows
<1>8. ASSUME NEW k \in Nat, k \in D PROVE k + 1 \in D
  <2> SUFFICES ASSUME k + 1 <= n PROVE Shows(f[k + 1], k + 1)
    OBVIOUS
  <2> USE DEF Shows
  <2> HIDE DEF D
  <2>1. PICK l : l = f[k] /\ Shows(l, k) /\ f[k + 1] = One(l, k + 1)
    <3> HIDE DEF Shows
    <3>1. Shows(f[k], k)
      BY <1>8 DEF D
    <3>2. k + 1 \in 1 .. n /\ (k + 1) - 1 = k
      OBVIOUS
    <3> QED BY <1>6, <3>1, <3>2
  <2>2. \A e \in 1 .. k + 1 : e \in 1 .. k \/ e = k + 1
    OBVIOUS
  <2>3. CASE Live(s[k + 1])
    <3>1. f[k + 1] = Append(l, s[k + 1])
      BY <2>1, <2>3 DEF One
    <3>2. \A x \in DOMAIN l : l[x][1] < s[k + 1][1]
      <4> TAKE x \in DOMAIN l
      <4>1. l[x] \in Elems(l)
        BY DEF Elems
      <4>2. PICK e \in 1 .. k : l[x] = s[e]
        BY <2>1, <4>1
      <4>3. s[e] = <<e - 1, c[e - 1]>> /\ s[k + 1] = <<(k + 1) - 1, c[(k + 1) - 1]>>
        BY <1>2, SMTT(60)
      <4>4. l[x][1] = e - 1 /\ s[k + 1][1] = k
        BY <4>2, <4>3
      <4> QED BY <4>4
    <3>3. /\ IsSeq(f[k + 1]) /\ Ascending(f[k + 1])
          /\ Elems(f[k + 1]) = Elems(l) \cup {s[k + 1]}
      <4>1. IsSeq(l) /\ Ascending(l)
        BY <2>1
      <4>2. PICK e : e = s[k + 1]
        OBVIOUS
      <4>3. /\ Ascending(Append(l, e)) /\ Elems(Append(l, e)) = Elems(l) \cup {e}
            /\ IsSeq(Append(l, e))
        BY <3>2, <4>1, <4>2, AppendAscends, AppendIsSeq
      <4> QED BY <3>1, <4>2, <4>3
    <3>4. {s[e] : e \in {e \in 1 .. k + 1 : Live(s[e])}}
            = {s[e] : e \in {e \in 1 .. k : Live(s[e])}} \cup {s[k + 1]}
      <4>1. k + 1 \in 1 .. k + 1 /\ 1 .. k \subseteq 1 .. k + 1
        OBVIOUS
      <4> QED BY <2>2, <2>3, <4>1
    <3> QED BY <2>1, <3>3, <3>4
  <2>4. CASE ~Live(s[k + 1])
    <3>1. f[k + 1] = l
      BY <2>1, <2>4 DEF One
    <3>2. {e \in 1 .. k + 1 : Live(s[e])} = {e \in 1 .. k : Live(s[e])}
      BY <2>2, <2>4
    <3> QED BY <2>1, <3>1, <3>2
  <2> QED BY <2>3, <2>4
<1>9. Shows(f[n], n)
  <2> HIDE DEF D
  <2>1. n \in D
    BY <1>7, <1>8, SetInduction
  <2> QED BY <2>1 DEF D
<1> USE DEF Shows
<1>10. {s[e] : e \in {e \in 1 .. n : Live(s[e])}}
         = {<<e, c[e]>> : e \in {e \in 0 .. n - 1 : ~IsZero(c[e])}}
  <2>1. \A e \in 1 .. n : Live(s[e]) <=> ~IsZero(c[e - 1])
    <3> TAKE e \in 1 .. n
    <3>1. s[e][2] = c[e - 1]
      BY <1>2
    <3> QED BY <3>1 DEF Live
  <2>2. ASSUME NEW x, x \in {s[e] : e \in {e \in 1 .. n : Live(s[e])}}
        PROVE  x \in {<<e, c[e]>> : e \in {e \in 0 .. n - 1 : ~IsZero(c[e])}}
    <3>1. PICK e \in 1 .. n : Live(s[e]) /\ x = s[e]
      BY <2>2
    <3>2. PICK d \in 0 .. n - 1 : d = e - 1
      OBVIOUS
    <3>3. ~IsZero(c[d]) /\ x = <<d, c[d]>>
      BY <1>2, <2>1, <3>1, <3>2
    <3> QED BY <3>3
  <2>3. ASSUME NEW x, x \in {<<e, c[e]>> : e \in {e \in 0 .. n - 1 : ~IsZero(c[e])}}
        PROVE  x \in {s[e] : e \in {e \in 1 .. n : Live(s[e])}}
    <3>1. PICK d \in 0 .. n - 1 : ~IsZero(c[d]) /\ x = <<d, c[d]>>
      BY <2>3
    <3>2. d + 1 \in 1 .. n /\ (d + 1) - 1 = d
      OBVIOUS
    <3>3. s[d + 1] = <<d, c[d]>> /\ Live(s[d + 1])
      BY <1>2, <2>1, <3>1, <3>2
    <3> QED BY <3>1, <3>2, <3>3
  <2> QED BY <2>2, <2>3
<1> QED BY <1>5, <1>9, <1>10 DEF LiveOf

-----------------------------------------------------------------------------
(* A finite set of pairs, told apart by their keys, in the order of the keys. *)
Below(E, kv) == {e \in E : e[1] < kv[1]}

LEMMA Ranks ==
  ASSUME NEW E, IsFiniteSet(E), \A e \in E : e[1] \in Int,
         \A e, f \in E : e[1] = f[1] => e = f
  PROVE  /\ \A e \in E : Cardinality(Below(E, e)) \in 0 .. Cardinality(E) - 1
         /\ \A e, f \in E : e[1] < f[1] <=> Cardinality(Below(E, e)) < Cardinality(Below(E, f))
         /\ \A n \in 1 .. Cardinality(E) : \E e \in E : Cardinality(Below(E, e)) = n - 1
<1>1. PICK N \in Nat : N = Cardinality(E)
  BY FS_CardinalityType
<1>2. \A e \in E : IsFiniteSet(Below(E, e)) /\ Cardinality(Below(E, e)) \in Nat
  BY FS_Subset, FS_CardinalityType DEF Below
<1>3. ASSUME NEW e \in E, NEW T, IsFiniteSet(T), Below(E, e) \cup {e} \subseteq T
      PROVE  Cardinality(Below(E, e)) < Cardinality(T)
  <2>1. e \notin Below(E, e)
    BY DEF Below
  <2>2. Cardinality(Below(E, e) \cup {e}) = Cardinality(Below(E, e)) + 1
    BY <1>2, <2>1, FS_AddElement
  <2>3. Cardinality(Below(E, e) \cup {e}) <= Cardinality(T) /\ Cardinality(T) \in Nat
    BY <1>3, FS_Subset, FS_CardinalityType
  <2> QED BY <1>2, <2>2, <2>3
<1>4. ASSUME NEW e \in E PROVE Cardinality(Below(E, e)) \in 0 .. N - 1
  BY <1>1, <1>2, <1>3, SMTT(60) DEF Below
<1>5. ASSUME NEW e \in E, NEW f \in E, e[1] < f[1]
      PROVE  Cardinality(Below(E, e)) < Cardinality(Below(E, f))
  <2>1. Below(E, e) \cup {e} \subseteq Below(E, f)
    BY <1>5 DEF Below
  <2> QED BY <1>2, <1>3, <2>1
<1>6. ASSUME NEW e \in E, NEW f \in E, Cardinality(Below(E, e)) < Cardinality(Below(E, f))
      PROVE  e[1] < f[1]
  <2>1. CASE f[1] < e[1]
    BY <1>2, <1>5, <1>6, <2>1
  <2>2. CASE f[1] = e[1]
    BY <1>2, <1>6, <2>2
  <2> QED BY <2>1, <2>2
<1>7. ASSUME NEW n \in 1 .. N PROVE \E e \in E : Cardinality(Below(E, e)) = n - 1
  <2>1. PICK rank : rank = [e \in E |-> Cardinality(Below(E, e))]
    OBVIOUS
  <2>2. rank \in [E -> 0 .. N - 1] /\ \A e \in E : rank[e] = Cardinality(Below(E, e))
    BY <1>4, <2>1
  <2>3. \A e, f \in E : rank[e] = rank[f] => e = f
    <3> SUFFICES ASSUME NEW e \in E, NEW f \in E, rank[e] = rank[f] PROVE e[1] = f[1]
      OBVIOUS
    <3>1. Cardinality(Below(E, e)) = Cardinality(Below(E, f))
      BY <2>2
    <3>2. ~(e[1] < f[1]) /\ ~(f[1] < e[1])
      BY <1>2, <1>5, <3>1
    <3> QED BY <3>2
  <2>4. rank \in Injection(E, 0 .. N - 1)
    BY <2>2, <2>3 DEF Injection, IsInjective
  <2>5. IsFiniteSet(0 .. N - 1) /\ Cardinality(0 .. N - 1) = N
    <3>1. IsFiniteSet(0 .. N - 1)
          /\ Cardinality(0 .. N - 1) = IF 0 > N - 1 THEN 0 ELSE (N - 1) - 0 + 1
      BY FS_Interval
    <3> QED BY <3>1
  <2>6. rank \in Surjection(E, 0 .. N - 1)
    BY <1>1, <2>4, <2>5, FS_Injection
  <2>7. n - 1 \in 0 .. N - 1
    OBVIOUS
  <2>8. PICK e \in E : rank[e] = n - 1
    BY <2>6, <2>7 DEF Surjection
  <2> QED BY <2>2, <2>8
<1> QED BY <1>1, <1>4, <1>5, <1>6, <1>7

(* The report of a hash: its pairs by their keys, in whatever order they came. *)
LEMMA PairsByKey ==
  ASSUME NEW D, IsFiniteSet(D), D \subseteq Int, NEW c,
         NEW pairs, DOMAIN pairs = 1 .. Cardinality(D), Elems(pairs) = {<<e, c[e]>> : e \in D}
  PROVE  Ascending(ByKey(pairs)) /\ Elems(ByKey(pairs)) = {<<e, c[e]>> : e \in D}
<1>2. PICK E : E = {<<e, c[e]>> : e \in D}
  OBVIOUS
<1>4. Elems(pairs) = E
  BY <1>2
<1>5. /\ IsFiniteSet(E) /\ Cardinality(E) = Cardinality(D)
      /\ \A e \in E : e[1] \in Int
      /\ \A e, f \in E : e[1] = f[1] => e = f
  <2>1. PICK g : g = [e \in D |-> <<e, c[e]>>]
    OBVIOUS
  <2>2. g \in Bijection(D, E)
    <3>1. g \in [D -> E]
      BY <1>2, <2>1
    <3>2. \A e, f \in D : g[e] = g[f] => e = f
      BY <2>1
    <3>3. \A t \in E : \E e \in D : g[e] = t
      BY <1>2, <2>1
    <3> QED BY <3>1, <3>2, <3>3 DEF Bijection, Injection, IsInjective, Surjection
  <2>3. ExistsBijection(D, E)
    BY <2>2 DEF ExistsBijection
  <2>4. \A t \in E : \E e \in D : t = <<e, c[e]>> /\ t[1] = e
    BY <1>2
  <2> QED BY <2>3, <2>4, FS_Bijection
<1>6. PICK N \in Nat : N = Cardinality(E) /\ DOMAIN pairs = 1 .. N
  BY <1>5, FS_CardinalityType
<1>7. PICK line : /\ line = ByKey(pairs)
                  /\ line = [n \in 1 .. N |-> CHOOSE kv \in E : Cardinality(Below(E, kv)) = n - 1]
  <2>1. ByKey(pairs) = [n \in DOMAIN pairs |->
                          CHOOSE kv \in Elems(pairs) : Cardinality(Below(Elems(pairs), kv)) = n - 1]
    BY DEF ByKey, Below
  <2>2. ByKey(pairs) = [n \in 1 .. N |-> CHOOSE kv \in E : Cardinality(Below(E, kv)) = n - 1]
    BY <1>4, <1>6, <2>1
  <2> QED BY <2>2
<1>8. \A n \in 1 .. N : line[n] \in E /\ Cardinality(Below(E, line[n])) = n - 1
  <2> TAKE n \in 1 .. N
  <2>1. \E kv \in E : Cardinality(Below(E, kv)) = n - 1
    BY <1>5, <1>6, Ranks
  <2> QED BY <1>7, <2>1
<1>9. Ascending(line)
  <2> SUFFICES ASSUME NEW k \in 1 .. N, NEW l \in 1 .. N, k < l PROVE line[k][1] < line[l][1]
    BY <1>7 DEF Ascending
  <2>1. k - 1 < l - 1
    OBVIOUS
  <2>2. Cardinality(Below(E, line[k])) < Cardinality(Below(E, line[l]))
    BY <1>8, <2>1
  <2> QED BY <1>5, <1>8, <2>2, Ranks
<1>10. Elems(line) = E
  <2>1. ASSUME NEW e \in E PROVE \E n \in 1 .. N : line[n] = e
    <3>1. PICK d \in 0 .. N - 1 : d = Cardinality(Below(E, e))
      BY <1>5, <1>6, Ranks
    <3>2. d + 1 \in 1 .. N /\ (d + 1) - 1 = d
      OBVIOUS
    <3>3. line[d + 1] \in E /\ Cardinality(Below(E, line[d + 1])) = d
      BY <1>8, <3>2
    <3>4. ~(e[1] < line[d + 1][1]) /\ ~(line[d + 1][1] < e[1])
      BY <1>5, <3>1, <3>3, Ranks
    <3>5. e[1] = line[d + 1][1]
      BY <1>5, <3>3, <3>4
    <3> QED BY <1>5, <3>2, <3>3, <3>5
  <2>2. Elems(line) = {line[n] : n \in 1 .. N}
    BY <1>7 DEF Elems
  <2> QED BY <1>8, <2>1, <2>2
<1> QED BY <1>2, <1>7, <1>9, <1>10

-----------------------------------------------------------------------------
(* A ring: its records from the first, one behind the other, and what of them *)
(* was submitted when so many had been written.                               *)
Chain(ring, n, at, seen) ==
  /\ at[0] = 0 /\ at[n] = ring.prod /\ seen[0] = <<>> /\ seen[n] = ring.submitted
  /\ \A k \in 0 .. n : at[k] \in Nat /\ seen[k] \in Seq(Nat)
  /\ \A k \in 0 .. n - 1 :
       LET h == ring.hdr[at[k]]
       IN /\ at[k] < ring.prod /\ at[k] \in DOMAIN ring.hdr
          /\ ~h.busy /\ h.length \in Nat /\ h.discard \in BOOLEAN
          /\ at[k + 1] = at[k] + RecordStep(h.length)
          /\ seen[k + 1] = IF h.discard THEN seen[k] ELSE Append(seen[k], h.length)
IsRing(ring) ==
  /\ DOMAIN ring = {"prod", "cons", "hdr", "submitted"} /\ ring.prod \in Nat
  /\ \E n \in Nat : \E at, seen : Chain(ring, n, at, seen)

LEMMA StepIs ==
  ASSUME NEW n \in Nat
  PROVE  RecordStep(n) \in Nat \ {0} /\ RecordStep(n) = ((n + 8 + 7) \div 8) * 8
<1>1. 8 + n + 7 = n + 8 + 7
  OBVIOUS
<1>2. RecordStep(n) = ((n + 8 + 7) \div 8) * 8
  BY <1>1 DEF RecordStep
<1>3. (n + 8 + 7) \div 8 \in Nat \ {0}
  OBVIOUS
<1> QED BY <1>2, <1>3

LEMMA ConcatOne ==
  ASSUME NEW s \in Seq(Nat), NEW t \in Seq(Nat), NEW x \in Nat
  PROVE  s \o (<<x>> \o t) = Append(s, x) \o t
<1>1. <<x>> \o t \in Seq(Nat) /\ Append(s, x) \in Seq(Nat)
  OBVIOUS
<1>2. PICK a, b : a = s \o (<<x>> \o t) /\ b = Append(s, x) \o t
  OBVIOUS
<1>3. a \in Seq(Nat) /\ b \in Seq(Nat) /\ Len(a) = Len(s) + 1 + Len(t) /\ Len(b) = Len(s) + 1 + Len(t)
  BY <1>1, <1>2
<1>4. ASSUME NEW k \in 1 .. Len(s) + 1 + Len(t) PROVE a[k] = b[k]
  <2>1. CASE k <= Len(s)
    BY <1>1, <1>2, <2>1
  <2>2. CASE k = Len(s) + 1
    BY <1>1, <1>2, <2>2
  <2>3. CASE k > Len(s) + 1
    BY <1>1, <1>2, <2>3
  <2> QED BY <2>1, <2>2, <2>3
<1> QED BY <1>2, <1>3, <1>4, SMTT(60)

(* Reading a ring from its start gives what was submitted. *)
LEMMA RingReads ==
  ASSUME NEW ring, IsRing(ring), ring.cons = 0
  PROVE  RingRecords(ring) = ring.submitted
<1>1. PICK top \in Nat : top = ring.prod
  BY DEF IsRing
<1>a. PICK n \in Nat : \E at, seen : Chain(ring, n, at, seen)
  BY DEF IsRing
<1>2. PICK at, seen : Chain(ring, n, at, seen)
  BY <1>a
<1> DEFINE After(pos) == pos + RecordStep(ring.hdr[pos].length)
           Rest(g, pos) == IF After(pos) \in pos + 1 .. top THEN g[After(pos)] ELSE <<>>
           One(g, pos) == IF pos = top \/ ring.hdr[pos].busy THEN <<>>
                          ELSE IF ring.hdr[pos].discard THEN Rest(g, pos)
                          ELSE <<ring.hdr[pos].length>> \o Rest(g, pos)
<1>3. RingRecords(ring) = (CHOOSE f : f = [pos \in 0 .. top |-> One(f, pos)])[0]
  BY <1>1, ZenonT(60) DEF RingRecords
<1>4. ASSUME NEW g, NEW h, NEW pos \in 0 .. top, \A l \in pos + 1 .. top : g[l] = h[l]
      PROVE  One(g, pos) = One(h, pos)
  <2>1. Rest(g, pos) = Rest(h, pos)
    BY <1>4
  <2> HIDE DEF Rest
  <2> QED BY <2>1
<1> HIDE DEF One, Rest
<1> DEFINE Down(d, g) == /\ g = [l \in top - d .. top |-> g[l]]
                         /\ \A l \in top - d .. top : g[l] = One(g, l)
           S == {d \in Nat : d <= top => \E g : Down(d, g)}
<1>5. \E g : Down(top, g)
  <2>1. 0 \in S
    <3>1. PICK g : g = [l \in top - 0 .. top |-> One(<<>>, l)]
      OBVIOUS
    <3>2. ASSUME NEW l \in top - 0 .. top PROVE g[l] = One(g, l)
      <4>1. l \in 0 .. top /\ l + 1 .. top = {}
        OBVIOUS
      <4>2. One(g, l) = One(<<>>, l)
        BY <1>4, <4>1
      <4> QED BY <3>1, <4>2
    <3>3. g = [l \in top - 0 .. top |-> g[l]]
      BY <3>1
    <3> QED BY <3>2, <3>3
  <2>2. ASSUME NEW d \in Nat, d \in S PROVE d + 1 \in S
    <3> SUFFICES ASSUME d + 1 <= top PROVE \E h : Down(d + 1, h)
      OBVIOUS
    <3>1. PICK g : Down(d, g)
      BY <2>2
    <3>2. PICK q \in 0 .. top : q = top - (d + 1) /\ q + 1 = top - d
      OBVIOUS
    <3>3. PICK h : h = [l \in q .. top |-> IF l = q THEN One(g, q) ELSE g[l]]
      OBVIOUS
    <3>4. \A l \in q + 1 .. top : h[l] = g[l]
      BY <3>2, <3>3
    <3>5. ASSUME NEW l \in q .. top PROVE h[l] = One(h, l)
      <4>1. One(g, l) = One(h, l)
        <5>1. l \in 0 .. top /\ l + 1 .. top \subseteq q + 1 .. top
          BY <3>2
        <5> QED BY <1>4, <3>4, <5>1
      <4>2. CASE l = q
        BY <3>3, <4>1, <4>2
      <4>3. CASE l # q
        <5>1. l \in q + 1 .. top
          BY <3>2, <4>3
        <5> QED BY <3>1, <3>2, <3>4, <4>1, <5>1
      <4> QED BY <4>2, <4>3
    <3>6. h = [l \in q .. top |-> h[l]]
      BY <3>3
    <3>7. Down(d + 1, h)
      BY <3>2, <3>5, <3>6
    <3> HIDE DEF Down
    <3> QED BY <3>7
  <2> HIDE DEF S
  <2>3. top \in S
    BY <2>1, <2>2, SetInduction
  <2> QED BY <2>3 DEF S
<1>6. PICK f : RingRecords(ring) = f[0] /\ \A l \in 0 .. top : f[l] = One(f, l)
  <2>1. PICK g : Down(top, g)
    BY <1>5
  <2>2. top - top = 0
    OBVIOUS
  <2>3. g = [l \in 0 .. top |-> g[l]] /\ \A l \in 0 .. top : g[l] = One(g, l)
    BY <2>1, <2>2
  <2>4. g = [l \in 0 .. top |-> One(g, l)]
    BY <2>3
  <2>5. PICK f : f = [l \in 0 .. top |-> One(f, l)] /\ RingRecords(ring) = f[0]
    BY <1>3, <2>4
  <2> QED BY <2>5
<1> HIDE DEF Down, S
<1> DEFINE Reads(d) == /\ f[at[n - d]] \in Seq(Nat)
                       /\ seen[n - d] \o f[at[n - d]] = ring.submitted
           D == {d \in Nat : d <= n => Reads(d)}
<1>7. 0 \in D
  <2>1. n - 0 = n /\ at[n] = top /\ seen[n] = ring.submitted /\ seen[n] \in Seq(Nat)
    BY <1>1, <1>2 DEF Chain
  <2>2. f[top] = <<>>
    <3>1. f[top] = One(f, top)
      BY <1>6
    <3> QED BY <3>1 DEF One
  <2>3. <<>> \in Seq(Nat) /\ seen[n] \o <<>> = seen[n]
    BY <2>1
  <2>4. Reads(0)
    BY <2>1, <2>2, <2>3
  <2> HIDE DEF Reads
  <2> QED BY <2>4
<1> HIDE DEF Reads
<1>8. ASSUME NEW d \in Nat, d \in D PROVE d + 1 \in D
  <2> SUFFICES ASSUME d + 1 <= n PROVE Reads(d + 1)
    OBVIOUS
  <2> HIDE DEF D
  <2>1. PICK k \in 0 .. n - 1 : k = n - (d + 1) /\ n - d = k + 1
    OBVIOUS
  <2>2. PICK h : h = ring.hdr[at[k]]
    OBVIOUS
  <2>3. /\ at[k] \in Nat /\ at[k] < top /\ ~h.busy /\ h.length \in Nat /\ h.discard \in BOOLEAN
        /\ at[k + 1] = at[k] + RecordStep(h.length)
        /\ seen[k + 1] = IF h.discard THEN seen[k] ELSE Append(seen[k], h.length)
        /\ seen[k] \in Seq(Nat)
    BY <1>1, <1>2, <2>2 DEF Chain
  <2>4. at[k + 1] \in at[k] + 1 .. top
    <3>1. at[k + 1] > at[k] /\ at[k + 1] \in Nat
      <4>1. RecordStep(h.length) \in Nat \ {0}
        BY <2>3, StepIs
      <4> QED BY <2>3, <4>1
    <3>2. k + 1 = n \/ k + 1 \in 0 .. n - 1
      OBVIOUS
    <3>3. at[k + 1] <= top
      BY <1>1, <1>2, <3>1, <3>2, SMTT(60) DEF Chain
    <3> QED BY <2>3, <3>1, <3>3
  <2>5. PICK t : t = f[at[k + 1]] /\ t \in Seq(Nat) /\ seen[k + 1] \o t = ring.submitted
    <3>1. Reads(d)
      BY <1>8 DEF D
    <3> QED BY <2>1, <3>1 DEF Reads
  <2>6. f[at[k]] = IF h.discard THEN t ELSE <<h.length>> \o t
    <3>1. at[k] \in 0 .. top /\ at[k] # top
      BY <2>3
    <3>2. After(at[k]) = at[k + 1]
      BY <2>2, <2>3
    <3>3. Rest(f, at[k]) = t
      BY <2>4, <2>5, <3>2 DEF Rest
    <3>4. f[at[k]] = One(f, at[k])
      BY <1>6, <3>1
    <3> QED BY <2>2, <2>3, <3>1, <3>3, <3>4 DEF One
  <2>7. /\ f[at[k]] \in Seq(Nat)
        /\ seen[k] \o f[at[k]] = ring.submitted
    <3>1. CASE h.discard
      BY <2>3, <2>5, <2>6, <3>1
    <3>2. CASE ~h.discard
      <4>1. f[at[k]] = <<h.length>> \o t /\ seen[k + 1] = Append(seen[k], h.length)
        BY <2>3, <2>6, <3>2
      <4>2. PICK s \in Seq(Nat), x \in Nat : s = seen[k] /\ x = h.length
        BY <2>3
      <4>3. t \in Seq(Nat)
        BY <2>5
      <4>4. <<x>> \o t \in Seq(Nat)
        BY <4>3
      <4>5. s \o (<<x>> \o t) = Append(s, x) \o t
        BY <4>3, ConcatOne
      <4> QED BY <2>5, <4>1, <4>2, <4>4, <4>5
    <3> QED BY <3>1, <3>2
  <2> QED BY <2>1, <2>7 DEF Reads
<1>9. f[at[0]] \in Seq(Nat) /\ seen[0] \o f[at[0]] = ring.submitted
  <2> HIDE DEF D
  <2>1. n \in D
    BY <1>7, <1>8, SetInduction
  <2>2. n - n = 0
    OBVIOUS
  <2>3. Reads(n)
    BY <2>1 DEF D
  <2> QED BY <2>2, <2>3 DEF Reads
<1>10. at[0] = 0 /\ seen[0] = <<>>
  BY <1>2 DEF Chain
<1>11. <<>> \o f[0] = f[0]
  BY <1>9, <1>10
<1> QED BY <1>6, <1>9, <1>10, <1>11

LEMMA EmptyRing ==
  ASSUME NEW m, m.kind = "ringbuf"
  PROVE  IsRing(FirstContents(m)) /\ FirstContents(m).cons = 0
<1>1. PICK ring : /\ ring = FirstContents(m)
                  /\ ring = [prod |-> 0, cons |-> 0, hdr |-> Empty, submitted |-> <<>>]
  BY DEF FirstContents
<1>2. /\ DOMAIN ring = {"prod", "cons", "hdr", "submitted"}
      /\ ring.prod = 0 /\ ring.cons = 0 /\ ring.submitted = <<>>
  BY <1>1
<1>3. PICK at, seen : at = [k \in {0} |-> 0] /\ seen = [k \in {0} |-> <<>>]
  OBVIOUS
<1>4. Chain(ring, 0, at, seen)
  BY <1>2, <1>3 DEF Chain
<1> QED BY <1>1, <1>2, <1>4 DEF IsRing

(* A program adds a record at the end. *)
LEMMA RingGrows ==
  ASSUME NEW ring, IsRing(ring), NEW length \in Nat, NEW discard \in BOOLEAN
  PROVE  IsRing(Produced(ring, length, discard)) /\ Produced(ring, length, discard).cons = ring.cons
<1>a. PICK n \in Nat : \E at, seen : Chain(ring, n, at, seen)
  BY DEF IsRing
<1>1. PICK at, seen : Chain(ring, n, at, seen)
  BY <1>a
<1>2. PICK h : h = [length |-> length, busy |-> FALSE, discard |-> discard]
  OBVIOUS
<1>3. h.length = length /\ h.busy = FALSE /\ h.discard = discard
  BY <1>2
<1>4. PICK hdr : hdr = Put(ring.hdr, ring.prod, h)
  OBVIOUS
<1>5. /\ DOMAIN hdr = DOMAIN ring.hdr \cup {ring.prod} /\ hdr[ring.prod] = h
      /\ \A k \in DOMAIN ring.hdr : k # ring.prod => hdr[k] = ring.hdr[k]
  BY <1>4 DEF Put
<1>6. PICK prod \in Nat : prod = ring.prod + RecordStep(length) /\ prod > ring.prod
  BY StepIs DEF IsRing
<1>7. PICK sub : sub = IF discard THEN ring.submitted ELSE Append(ring.submitted, length)
  OBVIOUS
<1>8. PICK next : next = Produced(ring, length, discard)
  OBVIOUS
<1>9. /\ DOMAIN next = {"prod", "cons", "hdr", "submitted"}
      /\ next.hdr = hdr /\ next.prod = prod /\ next.submitted = sub /\ next.cons = ring.cons
  BY <1>2, <1>4, <1>6, <1>7, <1>8, StepIs DEF Produced, IsRing
<1>10. PICK at2, seen2 : /\ at2 = [k \in 0 .. n + 1 |-> IF k = n + 1 THEN prod ELSE at[k]]
                         /\ seen2 = [k \in 0 .. n + 1 |-> IF k = n + 1 THEN sub ELSE seen[k]]
  OBVIOUS
<1>11. /\ at2[n + 1] = prod /\ seen2[n + 1] = sub
       /\ \A k \in 0 .. n : at2[k] = at[k] /\ seen2[k] = seen[k]
  BY <1>10
<1>12. at[n] = ring.prod /\ seen[n] = ring.submitted /\ seen[n] \in Seq(Nat) /\ ring.prod \in Nat
  BY <1>1 DEF Chain, IsRing
<1>13. Chain(next, n + 1, at2, seen2)
  <2>1. at2[0] = 0 /\ seen2[0] = <<>> /\ at2[n + 1] = next.prod /\ seen2[n + 1] = next.submitted
    BY <1>1, <1>9, <1>11 DEF Chain
  <2>2. sub \in Seq(Nat)
    BY <1>7, <1>12
  <2>3. \A k \in 0 .. n + 1 : at2[k] \in Nat /\ seen2[k] \in Seq(Nat)
    <3>1. \A k \in 0 .. n + 1 : k = n + 1 \/ k \in 0 .. n
      OBVIOUS
    <3> QED BY <1>1, <1>11, <2>2, <3>1 DEF Chain
  <2>4. ASSUME NEW k \in 0 .. (n + 1) - 1
        PROVE  LET g == next.hdr[at2[k]]
               IN /\ at2[k] < next.prod /\ at2[k] \in DOMAIN next.hdr
                  /\ ~g.busy /\ g.length \in Nat /\ g.discard \in BOOLEAN
                  /\ at2[k + 1] = at2[k] + RecordStep(g.length)
                  /\ seen2[k + 1] = IF g.discard THEN seen2[k] ELSE Append(seen2[k], g.length)
    <3>1. CASE k = n
      <4>1. at2[k] = ring.prod /\ seen2[k] = ring.submitted /\ next.hdr[at2[k]] = h
        BY <1>5, <1>9, <1>11, <1>12, <3>1
      <4>2. at2[k + 1] = prod /\ seen2[k + 1] = sub
        BY <1>11, <3>1
      <4> QED BY <1>3, <1>5, <1>6, <1>7, <1>9, <4>1, <4>2
    <3>2. CASE k \in 0 .. n - 1
      <4>1. k + 1 \in 0 .. n /\ k \in 0 .. n
        BY <3>2
      <4>2. /\ at2[k] = at[k] /\ seen2[k] = seen[k]
            /\ at2[k + 1] = at[k + 1] /\ seen2[k + 1] = seen[k + 1]
        BY <1>11, <4>1
      <4>3. at[k] \in DOMAIN ring.hdr /\ at[k] < ring.prod /\ at[k] \in Nat
        BY <1>1, <3>2, <4>1 DEF Chain
      <4>4. next.hdr[at2[k]] = ring.hdr[at[k]] /\ at2[k] < next.prod
        BY <1>5, <1>6, <1>9, <1>12, <4>2, <4>3, SMTT(60)
      <4> QED BY <1>1, <1>5, <1>9, <3>2, <4>2, <4>3, <4>4 DEF Chain
    <3> QED BY <3>1, <3>2
  <2> QED BY <2>1, <2>3, <2>4 DEF Chain
<1> QED BY <1>8, <1>9, <1>13 DEF IsRing

-----------------------------------------------------------------------------
(* The report: what the maps hold, and the lines printed of them.             *)

(* What a map of its kind may hold; a ring from which nothing was read. *)
Sound(m, c) ==
  /\ m.kind = "array" => DOMAIN c = 0 .. m.entries - 1
  /\ m.kind = "hash" => IsFiniteSet(DOMAIN c) /\ DOMAIN c \subseteq Int
  /\ m.kind = "ringbuf" => IsRing(c)
Unread(m, c) == m.kind = "ringbuf" => c.cons = 0

(* At a call and an index, the k-th map was read. *)
WasRead(at, next, k) == at \in {"done", "exited"} \/ (at = "report" /\ k < next)

KeptAt(m, c, read) == Sound(m, c) /\ (~read => Unread(m, c))
Kept ==
  \A k \in DOMAIN Maps : Maps[k].name \in DOMAIN mapFds =>
    KeptAt(Maps[k], objs[MapObject(Maps[k].name)].contents, WasRead(pc, i, k))
MakingSound ==
  /\ pc \in {"fill", "freeze"} => KeptAt(M, Made.contents, FALSE)
  /\ pc = "fill" => M.kind = "array"

(* What ReportExact says of one map. *)
LineFor(m, c, entry) ==
  LET shown == {e \in DOMAIN c : m.kind = "hash" \/ \E b \in DOMAIN c[e] : c[e][b] # 0}
  IN /\ entry.of = m.name
     /\ m.kind = "ringbuf" => entry.line = c.submitted
     /\ m.kind \in {"array", "hash"} =>
          Ascending(entry.line) /\ Elems(entry.line) = {<<e, c[e]>> : e \in shown}

(* How many lines there are, and what they are. *)
OutCursor ==
  /\ pc = "run" => Len(out) = i - 1
  /\ pc \in {"report", "done"} => i \in 1 .. Len(Maps) + 1 /\ Len(out) = Len(Programs) + i - 1
  /\ pc = "done" => i = Len(Maps) + 1
Lines ==
  pc \in {"report", "done"} => \A k \in 1 .. i - 1 :
    LineFor(Maps[k], objs[MapObject(Maps[k].name)].contents, out[Len(Programs) + k])

ReportInv == ContentsInv /\ Printed /\ Kept /\ MakingSound /\ OutCursor /\ Lines

LEMMA ReportMeans == ReportInv => ReportExact
<1> SUFFICES ASSUME ReportInv, pc = "done"
             PROVE  /\ Len(out) = Len(Programs) + Len(Maps)
                    /\ \A k \in DOMAIN Maps :
                         LineFor(Maps[k], objs[MapObject(Maps[k].name)].contents, out[Len(Programs) + k])
  BY DEF ReportExact, LineFor
<1>1. IsSeq(Maps) /\ IsSeq(Programs)
  BY MapsFacts, ProgramsFacts DEF ReportInv, ContentsInv, Inv, TypeOK
<1>2. PICK n \in Nat, p \in Nat : n = Len(Maps) /\ DOMAIN Maps = 1 .. n /\ p = Len(Programs)
  BY <1>1, SeqFacts
<1>3. i = n + 1 /\ Len(out) = p + i - 1
  BY <1>2 DEF ReportInv, OutCursor
<1>4. i - 1 = n
  BY <1>3
<1> QED BY <1>2, <1>3, <1>4 DEF ReportInv, Lines

LEMMA KeptMeans ==
  /\ Kept =
       \A k \in DOMAIN Maps : Maps[k].name \in DOMAIN mapFds =>
         KeptAt(Maps[k], objs[MapObject(Maps[k].name)].contents, WasRead(pc, i, k))
  /\ Kept' =
       \A k \in DOMAIN Maps' : Maps'[k].name \in DOMAIN mapFds' =>
         KeptAt(Maps'[k], objs'[fds'[mapFds'[Maps'[k].name]]].contents, WasRead(pc', i', k))
  /\ Lines' =
       (pc' \in {"report", "done"} => \A k \in 1 .. i' - 1 :
          LineFor(Maps'[k], objs'[fds'[mapFds'[Maps'[k].name]]].contents, out'[Len(Programs') + k]))
  BY SMTT(60) DEF Kept, KeptAt, Sound, Unread, WasRead, IsRing, Chain, Lines, LineFor, MapObject,
         Ascending, Elems

(* The maps that are made keep their objects. *)
LEMMA KeptStays ==
  ASSUME ReportInv, UNCHANGED <<job, mapFds>>,
         pc \in {"report", "done", "exited"} => pc' \in {"done", "exited"} \/ UNCHANGED <<pc, i>>,
         \A n \in DOMAIN mapFds : objs'[fds'[mapFds'[n]]] = objs[MapObject(n)]
  PROVE  Kept'
<1>1. Maps' = Maps
  BY DEF Maps
<1>2. ASSUME NEW k \in DOMAIN Maps, Maps[k].name \in DOMAIN mapFds
      PROVE  KeptAt(Maps[k], objs'[fds'[mapFds'[Maps[k].name]]].contents, WasRead(pc', i', k))
  <2>1. KeptAt(Maps[k], objs[MapObject(Maps[k].name)].contents, WasRead(pc, i, k))
    BY <1>2, KeptMeans DEF ReportInv
  <2>2. WasRead(pc, i, k) => WasRead(pc', i', k)
    BY DEF WasRead
  <2> QED BY <1>2, <2>1, <2>2, SMTT(60) DEF KeptAt
<1> QED BY <1>1, <1>2, KeptMeans

LEMMA SameKept ==
  ASSUME Inv, UNCHANGED <<mapFds, objs, fds>>
  PROVE  \A n \in DOMAIN mapFds : objs'[fds'[mapFds'[n]]] = objs[MapObject(n)]
  BY DEF MapObject

LEMMA ExtendsKept ==
  ASSUME Inv, Extends, UNCHANGED mapFds
  PROVE  \A n \in DOMAIN mapFds : objs'[fds'[mapFds'[n]]] = objs[MapObject(n)]
  BY MadeNamed DEF Extends

-----------------------------------------------------------------------------
(* What maps start with, and what programs leave in them. *)

LEMMA FirstSound ==
  ASSUME NEW m, m.entries \in Nat
  PROVE  KeptAt(m, FirstContents(m), FALSE)
<1>1. CASE m.kind = "array"
  BY <1>1 DEF FirstContents, KeptAt, Sound, Unread
<1>2. CASE m.kind = "hash"
  <2>1. FirstContents(m) = Empty /\ DOMAIN Empty = {}
    BY <1>2 DEF FirstContents, Empty
  <2> QED BY <1>2, <2>1, FS_EmptySet DEF KeptAt, Sound, Unread
<1>3. CASE m.kind = "ringbuf"
  BY <1>3, EmptyRing DEF KeptAt, Sound, Unread
<1> QED BY <1>1, <1>2, <1>3 DEF KeptAt, Sound, Unread

LEMMA LeftSound ==
  ASSUME NEW m, NEW c, KeptAt(m, c, FALSE), NEW d \in Left(m, c)
  PROVE  KeptAt(m, d, FALSE)
<1>1. CASE m.kind = "array"
  <2>1. PICK e \in DOMAIN c, v \in Values(m) : d = [c EXCEPT ![e] = v]
    BY <1>1 DEF Left
  <2>2. DOMAIN d = DOMAIN c
    BY <2>1
  <2> QED BY <1>1, <2>2 DEF KeptAt, Sound, Unread
<1>2. CASE m.kind = "hash"
  <2>1. IsFiniteSet(DOMAIN c) /\ DOMAIN c \subseteq Int
    BY <1>2 DEF KeptAt, Sound
  <2>2. ASSUME NEW k \in Keys \cup DOMAIN c, NEW v, d = Put(c, k, v)
        PROVE  IsFiniteSet(DOMAIN d) /\ DOMAIN d \subseteq Int
    <3>1. DOMAIN d = DOMAIN c \cup {k} /\ k \in Int
      BY <2>1, <2>2, DataAssumption DEF Put
    <3> QED BY <2>1, <3>1, FS_AddElement
  <2>3. ASSUME NEW k \in DOMAIN c, d = [x \in DOMAIN c \ {k} |-> c[x]]
        PROVE  IsFiniteSet(DOMAIN d) /\ DOMAIN d \subseteq Int
    <3>1. DOMAIN d \subseteq DOMAIN c
      BY <2>3
    <3> QED BY <2>1, <3>1, FS_Subset
  <2>4. \/ \E k \in (IF Cardinality(DOMAIN c) < m.entries THEN Keys ELSE DOMAIN c), v \in Values(m) :
             d = Put(c, k, v)
        \/ \E k \in DOMAIN c : d = [x \in DOMAIN c \ {k} |-> c[x]]
    BY <1>2 DEF Left
  <2>5. IsFiniteSet(DOMAIN d) /\ DOMAIN d \subseteq Int
    BY <2>2, <2>3, <2>4
  <2> QED BY <1>2, <2>5 DEF KeptAt, Sound, Unread
<1>3. CASE m.kind = "ringbuf"
  <2>1. PICK n \in Lengths, b \in BOOLEAN : d = Produced(c, n, b)
    BY <1>3 DEF Left
  <2>2. n \in Nat /\ IsRing(c) /\ c.cons = 0
    BY <1>3, DataAssumption DEF KeptAt, Sound, Unread
  <2> QED BY <1>3, <2>1, <2>2, RingGrows DEF KeptAt, Sound, Unread
<1> QED BY <1>1, <1>2, <1>3 DEF KeptAt, Sound, Unread

(* Reading a ring changes only where it is read next. *)
LEMMA ReadSound ==
  ASSUME NEW m, m.kind = "ringbuf", NEW c, Sound(m, c), NEW n
  PROVE  Sound(m, [c EXCEPT !.cons = n]) /\ [c EXCEPT !.cons = n].submitted = c.submitted
<1>1. IsRing(c)
  BY DEF Sound
<1>2. PICK d : d = [c EXCEPT !.cons = n]
  OBVIOUS
<1>3. /\ DOMAIN d = DOMAIN c /\ d.prod = c.prod /\ d.hdr = c.hdr /\ d.submitted = c.submitted
  BY <1>1, <1>2 DEF IsRing
<1>4. PICK k \in Nat : \E at, seen : Chain(c, k, at, seen)
  BY <1>1 DEF IsRing
<1>5. PICK at, seen : Chain(c, k, at, seen)
  BY <1>4
<1>6. Chain(d, k, at, seen)
  BY <1>3, <1>5 DEF Chain
<1>7. IsRing(d)
  BY <1>1, <1>3, <1>6, SMTT(60) DEF IsRing
<1> QED BY <1>2, <1>3, <1>7 DEF Sound

(* What is printed of a map is what it holds. *)
LEMMA LineIs ==
  ASSUME NEW m, m.entries \in Nat, NEW c, c = objs[MapObject(m.name)].contents,
         KeptAt(m, c, FALSE),
         NEW order \in IF m.kind = "hash" THEN Orders(DOMAIN c) ELSE {<<>>}
  PROVE  LineFor(m, c, [of |-> m.name, line |-> ReportMap(m, Contents(m, order))])
<1>1. PICK line : line = ReportMap(m, Contents(m, order))
  OBVIOUS
<1>2. PICK entry : entry = [of |-> m.name, line |-> line]
  OBVIOUS
<1>3. entry.of = m.name /\ entry.line = line
  BY <1>2
<1>4. CASE m.kind = "ringbuf"
  <2>1. Contents(m, order) = RingRecords(c) /\ line = Contents(m, order)
    BY <1>1, <1>4 DEF Contents, ReportMap
  <2>2. RingRecords(c) = c.submitted
    BY <1>4, RingReads DEF KeptAt, Sound, Unread
  <2> QED BY <1>1, <1>2, <1>3, <1>4, <2>1, <2>2 DEF LineFor
<1>5. CASE m.kind = "hash"
  <2>1. PICK pairs : pairs = [n \in DOMAIN order |-> <<order[n], c[order[n]]>>]
    OBVIOUS
  <2>2. Contents(m, order) = pairs
    BY <1>5, <2>1 DEF Contents
  <2>3. line = ByKey(pairs)
    BY <1>1, <1>5, <2>2 DEF ReportMap
  <2>4. Ascending(line) /\ Elems(line) = {<<e, c[e]>> : e \in DOMAIN c}
    <3>1. PICK D : D = DOMAIN c /\ IsFiniteSet(D) /\ D \subseteq Int
      BY <1>5 DEF KeptAt, Sound
    <3>2. DOMAIN order = 1 .. Cardinality(D) /\ D = {order[n] : n \in DOMAIN order}
      BY <1>5, <3>1, SMTT(60) DEF Orders, Elems
    <3>4. DOMAIN pairs = 1 .. Cardinality(D) /\ Elems(pairs) = {<<e, c[e]>> : e \in D}
      <4>1. Elems(pairs) = {<<order[n], c[order[n]]>> : n \in DOMAIN order}
        BY <2>1, SMTT(60) DEF Elems
      <4>2. {<<order[n], c[order[n]]>> : n \in DOMAIN order} = {<<e, c[e]>> : e \in D}
        BY <3>2
      <4> QED BY <2>1, <3>2, <4>1, <4>2
    <3>3. Ascending(ByKey(pairs)) /\ Elems(ByKey(pairs)) = {<<e, c[e]>> : e \in D}
      BY <3>1, <3>4, PairsByKey, SMTT(60)
    <3> QED BY <2>3, <3>1, <3>3
  <2>5. {e \in DOMAIN c : m.kind = "hash" \/ \E b \in DOMAIN c[e] : c[e][b] # 0} = DOMAIN c
    BY <1>5
  <2> QED BY <1>1, <1>2, <1>3, <1>5, <2>4, <2>5 DEF LineFor
<1>6. CASE m.kind = "array"
  <2>1. PICK s : s = [n \in 1 .. m.entries |-> <<n - 1, c[n - 1]>>]
    OBVIOUS
  <2>2. Contents(m, order) = s
    BY <1>6, <2>1 DEF Contents
  <2>3. line = ReportMap(m, s)
    BY <1>1, <2>2
  <2>4. /\ Ascending(line)
        /\ Elems(line) = LiveOf(c, m.entries)
    <3>1. PICK n \in Nat : n = m.entries /\ m.kind \notin {"ringbuf", "hash"}
      BY <1>6
    <3>2. Indexed(s, n, c)
      BY <2>1, <3>1 DEF Indexed
    <3>3. /\ Ascending(ReportMap(m, s))
          /\ Elems(ReportMap(m, s)) = LiveOf(c, n)
      BY <3>1, <3>2, LiveEntries
    <3> QED BY <2>3, <3>1, <3>3
  <2>5. {e \in DOMAIN c : m.kind = "hash" \/ \E b \in DOMAIN c[e] : c[e][b] # 0}
          = {e \in 0 .. m.entries - 1 : ~IsZero(c[e])}
    BY <1>6, SMTT(60) DEF KeptAt, Sound, IsZero
  <2> QED BY <1>1, <1>2, <1>3, <1>6, <2>4, <2>5 DEF LineFor, LiveOf
<1> QED BY <1>1, <1>2, <1>3, <1>4, <1>5, <1>6 DEF LineFor

-----------------------------------------------------------------------------
(* The steps. *)

(* Steps to a call other than a report, that leave the maps as they are.      *)
LEMMA QuietKeeps ==
  ASSUME ReportInv, UNCHANGED <<job, mapFds, objs, fds>>,
         pc \notin {"report", "done", "exited"}, pc' \notin {"fill", "freeze", "run", "report", "done"}
  PROVE  Kept' /\ MakingSound' /\ OutCursor' /\ Lines'
<1>1. Kept'
  BY SameKept, KeptStays DEF ReportInv, ContentsInv
<1> QED BY <1>1, KeptMeans DEF MakingSound, OutCursor

LEMMA ReportExit ==
  ASSUME ReportInv, Exit PROVE Kept' /\ MakingSound' /\ OutCursor' /\ Lines'
<1>1. UNCHANGED <<job, mapFds, objs, fds>> /\ pc' = "exited"
  BY DEF Exit, kernelVars
<1>2. Kept'
  BY <1>1, SameKept, KeptStays DEF ReportInv, ContentsInv
<1> QED BY <1>1, <1>2, KeptMeans DEF MakingSound, OutCursor

LEMMA ReportLoadBtf ==
  ASSUME ReportInv, LoadBtf PROVE Kept' /\ MakingSound' /\ OutCursor' /\ Lines'
<1>1. CASE Fails
  BY <1>1, ReportExit DEF Fails
<1>2. ASSUME NEW d \in Fds, NewObject(d, [what |-> "btf", name |-> M.name]), pc = "btf",
             pc' = "create", UNCHANGED <<job, mapFds, ran>>
      PROVE  Kept' /\ MakingSound' /\ OutCursor' /\ Lines'
  <2>1. PICK o : o = [what |-> "btf", name |-> M.name]
    OBVIOUS
  <2>2. "what" \in DOMAIN o /\ "name" \in DOMAIN o /\ o.what # "map"
    BY <2>1
  <2>3. Extends
    BY <1>2, <2>1, <2>2, NewExtends DEF ReportInv
  <2>4. Kept'
    BY <1>2, <2>3, ExtendsKept, KeptStays DEF ReportInv, ContentsInv
  <2> QED BY <1>2, <2>4, KeptMeans DEF MakingSound, OutCursor
<1> QED BY <1>1, <1>2 DEF LoadBtf

LEMMA ReportLoadProgram ==
  ASSUME ReportInv, LoadProgram PROVE Kept' /\ MakingSound' /\ OutCursor' /\ Lines'
<1>1. CASE Exit
  BY <1>1, ReportExit
<1>2. ASSUME NEW d \in Fds, NEW refs, NewObject(d, [what |-> "prog", name |-> P.name, refs |-> refs]),
             pc = "programs", UNCHANGED <<job, pc, mapFds, ran>>
      PROVE  Kept' /\ MakingSound' /\ OutCursor' /\ Lines'
  <2>1. PICK o : o = [what |-> "prog", name |-> P.name, refs |-> refs]
    OBVIOUS
  <2>2. "what" \in DOMAIN o /\ "name" \in DOMAIN o /\ o.what # "map"
    BY <2>1
  <2>3. Extends
    BY <1>2, <2>1, <2>2, NewExtends DEF ReportInv
  <2>4. Kept'
    BY <1>2, <2>3, ExtendsKept, KeptStays DEF ReportInv, ContentsInv
  <2> QED BY <1>2, <2>4, KeptMeans DEF MakingSound, OutCursor
<1> QED BY <1>1, <1>2 DEF LoadProgram

(* A new map holds what the kernel gives it. *)
LEMMA ReportCreateMap ==
  ASSUME ReportInv, CreateMap PROVE Kept' /\ MakingSound' /\ OutCursor' /\ Lines'
<1>1. CASE Fails
  BY <1>1, ReportExit DEF Fails
<1>2. ASSUME NEW d \in Fds, NEW btf,
             NewObject(d, [what |-> "map", name |-> M.name, contents |-> FirstContents(M),
                           frozen |-> FALSE, btf |-> btf]),
             fd' = d, pc = "create", pc' = AfterEntries(0), UNCHANGED <<job, i, mapFds, ran>>
      PROVE  Kept' /\ MakingSound' /\ OutCursor' /\ Lines'
  <2>1. PICK o : o = [what |-> "map", name |-> M.name, contents |-> FirstContents(M),
                      frozen |-> FALSE, btf |-> btf]
    OBVIOUS
  <2>2. /\ "what" \in DOMAIN o /\ "name" \in DOMAIN o /\ {"contents", "frozen"} \subseteq DOMAIN o
        /\ o.contents = FirstContents(M)
    BY <2>1
  <2>3. Extends /\ objs'[fds'[d]] = o
    BY <1>2, <2>1, <2>2, NewExtends DEF ReportInv
  <2>4. pc' \in {"fill", "freeze"}
    BY <1>2 DEF AfterEntries
  <2>5. Kept'
    BY <1>2, <2>3, <2>4, ExtendsKept, KeptStays DEF ReportInv, ContentsInv
  <2>6. M' = M /\ Made'.contents = FirstContents(M)
    BY <1>2, <2>2, <2>3 DEF M, Maps, Made
  <2>7. M.entries \in Nat /\ (HasEntry(M, 0) => M.kind = "array")
    <3>1. IsSeq(Maps) /\ job \in Jobs /\ Len(Maps) \in Nat
      BY MapsFacts, SeqFacts DEF ReportInv, ContentsInv, Inv, TypeOK
    <3>2. i \in 1 .. Len(Maps)
      BY <1>2, <3>1 DEF ReportInv, ContentsInv, Inv, Cursor, Mapping
    <3>3. /\ M.entries \in Nat /\ M.valueSize \in Nat
          /\ M.data = <<>> \/ M.kind = "array"
      BY <3>1, <3>2, MapFacts, ContentsAssumption DEF M, Maps
    <3>4. M.data = <<>> => ~HasEntry(M, 0)
      BY <3>3 DEF HasEntry
    <3> QED BY <3>3, <3>4
  <2>8. KeptAt(M, Made'.contents, FALSE)
    BY <2>6, <2>7, FirstSound
  <2>9. MakingSound'
    BY <1>2, <2>6, <2>7, <2>8 DEF MakingSound, AfterEntries, KeptAt, Sound, Unread, IsRing, Chain
  <2> QED BY <2>4, <2>5, <2>9, KeptMeans DEF OutCursor
<1> QED BY <1>1, <1>2, SMTT(60) DEF CreateMap

(* Filling writes entries an array has. *)
LEMMA ReportFillEntry ==
  ASSUME ReportInv, FillEntry PROVE Kept' /\ MakingSound' /\ OutCursor' /\ Lines'
<1>1. CASE Fails
  BY <1>1, ReportExit DEF Fails
<1>2. CASE /\ pc = "fill" /\ objs' = [objs EXCEPT ![fds[fd]].contents[j] = Entry(M, j)]
           /\ pc' = AfterEntries(j + 1) /\ UNCHANGED <<job, i, fd, mapFds, fds, ran>>
  <2>1. PICK o : o = fds[fd]
    OBVIOUS
  <2>2. PICK c : c = [objs[o].contents EXCEPT ![j] = Entry(M, j)]
    OBVIOUS
  <2>3. PICK r : r = [objs[o] EXCEPT !.contents = c]
    OBVIOUS
  <2>4. objs' = [objs EXCEPT ![o] = r]
    BY <1>2, <2>1, <2>2, <2>3
  <2>5. /\ o \in DOMAIN objs /\ objs[o].what = "map" /\ "contents" \in DOMAIN objs[o]
        /\ i \in 1 .. Len(Maps) /\ job \in Jobs
    BY <1>2, <2>1, Making DEF ReportInv, ContentsInv, Shaped, Inv, TypeOK
  <2>6. M' = M /\ Made'.contents = c
    <3>1. r.contents = c
      BY <2>3, <2>5
    <3> QED BY <1>2, <2>1, <2>4, <2>5, <3>1 DEF M, Maps, Made
  <2>7. pc' \in {"fill", "freeze"}
    BY <1>2 DEF AfterEntries
  <2>8. Kept'
    <3>1. \A n \in DOMAIN mapFds : objs'[fds'[mapFds'[n]]] = objs[MapObject(n)]
      BY <1>2, <2>1, <2>4, MakingKeeps DEF ReportInv
    <3> QED BY <1>2, <2>7, <3>1, KeptStays
  <2>9. M.kind = "array"
    BY <1>2 DEF ReportInv, MakingSound
  <2>10. KeptAt(M, c, FALSE)
    <3>1. DOMAIN c = DOMAIN objs[o].contents
      BY <2>2
    <3>2. KeptAt(M, objs[o].contents, FALSE)
      BY <1>2, <2>1 DEF ReportInv, MakingSound, Made
    <3> QED BY <2>9, <3>1, <3>2 DEF KeptAt, Sound, Unread
  <2>11. MakingSound'
    BY <2>6, <2>9, <2>10 DEF MakingSound, KeptAt, Sound, Unread, IsRing, Chain
  <2> QED BY <2>7, <2>8, <2>11, KeptMeans DEF OutCursor
<1> QED BY <1>1, <1>2 DEF FillEntry

(* A map that is done is kept as it was made. *)
LEMMA ReportFreezeMap ==
  ASSUME ReportInv, FreezeMap PROVE Kept' /\ MakingSound' /\ OutCursor' /\ Lines'
<1>1. CASE Fails
  BY <1>1, ReportExit DEF Fails
<1>2. CASE /\ pc = "freeze" /\ pc' = "maps"
           /\ objs' = IF IsFinal(M) THEN [objs EXCEPT ![fds[fd]].frozen = TRUE] ELSE objs
           /\ mapFds' = Put(mapFds, M.name, fd)
           /\ UNCHANGED <<job, fds, ran>>
  <2>1. PICK o : o = fds[fd]
    OBVIOUS
  <2>2. PICK r : r = IF IsFinal(M) THEN [objs[o] EXCEPT !.frozen = TRUE] ELSE objs[o]
    OBVIOUS
  <2>3. /\ o \in DOMAIN objs /\ "contents" \in DOMAIN objs[o]
        /\ i \in 1 .. Len(Maps) /\ job \in Jobs /\ IsSeq(Maps)
    BY <1>2, <2>1, Making DEF ReportInv, ContentsInv, Shaped, Inv, TypeOK
  <2>4. objs' = [objs EXCEPT ![o] = r]
    <3>1. CASE IsFinal(M)
      BY <1>2, <2>1, <2>2, <3>1
    <3>2. CASE ~IsFinal(M)
      <4>1. objs \in [1 .. Len(objs) -> Elems(objs)]
        BY DEF ReportInv, ContentsInv, Inv, ObjectsNamed, IsSeq
      <4>2. [objs EXCEPT ![o] = objs[o]] = objs
        BY <4>1
      <4> QED BY <1>2, <2>2, <3>2, <4>2
    <3> QED BY <3>1, <3>2
  <2>5. r.contents = objs[o].contents
    BY <2>2, <2>3
  <2>6. Maps' = Maps
    BY <1>2 DEF Maps
  <2>7. /\ DOMAIN mapFds' = DOMAIN mapFds \cup {M.name} /\ mapFds'[M.name] = fd
        /\ \A n \in DOMAIN mapFds : n # M.name => mapFds'[n] = mapFds[n]
    BY <1>2 DEF Put
  <2>8. ASSUME NEW k \in DOMAIN Maps, Maps[k].name \in DOMAIN mapFds'
        PROVE  KeptAt(Maps[k], objs'[fds'[mapFds'[Maps[k].name]]].contents, WasRead(pc', i', k))
    <3>1. CASE Maps[k].name = M.name
      <4>1. Maps[k] = M
        <5>1. Maps[k] \in Elems(Maps)
          BY DEF Elems
        <5> QED BY <2>3, <3>1, <5>1, OneMap DEF M
      <4>2. objs'[fds'[mapFds'[M.name]]] = r
        BY <1>2, <2>1, <2>3, <2>4, <2>7
      <4>3. KeptAt(M, objs[o].contents, FALSE)
        BY <1>2, <2>1 DEF ReportInv, MakingSound, Made
      <4> QED BY <2>5, <4>1, <4>2, <4>3 DEF KeptAt
    <3>2. CASE Maps[k].name # M.name
      <4>1. Maps[k].name \in DOMAIN mapFds /\ mapFds'[Maps[k].name] = mapFds[Maps[k].name]
        BY <2>7, <2>8, <3>2
      <4>2. KeptAt(Maps[k], objs[MapObject(Maps[k].name)].contents, FALSE)
        BY <1>2, <4>1, KeptMeans DEF ReportInv, KeptAt, WasRead
      <4>3. objs'[fds'[mapFds'[Maps[k].name]]] = objs[MapObject(Maps[k].name)]
        BY <1>2, <2>1, <2>4, <4>1, MakingKeeps DEF ReportInv
      <4> QED BY <4>2, <4>3 DEF KeptAt
    <3> QED BY <3>1, <3>2
  <2> QED BY <1>2, <2>6, <2>8, KeptMeans DEF MakingSound, OutCursor
<1> QED BY <1>1, <1>2, SMTT(60) DEF FreezeMap

(* Two indices of a map of one name are one. *)
LEMMA OneIndex ==
  ASSUME job \in Jobs, NEW k \in DOMAIN Maps, NEW l \in DOMAIN Maps, Maps[k] = Maps[l]
  PROVE  k = l
  BY MapsFacts DEF DistinctNames

(* One map's contents change. *)
LEMMA OtherKept ==
  ASSUME ReportInv, NEW k \in DOMAIN Maps, Maps[k].name \in DOMAIN mapFds, NEW c, Changes(k, c),
         UNCHANGED <<job, mapFds>>,
         \A n \in DOMAIN mapFds : fds'[mapFds[n]] = fds[mapFds[n]],
         NEW l \in DOMAIN Maps, Maps[l].name \in DOMAIN mapFds
  PROVE  /\ l # k => objs'[fds'[mapFds'[Maps[l].name]]] = objs[MapObject(Maps[l].name)]
         /\ l = k => objs'[fds'[mapFds'[Maps[l].name]]].contents = c
<1>1. Maps[l] \in Elems(Maps) /\ job \in Jobs
  BY DEF Elems, ReportInv, ContentsInv, Inv, TypeOK
<1>2. l # k => Maps[l] # Maps[k]
  BY <1>1, OneIndex
<1>3. PICK m \in Elems(Maps) : m = Maps[l] /\ m.name \in DOMAIN mapFds
  BY <1>1
<1>4. ContentsInv
  BY DEF ReportInv
<1>5. /\ m # Maps[k] => objs'[fds'[mapFds'[m.name]]] = objs[MapObject(m.name)]
      /\ m = Maps[k] => objs'[fds'[mapFds'[m.name]]].contents = c
  BY <1>3, <1>4, OneChanges
<1> QED BY <1>2, <1>3, <1>5

(* A run leaves in a map what a map may hold. *)
LEMMA ReportTestRun ==
  ASSUME ReportInv, TestRun PROVE Kept' /\ MakingSound' /\ OutCursor' /\ Lines'
<1>1. CASE Fails
  BY <1>1, ReportExit DEF Fails
<1>2. ASSUME NEW line, out' = Append(out, line), Effect, fds' = StillOpen, pc = "run",
             i <= Len(Programs), i' = i + 1, UNCHANGED <<job, pc, mapFds>>
      PROVE  Kept' /\ MakingSound' /\ OutCursor' /\ Lines'
  <2>1. /\ DOMAIN mapFds = NamesOf(Maps) /\ Maps' = Maps
        /\ \A n \in DOMAIN mapFds : fds'[mapFds[n]] = fds[mapFds[n]]
    BY <1>2, RunLeavesMaps DEF ReportInv, ContentsInv, Maps
  <2>2. OutCursor'
    <3>1. IsSeq(out) /\ Len(out) = i - 1 /\ i \in Nat
      BY <1>2 DEF ReportInv, Printed, OutCursor, ContentsInv, Inv, TypeOK
    <3>2. Len(out') = Len(out) + 1
      BY <1>2, <3>1, AppendIsSeq
    <3> QED BY <1>2, <3>1, <3>2 DEF OutCursor
  <2>3. CASE UNCHANGED objs
    <3>1. \A n \in DOMAIN mapFds : objs'[fds'[mapFds'[n]]] = objs[MapObject(n)]
      BY <1>2, <2>1, <2>3 DEF MapObject
    <3>2. Kept'
      BY <1>2, <3>1, KeptStays, SMTT(60)
    <3> QED BY <1>2, <2>2, <3>2, KeptMeans DEF MakingSound
  <2>4. ASSUME NEW k \in DOMAIN Maps, NEW c \in Left(Maps[k], objs[MapObject(Maps[k].name)].contents),
               Changes(k, c)
        PROVE  Kept'
    <3>1. Maps[k].name \in DOMAIN mapFds
      BY <2>1 DEF NamesOf
    <3>2. ASSUME NEW l \in DOMAIN Maps, Maps[l].name \in DOMAIN mapFds
          PROVE  KeptAt(Maps[l], objs'[fds'[mapFds'[Maps[l].name]]].contents, WasRead(pc', i', l))
      <4>1. KeptAt(Maps[l], objs[MapObject(Maps[l].name)].contents, FALSE)
        BY <1>2, <3>2, KeptMeans DEF ReportInv, KeptAt, WasRead
      <4>4. UNCHANGED <<job, mapFds>> /\ \A n \in DOMAIN mapFds : fds'[mapFds[n]] = fds[mapFds[n]]
        BY <1>2, <2>1
      <4>5. /\ l # k => objs'[fds'[mapFds'[Maps[l].name]]] = objs[MapObject(Maps[l].name)]
            /\ l = k => objs'[fds'[mapFds'[Maps[l].name]]].contents = c
        BY <2>4, <3>1, <3>2, <4>4, OtherKept
      <4>2. CASE l = k
        <5>1. objs'[fds'[mapFds'[Maps[l].name]]].contents = c
          BY <4>2, <4>5
        <5>2. KeptAt(Maps[l], c, FALSE)
          BY <4>1, <4>2, LeftSound
        <5> QED BY <5>1, <5>2 DEF KeptAt
      <4>3. CASE l # k
        <5>1. objs'[fds'[mapFds'[Maps[l].name]]] = objs[MapObject(Maps[l].name)]
          BY <4>3, <4>5
        <5> QED BY <4>1, <5>1 DEF KeptAt
      <4> QED BY <4>2, <4>3
    <3> QED BY <1>2, <2>1, <3>2, KeptMeans
  <2>5. CASE ~UNCHANGED objs
    <3>1. PICK k \in DOMAIN Maps :
            \E c \in Left(Maps[k], objs[MapObject(Maps[k].name)].contents) :
              objs' = [objs EXCEPT ![MapObject(Maps[k].name)].contents = c]
      BY <1>2, <2>5 DEF Effect
    <3>2. Kept'
      BY <2>4, <3>1 DEF Changes
    <3> QED BY <1>2, <2>2, <3>2, KeptMeans DEF MakingSound
  <2> QED BY <2>3, <2>5
<1> QED BY <1>1, <1>2 DEF TestRun

(* The map reported next is as the runs left it, and its lines are what it    *)
(* holds; the lines before stay true of theirs.                               *)
LEMMA ReportReportOne ==
  ASSUME ReportInv, ReportOne PROVE Kept' /\ MakingSound' /\ OutCursor' /\ Lines'
<1>1. CASE Fails
  BY <1>1, ReportExit DEF Fails
<1>2. CASE ~Fails
  <2>1. PICK m : m = M
    OBVIOUS
  <2>2. PICK o : o = MapObject(m.name)
    OBVIOUS
  <2>3. PICK c : c = objs[o].contents
    OBVIOUS
  <2>4. /\ pc = "report" /\ i <= Len(Maps) /\ i' = i + 1 /\ UNCHANGED <<job, pc, mapFds, fds, ran>>
        /\ objs' = IF m.kind = "ringbuf" THEN [objs EXCEPT ![o].contents.cons = c.prod] ELSE objs
        /\ \E order \in IF m.kind = "hash" THEN Orders(DOMAIN c) ELSE {<<>>} :
             out' = Append(out, [of |-> m.name, line |-> ReportMap(m, Contents(m, order))])
    BY <1>2, <2>1, <2>2, <2>3 DEF ReportOne
  <2>5. /\ i \in 1 .. Len(Maps) /\ DOMAIN Maps = 1 .. Len(Maps) /\ Len(Maps) \in Nat
        /\ DOMAIN mapFds = NamesOf(Maps) /\ job \in Jobs /\ Maps' = Maps /\ Programs' = Programs
        /\ Len(Programs) \in Nat /\ \A k \in 1 .. Len(Maps) : Maps[k].name \in DOMAIN mapFds
    <3>1. IsSeq(Maps) /\ IsSeq(Programs) /\ job \in Jobs /\ DOMAIN mapFds = NamesOf(Maps)
      BY <2>4, MapsFacts, ProgramsFacts DEF ReportInv, ContentsInv, Inv, TypeOK, Cursor, Later
    <3>2. DOMAIN Maps = 1 .. Len(Maps) /\ Len(Maps) \in Nat /\ Len(Programs) \in Nat
      BY <3>1, SeqFacts
    <3>3. i \in 1 .. Len(Maps)
      BY <2>4, <3>2 DEF ReportInv, OutCursor
    <3> QED BY <2>4, <3>1, <3>2, <3>3 DEF Maps, Programs, NamesOf
  <2>6. m = Maps[i] /\ m.entries \in Nat /\ KeptAt(m, c, FALSE)
    <3>1. ~WasRead(pc, i, i)
      BY <2>4, <2>5, SMTT(60) DEF WasRead
    <3>2. KeptAt(Maps[i], objs[MapObject(Maps[i].name)].contents, WasRead(pc, i, i))
      BY <2>5, KeptMeans DEF ReportInv
    <3> QED BY <2>1, <2>2, <2>3, <2>5, <3>1, <3>2, MapFacts DEF M, KeptAt
  <2>7. PICK d : /\ Sound(m, d) /\ d.submitted = c.submitted /\ (m.kind # "ringbuf" => d = c)
                 /\ objs'[fds'[mapFds'[Maps[i].name]]].contents = d
                 /\ \A k \in 1 .. Len(Maps) :
                      k # i => objs'[fds'[mapFds'[Maps[k].name]]] = objs[MapObject(Maps[k].name)]
    <3>1. CASE m.kind = "ringbuf"
      <4>1. PICK d : d = [c EXCEPT !.cons = c.prod]
        OBVIOUS
      <4>2. PICK l \in DOMAIN Maps : l = i /\ Maps[l].name \in DOMAIN mapFds
        BY <2>5
      <4>6. Changes(l, d)
        BY <2>2, <2>3, <2>4, <2>6, <3>1, <4>1, <4>2 DEF Changes
      <4>3. /\ UNCHANGED <<job, mapFds>>
            /\ \A n \in DOMAIN mapFds : fds'[mapFds[n]] = fds[mapFds[n]]
        BY <2>4, <2>5
      <4>4. ASSUME NEW k \in 1 .. Len(Maps)
            PROVE  /\ k # l => objs'[fds'[mapFds'[Maps[k].name]]] = objs[MapObject(Maps[k].name)]
                   /\ k = l => objs'[fds'[mapFds'[Maps[k].name]]].contents = d
        <5>1. k \in DOMAIN Maps /\ Maps[k].name \in DOMAIN mapFds
          BY <2>5
        <5> QED BY <4>2, <4>3, <4>6, <5>1, OtherKept
      <4>5. Sound(m, d) /\ d.submitted = c.submitted
        BY <2>6, <3>1, <4>1, ReadSound, SMTT(60) DEF KeptAt
      <4> QED BY <2>5, <3>1, <4>2, <4>4, <4>5
    <3>2. CASE m.kind # "ringbuf"
      <4>1. objs' = objs
        BY <2>4, <3>2
      <4> QED BY <2>2, <2>3, <2>4, <2>6, <3>2, <4>1 DEF MapObject, KeptAt
    <3> QED BY <3>1, <3>2
  <2>8. PICK entry : out' = Append(out, entry) /\ LineFor(m, c, entry)
    <3>1. PICK order \in IF m.kind = "hash" THEN Orders(DOMAIN c) ELSE {<<>>} :
            out' = Append(out, [of |-> m.name, line |-> ReportMap(m, Contents(m, order))])
      BY <2>4
    <3>2. LineFor(m, c, [of |-> m.name, line |-> ReportMap(m, Contents(m, order))])
      BY <2>2, <2>3, <2>6, LineIs
    <3> QED BY <3>1, <3>2
  <2>9. LineFor(m, d, entry)
    BY <2>7, <2>8 DEF LineFor
  <2>10. Kept'
    <3>1. ASSUME NEW k \in DOMAIN Maps, Maps[k].name \in DOMAIN mapFds
          PROVE  KeptAt(Maps[k], objs'[fds'[mapFds'[Maps[k].name]]].contents, WasRead(pc', i', k))
      <4>1. CASE k = i
        <5>1. WasRead(pc', i', k)
          BY <2>4, <2>5, <4>1 DEF WasRead
        <5> QED BY <2>6, <2>7, <4>1, <5>1 DEF KeptAt
      <4>2. CASE k # i
        <5>1. WasRead(pc, i, k) => WasRead(pc', i', k)
          BY <2>4, <2>5, SMTT(60) DEF WasRead
        <5>2. KeptAt(Maps[k], objs[MapObject(Maps[k].name)].contents, WasRead(pc, i, k))
          BY <3>1, KeptMeans DEF ReportInv
        <5>3. objs'[fds'[mapFds'[Maps[k].name]]] = objs[MapObject(Maps[k].name)]
          BY <2>5, <2>7, <4>2
        <5> QED BY <5>1, <5>2, <5>3 DEF KeptAt
      <4> QED BY <4>1, <4>2
    <3> QED BY <2>4, <2>5, <3>1, KeptMeans
  <2>11. PICK n \in Nat : /\ n = Len(out) /\ n = Len(Programs) + i - 1 /\ Len(out') = n + 1
                          /\ out'[n + 1] = entry /\ \A k \in 1 .. n : out'[k] = out[k]
    <3>1. IsSeq(out) /\ Len(out) \in Nat /\ Len(out) = Len(Programs) + i - 1
      BY <2>4, SeqFacts DEF ReportInv, Printed, OutCursor
    <3> QED BY <2>8, <3>1, AppendIsSeq
  <2>12. OutCursor'
    BY <2>4, <2>5, <2>11, SMTT(60) DEF OutCursor
  <2>13. Lines'
    <3>1. ASSUME NEW k \in 1 .. i' - 1
          PROVE  LineFor(Maps[k], objs'[fds'[mapFds'[Maps[k].name]]].contents, out'[Len(Programs) + k])
      <4>1. CASE k = i
        <5>1. out'[Len(Programs) + k] = entry
          BY <2>5, <2>11, <4>1
        <5> QED BY <2>6, <2>7, <2>9, <4>1, <5>1
      <4>2. CASE k # i
        <5>1. k \in 1 .. i - 1 /\ k \in 1 .. Len(Maps) /\ Len(Programs) + k \in 1 .. n
          BY <2>4, <2>5, <2>11, <4>2, SMTT(60)
        <5>2. out'[Len(Programs) + k] = out[Len(Programs) + k]
          BY <2>11, <5>1
        <5>3. objs'[fds'[mapFds'[Maps[k].name]]] = objs[MapObject(Maps[k].name)]
          BY <2>7, <4>2, <5>1
        <5>4. LineFor(Maps[k], objs[MapObject(Maps[k].name)].contents, out[Len(Programs) + k])
          BY <2>4, <5>1 DEF ReportInv, Lines
        <5> QED BY <5>2, <5>3, <5>4
      <4> QED BY <4>1, <4>2
    <3> QED BY <2>4, <2>5, <3>1, KeptMeans
  <2> QED BY <2>4, <2>10, <2>12, <2>13 DEF MakingSound
<1> QED BY <1>1, <1>2

LEMMA ReportInvInit == Init => ReportInv
<1> SUFFICES ASSUME Init PROVE ReportInv
  OBVIOUS
<1>1. pc = "start" /\ DOMAIN mapFds = {}
  BY DEF Init, Empty
<1> QED BY <1>1, ContentsInvInit, PrintedInit DEF ReportInv, Kept, MakingSound, OutCursor, Lines

LEMMA ReportInvNext == ReportInv /\ [Next]_vars => ReportInv'
<1> SUFFICES ASSUME ReportInv, [Next]_vars PROVE ReportInv'
  OBVIOUS
<1> SUFFICES Kept' /\ MakingSound' /\ OutCursor' /\ Lines'
  <2>1. ContentsInv' /\ Printed'
    BY ContentsInvNext, PrintedNext DEF ReportInv, ContentsInv, VerdictsInv
  <2> QED BY <2>1 DEF ReportInv
<1>1. CASE UNCHANGED vars
  <2>1. UNCHANGED <<job, pc, i, fd, mapFds, objs, fds, out>>
    BY <1>1 DEF vars, toolVars, kernelVars
  <2>2. Kept'
    BY <2>1, SameKept, KeptStays DEF ReportInv, ContentsInv
  <2>3. Maps' = Maps /\ Programs' = Programs /\ M' = M /\ Made' = Made
    BY <2>1, SMTT(60) DEF Maps, Programs, M, Made
  <2>4. MakingSound'
    <3>1. M'.kind = M.kind /\ Made'.contents = Made.contents
      BY <2>3
    <3>2. KeptAt(M, Made.contents, FALSE) => KeptAt(M', Made'.contents, FALSE)
      BY <2>3
    <3> QED BY <2>1, <3>1, <3>2 DEF ReportInv, MakingSound, KeptAt, Sound, Unread, IsRing, Chain
  <2>6. OutCursor'
    BY <2>1, <2>3 DEF ReportInv, OutCursor
  <2>5. Lines'
    BY <2>1, <2>3, KeptMeans DEF ReportInv, Lines, MapObject
  <2> QED BY <2>2, <2>4, <2>5, <2>6
<1>2. CASE Decline
  BY <1>2, ReportExit DEF Decline, Fails
<1>3. CASE Begin \/ NextMap \/ ProgramsDone
  BY <1>3, QuietKeeps DEF Begin, NextMap, ProgramsDone, kernelVars
<1>4. CASE LinkSlot
  BY <1>4, QuietKeeps, ReportExit DEF LinkSlot, Fails
<1>5. CASE NextArray
  <2>1. UNCHANGED <<job, mapFds, objs, fds, out, ran>> /\ pc = "slots" /\ pc' \in {"slots", "run"}
    BY <1>5 DEF NextArray, kernelVars
  <2>2. Kept'
    BY <2>1, SameKept, KeptStays DEF ReportInv, ContentsInv
  <2>3. pc' = "run" => i' = 1
    BY <1>5, <2>1 DEF NextArray
  <2>4. Len(out) = 0
    BY <2>1 DEF ReportInv, Printed, Printing, ContentsInv, Inv, RunsCursor
  <2>5. OutCursor'
    <3>1. pc' = "run" => i' = 1 /\ Len(out') = 0
      BY <2>1, <2>3, <2>4
    <3> QED BY <2>1, <3>1 DEF OutCursor
  <2>7. MakingSound'
    BY <2>1 DEF MakingSound
  <2>6. Lines'
    BY <2>1, KeptMeans
  <2> QED BY <2>2, <2>5, <2>6, <2>7
<1>6. CASE RunsDone
  <2>1. /\ UNCHANGED <<job, mapFds, objs, fds, out>> /\ pc = "run" /\ i > Len(Programs)
        /\ pc' = "report" /\ i' = 1
    BY <1>6 DEF RunsDone, kernelVars
  <2>2. Kept'
    BY <2>1, SameKept, KeptStays DEF ReportInv, ContentsInv
  <2>3. IsSeq(Maps) /\ IsSeq(Programs) /\ Maps' = Maps /\ Programs' = Programs
    BY <2>1, MapsFacts, ProgramsFacts DEF ReportInv, ContentsInv, Inv, TypeOK, Maps, Programs
  <2>4. Len(Maps) \in Nat /\ Len(Programs) \in Nat
    BY <2>3, SeqFacts
  <2>5. i = Len(Programs) + 1 /\ Len(out) = i - 1
    BY <2>1, <2>4 DEF ReportInv, OutCursor, ContentsInv, Inv, ProgramsCursor
  <2>6. OutCursor'
    BY <2>1, <2>3, <2>4, <2>5, SMTT(60) DEF OutCursor
  <2>7. Lines'
    <3>1. \A k : k \notin 1 .. i' - 1
      BY <2>1
    <3> QED BY <3>1, KeptMeans
  <2>8. MakingSound'
    BY <2>1 DEF MakingSound
  <2> QED BY <2>2, <2>6, <2>7, <2>8
<1>7. CASE Finish
  <2>1. /\ UNCHANGED <<job, i, mapFds, objs, fds, out>> /\ pc = "report" /\ i > Len(Maps)
        /\ pc' = "done"
    BY <1>7 DEF Finish, kernelVars
  <2>2. Kept'
    BY <2>1, SameKept, KeptStays DEF ReportInv, ContentsInv
  <2>3. Maps' = Maps /\ Programs' = Programs /\ IsSeq(Maps)
    BY <2>1, MapsFacts DEF ReportInv, ContentsInv, Inv, TypeOK, Maps, Programs
  <2>4. i = Len(Maps) + 1
    <3>1. Len(Maps) \in Nat
      BY <2>3, SeqFacts
    <3> QED BY <2>1, <3>1 DEF ReportInv, OutCursor
  <2>5. OutCursor'
    BY <2>1, <2>3, <2>4, SMTT(60) DEF ReportInv, OutCursor
  <2>6. Lines'
    BY <2>1, <2>3, KeptMeans DEF ReportInv, Lines, MapObject
  <2> QED BY <2>1, <2>2, <2>5, <2>6 DEF MakingSound
<1>8. CASE \/ LoadBtf \/ CreateMap \/ FillEntry \/ FreezeMap
           \/ LoadProgram \/ TestRun \/ ReportOne
  BY <1>8, ReportLoadBtf, ReportCreateMap, ReportFillEntry, ReportFreezeMap, ReportLoadProgram,
     ReportTestRun, ReportReportOne
<1> QED BY <1>1, <1>2, <1>3, <1>4, <1>5, <1>6, <1>7, <1>8 DEF Next

(* However the kernel orders a hash's keys, whatever a ring holds between its *)
(* submitted records and whatever programs left in the maps: at the end there *)
(* is one report per map, in the document's order, of what the map holds.     *)
THEOREM ReportStands == Spec => []ReportExact
<1> QED BY ReportMeans, ReportInvInit, ReportInvNext, PTL DEF Spec
===============================================================================
