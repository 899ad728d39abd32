------------------------------- MODULE Loader --------------------------------
(* The loader, tools/load.py: a document into a Linux kernel over the bpf     *)
(* system call, and its programs run once each.  One action per system call   *)
(* of the tool with what the tool does until the next; every call may fail,   *)
(* and then the tool exits and leaves what it made behind.                    *)
(*                                                                            *)
(* The kernel's half is external: `objs` are its objects in the order they    *)
(* were made, `fds` the process's descriptors, `links` the entries of its     *)
(* program arrays.  The tool's half is `mapFds`, `progFds` and `kfuncIds`,    *)
(* the dictionaries it keeps by name, and what it printed and logged.         *)
EXTENDS KoitObj

CONSTANTS
  Jobs,         \* a document each, with the tool's options and the machine
  Fds,          \* descriptors the process may have
  Bytes,        \* the bytes of a value
  Keys,         \* the keys a program may insert in a hash
  Lengths,      \* the lengths of the records a program may submit
  Registers,    \* what a program may return
  None          \* no option, no object

ASSUME LoaderAssumption ==
  /\ Fds \subseteq Nat
  /\ None \notin Nat
  /\ \A unit \in Jobs :
       /\ unit.maps \in Seq(Elems(unit.maps)) /\ DistinctNames(unit.maps)
       /\ unit.programs \in Seq(Elems(unit.programs)) /\ DistinctNames(unit.programs)
       /\ \A m \in Elems(unit.maps) : m.programs \in Seq(Elems(m.programs))

(* What the front end gives a map: a number of entries, a size, its contents, *)
(* which an array alone may have (Koit/Check/Decl.lean).                      *)
ASSUME ContentsAssumption ==
  \A unit \in Jobs : \A m \in Elems(unit.maps) :
    /\ m.entries \in Nat /\ m.valueSize \in Nat /\ m.data \in Seq(Elems(m.data))
    /\ m.data # <<>> => m.kind = "array"

(* A key is compared by its bytes, as a number is; a length is a number.      *)
ASSUME DataAssumption == Keys \subseteq Int /\ Lengths \subseteq Nat

(* What the encoder gives a program (Koit/Compile/Encode.lean, encodeInstr):  *)
(* a relocation at every map reference, of two words, and every kfunc call,   *)
(* one to an instruction; any other call is a helper's or a subprogram's.     *)
Encoded(p, maps) ==
  /\ p.words \in Seq(Elems(p.words)) /\ p.relocs \in Seq(Elems(p.relocs))
  /\ \A w \in Elems(p.words) :
       DOMAIN w = {"op", "src", "imm"} /\ (w.op = "call" => w.src # PseudoKfuncCall)
  /\ \A k, l \in DOMAIN p.relocs : p.relocs[k].index = p.relocs[l].index => k = l
  /\ \A r \in Elems(p.relocs) :
       /\ r.kind \in {"map_fd", "map_value", "kfunc"}
       /\ r.index \in Nat /\ r.index + 1 \in DOMAIN p.words
       /\ r.kind = "kfunc" => p.words[r.index + 1].op = "call"
       /\ r.kind # "kfunc" => /\ r.target \in NamesOf(maps)
                              /\ p.words[r.index + 1].op = "lddw"
                              /\ r.index + 2 \in DOMAIN p.words /\ p.words[r.index + 2].op = "rest"
  /\ \A k \in DOMAIN p.words : p.words[k].op = "lddw" /\ p.words[k].src # 0 =>
       \E r \in Elems(p.relocs) : r.index + 1 = k
ASSUME RelocsAssumption ==
  \A unit \in Jobs :
    /\ \A p \in Elems(unit.programs) : Encoded(p, unit.maps)
    /\ unit.vmlinux # None =>
         /\ unit.vmlinux \in Seq(Elems(unit.vmlinux))
         /\ \A t \in Elems(unit.vmlinux) : t = [kind |-> t.kind, name |-> t.name]

(* A kind's result, the values it names (the interface keeps those a result   *)
(* can be, Koit/Interface/Join.lean), and the register, as wide as a result.  *)
ASSUME VerdictsAssumption ==
  \A unit \in Jobs : \A p \in Elems(unit.programs) :
    /\ p.bits \in Nat \ {0} /\ p.signed \in BOOLEAN
    /\ p.verdicts \in Seq(Elems(p.verdicts))
    /\ \A v \in Elems(p.verdicts) : v[2] \in ResultRange(p)
    /\ \A r \in Registers : r \in 0 .. Pow2(p.bits) - 1

VARIABLES
  job,       \* the document, the options, the running kernel
  pc,        \* the call the tool makes next
  i,         \* the map or the program it is at
  j,         \* the entry or the slot it is at
  fd,        \* create_map's latest descriptor, of the BTF and then of the map
  mapFds, progFds, kfuncIds,
  out,       \* the lines printed
  logs,      \* the programs whose verifier log was written
  fds, objs, links,
  ran        \* history: what each run left in the register

toolVars == <<job, pc, i, j, fd, mapFds, progFds, kfuncIds, out, logs>>
kernelVars == <<fds, objs, links>>
vars == <<toolVars, kernelVars, ran>>

Maps == job.maps
M == Maps[i]
(* The programs asked for: all, or the one of the name given. *)
Programs ==
  IF job.only = None THEN job.programs
  ELSE IF job.only \in NamesOf(job.programs) THEN << Named(job.programs, job.only) >>
  ELSE <<>>
P == Programs[i]

-----------------------------------------------------------------------------
(* The kernel: external. *)

NextFree(d) == d \notin DOMAIN fds /\ \A e \in Fds : e < d => e \in DOMAIN fds
(* A new object, and a descriptor for it. *)
NewObject(d, o) ==
  /\ NextFree(d)
  /\ objs' = Append(objs, o)
  /\ fds' = Put(fds, d, Len(objs) + 1)

FirstContents(m) ==
  CASE m.kind = "array"      -> [e \in 0 .. m.entries - 1 |-> [b \in 1 .. m.valueSize |-> 0]]
    [] m.kind = "hash"       -> Empty
    [] m.kind = "ringbuf"    -> [prod |-> 0, cons |-> 0, hdr |-> Empty, submitted |-> <<>>]
    [] m.kind = "prog_array" -> Empty

(* What the verifier makes of a word with a pseudo source: the object and     *)
(* the offset it names.                                                       *)
Resolved(words) ==
  [k \in {k \in DOMAIN words : \/ words[k].op = "lddw" /\ words[k].src # 0
                               \/ words[k].op = "call" /\ words[k].src = PseudoKfuncCall} |->
     IF words[k].op = "call" THEN [to |-> "kfunc", object |-> words[k].imm, offset |-> 0]
     ELSE IF words[k].src = PseudoMapFd THEN [to |-> "map", object |-> fds[words[k].imm], offset |-> 0]
     ELSE [to |-> "value", object |-> fds[words[k].imm], offset |-> words[k + 1].imm]]

(* What one run of a program may leave in a map that is not read-only: an     *)
(* entry changed, a key inserted or deleted, a record submitted or discarded. *)
Produced(ring, length, discard) ==
  [ring EXCEPT !.hdr = Put(@, ring.prod, [length |-> length, busy |-> FALSE, discard |-> discard]),
               !.prod = @ + ((length + 8 + 7) \div 8) * 8,
               !.submitted = IF discard THEN @ ELSE Append(@, length)]
Values(m) == {[b \in 1 .. m.valueSize |-> IF b = 1 THEN v ELSE w] : v, w \in Bytes}
Left(m, c) ==
  CASE m.kind = "array"   -> {[c EXCEPT ![e] = v] : e \in DOMAIN c, v \in Values(m)}
    [] m.kind = "hash"    ->
         {Put(c, k, v) : k \in (IF Cardinality(DOMAIN c) < m.entries THEN Keys ELSE DOMAIN c),
                         v \in Values(m)}
         \cup {[x \in DOMAIN c \ {k} |-> c[x]] : k \in DOMAIN c}
    [] m.kind = "ringbuf" -> {Produced(c, n, d) : n \in Lengths, d \in BOOLEAN}
    [] OTHER              -> {}

(* Effects of programs on the maps they may write: any, since which map a     *)
(* program names is its own affair.                                           *)
MapObject(n) == fds[mapFds[n]]
Effect ==
  \/ UNCHANGED objs
  \/ \E k \in DOMAIN Maps :
       LET o == MapObject(Maps[k].name)
       IN /\ Maps[k].access # "ro"
          /\ \E c \in Left(Maps[k], objs[o].contents) : objs' = [objs EXCEPT ![o].contents = c]

-----------------------------------------------------------------------------
(* The tool. *)

(* A call that fails, an OSError or a SystemExit: the tool ends there. *)
Exit ==
  /\ pc' = "exited"
  /\ UNCHANGED <<job, i, j, fd, mapFds, progFds, kfuncIds, out, kernelVars, ran>>
Fails == Exit /\ UNCHANGED logs

FirstTwo(version) == IF Len(version) >= 2 THEN SubSeq(version, 1, 2) ELSE version
(* check_version: the first two components of the tag and of the release.     *)
VersionOk == job.anyKernel \/ FirstTwo(job.kernel) = FirstTwo(job.release)

KfuncNames ==
  UNION {{r.target : r \in {r \in Elems(Programs[k].relocs) : r.kind = "kfunc"}} : k \in DOMAIN Programs}
KfuncsKnown ==
  KfuncNames # {} =>
    job.vmlinux # None /\ \A n \in KfuncNames : KfuncId(job.vmlinux, n) # 0

(* Up to the first call: the version, the program asked for, the kfuncs.      *)
Begin ==
  /\ pc = "start"
  /\ VersionOk /\ (job.only # None => Programs # <<>>) /\ KfuncsKnown
  /\ kfuncIds' = [n \in KfuncNames |-> KfuncId(job.vmlinux, n)]
  /\ pc' = "maps" /\ i' = 1
  /\ UNCHANGED <<job, j, fd, mapFds, progFds, out, logs, kernelVars, ran>>
Decline ==
  /\ pc = "start"
  /\ ~ (VersionOk /\ (job.only # None => Programs # <<>>) /\ KfuncsKnown)
  /\ Fails

(* create_map, for one map after the other. *)
NextMap ==
  /\ pc = "maps"
  /\ IF i <= Len(Maps) THEN /\ pc' = IF M.lock # None THEN "btf" ELSE "create"
                            /\ UNCHANGED i
     ELSE pc' = "programs" /\ i' = 1
  /\ UNCHANGED <<job, j, fd, mapFds, progFds, kfuncIds, out, logs, kernelVars, ran>>

LoadBtf ==
  /\ pc = "btf"
  /\ \/ /\ \E d \in Fds : NewObject(d, [what |-> "btf", name |-> M.name]) /\ fd' = d
        /\ pc' = "create"
        /\ UNCHANGED <<job, i, j, mapFds, progFds, kfuncIds, out, logs, links, ran>>
     \/ Fails

(* Entry e of the contents the document holds, padded with zeros. *)
(* Bug: the last entry given is not written. *)
BugHasEntry(m, e) == e < m.entries /\ (e + 1) * m.valueSize < Len(m.data)
HasEntry(m, e) == e < m.entries /\ e * m.valueSize < Len(m.data)
Entry(m, e) ==
  [b \in 1 .. m.valueSize |->
     IF e * m.valueSize + b <= Len(m.data) THEN m.data[e * m.valueSize + b] ELSE 0]
AfterEntries(e) == IF HasEntry(M, e) THEN "fill" ELSE "freeze"

CreateMap ==
  /\ pc = "create"
  /\ \/ /\ \E d \in Fds :
             /\ NewObject(d, [what |-> "map", name |-> M.name, contents |-> FirstContents(M),
                              frozen |-> FALSE, btf |-> IF M.lock # None THEN fds[fd] ELSE None])
             /\ fd' = d
        /\ j' = 0
        /\ pc' = AfterEntries(0)
        /\ UNCHANGED <<job, i, mapFds, progFds, kfuncIds, out, logs, links, ran>>
     \/ Fails

FillEntry ==
  /\ pc = "fill"
  /\ \/ /\ ~objs[fds[fd]].frozen
        /\ objs' = [objs EXCEPT ![fds[fd]].contents[j] = Entry(M, j)]
        /\ j' = j + 1
        /\ pc' = AfterEntries(j + 1)
        /\ UNCHANGED <<job, i, fd, mapFds, progFds, kfuncIds, out, logs, fds, links, ran>>
     \/ Fails

(* A read-only map is frozen; the map is done. *)
(* Bug: one without contents in the document is not. *)
BugIsFinal(m) == m.access = "ro" /\ m.data # <<>>
IsFinal(m) == m.access = "ro"
FreezeMap ==
  /\ pc = "freeze"
  /\ \/ /\ objs' = IF IsFinal(M) THEN [objs EXCEPT ![fds[fd]].frozen = TRUE] ELSE objs
        /\ mapFds' = Put(mapFds, M.name, fd)
        /\ i' = i + 1
        /\ pc' = "maps"
        /\ UNCHANGED <<job, j, fd, progFds, kfuncIds, out, logs, fds, links, ran>>
     \/ IsFinal(M) /\ Fails

(* load_program, for one program after the other: its log is written whether  *)
(* the verifier takes it or not.                                              *)
LoadProgram ==
  /\ pc = "programs" /\ i <= Len(Programs)
  /\ logs' = logs \cup {P.name}
  /\ LET words == Patch(P.words, P.relocs, mapFds, kfuncIds)
     IN \/ /\ \E d \in Fds :
                /\ NewObject(d, [what |-> "prog", name |-> P.name, refs |-> Resolved(words)])
                /\ progFds' = Put(progFds, P.name, d)
           /\ i' = i + 1
           /\ UNCHANGED <<job, pc, j, fd, mapFds, kfuncIds, out, links, ran>>
        \/ Exit

(* Bug: the arrays are filled by the first program's descriptor being there. *)
BugAllLoaded == i > 1 \/ Programs = <<>>
AllLoaded == i > Len(Programs)
ProgramsDone ==
  /\ pc = "programs" /\ AllLoaded
  /\ pc' = "slots" /\ i' = 1 /\ j' = 1
  /\ UNCHANGED <<job, fd, mapFds, progFds, kfuncIds, out, logs, kernelVars, ran>>

(* One entry of a program array: the program of the name, if it was loaded.   *)
LinkSlot ==
  /\ pc = "slots" /\ i <= Len(Maps) /\ j <= Len(M.programs)
  /\ \/ /\ M.programs[j] \in DOMAIN progFds
        /\ links' = {l \in links : <<l[1], l[2]>> # <<MapObject(M.name), j - 1>>}
                    \cup {<<MapObject(M.name), j - 1, fds[progFds[M.programs[j]]]>>}
        /\ j' = j + 1
        /\ UNCHANGED <<job, pc, i, fd, mapFds, progFds, kfuncIds, out, logs, fds, objs, ran>>
     \/ Fails

NextArray ==
  /\ pc = "slots"
  /\ IF i <= Len(Maps) THEN j > Len(M.programs) /\ pc' = pc /\ i' = i + 1 /\ j' = 1
     ELSE pc' = "run" /\ i' = 1 /\ UNCHANGED j
  /\ UNCHANGED <<job, fd, mapFds, progFds, kfuncIds, out, logs, kernelVars, ran>>

(* The descriptors left when the program's is closed behind its run. *)
(* Bug: the last map's is closed. *)
BugStillOpen == [d \in DOMAIN fds \ {fd} |-> fds[d]]
StillOpen == [d \in DOMAIN fds \ {progFds[P.name]} |-> fds[d]]
(* test_run and the verdict. *)
TestRun ==
  /\ pc = "run" /\ i <= Len(Programs)
  /\ \/ /\ Effect
        /\ \E r \in Registers :
             /\ ran' = Append(ran, <<P.name, r>>)
             /\ out' = Append(out, [of |-> P.name, line |-> VerdictName(P, r)])
        /\ fds' = StillOpen
        /\ i' = i + 1
        /\ UNCHANGED <<job, pc, j, fd, mapFds, progFds, kfuncIds, logs, links>>
     \/ Fails

RunsDone ==
  /\ pc = "run" /\ i > Len(Programs)
  /\ pc' = "report" /\ i' = 1
  /\ UNCHANGED <<job, j, fd, mapFds, progFds, kfuncIds, out, logs, kernelVars, ran>>

(* read_map: what the lookups of one map give; a hash's keys come in an order *)
(* of the kernel's.  A program array's entry reads as its program's number.   *)
Orders(S) == {s \in [1 .. Cardinality(S) -> S] : Elems(s) = S}
SlotOf(o, e) == {l[3] : l \in {l \in links : l[1] = o /\ l[2] = e}}
Contents(m, order) ==
  LET o == MapObject(m.name)
      c == objs[o].contents
  IN CASE m.kind = "ringbuf"    -> RingRecords(c)
       [] m.kind = "hash"       -> [n \in DOMAIN order |-> <<order[n], c[order[n]]>>]
       [] m.kind = "prog_array" ->
            [n \in 1 .. m.entries |->
               <<n - 1, <<IF SlotOf(o, n - 1) = {} THEN 0 ELSE CHOOSE p \in SlotOf(o, n - 1) : TRUE>>>>]
       [] m.kind = "array"      -> [n \in 1 .. m.entries |-> <<n - 1, c[n - 1]>>]

(* One map's lines; a ring's records are consumed by reading them. *)
ReportOne ==
  /\ pc = "report" /\ i <= Len(Maps)
  /\ LET o == MapObject(M.name)
     IN \/ /\ \E order \in IF M.kind = "hash" THEN Orders(DOMAIN objs[o].contents) ELSE {<<>>} :
                out' = Append(out, [of |-> M.name, line |-> ReportMap(M, Contents(M, order))])
           /\ objs' = IF M.kind = "ringbuf"
                      THEN [objs EXCEPT ![o].contents.cons = objs[o].contents.prod] ELSE objs
           /\ i' = i + 1
           /\ UNCHANGED <<job, pc, j, fd, mapFds, progFds, kfuncIds, logs, fds, links, ran>>
        \/ Fails

Finish ==
  /\ pc = "report" /\ i > Len(Maps)
  /\ pc' = "done"
  /\ UNCHANGED <<job, i, j, fd, mapFds, progFds, kfuncIds, out, logs, kernelVars, ran>>

Init ==
  /\ job \in Jobs
  /\ pc = "start" /\ i = 0 /\ j = 0 /\ fd = None
  /\ mapFds = Empty /\ progFds = Empty /\ kfuncIds = Empty
  /\ out = <<>> /\ logs = {} /\ ran = <<>>
  /\ fds = Empty /\ objs = <<>> /\ links = {}

Next ==
  \/ Begin \/ Decline
  \/ NextMap \/ LoadBtf \/ CreateMap \/ FillEntry \/ FreezeMap
  \/ LoadProgram \/ ProgramsDone
  \/ LinkSlot \/ NextArray
  \/ TestRun \/ RunsDone
  \/ ReportOne \/ Finish

Spec == Init /\ [][Next]_vars

-----------------------------------------------------------------------------
(* Properties. *)

IsMap(n) ==
  /\ n \in DOMAIN mapFds /\ mapFds[n] \in DOMAIN fds
  /\ objs[MapObject(n)].what = "map" /\ objs[MapObject(n)].name = n

(* Types, and the dictionaries name what the kernel has. *)
TypeOK ==
  /\ job \in Jobs
  /\ pc \in {"start", "maps", "btf", "create", "fill", "freeze", "programs", "slots",
             "run", "report", "done", "exited"}
  /\ i \in Nat /\ j \in Nat /\ fd \in Fds \cup {None}
  /\ logs \subseteq NamesOf(job.programs)
  /\ \A d \in DOMAIN fds : d \in Fds /\ fds[d] \in DOMAIN objs
  /\ \A n \in DOMAIN mapFds : IsMap(n)

(* The entries the document gives an array, and zeros behind them. *)
HoldsDeclared(m, c) ==
  \A e \in DOMAIN c : \A b \in 1 .. m.valueSize :
    LET n == e * m.valueSize + b
    IN c[e][b] = IF n \in DOMAIN m.data THEN m.data[n] ELSE 0

(* From the end of its creation to the first run every array holds the        *)
(* contents the document gives it, and a read-only one holds them for good:   *)
(* it is frozen, and no run changes it (create_map: "the freeze that makes a  *)
(* read-only map's contents final").                                          *)
ContentsFinal ==
  \A m \in Elems(Maps) : m.name \in DOMAIN mapFds =>
    LET o == objs[MapObject(m.name)]
    IN /\ m.kind = "array" /\ (ran = <<>> \/ m.access = "ro") => HoldsDeclared(m, o.contents)
       /\ m.access = "ro" => o.frozen

(* Every program the kernel holds names, at each of its relocations, the map  *)
(* or the kfunc and the offset the document says, and nothing else            *)
(* (koitobj.patch), however descriptors were given out and closed since.      *)
RefsResolve ==
  \A o \in Elems(objs) : o.what = "prog" =>
    LET p == Named(job.programs, o.name)
    IN /\ DOMAIN o.refs = {r.index + 1 : r \in Elems(p.relocs)}
       /\ \A r \in Elems(p.relocs) :
            LET ref == o.refs[r.index + 1]
            IN IF r.kind = "kfunc"
               THEN ref.to = "kfunc" /\ job.vmlinux[ref.object] = [kind |-> "func", name |-> r.target]
               ELSE /\ objs[ref.object].what = "map" /\ objs[ref.object].name = r.target
                    /\ ref.to = IF r.kind = "map_value" THEN "value" ELSE "map"
                    /\ ref.offset = IF r.kind = "map_value" THEN r.offset ELSE 0

(* The verdict printed for a run is the name the kind gives the value the     *)
(* program returned, and the value itself, as its type has it, only when it   *)
(* gives none (koitobj.verdict_name; the kernel's register is unsigned).      *)
VerdictsNamed ==
  \A n \in DOMAIN ran :
    LET p == Named(job.programs, ran[n][1])
        names == {v[1] : v \in {v \in Elems(p.verdicts) : (v[2] - ran[n][2]) % Pow2(p.bits) = 0}}
    IN /\ out[n].of = p.name
       /\ out[n].line.named = (names # {})
       /\ IF names # {} THEN out[n].line.as \in names
          ELSE /\ out[n].line.as \in ResultRange(p)
               /\ (out[n].line.as - ran[n][2]) % Pow2(p.bits) = 0

(* At the end there is one report per map, in the document's order: an        *)
(* array's entries that are not zero, by index; a hash's, all of them, by     *)
(* key; a ring's submitted records, in the order of their submission          *)
(* (koitobj.report_map, load.read_map).                                       *)
Ascending(line) == \A m, n \in DOMAIN line : m < n => line[m][1] < line[n][1]
ReportExact ==
  pc = "done" =>
    /\ Len(out) = Len(Programs) + Len(Maps)
    /\ \A k \in DOMAIN Maps :
         LET line == out[Len(Programs) + k].line
             c == objs[MapObject(Maps[k].name)].contents
             shown == {e \in DOMAIN c : Maps[k].kind = "hash" \/ \E b \in DOMAIN c[e] : c[e][b] # 0}
         IN /\ out[Len(Programs) + k].of = Maps[k].name
            /\ Maps[k].kind = "ringbuf" => line = c.submitted
            /\ Maps[k].kind \in {"array", "hash"} =>
                 Ascending(line) /\ Elems(line) = {<<e, c[e]>> : e \in shown}

(* The tool puts the unit in place in Rollout's order. *)
LinksOf(m) == {<<m.name, s - 1, m.programs[s]>> : s \in DOMAIN m.programs}
Plan == [maps |-> NamesOf(Maps), programs |-> NamesOf(Programs),
         links |-> UNION {LinksOf(Maps[k]) : k \in DOMAIN Maps}]
Names(l) == <<objs[l[1]].name, l[2], objs[l[3]].name>>
R == INSTANCE Rollout WITH
       plan <- Plan, made <- DOMAIN mapFds, loaded <- DOMAIN progFds,
       linked <- {Names(l) : l \in links},
       ran <- {ran[n][1] : n \in DOMAIN ran},
       stopped <- pc \in {"done", "exited"}
RolloutSpec == R!Spec
=============================================================================
