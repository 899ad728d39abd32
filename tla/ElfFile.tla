------------------------------- MODULE ElfFile -------------------------------
(* The ELF writer, tools/elf.py: a document as the relocatable file libbpf    *)
(* loads.  One action per turn of each of write's loops.  Sections and        *)
(* symbols are numbered from 1, the null ones being 0; a section's data is    *)
(* the bytes of its variables, its instruction words, or its relocations      *)
(* <<offset, symbol, type>>, and its size counts bytes.  The tables of        *)
(* strings, `.BTF` and `.BTF.ext` have a size of a few odd bytes.             *)
EXTENDS Btf, SequencesExt

CONSTANTS
  Units,        \* the documents
  TableSize     \* the bytes of a table of strings or types

ASSUME ElfAssumption == TableSize \in Nat \ {0}

VARIABLES
  unit,         \* the document
  step,         \* the part of write the tool is in
  at,           \* the kfunc, map, section or program it is at
  sections, symbols, btf,
  mapSymbol, kfuncSymbol,
  datasec,      \* the variables of the data section being laid out
  slots,        \* <<offset in .maps, program>>: the program arrays' entries
  text, rels,   \* the words and relocations of the section being filled
  extSecs,      \* the function information by section
  offsets       \* where each section's contents lie in the file

elfVars == <<unit, step, at, sections, symbols, btf, mapSymbol, kfuncSymbol,
             datasec, slots, text, rels, extSecs, offsets>>

Section(name, type, data, size, align) ==
  [name |-> name, type |-> type, data |-> data, size |-> size, align |-> align, info |-> 0]
Symbol(name, value, size, type, shndx) ==
  [name |-> name, value |-> value, size |-> size, type |-> type, shndx |-> shndx, bind |-> "global"]

Refused ==
  /\ step' = "refused"
  /\ UNCHANGED <<unit, at, sections, symbols, btf, mapSymbol, kfuncSymbol, datasec, slots,
                 text, rels, extSecs, offsets>>

(* The elements of a sequence in the order of their first occurrence. *)
FirstSeen(s) == FoldLeft(LAMBDA acc, e : IF e \in Elems(acc) THEN acc ELSE Append(acc, e), <<>>, s)

-----------------------------------------------------------------------------
(* The kfuncs: an extern function each in BTF, with the prototype of its      *)
(* first relocation, and the data section that lists them.                    *)

KfuncRelocs ==
  SelectSeq(FoldLeft(LAMBDA acc, p : acc \o p.relocs, <<>>, unit.programs),
            LAMBDA r : r.kind = "kfunc")
Kfuncs ==
  LET names == FirstSeen([k \in DOMAIN KfuncRelocs |-> KfuncRelocs[k].target])
      first(n) == SelectSeq(KfuncRelocs, LAMBDA r : r.target = n)[1]
  IN [k \in DOMAIN names |-> first(names[k])]

(* A prototype being put together: its result's type and its parameters. *)
Signature(b, ret, params) == [btf |-> b, ret |-> ret, params |-> params]
WithParam(sig, name, t) == Signature(t.btf, sig.ret, Append(sig.params, <<name, t.id>>))
Prototyped(sig) == FuncProto(sig.btf, sig.ret, sig.params)

Known(c) == c.form # "unknown"
Returning(ret) == Signature(ret.btf, ret.id, <<>>)
Prototype(b, r) ==
  Prototyped(FoldLeft(LAMBDA sig, a : WithParam(sig, a[2], CType(sig.btf, a[1])),
                      Returning(CType(b, r.ret)), r.args))
Extern(proto, name) == Func(proto.btf, name, proto.id, 2)

DeclareKfunc ==
  /\ step = "kfuncs" /\ at <= Len(Kfuncs)
  /\ LET r == Kfuncs[at]
         Add(fn) == btf' = fn.btf /\ datasec' = Append(datasec, <<fn.id, 0, 0>>)
     IN IF \E k \in DOMAIN Kfuncs : ~Kfuncs[k].typed THEN Refused
        ELSE IF ~ (Known(r.ret) /\ \A k \in DOMAIN r.args : Known(r.args[k][1])) THEN Refused
        ELSE /\ Add(Extern(Prototype(btf, r), r.target))
             /\ at' = at + 1
             /\ UNCHANGED <<unit, step, sections, symbols, mapSymbol, kfuncSymbol, slots,
                            text, rels, extSecs, offsets>>

KfuncsDone ==
  /\ step = "kfuncs" /\ at > Len(Kfuncs)
  /\ btf' = IF datasec = <<>> THEN btf ELSE Datasec(btf, ".ksyms", 0, datasec).btf
  /\ datasec' = <<>>
  /\ step' = "maps" /\ at' = 1
  /\ UNCHANGED <<unit, sections, symbols, mapSymbol, kfuncSymbol, slots, text, rels, extSecs, offsets>>

-----------------------------------------------------------------------------
(* `.maps`: the declared maps, as variables of a type that spells each out.   *)

Declared == SelectSeq(unit.maps, LAMBDA m : ~m.direct)
Direct == SelectSeq(unit.maps, LAMBDA m : m.direct)

(* map_definition: the members in order, eight bytes each, pointers to the    *)
(* types that carry the numbers; a program array's slots behind them.         *)
Number(name, n) == [name |-> name, number |-> TRUE, of |-> n]
TypeOf(name, t) == [name |-> name, number |-> FALSE, of |-> t]
MembersFor(m) ==
  <<Number("type", m.typeId)>>
  \o (IF m.kind = "ringbuf" THEN <<>> ELSE <<TypeOf("key", m.key), TypeOf("value", m.value)>>)
  \o <<Number("max_entries", m.entries)>>
  \o (IF m.flags = 0 THEN <<>> ELSE <<Number("map_flags", m.flags)>>)

Laid(acc, name, t, size) ==
  [acc EXCEPT !.btf = t.btf, !.off = @ + size, !.members = Append(@, <<name, t.id, acc.off>>)]
PointerTo(t) == PtrType(t.btf, t.id)
AddMember(acc, q) ==
  Laid(acc, q.name,
       PointerTo(IF q.number THEN ArrayType(acc.btf, acc.int, q.of)
                 ELSE TypeId(acc.btf, unit.types, q.of)),
       8)
CtxFunction(int, ctx) == FuncProto(ctx.btf, int, <<(<<"ctx", ctx.id>>)>>)
SlotArray(slot, n) == ArrayType(slot.btf, slot.id, n)
WithSlots(acc, m) ==
  IF m.kind # "prog_array" THEN acc
  ELSE Laid(acc, "values",
            SlotArray(PointerTo(CtxFunction(acc.int, PtrType(acc.btf, 0))), m.entries),
            8 * m.entries)

(* `values` is where the members end and the slots, if any, begin. *)
MapDefinition(b, m) ==
  LET Start(int) == [btf |-> int.btf, int |-> int.id, off |-> 0, members |-> <<>>]
      members == FoldLeft(LAMBDA acc, q : AddMember(acc, q), Start(Int4(b)), MembersFor(m))
      Defined(acc) == [def |-> Added(acc.btf, StructType("", acc.off, acc.members)),
                       size |-> acc.off, values |-> 8 * Len(MembersFor(m))]
  IN Defined(WithSlots(members, m))

Zeros(n) == [k \in 1 .. n |-> 0]
(* Bug: the slots are counted from the start of the map's own variable. *)
BugSlotAt(base, values, s) == values + 8 * (s - 1)
SlotAt(base, values, s) == base + values + 8 * (s - 1)

(* A map the object cannot fill, one with contents, is refused. *)
DeclareMap ==
  /\ step = "maps" /\ at <= Len(Declared)
  /\ LET m == Declared[at]
         Add(d, var) ==
           /\ btf' = var.btf
           /\ datasec' = Append(datasec, <<var.id, Len(text), d.size>>)
           /\ slots' = slots \o [s \in DOMAIN m.programs |->
                                   <<SlotAt(Len(text), d.values, s), m.programs[s]>>]
           /\ text' = text \o Zeros(d.size)
         Declare(d) == Add(d, Var(d.def.btf, m.name, d.def.id))
     IN IF m.data # <<>> THEN Refused
        ELSE /\ Declare(MapDefinition(btf, m))
             /\ at' = at + 1
             /\ UNCHANGED <<unit, step, sections, symbols, mapSymbol, kfuncSymbol, rels, extSecs, offsets>>

(* The data section laid out becomes a section, a BTF data section, and a     *)
(* symbol for each of its variables.                                          *)
DataName(v) == btf.types[v[1]].name
CloseData(name, type) ==
  IF datasec = <<>> THEN UNCHANGED <<sections, symbols, btf, mapSymbol>>
  ELSE /\ btf' = Datasec(btf, name, Len(text), datasec).btf
       /\ sections' = Append(sections, Section(name, type, text, Len(text), 8))
       /\ symbols' = symbols \o [k \in DOMAIN datasec |->
            Symbol(DataName(datasec[k]), datasec[k][2], datasec[k][3], "object", Len(sections) + 1)]
       /\ mapSymbol' = [n \in DOMAIN mapSymbol \cup {DataName(v) : v \in Elems(datasec)} |->
            IF n \in DOMAIN mapSymbol THEN mapSymbol[n]
            ELSE Len(symbols) + CHOOSE k \in DOMAIN datasec : DataName(datasec[k]) = n]

MapsDone ==
  /\ step = "maps" /\ at > Len(Declared)
  /\ CloseData(".maps", "progbits")
  /\ datasec' = <<>> /\ text' = <<>>
  /\ step' = "data" /\ at' = 1
  /\ UNCHANGED <<unit, kfuncSymbol, slots, rels, extSecs, offsets>>

-----------------------------------------------------------------------------
(* Global data: the direct maps, in the section their access and contents     *)
(* ask for; a write-only one is refused.                                      *)

SectionFor(m) ==
  IF m.access = "ro" THEN ".rodata" ELSE IF m.data # <<>> THEN ".data" ELSE ".bss"
DataSections == << <<".rodata", "progbits">>, <<".data", "progbits">>, <<".bss", "nobits">> >>
DataMaps == SelectSeq(Direct, LAMBDA m : SectionFor(m) = DataSections[at][1])

UpTo(n, align) == ((n + align - 1) \div align) * align
(* Bug: a variable starts where the one before it ends. *)
BugVariableAt(m) == Len(text)
VariableAt(m) ==
  LET align == AlignOf(unit.types, m.value)
  IN UpTo(Len(text), IF align > 8 THEN align ELSE 8)

PlaceVariable ==
  /\ step = "data" /\ at <= 3 /\ Len(datasec) < Len(DataMaps)
  /\ LET m == DataMaps[Len(datasec) + 1]
         size == m.valueSize * m.entries
         start == VariableAt(m)
         VarOf(t) == Var(t.btf, m.name, t.id)
         Add(var) == btf' = var.btf /\ datasec' = Append(datasec, <<var.id, start, size>>)
     IN IF (\E k \in DOMAIN Direct : Direct[k].access = "wo") \/ Len(m.data) > size THEN Refused
        ELSE /\ Add(VarOf(TypeId(btf, unit.types, m.value)))
             /\ text' = text \o Zeros(start - Len(text)) \o m.data \o Zeros(size - Len(m.data))
             /\ UNCHANGED <<unit, step, at, sections, symbols, mapSymbol, kfuncSymbol, slots,
                            rels, extSecs, offsets>>

DataDone ==
  /\ step = "data" /\ at <= 3 /\ Len(datasec) = Len(DataMaps)
  /\ CloseData(DataSections[at][1], DataSections[at][2])
  /\ datasec' = <<>> /\ text' = <<>>
  /\ IF at < 3 THEN at' = at + 1 /\ UNCHANGED step ELSE at' = 1 /\ step' = "text"
  /\ UNCHANGED <<unit, kfuncSymbol, slots, rels, extSecs, offsets>>

-----------------------------------------------------------------------------
(* The programs, by section in the order the sections first appear. *)

ProgramsOf(sec) == SelectSeq(unit.programs, LAMBDA p : p.section = sec)
Sectioned ==
  FoldLeft(LAMBDA acc, sec : acc \o ProgramsOf(sec), <<>>,
           FirstSeen([k \in DOMAIN unit.programs |-> unit.programs[k].section]))

(* One relocation of a program at a base: clang's call form is left to the    *)
(* kfunc's relocation, a map's descriptor to libbpf, and a direct value's     *)
(* offset goes where libbpf reads an addend.  The extern's symbol is made at  *)
(* its first use.                                                             *)
(* Bug: the relocation is at the program's own instruction. *)
BugRelocAt(base, r) == 8 * r.index
RelocAt(base, r) == 8 * base + 8 * r.index
Relocated(acc, r, base) ==
  LET k == r.index + 1
      known == r.target \in DOMAIN acc.externs
      sym == IF known THEN acc.externs[r.target] ELSE Len(acc.symbols) + 1
  IN CASE r.kind = "kfunc" ->
            [acc EXCEPT !.symbols = IF known THEN @ ELSE Append(@, Symbol(r.target, 0, 0, "notype", 0)),
                        !.externs = Put(@, r.target, sym),
                        !.rels = Append(@, <<RelocAt(base, r), sym, "64_32">>)]
       [] r.kind = "map_fd" ->
            [acc EXCEPT !.words[k].src = PseudoMapFd, !.words[k].imm = 0,
                        !.rels = Append(@, <<RelocAt(base, r), mapSymbol[r.target], "64_64">>)]
       [] r.kind = "map_value" ->
            [acc EXCEPT !.words[k].src = 0, !.words[k].imm = r.offset, !.words[k + 1].imm = 0,
                        !.rels = Append(@, <<RelocAt(base, r), mapSymbol[r.target], "64_64">>)]

SectionEnds ==
  /\ text # <<>>
  /\ at <= Len(Sectioned) => Sectioned[at].section # Sectioned[at - 1].section

AddProgram ==
  /\ step = "text" /\ at <= Len(Sectioned) /\ ~SectionEnds
  /\ LET p == Sectioned[at]
         done == FoldLeft(LAMBDA acc, r : Relocated(acc, r, Len(text)),
                          [words |-> p.words, rels |-> rels, symbols |-> symbols,
                           externs |-> kfuncSymbol], p.relocs)
     IN /\ text' = text \o done.words
        /\ rels' = done.rels
        /\ kfuncSymbol' = done.externs
        /\ symbols' = Append(done.symbols,
             Symbol(p.name, 8 * Len(text), 8 * Len(p.words), "func", Len(sections) + 1))
  /\ at' = at + 1
  /\ UNCHANGED <<unit, step, sections, btf, mapSymbol, datasec, slots, extSecs, offsets>>

(* The section of the programs just added, and its relocations' behind it. *)
CloseSection ==
  /\ step = "text" /\ SectionEnds
  /\ LET sec == Sectioned[at - 1].section
         own == Append(sections, Section(sec, "progbits", text, 8 * Len(text), 8))
     IN sections' = IF rels = <<>> THEN own
                    ELSE Append(own, [Section(".rel", "rel", rels, 16 * Len(rels), 8)
                                        EXCEPT !.info = Len(own)])
  /\ text' = <<>> /\ rels' = <<>>
  /\ UNCHANGED <<unit, step, at, symbols, btf, mapSymbol, kfuncSymbol, datasec, slots, extSecs, offsets>>

(* The program arrays' entries, relocated in `.maps` against the symbols of   *)
(* their programs; the last symbol of a name is taken.                        *)
SectionAt(name) == CHOOSE k \in DOMAIN sections : sections[k].name = name
(* Bug: the first symbol of the name is taken, a map's when there is one. *)
BugSymbolOf(name) ==
  CHOOSE k \in DOMAIN symbols : symbols[k].name = name /\ \A l \in DOMAIN symbols : symbols[l].name = name => k <= l
SymbolOf(name) ==
  CHOOSE k \in DOMAIN symbols : symbols[k].name = name /\ \A l \in DOMAIN symbols : symbols[l].name = name => l <= k
RelocateSlots ==
  /\ step = "text" /\ at > Len(Sectioned) /\ text = <<>>
  /\ IF \E s \in Elems(slots) : \A y \in Elems(symbols) : y.name # s[2] THEN Refused
     ELSE /\ sections' = IF slots = <<>> THEN sections
               ELSE Append(sections,
                      [Section(".rel", "rel", [k \in DOMAIN slots |-> <<slots[k][1], SymbolOf(slots[k][2]), "64_64">>],
                               16 * Len(slots), 8) EXCEPT !.info = SectionAt(".maps")])
          /\ step' = "funcs" /\ at' = 1
          /\ UNCHANGED <<unit, symbols, btf, mapSymbol, kfuncSymbol, datasec, slots,
                         text, rels, extSecs, offsets>>

-----------------------------------------------------------------------------
(* The function information: a program is static at its first instruction, a  *)
(* global function of it is at its entry, its references tagged non-null.     *)

(* The bytes of the section before the program at k. *)
(* Bug: they are counted over all sections. *)
BugBase(k) == FoldLeft(LAMBDA n, p : n + 8 * Len(p.words), 0, SubSeq(Sectioned, 1, k - 1))
Base(k) ==
  FoldLeft(LAMBDA n, p : n + 8 * Len(p.words), 0,
           SelectSeq(SubSeq(Sectioned, 1, k - 1), LAMBDA p : p.section = Sectioned[k].section))

Param(sig, prm) ==
  LET t == TypeId(sig.btf, unit.types, prm.type)
  IN WithParam(sig, prm.name, IF prm.ref THEN PointerTo(t) ELSE t)
WithResult(sig, f) ==
  LET Result(t) == Signature(t.btf, t.id, sig.params)
  IN IF f.void THEN sig ELSE Result(TypeId(sig.btf, unit.types, f.ret))
Tagged(b, fid, params) ==
  FoldLeft(LAMBDA acc, k : IF params[k].ref THEN DeclTag(acc, fid, k - 1).btf ELSE acc,
           b, [k \in DOMAIN params |-> k])
Subprogram(acc, sp, base) ==
  LET f == Named(unit.fns, sp.name)
      params == FoldLeft(LAMBDA sig, p : Param(sig, p), Signature(acc.btf, 0, <<>>), f.params)
      Global(proto) == Func(proto.btf, sp.name, proto.id, 1)
      Record(fn) == [btf |-> Tagged(fn.btf, fn.id, f.params),
                     recs |-> Append(acc.recs, <<base + 8 * sp.insn, fn.id>>)]
  IN Record(Global(Prototyped(WithResult(params, f))))

(* A program itself: a function of the context that gives an int, static. *)
MainFunction(b, name) ==
  LET Static(proto) == Func(proto.btf, name, proto.id, 0)
      Main(int) == Static(CtxFunction(int.id, PtrType(int.btf, 0)))
  IN Main(Int4(b))
ProgramInfo(p, base) ==
  LET Start(fn) == [btf |-> fn.btf, recs |-> <<(<<base, fn.id>>)>>]
  IN FoldLeft(LAMBDA acc, sp : Subprogram(acc, sp, base), Start(MainFunction(btf, p.name)), p.subprograms)

DescribeProgram ==
  /\ step = "funcs" /\ at <= Len(Sectioned)
  /\ LET p == Sectioned[at]
         old == IF p.section \in DOMAIN extSecs THEN extSecs[p.section] ELSE <<>>
         Add(info) == btf' = info.btf /\ extSecs' = Put(extSecs, p.section, old \o info.recs)
     IN IF \E sp \in Elems(p.subprograms) : sp.name \notin NamesOf(unit.fns) THEN Refused
        ELSE /\ Add(ProgramInfo(p, Base(at)))
             /\ at' = at + 1
             /\ UNCHANGED <<unit, step, sections, symbols, mapSymbol, kfuncSymbol, datasec, slots,
                            text, rels, offsets>>

HasSubprograms == \E p \in Elems(unit.programs) : p.subprograms # <<>>
CloseUnit ==
  /\ step = "funcs" /\ at > Len(Sectioned)
  /\ LET ext == IF HasSubprograms
                THEN Append(sections, Section(".BTF.ext", "progbits", <<>>, TableSize, 4)) ELSE sections
     IN /\ sections' = ext \o <<Section("license", "progbits", <<>>, 4, 1),
                                Section(".BTF", "progbits", <<>>, TableSize, 4)>>
        /\ symbols' = Append(symbols, Symbol("_license", 0, 4, "object", Len(ext) + 1))
  /\ step' = "build"
  /\ UNCHANGED <<unit, at, btf, mapSymbol, kfuncSymbol, datasec, slots, text, rels, extSecs, offsets>>

-----------------------------------------------------------------------------
(* build: the local symbols first and the relocations renumbered, the tables, *)
(* and the contents laid out behind the header of 64 bytes.                   *)

LocalFirst ==
  LET numbers == [k \in DOMAIN symbols |-> k]
  IN SelectSeq(numbers, LAMBDA k : symbols[k].bind = "local")
     \o SelectSeq(numbers, LAMBDA k : symbols[k].bind # "local")
Renumbered(s) ==
  IF s.type # "rel" THEN s
  ELSE [s EXCEPT !.data = [k \in DOMAIN @ |->
          [@[k] EXCEPT ![2] = CHOOSE n \in DOMAIN LocalFirst : LocalFirst[n] = @]]]

(* Where a section's contents lie behind what the sections before it hold in  *)
(* the file; one without bits holds nothing.                                  *)
(* Bug: a section is not aligned. *)
BugPlaced(end, s) == end
Placed(end, s) == UpTo(end, s.align)
FileEnd(at0, s) == IF s.type = "nobits" THEN at0 ELSE at0 + s.size
LaidOut(secs) ==
  FoldLeft(LAMBDA acc, s : LET o == Placed(acc.end, s)
                           IN [end |-> FileEnd(o, s), offsets |-> Append(acc.offsets, o)],
           [end |-> 64, offsets |-> <<>>], secs)

Build ==
  /\ step = "build"
  /\ symbols' = [k \in DOMAIN symbols |-> symbols[LocalFirst[k]]]
  /\ sections' = [k \in DOMAIN sections |-> Renumbered(sections[k])]
       \o <<Section(".symtab", "symtab", <<>>, 24 * (Len(symbols) + 1), 8),
            Section(".strtab", "strtab", <<>>, TableSize, 1),
            Section(".shstrtab", "strtab", <<>>, TableSize, 1)>>
  /\ offsets' = LaidOut(sections').offsets
  /\ step' = "written"
  /\ UNCHANGED <<unit, at, btf, mapSymbol, kfuncSymbol, datasec, slots, text, rels, extSecs>>

ElfInit ==
  /\ unit \in Units
  /\ step = "kfuncs" /\ at = 1
  /\ sections = <<>> /\ symbols = <<>> /\ btf = EmptyBtf
  /\ mapSymbol = Empty /\ kfuncSymbol = Empty
  /\ datasec = <<>> /\ slots = <<>> /\ text = <<>> /\ rels = <<>>
  /\ extSecs = Empty /\ offsets = <<>>

ElfNext ==
  \/ DeclareKfunc \/ KfuncsDone
  \/ DeclareMap \/ MapsDone
  \/ PlaceVariable \/ DataDone
  \/ AddProgram \/ CloseSection \/ RelocateSlots
  \/ DescribeProgram \/ CloseUnit \/ Build

ElfSpec == ElfInit /\ [][ElfNext]_elfVars

-----------------------------------------------------------------------------
(* Properties of the file written. *)

Written == step = "written"
FuncSymbols == {y \in Elems(symbols) : y.type = "func"}

(* The contents of the sections lie in the file behind its header, aligned,   *)
(* in order and without overlap.                                              *)
SectionsApart ==
  \A k \in DOMAIN sections :
    /\ offsets[k] % sections[k].align = 0
    /\ \A l \in DOMAIN sections : k < l => FileEnd(offsets[k], sections[k]) <= offsets[l]
    /\ offsets[k] >= 64

(* No struct of a name is there twice, every struct has room for each of its  *)
(* members, and every variable of a data section for its type, from a         *)
(* multiple of eight bytes on.                                                *)
TypesFit ==
  LET T == btf.types
      ids(kind) == {id \in DOMAIN T : T[id].kind = kind}
  IN /\ \A x, y \in ids("struct") : x # y /\ T[x].name # "" => T[x].name # T[y].name
     /\ \A id \in ids("struct"), k \in 1 .. 16 : k <= T[id].vlen =>
          Member(T[id], k).bits \div 8 + BtfSize(T, Member(T[id], k).type) <= T[id].sot
     /\ \A id \in ids("datasec"), k \in 1 .. 16 : k <= T[id].vlen =>
          LET of == T[T[id].extra[3 * k - 2]]
          IN of.kind = "var" =>
               BtfSize(T, of.sot) <= T[id].extra[3 * k] /\ T[id].extra[3 * k - 1] % 8 = 0

(* What a reader finds in the file written is what the tool put in: the       *)
(* sections apart, the types of `.BTF` one after the other by their kinds and *)
(* counts alone, sizes that hold what they are sizes of, and in the BTF of    *)
(* each map its key's and value's sizes and its lock where the document says  *)
(* (build, blob, read_btf, of_type, map_btf).                                 *)
MapTypesFit ==
  \A m \in Elems(unit.maps) : m.kind # "ringbuf" =>
    LET Fits(b) == /\ BtfSize(b.types, b.value) = m.valueSize
                   /\ BtfSize(b.types, b.key) = SizeOf(unit.types, m.key)
                   /\ m.lock \in Nat => LocksIn(b.types, b.value) = {m.lock}
    IN Fits(MapBtf(unit.types, m))
FileReadable ==
  Written => SectionsApart /\ ReadBtf(Blob(btf.types)) = btf.types /\ TypesFit /\ MapTypesFit

(* The function information of a section is in the order of the code, as the  *)
(* kernel asks, and names each function where its code starts: a program at   *)
(* its symbol, static, a global function at its entry, with a tag for each of *)
(* its parameters that is a reference, and for no other (write's last loop,   *)
(* which counts the bytes of a section again).                                *)
TagsOf(id) == {btf.types[t].extra[1] + 1 : t \in {t \in DOMAIN btf.types :
                 btf.types[t].kind = "decl_tag" /\ btf.types[t].sot = id}}
Starts(sec) ==
  UNION {LET p == Named(unit.programs, y.name)
         IN {<<y.value, p.name, 0, {}>>} \cup
            {<<y.value + 8 * sp.insn, sp.name, 1,
               {k \in DOMAIN Named(unit.fns, sp.name).params : Named(unit.fns, sp.name).params[k].ref}>> :
             sp \in Elems(p.subprograms)}
         : y \in {y \in FuncSymbols : sections[y.shndx].name = sec}}
FuncInfoAtFunctions ==
  Written => \A sec \in DOMAIN extSecs :
    LET recs == extSecs[sec]
    IN /\ \A m, n \in DOMAIN recs : m < n => recs[m][1] < recs[n][1]
       /\ {<<r[1], btf.types[r[2]].name, btf.types[r[2]].vlen, TagsOf(r[2])>> : r \in Elems(recs)}
            = Starts(sec)
=============================================================================
