------------------------------- MODULE Deliver -------------------------------
(* A document on its two ways into the kernel: tools/elf.py writes the file   *)
(* libbpf loads, and tools/load.py loads it itself.  The two tools share only *)
(* koitobj.py; here the one runs after the other on the same document, and    *)
(* what libbpf would make of the file (external) is compared with what the    *)
(* loader did.                                                                *)
EXTENDS Loader, ElfFile

deliverVars == <<vars, elfVars>>

DeliverInit == Init /\ ElfInit /\ unit = job

WriteFile == ElfNext /\ UNCHANGED vars
LoadUnit == step \in {"written", "refused"} /\ Next /\ UNCHANGED elfVars
DeliverNext == WriteFile \/ LoadUnit

DeliverSpec == DeliverInit /\ [][DeliverNext]_deliverVars

-----------------------------------------------------------------------------
(* libbpf's half: external. *)

ProgramSymbol(name) == CHOOSE y \in FuncSymbols : y.name = name
InSection(y, name) == y.shndx # 0 /\ sections[y.shndx].name = name
RelocsOf(k) == UNION {Elems(s.data) : s \in {s \in Elems(sections) : s.type = "rel" /\ s.info = k}}

(* The map whose variable starts at a place of `.maps`, and the place where   *)
(* its array of slots does: libbpf reads both in the BTF.                     *)
MapsSection == CHOOSE id \in DOMAIN btf.types : btf.types[id].kind = "datasec" /\ btf.types[id].name = ".maps"
MapsVars ==
  {[name |-> btf.types[v.type].name, def |-> btf.types[btf.types[v.type].sot], offset |-> v.offset] :
     v \in {[type |-> btf.types[MapsSection].extra[3 * k - 2], offset |-> btf.types[MapsSection].extra[3 * k - 1]] :
              k \in 1 .. btf.types[MapsSection].vlen}}
ValuesAt(v) == v.offset + Member(v.def, v.def.vlen).bits \div 8
ValuesEnd(v) == v.offset + v.def.sot

(* What libbpf links a relocated instruction of a program to. *)
Linked(y, r) ==
  LET sym == symbols[r[2]]
  IN IF sym.shndx = 0 THEN [to |-> "kfunc", name |-> sym.name]
     ELSE IF InSection(sym, ".maps")
       THEN [to |-> "map", name |-> (CHOOSE v \in MapsVars : v.offset = sym.value).name]
     ELSE [to |-> "value", section |-> sections[sym.shndx].name,
           bytes |-> SubSeq(sections[sym.shndx].data,
                            sym.value + sections[y.shndx].data[r[1] \div 8 + 1].imm + 1,
                            sections[sym.shndx].size)]

(* The same of what the loader loaded: the bytes from the place named to the  *)
(* end of the map, which in the file others may follow.                       *)
BytesFrom(o, offset) ==
  LET c == objs[o].contents[0] IN SubSeq(c, offset + 1, Len(c))
Agree(way, ref) ==
  /\ way.to = ref.to
  /\ CASE ref.to = "kfunc" -> way.name = job.vmlinux[ref.object].name
       [] ref.to = "map"   -> way.name = objs[ref.object].name
       [] ref.to = "value" -> /\ IsPrefix(BytesFrom(ref.object, ref.offset), way.bytes)
                              /\ (way.section = ".rodata") = objs[ref.object].frozen

(* Before the first run, what the loader made of the document and what libbpf *)
(* makes of the file written from it are the same: every program's own words, *)
(* each relocated one linked to the same kfunc, the same map, or the same     *)
(* bytes with the same rights, and the same programs in the slots of the      *)
(* program arrays (elf.py: "The kernel then executes the same instruction the *)
(* loader over the system call gives it").  A slot is relocated against a     *)
(* program's own symbol, and against another of the same name, which libbpf   *)
(* refuses, exactly when a program behind it is the first to call a kfunc of  *)
(* its name.                                                                  *)
SameProgram(o) ==
  LET y == ProgramSymbol(o.name)
      p == Named(job.programs, o.name)
      own == {r \in RelocsOf(y.shndx) : y.value <= r[1] /\ r[1] < y.value + y.size}
      index(r) == (r[1] - y.value) \div 8 + 1
  IN /\ InSection(y, p.section) /\ y.size = 8 * Len(p.words)
     /\ \A k \in DOMAIN p.words : sections[y.shndx].data[y.value \div 8 + k].op = p.words[k].op
     /\ {index(r) : r \in own} = DOMAIN o.refs
     /\ \A r \in own : Agree(Linked(y, r), o.refs[index(r)])
SameSlots ==
  LET arrays == {v \in MapsVars : v.def.vlen # 0 /\ Named(job.maps, v.name).kind = "prog_array"}
  IN slots # <<>> =>
       {Names(l) : l \in links} =
         {<<v.name, (r[1] - ValuesAt(v)) \div 8, symbols[r[2]].name>> :
            <<v, r>> \in {<<v, r>> \in arrays \X RelocsOf(SectionAt(".maps")) :
                            ValuesAt(v) <= r[1] /\ r[1] < ValuesEnd(v)}}
KfuncStandsIn(name) ==
  \E y, z \in DOMAIN symbols :
    /\ y < z /\ symbols[y].name = name /\ symbols[z].name = name
    /\ symbols[y].type = "func" /\ symbols[z].shndx = 0
LoadersAgree ==
  Written /\ pc = "run" /\ ran = <<>> =>
    /\ \A o \in Elems(objs) : o.what = "prog" => SameProgram(o)
    /\ SameSlots
    /\ slots # <<>> => \A r \in RelocsOf(SectionAt(".maps")) :
         symbols[r[2]].type = "func" <=> ~KfuncStandsIn(symbols[r[2]].name)
=============================================================================
