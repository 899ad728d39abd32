------------------------------ MODULE MCDeliver ------------------------------
(* Deliver on eleven documents: every kind of map, values with and without    *)
(* contents, a lock in a nested struct, direct maps of all three data         *)
(* sections and odd sizes, references from two programs of a section and from *)
(* two sections, kfuncs with and without a prototype, global functions in the *)
(* second program of its section, and arrays whose program has the name of a  *)
(* map, or of a kfunc that a program in front, or behind, is the first to     *)
(* call.  Most of them differ in what one tool refuses.                       *)
EXTENDS Deliver

IntOf(bits, signed) == [kind |-> "int", bits |-> bits, signed |-> signed]
U8 == IntOf(8, FALSE)
U16 == IntOf(16, FALSE)
U32 == IntOf(32, FALSE)
Bool == [kind |-> "bool"]
NamedType(n) == [kind |-> "named", name |-> n]
Bytes3 == [kind |-> "array", elem |-> U8, len |-> 3, size |-> 3, align |-> 1]
Lock == [kind |-> "slot", name |-> "spinlock", kernel |-> "bpf_spin_lock", size |-> 4, align |-> 4]
FieldOf(name, offset, type) == [name |-> name, offset |-> offset, type |-> type]
Inner == [kind |-> "struct", size |-> 4, align |-> 2,
          fields |-> <<FieldOf("a", 0, U16), FieldOf("b", 2, Bytes3.elem)>>]
Outer == [kind |-> "struct", size |-> 12, align |-> 4,
          fields |-> <<FieldOf("x", 0, NamedType("inner")), FieldOf("lock", 4, Lock),
                       FieldOf("y", 8, NamedType("inner"))>>]
MCTypes == [n \in {"inner", "outer"} |-> IF n = "inner" THEN Inner ELSE Outer]

MapOf(name, kind, entries, value, size) ==
  [name |-> name, kind |-> kind, typeId |-> 1, entries |-> entries, key |-> U32, value |-> value,
   valueSize |-> size, flags |-> 0, lock |-> None, access |-> "rw", data |-> <<>>, direct |-> FALSE,
   programs |-> <<>>]
DirectMap(name, access, value, size, data) ==
  [MapOf(name, "array", 1, value, size) EXCEPT !.direct = TRUE, !.access = access, !.data = data]

Ro   == DirectMap("ro", "ro", Bytes3, 3, <<1, 0, 1>>)
Ro2  == DirectMap("ro2", "ro", U16, 2, <<0, 1>>)
Ro0  == DirectMap("ro0", "ro", U8, 1, <<>>)
Data == DirectMap("data", "rw", U8, 1, <<1>>)
Bss  == DirectMap("bss", "rw", Bool, 1, <<>>)
Wo   == DirectMap("wo", "wo", U8, 1, <<>>)
Filled == [MapOf("filled", "array", 2, U16, 2) EXCEPT !.data = <<1, 1>>]
FilledRo == [MapOf("filled", "array", 2, U16, 2) EXCEPT !.data = <<1, 1, 0, 1>>, !.access = "ro", !.flags = 128]
Locked == [MapOf("locked", "array", 1, NamedType("outer"), 12) EXCEPT !.lock = 4]
Hash == MapOf("hash", "hash", 2, U8, 1)
Ring == MapOf("ring", "ringbuf", 64, U8, 0)
Jump == [MapOf("jump", "prog_array", 2, U32, 4) EXCEPT !.programs = <<"q", "p">>]
JumpF == [Jump EXCEPT !.programs = <<"f", "p">>]
Own(m, name) == [m EXCEPT !.name = name]

Word(op, src, imm) == [op |-> op, src |-> src, imm |-> imm]
MapRef == <<Word("lddw", 1, 0), Word("rest", 0, 0)>>
ValRef == <<Word("lddw", 2, 0), Word("rest", 0, 7)>>
Call   == <<Word("call", 1, -1)>>
Jsr(n) == <<Word("call", 1, n)>>
Exit1  == <<Word("exit", 0, 0)>>
Ref(index, kind, target, offset) ==
  [index |-> index, kind |-> kind, target |-> target, offset |-> offset]
C(base, form, stars) == [base |-> base, form |-> form, size |-> 4, stars |-> stars]
KfuncRef(index, target, args) ==
  [index |-> index, kind |-> "kfunc", target |-> target, offset |-> 0, typed |-> TRUE,
   ret |-> C("int", "int", 0), args |-> args]
Args == << <<C("task", "fwd", 1), "t">>, <<C("int", "int", 0), "n">> >>

Odd == << <<C("gfp_t", "unknown", 0), "flags">> >>

Program(name, section, words, relocs) ==
  [name |-> name, section |-> section, words |-> words, relocs |-> relocs, subprograms |-> <<>>,
   signed |-> TRUE, bits |-> 2, verdicts |-> <<>>]
Unsigned(p) == [p EXCEPT !.signed = FALSE, !.verdicts = << <<"SHOT", 1>>, <<"UNSPEC", 3>> >>]
P1(map, value, offset) ==
  Program("p", "xdp", MapRef \o ValRef \o Call \o Exit1,
          <<Ref(0, "map_fd", map, 0), Ref(2, "map_value", value, offset), KfuncRef(4, "f", Args)>>)
Q(map) ==
  Unsigned(Program("q", "xdp", Exit1 \o MapRef, <<Ref(1, "map_fd", map, 0)>>))
(* Behind q in its section, with two global functions. *)
R1(value) ==
  [Program("r", "xdp", ValRef \o Jsr(1) \o Exit1 \o Call \o Exit1 \o Exit1,
           <<Ref(0, "map_value", value, 0), KfuncRef(4, "g", <<>>)>>)
     EXCEPT !.subprograms = << [name |-> "fn", insn |-> 4], [name |-> "fn2", insn |-> 6] >>]
S1(map) == Program("s", "tc", MapRef \o Exit1, <<Ref(0, "map_fd", map, 0)>>)
MCFns ==
  << [name |-> "fn2", void |-> TRUE, ret |-> U8, params |-> <<>>],
     [name |-> "fn", void |-> FALSE, ret |-> Bool,
      params |-> << [name |-> "a", type |-> U32, ref |-> FALSE],
                    [name |-> "b", type |-> NamedType("inner"), ref |-> TRUE] >>] >>

Kernel == <<[kind |-> "struct", name |-> "f"], [kind |-> "func", name |-> "g"],
            [kind |-> "func", name |-> "f"]>>
Doc(maps, programs, only) ==
  [maps |-> maps, programs |-> programs, types |-> MCTypes, fns |-> MCFns,
   only |-> only, anyKernel |-> FALSE, kernel |-> <<6, 8>>, release |-> <<6, 8, 1>>, vmlinux |-> Kernel]
MCJobs ==
  {Doc(<<Ro, Hash, JumpF>>, <<P1("hash", "ro", 1), Own(Q("jump"), "f")>>, None),
   Doc(<<Ro, JumpF>>, <<Own(Q("jump"), "f"), P1("jump", "ro", 0)>>, None),
   Doc(<<Ring, Filled>>, <<Q("ring"), Own(Q("ring"), "r"), Own(Q("ring"), "s")>>, None),
   Doc(<<Locked, Ro, Jump>>, <<P1("locked", "ro", 0), Q("jump")>>, "p"),
   Doc(<<Ring, Ro0, Jump>>, <<P1("ring", "ro0", 0), Q("jump")>>, "q"),
   Doc(<<Ro0, Filled>>, <<>>, None),
   Doc(<<Ro0, FilledRo, Wo>>, <<>>, None),
   [Doc(<<Hash, Ro>>, <<P1("hash", "ro", 0)>>, None) EXCEPT !.vmlinux = None],
   [Doc(<<Hash, Ro>>, <<[P1("hash", "ro", 0) EXCEPT !.relocs[3] = KfuncRef(4, "f", Odd)]>>, None)
      EXCEPT !.release = <<6, 12, 1>>],
   Doc(<<Own(Locked, "q"), Own(Locked, "hash"), Ro, Ro2, Ro0, Data>>,
       <<S1("hash"), P1("q", "ro", 1), Own(Q("hash"), "z"), R1("ro2"), Q("q")>>, "r"),
   Doc(<<Own(Locked, "q"), Ro0, Ro2, Bss, Jump>>,
       <<P1("q", "bss", 0), S1("q"), Q("jump"), R1("ro2")>>, None)}
MCBytes == {0, 1}
MCFds == 3 .. 16
MCLengths == {4, 8}
MCRegisters == 0 .. 3
MCKeys == {1, 2}
=============================================================================
