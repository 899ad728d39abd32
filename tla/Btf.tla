--------------------------------- MODULE Btf ---------------------------------
(* The types of a document and the BTF made of them, tools/koitobj.py (Types, *)
(* Btf, read_btf).  A type description is a record with a kind, as typeJson   *)
(* writes it; `named` is the document's table of names.  A BTF under          *)
(* construction is its types, in order from id 1, and the memo by key; a type *)
(* is [kind, name, vlen, sot, extra], sot the size or the type and extra the  *)
(* words that follow, a name standing for its offset among the strings.       *)
(* An operator that adds a type returns the BTF with the type's id.           *)
EXTENDS KoitObj

EmptyBtf == [types |-> <<>>, byKey |-> Empty]

-----------------------------------------------------------------------------
(* Types. *)

RECURSIVE Resolve(_, _)
Resolve(named, t) == IF t.kind = "named" THEN Resolve(named, named[t.name]) ELSE t

Scalar(t) == t.kind \in {"int", "be", "bool"}
SizeOf(named, t) ==
  LET u == Resolve(named, t)
  IN CASE u.kind \in {"int", "be"} -> u.bits \div 8
       [] u.kind = "bool" -> 1
       [] OTHER -> u.size
AlignOf(named, t) ==
  LET u == Resolve(named, t) IN IF Scalar(u) THEN SizeOf(named, u) ELSE u.align

-----------------------------------------------------------------------------
(* The encoder. *)

Type(kind, name, vlen, sot, extra) ==
  [kind |-> kind, name |-> name, vlen |-> vlen, sot |-> sot, extra |-> extra]
Added(b, t) == [btf |-> [b EXCEPT !.types = Append(@, t)], id |-> Len(b.types) + 1]
Once(b, key, t) ==
  IF key \in DOMAIN b.byKey THEN [btf |-> b, id |-> b.byKey[key]]
  ELSE LET a == Added(b, t) IN [btf |-> [a.btf EXCEPT !.byKey = Put(@, key, a.id)], id |-> a.id]

IntType(b, name, size) == Once(b, <<"int", name, size>>, Type("int", name, 0, size, <<size>>))
Int4(b) == IntType(b, "int", 4)
(* Bug: the index's type and the element's are swapped. *)
BugArrayType(b, elem, n) ==
  LET idx == IntType(b, "__ARRAY_SIZE_TYPE__", 4)
  IN Added(idx.btf, Type("array", "", 0, 0, <<idx.id, elem, n>>))
ArrayType(b, elem, n) ==
  LET idx == IntType(b, "__ARRAY_SIZE_TYPE__", 4)
  IN Added(idx.btf, Type("array", "", 0, 0, <<elem, idx.id, n>>))
PtrType(b, t) == Added(b, Type("ptr", "", 0, t, <<>>))

(* A struct's members are <<name, type, byte offset>>. *)
RECURSIVE Flat(_)
Flat(tuples) == IF tuples = <<>> THEN <<>> ELSE Head(tuples) \o Flat(Tail(tuples))
Bits(members) == [k \in DOMAIN members |-> <<members[k][1], members[k][2], 8 * members[k][3]>>]
StructType(name, size, members) == Type("struct", name, Len(members), size, Flat(Bits(members)))

FuncProto(b, ret, params) == Added(b, Type("func_proto", "", Len(params), ret, Flat(params)))
Func(b, name, proto, linkage) == Added(b, Type("func", name, linkage, proto, <<>>))
Var(b, name, t) == Added(b, Type("var", name, 0, t, <<1>>))
Datasec(b, name, size, vars) == Added(b, Type("datasec", name, Len(vars), size, Flat(vars)))
DeclTag(b, target, component) ==
  Added(b, Type("decl_tag", "arg:nonnull", 0, target, <<component>>))

(* ctype: a scalar, `void`, or pointers to one or to a forward declaration.   *)
(* A C type is [base, form, size, stars].                                     *)
RECURSIVE Stars(_, _, _)
Stars(b, t, n) ==
  IF n = 0 THEN [btf |-> b, id |-> t]
  ELSE LET p == PtrType(b, t) IN Stars(p.btf, p.id, n - 1)
CType(b, c) ==
  LET base == CASE c.form = "void" -> [btf |-> b, id |-> 0]
                [] c.form = "fwd"  -> Once(b, <<"fwd", c.base, 0>>, Type("fwd", c.base, 0, 0, <<>>))
                [] c.form = "int"  -> IntType(b, c.base, c.size)
  IN Stars(base.btf, base.id, c.stars)

(* of_type: the id of a type description; a struct takes the name it was      *)
(* reached by, and is added once under it.                                    *)
RECURSIVE OfType(_, _, _, _), MembersOf(_, _, _)
MembersOf(b, named, fields) ==
  IF fields = <<>> THEN [btf |-> b, members |-> <<>>]
  ELSE LET f == Head(fields)
           t == OfType(b, named, f.type, "")
           rest == MembersOf(t.btf, named, Tail(fields))
       IN [btf |-> rest.btf, members |-> <<(<<f.name, t.id, f.offset>>)>> \o rest.members]
(* Bug: a struct reached by its name is added again. *)
BugRemembered(b, name, id) == b
Remembered(b, name, id) ==
  IF name = "" THEN b ELSE [b EXCEPT !.byKey = Put(@, <<"named", name, 0>>, id)]
OfType(b, named, t, given) ==
  LET name == IF t.kind = "named" THEN t.name ELSE given
      u == Resolve(named, t)
  IN IF t.kind = "named" /\ <<"named", name, 0>> \in DOMAIN b.byKey
     THEN [btf |-> b, id |-> b.byKey[<<"named", name, 0>>]]
     ELSE CASE u.kind \in {"int", "be"} ->
                 IntType(b, IF u.kind = "int" /\ u.signed THEN "s" ELSE "u", u.bits \div 8)
            [] u.kind = "bool" -> IntType(b, "bool", 1)
            [] u.kind = "array" ->
                 LET elem == OfType(b, named, u.elem, "") IN ArrayType(elem.btf, elem.id, u.len)
            [] u.kind = "slot" ->
                 LET val == IntType(b, "u", 4)
                     slot == StructType(u.kernel, u.size, <<(<<"val", val.id, 0>>)>>)
                 IN IF <<"slot", u.kernel, 0>> \in DOMAIN b.byKey
                    THEN [btf |-> b, id |-> b.byKey[<<"slot", u.kernel, 0>>]]
                    ELSE Once(val.btf, <<"slot", u.kernel, 0>>, slot)
            [] u.kind = "struct" ->
                 LET m == MembersOf(b, named, u.fields)
                     s == Added(m.btf, StructType(name, u.size, m.members))
                 IN [btf |-> Remembered(s.btf, name, s.id), id |-> s.id]

(* The name a tool passes beside a description: its own, when it has one.     *)
Given(t) == IF t.kind \in {"named", "slot"} THEN t.name ELSE ""
TypeId(b, named, t) == OfType(b, named, t, Given(t))

(* map_btf: what a map needs at its creation. *)
MapBtf(named, m) ==
  LET key == TypeId(EmptyBtf, named, m.key)
      value == TypeId(key.btf, named, m.value)
  IN [types |-> value.btf.types, key |-> key.id, value |-> value.id]

-----------------------------------------------------------------------------
(* A blob, and reading one back: a type is a header and the words behind it,  *)
(* which belong to the type by its kind and count alone.                      *)

RECURSIVE Blob(_)
Blob(types) ==
  IF types = <<>> THEN <<>>
  ELSE LET t == Head(types)
       IN <<[kind |-> t.kind, name |-> t.name, vlen |-> t.vlen, sot |-> t.sot]>>
          \o [k \in DOMAIN t.extra |-> [word |-> t.extra[k]]] \o Blob(Tail(types))

Words(kind, vlen) ==
  CASE kind \in {"int", "var", "decl_tag"} -> 1
    [] kind = "array" -> 3
    [] kind \in {"struct", "datasec"} -> 3 * vlen
    [] kind = "func_proto" -> 2 * vlen
    [] OTHER -> 0
(* Bug: a declaration tag's component is not passed over. *)
BugExtra(kind, vlen) == IF kind = "decl_tag" THEN 0 ELSE Words(kind, vlen)
Extra(kind, vlen) == Words(kind, vlen)

RECURSIVE ReadBtf(_)
ReadBtf(blob) ==
  IF blob = <<>> \/ "word" \in DOMAIN blob[1] THEN <<>>
  ELSE LET t == Head(blob)
           n == Extra(t.kind, t.vlen)
       IN <<Type(t.kind, t.name, t.vlen, t.sot, [k \in 1 .. n |-> blob[k + 1].word])>>
          \o ReadBtf(SubSeq(blob, n + 2, Len(blob)))

-----------------------------------------------------------------------------
(* What the kernel and libbpf read in a BTF: external. *)

RECURSIVE BtfSize(_, _)
BtfSize(types, id) ==
  LET t == types[id]
  IN CASE t.kind = "array" -> t.extra[3] * BtfSize(types, t.extra[1])
       [] t.kind = "ptr" -> 8
       [] OTHER -> t.sot
Member(t, k) == [name |-> t.extra[3 * k - 2], type |-> t.extra[3 * k - 1], bits |-> t.extra[3 * k]]
(* The offsets of the members of a struct that are spin locks. *)
LocksIn(types, id) ==
  {Member(types[id], k).bits \div 8 :
     k \in {k \in 1 .. types[id].vlen :
              /\ types[Member(types[id], k).type].kind = "struct"
              /\ types[Member(types[id], k).type].name = "bpf_spin_lock"}}
=============================================================================
