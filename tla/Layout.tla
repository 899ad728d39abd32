------------------------------- MODULE Layout -------------------------------
(* The layout of a uapi context struct, tools/transcribe/transcribe.py        *)
(* (layout_struct, layout_member), beside the one C gives it.  The struct's   *)
(* body is read line by line: one action per kind of line, in which the tool  *)
(* and C each take the line.  A line is a record: its form ("ptr" a           *)
(* __bpf_md_ptr, "int" an integer or an array of them, "pad" an unnamed       *)
(* bit-field, "other" what ends in a refusal: a line no pattern matches, a    *)
(* named bit-field, a union within a union), its base type's size, its count  *)
(* (1: no array) and its bits.  A field is known by its position.             *)
EXTENDS Integers, Sequences

CONSTANTS
  Lines,       \* the member lines a header may have
  MaxMembers   \* bound on the lines read

SizesOfInt == {1, 2, 4, 8}

(* A bit-field is no wider than its type, or C refuses it.                    *)
ASSUME LayoutAssumption ==
  /\ MaxMembers \in Nat
  /\ \A l \in Lines :
       /\ l.form \in {"ptr", "int", "pad", "other"}
       /\ l.base \in SizesOfInt
       /\ l.count \in Nat
       /\ l.bits \in Nat /\ l.bits <= 8 * l.base

VARIABLES
  fields,      \* what the struct is laid out as: an offset and a size each
  off,         \* the first free byte
  alignMax,    \* the widest alignment met
  union,       \* the members of the open union, not yet placed
  inUnion,     \* whether a union is open
  total,       \* the struct's size, when it ended
  layout,      \* "reading", "done", or "refused"
  cFields,     \* C's: the first bit and the line of each field
  cOff,        \* C's first free bit
  cAlign,      \* C's alignment of the struct, in bytes
  cUnion,      \* the lines of the open union
  asRead       \* whether C met only what the tool reads as C does

cVars == <<cFields, cOff, cAlign, cUnion, asRead>>
layoutVars == <<fields, off, alignMax, union, inUnion, total, layout, cVars>>

(* Bug: rounds down when it must not. *)
BugRoundUp(n, a) == (n \div a) * a
RoundUp(n, a) == ((n + a - 1) \div a) * a

(* The largest and the least of a set of numbers. *)
Largest(S) == CHOOSE m \in S : \A n \in S : n <= m
Least(S) == CHOOSE m \in S : \A n \in S : m <= n

-----------------------------------------------------------------------------
(* C's layout of a struct for the BPF target: external.  In bits: a member    *)
(* begins at the first free bit that suits it.  What is no bit-field begins   *)
(* at a multiple of its alignment; a bit-field anywhere within one unit of    *)
(* its type, next to the one before it, and one of no bits at a unit's start. *)
(* An unnamed bit-field asks for no alignment of the struct.  A union is as   *)
(* aligned as its widest member, and its size is a multiple of that.          *)

Bytes(bits) == (bits + 7) \div 8
CBits(l) == IF l.form = "ptr" THEN 64 ELSE IF l.form = "pad" THEN l.bits ELSE 8 * l.base * l.count
CAlign(l) == IF l.form = "ptr" THEN 8 ELSE IF l.form = "pad" THEN 1 ELSE l.base

NextMultiple(n, k) == Least({p \in n .. n + k : p % k = 0})
Suits(l, p) ==
  LET unit == 8 * l.base
  IN IF l.form # "pad" THEN p % (8 * CAlign(l)) = 0
     ELSE IF l.bits = 0 THEN p % unit = 0
     ELSE p \div unit = (p + l.bits - 1) \div unit
CPlace(l) == Least({p \in cOff .. cOff + 64 : Suits(l, p)})

(* The tool gives each bit-field bytes of its own, from the next free one on. *)
CMember(l) ==
  LET at == CPlace(l)
  IN /\ cFields' = Append(cFields, [at |-> at, line |-> l])
     /\ cOff' = at + CBits(l)
     /\ cAlign' = Largest({cAlign, CAlign(l)})
     /\ asRead' = (asRead /\ (l.form = "pad" => at = 8 * Bytes(cOff)))
     /\ UNCHANGED cUnion

(* The tool ends a union where its largest member does. *)
CUnionEnd ==
  LET align == Largest({CAlign(cUnion[i]) : i \in DOMAIN cUnion})
      bits == Largest({CBits(cUnion[i]) : i \in DOMAIN cUnion})
      size == NextMultiple(bits, 8 * align)
      at == NextMultiple(cOff, 8 * align)
  IN /\ cFields' = cFields \o [i \in DOMAIN cUnion |-> [at |-> at, line |-> cUnion[i]]]
     /\ cOff' = at + size
     /\ cAlign' = Largest({cAlign, align})
     /\ cUnion' = <<>>
     /\ asRead' = (asRead /\ size = 8 * Bytes(bits))

CSize == NextMultiple(cOff, 8 * cAlign)

-----------------------------------------------------------------------------
(* layout_struct. *)

(* The widest alignment after a member, or a union, of alignment a. *)
(* Bug: the struct's own alignment is not kept up. *)
BugWider(a) == alignMax
Wider(a) == Largest({alignMax, a})

(* One member line: its size and alignment.  A pointer's union is eight       *)
(* bytes; a bit-field pads its bits and asks for no alignment.                *)
LayoutMember(l) ==
  IF l.form = "ptr" THEN [size |-> 8, align |-> 8]
  ELSE IF l.form = "pad" THEN [size |-> (l.bits + 7) \div 8, align |-> 1]
  ELSE [size |-> l.base * l.count, align |-> l.base]

Members == Len(fields) + Len(union)
Reading == layout = "reading"

(* A member of the struct itself. *)
StructMember(l) ==
  LET m == LayoutMember(l)
      at == RoundUp(off, m.align)
  IN /\ Reading /\ ~inUnion /\ l.form # "other" /\ Members < MaxMembers
     /\ fields' = Append(fields, [offset |-> at, size |-> m.size])
     /\ off' = at + m.size
     /\ alignMax' = Wider(m.align)
     /\ CMember(l)
     /\ UNCHANGED <<union, inUnion, total, layout>>

(* The line that opens a union. *)
OpenUnion ==
  /\ Reading /\ ~inUnion /\ Members < MaxMembers
  /\ union' = <<>> /\ cUnion' = <<>>
  /\ inUnion' = TRUE
  /\ UNCHANGED <<fields, off, alignMax, total, layout, cFields, cOff, cAlign, asRead>>

(* A member of the open union: only remembered. *)
UnionMember(l) ==
  /\ Reading /\ inUnion /\ l.form # "other" /\ Members < MaxMembers
  /\ union' = Append(union, LayoutMember(l))
  /\ cUnion' = Append(cUnion, l)
  /\ UNCHANGED <<fields, off, alignMax, inUnion, total, layout, cFields, cOff, cAlign, asRead>>

(* Bug: the first member's size is taken for the union's. *)
BugUnionEnd(at) == at + union[1].size
UnionEnd(at) == at + Largest({union[i].size : i \in DOMAIN union})

(* The end of the union: it is as large as its largest member, as aligned as  *)
(* its widest, and every member is a field at its offset.                     *)
CloseUnion ==
  LET align == Largest({union[i].align : i \in DOMAIN union})
      at == RoundUp(off, align)
  IN /\ Reading /\ inUnion /\ union # <<>>
     /\ fields' = fields \o [i \in DOMAIN union |-> [offset |-> at, size |-> union[i].size]]
     /\ off' = UnionEnd(at)
     /\ alignMax' = Wider(align)
     /\ union' = <<>>
     /\ inUnion' = FALSE
     /\ CUnionEnd
     /\ UNCHANGED <<total, layout>>

(* A line the tool cannot lay out: the struct is given up. *)
Refuse(l) ==
  /\ Reading /\ l.form = "other"
  /\ layout' = "refused"
  /\ UNCHANGED <<fields, off, alignMax, union, inUnion, total, cVars>>

(* The end of the struct. *)
EndStruct ==
  /\ Reading /\ ~inUnion
  /\ total' = RoundUp(off, alignMax)
  /\ layout' = "done"
  /\ UNCHANGED <<fields, off, alignMax, union, inUnion, cVars>>

LayoutInit ==
  /\ fields = <<>> /\ off = 0 /\ alignMax = 1
  /\ union = <<>> /\ inUnion = FALSE
  /\ total = 0 /\ layout = "reading"
  /\ cFields = <<>> /\ cOff = 0 /\ cAlign = 1 /\ cUnion = <<>> /\ asRead = TRUE

LayoutNext ==
  \/ \E l \in Lines : StructMember(l) \/ UnionMember(l) \/ Refuse(l)
  \/ OpenUnion
  \/ CloseUnion
  \/ EndStruct

LayoutSpec == LayoutInit /\ [][LayoutNext]_layoutVars

-----------------------------------------------------------------------------
(* The tool's layout and C's. *)

(* As long as C puts every bit-field at the next free byte and ends every     *)
(* union where its largest member ends, every field, the bit-fields included, *)
(* is where C puts it, with room for its bits and no more (layout_struct: off *)
(* is rounded up, then moved past the member or the union).                   *)
LaidOutAsC ==
  asRead =>
    /\ Len(fields) = Len(cFields)
    /\ \A i \in DOMAIN fields :
         /\ 8 * fields[i].offset = cFields[i].at
         /\ fields[i].size = Bytes(CBits(cFields[i].line))

(* Of such a struct the size is C's (layout_struct's total; the context       *)
(* table's bound on accesses and the size of bpf_spin_lock come from it).     *)
SizeAsC == asRead /\ layout = "done" => 8 * total = CSize

=============================================================================
