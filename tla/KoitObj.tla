------------------------------- MODULE KoitObj -------------------------------
(* What tools/koitobj.py computes from a document and from what the kernel    *)
(* answers: the patched words, a kfunc's id, a verdict's name, a map's report *)
(* lines.  A document is a record, as `koitc emit --json` writes it            *)
(* (Koit/Compile/ObjectJson.lean), with names for what a tool only passes on. *)
(*                                                                            *)
(* An instruction word is [op, src, imm]: "lddw" takes two words, the second  *)
(* of op "rest".  A type's bytes are compared, never printed: the report's    *)
(* lines hold the bytes that `format` spells out.                             *)
EXTENDS Binary, Sequences, FiniteSets

PseudoMapFd == 1
PseudoMapValue == 2
PseudoKfuncCall == 2

Put(f, k, v) == [x \in DOMAIN f \cup {k} |-> IF x = k THEN v ELSE f[x]]
Empty == [x \in {} |-> x]
Elems(s) == {s[k] : k \in DOMAIN s}
NamesOf(s) == {s[k].name : k \in DOMAIN s}
DistinctNames(s) == \A k, l \in DOMAIN s : s[k].name = s[l].name => k = l
Named(s, n) == s[CHOOSE k \in DOMAIN s : s[k].name = n]

-----------------------------------------------------------------------------
(* Relocation. *)

(* One relocation: a map reference is the descriptor and the pseudo source;   *)
(* a value reference the same, with the offset in the second word; a kfunc    *)
(* call its BTF id.                                                           *)
(* Bug: the second word of a value reference is left as it was. *)
BugPatchOne(words, r, mapFds, kfuncIds) ==
  IF r.kind = "kfunc"
  THEN [words EXCEPT ![r.index + 1].src = PseudoKfuncCall,
                     ![r.index + 1].imm = kfuncIds[r.target]]
  ELSE [words EXCEPT ![r.index + 1].src = IF r.kind = "map_fd" THEN PseudoMapFd ELSE PseudoMapValue,
                     ![r.index + 1].imm = mapFds[r.target]]
PatchOne(words, r, mapFds, kfuncIds) ==
  IF r.kind = "kfunc"
  THEN [words EXCEPT ![r.index + 1].src = PseudoKfuncCall,
                     ![r.index + 1].imm = kfuncIds[r.target]]
  ELSE [words EXCEPT ![r.index + 1].src = IF r.kind = "map_fd" THEN PseudoMapFd ELSE PseudoMapValue,
                     ![r.index + 1].imm = mapFds[r.target],
                     ![r.index + 2].imm = IF r.kind = "map_value" THEN r.offset ELSE @]

Patch(words, relocs, mapFds, kfuncIds) ==
  LET upTo[k \in 0 .. Len(relocs)] ==
        IF k = 0 THEN words ELSE PatchOne(upTo[k - 1], relocs[k], mapFds, kfuncIds)
  IN upTo[Len(relocs)]

(* kfunc_id: the position of the first function of the name among the types   *)
(* of the kernel's BTF; 0 when there is none (ids start at 1).                *)
(* Bug: any type of the name will do. *)
BugKfuncId(types, name) ==
  LET at == {k \in DOMAIN types : types[k].name = name}
  IN IF at = {} THEN 0 ELSE CHOOSE k \in at : \A l \in at : k <= l
KfuncId(types, name) ==
  LET at == {k \in DOMAIN types : types[k].kind = "func" /\ types[k].name = name}
  IN IF at = {} THEN 0 ELSE CHOOSE k \in at : \A l \in at : k <= l

-----------------------------------------------------------------------------
(* The report. *)

(* A verdict as printed: the value's name, or the value; the value is the     *)
(* low bits of the register, signed when the kind's result is: such a kind    *)
(* names no values, the others name theirs by the unsigned one.               *)
(* Bug: the result is never taken as signed. *)
BugSignedResult(p, retval) == retval
SignedResult(p, retval) ==
  LET v == retval % Pow2(p.bits)
  IN IF ~p.signed THEN retval ELSE IF v >= Pow2(p.bits - 1) THEN v - Pow2(p.bits) ELSE v
(* What a result of the type can be. *)
ResultRange(p) ==
  IF p.signed THEN -Pow2(p.bits - 1) .. Pow2(p.bits - 1) - 1 ELSE 0 .. Pow2(p.bits) - 1
VerdictName(p, retval) ==
  LET v == SignedResult(p, retval)
      at == {k \in DOMAIN p.verdicts : p.verdicts[k][2] = v}
  IN IF at = {} THEN [named |-> FALSE, as |-> v]
     ELSE [named |-> TRUE, as |-> p.verdicts[CHOOSE k \in at : \A l \in at : k <= l][1]]

(* Where the record after one of a given length starts: eight bytes of        *)
(* header, and the whole rounded up to eight.                                 *)
RecordStep(length) == ((8 + length + 7) \div 8) * 8

(* ringbuf_records: the submitted records between the two positions, up to    *)
(* one still being written; the discarded ones are passed over.  The next     *)
(* record is further on, whatever a header says.                              *)
RingRecords(ring) ==
  LET from[pos \in 0 .. ring.prod] ==
        IF pos = ring.prod \/ ring.hdr[pos].busy THEN <<>>
        ELSE LET next == pos + RecordStep(ring.hdr[pos].length)
                 rest == IF next \in pos + 1 .. ring.prod THEN from[next] ELSE <<>>
             IN IF ring.hdr[pos].discard THEN rest ELSE <<ring.hdr[pos].length>> \o rest
  IN from[ring.cons]

(* The pairs of a hash in the order of their keys, whatever order the kernel  *)
(* gave them in.                                                              *)
(* Bug: the kernel's order is kept. *)
BugByKey(pairs) == pairs
ByKey(pairs) ==
  [n \in DOMAIN pairs |->
     CHOOSE kv \in Elems(pairs) : Cardinality({e \in Elems(pairs) : e[1] < kv[1]}) = n - 1]

IsZero(value) == \A k \in DOMAIN value : value[k] = 0

(* report_map: one map's lines.  `contents` is what was read back: records,   *)
(* pairs of key and value, or pairs of index and value.                       *)
(* Bug: an entry is shown when its first byte is not zero. *)
BugLive(entry) == entry[2][1] # 0
Live(entry) == ~IsZero(entry[2])
ReportMap(m, contents) ==
  IF m.kind = "ringbuf" THEN contents
  ELSE IF m.kind = "hash" THEN ByKey(contents)
  ELSE LET live[n \in 0 .. Len(contents)] ==
             IF n = 0 THEN <<>>
             ELSE IF Live(contents[n]) THEN Append(live[n - 1], contents[n]) ELSE live[n - 1]
       IN live[Len(contents)]
=============================================================================
