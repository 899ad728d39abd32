------------------------------ MODULE ProtoFns ------------------------------
(* Which helpers a program type may call: the get_func_proto functions of     *)
(* the kernel as tools/transcribe/transcribe.py reads them (parse_proto_fns,  *)
(* parse_changes_pkt), and the answer Koit/Interface/Kernel.lean gives from   *)
(* what was read (Side.protoFor).  The transcriber walks the labels of each   *)
(* function's switch, with the text up to the next label: one action here is  *)
(* one label.                                                                 *)
(*                                                                            *)
(* Beside it, `code` is the C function itself, and Returned what the verifier *)
(* gets from calling it.  Functions are numbers, and call smaller ones.       *)
EXTENDS Integers, Sequences, FiniteSets

CONSTANTS
  Helpers,     \* helper names
  Protos,      \* names of bpf_func_proto structs
  FuncOf,      \* the C function of each proto
  Changing,    \* the functions bpf_helper_changes_pkt_data compares with
  NumFns,      \* the get_func_proto functions are 1 .. NumFns
  MaxLabels,   \* bound on the labels of all functions together
  None         \* no proto, no fallback, no function

Fns == 1 .. NumFns

ASSUME ProtoFnsAssumption ==
  /\ NumFns \in Nat /\ MaxLabels \in Nat
  /\ None \notin Protos \cup Fns
  /\ "default" \notin Helpers
  /\ None \notin [cases : Seq(Helpers \X Protos), fallback : Fns \cup {None}]

VARIABLES
  fns,       \* the functions parsed: their cases and fallback
  code,      \* the functions as C has them
  current,   \* the function being parsed, or None
  cases,     \* its cases so far, pairs of a helper and a proto
  fallback,  \* the function its default calls, or None
  pending    \* the labels whose text has not returned yet

fnVars == <<fns, code, current, cases, fallback, pending>>

-----------------------------------------------------------------------------
(* The parser. *)

(* Bug: labels that share a text keep only the last. *)
BugCasesOf(labels, p) == << <<labels[Len(labels)], p>> >>
CasesOf(labels, p) == [i \in DOMAIN labels |-> <<labels[i], p>>]

Seen == UNION {{code[f].items[i].label : i \in DOMAIN code[f].items} : f \in {current} \cap Fns}
Room ==
  LET upTo[f \in 0 .. NumFns] == IF f = 0 THEN 0 ELSE Len(code[f].items) + upTo[f - 1]
  IN upTo[NumFns] < MaxLabels

Read(item) == code' = [code EXCEPT ![current].items = Append(@, item)]

(* A function's body is found; `before` is what it asks before the switch,    *)
(* which the parser does not look at.                                         *)
BeginFn(f, before) ==
  /\ current = None /\ fns[f] = None
  /\ before \in {None} \cup 1 .. f - 1
  /\ current' = f
  /\ code' = [code EXCEPT ![f].before = before]
  /\ cases' = <<>> /\ fallback' = None /\ pending' = <<>>
  /\ UNCHANGED fns

(* A case whose text is empty: it falls into the next label's. *)
CaseFalls(h) ==
  /\ current # None /\ Room /\ {h, "default"} \cap Seen = {}
  /\ Read([label |-> h, text |-> "fall", what |-> None])
  /\ pending' = Append(pending, h)
  /\ UNCHANGED <<fns, current, cases, fallback>>

(* A case that returns a proto, by its address or through a getter: every     *)
(* label waiting gets it.                                                     *)
CaseReturns(h, p) ==
  /\ current # None /\ Room /\ {h, "default"} \cap Seen = {}
  /\ Read([label |-> h, text |-> "proto", what |-> p])
  /\ cases' = cases \o CasesOf(Append(pending, h), p)
  /\ pending' = <<>>
  /\ UNCHANGED <<fns, current, fallback>>

(* A case that returns no proto: the labels waiting are dropped. *)
(* Bug: they are kept, and take the next text's proto. *)
BugAfterNull(labels) == labels
AfterNull(labels) == <<>>
CaseDenies(h) ==
  /\ current # None /\ Room /\ {h, "default"} \cap Seen = {}
  /\ Read([label |-> h, text |-> "null", what |-> None])
  /\ pending' = AfterNull(Append(pending, h))
  /\ UNCHANGED <<fns, current, cases, fallback>>

(* A case with a switch of its own, which returns NULL or, by its default,    *)
(* a proto: the parser takes that default for the function's.                 *)
CaseNests(h, p) ==
  /\ current # None /\ Room /\ {h, "default"} \cap Seen = {}
  /\ Read([label |-> h, text |-> "nested", what |-> p])
  /\ pending' = <<>>
  /\ UNCHANGED <<fns, current, cases, fallback>>

(* The default: the function it calls is the fallback; the labels waiting     *)
(* are dropped, and what they share with it is found by the fallback.         *)
Default(g) ==
  /\ current # None /\ Room /\ "default" \notin Seen
  /\ g \in {None} \cup 1 .. current - 1
  /\ Read([label |-> "default", text |-> IF g = None THEN "null" ELSE "call", what |-> g])
  /\ fallback' = IF g = None THEN fallback ELSE g
  /\ pending' = <<>>
  /\ UNCHANGED <<fns, current, cases>>

(* The end of the function; `after` is what it calls behind the switch. *)
EndFn(after) ==
  /\ current # None
  /\ after \in {None} \cup (IF "default" \in Seen THEN {} ELSE 1 .. current - 1)
  /\ pending = <<>>
  /\ fns' = [fns EXCEPT ![current] = [cases |-> cases, fallback |-> fallback]]
  /\ code' = [code EXCEPT ![current].after = after]
  /\ current' = None
  /\ UNCHANGED <<cases, fallback, pending>>

FnInit ==
  /\ fns = [f \in Fns |-> None]
  /\ code = [f \in Fns |-> [before |-> None, items |-> <<>>, after |-> None]]
  /\ current = None /\ cases = <<>> /\ fallback = None /\ pending = <<>>

FnNext ==
  \/ \E f \in Fns, b \in Fns \cup {None} : BeginFn(f, b)
  \/ \E h \in Helpers : CaseFalls(h) \/ CaseDenies(h)
  \/ \E h \in Helpers, p \in Protos : CaseReturns(h, p) \/ CaseNests(h, p)
  \/ \E g \in Fns \cup {None} : Default(g) \/ EndFn(g)

FnSpec == FnInit /\ [][FnNext]_fnVars
Parsed == \A f \in Fns : fns[f] # None

-----------------------------------------------------------------------------
(* What is made of the table. *)

FirstCase(cs, h) ==
  LET at == {i \in DOMAIN cs : cs[i][1] = h}
  IN IF at = {} THEN None ELSE cs[CHOOSE i \in at : \A j \in at : i <= j][2]

(* Side.protoFor: the first function on the chain that names the helper.      *)
ProtoFor(f, h) ==
  LET proto[g \in Fns \cup {None}] ==
        IF g = None THEN None
        ELSE IF FirstCase(fns[g].cases, h) # None THEN FirstCase(fns[g].cases, h)
        ELSE proto[fns[g].fallback]
  IN proto[f]

(* parse_changes_pkt on a kernel that compares C functions: a helper is       *)
(* listed when some function has a case for it with a proto of such a one.    *)
(* Bug: the proto's name is compared, not its function's. *)
BugChangesPkt ==
  {h \in Helpers : \E f \in Fns : \E i \in DOMAIN fns[f].cases :
     fns[f].cases[i][1] = h /\ fns[f].cases[i][2] \in Changing}
ChangesPkt ==
  {h \in Helpers : \E f \in Fns : \E i \in DOMAIN fns[f].cases :
     fns[f].cases[i][1] = h /\ FuncOf[fns[f].cases[i][2]] \in Changing}

-----------------------------------------------------------------------------
(* What the verifier gets from C. *)

(* Where control goes for helper h in a switch: its label, else the default,  *)
(* then past the labels that fall through; 0 behind the switch.               *)
Dispatch(items, h) ==
  LET at(l) == {i \in DOMAIN items : items[i].label = l}
      entry == IF at(h) # {} THEN at(h) ELSE at("default")
      stops == {i \in DOMAIN items : items[i].text # "fall" /\ \E e \in entry : e <= i}
  IN IF entry = {} \/ stops = {} THEN 0 ELSE CHOOSE i \in stops : \A j \in stops : i <= j

Returned(f, h) ==
  LET return[g \in Fns \cup {None}] ==
        LET i == Dispatch(code[g].items, h)
        IN IF g = None THEN None
           ELSE IF return[code[g].before] # None THEN return[code[g].before]
           ELSE IF i = 0 THEN return[code[g].after]
           ELSE IF code[g].items[i].text = "call" THEN return[code[g].items[i].what]
           ELSE code[g].items[i].what
  IN return[f]

(* For every function a program type may name, the table gives for each       *)
(* helper the proto the verifier is given (Kernel.lean: "availability is read *)
(* the way the verifier reads it").                                           *)
AvailabilityAsVerifier ==
  Parsed => \A f \in Fns, h \in Helpers : ProtoFor(f, h) = Returned(f, h)

(* The forms of C the parser reads: nothing is asked before the switch or     *)
(* behind it, the helper's case holds no switch of its own, and a case that   *)
(* returns NULL is in a function whose default calls no other.                *)
Calls(items) == {items[k].what : k \in {k \in DOMAIN items : items[k].text = "call"}}
ReadForm(f, h) ==
  LET read[g \in Fns] ==
        LET i == Dispatch(code[g].items, h)
        IN /\ code[g].before = None /\ code[g].after = None
           /\ i # 0 => code[g].items[i].text # "nested"
           /\ i # 0 /\ code[g].items[i].text = "null" => Calls(code[g].items) = {}
           /\ \A c \in Calls(code[g].items) : read[c]
  IN read[f]

(* Of those forms, whatever falls through and whatever shares a text, the     *)
(* table says what the verifier is given: AvailabilityAsVerifier fails by     *)
(* the others alone.                                                          *)
ReadFormsAsVerifier ==
  Parsed => \A f \in Fns, h \in Helpers :
    ReadForm(f, h) => ProtoFor(f, h) = Returned(f, h)

(* Every helper the verifier gets a packet-changing function for, under some  *)
(* program type, is listed as changing the packet: a view kept across another *)
(* call is still good (parse_changes_pkt).  Only one whose case holds a       *)
(* switch of its own may be missing.                                          *)
NestedSomewhere(h) ==
  \E f \in Fns :
    LET i == Dispatch(code[f].items, h)
    IN i # 0 /\ code[f].items[i].text = "nested"
ChangesPktCovers ==
  Parsed => \A f \in Fns, h \in Helpers :
    Returned(f, h) # None /\ FuncOf[Returned(f, h)] \in Changing =>
      h \in ChangesPkt \/ NestedSomewhere(h)
=============================================================================
