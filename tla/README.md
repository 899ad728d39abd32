# koit in TLA+

koit is a language for BPF programs: a checker that accepts a program only when
every resource is released, every fallible operation is handled and every demand
is entailed; evaluators for the core language and its lower levels that all act
on one shared machine; a compiler through two intermediate languages to bytecode;
a loader, a writer of object files for libbpf, and a transcriber of the kernel's tables, in
Python; and an editor extension. This directory models the part of it where
order matters: the machine, the checker and evaluator of the core language over it, the
facts the checker reasons with and the abstract integers under them, the two ways of a
compiled unit into the kernel, the transcriber's computed tables, and the extension's
checking loop. TLC checks the models on small instances, and TLAPS proves for every value of
the constants the machine's invariants, that no accepted program of the core language makes the machine
refuse anything (but for the two kinds of program the findings name), and everything the runs
check of the loader, of the transcriber, of the extension's safety and of the abstract integers,
whatever their widths.

    tlc -workers 2 -config MCMachine.cfg MCMachine        # one run
    tlapm MachineProofs.tla                               # one module's proofs

## 1. The system

| component | state | operations | talks to |
| --- | --- | --- | --- |
| **Machine** (`Koit/Machine`) | held stack, kernel objects, ring, maps' entries, packet and its layout token, trace | enter/leave, lock/unlock, reserve/submit/discard, kernel calls, resize, map lookup/update/delete, view, access | called by every evaluator |
| **Checker** (`Koit/Check`, `Koit/Effects`) | one context per point of a program: names, held set, facts (moved names, dead views) | one rule per statement | uses Facts, Interface; gates the evaluators and the compiler |
| **Core evaluator** (`Koit/Core`) | locals, and the statements still to run | one step per statement form, releases at every exit, the handlers | runs an accepted program on the Machine |
| **Facts** (`Koit/Facts`) | a set of predicates on one path, abstract integers built from it | assume, kill, record, meet, entails | asked by the Checker at every demand |
| **Lowering, LIR, inlining** (`Koit/Compile/Lower`, `Inline`, `Koit/LIR`) | the release context, the moved names, fresh names | Core to LIR; functions into callers | LIR's evaluator acts on the Machine |
| **Flattening, allocation, encoding** (`Flatten`, `Alloc`, `Encode`, `Koit/BPF`) | labels, the register pool, frame objects, slots | LIR to BIR to bytecode to words | BPF's evaluator acts on the Machine |
| **Interface** (`Koit/Interface`) | tables per kernel version | joins by name | read by all of the above |
| **Loader** (`tools/load.py`, `koitobj.py`) | the descriptors of maps and programs by name, the kfuncs' ids | create each map with its BTF, contents and freeze; load each program; fill the program arrays; run each program once; read every map back and report | reads the document `koitc emit --json` wrote; the kernel, by system calls that may each fail |
| **ELF writer** (`tools/elf.py`, `koitobj.py`) | sections, symbols, BTF types under construction | kfuncs, `.maps`, global data, the programs' sections with relocations, function information; `build` | reads the same document; libbpf reads its file |
| **Transcriber** (`tools/transcribe`) | the tables of one kernel version | reads the kernel's sources, writes a Lean file | Interface uses what it wrote |
| **Editor extension** (`editor/vscode`) | documents, re-check timers, snapshot files, processes in flight, diagnostics, status bar, interface cache | the editor's events, results of `koitc` | starts `koitc` processes |

What is hard here is not concurrency inside the compiler, which is sequential, but

* **long legal call sequences**: resources nest, may be handed away by `move`, and must
  be released on every path out of a scope. The rule that decides (checker) and the
  rule that acts (machine) are different code with different state;
* **stale names**: places outlive the map entries they were looked up at, views the
  packet layout they were carved from, casts the socket they derive from;
* **joins and loops**: the checker sees a loop's body once and a branch's two sides
  separately, the evaluator sees one path at a time;
* **bounds**: the ring's room, a map's capacity, the tail-call limit, loop counts,
  512 bytes of frame, 16-bit jumps, fixed-width arithmetic;
* **two ways to one kernel**: the loader patches descriptors and offsets into the words, the
  ELF writer leaves relocations, symbols and types from which libbpf is to make the same;
* **failure half-way**: any of the loader's calls may fail with maps and programs made;
* **offsets counted by hand**: struct layouts, section contents, BTF records that follow one
  another with nothing between them, the same bytes counted in two loops;
* **overlap in the editor**: timers, processes that read a shared snapshot file after
  they were started, and results that arrive in any order.

`PROJECT.json` lists the hazards of the modelled parts at their lines under `hazards`, with the
properties that cover them. Those of the parts not modelled are here:

* Lower.lean:210: an operand that reads memory must be read before the statements a later
  operand needs; Lower.lean:671: every exit must release exactly what is held up to the construct
  it leaves, minus what was moved on its path.
* Inline.lean:208: global functions are inlined from the functions as they were lowered, so a
  plain function two calls away may be left as a call; Inline.lean:115: the depth of the branch a
  return becomes counts constructs on both sides of the call.
* Flatten.lean:103: a freed register is given out again while its class remembers every use it
  had; Alloc.lean:282: objects and spill slots share 512 bytes of frame.
* Ops.lean:60: outstanding reservations are not counted against the ring; Ops.lean:103: the limit
  on tail calls is kept twice, by the operation's count and by the driver's hops.

### What makes each component correct

* *Machine*: a reference is taken once and discharged at most once; nothing is held
  twice; a record reaches the ring at most once; no call inside a critical section; a
  place never comes to name another key's entry; a usable view lies in the packet.
* *Checker and evaluator*: an accepted program never makes the machine refuse an
  operation, and halts with a verdict (the source's theorem T1); the held stack mirrors
  the open scopes; a cast's socket stays held; a tail call is taken with nothing held.
* *Facts*: an abstract value covers every concrete one; a fact is true of every run that
  gets to where the checker holds it; what the procedure says is entailed is true wherever
  the facts are (the source's theorem `entails_sound`).
* *Lowering, inlining, flattening, allocation*: the lower program makes the same machine
  calls and reaches the same verdict.
* *Loader*: maps, programs, array entries and runs come in that order, each once, through any
  failure; every reference in a loaded program names the object the document says; a read-only
  map has the document's contents for good; the report says what the programs left.
* *ELF writer*: what libbpf makes of the file is what the loader makes of the document; a reader
  finds in the file what was put in.
* *Transcriber*: a struct is laid out as C lays it out; a helper is available to a program type
  exactly when the verifier says so; a helper that changes the packet is listed.
* *Editor*: the newest text is always on its way to being checked; a result is about its
  own document.

## 2. The modules

| module | models | kind |
| --- | --- | --- |
| `Ownership.tla` | what the resource protocol promises of owned references | abstract specification |
| `Machine.tla` | `Koit/Machine/{State,Ops,Maps,Kernel}.lean` | component |
| `MachineProofs.tla` | theorems about `Machine`: the held stack, ownership, regions, the trace, the ring, the entries | proofs |
| `Check.tla` | the statement rules of `Koit/Check/{Stmt,Expr,Decl,Env}.lean` | pure algorithm |
| `CheckProofs.tla` | lemmas about `Check`: its recursions have solutions, and what a block does to the facts | proofs |
| `Core.tla` | `Koit/Core/{State,Interp}.lean` over `Machine`, gated by `Check` | composition |
| `CoreInv.tla` | the inductive invariant of `Core` | definitions for the proofs |
| `CoreProofs.tla` | theorems about `Core`: no accepted plain program is refused, what is held mirrors what is open | proofs |
| `Domain.tla` | `Koit/Facts/Domain.lean`, and the arithmetic of `Koit/Machine/Bytes.lean` | pure algorithm |
| `DomainProofs.tla` | theorems about `Domain`: every operation on abstract integers is sound, for every width | proofs |
| `Binary.tla` | powers of two | pure algorithm |
| `Arithmetic.tla` | lemmas: division and remainder, powers of two, least elements, induction by sets | proofs |
| `Facts.tla` | `Koit/Facts/{Facts,Entail}.lean` and the statement rules that use them, beside the memories of the runs | component |
| `Editor.tla` | the checking side of `editor/vscode/src/extension.js` | component |
| `EditorProofs.tla` | theorems about `Editor` | proofs |
| `Rollout.tla` | the order in which the loader promises to put a unit in place | abstract specification |
| `KoitObj.tla` | `tools/koitobj.py`: patching, kfunc ids, verdicts, the report | pure algorithm |
| `Loader.tla` | `tools/load.py` over a kernel of objects and descriptors (external) | component |
| `LoaderProofs.tla` | theorems about `Loader`: its types, that it implements `Rollout`, what the maps hold and the loaded programs name, the verdicts and the report it prints | proofs |
| `Btf.tla` | `tools/koitobj.py`: types, the BTF encoder and `read_btf` | pure algorithm |
| `ElfFile.tla` | `tools/elf.py` | component |
| `Deliver.tla` | `Loader` and `ElfFile` on one document, with libbpf's reading of the file (external) | composition |
| `Layout.tla` | `layout_struct` of `tools/transcribe/transcribe.py`, beside C's own layout of the same lines (external) | component |
| `ProtoFns.tla` | `parse_proto_fns` and `parse_changes_pkt` there, and `Side.protoFor` of `Koit/Interface/Kernel.lean`, beside the C the kernel runs | component |
| `Transcribe.tla` | the two tables side by side | composition |
| `TranscribeProofs.tla` | theorems about `Transcribe`: where the tool reads bit-fields and unions as C does, offsets and size are C's; the function tables are the verifier's | proofs |
| `MCMachine.tla`, `MCCore.tla`, `MCDomain.tla`, `MCFacts.tla`, `MCEditor.tla`, `MCDeliver.tla`, `MCTranscribe.tla` | constants, program families, initial states | model checking |

### Machine

One variable per field of `State` (State.lean 128-148): `held`, `kernelObjs` with `nextId`,
`ring`, `trace`, `entries` with `nextEntry`, `packet` with `layout`; `places` and `views` are
the locations a program may still name. One action per operation of Ops.lean, Maps.lean and
the synthetic kernel of Kernel.lean. An operation the code refuses with an error is modelled
too: it sets `status` to `"error"` (`Fail`), and every other action requires `Running`, as the
error monad does. Regions keep their sizes and identities, not their bytes. Entry numbers and
object numbers are the code's own counters: they are never reused, and that is what the
properties about stale names rest on.

### Check and Core

A program is a record with a body and a handler; a statement a record whose `op` names its
form. `Check.tla` is a function from programs to accepted or not, with the context of
`Env.lean` and the facts of `Facts.lean` cut down to what control needs: names in scope, held
resources, moved names, dead views, derived names, and whether the point is reached. The source's
rules recur on the blocks inside a statement; here they are functions over the blocks of each
nesting (`Blocks[n]`), each given the rules of the nesting below (`rules`), so that they can be
reasoned about; `MaxNesting` bounds how deep a program nests. `Core.tla`
executes a program one small step at a time. Its control stack `ctl` holds what the recursion
of Interp.lean holds on the host's stack (a block with the statement to run next, a loop with
the count left, a `try` or a `hold` with its bound name and what it got), `out` is the outcome
being propagated, and every operation of the program is one action of `Machine` with the
checker's verdict on the whole program as the gate (`CheckUnit`). Conditions, values, stores
and functions of the unit are not modelled: a condition is a free choice, so every path of a
program is a behavior.

### Domain and Facts

`Domain.tla` has one operator per function of Domain.lean. An abstract integer is the source's
record (signedness, width, interval, known bits and their values); a bit pattern is the set of
the positions of its ones, so the source's masks are set operations. `Concrete` is what an
abstract integer stands for, `Arith` and `Compare` what the evaluators compute. `MCDomain` is a
machine whose steps are the ways the checker gets one abstract value from others, so that every
value the properties are asked about is one that the code can build.

`Facts.tla` is the checker walking a program: `facts` is the source's `Facts` record (its list
of predicates, its aliases, `bottom`), and each statement changes it by the function of
Stmt.lean that does, `record`, `assume`, `meet`, `loopHead` and the rest. Beside it, `reach` is
the set of memories that the runs of the same statements can have at that point (a collecting
semantics), and `frames` the open blocks. Another party writes the places off the stack between
any two statements. The checker walks a loop's body once; the model's runs go round it, each
turn from the head's facts, and leave it after any turn. Places are scalar locals, fields of
struct locals that references name too, and shared places; the demands, terms and verdicts the
checker asks about are constants, since any statement may ask them. A cast of a signed value
extends its sign, as in the evaluators and the domain; `evalVal` of Facts.lean, which only the
statement of the theorem uses, extends it with zeros.

### Editor

The extension host has one thread, so a handler runs to its first `await` in one step. `Check`
writes the snapshot file and starts a process; `Read` is the process reading that file, some
time later; `ReportCheck` is the continuation. A document's text is the number of changes to
it; `due` is a history variable, the documents owed an answer about their present text and
kernel. Documents of other languages, hovers and completions are left out, and a process whose
result goes to a pane (`Emit`) matters for the snapshot it writes. The write of a snapshot
(extension.js:75: the file is emptied, then written) is one step, so no process of the model
reads a file half written.

### Loader, ElfFile and Deliver

A document is a record, as `koitc emit --json` writes it: types, maps, programs with their words
and relocations, functions. An instruction word is an operation, a source and an immediate.

`Loader.tla` has one action per system call of load.py, with what the tool does until the next;
`pc`, `i` and `j` are its place in the loops of `main` and `create_map`. Every call may fail, and
then the tool exits and leaves what it made behind (`Fails`, `Exit`). The kernel's half is external: its
objects in the order they were made, the descriptors of the process (the lowest free one is given
out, so a number closed is given out again), the program arrays' entries, and what a run may do
to the maps a program may write: change an entry, insert or delete a key, submit or discard a
record. `Resolved` is what the verifier makes of a patched word. A map's descriptor, its BTF's and
every program's are kept as the tool keeps them; only a program's is closed, after its run.
The verifier's logs are taken to be asked for (`--log-dir`), which changes nothing else.

`ElfFile.tla` has one action per turn of each loop of `write`, in its order, and `Build`. A section's data is the
bytes of its variables, its words, or its relocations; a name stands for its offset in a table
of strings; flags and links are left out. `Btf.tla` is the encoder: types in order from id 1, and
the memo that keeps a named type from being added twice. `Blob` and `ReadBtf` are the byte string
with the boundaries between types lost, as in the file, and its reading back.

`Deliver.tla` writes the file and then loads the same document. At the moment before the first
run `LoadersAgree` compares, instruction by instruction and slot by slot, what libbpf would link
(the symbol of each relocation, the place in `.maps` that BTF gives to a map, the addend of a data
reference) with what the loader's kernel holds. It says that every slot names its program in both,
and that the file relocates it against that program's own symbol except in exactly one case: a
program behind it is the first to call a kfunc of its name (`KfuncStandsIn`, and section 4).

### Layout and ProtoFns

`Layout.tla` reads a struct line by line; a line is its form, base size, count and bits, which is
all that `layout_member`'s patterns keep. Each line is taken twice: by the tool, in bytes, and by
C (`CMember`, `CUnionEnd`, `CSize`), in bits and by a rule of its own: each member goes to the first
bit from the free one on that suits it (`Suits`), a bit-field within one unit of its type and next to
the bits before it, and a union's size is a multiple of its alignment. `asRead` says whether, so far,
C has put every bit-field at the next free byte and ended every union where its largest member ends,
which is how the tool reads them; until it fails, `LaidOutAsC` and `SizeAsC` say, the layouts are the
same. The forms at which it fails are in section 4: there the tool does not follow C. A union
inside a union is not written: the code takes its end for the outer one's, and no context struct has
one.

`ProtoFns.tla` builds the C of get_func_proto functions and its reading at the same time: each
action is one label, adds its text to `code` and does what `parse_proto_fns` does with it.
`Returned` is what the verifier gets by running the C. A getter of no argument is a proto by
another name.

## 3. The runs

| run | what it shows | bounds |
| --- | --- | --- |
| `machine` | `TypeOK`, `HeldOnce`, `ReferencesBalance`, `RecordsOnce`, `PlacesKeepTheirKey`, `EntriesDistinct`, `ViewsInPacket`, `NoCallInCriticalSection`, and that the machine implements `Ownership` | 3 objects, held stack of 3, trace of 3, ring of 2 bytes, records of 1 and 2; 2 keys, capacity 2, 3 entries in all, 2 resizes, packets up to 2 |
| `core` | `NeverRefused`, `LexicalHolds`, `CastsGuarded`, `TailHoldsNothing`, `Halts` | four families of programs up to 4 or 5 statements, loops of at most 2 iterations |
| `core_order` | **violation**: moving a name that is not the innermost | up to 3 statements |
| `core_shadow` | **violation**: an inner binder of the same name | up to 4 statements |
| `domain` | `Consistent`, `ArithSound`, `CastSound`, `CmpSound`, `NarrowKeeps`, `JoinKeeps` | values of 3 bits, signed and unsigned, casts to 1 to 4 bits |
| `facts` | `FactsHold`, `EntailsSound`, `AnswersSound` | programs of 3 statements over 2-bit places, blocks nested once in the body, loops of 2 turns |
| `facts_mask` | **violation**: a mask that is a variable | 2 statements |
| `facts_alias` | **violation**: a loop that writes its counter's addend through a reference | 4 statements |
| `editor` | `ReadsItsOwn`, `OwedIsUnderWay`, `QuietIsChecked` | 2 documents, 2 kernels, 3 events of the user |
| `transcribe` | `LaidOutAsC`, `SizeAsC`, `ReadFormsAsVerifier`, `ChangesPktCovers` | structs of 5 members of 7 forms (C lays out what the tool reads otherwise too), 2 functions with 4 labels in all, 2 helpers, 3 protos |
| `switch` | **violation**: control the parser does not follow | those of `transcribe` |
| `deliver` | `TypeOK`, `ContentsFinal`, `RefsResolve`, `VerdictsNamed`, `ReportExact`, `LoadersAgree`, `FuncInfoAtFunctions`, `FileReadable`, and that the loader implements `Rollout` | 11 documents of up to 6 maps and 5 programs, bytes 0 and 1, values of up to 4 entries |

**Why the bounds are enough.** *machine*: every property relates at most two entries of the
held stack, two objects and two events of the trace; three of each leave one between, under or
after the pair. Two keys and three entry numbers are the least with which a deleted
entry's number could be taken by another key; two resizes the least with which a token could
come back. The held stack, objects, ring and trace meet the entries, places, packet and views
only at locks and resizing calls, so the constraint `Explored` explores each half deep while the
other is shallow (at most one entry and no resize; at most a lock held): a constraint is enough
there because no property of the run is about what must happen. The keys are interchangeable
(`MCSymmetry`). What the two halves do to each other beyond that the theorems say, for every
value of the constants. *core*: a family is a set of statement forms. Forms that never interact in the rules
are in different families (a lock never meets a cast), and the four families overlap in the
forms that do (`hold`, `move`, loops). Each violation below needs at most four statements, and
the families reach as far; a loop is unrolled twice, so its back edge is taken and its second
iteration left. The programs of a family are not enumerated: `MCCore` writes them statement by
statement, so that every program is the start of some behavior. `MaxObjects`, `MaxTrace`,
`MaxHeld`, `MaxLayout` and `MaxNesting` are set above what such programs reach. *domain*: the transfer
functions treat every bit alike but the lowest, the highest and the sign, and three bits have
one more; the four-bit casts extend and the one- and two-bit ones truncate, to and from both
signednesses. Every state is checked against every operator and every pair of concrete values.
*facts*: three statements are a condition, a store and a join, or a store, a loop and what is
left of it; two-bit places make every overflow reachable in two increments, and two turns
are a first and a next one. The masks of the passing run are literals and its loop bodies write
no place through a reference: the two violations lift one restriction each. *editor*: the initial check
plus three events give up to four overlapping checks of two documents, which suffices for an
edit during a check during a change of settings. *transcribe*: a layout depends on the widest
alignment so far, the first free byte and one member; five members give two before a union of two
and one behind; its forms include bit-fields of 3 bits, which share a byte in C, and of 24, which
move, so both ways in which `asRead` can hold or fail come about. Two functions of four labels give a label waiting, one that shares its text, one
that denies and a default; the call of one function by another is a chain of two, and `ProtoFor`
and `Returned` treat every link alike. *deliver*: the documents are not enumerated, they are
chosen so that each refusal of either tool happens in one of them, and with them each thing a
property tells apart: a map whose program has its name, two programs in a section and a third in
another between them, functions in the second program of a section, all three data sections with
sizes that are no multiple of eight, a lock inside a nested struct, contents shorter than the map,
a kfunc whose name a struct has too, a program in a slot with the name of a kfunc that the program
in front of it calls, and one with the name of a kfunc that only the program behind it calls. Every
call of the loader may fail in every one of them, and every run may change
any one map it may write.

`core` asks the programs to move innermost names only (`LastMoves`) and not to shadow a name
(`Shadowing = FALSE`): the two restrictions are exactly the two findings, and each violation
run lifts one of them. The fact that `core` passes says that these are the only ways the
families get an accepted program refused; `AcceptedRunsAreNeverRefused` says it of all programs (5).

**Fairness.** `Core`: weak fairness of the evaluator's step. The evaluator is a terminating
function: nothing interrupts it and it is never waiting. Loops carry a count, and the model
chooses it below `MaxIters`. No fairness is asked of the checker's step or of the choices.
`Editor`: weak fairness of each timer and of the processes in flight (a started process ends and
its callback runs); nothing is asked of the user. `Machine`, `Loader`, `ElfFile` and `Transcribe`
have none: their properties are about what may not happen, a system call may fail for ever,
and that the tools' loops over finite lists end is plain.

Deadlock is checked in `core`, where only a finished program may stop, as an explicit
stuttering action. It is not in `machine`, where the bounds stop the model, in `editor`, where the user may
stop, in `domain`, `facts` and `transcribe`, where a walk or a source may end anywhere, or in
`deliver`, where both tools end.

## 4. Findings

* **core_order** (code): `hold sk = sk_lookup_tcp(t)? { hold rcu { sk_release(move sk) } }` is
  accepted; the release is refused by the machine, which pops only its innermost entry.
* **core_shadow** (code): what the checker knows of a name is dropped by name at the end of the
  scope of an inner binder, so an outer name moved before may be used again.
* **facts_mask** (code): a mask that is not a literal is read as if it had its least value, so
  from `m >= 1` and `(x & m) == 0` the procedure accepts `(x & 1) == 0`, which `m = 2`, `x = 1`
  refutes.
* **facts_alias** (code): a loop's bound on a counter asks that its body not change the addend,
  by the names the program writes: an assignment through a reference goes unseen and the bound
  is exceeded in the second turn.
* **switch** (code): `parse_proto_fns` reads the labels of a switch and nothing else, so a helper
  that a function asks of another before or behind its switch is missing for the program type
  (`cgroup_common_func_proto` and `cgroup_current_func_proto`, V6_8.lean:524 and 526, are named by
  no fallback; `bpf_nf_func_proto`, line 512, has neither cases nor fallback), and one that a case
  denies is found by the fallback. Kernel.lean:43-44 says that availability is read the way the
  verifier reads it. `ReadFormsAsVerifier` in `transcribe` says that these forms are all that
  differs.

Met while modelling, and not among the violation runs:

* an unnamed bit-field takes whole bytes from the next free one on (transcribe.py:368-372). C packs
  it behind the bits before it, and moves it when it would leave its unit: two of 3 bits share a
  byte, and `__u32 :24` at byte 2 goes to byte 4. The docstring at 377 says the struct is laid out
  by C's rules;
* an anonymous union ends where its largest member ends (395-400), and C makes its size a multiple
  of its alignment first: behind `union { __u16 a[3]; __u32 b; }` a `__u8` is at byte 8, not 6. Of
  the union 379-380 say what the code does, and 377 still claims C's rules. No struct of V6_8.lean
  has such a bit-field or such a union: its offsets are C's. `LaidOutAsC` and `SizeAsC` say that
  these two are all that differs, and `transcribe` lays such structs out too;
* elf.py:316-318 takes the last symbol of a name for the program's, and a kfunc's undefined symbol
  comes behind the symbols of the programs before its first call. The slot of a program named
  `bpf_rcu_read_lock` is then relocated against the kfunc, which libbpf cannot put in the slot,
  when a program behind it opens an RCU section: `hold rcu` calls that kfunc (KoitSide.lean:449,
  Encode.lean:183), and nothing keeps a program from the name (Decl.lean:571-583). 313-314 say the
  entries are relocated against the programs' symbols. One of the documents of `deliver` is of this
  kind, and the last conjunct of `LoadersAgree` says that it is the only kind;
* the checker lets the body of a kind without verdicts fall off its end, and KoitSide.lean:313-315
  says a stream parser's may, but Interp.lean:609 refuses it for every kind with a packet;
* after a loop's body the moves are compared with the enclosing loop's head (Stmt.lean:1200), so a
  loop that moves nothing is refused wherever a name was moved before it;
* reservations that are outstanding are not counted against the ring (Ops.lean:60), and a `try`
  keeps the facts of an outer name it shadows (Stmt.lean:552);
* elf.py says at its head (14-15) that there is no `.BTF.ext`, which 355-361 write, and (29-31)
  that a kfunc relocation is refused, which 287-297 carry out;
* load.py:12-13 says it prints what `koitc run` prints; a program array's entries are numbers in the
  one and names in the other, and the compiler's own data maps are in the one only
  (Interp.lean:742-748);
* the editor's status bar may name a kernel the shown answer is not about.

## 5. The proofs

`MachineProofs.tla` proves, for every value of the constants that
satisfies `MachineAssumption`, every property the machine's run checks:

| theorem | property |
| --- | --- |
| `TypeCorrect` | `TypeOK` |
| `HeldOnceHolds` | `HeldOnce` |
| `MachineOwns` | `OwnershipSpec`: the machine implements `Ownership` |
| `ViewsStayInPacket` | `ViewsInPacket` |
| `PlacesNeverRetargeted` | `PlacesKeepTheirKey` |
| `CriticalSectionsMakeNoCall` | `NoCallInCriticalSection` |
| `EntriesStayDistinct` | `EntriesDistinct` |
| `RecordsSubmittedOnce` | `RecordsOnce` |
| `ReferencesStayBalanced` | `ReferencesBalance` |

`TypeOK` includes that the objects are numbered `0 .. nextId - 1` without a gap, which is what
makes a fresh object different from every held one. `HeldInv`, the inductive invariant of
`HeldOnce`, is `TypeOK` with `HeldOnce`: pushing an entry keeps it because the entry's object is
fresh or its resource may nest, popping keeps it because a sub-stack of a duplicate-free stack
has no duplicates. The refinement proof maps `owned` to the objects on the held stack and
`discharged` to the other records and sockets handed out: a push of a fresh object is `Take`, a
pop `Discharge`, everything else a stutter. Most actions touch `held` and `kernelObjs` in one of
a few ways; `ProtocolShapes` and `RegionShapes` sort the actions into those ways once, and the
invariance proofs go by shape. `StepCases` lists the actions of `Next`.

`RecordsOnce` and `ReferencesBalance` are inductive beside `HeldInv`: submitting a record pops the
one entry that holds it, and the release of a socket pops the one entry that holds that socket,
so what enters the ring or the trace's releases is held no more and was held until then.
`ReferencesBalance` needs one strengthening, that what was acquired is numbered below `nextId`,
so that a fresh socket is new to the trace. `EntriesDistinct` needs the set of entries finite,
and rests on the invariant of `PlacesNeverRetargeted`. `NoCallInCriticalSection` needs no
invariant but the types: a held lock makes `ForbidsCall` true with every resource a call may
release.

`CheckProofs.tla` and `CoreProofs.tla` prove, for any bounds and any nesting, of every program of
`PlainPrograms` whatever its length:

| theorem | property |
| --- | --- |
| `AcceptedRunsAreNeverRefused` | `NeverRefused`: the safety half of the source's theorem T1 |
| `HoldsAreLexical` | `LexicalHolds` |
| `CastsAreGuarded` | `CastsGuarded` |
| `TailCallsHoldNothing` | `TailHoldsNothing` |

The source states T1 of every well-typed program; it is false of some, and `PlainPrograms` asks for
no more than that a program is none of those known: no binder takes a name in scope (without
that, `core_shadow`), a `move` takes the name of the innermost hold around it (without that,
`core_order`), and a kind with a packet has verdicts (without that, the stream parser's divergence under 4). The
programs of the run `core` are among them, and nothing else is asked: the hypothesis is of the
program's text, `Plain`, and the checker's acceptance is not assumed but the gate the model has.

The invariant `IInv` (`CoreInv.tla`) is about the recursion that both sides share. The evaluator's
recursion is the control stack `ctl`; the checker has been through the same blocks, with a context
and facts of its own at each. So each frame of `ctl` has a *typing* (`Typings`): the nesting `n`, the
context `K`, the facts `G` in which the rest of the frame's block was checked and found in order
(`Checked`), `live`, the views that no resizing call in an enclosing loop's body may kill, and
`own`, the hold frames around it. `Link` relates a frame's typing and the next one's, by the
frame's form: a block's facts at its end are covered by those the checker went on with behind it
(`Covers`: a path that gets there has moved no name and killed no view the checker goes on to
allow); a loop's body ends in
facts covered by its head's, from which it starts again; a `try` adds a name and forgets
it; a `hold` adds a name and an owner. `Fits` says that the store and the machine fit the innermost
typing and the outcome under way: every local has the value its type asks for, a name not known
as moved is not, a view not known as dead was carved under the present layout (`StoreOk`); a cast
has its socket below it, with a name between that keeps it from being moved (`Guarded`); what is held
is what the `own` frames took less the sockets released (`HeldBy`). An outcome on its way up keeps less:
`break` and `continue` what holds at the loop's head, `return` and `raise` the types alone (`MovedBy`,
`LiveBy`). `Bottom` is the program's own end: only a kind without verdicts falls off it.

`StepKeeps` has one lemma per action. A pushed frame's typing is the one the checker's rule for
that statement used; a popped frame's link gives the fit of the next typing from that of its
own. Where the two sides would part is where a rule earns its place: the end of a `hold`
whose socket was handed away releases nothing, since the name is `moved` in the store exactly if its
object is in `Released` (`OwnedOk`); the owner's object is the innermost held because a plain move
names the innermost owner (`Innermost`); a loop's second iteration finds its views as the first did
because a body that resizes has them dead at the head (`LoopHead`). Under all of this is
`AllFollow` of `CheckProofs.tla`: checking a block forgets no move, kills only views in scope, and
none if nothing in it resizes, and knows that a block that exits has ended; by induction on the
nesting, and on the length of the block inside it. The invariant was first checked by TLC on all the programs of the run
`core`, the typings carried along in a history variable.

`DomainProofs.tla` proves, from `WidthsAssumption` alone (a width is a positive number), everything
the domain's run checks:

| theorem | property |
| --- | --- |
| `DomainConsistent` | `Consistent` |
| `OperatorsSound` | `ArithSound` |
| `CastsSound` | `CastSound` |
| `NarrowingSound` | `NarrowKeeps` |
| `ComparisonsSound` | `CmpSound` |
| `JoinsCover` | `JoinKeeps` |

The invariant, `IInv`, is that the two integers are `Sound` (their interval is within the type,
and they give values only to bits they mark as known), of one type, and not empty. Everything that
makes an abstract integer is then a lemma of one of two forms: `Covers`, that a refinement of an
integer keeps its values (`ReduceCovers`: the bits tighten the interval, then the interval the
bits), and `Allows`, that a result is sound, of its type, and allows some value (`BetweenAllows`,
`WithBitsAllows`, `MeetAllows`); the ten operators, the casts and the narrowing are built from
those. Under them is the arithmetic of patterns: `NumberOfBits` and `BitsOfNumber` make `Number` and
`ToBits` inverse modulo `2^w` (the prover knows nothing of exponents but that a set of `n` elements
has `2^n` subsets, from which `Pow2Facts` has the rest); `BitIs` reads one bit off a remainder. A
carry into a bit is known when it is the same in the sum of the least patterns and in the sum of
the greatest, since the carry of any two values lies between (`SumBit`, `AddAllows`, and the borrow in `DiffBit`,
`SubAllows`). A cast to fewer bits keeps an interval when its ends lie in one window of the
target (`TruncateAllows`), one to more bits fills with the sign bit, known or not
(`ExtendAllows`). A product's low zeros add up (`LowBitsZero`), a remainder by a power of two is
a mask (`RemainderBits`), values of one sign are in the order of their patterns (`PatternOrder`),
which is why the leading bits that the ends of an interval share are shared by all between.

`EditorProofs.tla` proves the two safety properties of `Editor` for any number of documents,
kernels and events (`ResultsAreOwn`: `ReadsItsOwn`; `OwedStaysUnderWay`: `OwedIsUnderWay`), from
`EditorAssumption`. `ReadsItsOwn` is inductive beside `SnapshotsInOrder`: the snapshot of each
document holds that document, at most its present content, and at least the content any process
that has yet to read it was asked about; this is where one file per document is used.
`OwedIsUnderWay` is inductive with the types alone: every handler that makes a document owed
starts a process for it or sets its timer, a timer that goes off starts one, and a result that
removes a process from the bag of those in flight removes from `due` what that process answered.

`LoaderProofs.tla` proves, from `LoaderAssumption` alone (descriptors are numbers, and names are
distinct in a document, which the front end checks), that the loader's dictionaries name live
maps of their names (`Types`: `TypeOK`) and that the loader implements `Rollout` (`InOrder`:
`RolloutSpec`), whatever documents, kernels and failures. The refinement maps `made` to the names
with a map descriptor, `loaded` to those with a program's, `linked` to the entries by name, `ran`
to the runs so far. Neither is inductive alone; the invariant `Inv` says what `i` and `j` mean in
each phase: in `maps` the maps before the `i`-th are made and no other (`Cursor`), in `programs`
the programs likewise (`ProgramsCursor`), in `slots` the entries before the `j`-th of the `i`-th
array (`LinksCursor`), in `run` the programs before the `i`-th have run and those from it on still
have their descriptors (`RunsCursor`); and every descriptor kept by name is that of an object of
that kind and name (`ObjectsNamed`). Distinct names make `i` a count of names. Each action is then
one step of `Rollout` or a stutter, and `ProgramsDone` is where `loaded = plan.programs` is due.

It proves `ContentsStay` (`ContentsFinal`) beside that invariant, from
`ContentsAssumption` too (a map's entries and value size are numbers, its contents a sequence).
While a map is being filled, the entries before `j` are the document's and the others zero
(`FilledSoFar`); when no entry is left the document has no byte for those others (`AllFilled`:
`e * valueSize` is at least the length of the data for every later `e`). Filling and freezing
change the object of the map in the making, which is none of the maps already made, since names
are distinct and objects carry them; a run changes one map that is not read-only, and reading
back one ring.

`RefsStand` (`RefsResolve`) adds `RelocsAssumption`, which is what encodeInstr writes: a relocation
at every map reference and every kfunc call, at most one to an instruction, its target a map of the
document or a function the unit names. Patching is a fold over a program's relocations. `PatchAll`
describes its result word by word (`PatchedTo`): every relocation has patched its own word, and a
word that no relocation names keeps its source; so the order of the relocations does not matter, and
what the verifier resolves is at the relocations and nowhere else. The descriptors patched in are
the tool's, which name live maps (`Inv`), and the kfuncs' ids the ones of the running kernel
(`KfuncsFound`); `RefsInv` then says of every program object what its document says (`RefsOf`),
and no later call changes a program object or a map's name.

The third part proves `VerdictsStand` (`VerdictsNamed`) from `VerdictsAssumption` (a
result has at least one bit, the values an interface names are results, a register's value is one
of its width): of the values congruent to the register there is one in the result's range, and that
is what the tool compares. `ReportStands` (`ReportExact`) adds that only arrays have contents in a
document, as koitc writes it (`ContentsAssumption`), and that keys are ordered as numbers are
(`DataAssumption`). Its invariant, `ReportInv`, has six parts: `ContentsInv`; `Printed`, a line for
each run; `Kept`, that what the kernel keeps of each map is of its kind (an array with all its
entries, a hash with finitely many keys, a ring that is a chain of records from its start to its
producer's position) and that no ring is consumed before it is reported; `MakingSound`, the same of
the map in the making; `OutCursor`, that `out` has one line for each run and each map passed;
`Lines`, that each line is exact of what its map holds. Rings are why: a reading follows the
records by their lengths, and that it meets the submitted ones, in order, and ends at the
producer's position is `RingReads`, by induction over the chain; a run appends a record to it. The
pairs of a hash come in the order of its keys whatever order the kernel gives them in, because the
tool sorts them.

`TranscribeProofs.tla` proves from `LayoutAssumption` alone (a line's base type is 1, 2, 4 or 8
bytes, its counts are numbers, a bit-field is no wider than its type) that a struct of any lines,
however many, is laid out as C lays it out (`OffsetsAsC`: `LaidOutAsC`) and has C's size (`TotalAsC`:
`SizeAsC`), as long as `asRead` holds: C gives each bit-field the next free byte and each union no
padding at its end. Both layouts are computed, each by its own rule, and nothing of the tool's is used
in C's. They are theorems of `LayoutSpec`, the part of `Transcribe` the other part leaves unchanged.
The invariant adds to the two properties what the next member needs: the tool's first free byte is
the one behind C's last bit and the alignments are equal (`OffAsC`), and the open union's lines have
been measured (`UnionAsC`). C's first multiple of an alignment, a least number in a set of bits, is the
tool's rounding (`MultipleFacts`, by cases of the alignment, `RoundUpFacts`); that a bit-field has a
place at all is `UnitSuits`; and the code's `max` is defined because some numbers have a largest
(`LargestOfSome`, by `SetInduction`).

`FormsStand` (`ReadFormsAsVerifier`) and `ChangesListed` (`ChangesPktCovers`) are theorems of
`FnSpec`, the part of `Transcribe` that reads the functions, from `ProtoFnsAssumption` (`None` and
`"default"` are names of nothing else). `EachReads` says that a behavior of `Transcribe` is one of
`LayoutSpec` and of `FnSpec`, so that what the four theorems say holds of it. The invariant `FnInv`
relates the parser's state to the C read so far: the cases parsed are the labels that reach a proto
through the texts behind them (`CasesAre`), the labels waiting are the trailing ones that fall
through (`PendingIs`), the fallback is the function the default calls (`FallbackIs`); a body has each
label once, and a finished one does not fall off its end (`Body`, `Ends`). A helper
is then looked up along the chain of fallbacks as the C is run along its calls. `ProtoFor`,
`Returned` and `ReadForm` are recursive functions over the functions of the file, which call earlier
ones only; `AnswersExist` shows that such a recursion has a solution, and the two are equal by
induction over the chain.

Induction over data is done in two ways that the back ends take. A claim about all numbers up to a
bound is put as a set of numbers, which `SetInduction` of `Arithmetic.tla` closes; and a recursive
function of the model is shown to exist, by `SetInduction` again, before its equation is used, since
a function defined by recursion is the choice of one that satisfies it.

Only model-checked: what the file is (`Btf` is recursive over types by operators, for which the
prover has no back end), so `FuncInfoAtFunctions`, `FileReadable` and with them `LoadersAgree`;
`FactsHold`, `EntailsSound` and `AnswersSound` (`Facts` is recursive over expressions in the same
way); and liveness (`Halts`, `QuietIsChecked`), which is beyond the prover.

## 6. Not modelled, and why

The front end, the desugaring and the printers translate text and keep no state. The kernel data
is generated. Of the transcriber, the copied tables (enumerations, defines, sections, kfunc sets,
prototypes) and the Lean text written are pattern matches and formatting. Of the loader,
`--show-packet`, the text of a value (`format`), the packing of the system call's attributes and
a ring that wraps are left out; per-CPU arrays and socket maps, whose reading back is the same
lookups, have no kind of their own in the model. `Core/Semantics.lean`, `Check/Rules.lean` and
`Compile/Rules.lean` restate the evaluator and the checker as inductive relations and state
theorems about them. Values, types and refinements are abstracted in `Check` and `Core`. In
`Facts`, array elements, boolean places, the offsets of views, arithmetic between two literals
and names that shadow another are left out. The rest is in the plan.

## 7. Plan

In order of what matters most:

1. **Lowering** (`Lower`, `LIR`): the release context beside Core's control stack; property: the
   lowered program makes the source's machine calls, in its order (the refinement of `Core` by
   `LIR` under a mapping of their control stacks).
2. **Inlining** (`Inline`): the order of the functions over small call graphs, the branch depths;
   a suspected divergence: functions called from global functions two calls away.
3. **Flattening and allocation** (`Flatten`, `Alloc`): the register pool, labels to offsets, frame
   sizes; properties: no two live registers share a slot, every jump lands on its statement.
4. **Run driver** (`Driver`): tail-call hops over one machine state, and the loader's run of the
   same unit as its refinement.
5. **Functions of the unit** in `Check` and `Core`, with their effects.
6. **Proofs**: T1 of more programs, once the checker refuses those of the two findings; what a fact of `Facts` says of the runs; the function information of `ElfFile` and the agreement of the two loaders; the invariants of the flattening's pool.
