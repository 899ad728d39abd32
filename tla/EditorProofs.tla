---------------------------- MODULE EditorProofs ----------------------------
(***************************************************************************)
(* Theorems about the editor extension's checking loop, for any number of  *)
(* documents, kernels and user events.                                     *)
(***************************************************************************)
EXTENDS Editor, TLAPS

Contents == [doc : Docs, text : Nat]
Jobs     == [kind : {"check", "emit"}, doc : Docs, asked : Nat, kernel : Kernels,
             got : Contents \cup {Unread, Missing}]

-----------------------------------------------------------------------------
(* The bag of processes: which jobs a start, a read and a report leave.     *)

LEMMA BagAdded ==
  ASSUME NEW B, IsABag(B), NEW S
  PROVE  IsABag(B (+) SetToBag(S)) /\ BagToSet(B (+) SetToBag(S)) = BagToSet(B) \cup S
  BY DEF IsABag, BagToSet, SetToBag, (+)

LEMMA BagRemoved ==
  ASSUME NEW B, IsABag(B), NEW j
  PROVE  /\ IsABag(B (-) SetToBag({j}))
         /\ BagToSet(B (-) SetToBag({j})) \subseteq BagToSet(B)
         /\ BagToSet(B) \ {j} \subseteq BagToSet(B (-) SetToBag({j}))
  BY DEF IsABag, BagToSet, SetToBag, (-)

(* The snapshots and the processes after check() or a command for ds.       *)
LEMMA Started ==
  ASSUME NEW kind, NEW ds \in SUBSET Docs, NEW t, NEW k, IsABag(koitc),
         Start(kind, ds, t, k)
  PROVE  /\ IsABag(koitc')
         /\ InFlight' = InFlight \cup {Job(kind, d, t[d], k) : d \in ds}
         /\ disk' = [f \in Docs |-> IF f \in ds THEN Content(f, t[f]) ELSE disk[f]]
  <1>1. IsABag(koitc') /\ InFlight' = InFlight \cup {Job(kind, d, t[d], k) : d \in ds}
    BY BagAdded DEF Start, InFlight
  <1>2. ASSUME NEW f \in Docs
        PROVE  (IF \E d \in ds : FileOf(d) = f
                THEN LET d == CHOOSE d \in ds : FileOf(d) = f IN Content(d, t[d])
                ELSE disk[f]) = (IF f \in ds THEN Content(f, t[f]) ELSE disk[f])
    BY DEF FileOf
  <1> QED
    BY <1>1, <1>2 DEF Start

LEMMA JobTyped ==
  ASSUME NEW kind \in {"check", "emit"}, NEW d \in Docs, NEW t \in Nat, NEW k \in Kernels
  PROVE  /\ Job(kind, d, t, k) \in Jobs
         /\ Job(kind, d, t, k).kind = kind /\ Job(kind, d, t, k).doc = d
         /\ Job(kind, d, t, k).asked = t /\ Job(kind, d, t, k).kernel = k
         /\ Job(kind, d, t, k).got \in {Unread, Missing}
  BY DEF Job, Jobs

-----------------------------------------------------------------------------
(* What a step does to the processes, the snapshots and the diagnostics, in *)
(* the four shapes the first proof distinguishes.                           *)

Grown == text' \in [Docs -> Nat] /\ \A d \in Docs : text'[d] >= text[d]

NoProcess ==
  /\ UNCHANGED <<disk, koitc>> /\ Grown
  /\ \E d \in Docs : shown' \in {shown, [shown EXCEPT ![d] = None]}

Starting ==
  \E kind \in {"check", "emit"}, ds \in SUBSET Docs, k \in Kernels :
    Start(kind, ds, text', k) /\ Grown /\ UNCHANGED shown

Reading == \E j \in InFlight : Read(j)

Reporting ==
  \E j \in InFlight :
    /\ j.got # Unread
    /\ koitc' = koitc (-) SetToBag({j})
    /\ UNCHANGED <<text, disk>>
    /\ \/ UNCHANGED shown
       \/ shown' = [shown EXCEPT ![j.doc] = IF j.got = Missing THEN None ELSE j.got]

Typed ==
  /\ open \subseteq Docs /\ active \in open \cup {None} /\ text \in [Docs -> Nat]
  /\ kernel \in Kernels /\ timers \subseteq Docs /\ due \subseteq Docs
  /\ disk \in [Docs -> Contents] /\ shown \in [Docs -> Contents \cup {None}]
  /\ IsABag(koitc) /\ InFlight \subseteq Jobs

LEMMA Shapes ==
  ASSUME Typed, [Next]_vars
  PROVE  UNCHANGED <<text, disk, koitc, shown>> \/ NoProcess \/ Starting
           \/ Reading \/ Reporting
  <1>0. CASE UNCHANGED vars
    BY <1>0 DEF vars
  <1>1. ASSUME NEW d \in Docs, Open(d) \/ Save(d) \/ SwitchTo(d) \/ Emit(d) \/ Fire(d)
        PROVE  Starting
    <2>1. Grown
      BY <1>1 DEF Open, Save, SwitchTo, Emit, Fire, Grown, Typed
    <2>2. \E kind \in {"check", "emit"} : Start(kind, {d}, text', kernel)
      BY <1>1 DEF Open, Save, SwitchTo, Emit, Fire, Check
    <2>3. shown' = shown /\ {d} \in SUBSET Docs /\ kernel \in Kernels
      BY <1>1 DEF Open, Save, SwitchTo, Emit, Fire, Typed
    <2> QED
      BY <2>1, <2>2, <2>3 DEF Starting
  <1>2. ASSUME NEW d \in Docs, Edit(d) \/ Close(d)
        PROVE  NoProcess
    BY <1>2 DEF Edit, Close, Grown, NoProcess, Typed
  <1>3. CASE SwitchAway \/ Build
    BY <1>3 DEF SwitchAway, Build
  <1>4. ASSUME NEW k \in Kernels, NEW on \in BOOLEAN, Configure(k, on)
        PROVE  Starting
    <2>1. Start("check", open, text', k) /\ Grown /\ shown' = shown
      BY <1>4 DEF Configure, Check, Grown, Typed
    <2> QED
      BY <2>1 DEF Starting, Typed
  <1>5. ASSUME NEW j \in InFlight, Koitc(j)
        PROVE  Reading \/ Reporting
    BY <1>5 DEF Koitc, Reading, ReportCheck, ReportEmit, Reporting
  <1> QED
    BY <1>0, <1>1, <1>2, <1>3, <1>4, <1>5 DEF Next, User

(* A read replaces a process by itself with what it read.                   *)
LEMMA ReadLeaves ==
  ASSUME Typed, NEW j \in InFlight, Read(j)
  PROVE  LET r == [j EXCEPT !.got = disk[j.doc]]
         IN  /\ IsABag(koitc')
             /\ r \in Jobs /\ r.kind = j.kind /\ r.doc = j.doc /\ r.asked = j.asked
             /\ r.kernel = j.kernel /\ r.got = disk[j.doc]
             /\ r \in InFlight' /\ InFlight' \subseteq InFlight \cup {r}
             /\ InFlight \ {j} \subseteq InFlight'
  <1> DEFINE r == [j EXCEPT !.got = disk[j.doc]]
             b == koitc (-) SetToBag({j})
  <1>1. koitc' = b (+) SetToBag({r})
    BY DEF Read, FileOf
  <1>2. IsABag(b) /\ BagToSet(b) \subseteq InFlight /\ InFlight \ {j} \subseteq BagToSet(b)
    BY BagRemoved DEF Typed, InFlight
  <1> HIDE DEF b
  <1>3. IsABag(koitc') /\ InFlight' = BagToSet(b) \cup {r}
    BY <1>1, <1>2, BagAdded DEF InFlight
  <1>4. /\ r \in Jobs /\ r.kind = j.kind /\ r.doc = j.doc /\ r.asked = j.asked
        /\ r.kernel = j.kernel /\ r.got = disk[j.doc]
    BY DEF Typed, Jobs
  <1> QED
    BY <1>2, <1>3, <1>4

LEMMA ReportLeaves ==
  ASSUME Typed, NEW j \in InFlight, koitc' = koitc (-) SetToBag({j})
  PROVE  /\ IsABag(koitc') /\ InFlight' \subseteq InFlight
         /\ InFlight \ {j} \subseteq InFlight'
  BY BagRemoved DEF Typed, InFlight

-----------------------------------------------------------------------------
LEMMA TypedInit == Init => Typed
  <1> SUFFICES ASSUME Init PROVE Typed
    OBVIOUS
  <1>1. /\ open \subseteq Docs /\ active \in open \cup {None} /\ text \in [Docs -> Nat]
        /\ kernel \in Kernels /\ timers \subseteq Docs /\ due \subseteq Docs
        /\ disk \in [Docs -> Contents] /\ shown \in [Docs -> Contents \cup {None}]
    BY EditorAssumption DEF Init, Content, Contents
  <1>2. InFlight = {Job("check", d, 0, kernel) : d \in {active} \ {None}}
    BY DEF Init, InFlight, BagToSet, SetToBag
  <1>3. IsABag(koitc)
    BY DEF Init, IsABag, SetToBag
  <1>4. InFlight \subseteq Jobs
    BY <1>1, <1>2, JobTyped
  <1> QED
    BY <1>1, <1>3, <1>4 DEF Typed

LEMMA TypedStep == Typed /\ [Next]_vars => Typed'
  <1> SUFFICES ASSUME Typed, [Next]_vars PROVE Typed'
    OBVIOUS
  <1> DEFINE Window == /\ open \subseteq Docs /\ active \in open \cup {None}
                       /\ kernel \in Kernels /\ timers \subseteq Docs /\ due \subseteq Docs
             Checked == /\ text \in [Docs -> Nat] /\ disk \in [Docs -> Contents]
                        /\ shown \in [Docs -> Contents \cup {None}]
                        /\ IsABag(koitc) /\ InFlight \subseteq Jobs
  <1>1. Window'
    <2>0. CASE UNCHANGED vars
      BY <2>0 DEF vars, Typed
    <2>1. ASSUME NEW d \in Docs, Open(d) \/ Edit(d) \/ Save(d) PROVE Window'
      BY <2>1 DEF Open, Edit, Save, Scheduled, Typed
    <2>2. ASSUME NEW d \in Docs, Close(d) \/ SwitchTo(d) PROVE Window'
      BY <2>2 DEF Close, SwitchTo, Typed
    <2>3. ASSUME NEW d \in Docs, Emit(d) \/ Fire(d) PROVE Window'
      BY <2>3 DEF Emit, Fire, Typed
    <2>4. CASE SwitchAway \/ Build
      BY <2>4 DEF SwitchAway, Build, Typed
    <2>5. ASSUME NEW k \in Kernels, NEW on \in BOOLEAN, Configure(k, on) PROVE Window'
      BY <2>5 DEF Configure, Typed
    <2>6. ASSUME NEW j \in InFlight, Koitc(j) PROVE Window'
      BY <2>6 DEF Koitc, Read, ReportCheck, ReportEmit, Typed
    <2> QED
      BY <2>0, <2>1, <2>2, <2>3, <2>4, <2>5, <2>6 DEF Next, User
  <1>2. Checked'
    <2>0. CASE UNCHANGED <<text, disk, koitc, shown>>
      BY <2>0 DEF InFlight, Typed
    <2>1. CASE NoProcess
      BY <2>1 DEF NoProcess, Grown, InFlight, Typed
    <2>2. CASE Starting
      <3> PICK kind \in {"check", "emit"}, ds \in SUBSET Docs, k \in Kernels :
             Start(kind, ds, text', k) /\ Grown /\ UNCHANGED shown
        BY <2>2 DEF Starting
      <3>1. /\ IsABag(koitc')
            /\ InFlight' = InFlight \cup {Job(kind, d, text'[d], k) : d \in ds}
            /\ disk' = [f \in Docs |-> IF f \in ds THEN Content(f, text'[f]) ELSE disk[f]]
        BY Started, SMTT(60) DEF Typed
      <3>2. text' \in [Docs -> Nat] /\ \A d \in ds : text'[d] \in Nat
        BY DEF Grown
      <3>3. InFlight' \subseteq Jobs
        BY <3>1, <3>2, JobTyped DEF Typed
      <3>4. disk' \in [Docs -> Contents]
        BY <3>1, <3>2 DEF Content, Contents, Typed
      <3> QED
        BY <3>1, <3>2, <3>3, <3>4 DEF Typed
    <2>3. CASE Reading
      <3> PICK j \in InFlight : Read(j)
        BY <2>3 DEF Reading
      <3>1. UNCHANGED <<text, disk, shown>>
        BY DEF Read
      <3> QED
        BY <3>1, ReadLeaves DEF Typed
    <2>4. CASE Reporting
      <3> PICK j \in InFlight :
             /\ koitc' = koitc (-) SetToBag({j})
             /\ j.got # Unread
             /\ UNCHANGED <<text, disk>>
             /\ \/ UNCHANGED shown
                \/ shown' = [shown EXCEPT ![j.doc] = IF j.got = Missing THEN None ELSE j.got]
        BY <2>4 DEF Reporting
      <3>1. IsABag(koitc') /\ InFlight' \subseteq Jobs
        BY ReportLeaves DEF Typed
      <3>2. j \in Jobs
        BY DEF Typed
      <3>3. j.doc \in Docs /\ (j.got = Missing \/ j.got \in Contents)
        BY <3>2 DEF Jobs
      <3>4. shown' \in [Docs -> Contents \cup {None}]
        BY <3>3 DEF Typed
      <3> QED
        BY <3>1, <3>4 DEF Typed
    <2> QED
      BY <2>0, <2>1, <2>2, <2>3, <2>4, Shapes
  <1> QED
    BY <1>1, <1>2 DEF Typed

-----------------------------------------------------------------------------
(* Results.                                                                 *)

(* ReadsItsOwn is inductive once the snapshot of every document is known to *)
(* hold that document, no later content than the document's, and no older   *)
(* one than any process that has yet to read it was asked about.            *)
SnapshotsInOrder ==
  /\ \A d \in Docs : disk[d].doc = d /\ disk[d].text <= text[d]
  /\ \A j \in InFlight :
       j.asked <= text[j.doc] /\ (j.got = Unread => disk[j.doc].text >= j.asked)

ReadInv == Typed /\ SnapshotsInOrder /\ ReadsItsOwn

LEMMA ReadInit == Init => ReadInv
  <1> SUFFICES ASSUME Init PROVE SnapshotsInOrder /\ ReadsItsOwn
    BY TypedInit DEF ReadInv
  <1>1. InFlight = {Job("check", d, 0, kernel) : d \in {active} \ {None}}
    BY DEF Init, InFlight, BagToSet, SetToBag
  <1>2. active \in Docs \cup {None} /\ kernel \in Kernels
    BY EditorAssumption DEF Init
  <1>3. \A j \in InFlight : j.doc \in Docs /\ j.asked = 0 /\ j.got \in {Unread, Missing}
    BY <1>1, <1>2, JobTyped
  <1> QED
    BY <1>3 DEF Init, Content, SnapshotsInOrder, ReadsItsOwn

LEMMA ReadStep == ReadInv /\ [Next]_vars => ReadInv'
  <1> SUFFICES ASSUME ReadInv, [Next]_vars PROVE SnapshotsInOrder' /\ ReadsItsOwn'
    BY TypedStep DEF ReadInv
  <1> DEFINE Sound(j, t, f) ==
               /\ j.asked <= t[j.doc] /\ (j.got = Unread => f[j.doc].text >= j.asked)
               /\ j.got \notin {Unread, Missing} => j.got.doc = j.doc /\ j.got.text >= j.asked
  <1>0. /\ Typed /\ text \in [Docs -> Nat] /\ disk \in [Docs -> Contents]
        /\ \A d \in Docs : disk[d].doc = d /\ disk[d].text <= text[d]
        /\ \A d \in Docs : shown[d] # None => shown[d].doc = d
        /\ \A j \in InFlight : Sound(j, text, disk)
    BY DEF ReadInv, Typed, SnapshotsInOrder, ReadsItsOwn
  <1>1. \A j \in InFlight : j \in Jobs /\ j.doc \in Docs /\ j.asked \in Nat
    BY DEF ReadInv, Typed, Jobs
  <1>2. \A d \in Docs : text[d] \in Nat /\ disk[d].text \in Nat
    BY <1>0 DEF Contents
  <1> SUFFICES /\ \A d \in Docs : disk'[d].doc = d /\ disk'[d].text <= text'[d]
               /\ \A d \in Docs : shown'[d] # None => shown'[d].doc = d
               /\ \A j \in InFlight' : Sound(j, text', disk')
    BY DEF SnapshotsInOrder, ReadsItsOwn
  <1>3. CASE UNCHANGED <<text, disk, koitc, shown>>
    BY <1>0, <1>3 DEF InFlight
  <1>4. CASE NoProcess
    <2>1. /\ disk' = disk /\ InFlight' = InFlight
          /\ text' \in [Docs -> Nat] /\ \A d \in Docs : text'[d] >= text[d]
      BY <1>4 DEF NoProcess, Grown, InFlight
    <2>2. \A d \in Docs : text'[d] \in Nat
      BY <2>1
    <2>3. \A d \in Docs : shown'[d] # None => shown'[d].doc = d
      BY <1>0, <1>4 DEF NoProcess, Typed
    <2>4. ASSUME NEW j \in InFlight PROVE Sound(j, text', disk')
      <3>1. /\ j.doc \in Docs /\ j.asked \in Nat /\ j.asked <= text[j.doc]
            /\ j.got = Unread => disk[j.doc].text >= j.asked
            /\ j.got \notin {Unread, Missing} => j.got.doc = j.doc /\ j.got.text >= j.asked
        BY <1>0, <1>1
      <3>2. j.asked <= text'[j.doc]
        BY <1>2, <2>1, <2>2, <3>1
      <3> QED
        BY <2>1, <3>1, <3>2
    <2> QED
      BY <1>0, <1>2, <2>1, <2>2, <2>3, <2>4
  <1>5. CASE Starting
    <2> PICK kind \in {"check", "emit"}, ds \in SUBSET Docs, k \in Kernels :
           Start(kind, ds, text', k) /\ Grown /\ UNCHANGED shown
      BY <1>5 DEF Starting
    <2>1. /\ InFlight' = InFlight \cup {Job(kind, d, text'[d], k) : d \in ds}
          /\ disk' = [f \in Docs |-> IF f \in ds THEN Content(f, text'[f]) ELSE disk[f]]
      <3>1. IsABag(koitc) /\ Start(kind, ds, text', k)
        BY DEF ReadInv, Typed
      <3> QED
        BY <3>1, Started, SMTT(60)
    <2>2. \A d \in Docs : text'[d] \in Nat /\ text'[d] >= text[d]
      BY DEF Grown
    <2>3. \A d \in Docs : /\ disk'[d].doc = d /\ disk'[d].text <= text'[d]
                          /\ disk'[d].text >= disk[d].text /\ disk'[d].text \in Nat
      BY <1>0, <1>2, <2>1, <2>2 DEF Content
    <2>4. ASSUME NEW j \in InFlight PROVE Sound(j, text', disk')
      <3>1. j.doc \in Docs /\ j.asked \in Nat /\ Sound(j, text, disk)
        BY <1>0, <1>1
      <3>2. /\ j.asked <= text[j.doc] /\ text[j.doc] <= text'[j.doc]
            /\ text[j.doc] \in Nat /\ text'[j.doc] \in Nat
        BY <1>2, <2>2, <3>1
      <3>3. j.got = Unread => j.asked <= disk[j.doc].text
        BY <1>2, <3>1
      <3>4. disk[j.doc].text <= disk'[j.doc].text
        BY <1>2, <2>3, <3>1
      <3> QED
        BY <1>2, <2>3, <3>1, <3>2, <3>3, <3>4
    <2>5. ASSUME NEW j \in {Job(kind, d, text'[d], k) : d \in ds}
          PROVE  Sound(j, text', disk')
      <3>1. PICK d \in ds : j = Job(kind, d, text'[d], k)
        OBVIOUS
      <3>2. j.doc = d /\ j.asked = text'[d] /\ j.got \in {Unread, Missing}
        BY <2>2, <3>1, JobTyped
      <3>3. disk'[d].text = text'[d] /\ text'[d] \in Nat
        BY <2>1, <2>2 DEF Content
      <3> QED
        BY <3>2, <3>3
    <2> QED
      BY <1>0, <2>1, <2>3, <2>4, <2>5
  <1>6. CASE Reading
    <2> PICK j \in InFlight : Read(j)
      BY <1>6 DEF Reading
    <2>1. PICK r : /\ r.doc = j.doc /\ r.asked = j.asked /\ r.got = disk[j.doc]
                   /\ InFlight' \subseteq InFlight \cup {r}
      BY <1>0, ReadLeaves
    <2>2. UNCHANGED <<text, disk, shown>> /\ j.got = Unread
      BY DEF Read
    <2>3. Sound(r, text, disk)
      BY <1>0, <1>1, <2>1, <2>2
    <2> QED
      BY <1>0, <2>1, <2>2, <2>3
  <1>7. CASE Reporting
    <2> PICK j \in InFlight :
           /\ j.got # Unread
           /\ koitc' = koitc (-) SetToBag({j})
           /\ UNCHANGED <<text, disk>>
           /\ \/ UNCHANGED shown
              \/ shown' = [shown EXCEPT ![j.doc] = IF j.got = Missing THEN None ELSE j.got]
      BY <1>7 DEF Reporting
    <2>1. InFlight' \subseteq InFlight
      BY <1>0, ReportLeaves
    <2>2. j.got # Missing => j.got.doc = j.doc
      BY <1>0
    <2>3. \A d \in Docs : shown'[d] # None => shown'[d].doc = d
      BY <1>0, <1>1, <2>2 DEF Typed
    <2> QED
      BY <1>0, <2>1, <2>3
  <1> QED
    BY <1>0, <1>3, <1>4, <1>5, <1>6, <1>7, Shapes

(* What a process reads, and what is shown for a document, is a content of  *)
(* its own document and no older than the one asked about, however many     *)
(* processes run at once (extension.js check, snapshot).                    *)
THEOREM ResultsAreOwn == Spec => []ReadsItsOwn
  <1>1. ReadInv => ReadsItsOwn
    BY DEF ReadInv
  <1> QED
    BY <1>1, ReadInit, ReadStep, PTL DEF Spec

-----------------------------------------------------------------------------
(* Answers that are owed.                                                   *)

OwedInv == Typed /\ OwedIsUnderWay

LEMMA OwedInit == Init => OwedInv
  <1> SUFFICES ASSUME Init PROVE OwedIsUnderWay
    BY TypedInit DEF OwedInv
  <1>1. InFlight = {Job("check", d, 0, kernel) : d \in {active} \ {None}}
    BY DEF Init, InFlight, BagToSet, SetToBag
  <1>2. active \in Docs \cup {None} /\ kernel \in Kernels /\ \A d \in Docs : text[d] = 0
    BY EditorAssumption DEF Init
  <1>3. due = {active} \ {None}
    BY DEF Init
  <1>4. \A d \in due : Job("check", d, 0, kernel) \in InFlight
                       /\ Answers(Job("check", d, 0, kernel), d)
    BY <1>1, <1>2, <1>3, JobTyped DEF Answers
  <1> QED
    BY <1>4 DEF OwedIsUnderWay

(* check() puts under way what the documents it is given are owed, and      *)
(* leaves under way what the others are, unless the kernel changes.         *)
LEMMA CheckAnswers ==
  ASSUME Typed, NEW ds \in SUBSET Docs, text' \in [Docs -> Nat], kernel' \in Kernels,
         Check(ds, text', kernel'), NEW e \in Docs,
         \/ e \in ds
         \/ /\ \E j \in InFlight : Answers(j, e)
            /\ text'[e] = text[e] /\ kernel' = kernel
  PROVE  \E j \in InFlight' : Answers(j, e)'
  <1>1. InFlight' = InFlight \cup {Job("check", d, text'[d], kernel') : d \in ds}
    BY Started DEF Check, Typed
  <1>2. CASE e \in ds
    <2>1. PICK n : n = Job("check", e, text'[e], kernel')
      OBVIOUS
    <2>2. n.kind = "check" /\ n.doc = e /\ n.asked = text'[e] /\ n.kernel = kernel'
      BY <2>1, JobTyped
    <2>3. n \in InFlight' /\ Answers(n, e)'
      BY <1>1, <1>2, <2>1, <2>2 DEF Answers
    <2> QED
      BY <2>3
  <1>3. CASE /\ \E j \in InFlight : Answers(j, e)
             /\ text'[e] = text[e] /\ kernel' = kernel
    BY <1>1, <1>3 DEF Answers
  <1> QED
    BY <1>2, <1>3

LEMMA OwedStep == OwedInv /\ [Next]_vars => OwedInv'
  <1> SUFFICES ASSUME OwedInv, [Next]_vars, NEW e \in due'
               PROVE  e \in timers' \/ \E j \in InFlight' : Answers(j, e)'
    BY TypedStep DEF OwedInv, OwedIsUnderWay
  <1>0. /\ Typed /\ Typed' /\ e \in Docs
        /\ e \in due => e \in timers \/ \E j \in InFlight : Answers(j, e)
    BY TypedStep DEF OwedInv, OwedIsUnderWay, Typed
  <1>1. text' \in [Docs -> Nat] /\ kernel' \in Kernels
    BY <1>0 DEF Typed
  <1>2. CASE UNCHANGED vars
    BY <1>0, <1>2 DEF vars, Answers, InFlight
  <1>3. ASSUME NEW d \in Docs, Open(d) \/ Save(d) \/ SwitchTo(d) \/ Fire(d)
        PROVE  e \in timers' \/ \E j \in InFlight' : Answers(j, e)'
    <2>1. /\ Check({d}, text', kernel') /\ kernel' = kernel
          /\ \A f \in Docs \ {d} : text'[f] = text[f]
          /\ due' \subseteq due \cup {d} /\ timers \ {d} \subseteq timers'
      BY <1>0, <1>3 DEF Open, Save, SwitchTo, Fire, Typed
    <2> QED
      BY <1>0, <1>1, <2>1, CheckAnswers
  <1>4. ASSUME NEW d \in Docs, Edit(d)
        PROVE  e \in timers' \/ \E j \in InFlight' : Answers(j, e)'
    <2>1. /\ timers \subseteq timers' /\ kernel' = kernel /\ InFlight' = InFlight
          /\ e = d => e \in timers'
          /\ e # d => e \in due /\ text'[e] = text[e]
      BY <1>0, <1>4 DEF Edit, Scheduled, InFlight, Typed
    <2> QED
      BY <1>0, <2>1 DEF Answers
  <1>5. ASSUME NEW d \in Docs, Close(d)
        PROVE  e \in timers' \/ \E j \in InFlight' : Answers(j, e)'
    BY <1>0, <1>5 DEF Close, InFlight, Answers
  <1>6. ASSUME NEW d \in Docs, Emit(d)
        PROVE  e \in timers' \/ \E j \in InFlight' : Answers(j, e)'
    <2>1. InFlight \subseteq InFlight'
      BY <1>0, <1>6, Started DEF Emit, Typed
    <2>2. UNCHANGED <<text, timers, kernel, due>>
      BY <1>6 DEF Emit
    <2> QED
      BY <1>0, <2>1, <2>2 DEF Answers
  <1>7. CASE SwitchAway \/ Build
    BY <1>0, <1>7 DEF SwitchAway, Build, InFlight, Answers
  <1>8. ASSUME NEW k \in Kernels, NEW on \in BOOLEAN, Configure(k, on)
        PROVE  e \in timers' \/ \E j \in InFlight' : Answers(j, e)'
    <2>1. Check(open, text', kernel') /\ e \in open /\ open \in SUBSET Docs
      BY <1>0, <1>8 DEF Configure, Typed
    <2> QED
      BY <1>0, <1>1, <2>1, CheckAnswers
  <1>9. ASSUME NEW j \in InFlight, Read(j)
        PROVE  e \in timers' \/ \E i \in InFlight' : Answers(i, e)'
    <2>1. PICK r \in InFlight' :
            /\ r.kind = j.kind /\ r.doc = j.doc /\ r.asked = j.asked /\ r.kernel = j.kernel
            /\ InFlight \ {j} \subseteq InFlight'
      BY <1>0, <1>9, ReadLeaves
    <2>2. UNCHANGED <<text, timers, kernel, due>>
      BY <1>9 DEF Read
    <2>3. \A i \in InFlight : Answers(i, e) => \E m \in InFlight' : Answers(m, e)'
      BY <2>1, <2>2 DEF Answers
    <2> QED
      BY <1>0, <2>2, <2>3
  <1>10. ASSUME NEW j \in InFlight, ReportCheck(j) \/ ReportEmit(j)
         PROVE  e \in timers' \/ \E i \in InFlight' : Answers(i, e)'
    <2>1. InFlight \ {j} \subseteq InFlight'
      BY <1>0, <1>10, ReportLeaves DEF ReportCheck, ReportEmit
    <2>2. UNCHANGED <<text, timers, kernel>> /\ e \in due /\ ~Answers(j, e)
      BY <1>10 DEF ReportCheck, ReportEmit, Answers
    <2> QED
      BY <1>0, <2>1, <2>2 DEF Answers
  <1> QED
    BY <1>2, <1>3, <1>4, <1>5, <1>6, <1>7, <1>8, <1>9, <1>10 DEF Next, User, Koitc

(* A document that is owed an answer has a timer pending or a process asked *)
(* about its present content against the present kernel, however events,    *)
(* timers and results interleave (extension.js scheduleCheck, check).       *)
THEOREM OwedStaysUnderWay == Spec => []OwedIsUnderWay
  <1>1. OwedInv => OwedIsUnderWay
    BY DEF OwedInv
  <1> QED
    BY <1>1, OwedInit, OwedStep, PTL DEF Spec
=============================================================================
