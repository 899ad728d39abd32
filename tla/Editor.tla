------------------------------- MODULE Editor -------------------------------
(* The checking side of the VS Code extension, editor/vscode/src/            *)
(* extension.js: the documents, their re-check timers, the snapshot file     *)
(* each document is checked through, the koitc processes in flight, and what *)
(* their results leave on screen.  An event handler runs to its first await  *)
(* in one step (the extension host has one thread); a koitc process reads    *)
(* its snapshot some time after it was started; and the handler's            *)
(* continuation runs when the process is done, in whatever order that is.    *)
(*                                                                           *)
(* A document's text is the number of times its content changed.  Documents  *)
(* of other languages are left out: check() returns before doing anything.   *)
EXTENDS Naturals, FiniteSets, Bags

CONSTANTS Docs,          \* the koit documents of the window
          Kernels,       \* values of the setting koit.kernel
          Default,       \* its value unless the user sets it
          MaxEvents,     \* bound: what the user does in one behaviour
          None,          \* no document, no diagnostics, nothing on the bar
          Unread,        \* what a process has read before it reads
          Missing        \* and when it could not be spawned

ASSUME EditorAssumption ==
    /\ MaxEvents \in Nat /\ Default \in Kernels
    /\ None \notin Docs /\ Unread # Missing

VARIABLES
  open,      \* the open documents
  text,      \* text[d]: d's content
  active,    \* the document of the active editor, or None
  kernel,    \* the setting koit.kernel
  onType,    \* the setting koit.checkOnType
  timers,    \* the documents with a pending re-check
  built,     \* whether there is a koitc to run
  disk,      \* disk[f]: the content last written to the snapshot file f
  koitc,     \* the processes in flight, a bag of jobs
  shown,     \* shown[d]: the content d's diagnostics are about, or None
  status,    \* the status bar item, or None while hidden
  due,       \* the documents owed an answer about their present content
  events     \* what the user has done so far, against MaxEvents

vars == <<open, text, active, kernel, onType, timers, built, disk, koitc, shown,
          status, due, events>>

-----------------------------------------------------------------------------
(* The snapshot: one file per document, named by a hash of its address. *)
BugFileOf(d) == CHOOSE f \in Docs : TRUE
FileOf(d) == d

Content(d, t) == [doc |-> d, text |-> t]

(* A process as it is started.  `got` is the content it read, once it did;   *)
(* it is Missing when the process could not be spawned.                    *)
Job(kind, d, t, k) ==
    [kind |-> kind, doc |-> d, asked |-> t, kernel |-> k,
     got |-> IF built THEN Unread ELSE Missing]

(* What check() and the commands do before they await: write the snapshots   *)
(* of ds as their text is then, t, and start a process for each.             *)
Start(kind, ds, t, k) ==
    /\ disk' = [f \in Docs |->
                  IF \E d \in ds : FileOf(d) = f
                  THEN LET d == CHOOSE d \in ds : FileOf(d) = f
                       IN  Content(d, t[d])
                  ELSE disk[f]]
    /\ koitc' = koitc (+) SetToBag({Job(kind, d, t[d], k) : d \in ds})

Check(ds, t, k) == Start("check", ds, t, k)

Happens == events < MaxEvents /\ events' = events + 1

-----------------------------------------------------------------------------
(* The events activate() listens to. *)

(* onDidOpenTextDocument; what is opened is a content of its own. *)
Open(d) ==
    /\ Happens /\ d \notin open
    /\ open' = open \cup {d}
    /\ text' = [text EXCEPT ![d] = @ + 1]
    /\ Check({d}, text', kernel)
    /\ due' = due \cup {d}
    /\ UNCHANGED <<active, kernel, onType, timers, built, shown, status>>

(* onDidChangeTextDocument: scheduleCheck clears the document's timer and    *)
(* sets it again.  Without checkOnType nothing is owed until a save.         *)
BugScheduled(d) == {d}
Scheduled(d) == timers \cup {d}

Edit(d) ==
    /\ Happens /\ d \in open
    /\ text' = [text EXCEPT ![d] = @ + 1]
    /\ timers' = IF onType THEN Scheduled(d) ELSE timers
    /\ due' = IF onType THEN due \cup {d} ELSE due \ {d}
    /\ UNCHANGED <<open, active, kernel, onType, built, disk, koitc, shown, status>>

(* onDidSaveTextDocument, and the command koit.check. *)
Save(d) ==
    /\ Happens /\ d \in open
    /\ Check({d}, text, kernel)
    /\ due' = due \cup {d}
    /\ UNCHANGED <<open, text, active, kernel, onType, timers, built, shown, status>>

(* onDidCloseTextDocument deletes the diagnostics; a pending timer stays. *)
Close(d) ==
    /\ Happens /\ d \in open
    /\ open' = open \ {d}
    /\ active' = IF active = d THEN None ELSE active
    /\ shown' = [shown EXCEPT ![d] = None]
    /\ status' = IF active = d THEN None ELSE status
    /\ due' = due \ {d}
    /\ UNCHANGED <<text, kernel, onType, timers, built, disk, koitc>>

(* onDidChangeActiveTextEditor *)
SwitchTo(d) ==
    /\ Happens /\ d \in open /\ active # d
    /\ active' = d
    /\ Check({d}, text, kernel)
    /\ due' = due \cup {d}
    /\ UNCHANGED <<open, text, kernel, onType, timers, built, shown, status>>

SwitchAway ==
    /\ Happens /\ active # None
    /\ active' = None
    /\ status' = None
    /\ UNCHANGED <<open, text, kernel, onType, timers, built, disk, koitc, shown, due>>

(* onDidChangeConfiguration: every open document is checked again. *)
Configure(k, on) ==
    /\ Happens /\ <<k, on>> # <<kernel, onType>>
    /\ kernel' = k /\ onType' = on
    /\ Check(open, text, k)
    /\ due' = open
    /\ UNCHANGED <<open, text, active, timers, built, shown, status>>

(* koit.showBytecode, koit.showC and koit.run: they snapshot the document    *)
(* too, and their result goes to a pane of its own.                          *)
Emit(d) ==
    /\ Happens /\ d \in open
    /\ Start("emit", {d}, text, kernel)
    /\ UNCHANGED <<open, text, active, kernel, onType, timers, built, shown, status, due>>

(* koitc is built, or its build output removed. *)
Build ==
    /\ Happens
    /\ built' = ~built
    /\ UNCHANGED <<open, text, active, kernel, onType, timers, disk, koitc,
                   shown, status, due>>

-----------------------------------------------------------------------------
(* The quarter second is over. *)
BugFire(d) ==
    /\ d \in timers /\ d = active
    /\ timers' = timers \ {d}
    /\ Check({d}, text, kernel)
    /\ UNCHANGED <<open, text, active, kernel, onType, built, shown, status, due, events>>

Fire(d) ==
    /\ d \in timers
    /\ timers' = timers \ {d}
    /\ Check({d}, text, kernel)
    /\ UNCHANGED <<open, text, active, kernel, onType, built, shown, status, due, events>>

(* A process reads its snapshot. *)
Read(j) ==
    /\ j.got = Unread
    /\ koitc' = (koitc (-) SetToBag({j}))
                  (+) SetToBag({[j EXCEPT !.got = disk[FileOf(j.doc)]]})
    /\ UNCHANGED <<open, text, active, kernel, onType, timers, built, disk, shown,
                   status, due, events>>

(* A result answers what is owed when it was asked about the present content *)
(* and the present kernel.                                                   *)
Answers(j, d) ==
    /\ j.kind = "check" /\ j.doc = d
    /\ j.asked = text[d] /\ j.kernel = kernel

(* The status bar after a result: the first message, or that the unit was    *)
(* checked against the kernel the setting names by then.                     *)
Said(j, found) ==
    IF j.got = Missing THEN [says |-> "missing"]
    ELSE IF found THEN [says |-> "message"]
    ELSE [says |-> "checked", label |-> kernel, kernel |-> j.kernel]

(* The continuation of check(): a result arrives. *)
ReportCheck(j) ==
    /\ j.kind = "check" /\ j.got # Unread
    /\ koitc' = koitc (-) SetToBag({j})
    /\ shown' = [shown EXCEPT ![j.doc] = IF j.got = Missing THEN None ELSE j.got]
    /\ \E found \in BOOLEAN : status' = Said(j, found)
    /\ due' = {d \in due : ~Answers(j, d)}
    /\ UNCHANGED <<open, text, active, kernel, onType, timers, built, disk, events>>

(* The continuation of a command: the pane opens, or an error is shown. *)
ReportEmit(j) ==
    /\ j.kind = "emit" /\ j.got # Unread
    /\ koitc' = koitc (-) SetToBag({j})
    /\ UNCHANGED <<open, text, active, kernel, onType, timers, built, disk, shown,
                   status, due, events>>

-----------------------------------------------------------------------------
(* activate(): some documents are open, and the active one is checked; the  *)
(* settings have their defaults.                                             *)
Init ==
    /\ open \in SUBSET Docs
    /\ active \in open \cup {None}
    /\ text = [d \in Docs |-> 0]
    /\ kernel = Default /\ onType = TRUE
    /\ timers = {} /\ built \in BOOLEAN
    /\ disk = [f \in Docs |-> Content(f, 0)]
    /\ koitc = SetToBag({Job("check", d, 0, kernel) : d \in {active} \ {None}})
    /\ shown = [d \in Docs |-> None]
    /\ status = None
    /\ due = {active} \ {None}
    /\ events = 0

User ==
    \/ \E d \in Docs : Open(d) \/ Edit(d) \/ Save(d) \/ Close(d)
                       \/ SwitchTo(d) \/ Emit(d)
    \/ SwitchAway \/ Build
    \/ \E k \in Kernels, on \in BOOLEAN : Configure(k, on)

InFlight == BagToSet(koitc)

Koitc(j) == Read(j) \/ ReportCheck(j) \/ ReportEmit(j)

Next ==
    \/ User
    \/ \E d \in Docs : Fire(d)
    \/ \E j \in InFlight : Koitc(j)

(* A timer that is set goes off, and a process that runs ends and has its    *)
(* continuation run.  Nothing obliges the user.                              *)
Fairness ==
    /\ \A d \in Docs : WF_vars(Fire(d))
    /\ WF_vars(\E j \in InFlight : Koitc(j))

Spec == Init /\ [][Next]_vars /\ Fairness

-----------------------------------------------------------------------------
(* A result is about its own document, and about no older content than the   *)
(* one on screen when the check was asked for: later snapshots of the same   *)
(* document may overtake it in the file, other documents' never.             *)
ReadsItsOwn ==
    /\ \A j \in InFlight : j.got \notin {Unread, Missing} =>
          j.got.doc = j.doc /\ j.got.text >= j.asked
    /\ \A d \in Docs : shown[d] # None => shown[d].doc = d

(* An answer that is owed is under way: whatever overtook what, a document   *)
(* edited (with checkOnType), opened, saved, switched to or reconfigured has *)
(* a timer pending, or a process asked about its present content against the *)
(* present kernel.                                                           *)
OwedIsUnderWay ==
    \A d \in due : d \in timers \/ \E j \in InFlight : Answers(j, d)

(* The buffer is checked after a quarter second of quiet: what is owed is    *)
(* answered once the user lets it be.                                        *)
QuietIsChecked == \A d \in Docs : d \in due ~> d \notin due
=============================================================================
