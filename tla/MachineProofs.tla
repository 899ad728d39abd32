--------------------------- MODULE MachineProofs ---------------------------
(***************************************************************************)
(* Theorems about the shared machine, for every value of its constants.    *)
(***************************************************************************)
EXTENDS Machine, FiniteSetTheorems, TLAPS

-----------------------------------------------------------------------------
(* The held stack as a sequence: what a push and a pop leave.               *)

LEMMA PushSeq ==
  ASSUME NEW S, NEW h \in S, NEW s \in Seq(S)
  PROVE  /\ <<h>> \o s \in Seq(S)
         /\ Len(<<h>> \o s) = Len(s) + 1
         /\ (<<h>> \o s)[1] = h
         /\ \A i \in 1..Len(s) : (<<h>> \o s)[i + 1] = s[i]
  OBVIOUS

LEMMA PopSeq ==
  ASSUME NEW S, NEW s \in Seq(S), s # <<>>
  PROVE  /\ Tail(s) \in Seq(S)
         /\ Len(s) \in Nat \ {0}
         /\ Len(Tail(s)) = Len(s) - 1
         /\ Head(s) = s[1]
         /\ \A i \in 1..(Len(s) - 1) : Tail(s)[i] = s[i + 1]
  OBVIOUS

LEMMA AppendSeq ==
  ASSUME NEW S, NEW e \in S, NEW s \in Seq(S)
  PROVE  /\ Append(s, e) \in Seq(S)
         /\ Len(Append(s, e)) = Len(s) + 1
         /\ Append(s, e)[Len(s) + 1] = e
         /\ \A i \in 1..Len(s) : Append(s, e)[i] = s[i]
  OBVIOUS

-----------------------------------------------------------------------------
(* Every step is a refusal or one of twelve kinds of step; a release by the *)
(* scope is one of the explicit releases.                                   *)

LEMMA StepCases ==
  ASSUME TypeOK, Next
  PROVE  \/ Running /\ Fail
         \/ \E r \in Scopes : Enter(r)
         \/ \E p \in places : Lock(p)
         \/ \E r \in Resources \ {"sockref"}, o \in HeldObjs : PopHeld(r, o)
         \/ \E n \in RecordSizes : Reserve(n)
         \/ \E i \in Nat : Submit(i)
         \/ SkLookup
         \/ SkCast
         \/ \E i \in Nat : SkRelease(i)
         \/ \E o \in Outcomes : OtherCall(o)
         \/ \E d \in Deltas : Resize(d)
         \/ \E k \in Keys : Lookup(k) \/ Update(k) \/ Delete(k)
         \/ \E r \in ViewRanges : View(r[1], r[2])
  <1>0. Scopes \subseteq Resources \ {"sockref"} /\ {"spinlock", "ringbuf"} \subseteq Resources \ {"sockref"}
    BY MachineAssumption DEF Resources
  <1>1. ASSUME NEW p \in places PROVE Slot(p.num) \in HeldObjs
    BY DEF TypeOK, Slot, HeldObjs
  <1>2. ASSUME NEW i \in 0..(nextId - 1) PROVE i \in Nat /\ Object(i) \in HeldObjs
    BY DEF TypeOK, Object, HeldObjs
  <1>3. NoObj \in HeldObjs
    BY DEF NoObj, HeldObjs
  <1>4. CASE ProtocolNext
    <2>1. CASE \E r \in Scopes : Enter(r) \/ Leave(r)
      BY <2>1, <1>0, <1>3 DEF Leave
    <2>2. CASE \E p \in places : Lock(p) \/ Unlock(p)
      BY <2>2, <1>0, <1>1 DEF Unlock
    <2>3. CASE \E n \in RecordSizes : Reserve(n)
      BY <2>3
    <2>4. CASE \E i \in 0..(nextId - 1) : Submit(i) \/ Discard(i) \/ SkRelease(i)
      BY <2>4, <1>0, <1>2 DEF Discard
    <2>5. CASE SkLookup \/ SkCast
      BY <2>5
    <2>6. CASE \E o \in Outcomes : OtherCall(o)
      BY <2>6
    <2>7. CASE \E normal \in BOOLEAN : Release(normal)
      <3> PICK normal \in BOOLEAN : Release(normal)
        BY <2>7
      <3>1. CASE held = <<>>
        BY <3>1 DEF Release
      <3>2. CASE held # <<>>
        <4> DEFINE h == Head(held)
        <4>1. h \in HeldRes
          BY <3>2, PopSeq DEF TypeOK
        <4>2. h.obj \in HeldObjs /\ h.obj.n \in Nat /\ h.res \in Resources
          BY <4>1 DEF HeldRes, HeldObjs
        <4>3. Object(h.obj.n) \in HeldObjs
          BY <4>2 DEF Object, HeldObjs
        <4>4. \/ h.res \in Scopes /\ Leave(h.res)
              \/ h.res = "spinlock" /\ PopHeld("spinlock", h.obj)
              \/ Submit(h.obj.n) \/ Discard(h.obj.n) \/ SkRelease(h.obj.n)
          BY <3>2 DEF Release
        <4> QED
          BY <4>2, <4>3, <4>4, <1>0, <1>3 DEF Leave, Discard
      <3> QED
        BY <3>1, <3>2
    <2> QED
      BY <1>4, <2>1, <2>2, <2>3, <2>4, <2>5, <2>6, <2>7 DEF ProtocolNext
  <1>5. CASE MapNext
    BY <1>5 DEF MapNext
  <1>6. CASE PacketNext
    BY <1>6 DEF PacketNext, Access
  <1> QED
    BY <1>4, <1>5, <1>6 DEF Next

-----------------------------------------------------------------------------
(* Type correctness.                                                        *)

LEMMA FreshTyped ==
  ASSUME TypeOK, NEW k \in ObjKinds, NEW n \in Nat, Fresh(k, n)
  PROVE  /\ nextId' = nextId + 1 /\ nextId' \in Nat
         /\ nextId < MaxObjects
         /\ kernelObjs' \in [0..(nextId' - 1) -> Objects]
         /\ kernelObjs'[nextId].kind = k
         /\ \A i \in 0..(nextId - 1) : kernelObjs'[i] = kernelObjs[i]
  BY DEF TypeOK, Fresh, Objects

LEMMA RecordTyped ==
  ASSUME TypeOK, NEW d \in Calls, NEW i \in Nat \cup {-1}, NEW o \in Outcomes,
         Record(d, i, o)
  PROVE  /\ trace' \in Seq(Events)
         /\ Len(trace') = Len(trace) + 1
         /\ trace'[Len(trace')] = Event(d, i, o)
         /\ \A j \in 1..Len(trace) : trace'[j] = trace[j]
  <1>1. Event(d, i, o) \in Events
    BY DEF Event, Events
  <1> QED
    BY <1>1, AppendSeq DEF TypeOK, Record

LEMMA PushTyped ==
  ASSUME TypeOK, NEW r \in Resources, NEW o \in HeldObjs, Push(r, o)
  PROVE  /\ held' \in Seq(HeldRes)
         /\ Len(held') = Len(held) + 1
         /\ held'[1] = [res |-> r, obj |-> o]
         /\ \A i \in 1..Len(held) : held'[i + 1] = held[i]
  <1>1. [res |-> r, obj |-> o] \in HeldRes
    BY DEF HeldRes
  <1> QED
    BY <1>1, PushSeq DEF TypeOK, Push

LEMMA PopTyped ==
  ASSUME TypeOK, NEW r, NEW o, Innermost(r, o), held' = Tail(held)
  PROVE  /\ held' \in Seq(HeldRes)
         /\ Len(held) \in Nat \ {0}
         /\ Len(held') = Len(held) - 1
         /\ held[1] \in HeldRes /\ held[1].res = r /\ held[1].obj = o
         /\ \A i \in 1..(Len(held) - 1) : held'[i] = held[i + 1]
  BY PopSeq DEF TypeOK, Innermost

LEMMA ObjTyped ==
  /\ NoObj \in HeldObjs
  /\ \A i \in Nat : Slot(i) \in HeldObjs /\ Object(i) \in HeldObjs
  BY DEF NoObj, Slot, Object, HeldObjs

LEMMA TypeInit == Init => TypeOK
  BY MachineAssumption DEF Init, TypeOK, Objects, ObjKinds

LEMMA TypeStep == TypeOK /\ [Next]_vars => TypeOK'
  <1> SUFFICES ASSUME TypeOK, [Next]_vars PROVE TypeOK'
    OBVIOUS
  <1> USE MachineAssumption
  <1>0. CASE UNCHANGED vars
    BY <1>0 DEF TypeOK, vars, protocol, mapVars, pktVars
  <1>1. CASE Running /\ Fail
    BY <1>1 DEF Fail, TypeOK, protocol, mapVars, pktVars
  <1>2. CASE \E r \in Scopes : Enter(r)
    <2> PICK r \in Scopes : Enter(r)
      BY <1>2
    <2>1. CASE CanPush(r)
      BY <2>1, ObjTyped, PushTyped DEF Enter, TypeOK, mapVars, pktVars, Resources
    <2>2. CASE ~CanPush(r)
      BY <2>2 DEF Enter, Fail, TypeOK, protocol, mapVars, pktVars
    <2> QED
      BY <2>1, <2>2
  <1>3. CASE \E p \in places : Lock(p)
    <2> PICK p \in places : Lock(p)
      BY <1>3
    <2>1. CASE CanPush("spinlock")
      <3>1. Slot(p.num) \in HeldObjs
        BY ObjTyped DEF TypeOK
      <3> QED
        BY <2>1, <3>1, PushTyped DEF Lock, TypeOK, mapVars, pktVars, Resources
    <2>2. CASE ~CanPush("spinlock")
      BY <2>2 DEF Lock, Fail, TypeOK, protocol, mapVars, pktVars
    <2> QED
      BY <2>1, <2>2
  <1>4. CASE \E r \in Resources \ {"sockref"}, o \in HeldObjs : PopHeld(r, o)
    <2> PICK r \in Resources \ {"sockref"}, o \in HeldObjs : PopHeld(r, o)
      BY <1>4
    <2>1. CASE Innermost(r, o)
      BY <2>1, PopTyped DEF PopHeld, TypeOK, mapVars, pktVars
    <2>2. CASE ~Innermost(r, o)
      BY <2>2 DEF PopHeld, Fail, TypeOK, protocol, mapVars, pktVars
    <2> QED
      BY <2>1, <2>2
  <1>5. CASE \E n \in RecordSizes : Reserve(n)
    <2> PICK n \in RecordSizes : Reserve(n)
      BY <1>5
    <2>1. n \in Nat /\ nextId \in Nat
      BY DEF TypeOK
    <2>2. kernelObjs' \in [0..(nextId' - 1) -> Objects] /\ nextId' \in Nat
      BY <2>1, FreshTyped DEF Reserve, ObjKinds
    <2>3. held' \in Seq(HeldRes)
      BY <2>1, PushTyped, ObjTyped DEF Reserve, Resources
    <2> QED
      BY <2>2, <2>3 DEF Reserve, TypeOK, mapVars, pktVars
  <1>6. CASE \E i \in Nat : Submit(i)
    <2> PICK i \in Nat : Submit(i)
      BY <1>6
    <2>1. CASE Innermost("ringbuf", Object(i))
      <3>1. held' \in Seq(HeldRes)
        BY <2>1, PopTyped DEF Submit
      <3>2. ring \in Seq(Nat) /\ ring' = Append(ring, i)
        BY <2>1 DEF Submit, TypeOK
      <3>3. ring' \in Seq(Nat)
        BY <3>2, AppendSeq
      <3> QED
        BY <2>1, <3>1, <3>3 DEF Submit, TypeOK, mapVars, pktVars
    <2>2. CASE ~Innermost("ringbuf", Object(i))
      BY <2>2 DEF Submit, Fail, TypeOK, protocol, mapVars, pktVars
    <2> QED
      BY <2>1, <2>2
  <1>7. CASE SkLookup
    <2>1. CASE Running /\ Fail
      BY <2>1, <1>1
    <2>2. CASE /\ Fresh("socket", 0)
               /\ Record("sk_lookup", nextId, "ok")
               /\ Push("sockref", Object(nextId))
               /\ UNCHANGED <<status, ring, mapVars, pktVars>>
      <3>1. nextId \in Nat
        BY DEF TypeOK
      <3> QED
        BY <2>2, <3>1, FreshTyped, RecordTyped, PushTyped, ObjTyped
        DEF TypeOK, mapVars, pktVars, Resources, ObjKinds, Calls, Outcomes
    <2>3. CASE /\ Record("sk_lookup", -1, "failed")
               /\ UNCHANGED <<status, held, kernelObjs, nextId, ring, mapVars, pktVars>>
      BY <2>3, RecordTyped DEF TypeOK, mapVars, pktVars, Calls, Outcomes
    <2> QED
      BY <1>7, <2>1, <2>2, <2>3 DEF SkLookup
  <1>8. CASE SkCast
    <2>1. CASE Running /\ Fail
      BY <2>1, <1>1
    <2>2. CASE /\ Fresh("cast", 0)
               /\ Record("sk_cast", nextId, "ok")
               /\ UNCHANGED <<status, held, ring, mapVars, pktVars>>
      <3>1. nextId \in Nat
        BY DEF TypeOK
      <3> QED
        BY <2>2, <3>1, FreshTyped, RecordTyped
        DEF TypeOK, mapVars, pktVars, ObjKinds, Calls, Outcomes
    <2> QED
      BY <1>8, <2>1, <2>2 DEF SkCast
  <1>9. CASE \E i \in Nat : SkRelease(i)
    <2> PICK i \in Nat : SkRelease(i)
      BY <1>9
    <2>1. CASE Running /\ Fail
      BY <2>1, <1>1
    <2>2. CASE /\ Innermost("sockref", Object(i))
               /\ Record("sk_release", i, "ok")
               /\ held' = Tail(held)
               /\ UNCHANGED <<status, kernelObjs, nextId, ring, mapVars, pktVars>>
      BY <2>2, PopTyped, RecordTyped DEF TypeOK, mapVars, pktVars, Calls, Outcomes
    <2> QED
      BY <2>1, <2>2 DEF SkRelease
  <1>10. CASE \E o \in Outcomes : OtherCall(o)
    <2> PICK o \in Outcomes : OtherCall(o)
      BY <1>10
    <2>1. CASE Running /\ Fail
      BY <2>1, <1>1
    <2>2. CASE /\ Record("other", -1, o)
               /\ UNCHANGED <<status, held, kernelObjs, nextId, ring, mapVars, pktVars>>
      BY <2>2, RecordTyped DEF TypeOK, mapVars, pktVars, Calls
    <2> QED
      BY <2>1, <2>2 DEF OtherCall
  <1>11. CASE \E d \in Deltas : Resize(d)
    <2> PICK d \in Deltas : Resize(d)
      BY <1>11
    <2>1. CASE Running /\ Fail
      BY <2>1, <1>1
    <2>2. CASE /\ Record("resize", -1, "failed")
               /\ UNCHANGED <<status, held, kernelObjs, nextId, ring, mapVars, pktVars>>
      BY <2>2, RecordTyped DEF TypeOK, mapVars, pktVars, Calls, Outcomes
    <2>3. CASE /\ ~(packet + d < 0)
               /\ Record("resize", -1, "ok")
               /\ packet' = packet + d
               /\ layout' = layout + 1
               /\ UNCHANGED <<status, held, kernelObjs, nextId, ring, mapVars, views>>
      BY <2>3, RecordTyped, SMTT(60) DEF TypeOK, mapVars, pktVars, Calls, Outcomes
    <2> QED
      BY <2>1, <2>2, <2>3 DEF Resize
  <1>12. CASE \E k \in Keys : Lookup(k) \/ Update(k) \/ Delete(k)
    BY <1>12, SMTT(60) DEF Lookup, Update, Delete, EntryOf, TypeOK, protocol, pktVars
  <1>13. CASE \E r \in ViewRanges : View(r[1], r[2])
    BY <1>13, SMTT(60) DEF View, Views, TypeOK, protocol, mapVars
  <1> QED
    BY <1>0, <1>1, <1>2, <1>3, <1>4, <1>5, <1>6, <1>7, <1>8, <1>9, <1>10, <1>11,
       <1>12, <1>13, StepCases

(* The variables of the shared machine keep their types (Machine/State.lean *)
(* State), and the kernel's objects stay numbered from zero without a gap.  *)
THEOREM TypeCorrect == Spec => []TypeOK
  BY TypeInit, TypeStep, PTL DEF Spec

-----------------------------------------------------------------------------
(* What a step does to the protocol's state, in the shapes the proofs below *)
(* distinguish.                                                             *)

(* A call that is neither an acquisition nor a release.                     *)
PlainCall ==
  \E d \in Calls, i \in Nat \cup {-1}, o \in Outcomes :
    /\ Record(d, i, o)
    /\ d \in {"sk_lookup", "sk_release"} => o = "failed"

SameProtocol ==
  /\ UNCHANGED <<held, kernelObjs, nextId, ring>>
  /\ UNCHANGED trace \/ PlainCall

PushScoped ==
  \E r \in Resources, o \in HeldObjs :
    /\ CanPush(r) /\ Push(r, o)
    /\ \/ r \in Scopes /\ o = NoObj
       \/ r = "spinlock" /\ o.kind = "slot"
    /\ UNCHANGED <<kernelObjs, nextId, ring, trace>>

PushRecord ==
  \E n \in Nat :
    /\ Fresh("record", n) /\ Push("ringbuf", Object(nextId))
    /\ UNCHANGED <<ring, trace>>

PushSocket ==
  /\ Fresh("socket", 0) /\ Push("sockref", Object(nextId))
  /\ Record("sk_lookup", nextId, "ok")
  /\ UNCHANGED ring

Cast ==
  /\ Fresh("cast", 0) /\ Record("sk_cast", nextId, "ok")
  /\ UNCHANGED <<held, ring>>

(* A pop of the innermost entry.  A socket's is traced as its release, and  *)
(* a record's may append it to the ring.                                    *)
Pop(r, o) ==
  /\ Innermost(r, o) /\ held' = Tail(held)
  /\ UNCHANGED <<kernelObjs, nextId>>

PopPlain ==
  \E r \in Resources \ {"sockref"}, o \in HeldObjs :
    Pop(r, o) /\ UNCHANGED <<ring, trace>>

PopSubmit ==
  \E i \in Nat :
    Pop("ringbuf", Object(i)) /\ ring' = Append(ring, i) /\ UNCHANGED trace

PopSocket ==
  \E i \in Nat :
    Pop("sockref", Object(i)) /\ UNCHANGED ring /\ Record("sk_release", i, "ok")

LEMMA ProtocolShapes ==
  ASSUME TypeOK, [Next]_vars
  PROVE  SameProtocol \/ PushScoped \/ PushRecord \/ PushSocket \/ Cast
           \/ PopPlain \/ PopSubmit \/ PopSocket
  <1> USE MachineAssumption
  <1>0. CASE UNCHANGED vars
    BY <1>0 DEF SameProtocol, vars, protocol
  <1>1. CASE Running /\ Fail
    BY <1>1 DEF Fail, SameProtocol, protocol
  <1>2. CASE \E r \in Scopes : Enter(r)
    BY <1>2, <1>1, ObjTyped DEF Enter, PushScoped, Resources
  <1>3. CASE \E p \in places : Lock(p)
    <2> PICK p \in places : Lock(p)
      BY <1>3
    <2>1. Slot(p.num) \in HeldObjs /\ Slot(p.num).kind = "slot"
      BY ObjTyped DEF TypeOK, Slot
    <2> QED
      BY <2>1, <1>1 DEF Lock, PushScoped, Resources
  <1>4. CASE \E r \in Resources \ {"sockref"}, o \in HeldObjs : PopHeld(r, o)
    BY <1>4, <1>1 DEF PopHeld, PopPlain, Pop
  <1>5. CASE \E n \in RecordSizes : Reserve(n)
    BY <1>5 DEF Reserve, PushRecord
  <1>6. CASE \E i \in Nat : Submit(i)
    BY <1>6, <1>1 DEF Submit, PopSubmit, Pop
  <1>7. CASE SkLookup
    BY <1>7, <1>1 DEF SkLookup, PushSocket, SameProtocol, PlainCall, Calls, Outcomes
  <1>8. CASE SkCast
    BY <1>8, <1>1 DEF SkCast, Cast
  <1>9. CASE \E i \in Nat : SkRelease(i)
    BY <1>9, <1>1 DEF SkRelease, PopSocket, Pop
  <1>10. CASE \E o \in Outcomes : OtherCall(o)
    BY <1>10, <1>1 DEF OtherCall, SameProtocol, PlainCall, Calls
  <1>11. CASE \E d \in Deltas : Resize(d)
    BY <1>11, <1>1 DEF Resize, SameProtocol, PlainCall, Calls, Outcomes
  <1>12. CASE \E k \in Keys : Lookup(k) \/ Update(k) \/ Delete(k)
    BY <1>12 DEF Lookup, Update, Delete, SameProtocol, protocol
  <1>13. CASE \E r \in ViewRanges : View(r[1], r[2])
    BY <1>13 DEF View, SameProtocol, protocol
  <1> QED
    BY <1>0, <1>1, <1>2, <1>3, <1>4, <1>5, <1>6, <1>7, <1>8, <1>9, <1>10, <1>11,
       <1>12, <1>13, StepCases

-----------------------------------------------------------------------------
(* The held stack.                                                          *)

(* HeldOnce is inductive once the objects are known to stay within their    *)
(* bound, which the abstract specification's references are drawn from.     *)
HeldInv == TypeOK /\ HeldOnce /\ nextId <= MaxObjects

LEMMA HeldInit == Init => HeldInv
  BY TypeInit, MachineAssumption DEF Init, HeldInv, HeldOnce, HeldDistinct

LEMMA ResourcesApart ==
  /\ "spinlock" \notin Scopes /\ "ringbuf" \notin Scopes /\ "sockref" \notin Scopes
  BY MachineAssumption

(* Handing out a number leaves every entry of the stack what it owns.       *)
LEMMA EntryOwnsStable ==
  ASSUME TypeOK, NEW k \in ObjKinds, NEW n \in Nat, Fresh(k, n),
         NEW h \in HeldRes, EntryOwns(h, kernelObjs)
  PROVE  EntryOwns(h, kernelObjs')
  <1>1. \A i \in DOMAIN kernelObjs : i \in DOMAIN kernelObjs' /\ kernelObjs'[i] = kernelObjs[i]
    BY FreshTyped, SMTT(60) DEF TypeOK
  <1> QED
    BY <1>1 DEF EntryOwns

LEMMA OwnedBelowNext ==
  ASSUME TypeOK, HeldOnce, NEW i \in DOMAIN held, held[i].obj.kind = "object"
  PROVE  held[i].obj.n < nextId /\ held[i].res \in {"ringbuf", "sockref"}
  <1>1. held[i] \in HeldRes /\ EntryOwns(held[i], kernelObjs)
    BY DEF TypeOK, HeldOnce
  <1>2. held[i].res \in {"ringbuf", "sockref"}
    BY <1>1 DEF EntryOwns, HeldRes, Resources, NoObj
  <1>3. held[i].obj.n \in 0..(nextId - 1)
    BY <1>1, <1>2 DEF EntryOwns, TypeOK
  <1> QED
    BY <1>2, <1>3 DEF TypeOK

LEMMA PushKeepsHeldOnce ==
  ASSUME TypeOK, HeldOnce, NEW r \in Resources, NEW o \in HeldObjs, Push(r, o),
         CanPush(r),
         EntryOwns([res |-> r, obj |-> o], kernelObjs'),
         \A i \in DOMAIN held : EntryOwns(held[i], kernelObjs'),
         o.kind = "object" => r # "spinlock" /\ o.n = nextId,
         r = "spinlock" => o.kind = "slot"
  PROVE  HeldOnce'
  <1> DEFINE h == [res |-> r, obj |-> o]
  <1>1. /\ held' \in Seq(HeldRes) /\ Len(held') = Len(held) + 1 /\ held'[1] = h
        /\ \A i \in 1..Len(held) : held'[i + 1] = held[i]
    BY PushTyped
  <1>2. held \in Seq(HeldRes) /\ Len(held) \in Nat /\ DOMAIN held = 1..Len(held)
        /\ DOMAIN held' = 1..(Len(held) + 1)
    BY <1>1 DEF TypeOK
  <1>3. \A i \in DOMAIN held' : i = 1 \/ (i - 1 \in DOMAIN held /\ held'[i] = held[i - 1])
    BY <1>1, <1>2
  <1>4. \A i \in DOMAIN held' : EntryOwns(held'[i], kernelObjs')
    BY <1>1, <1>3
  <1>5. \A i \in DOMAIN held : h.obj.kind = "object" => held[i].obj # h.obj
    <2> SUFFICES ASSUME NEW i \in DOMAIN held, o.kind = "object", held[i].obj = o
                 PROVE  FALSE
      OBVIOUS
    <2>1. held[i].obj.n < nextId
      BY OwnedBelowNext
    <2> QED
      BY <2>1 DEF TypeOK
  <1>6. \A i \in DOMAIN held : r = "spinlock" => held[i].res # "spinlock"
    BY DEF CanPush, MayNest
  <1>7. HeldDistinct
    BY DEF HeldOnce
  <1>8. ASSUME NEW i \in DOMAIN held', NEW j \in DOMAIN held', i # j
        PROVE  /\ held'[i].obj.kind = "object" => held'[i].obj # held'[j].obj
               /\ held'[i].res = "spinlock" => held'[j].res # "spinlock"
    <2>1. CASE i = 1
      BY <1>1, <1>3, <1>5, <1>6, <1>8, <2>1
    <2>2. CASE j = 1
      BY <1>1, <1>3, <1>5, <1>6, <1>8, <2>2
    <2>3. CASE i # 1 /\ j # 1
      <3>1. /\ i - 1 \in DOMAIN held /\ j - 1 \in DOMAIN held /\ i - 1 # j - 1
            /\ held'[i] = held[i - 1] /\ held'[j] = held[j - 1]
        BY <1>2, <1>3, <1>8, <2>3
      <3> QED
        BY <3>1, <1>7 DEF HeldDistinct
    <2> QED
      BY <2>1, <2>2, <2>3
  <1> QED
    BY <1>4, <1>8 DEF HeldOnce, HeldDistinct

LEMMA PopKeepsHeldOnce ==
  ASSUME TypeOK, HeldOnce, NEW r, NEW o, Pop(r, o)
  PROVE  HeldOnce'
  <1>1. /\ held' \in Seq(HeldRes) /\ Len(held) \in Nat \ {0}
        /\ Len(held') = Len(held) - 1
        /\ \A i \in 1..(Len(held) - 1) : held'[i] = held[i + 1]
    BY PopTyped DEF Pop
  <1>2. \A i \in DOMAIN held' :
          i \in Int /\ i + 1 \in DOMAIN held /\ held'[i] = held[i + 1]
    <2>1. DOMAIN held = 1..Len(held) /\ DOMAIN held' = 1..(Len(held) - 1)
      BY <1>1 DEF TypeOK
    <2> QED
      BY <1>1, <2>1
  <1>3. \A i \in DOMAIN held' : EntryOwns(held'[i], kernelObjs)
    BY <1>2 DEF HeldOnce
  <1>4. \A i \in DOMAIN held' : EntryOwns(held'[i], kernelObjs')
    BY <1>3 DEF Pop
  <1>5. HeldDistinct'
    BY <1>2 DEF HeldOnce, HeldDistinct
  <1> QED
    BY <1>4, <1>5 DEF HeldOnce

LEMMA HeldStep == HeldInv /\ [Next]_vars => HeldInv'
  <1> SUFFICES ASSUME HeldInv, [Next]_vars PROVE HeldInv'
    OBVIOUS
  <1>0. TypeOK /\ HeldOnce /\ nextId <= MaxObjects /\ nextId \in Nat /\ MaxObjects \in Nat
    BY MachineAssumption DEF HeldInv, TypeOK
  <1>1. TypeOK'
    BY <1>0, TypeStep
  <1>2. \A i \in DOMAIN held : held[i] \in HeldRes /\ EntryOwns(held[i], kernelObjs)
    BY <1>0 DEF TypeOK, HeldOnce
  <1>3. CASE SameProtocol
    BY <1>0, <1>1, <1>3 DEF SameProtocol, HeldInv, HeldOnce, HeldDistinct
  <1>4. CASE PushScoped
    <2> PICK r \in Resources, o \in HeldObjs :
           /\ CanPush(r) /\ Push(r, o)
           /\ \/ r \in Scopes /\ o = NoObj
              \/ r = "spinlock" /\ o.kind = "slot"
           /\ UNCHANGED <<kernelObjs, nextId, ring, trace>>
      BY <1>4 DEF PushScoped
    <2>1. EntryOwns([res |-> r, obj |-> o], kernelObjs') /\ o.kind # "object"
      BY ResourcesApart DEF EntryOwns, NoObj
    <2>2. HeldOnce'
      BY <1>0, <1>2, <2>1, ResourcesApart, PushKeepsHeldOnce
    <2> QED
      BY <1>0, <1>1, <2>2 DEF HeldInv
  <1>5. ASSUME NEW k \in ObjKinds, NEW n \in Nat, Fresh(k, n)
        PROVE  /\ nextId' <= MaxObjects
               /\ nextId \in DOMAIN kernelObjs' /\ kernelObjs'[nextId].kind = k
               /\ \A i \in DOMAIN held : EntryOwns(held[i], kernelObjs')
    <2>1. /\ nextId' = nextId + 1 /\ nextId < MaxObjects
          /\ kernelObjs' \in [0..(nextId' - 1) -> Objects]
          /\ kernelObjs'[nextId].kind = k
      BY <1>0, <1>5, FreshTyped
    <2>2. \A i \in DOMAIN held : EntryOwns(held[i], kernelObjs')
      BY <1>0, <1>2, <1>5, EntryOwnsStable
    <2> QED
      BY <1>0, <2>1, <2>2
  <1>6. Object(nextId) \in HeldObjs /\ Object(nextId).kind = "object" /\ Object(nextId).n = nextId
    BY <1>0, ObjTyped DEF Object
  <1>7. CanPush("ringbuf") /\ CanPush("sockref")
    BY DEF CanPush, MayNest
  <1>8. CASE PushRecord
    <2>1. PICK n \in Nat : Fresh("record", n) /\ Push("ringbuf", Object(nextId))
      BY <1>8 DEF PushRecord
    <2>2. /\ nextId' <= MaxObjects
          /\ EntryOwns([res |-> "ringbuf", obj |-> Object(nextId)], kernelObjs')
          /\ \A i \in DOMAIN held : EntryOwns(held[i], kernelObjs')
      BY <1>5, <1>6, <2>1, ResourcesApart DEF EntryOwns, OwnerKind, ObjKinds
    <2>3. HeldOnce'
      BY <1>0, <1>6, <1>7, <2>1, <2>2, PushKeepsHeldOnce DEF Resources
    <2> QED
      BY <1>1, <2>2, <2>3 DEF HeldInv
  <1>9. CASE PushSocket
    <2>1. Fresh("socket", 0) /\ Push("sockref", Object(nextId))
      BY <1>9 DEF PushSocket
    <2>2. /\ nextId' <= MaxObjects
          /\ EntryOwns([res |-> "sockref", obj |-> Object(nextId)], kernelObjs')
          /\ \A i \in DOMAIN held : EntryOwns(held[i], kernelObjs')
      BY <1>5, <1>6, <2>1, ResourcesApart DEF EntryOwns, OwnerKind, ObjKinds
    <2>3. HeldOnce'
      BY <1>0, <1>6, <1>7, <2>1, <2>2, PushKeepsHeldOnce DEF Resources
    <2> QED
      BY <1>1, <2>2, <2>3 DEF HeldInv
  <1>10. CASE Cast
    <2>1. Fresh("cast", 0) /\ held' = held
      BY <1>10 DEF Cast
    <2>2. /\ nextId' <= MaxObjects
          /\ \A i \in DOMAIN held : EntryOwns(held[i], kernelObjs')
      BY <1>5, <2>1 DEF ObjKinds
    <2> QED
      BY <1>0, <1>1, <2>1, <2>2 DEF HeldInv, HeldOnce, HeldDistinct
  <1>11. CASE PopPlain \/ PopSubmit \/ PopSocket
    <2>1. PICK r, o : Pop(r, o)
      BY <1>11 DEF PopPlain, PopSubmit, PopSocket
    <2>2. HeldOnce' /\ nextId' = nextId
      BY <1>0, <2>1, PopKeepsHeldOnce DEF Pop
    <2> QED
      BY <1>0, <1>1, <2>2 DEF HeldInv
  <1> QED
    BY <1>0, <1>3, <1>4, <1>8, <1>9, <1>10, <1>11, ProtocolShapes

(* No object is ever held twice, at most one spin lock is held, and every   *)
(* entry of the held stack owns a live object of its resource's kind, in    *)
(* whatever order a level calls the operations of Machine/Ops.lean.         *)
THEOREM HeldOnceHolds == Spec => []HeldOnce
  <1>1. HeldInv => HeldOnce
    BY DEF HeldInv
  <1> QED
    BY <1>1, HeldInit, HeldStep, PTL DEF Spec

-----------------------------------------------------------------------------
(* The machine implements the ownership specification.                      *)

LEMMA HeldIdsPushed ==
  ASSUME TypeOK, NEW r \in Resources, NEW o \in HeldObjs, Push(r, o)
  PROVE  HeldIds(held') = HeldIds(held) \cup (IF o.kind = "object" THEN {o.n} ELSE {})
  <1>1. /\ held' \in Seq(HeldRes) /\ Len(held') = Len(held) + 1
        /\ held'[1] = [res |-> r, obj |-> o]
        /\ \A i \in 1..Len(held) : held'[i + 1] = held[i]
    BY PushTyped
  <1>2. Len(held) \in Nat /\ DOMAIN held = 1..Len(held) /\ DOMAIN held' = 1..(Len(held) + 1)
    BY <1>1 DEF TypeOK
  <1>3. 1 \in DOMAIN held' /\ held'[1].obj = o
    BY <1>1, <1>2
  <1>4. \A i \in DOMAIN held : i + 1 \in DOMAIN held' /\ held'[i + 1] = held[i]
    BY <1>1, <1>2
  <1>5. \A i \in DOMAIN held' : i = 1 \/ (i - 1 \in DOMAIN held /\ held'[i] = held[i - 1])
    BY <1>1, <1>2
  <1>6. ASSUME NEW n \in HeldIds(held')
        PROVE  n \in HeldIds(held) \cup (IF o.kind = "object" THEN {o.n} ELSE {})
    BY <1>3, <1>5, <1>6 DEF HeldIds
  <1>7. ASSUME NEW n \in HeldIds(held) \cup (IF o.kind = "object" THEN {o.n} ELSE {})
        PROVE  n \in HeldIds(held')
    BY <1>3, <1>4, <1>7 DEF HeldIds
  <1> QED
    BY <1>6, <1>7

LEMMA HeldIdsPopped ==
  ASSUME TypeOK, HeldOnce, NEW r, NEW o, Pop(r, o)
  PROVE  /\ o.kind = "object" =>
              /\ o.n \in HeldIds(held) /\ HeldIds(held') = HeldIds(held) \ {o.n}
              /\ o.n \in DOMAIN kernelObjs /\ kernelObjs[o.n].kind # "cast"
         /\ o.kind # "object" => HeldIds(held') = HeldIds(held)
  <1>1. /\ held' \in Seq(HeldRes) /\ Len(held) \in Nat \ {0}
        /\ Len(held') = Len(held) - 1
        /\ held[1] \in HeldRes /\ held[1].res = r /\ held[1].obj = o
        /\ \A i \in 1..(Len(held) - 1) : held'[i] = held[i + 1]
    BY PopTyped DEF Pop
  <1>2. /\ 1 \in DOMAIN held /\ held \in Seq(HeldRes)
        /\ \A i \in DOMAIN held : i = 1 \/ (i - 1 \in DOMAIN held' /\ held'[i - 1] = held[i])
        /\ \A i \in DOMAIN held' : i + 1 \in DOMAIN held /\ i + 1 # 1 /\ held'[i] = held[i + 1]
    <2>1. /\ held \in Seq(HeldRes)
          /\ DOMAIN held = 1..Len(held) /\ DOMAIN held' = 1..(Len(held) - 1)
      BY <1>1 DEF TypeOK
    <2> QED
      BY <1>1, <2>1
  <1>3. \A n \in HeldIds(held') : n \in HeldIds(held)
    BY <1>2 DEF HeldIds
  <1>4. ASSUME o.kind = "object"
        PROVE  /\ o.n \in HeldIds(held) /\ o.n \notin HeldIds(held')
               /\ o.n \in DOMAIN kernelObjs /\ kernelObjs[o.n].kind # "cast"
    <2>1. o.n \in HeldIds(held)
      BY <1>1, <1>2, <1>4 DEF HeldIds
    <2>2. \A i \in DOMAIN held : i # 1 => held[i].obj # o
      BY <1>1, <1>2, <1>4 DEF HeldOnce, HeldDistinct
    <2>3. /\ \A i \in DOMAIN held : held[i].obj \in HeldObjs
          /\ o \in HeldObjs
      <3>1. \A i \in DOMAIN held : held[i] \in HeldRes
        BY <1>2
      <3> QED
        BY <3>1, <1>1 DEF HeldRes
    <2>4. ASSUME NEW i \in DOMAIN held, i # 1, held[i].obj.kind = "object"
          PROVE  held[i].obj.n # o.n
      <3>1. held[i].obj \in HeldObjs /\ held[i].obj # o
        BY <2>2, <2>3, <2>4
      <3> QED
        BY <3>1, <1>4, <2>3, <2>4 DEF HeldObjs
    <2>5. o.n \notin HeldIds(held')
      BY <1>2, <2>4 DEF HeldIds
    <2>6. r \in {"ringbuf", "sockref"} /\ EntryOwns(held[1], kernelObjs)
      BY <1>1, <1>2, <1>4, OwnedBelowNext DEF HeldOnce
    <2> QED
      BY <1>1, <2>1, <2>5, <2>6 DEF EntryOwns, OwnerKind
  <1>5. ASSUME NEW n \in HeldIds(held)
        PROVE  n \in HeldIds(held') \/ (o.kind = "object" /\ n = o.n)
    <2>1. PICK i \in DOMAIN held : held[i].obj.kind = "object" /\ held[i].obj.n = n
      BY <1>5 DEF HeldIds
    <2>2. CASE i = 1
      BY <1>1, <2>1, <2>2
    <2>3. CASE i # 1
      BY <1>2, <2>1, <2>3 DEF HeldIds
    <2> QED
      BY <2>2, <2>3
  <1> QED
    BY <1>3, <1>4, <1>5

LEMMA OwnedLive ==
  ASSUME TypeOK, HeldOnce
  PROVE  HeldIds(held) \subseteq DOMAIN kernelObjs
  <1>1. ASSUME NEW i \in DOMAIN held, held[i].obj.kind = "object"
        PROVE  held[i].obj.n \in DOMAIN kernelObjs
    BY <1>1, OwnedBelowNext DEF HeldOnce, EntryOwns
  <1> QED
    BY <1>1 DEF HeldIds

LEMMA OwnershipInit == Init => Owns!Init
  BY DEF Init, Owns!Init, OwnedRefs, DischargedRefs, HeldIds

LEMMA OwnershipStep ==
  HeldInv /\ [Next]_vars => [Owns!Next]_<<OwnedRefs, DischargedRefs>>
  <1> SUFFICES ASSUME HeldInv, [Next]_vars
               PROVE  \/ UNCHANGED <<OwnedRefs, DischargedRefs>>
                      \/ \E n \in 0..(MaxObjects - 1) : Owns!Take(n) \/ Owns!Discharge(n)
    BY DEF Owns!Next
  <1>0. /\ TypeOK /\ HeldOnce /\ nextId \in Nat /\ MaxObjects \in Nat /\ nextId <= MaxObjects
        /\ DOMAIN kernelObjs = 0..(nextId - 1)
    BY MachineAssumption DEF HeldInv, TypeOK
  <1>1. HeldIds(held) \subseteq DOMAIN kernelObjs /\ nextId \notin DOMAIN kernelObjs
    BY <1>0, OwnedLive
  <1>2. ASSUME NEW k \in ObjKinds, NEW n \in Nat, Fresh(k, n)
        PROVE  /\ DOMAIN kernelObjs' = DOMAIN kernelObjs \cup {nextId}
               /\ kernelObjs'[nextId].kind = k
               /\ \A i \in DOMAIN kernelObjs : kernelObjs'[i] = kernelObjs[i]
               /\ nextId \in 0..(MaxObjects - 1)
    <2>1. /\ nextId' = nextId + 1 /\ nextId < MaxObjects
          /\ kernelObjs' \in [0..(nextId' - 1) -> Objects]
          /\ kernelObjs'[nextId].kind = k
          /\ \A i \in 0..(nextId - 1) : kernelObjs'[i] = kernelObjs[i]
      BY <1>0, <1>2, FreshTyped
    <2>2. 0..(nextId' - 1) = 0..(nextId - 1) \cup {nextId}
      BY <1>0, <2>1
    <2> QED
      BY <1>0, <2>1, <2>2
  <1>3. Object(nextId) \in HeldObjs /\ Object(nextId).kind = "object" /\ Object(nextId).n = nextId
    BY <1>0, ObjTyped DEF Object
  <1>4. CASE SameProtocol
    BY <1>4 DEF SameProtocol, OwnedRefs, DischargedRefs
  <1>5. CASE PushScoped
    <2> PICK r \in Resources, o \in HeldObjs :
           /\ Push(r, o)
           /\ \/ r \in Scopes /\ o = NoObj
              \/ r = "spinlock" /\ o.kind = "slot"
           /\ UNCHANGED <<kernelObjs, nextId, ring, trace>>
      BY <1>5 DEF PushScoped
    <2>1. o.kind # "object"
      BY DEF NoObj
    <2>2. HeldIds(held') = HeldIds(held)
      BY <1>0, <2>1, HeldIdsPushed
    <2> QED
      BY <2>2 DEF OwnedRefs, DischargedRefs
  <1>6. ASSUME NEW k \in {"record", "socket"}, NEW n \in Nat, Fresh(k, n),
               NEW r \in Resources, Push(r, Object(nextId))
        PROVE  \E m \in 0..(MaxObjects - 1) : Owns!Take(m)
    <2>1. HeldIds(held') = HeldIds(held) \cup {nextId}
      BY <1>0, <1>3, <1>6, HeldIdsPushed
    <2>2. /\ DOMAIN kernelObjs' = DOMAIN kernelObjs \cup {nextId}
          /\ kernelObjs'[nextId].kind = k /\ k # "cast"
          /\ \A i \in DOMAIN kernelObjs : kernelObjs'[i] = kernelObjs[i]
          /\ nextId \in 0..(MaxObjects - 1)
      BY <1>2, <1>6 DEF ObjKinds
    <2>3. DischargedRefs' = DischargedRefs
      BY <1>1, <2>1, <2>2 DEF DischargedRefs, OwnedRefs
    <2>4. nextId \notin OwnedRefs \cup DischargedRefs
      BY <1>1 DEF DischargedRefs, OwnedRefs
    <2>5. Owns!Take(nextId)
      BY <2>1, <2>3, <2>4 DEF Owns!Take, OwnedRefs
    <2> QED
      BY <2>2, <2>5
  <1>7. CASE PushRecord
    BY <1>6, <1>7 DEF PushRecord, Resources
  <1>8. CASE PushSocket
    BY <1>6, <1>8 DEF PushSocket, Resources
  <1>9. CASE Cast
    <2>1. Fresh("cast", 0) /\ held' = held
      BY <1>9 DEF Cast
    <2>2. /\ DOMAIN kernelObjs' = DOMAIN kernelObjs \cup {nextId}
          /\ kernelObjs'[nextId].kind = "cast"
          /\ \A i \in DOMAIN kernelObjs : kernelObjs'[i] = kernelObjs[i]
      BY <1>2, <2>1 DEF ObjKinds
    <2>3. DischargedRefs' = DischargedRefs /\ OwnedRefs' = OwnedRefs
      BY <2>1, <2>2 DEF DischargedRefs, OwnedRefs
    <2> QED
      BY <2>3
  <1>10. CASE PopPlain \/ PopSubmit \/ PopSocket
    <2>1. PICK r, o : Pop(r, o)
      BY <1>10 DEF PopPlain, PopSubmit, PopSocket
    <2>2. kernelObjs' = kernelObjs
      BY <2>1 DEF Pop
    <2>3. CASE o.kind = "object"
      <3>1. /\ o.n \in HeldIds(held) /\ HeldIds(held') = HeldIds(held) \ {o.n}
            /\ o.n \in DOMAIN kernelObjs /\ kernelObjs[o.n].kind # "cast"
        BY <1>0, <2>1, <2>3, HeldIdsPopped
      <3>2. DischargedRefs' = DischargedRefs \cup {o.n}
        BY <2>2, <3>1 DEF DischargedRefs, OwnedRefs
      <3>3. Owns!Discharge(o.n)
        BY <3>1, <3>2 DEF Owns!Discharge, OwnedRefs
      <3>4. o.n \in 0..(MaxObjects - 1)
        BY <1>0, <3>1
      <3> QED
        BY <3>3, <3>4
    <2>4. CASE o.kind # "object"
      <3>1. HeldIds(held') = HeldIds(held)
        BY <1>0, <2>1, <2>4, HeldIdsPopped
      <3> QED
        BY <2>2, <3>1 DEF OwnedRefs, DischargedRefs
    <2> QED
      BY <2>3, <2>4
  <1> QED
    BY <1>0, <1>4, <1>5, <1>7, <1>8, <1>9, <1>10, ProtocolShapes

(* Every behaviour of the machine is one of the ownership specification:    *)
(* each record and socket reference is taken once and discharged at most    *)
(* once, never while it is not owned (spec/language.md row M3).             *)
THEOREM MachineOwns == Spec => OwnershipSpec
  <1>1. Spec => []HeldInv
    BY HeldInit, HeldStep, PTL DEF Spec
  <1> QED
    BY <1>1, OwnershipInit, OwnershipStep, PTL DEF Spec, OwnershipSpec, Owns!Spec

-----------------------------------------------------------------------------
(* Regions: the packet's views and the hash map's places.                   *)

(* Only a resize changes the packet, and only the map's operations its      *)
(* entries and places.                                                      *)
LEMMA RegionShapes ==
  ASSUME TypeOK, [Next]_vars
  PROVE  \/ UNCHANGED <<mapVars, pktVars>>
         \/ UNCHANGED pktVars /\ \E k \in Keys : Lookup(k) \/ Update(k) \/ Delete(k)
         \/ UNCHANGED mapVars /\ \E r \in ViewRanges : View(r[1], r[2])
         \/ /\ UNCHANGED <<mapVars, views>> /\ layout' = layout + 1
            /\ \E d \in Deltas : packet' = packet + d
  <1>0. CASE UNCHANGED vars
    BY <1>0 DEF vars
  <1>1. CASE Running /\ Fail
    BY <1>1 DEF Fail
  <1>2. CASE \/ \E r \in Scopes : Enter(r)
             \/ \E p \in places : Lock(p)
             \/ \E r \in Resources \ {"sockref"}, o \in HeldObjs : PopHeld(r, o)
             \/ \E n \in RecordSizes : Reserve(n)
             \/ \E i \in Nat : Submit(i)
    BY <1>1, <1>2 DEF Enter, Lock, PopHeld, Reserve, Submit
  <1>3. CASE SkLookup \/ SkCast \/ (\E i \in Nat : SkRelease(i))
               \/ (\E o \in Outcomes : OtherCall(o))
    BY <1>1, <1>3 DEF SkLookup, SkCast, SkRelease, OtherCall
  <1>4. CASE \E d \in Deltas : Resize(d)
    BY <1>1, <1>4 DEF Resize
  <1>5. CASE \E k \in Keys : Lookup(k) \/ Update(k) \/ Delete(k)
    BY <1>5 DEF Lookup, Update, Delete
  <1>6. CASE \E r \in ViewRanges : View(r[1], r[2])
    BY <1>6 DEF View, pktVars
  <1> QED
    BY <1>0, <1>1, <1>2, <1>3, <1>4, <1>5, <1>6, StepCases

LEMMA ViewsInit == Init => ViewsInPacket
  BY DEF Init, ViewsInPacket

LEMMA ViewsStep == TypeOK /\ ViewsInPacket /\ [Next]_vars => ViewsInPacket'
  <1> SUFFICES ASSUME TypeOK, ViewsInPacket, [Next]_vars PROVE ViewsInPacket'
    OBVIOUS
  <1>0. layout \in Nat /\ packet \in Nat /\ \A v \in views : v.tok \in Nat
    BY DEF TypeOK, Views
  <1>1. CASE UNCHANGED pktVars
    BY <1>1 DEF pktVars, ViewsInPacket
  <1>2. CASE \E r \in ViewRanges : View(r[1], r[2])
    BY <1>0, <1>2 DEF View, ViewsInPacket
  <1>3. CASE views' = views /\ layout' = layout + 1
    BY <1>0, <1>3 DEF ViewsInPacket
  <1> QED
    BY <1>1, <1>2, <1>3, RegionShapes

(* A view whose token is current lies within the packet, however the packet *)
(* was resized since the view was taken (Machine/State.lean admits).        *)
THEOREM ViewsStayInPacket == Spec => []ViewsInPacket
  BY TypeInit, TypeStep, ViewsInit, ViewsStep, PTL DEF Spec

(* Numbers below the next one are never given out again, so a place and the *)
(* entry it reaches agree on the key.                                       *)
LEMMA PlacesInit == Init => PlacesKeepTheirKey
  BY DEF Init, PlacesKeepTheirKey

LEMMA PlacesStep ==
  TypeOK /\ EntryNumbersDistinct /\ PlacesKeepTheirKey /\ [Next]_vars
    => EntryNumbersDistinct' /\ PlacesKeepTheirKey'
  <1> SUFFICES ASSUME TypeOK, EntryNumbersDistinct, PlacesKeepTheirKey, [Next]_vars
               PROVE  EntryNumbersDistinct' /\ PlacesKeepTheirKey'
    OBVIOUS
  <1>0. /\ nextEntry \in Nat
        /\ \A e \in entries \cup places : e.num \in Nat /\ e.num < nextEntry
    BY DEF TypeOK, PlacesKeepTheirKey
  <1>1. CASE UNCHANGED mapVars
    BY <1>1 DEF mapVars, PlacesKeepTheirKey, Reaches, EntryNumbersDistinct
  <1>2. ASSUME NEW k \in Keys, Lookup(k)
        PROVE  EntryNumbersDistinct' /\ PlacesKeepTheirKey'
    <2>1. EntryOf(k) \subseteq entries
      BY DEF EntryOf
    <2> QED
      BY <1>0, <1>2, <2>1
      DEF Lookup, PlacesKeepTheirKey, Reaches, EntryNumbersDistinct
  <1>3. ASSUME NEW k \in Keys, Update(k)
        PROVE  EntryNumbersDistinct' /\ PlacesKeepTheirKey'
    BY <1>0, <1>3 DEF Update, PlacesKeepTheirKey, Reaches, EntryNumbersDistinct
  <1>4. ASSUME NEW k \in Keys, Delete(k)
        PROVE  EntryNumbersDistinct' /\ PlacesKeepTheirKey'
    BY <1>0, <1>4 DEF Delete, PlacesKeepTheirKey, Reaches, EntryNumbersDistinct
  <1> QED
    BY <1>1, <1>2, <1>3, <1>4, RegionShapes

(* A place obtained by a lookup never comes to name another key's entry,    *)
(* whatever is deleted and inserted meanwhile (Machine/Maps.lean).          *)
THEOREM PlacesNeverRetargeted == Spec => []PlacesKeepTheirKey
  <1>1. Init => EntryNumbersDistinct
    BY DEF Init, EntryNumbersDistinct
  <1> QED
    BY <1>1, TypeInit, TypeStep, PlacesInit, PlacesStep, PTL DEF Spec

(***************************************************************************)
(* What the shared machine leaves behind it: the trace of kernel calls,    *)
(* the ring's records and the hash map's entries.                          *)
(***************************************************************************)
-----------------------------------------------------------------------------
(* Calls in a critical section.                                             *)

LEMMA LockRefusesCalls ==
  ASSUME \E i \in DOMAIN held : held[i].res = "spinlock"
  PROVE  ForbidsCall({}) /\ ForbidsCall({"sockref"})
  BY DEF ForbidsCall, Forbidden

LEMMA CallStep ==
  ASSUME TypeOK, [Next]_vars, \E i \in DOMAIN held : held[i].res = "spinlock"
  PROVE  trace' = trace
  <1> USE LockRefusesCalls
  <1>0. CASE UNCHANGED vars
    BY <1>0 DEF vars, protocol
  <1>1. CASE Running /\ Fail
    BY <1>1 DEF Fail, protocol
  <1>2. CASE \/ \E r \in Scopes : Enter(r)
             \/ \E p \in places : Lock(p)
             \/ \E r \in Resources \ {"sockref"}, o \in HeldObjs : PopHeld(r, o)
             \/ \E n \in RecordSizes : Reserve(n)
             \/ \E i \in Nat : Submit(i)
    BY <1>1, <1>2 DEF Enter, Lock, PopHeld, Reserve, Submit
  <1>3. CASE SkLookup \/ SkCast \/ (\E i \in Nat : SkRelease(i))
               \/ (\E o \in Outcomes : OtherCall(o)) \/ (\E d \in Deltas : Resize(d))
    BY <1>1, <1>3 DEF SkLookup, SkCast, SkRelease, OtherCall, Resize
  <1>4. CASE \/ \E k \in Keys : Lookup(k) \/ Update(k) \/ Delete(k)
             \/ \E r \in ViewRanges : View(r[1], r[2])
    BY <1>4 DEF Lookup, Update, Delete, View, protocol
  <1> QED
    BY <1>0, <1>1, <1>2, <1>3, <1>4, StepCases

(* No kernel call is made while a spin lock is anywhere on the held stack,  *)
(* not even the release of a resource held inside it (Ops.lean forbidsCall).*)
THEOREM CriticalSectionsMakeNoCall == Spec => NoCallInCriticalSection
  <1>1. TypeOK /\ [Next]_vars
          => [(\E i \in DOMAIN held : held[i].res = "spinlock") => trace' = trace]_vars
    BY CallStep
  <1> QED
    BY <1>1, TypeInit, TypeStep, PTL DEF Spec, NoCallInCriticalSection

-----------------------------------------------------------------------------
(* The hash map's entries.                                                  *)

KeysDistinct == \A e, f \in entries : e.key = f.key => e = f

EntryInv ==
  /\ TypeOK /\ PlacesKeepTheirKey /\ EntryNumbersDistinct /\ KeysDistinct
  /\ IsFiniteSet(entries) /\ Cardinality(entries) <= Capacity

LEMMA EntryInit == Init => EntryInv
  BY TypeInit, PlacesInit, FS_EmptySet, MachineAssumption
  DEF Init, EntryInv, EntryNumbersDistinct, KeysDistinct

LEMMA EntryStep == EntryInv /\ [Next]_vars => EntryInv'
  <1> SUFFICES ASSUME EntryInv, [Next]_vars PROVE EntryInv'
    OBVIOUS
  <1>0. TypeOK' /\ PlacesKeepTheirKey' /\ EntryNumbersDistinct'
    BY TypeStep, PlacesStep DEF EntryInv
  <1>1. /\ KeysDistinct /\ IsFiniteSet(entries) /\ Cardinality(entries) \in Nat
        /\ Cardinality(entries) <= Capacity /\ Capacity \in Nat
    BY FS_CardinalityType, MachineAssumption DEF EntryInv
  <1>2. CASE entries' = entries
    BY <1>0, <1>1, <1>2 DEF EntryInv, KeysDistinct
  <1>3. ASSUME NEW k \in Keys, Update(k)
        PROVE  EntryInv'
    <2> DEFINE e == [num |-> nextEntry, key |-> k]
    <2>1. entries' = entries \cup {e} /\ EntryOf(k) = {} /\ Cardinality(entries) < Capacity
      BY <1>3 DEF Update
    <2>2. \A f \in entries : f.key # k
      BY <2>1 DEF EntryOf
    <2>3. KeysDistinct'
      BY <1>1, <2>1, <2>2 DEF KeysDistinct
    <2>4. e \notin entries
      BY <2>2
    <2>5. IsFiniteSet(entries') /\ Cardinality(entries') = Cardinality(entries) + 1
      BY <1>1, <2>1, <2>4, FS_AddElement
    <2> QED
      BY <1>0, <1>1, <2>1, <2>3, <2>5 DEF EntryInv
  <1>4. ASSUME NEW k \in Keys, Delete(k)
        PROVE  EntryInv'
    <2>1. entries' \subseteq entries
      BY <1>4 DEF Delete
    <2>2. /\ IsFiniteSet(entries') /\ Cardinality(entries') \in Nat
          /\ Cardinality(entries') <= Cardinality(entries)
      BY <1>1, <2>1, FS_Subset, FS_CardinalityType
    <2>3. KeysDistinct'
      BY <1>1, <2>1 DEF KeysDistinct
    <2> QED
      BY <1>0, <1>1, <2>2, <2>3 DEF EntryInv
  <1>5. \/ entries' = entries
        \/ \E k \in Keys : Update(k) \/ Delete(k)
    <2>1. CASE \E k \in Keys : Lookup(k)
      BY <2>1 DEF Lookup
    <2> QED
      BY <2>1, RegionShapes DEF EntryInv, mapVars
  <1> QED
    BY <1>2, <1>3, <1>4, <1>5

(* One entry per number and per key, within the map's capacity, after any   *)
(* inserts and deletes in any order (Machine/Maps.lean update, delete).     *)
THEOREM EntriesStayDistinct == Spec => []EntriesDistinct
  <1>1. EntryInv => EntriesDistinct
    BY DEF EntryInv, EntriesDistinct, KeysDistinct
  <1> QED
    BY <1>1, EntryInit, EntryStep, PTL DEF Spec

-----------------------------------------------------------------------------
(* Ring-buffer records.                                                     *)

RecordInv == HeldInv /\ RecordsOnce

LEMMA RecordInit == Init => RecordInv
  BY HeldInit DEF RecordInv, Init, RecordsOnce

(* A ring that stays as it is keeps its records, as long as no number in it *)
(* becomes held and the objects it names stay.                              *)
LEMMA SameRing ==
  ASSUME RecordInv, ring' = ring, nextId' >= nextId, nextId' \in Nat,
         \A n \in Nat : n < nextId => kernelObjs'[n] = kernelObjs[n],
         \A n \in HeldIds(held') : n \in HeldIds(held) \/ n = nextId
  PROVE  RecordsOnce'
  <1>1. /\ RecordsOnce /\ nextId \in Nat
        /\ \A i \in DOMAIN ring : ring[i] \in Nat
    BY DEF RecordInv, HeldInv, TypeOK
  <1>2. \A i \in DOMAIN ring :
          /\ ring[i] < nextId /\ kernelObjs'[ring[i]].kind = "record"
          /\ ring[i] \notin HeldIds(held')
    BY <1>1 DEF RecordsOnce
  <1> QED
    BY <1>1, <1>2 DEF RecordsOnce

LEMMA RecordStep == RecordInv /\ [Next]_vars => RecordInv'
  <1> SUFFICES ASSUME RecordInv, [Next]_vars PROVE RecordsOnce'
    BY HeldStep DEF RecordInv
  <1>0. /\ HeldInv /\ TypeOK /\ HeldOnce /\ RecordsOnce /\ nextId \in Nat
        /\ ring \in Seq(Nat)
    BY DEF RecordInv, HeldInv, TypeOK
  <1>1. ASSUME UNCHANGED <<ring, kernelObjs, nextId>>,
               \A n \in HeldIds(held') : n \in HeldIds(held)
        PROVE  RecordsOnce'
    BY <1>0, <1>1, SameRing
  <1>2. ASSUME NEW k \in ObjKinds, NEW n \in Nat, Fresh(k, n), ring' = ring,
               \A m \in HeldIds(held') : m \in HeldIds(held) \/ m = nextId
        PROVE  RecordsOnce'
    <2>1. /\ nextId' = nextId + 1
          /\ \A i \in 0..(nextId - 1) : kernelObjs'[i] = kernelObjs[i]
      BY <1>0, <1>2, FreshTyped
    <2> QED
      BY <1>0, <1>2, <2>1, SameRing
  <1>3. CASE SameProtocol \/ Cast
    BY <1>1, <1>2, <1>3 DEF SameProtocol, Cast, ObjKinds
  <1>4. CASE PushScoped
    <2> PICK r \in Resources, o \in HeldObjs :
           /\ Push(r, o)
           /\ \/ r \in Scopes /\ o = NoObj
              \/ r = "spinlock" /\ o.kind = "slot"
           /\ UNCHANGED <<kernelObjs, nextId, ring, trace>>
      BY <1>4 DEF PushScoped
    <2>1. o.kind # "object"
      BY DEF NoObj
    <2>2. HeldIds(held') = HeldIds(held)
      BY <1>0, <2>1, HeldIdsPushed
    <2> QED
      BY <1>1, <2>2
  <1>5. CASE PushRecord \/ PushSocket
    <2>1. PICK k \in ObjKinds, n \in Nat, r \in Resources :
            Fresh(k, n) /\ Push(r, Object(nextId)) /\ ring' = ring
      BY <1>5 DEF PushRecord, PushSocket, ObjKinds, Resources
    <2>2. Object(nextId) \in HeldObjs /\ Object(nextId).n = nextId
      BY <1>0, ObjTyped DEF Object
    <2>3. \A m \in HeldIds(held') : m \in HeldIds(held) \/ m = nextId
      BY <1>0, <2>1, <2>2, HeldIdsPushed
    <2> QED
      BY <1>2, <2>1, <2>3
  <1>6. CASE PopPlain \/ PopSocket
    <2>1. PICK r, o : Pop(r, o) /\ ring' = ring
      BY <1>6 DEF PopPlain, PopSocket
    <2>2. \A n \in HeldIds(held') : n \in HeldIds(held)
      BY <1>0, <2>1, HeldIdsPopped
    <2> QED
      BY <1>1, <2>1, <2>2 DEF Pop
  <1>7. CASE PopSubmit
    <2>1. PICK n \in Nat : Pop("ringbuf", Object(n)) /\ ring' = Append(ring, n)
      BY <1>7 DEF PopSubmit
    <2>2. /\ n \in HeldIds(held) /\ HeldIds(held') = HeldIds(held) \ {n}
          /\ UNCHANGED <<kernelObjs, nextId>>
      BY <1>0, <2>1, HeldIdsPopped, SMTT(60) DEF Object, Pop
    <2>3. n < nextId /\ kernelObjs[n].kind = "record"
      <3>1. /\ 1 \in DOMAIN held /\ held[1].res = "ringbuf" /\ held[1].obj = Object(n)
        BY <1>0, <2>1, PopTyped, SMTT(60) DEF Pop, TypeOK
      <3>2. EntryOwns(held[1], kernelObjs)
        BY <1>0, <3>1 DEF HeldOnce
      <3> QED
        BY <1>0, <3>1, <3>2 DEF EntryOwns, OwnerKind, Object, TypeOK
    <2>4. /\ DOMAIN ring' = 1..(Len(ring) + 1) /\ ring'[Len(ring) + 1] = n
          /\ \A i \in 1..Len(ring) : ring'[i] = ring[i]
          /\ DOMAIN ring = 1..Len(ring) /\ Len(ring) \in Nat
      BY <1>0, <2>1, AppendSeq
    <2>5. \A i \in DOMAIN ring' : i = Len(ring) + 1 \/ (i \in DOMAIN ring /\ ring'[i] = ring[i])
      BY <2>4
    <2>6. \A i \in DOMAIN ring : ring[i] # n
      BY <1>0, <2>2 DEF RecordsOnce
    <2>7. \A i \in DOMAIN ring' :
            /\ ring'[i] < nextId /\ kernelObjs[ring'[i]].kind = "record"
            /\ ring'[i] \notin HeldIds(held')
      BY <1>0, <2>2, <2>3, <2>4, <2>5 DEF RecordsOnce
    <2>8. \A i, j \in DOMAIN ring' : i # j => ring'[i] # ring'[j]
      BY <1>0, <2>4, <2>5, <2>6 DEF RecordsOnce
    <2> QED
      BY <2>2, <2>7, <2>8 DEF RecordsOnce
  <1> QED
    BY <1>0, <1>3, <1>4, <1>5, <1>6, <1>7, ProtocolShapes

(* A record reaches the ring at most once, and is not held when it is       *)
(* there (Ops.lean reserve, submit, discard).                               *)
THEOREM RecordsSubmittedOnce == Spec => []RecordsOnce
  <1>1. RecordInv => RecordsOnce
    BY DEF RecordInv
  <1> QED
    BY <1>1, RecordInit, RecordStep, PTL DEF Spec

-----------------------------------------------------------------------------
(* Socket references.                                                       *)

LEMMA TracedAppended ==
  ASSUME TypeOK, NEW d \in Calls, NEW i \in Nat \cup {-1}, NEW o \in Outcomes,
         Record(d, i, o), NEW c
  PROVE  /\ DOMAIN trace = 1..Len(trace) /\ Len(trace) \in Nat
         /\ TracedWith(c) \subseteq 1..Len(trace)
         /\ TracedWith(c)' = TracedWith(c) \cup
              (IF c = d /\ o = "ok" THEN {Len(trace) + 1} ELSE {})
         /\ trace'[Len(trace) + 1].obj = i
         /\ \A j \in TracedWith(c) : trace'[j] = trace[j]
  <1>1. /\ trace \in Seq(Events) /\ trace' \in Seq(Events)
        /\ Len(trace') = Len(trace) + 1 /\ Len(trace) \in Nat
        /\ trace'[Len(trace) + 1] = Event(d, i, o)
        /\ \A j \in 1..Len(trace) : trace'[j] = trace[j]
    <2>1. trace \in Seq(Events) /\ Len(trace) \in Nat
      BY DEF TypeOK
    <2>2. /\ trace' \in Seq(Events) /\ Len(trace') = Len(trace) + 1
          /\ trace'[Len(trace')] = Event(d, i, o)
          /\ \A j \in 1..Len(trace) : trace'[j] = trace[j]
      BY RecordTyped
    <2> QED
      BY <2>1, <2>2
  <1>2. DOMAIN trace = 1..Len(trace) /\ DOMAIN trace' = 1..(Len(trace) + 1)
    BY <1>1
  <1>3. \A j \in DOMAIN trace' : j = Len(trace) + 1 \/ (j \in DOMAIN trace /\ trace'[j] = trace[j])
    BY <1>1, <1>2
  <1>4. \A j \in DOMAIN trace : j \in DOMAIN trace' /\ trace'[j] = trace[j]
    BY <1>1, <1>2
  <1>5. Len(trace) + 1 \in DOMAIN trace'
    BY <1>1, <1>2
  <1>6. trace'[Len(trace) + 1].obj = i /\ trace'[Len(trace) + 1].decl = d
          /\ trace'[Len(trace) + 1].out = o
    BY <1>1 DEF Event
  <1>7. TracedWith(c)' = TracedWith(c) \cup
              (IF c = d /\ o = "ok" THEN {Len(trace) + 1} ELSE {})
    BY <1>3, <1>4, <1>5, <1>6 DEF TracedWith
  <1> QED
    BY <1>1, <1>2, <1>4, <1>6, <1>7 DEF TracedWith

LEMMA SocketsPushed ==
  ASSUME TypeOK, NEW r \in Resources, NEW o \in HeldObjs, Push(r, o)
  PROVE  HeldSockets' = HeldSockets \cup (IF r = "sockref" THEN {o.n} ELSE {})
  <1>1. /\ held' \in Seq(HeldRes) /\ Len(held') = Len(held) + 1
        /\ held'[1] = [res |-> r, obj |-> o]
        /\ \A i \in 1..Len(held) : held'[i + 1] = held[i]
    BY PushTyped
  <1>2. Len(held) \in Nat /\ DOMAIN held = 1..Len(held) /\ DOMAIN held' = 1..(Len(held) + 1)
    BY <1>1 DEF TypeOK
  <1>3. 1 \in DOMAIN held' /\ held'[1].obj = o /\ held'[1].res = r
    BY <1>1, <1>2
  <1>4. \A i \in DOMAIN held : i + 1 \in DOMAIN held' /\ held'[i + 1] = held[i]
    BY <1>1, <1>2
  <1>5. \A i \in DOMAIN held' : i = 1 \/ (i - 1 \in DOMAIN held /\ held'[i] = held[i - 1])
    BY <1>1, <1>2
  <1>6. ASSUME NEW n \in HeldSockets'
        PROVE  n \in HeldSockets \cup (IF r = "sockref" THEN {o.n} ELSE {})
    BY <1>3, <1>5, <1>6 DEF HeldSockets
  <1>7. ASSUME NEW n \in HeldSockets \cup (IF r = "sockref" THEN {o.n} ELSE {})
        PROVE  n \in HeldSockets'
    BY <1>3, <1>4, <1>7 DEF HeldSockets
  <1> QED
    BY <1>6, <1>7

LEMMA SocketsPopped ==
  ASSUME TypeOK, HeldOnce, NEW r, NEW o, Pop(r, o)
  PROVE  /\ r = "sockref" => o.n \in HeldSockets /\ HeldSockets' = HeldSockets \ {o.n}
         /\ r # "sockref" => HeldSockets' = HeldSockets
  <1>1. /\ held' \in Seq(HeldRes) /\ Len(held) \in Nat \ {0}
        /\ Len(held') = Len(held) - 1
        /\ held[1] \in HeldRes /\ held[1].res = r /\ held[1].obj = o
        /\ \A i \in 1..(Len(held) - 1) : held'[i] = held[i + 1]
    BY PopTyped DEF Pop
  <1>2. /\ 1 \in DOMAIN held /\ held \in Seq(HeldRes)
        /\ \A i \in DOMAIN held : i = 1 \/ (i - 1 \in DOMAIN held' /\ held'[i - 1] = held[i])
        /\ \A i \in DOMAIN held' : i + 1 \in DOMAIN held /\ i + 1 # 1 /\ held'[i] = held[i + 1]
    <2>1. /\ held \in Seq(HeldRes)
          /\ DOMAIN held = 1..Len(held) /\ DOMAIN held' = 1..(Len(held) - 1)
      BY <1>1 DEF TypeOK
    <2> QED
      BY <1>1, <2>1
  <1>3. \A n \in HeldSockets' : n \in HeldSockets
    BY <1>2 DEF HeldSockets
  <1>4. ASSUME r = "sockref"
        PROVE  o.n \in HeldSockets /\ o.n \notin HeldSockets'
    <2>1. o.n \in HeldSockets
      BY <1>1, <1>2, <1>4 DEF HeldSockets
    <2>2. ASSUME NEW i \in DOMAIN held, i # 1, held[i].res = "sockref"
          PROVE  held[i].obj.n # o.n
      <3>1. EntryOwns(held[i], kernelObjs) /\ EntryOwns(held[1], kernelObjs)
        BY <1>2 DEF HeldOnce
      <3>2. held[i].obj.kind = "object" /\ o.kind = "object"
        BY <1>1, <1>4, <2>2, <3>1 DEF EntryOwns
      <3>3. held[i].obj # o
        BY <1>1, <1>2, <2>2, <3>2 DEF HeldOnce, HeldDistinct
      <3>4. held[i].obj \in HeldObjs /\ o \in HeldObjs
        <4>1. held[i] \in HeldRes
          BY <1>2
        <4> QED
          BY <1>1, <4>1 DEF HeldRes
      <3> QED
        BY <3>2, <3>3, <3>4 DEF HeldObjs
    <2> QED
      BY <1>2, <2>1, <2>2 DEF HeldSockets
  <1>5. ASSUME NEW n \in HeldSockets
        PROVE  n \in HeldSockets' \/ (r = "sockref" /\ n = o.n)
    <2>1. PICK i \in DOMAIN held : held[i].res = "sockref" /\ held[i].obj.n = n
      BY <1>5 DEF HeldSockets
    <2>2. CASE i = 1
      BY <1>1, <2>1, <2>2
    <2>3. CASE i # 1
      BY <1>2, <2>1, <2>3 DEF HeldSockets
    <2> QED
      BY <2>2, <2>3
  <1> QED
    BY <1>3, <1>4, <1>5

(* The balance is inductive once what was acquired is known to be numbered  *)
(* already: a fresh reference is then new to the trace.                     *)
ReferenceInv ==
  HeldInv /\ ReferencesBalance /\ \A n \in Acquired : n \in 0..(nextId - 1)

LEMMA ReferenceInit == Init => ReferenceInv
  BY HeldInit
  DEF ReferenceInv, Init, ReferencesBalance, Acquired, Released, HeldSockets, TracedWith

LEMMA SameReferences ==
  ASSUME ReferenceInv, HeldSockets' = HeldSockets, nextId' \in Nat, nextId' >= nextId,
         UNCHANGED trace \/ PlainCall
  PROVE  ReferencesBalance' /\ \A n \in Acquired' : n \in 0..(nextId' - 1)
  <1>1. /\ TypeOK /\ nextId \in Nat
    BY DEF ReferenceInv, HeldInv, TypeOK
  <1>2. ASSUME NEW c \in {"sk_lookup", "sk_release"}
        PROVE  TracedWith(c)' = TracedWith(c) /\ \A j \in TracedWith(c) : trace'[j] = trace[j]
    <2>1. CASE PlainCall
      <3>1. PICK d \in Calls, i \in Nat \cup {-1}, o \in Outcomes :
              Record(d, i, o) /\ (d \in {"sk_lookup", "sk_release"} => o = "failed")
        BY <2>1 DEF PlainCall
      <3>2. ~(c = d /\ o = "ok")
        BY <3>1
      <3>3. /\ TracedWith(c)' = TracedWith(c) \cup
                 (IF c = d /\ o = "ok" THEN {Len(trace) + 1} ELSE {})
            /\ \A j \in TracedWith(c) : trace'[j] = trace[j]
        BY <1>1, <3>1, TracedAppended
      <3> QED
        BY <3>2, <3>3
    <2>2. CASE UNCHANGED trace
      BY <2>2 DEF TracedWith
    <2> QED
      BY <2>1, <2>2
  <1>3. Acquired' = Acquired /\ Released' = Released
    BY <1>2 DEF Acquired, Released
  <1> QED
    BY <1>1, <1>2, <1>3 DEF ReferenceInv, ReferencesBalance

LEMMA ReferenceStep == ReferenceInv /\ [Next]_vars => ReferenceInv'
  <1> SUFFICES ASSUME ReferenceInv, [Next]_vars
               PROVE  ReferencesBalance' /\ \A n \in Acquired' : n \in 0..(nextId' - 1)
    BY HeldStep DEF ReferenceInv
  <1>0. /\ HeldInv /\ TypeOK /\ HeldOnce /\ ReferencesBalance /\ nextId \in Nat
        /\ \A n \in Acquired : n \in 0..(nextId - 1)
    BY DEF ReferenceInv, HeldInv, TypeOK
  <1>1. CASE SameProtocol
    BY <1>0, <1>1, SameReferences DEF SameProtocol, HeldSockets
  <1>2. CASE Cast
    <2>1. Fresh("cast", 0) /\ PlainCall /\ HeldSockets' = HeldSockets
      BY <1>0, <1>2 DEF Cast, PlainCall, Calls, Outcomes, HeldSockets
    <2> QED
      BY <1>0, <2>1, FreshTyped, SameReferences DEF ObjKinds
  <1>3. CASE PushScoped
    <2>1. PICK r \in Resources, o \in HeldObjs :
            Push(r, o) /\ r # "sockref" /\ UNCHANGED <<nextId, trace>>
      BY <1>3, ResourcesApart DEF PushScoped
    <2>2. HeldSockets' = HeldSockets
      BY <1>0, <2>1, SocketsPushed
    <2> QED
      BY <1>0, <2>1, <2>2, SameReferences
  <1>4. CASE PushRecord
    <2>1. PICK n \in Nat :
            Fresh("record", n) /\ Push("ringbuf", Object(nextId)) /\ UNCHANGED trace
      BY <1>4 DEF PushRecord
    <2>2. HeldSockets' = HeldSockets
      <3>1. Object(nextId) \in HeldObjs /\ "ringbuf" \in Resources
        BY <1>0, ObjTyped DEF Resources
      <3>2. HeldSockets' = HeldSockets \cup
              (IF "ringbuf" = "sockref" THEN {Object(nextId).n} ELSE {})
        BY <1>0, <2>1, <3>1, SocketsPushed
      <3> QED
        BY <3>2
    <2> QED
      BY <1>0, <2>1, <2>2, FreshTyped, SameReferences DEF ObjKinds
  <1>5. CASE PopPlain \/ PopSubmit
    <2>1. PICK r, o : Pop(r, o) /\ r # "sockref" /\ UNCHANGED trace
      BY <1>5 DEF PopPlain, PopSubmit
    <2>2. HeldSockets' = HeldSockets
      BY <1>0, <2>1, SocketsPopped
    <2> QED
      BY <1>0, <2>1, <2>2, SameReferences DEF Pop
  <1>6. CASE PushSocket
    <2>1. /\ nextId' = nextId + 1
          /\ HeldSockets' = HeldSockets \cup {nextId}
      BY <1>0, <1>6, FreshTyped, ObjTyped, SocketsPushed
      DEF PushSocket, ObjKinds, Resources, Object
    <2>2. /\ TracedWith("sk_lookup")' = TracedWith("sk_lookup") \cup {Len(trace) + 1}
          /\ TracedWith("sk_release")' = TracedWith("sk_release")
          /\ trace'[Len(trace) + 1].obj = nextId
          /\ \A j \in TracedWith("sk_lookup") \cup TracedWith("sk_release") : trace'[j] = trace[j]
      <3>1. Record("sk_lookup", nextId, "ok")
        BY <1>6 DEF PushSocket
      <3>2. \A c : /\ TracedWith(c)' = TracedWith(c) \cup
                       (IF c = "sk_lookup" THEN {Len(trace) + 1} ELSE {})
                  /\ \A j \in TracedWith(c) : trace'[j] = trace[j]
        BY <1>0, <3>1, TracedAppended DEF Calls, Outcomes
      <3>3. trace'[Len(trace) + 1].obj = nextId
        BY <1>0, <3>1, TracedAppended DEF Calls, Outcomes
      <3> QED
        BY <3>2, <3>3
    <2>3. Acquired' = Acquired \cup {nextId} /\ Released' = Released
      BY <2>2 DEF Acquired, Released
    <2>4. nextId \notin Acquired
      BY <1>0
    <2>5. HeldSockets' \cap Released' = {} /\ Acquired' = HeldSockets' \cup Released'
      BY <1>0, <2>1, <2>3, <2>4 DEF ReferencesBalance
    <2>6. /\ \A i, j \in TracedWith("sk_release")' : i # j => trace'[i].obj # trace'[j].obj
          /\ \A i \in TracedWith("sk_release")' : \E j \in TracedWith("sk_lookup")' :
               j < i /\ trace'[j].obj = trace'[i].obj
      BY <1>0, <2>2 DEF ReferencesBalance
    <2>7. \A n \in Acquired' : n \in 0..(nextId' - 1)
      BY <1>0, <2>1, <2>3
    <2> QED
      BY <2>5, <2>6, <2>7 DEF ReferencesBalance
  <1>7. CASE PopSocket
    <2>1. PICK k \in Nat : Pop("sockref", Object(k)) /\ Record("sk_release", k, "ok")
      BY <1>7 DEF PopSocket
    <2>2. k \in HeldSockets /\ HeldSockets' = HeldSockets \ {k} /\ nextId' = nextId
      BY <1>0, <2>1, SocketsPopped DEF Object, Pop
    <2> DEFINE last == Len(trace) + 1
    <2>3. /\ TracedWith("sk_release")' = TracedWith("sk_release") \cup {last}
          /\ TracedWith("sk_lookup")' = TracedWith("sk_lookup")
          /\ trace'[last].obj = k
          /\ \A j \in TracedWith("sk_lookup") \cup TracedWith("sk_release") :
               trace'[j] = trace[j] /\ j < last
      BY <1>0, <2>1, TracedAppended, SMTT(60) DEF Calls, Outcomes
    <2>4. Acquired' = Acquired /\ Released' = Released \cup {k}
      BY <2>3 DEF Acquired, Released
    <2>5. k \in Acquired /\ k \notin Released
      BY <1>0, <2>2 DEF ReferencesBalance
    <2>6. HeldSockets' \cap Released' = {} /\ Acquired' = HeldSockets' \cup Released'
      BY <1>0, <2>2, <2>4 DEF ReferencesBalance
    <2>7. \A i \in TracedWith("sk_release") : trace[i].obj # k
      BY <2>5 DEF Released
    <2>8. \E j \in TracedWith("sk_lookup") : trace[j].obj = k
      BY <2>5 DEF Acquired
    <2> HIDE DEF last
    <2>9. /\ \A i, j \in TracedWith("sk_release")' : i # j => trace'[i].obj # trace'[j].obj
          /\ \A i \in TracedWith("sk_release")' : \E j \in TracedWith("sk_lookup")' :
               j < i /\ trace'[j].obj = trace'[i].obj
      BY <1>0, <2>3, <2>7, <2>8 DEF ReferencesBalance
    <2>10. \A n \in Acquired' : n \in 0..(nextId' - 1)
      BY <1>0, <2>2, <2>4
    <2> QED
      BY <2>6, <2>9, <2>10 DEF ReferencesBalance
  <1> QED
    BY <1>0, <1>1, <1>2, <1>3, <1>4, <1>5, <1>6, <1>7, ProtocolShapes

(* The trace accounts for every socket reference: what was acquired is held *)
(* or was released, never both, and nothing is released twice or before it  *)
(* was acquired (spec/language.md row M3, Machine/Ops.lean call).           *)
THEOREM ReferencesStayBalanced == Spec => []ReferencesBalance
  <1>1. ReferenceInv => ReferencesBalance
    BY DEF ReferenceInv
  <1> QED
    BY <1>1, ReferenceInit, ReferenceStep, PTL DEF Spec
=============================================================================
