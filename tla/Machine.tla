------------------------------ MODULE Machine ------------------------------
(***************************************************************************)
(* The world every level of the semantics acts on (Koit/Machine): one hash *)
(* map, one ring buffer, the packet with its layout token, the kernel's    *)
(* objects, the stack of held resources and the trace of kernel calls.     *)
(*                                                                         *)
(* A level above (Core, LIR, the BPF machine) calls these operations in an *)
(* order of its own.  Here the order is arbitrary: this is the most        *)
(* general client.  An operation the machine refuses ends the run          *)
(* (status "error"), as `fail` does in the operation monad.                *)
(*                                                                         *)
(* `places` and `views` are the level's private half: the locations a      *)
(* lookup or a packet view handed it and that it may still use later.      *)
(***************************************************************************)
EXTENDS Integers, Sequences, FiniteSets, SequencesExt

CONSTANTS
  Keys,           \* keys of the hash map
  Capacity,       \* entries the hash map holds at most
  RingCapacity,   \* bytes of the ring buffer
  Scopes,         \* the scope-only resources a program enters
  RecordSizes,    \* sizes of the records a program reserves
  PacketSize,     \* initial length of the packet
  Deltas,         \* what a program passes to pkt.adjust_head and adjust_tail
  ViewRanges,     \* the <<offset, length>> pairs a program takes views at
  MaxObjects,     \* bound: kernel objects handed out in one run
  MaxEntries,     \* bound: hash entries ever numbered in one run
  MaxLayout,      \* bound: resizes in one run
  MaxPacket,      \* bound: longest packet
  MaxTrace,       \* bound: events in the trace
  MaxHeld         \* bound: depth of the held stack

ASSUME MachineAssumption ==
  /\ Capacity \in Nat /\ RingCapacity \in Nat /\ PacketSize \in Nat
  /\ RecordSizes \subseteq Nat /\ Deltas \subseteq Int
  /\ ViewRanges \subseteq Nat \X Nat
  /\ MaxObjects \in Nat /\ MaxEntries \in Nat /\ MaxLayout \in Nat
  /\ MaxPacket \in Nat /\ MaxTrace \in Nat /\ MaxHeld \in Nat
  /\ Scopes \subseteq {"rcu", "preempt", "irq"}

VARIABLES
  status,      \* "running", or "error" once an operation was refused
  held,        \* the held stack, innermost first
  kernelObjs,  \* the objects handed out, by number: 0 .. nextId - 1
  nextId,      \* the next object's number
  ring,        \* the records submitted, in order
  trace,       \* the kernel calls made, in order
  entries,     \* the hash map's entries, each a number and a key
  nextEntry,   \* the next entry's number
  packet,      \* the packet's length
  layout,      \* the layout token
  places,      \* level: the map places obtained by lookups
  views        \* level: the packet views obtained

protocol == <<held, kernelObjs, nextId, ring, trace>>
mapVars  == <<entries, nextEntry, places>>
pktVars  == <<packet, layout, views>>
vars     == <<status, protocol, mapVars, pktVars>>

-----------------------------------------------------------------------------
(* The resource declarations of the interface.                              *)

Resources == Scopes \cup {"spinlock", "ringbuf", "sockref"}

Forbidden(r) == IF r = "spinlock" THEN {"call", "resize", "sleep"} ELSE {"sleep"}
(* Bug: no declaration refuses nesting.                                     *)
BugNestAnything(r) == TRUE

MayNest(r)   == r # "spinlock"

-----------------------------------------------------------------------------
(* Held objects: nothing for a scope, the lock field of a numbered map      *)
(* entry, or a kernel object.                                               *)

NoObj     == [kind |-> "none", n |-> 0]
Slot(i)   == [kind |-> "slot", n |-> i]
Object(i) == [kind |-> "object", n |-> i]
HeldObjs  == [kind : {"none", "slot", "object"}, n : Nat]
HeldRes   == [res : Resources, obj : HeldObjs]

ObjKinds  == {"record", "socket", "cast"}
Objects   == [kind : ObjKinds, size : Nat]
Calls     == {"sk_lookup", "sk_release", "sk_cast", "resize", "other"}
Outcomes  == {"ok", "failed"}
Event(d, i, o) == [decl |-> d, obj |-> i, out |-> o]
Events    == [decl : Calls, obj : Nat \cup {-1}, out : Outcomes]
Views     == [tok : Nat, off : Nat, len : Nat]

HeldIds(h) == {h[i].obj.n : i \in {j \in DOMAIN h : h[j].obj.kind = "object"}}

CanPush(r)      == MayNest(r) \/ \A i \in DOMAIN held : held[i].res # r
Push(r, o)      == /\ Len(held) < MaxHeld
                   /\ held' = <<[res |-> r, obj |-> o]>> \o held
(* Bug: the pop compares the resource and not the object.                   *)
BugInnermostByResource(r, o) == held # <<>> /\ Head(held).res = r
Innermost(r, o) == held # <<>> /\ Head(held).res = r /\ Head(held).obj = o

Running == status = "running"
Fail    == /\ status' = "error"
           /\ UNCHANGED <<protocol, mapVars, pktVars>>

(* Bug: the number handed out is not advanced.                              *)
BugFreshNotAdvanced(k, n) ==
  /\ nextId' = nextId
  /\ kernelObjs' = [i \in 0..nextId |-> [kind |-> k, size |-> n]]

(* `fresh` and `setRegion`: the next number, bound to an object.            *)
Fresh(k, n) ==
  /\ nextId < MaxObjects
  /\ nextId' = nextId + 1
  /\ kernelObjs' = [i \in 0..nextId |->
                      IF i = nextId THEN [kind |-> k, size |-> n] ELSE kernelObjs[i]]

Record(d, i, o) ==
  /\ Len(trace) < MaxTrace
  /\ trace' = Append(trace, Event(d, i, o))

-----------------------------------------------------------------------------
(* Scopes and locks.                                                        *)

Enter(r) ==
  /\ Running
  /\ IF CanPush(r)
       THEN /\ Push(r, NoObj)
            /\ UNCHANGED <<status, kernelObjs, nextId, ring, trace, mapVars, pktVars>>
       ELSE Fail

Lock(p) ==
  /\ Running
  /\ IF CanPush("spinlock")
       THEN /\ Push("spinlock", Slot(p.num))
            /\ UNCHANGED <<status, kernelObjs, nextId, ring, trace, mapVars, pktVars>>
       ELSE Fail

(* `popHeld` alone: leaving a scope, unlocking, discarding a record.        *)
PopHeld(r, o) ==
  /\ Running
  /\ IF Innermost(r, o)
       THEN /\ held' = Tail(held)
            /\ UNCHANGED <<status, kernelObjs, nextId, ring, trace, mapVars, pktVars>>
       ELSE Fail

Leave(r)   == PopHeld(r, NoObj)
Unlock(p)  == PopHeld("spinlock", Slot(p.num))
Discard(i) == PopHeld("ringbuf", Object(i))

-----------------------------------------------------------------------------
(* Ring-buffer records.                                                     *)

RingBytes == FoldLeft(LAMBDA a, i : a + kernelObjs[i].size, 0, ring)

(* The room test reads the submitted records only.                          *)
Reserve(n) ==
  /\ Running
  /\ RingBytes + n <= RingCapacity     \* otherwise none, and nothing changes
  /\ Fresh("record", n)
  /\ Push("ringbuf", Object(nextId))
  /\ UNCHANGED <<status, ring, trace, mapVars, pktVars>>

(* Bug: the record is appended and stays held.                              *)
BugSubmitKeepsHeld(i) ==
  /\ Running
  /\ Innermost("ringbuf", Object(i))
  /\ Len(ring) < MaxObjects
  /\ ring' = Append(ring, i)
  /\ UNCHANGED <<status, held, kernelObjs, nextId, trace, mapVars, pktVars>>

Submit(i) ==
  /\ Running
  /\ IF Innermost("ringbuf", Object(i))
       THEN /\ held' = Tail(held)
            /\ ring' = Append(ring, i)
            /\ UNCHANGED <<status, kernelObjs, nextId, trace, mapVars, pktVars>>
       ELSE Fail

-----------------------------------------------------------------------------
(* Kernel calls.  A held declaration that forbids calls refuses every call, *)
(* except one that releases that declaration's own resource.                *)

(* Bug: only the innermost entry is consulted.                              *)
BugForbidsCallInnermost(releases) ==
  held # <<>> /\ "call" \in Forbidden(Head(held).res) /\ Head(held).res \notin releases

ForbidsCall(releases) ==
  \E i \in DOMAIN held :
    "call" \in Forbidden(held[i].res) /\ held[i].res \notin releases

SkLookup ==
  /\ Running
  /\ IF ForbidsCall({}) THEN Fail ELSE
       \/ /\ Fresh("socket", 0)
          /\ Record("sk_lookup", nextId, "ok")
          /\ Push("sockref", Object(nextId))
          /\ UNCHANGED <<status, ring, mapVars, pktVars>>
       \/ /\ Record("sk_lookup", -1, "failed")
          /\ UNCHANGED <<status, held, kernelObjs, nextId, ring, mapVars, pktVars>>

(* A cast hands out a second object that nothing releases.                  *)
SkCast ==
  /\ Running
  /\ IF ForbidsCall({}) THEN Fail ELSE
       /\ Fresh("cast", 0)
       /\ Record("sk_cast", nextId, "ok")
       /\ UNCHANGED <<status, held, ring, mapVars, pktVars>>

SkRelease(i) ==
  /\ Running
  /\ IF ForbidsCall({"sockref"}) \/ ~Innermost("sockref", Object(i)) THEN Fail ELSE
       /\ Record("sk_release", i, "ok")
       /\ held' = Tail(held)
       /\ UNCHANGED <<status, kernelObjs, nextId, ring, mapVars, pktVars>>

OtherCall(o) ==
  /\ Running
  /\ IF ForbidsCall({}) THEN Fail ELSE
       /\ Record("other", -1, o)
       /\ UNCHANGED <<status, held, kernelObjs, nextId, ring, mapVars, pktVars>>

(* Bug: a shrink past the end is not refused.                               *)
BugResizeUnchecked(d) ==
  /\ Running /\ ~ForbidsCall({})
  /\ layout < MaxLayout /\ packet + d <= MaxPacket
  /\ Record("resize", -1, "ok")
  /\ packet' = packet + d /\ layout' = layout + 1
  /\ UNCHANGED <<status, held, kernelObjs, nextId, ring, mapVars, views>>

(* Bug: the token survives a resize.                                        *)
BugResizeKeepsToken(d) ==
  /\ Running /\ ~ForbidsCall({})
  /\ packet + d \in 0..MaxPacket
  /\ Record("resize", -1, "ok")
  /\ packet' = packet + d
  /\ UNCHANGED <<status, held, kernelObjs, nextId, ring, mapVars, layout, views>>

(* pkt.adjust_head and pkt.adjust_tail: a new length under a new token, or  *)
(* a failure that changes neither.  head: d > 0 shrinks; tail: d < 0 does;  *)
(* d here is the growth.                                                    *)
Resize(d) ==
  /\ Running
  /\ IF ForbidsCall({}) THEN Fail ELSE
       IF packet + d < 0
         THEN /\ Record("resize", -1, "failed")
              /\ UNCHANGED <<status, held, kernelObjs, nextId, ring, mapVars, pktVars>>
         ELSE /\ layout < MaxLayout /\ packet + d <= MaxPacket
              /\ Record("resize", -1, "ok")
              /\ packet' = packet + d
              /\ layout' = layout + 1
              /\ UNCHANGED <<status, held, kernelObjs, nextId, ring, mapVars, views>>

(* The release of the innermost entry on the way out of its scope, normal   *)
(* or abnormal, by the declaration's own operation.                         *)
Release(normal) ==
  IF held = <<>> THEN Running /\ Fail ELSE
    LET h == Head(held) IN
      \/ h.res \in Scopes /\ Leave(h.res)
      \/ h.res = "spinlock" /\ PopHeld("spinlock", h.obj)
      \/ h.res = "ringbuf" /\ (IF normal THEN Submit(h.obj.n) ELSE Discard(h.obj.n))
      \/ h.res = "sockref" /\ SkRelease(h.obj.n)

-----------------------------------------------------------------------------
(* The hash map.  An entry keeps its number for its life and a number is    *)
(* never used again, so a place outlives its entry harmlessly.              *)

EntryOf(k) == {e \in entries : e.key = k}

Lookup(k) ==
  /\ Running
  /\ EntryOf(k) # {}                   \* otherwise null, and nothing changes
  /\ places' = places \cup EntryOf(k)
  /\ UNCHANGED <<status, protocol, entries, nextEntry, pktVars>>

(* Bug: an entry is numbered by the map's length, so numbers come back.     *)
BugUpdateNumbersByLength(k) ==
  /\ Running
  /\ EntryOf(k) = {} /\ Cardinality(entries) < Capacity /\ nextEntry < MaxEntries
  /\ entries' = entries \cup {[num |-> Cardinality(entries), key |-> k]}
  /\ nextEntry' = nextEntry + 1
  /\ UNCHANGED <<status, protocol, places, pktVars>>

(* Bug: the key's present entry is not looked for.                          *)
BugUpdateInsertsTwice(k) ==
  /\ Running
  /\ Cardinality(entries) < Capacity /\ nextEntry < MaxEntries
  /\ entries' = entries \cup {[num |-> nextEntry, key |-> k]}
  /\ nextEntry' = nextEntry + 1
  /\ UNCHANGED <<status, protocol, places, pktVars>>

(* Of an update only an insertion moves entries: a replacement writes the   *)
(* entry in place, and E2BIG changes nothing.                               *)
Update(k) ==
  /\ Running
  /\ EntryOf(k) = {} /\ Cardinality(entries) < Capacity /\ nextEntry < MaxEntries
  /\ entries' = entries \cup {[num |-> nextEntry, key |-> k]}
  /\ nextEntry' = nextEntry + 1
  /\ UNCHANGED <<status, protocol, places, pktVars>>

Delete(k) ==
  /\ Running
  /\ EntryOf(k) # {}                   \* otherwise ENOENT
  /\ entries' = entries \ EntryOf(k)
  /\ UNCHANGED <<status, protocol, nextEntry, places, pktVars>>

(* The entry a place reads and writes: none once its entry is deleted.      *)
Reaches(p) == {e \in entries : e.num = p.num}

-----------------------------------------------------------------------------
(* The packet.                                                              *)

View(off, len) ==
  /\ Running
  /\ off + len <= packet               \* otherwise absent, and nothing changes
  /\ views' = views \cup {[tok |-> layout, off |-> off, len |-> len]}
  /\ UNCHANGED <<status, protocol, mapVars, packet, layout>>

Admits(v) == v.tok = layout /\ v.off + v.len <= packet

(* The use of a view: refused when its token is not the current one.        *)
Access(v) ==
  /\ Running /\ ~Admits(v)
  /\ Fail

-----------------------------------------------------------------------------
Init ==
  /\ status = "running"
  /\ held = <<>> /\ kernelObjs = [i \in 0..-1 |-> [kind |-> "cast", size |-> 0]]
  /\ nextId = 0
  /\ ring = <<>> /\ trace = <<>>
  /\ entries = {} /\ nextEntry = 0 /\ places = {}
  /\ packet = PacketSize /\ layout = 0 /\ views = {}

ProtocolNext ==
  \/ \E r \in Scopes : Enter(r) \/ Leave(r)
  \/ \E p \in places : Lock(p) \/ Unlock(p)
  \/ \E n \in RecordSizes : Reserve(n)
  \/ \E i \in 0..(nextId - 1) : Submit(i) \/ Discard(i) \/ SkRelease(i)
  \/ SkLookup \/ SkCast
  \/ \E o \in Outcomes : OtherCall(o)
  \/ \E normal \in BOOLEAN : Release(normal)

MapNext == \E k \in Keys : Lookup(k) \/ Update(k) \/ Delete(k)

PacketNext ==
  \/ \E d \in Deltas : Resize(d)
  \/ \E r \in ViewRanges : View(r[1], r[2])
  \/ \E v \in views : Access(v)

Next == ProtocolNext \/ MapNext \/ PacketNext

Spec == Init /\ [][Next]_vars

-----------------------------------------------------------------------------
(* Properties.                                                              *)

(* Every variable keeps its type; the objects are numbered 0 .. nextId - 1. *)
TypeOK ==
  /\ status \in {"running", "error"}
  /\ held \in Seq(HeldRes)
  /\ nextId \in Nat
  /\ kernelObjs \in [0..(nextId - 1) -> Objects]
  /\ ring \in Seq(Nat)
  /\ trace \in Seq(Events)
  /\ nextEntry \in Nat
  /\ entries \subseteq [num : Nat, key : Keys]
  /\ places \subseteq [num : Nat, key : Keys]
  /\ packet \in Nat /\ layout \in Nat
  /\ views \subseteq Views

OwnerKind(r) == IF r = "ringbuf" THEN "record" ELSE "socket"

(* An entry of the held stack names what its resource owns.                 *)
EntryOwns(h, objs) ==
  /\ h.res \in {"ringbuf", "sockref"} =>
       /\ h.obj.kind = "object" /\ h.obj.n \in DOMAIN objs
       /\ objs[h.obj.n].kind = OwnerKind(h.res)
  /\ h.res = "spinlock" => h.obj.kind = "slot"
  /\ h.res \in Scopes => h.obj = NoObj

HeldDistinct ==
  \A i, j \in DOMAIN held : i # j =>
    /\ held[i].obj.kind = "object" => held[i].obj # held[j].obj
    /\ held[i].res = "spinlock" => held[j].res # "spinlock"

(* The entries of the held stack name live objects of the kind their        *)
(* resource owns, no object is held twice, and at most one spin lock is     *)
(* held, whatever order a level acquires and releases in (Ops.lean push,    *)
(* reserve, call): a release then never leaves its object held.             *)
HeldOnce ==
  /\ \A i \in DOMAIN held : EntryOwns(held[i], kernelObjs)
  /\ HeldDistinct

TracedWith(d) ==
  {i \in DOMAIN trace : trace[i].decl = d /\ trace[i].out = "ok"}
Acquired == {trace[i].obj : i \in TracedWith("sk_lookup")}
Released == {trace[i].obj : i \in TracedWith("sk_release")}
HeldSockets ==
  {held[i].obj.n : i \in {j \in DOMAIN held : held[j].res = "sockref"}}

(* The trace the kernel sees accounts for every socket reference: what was  *)
(* acquired is held or was released, never both, and no reference is        *)
(* released twice or before it was acquired (spec/language.md row M3).      *)
ReferencesBalance ==
  /\ HeldSockets \cap Released = {}
  /\ Acquired = HeldSockets \cup Released
  /\ \A i, j \in TracedWith("sk_release") :
       i # j => trace[i].obj # trace[j].obj
  /\ \A i \in TracedWith("sk_release") : \E j \in TracedWith("sk_lookup") :
       j < i /\ trace[j].obj = trace[i].obj

(* A reserved record reaches its ring at most once, and never while the     *)
(* program still holds it (Ops.lean submit, discard).                       *)
RecordsOnce ==
  /\ \A i \in DOMAIN ring :
       /\ ring[i] < nextId /\ kernelObjs[ring[i]].kind = "record"
       /\ ring[i] \notin HeldIds(held)
  /\ \A i, j \in DOMAIN ring : i # j => ring[i] # ring[j]

(* A place outlives the entry it was looked up at without ever naming       *)
(* another key's entry: numbers are not used again after a delete           *)
(* (Maps.lean update, delete).                                              *)
PlacesKeepTheirKey ==
  /\ \A e \in entries : e.num < nextEntry
  /\ \A p \in places : p.num < nextEntry
  /\ \A p \in places : \A e \in Reaches(p) : e.key = p.key

EntryNumbersDistinct == \A e, f \in entries : e.num = f.num => e = f

(* One entry per number and per key, and no more than the map has room for. *)
EntriesDistinct ==
  /\ EntryNumbersDistinct
  /\ \A e, f \in entries : e.key = f.key => e = f
  /\ Cardinality(entries) <= Capacity

(* A view whose token is current lies in the packet as it now is: no resize *)
(* leaves a usable view past the packet's end (State.lean admits).          *)
ViewsInPacket ==
  /\ \A v \in views : v.tok <= layout
  /\ \A v \in views : v.tok = layout => v.off + v.len <= packet

(* While a spin lock is anywhere on the held stack no kernel call is made,  *)
(* even one that releases a resource held inside it (Ops.lean forbidsCall). *)
NoCallInCriticalSection ==
  [][(\E i \in DOMAIN held : held[i].res = "spinlock") => trace' = trace]_vars

(* The owned references of the machine: the records and sockets on the held *)
(* stack.  Every other one handed out has been discharged.  Casts are not   *)
(* references of their own.                                                 *)
OwnedRefs      == HeldIds(held)
DischargedRefs ==
  {i \in DOMAIN kernelObjs : kernelObjs[i].kind # "cast"} \ OwnedRefs

(* Every step of the machine takes or discharges at most one reference, and *)
(* none twice.                                                              *)
Owns == INSTANCE Ownership
          WITH Refs <- 0..(MaxObjects - 1), owned <- OwnedRefs, discharged <- DischargedRefs
OwnershipSpec == Owns!Spec
=============================================================================
