----------------------------- MODULE MCMachine -----------------------------
(* Machine on small constants.  The two halves of its state meet only at    *)
(* locks and at resizing calls, so each is explored deep while the other is *)
(* kept shallow: the held stack, the objects, the ring and the trace with   *)
(* one hash entry; the hash map's places and the packet's resizes and views *)
(* with at most a lock held.                                                *)
EXTENDS Machine, TLC

MCScopes      == {"rcu"}
MCRecordSizes == {1, 2}
MCDeltas      == {-1, 1}
MCViewRanges  == {<<0, 1>>, <<1, 1>>}

ShallowRegions == nextEntry <= 1 /\ layout = 0 /\ views = {}
ShallowObjects ==
  /\ nextId = 0 /\ Len(trace) <= 2
  /\ Len(held) <= 1 /\ \A n \in DOMAIN held : held[n].res = "spinlock"

MCSymmetry == Permutations(Keys)

(* The constraint of the run. *)
Explored == ShallowRegions \/ ShallowObjects
=============================================================================
