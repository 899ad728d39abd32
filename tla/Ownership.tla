----------------------------- MODULE Ownership -----------------------------
(***************************************************************************)
(* What the resource protocol promises about owned references: each is     *)
(* taken once and discharged (released, submitted, discarded or handed to  *)
(* a sink) at most once, never while it is not owned, and a discharged     *)
(* reference is never owned again.  spec/language.md, row M3: "every owned *)
(* reference released exactly once or transferred exactly once, never      *)
(* both".                                                                  *)
(***************************************************************************)
CONSTANT Refs

VARIABLES owned, discharged

Init == owned = {} /\ discharged = {}

Take(r) ==
  /\ r \notin owned \cup discharged
  /\ owned' = owned \cup {r}
  /\ UNCHANGED discharged

Discharge(r) ==
  /\ r \in owned
  /\ owned' = owned \ {r}
  /\ discharged' = discharged \cup {r}

Next == \E r \in Refs : Take(r) \/ Discharge(r)

Spec == Init /\ [][Next]_<<owned, discharged>>
=============================================================================
