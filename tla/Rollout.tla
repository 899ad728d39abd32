------------------------------- MODULE Rollout -------------------------------
(* What the loader promises of the order in which it puts a unit in place:    *)
(* the maps, then the programs, then the program arrays' entries, and only    *)
(* then a run of each program; it may stop anywhere, and never runs a program *)
(* of a unit of which any part is missing.                                    *)
VARIABLES
  plan,      \* what there is to do: sets of maps, programs, and entries
  made,      \* the maps created
  loaded,    \* the programs loaded
  linked,    \* the program arrays' entries: <<map, slot, program>>
  ran,       \* the programs that ran
  stopped

vars == <<plan, made, loaded, linked, ran, stopped>>

Make(m) ==
  /\ ~stopped /\ loaded = {} /\ m \in plan.maps \ made
  /\ made' = made \cup {m}
  /\ UNCHANGED <<plan, loaded, linked, ran, stopped>>

Load(p) ==
  /\ ~stopped /\ made = plan.maps /\ linked = {} /\ p \in plan.programs \ loaded
  /\ loaded' = loaded \cup {p}
  /\ UNCHANGED <<plan, made, linked, ran, stopped>>

Link(l) ==
  /\ ~stopped /\ made = plan.maps /\ loaded = plan.programs /\ ran = {}
  /\ l \in plan.links \ linked
  /\ linked' = linked \cup {l}
  /\ UNCHANGED <<plan, made, loaded, ran, stopped>>

Run(p) ==
  /\ ~stopped /\ made = plan.maps /\ loaded = plan.programs /\ linked = plan.links
  /\ p \in plan.programs \ ran
  /\ ran' = ran \cup {p}
  /\ UNCHANGED <<plan, made, loaded, linked, stopped>>

Stop ==
  /\ ~stopped
  /\ stopped' = TRUE
  /\ UNCHANGED <<plan, made, loaded, linked, ran>>

Init ==
  /\ made = {} /\ loaded = {} /\ linked = {} /\ ran = {}
  /\ stopped = FALSE

Next ==
  \/ \E m \in plan.maps : Make(m)
  \/ \E p \in plan.programs : Load(p) \/ Run(p)
  \/ \E l \in plan.links : Link(l)
  \/ Stop

Spec == Init /\ [][Next]_vars
=============================================================================
