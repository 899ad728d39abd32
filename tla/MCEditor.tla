------------------------------ MODULE MCEditor ------------------------------
(* Editor with two documents, two kernels and a few events of the user.      *)
(* Both documents are open when the extension starts, and the first of them  *)
(* is the active one: the bound of the runs on the initial states.           *)
EXTENDS Editor

CONSTANT First

MCInit == Init /\ open = Docs /\ active = First
MCSpec == MCInit /\ [][Next]_vars /\ Fairness
=============================================================================
