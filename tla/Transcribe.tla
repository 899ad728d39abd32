----------------------------- MODULE Transcribe -----------------------------
(* The transcriber's main, cut to the two tables that are computed rather     *)
(* than copied: the get_func_proto functions and the context structs.  A      *)
(* behavior reads one function table or one struct: nothing passes between    *)
(* the two, and main reads each struct by itself.                             *)
EXTENDS Layout, ProtoFns

VARIABLE table    \* which of the two a behavior reads

vars == <<table, layoutVars, fnVars>>

Init == LayoutInit /\ FnInit /\ table \in {"ctx", "protoFns"}

ReadCtx == table = "ctx" /\ LayoutNext /\ UNCHANGED <<table, fnVars>>
ReadProtoFns == table = "protoFns" /\ FnNext /\ UNCHANGED <<table, layoutVars>>

Next == ReadCtx \/ ReadProtoFns
Spec == Init /\ [][Next]_vars
=============================================================================
