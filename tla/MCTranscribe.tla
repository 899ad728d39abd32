---------------------------- MODULE MCTranscribe ----------------------------
(* Transcribe on structs of a few members and function tables of a few        *)
(* labels: pointers, arrays, one of them empty, bit-fields that C packs or    *)
(* moves, three widths; two helpers with three protos, of which two call the  *)
(* same C function.                                                           *)
EXTENDS Transcribe, TLC

Line(form, base, count, bits) == [form |-> form, base |-> base, count |-> count, bits |-> bits]
MCLines ==
  {Line("ptr", 8, 1, 0), Line("int", 1, 1, 0), Line("int", 2, 3, 0), Line("int", 4, 1, 0),
   Line("int", 4, 0, 0), Line("pad", 4, 1, 24), Line("pad", 2, 1, 3), Line("other", 4, 1, 0)}

CONSTANTS p1, p2, p3, change, keep
MCFuncOf == (p1 :> keep) @@ (p2 :> change) @@ (p3 :> change)
MCChanging == {change}
=============================================================================
