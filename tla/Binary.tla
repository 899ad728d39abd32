------------------------------- MODULE Binary -------------------------------
(* Powers of two: an operator of their own, since the prover knows nothing of *)
(* exponents but what Arithmetic proves of these.                             *)
EXTENDS Integers

Pow2(n) == 2^n
=============================================================================
