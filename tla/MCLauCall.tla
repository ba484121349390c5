----------------------------- MODULE MCLauCall ------------------------------
(* LauCall and LauScope on small instances. *)
EXTENDS LauCallScope, TLC

(* variables are only copied and compared *)
Symmetry == Permutations(Var)
=============================================================================
