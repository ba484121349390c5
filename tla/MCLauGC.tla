------------------------------ MODULE MCLauGC -------------------------------
(* Symmetry for the runs of LauGC: addresses of one kind are interchangeable. *)
EXTENDS LauGC, TLC

AddressSymmetry ==
  Permutations(Table) \cup Permutations(Closure) \cup Permutations(UpVal) \cup Permutations(String)

=============================================================================
