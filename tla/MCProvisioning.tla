--------------------------- MODULE MCProvisioning ---------------------------
(* Provisioning on small sets of model values. *)
EXTENDS Provisioning, TLC

Symmetry == Permutations(Procs) \cup Permutations(Keys)
=============================================================================
