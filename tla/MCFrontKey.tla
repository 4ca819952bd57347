----------------------------- MODULE MCFrontKey -----------------------------
(* FrontKey on small sets of model values. *)
EXTENDS FrontKey, TLC

Symmetry == Permutations(Callers) \cup Permutations(Keys) \cup Permutations(Subs)
=============================================================================
