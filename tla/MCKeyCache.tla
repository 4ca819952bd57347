----------------------------- MODULE MCKeyCache -----------------------------
(* KeyCache on small sets of model values, without symmetry: the run checks
   liveness. *)
EXTENDS KeyCache
=============================================================================
