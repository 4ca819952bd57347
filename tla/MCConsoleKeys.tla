---------------------------- MODULE MCConsoleKeys ----------------------------
(* A key of another service and one to be minted here; a page of one key,  *)
(* so that a second one is out of reach; two toggles at the same time.     *)
EXTENDS ConsoleKeys, TLC

ToggleSymmetry == Permutations(Toggles)
==============================================================================
