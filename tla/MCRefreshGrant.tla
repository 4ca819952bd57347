--------------------------- MODULE MCRefreshGrant ---------------------------
(* RefreshGrant on small sets of model values. *)
EXTENDS RefreshGrant, TLC

Symmetry == Permutations(Reqs) \cup Permutations(Tokens) \cup Permutations(Logins)
            \cup Permutations(Users) \cup Permutations(Services)
=============================================================================
