-------------------------- MODULE MCConsoleSession --------------------------
(* Two users, a second /me call that a stacked reload would use, two       *)
(* queries and one mutation, two routes.                                   *)
EXTENDS ConsoleSession
=============================================================================
