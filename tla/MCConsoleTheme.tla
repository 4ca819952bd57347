--------------------------- MODULE MCConsoleTheme ---------------------------
(* Two tabs: the one that is looked at, and the one that changes the theme *)
(* behind it.                                                              *)
EXTENDS ConsoleTheme
=============================================================================
