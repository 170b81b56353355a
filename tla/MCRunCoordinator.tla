--------------------------- MODULE MCRunCoordinator ---------------------------
(* RunCoordinator for TLC: keys, callers and entries are model values of the   *)
(* configurations.                                                             *)
EXTENDS RunCoordinator
===============================================================================
