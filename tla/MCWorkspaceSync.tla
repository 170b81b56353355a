--------------------------- MODULE MCWorkspaceSync ---------------------------
(* Instances of WorkspaceSync small enough for TLC.                            *)
EXTENDS WorkspaceSync

CONSTANTS s, w1, w2, l1, p

MCAggregate == {s}
MCEventId == 0 .. MaxEvents - 1
MCOwner == Remote \cup Local \cup {p}
MCData == Remote \cup Local \cup {None, Message}
===============================================================================
