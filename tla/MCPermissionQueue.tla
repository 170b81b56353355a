-------------------------- MODULE MCPermissionQueue --------------------------
(* Instances of PermissionQueue small enough for TLC.                          *)
EXTENDS PermissionQueue, TLC

CONSTANTS a, b, c, x, y, s1, s2

\* Two asserts of one Session, the second covered by the rule the first one saves, and
\* an ask of another Session, which comes with the ID of the first.
MCId == [r \in Request |-> IF r = c THEN a ELSE r]
MCSession == [r \in Request |-> IF r = c THEN s2 ELSE s1]
MCConfigured == [r \in Request |-> IF r = b THEN (x :> "ask" @@ y :> "allow") ELSE (x :> "ask")]
MCSave == [r \in Request |-> IF r = a THEN {x} ELSE {}]
===============================================================================
