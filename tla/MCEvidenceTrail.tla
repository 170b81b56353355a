-------------------------- MODULE MCEvidenceTrail --------------------------
(* EvidenceTrail with one call that declares a planned dimension and two that declare another. *)
EXTENDS EvidenceTrail, TLC

CONSTANTS c1, c2, c3, planned, other

\* The first call serves the plan, the others another dimension.
Declared == [c \in Call |-> IF c = c1 THEN planned ELSE other]

Made(c) == c \in calls \/ exec[c] # "none"
Over(c) == exec[c] = "done" /\ IsAnchor(c)

\* A third call is made only when the others are over and anchors: without it there are
\* never more than may be shown.  Of the two alike, c2 comes first.
ThirdMatters == Made(c3) => Over(c2) /\ (Made(c1) => Over(c1) \/ Over(c3))

\* No turn follows a block: no action reads it, so a turn after one is like a turn without.
BlockIsLast == block.calls > 0 => turn = "idle"
=============================================================================
