------------------------------ MODULE MCEventLog ------------------------------
(* Instances of EventLog small enough for TLC.                                 *)
EXTENDS EventLog, TLC

CONSTANTS a, b, x, y, z, w1, w2, d1, d2

Ev(agg, seq, id, data) == [id |-> id, aggregate |-> agg, seq |-> seq, data |-> data]

\* The history of a, a continuation of it, a divergent first event, a chunk that
\* uses an ID of a for b, and one with a gap.
Chunks == {<<Ev(a, 0, x, d1), Ev(a, 1, y, d1)>>, <<Ev(a, 1, y, d1)>>, <<Ev(a, 0, x, d2)>>,
           <<Ev(b, 0, x, d1)>>, <<Ev(a, 0, x, d1), Ev(a, 2, y, d1)>>}

\* One aggregate replayed from its start and from its second event.
OneHistory == {<<Ev(a, 0, x, d1), Ev(a, 1, y, d1)>>, <<Ev(a, 1, y, d1)>>}

Owners == Permutations(Owner) \cup Permutations(Fiber)
===============================================================================
