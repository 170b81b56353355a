------------------------------ MODULE EventStore ------------------------------
(***************************************************************************)
(* The durable event tables of src/packages/core/src/event.ts as a value,  *)
(* and what the transaction of commitDurableEvent makes of it.             *)
(*                                                                         *)
(* A type, its version and the encoded payload are one element of Data.    *)
(* Projectors and commit hooks run inside the transaction; one that dies   *)
(* leaves the store as it was.                                             *)
(***************************************************************************)
EXTENDS Integers

CONSTANTS
  Aggregate,  \* aggregate IDs (Sessions)
  EventId,
  Data,
  Owner,      \* who may own an aggregate (workspaces)
  None        \* no owner_id, no ownerID

ASSUME NoneIsNoOwner == None \notin Owner

Event == [id : EventId, aggregate : Aggregate, seq : Nat, data : Data]

\* seq is EventSequenceTable.seq, -1 while there is no row.
Store == [seq    : [Aggregate -> Nat \cup {-1}],
          owner  : [Aggregate -> Owner \cup {None}],
          events : SUBSET Event]

EmptyStore == [seq    |-> [a \in Aggregate |-> -1],
               owner  |-> [a \in Aggregate |-> None],
               events |-> {}]

Used(db, id) == \E e \in db.events : e.id = id

\* The aggregate belongs to somebody other than by.
Foreign(db, a, by) == db.owner[a] # None /\ db.owner[a] # by

\* An unowned aggregate becomes the property of by, if there is one.
Adopted(db, a, by) ==
  [db EXCEPT !.owner[a] = IF db.owner[a] = None THEN by ELSE db.owner[a]]

\* Deviation: a replay claims only an aggregate that it creates.
AppendedOverRow(db, e, by) ==
  [db EXCEPT !.owner[e.aggregate] = IF db.seq[e.aggregate] = -1 THEN by ELSE db.owner[e.aggregate],
             !.seq[e.aggregate] = e.seq,
             !.events = db.events \cup {e}]

Appended(db, e, by) ==
  [Adopted(db, e.aggregate, by) EXCEPT !.seq[e.aggregate] = e.seq,
                                       !.events = db.events \cup {e}]

Following(db, a, id, data) == [id |-> id, aggregate |-> a, seq |-> db.seq[a] + 1, data |-> data]

\* Deviation: a replay may run ahead of what is stored.
ReplayOutcomeAhead(db, e, by, strict) ==
  IF strict /\ Foreign(db, e.aggregate, by) THEN "refused"
  ELSE IF e.seq <= db.seq[e.aggregate] THEN IF e \in db.events THEN "known" ELSE "refused"
  ELSE IF Foreign(db, e.aggregate, by) THEN "ignored"
  ELSE IF Used(db, e.id) THEN "refused" ELSE "committed"

\* Deviation: an event's ID is not looked up.
ReplayOutcomeAnyId(db, e, by, strict) ==
  IF strict /\ Foreign(db, e.aggregate, by) THEN "refused"
  ELSE IF e.seq <= db.seq[e.aggregate] THEN IF e \in db.events THEN "known" ELSE "refused"
  ELSE IF Foreign(db, e.aggregate, by) THEN "ignored"
  ELSE IF e.seq # db.seq[e.aggregate] + 1 THEN "refused" ELSE "committed"

\* Deviation: a replay of what is stored counts as a commit.
ReplayOutcomeAgain(db, e, by, strict) ==
  IF strict /\ Foreign(db, e.aggregate, by) THEN "refused"
  ELSE IF e \in db.events THEN "committed"
  ELSE IF e.seq <= db.seq[e.aggregate] THEN "refused"
  ELSE IF Foreign(db, e.aggregate, by) THEN "ignored"
  ELSE IF e.seq # db.seq[e.aggregate] + 1 \/ Used(db, e.id) THEN "refused" ELSE "committed"

\* What the transaction decides about an event replayed on behalf of by: a defect,
\* nothing at all, an exact repetition, or a new row.
ReplayOutcome(db, e, by, strict) ==
  IF strict /\ Foreign(db, e.aggregate, by) THEN "refused"
  ELSE IF e.seq <= db.seq[e.aggregate] THEN IF e \in db.events THEN "known" ELSE "refused"
  ELSE IF Foreign(db, e.aggregate, by) THEN "ignored"
  ELSE IF e.seq # db.seq[e.aggregate] + 1 \/ Used(db, e.id) THEN "refused"
  ELSE "committed"

Replayed(db, e, by, strict) ==
  LET outcome == ReplayOutcome(db, e, by, strict) IN
    IF outcome = "committed" THEN Appended(db, e, by)
    ELSE IF outcome = "known" THEN Adopted(db, e.aggregate, by)
    ELSE db

\* claim: an update, without effect while there is no row.
Claimed(db, a, by) ==
  [db EXCEPT !.owner[a] = IF db.seq[a] = -1 THEN None ELSE by]

Removed(db, a) ==
  [db EXCEPT !.seq[a] = -1, !.owner[a] = None,
             !.events = {e \in db.events : e.aggregate # a}]

After(db, a, cursor) == {e \in db.events : e.aggregate = a /\ e.seq > cursor}

-------------------------------------------------------------------------------
\* The two tables agree: an aggregate's rows carry the sequences 0 to its latest,
\* one row for each.
Contiguous(db) ==
  \A a \in Aggregate :
    /\ {e.seq : e \in After(db, a, -1)} = 0 .. db.seq[a]
    /\ \A e, f \in After(db, a, -1) : e.seq = f.seq => e = f

UniqueIds(db) == \A e, f \in db.events : e.id = f.id => e = f
===============================================================================
