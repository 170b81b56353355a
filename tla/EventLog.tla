------------------------------- MODULE EventLog -------------------------------
(***************************************************************************)
(* EventV2 of src/packages/core/src/event.ts on one server: fibers that    *)
(* publish or replay durable events, listeners told of them, and durable   *)
(* tails (sessions.events) that read an aggregate and follow it.           *)
(*                                                                         *)
(* A transaction is one action.  What a committing fiber does afterwards   *)
(* (wake the tails, then notify) and what a tail does between its wake,    *)
(* its query and the delivery of the rows are actions of their own.        *)
(***************************************************************************)
EXTENDS EventStore, Sequences, FiniteSets, SequencesExt

CONSTANTS
  Fiber,       \* fibers that publish or replay
  Reader,      \* fibers that run a stream of durable()
  Chunk,       \* inputs of replayAll: sequences of events of one aggregate
  MaxSeq,      \* bound: the largest sequence of an aggregate
  MaxRemoves   \* bound: removed aggregates

ASSUME ChunkAssumption ==
  \A c \in Chunk : /\ c \in Seq(Event) \ {<<>>}
                   /\ \A n \in DOMAIN c : c[n].aggregate = c[1].aggregate

VARIABLES
  db,        \* the event tables
  fiber,     \* what each publishing or replaying fiber is about to do
  tail,      \* each tail: where it is, its aggregate, after, cursor, batch, wake
  got,       \* history: what each tail has emitted since it was opened
  writers,   \* history: owners that appended by replay since an aggregate was last
             \* claimed or removed
  announced, \* history: stored events that listeners have been told of
  removes

vars == <<db, fiber, tail, got, writers, announced, removes>>

Idle == [at |-> "idle"]

FiberState ==
  {Idle}
    \cup [at : {"replay"}, rest : Seq(Event) \ {<<>>}, by : Owner \cup {None}, strict : BOOLEAN]
    \cup [at : {"wake", "notify"}, event : Event, rest : Seq(Event),
          by : Owner \cup {None}, strict : BOOLEAN]

Closed == [at |-> "closed"]

\* querying: about to read.  emitting: holding rows.  waiting: for a wake, of which
\* a sliding buffer keeps one.
TailState ==
  {Closed} \cup [at : {"querying", "emitting", "waiting"}, aggregate : Aggregate,
                 after : Nat \cup {-1}, cursor : Nat \cup {-1},
                 batch : Seq(Event), woken : BOOLEAN]

TypeOK ==
  /\ db \in Store
  /\ fiber \in [Fiber -> FiberState]
  /\ tail \in [Reader -> TailState]
  /\ got \in [Reader -> Seq(Event)]
  /\ writers \in [Aggregate -> SUBSET Owner]
  /\ announced \subseteq Event

Init ==
  /\ db = EmptyStore
  /\ fiber = [f \in Fiber |-> Idle]
  /\ tail = [t \in Reader |-> Closed]
  /\ got = [t \in Reader |-> <<>>]
  /\ writers = [a \in Aggregate |-> {}]
  /\ announced = {} /\ removes = 0

-------------------------------------------------------------------------------
(* Publishing and replaying *)

Committing(f, e, rest, by, strict) ==
  fiber' = [fiber EXCEPT ![f] =
    [at |-> "wake", event |-> e, rest |-> rest, by |-> by, strict |-> strict]]

\* publish: the next sequence whoever owns the aggregate, unless the ID is taken.
Publish(f, a, id, data) ==
  /\ fiber[f] = Idle /\ ~Used(db, id) /\ db.seq[a] < MaxSeq
  /\ db' = Appended(db, Following(db, a, id, data), None)
  /\ Committing(f, Following(db, a, id, data), <<>>, None, FALSE)
  /\ UNCHANGED <<tail, got, writers, announced, removes>>

\* replayAll: one aggregate, ascending without a gap, or a defect at once.
ReplayAll(f, chunk, by, strict) ==
  /\ fiber[f] = Idle
  /\ \A n \in DOMAIN chunk : chunk[n].seq = chunk[1].seq + n - 1
  /\ fiber' = [fiber EXCEPT ![f] =
       [at |-> "replay", rest |-> chunk, by |-> by, strict |-> strict]]
  /\ UNCHANGED <<db, tail, got, writers, announced, removes>>

\* Deviation: one event too many is expected.
ContinuingPastEnd(f, rest) ==
  fiber' = [fiber EXCEPT ![f] =
    [at |-> "replay", rest |-> rest, by |-> fiber[f].by, strict |-> fiber[f].strict]]

\* Go on with the rest of a chunk, if there is any.
Continuing(f, rest) ==
  fiber' = [fiber EXCEPT ![f] =
    IF rest = <<>> THEN Idle
    ELSE [at |-> "replay", rest |-> rest, by |-> fiber[f].by, strict |-> fiber[f].strict]]

\* replay of one event: its transaction.  A defect ends the whole replayAll; what
\* was committed before stays.
ReplayOne(f) ==
  /\ fiber[f].at = "replay"
  /\ LET e       == Head(fiber[f].rest)
         by      == fiber[f].by
         strict  == fiber[f].strict
         outcome == ReplayOutcome(db, e, by, strict) IN
       /\ db' = Replayed(db, e, by, strict)
       /\ \/ /\ outcome = "committed"
             /\ Committing(f, e, Tail(fiber[f].rest), by, strict)
             /\ writers' = [writers EXCEPT ![e.aggregate] = @ \cup ({by} \ {None})]
          \/ /\ outcome \in {"known", "ignored"}
             /\ Continuing(f, Tail(fiber[f].rest)) /\ UNCHANGED writers
          \/ /\ outcome = "refused"
             /\ fiber' = [fiber EXCEPT ![f] = Idle] /\ UNCHANGED writers
  /\ UNCHANGED <<tail, got, announced, removes>>

\* A strict replay (POST /sync/replay) does not ask for notification.
Woken(f) == IF fiber[f].strict THEN Continuing(f, fiber[f].rest)
            ELSE fiber' = [fiber EXCEPT ![f].at = "notify"]

\* Deviation: a tail that is not waiting misses the wake.
WakeWaiting(f) ==
  /\ fiber[f].at = "wake"
  /\ tail' = [t \in Reader |->
       IF tail[t].at = "waiting" /\ tail[t].aggregate = fiber[f].event.aggregate
       THEN [tail[t] EXCEPT !.woken = TRUE] ELSE tail[t]]
  /\ Woken(f)
  /\ UNCHANGED <<db, got, writers, announced, removes>>

\* The commit wakes every tail of the aggregate.
Wake(f) ==
  /\ fiber[f].at = "wake"
  /\ tail' = [t \in Reader |->
       IF tail[t].at # "closed" /\ tail[t].aggregate = fiber[f].event.aggregate
       THEN [tail[t] EXCEPT !.woken = TRUE] ELSE tail[t]]
  /\ Woken(f)
  /\ UNCHANGED <<db, got, writers, announced, removes>>

\* notify: listeners and live streams.
Notify(f) ==
  /\ fiber[f].at = "notify"
  /\ announced' = (announced \cup {fiber[f].event}) \cap db.events
  /\ Continuing(f, fiber[f].rest)
  /\ UNCHANGED <<db, tail, got, writers, removes>>

\* The fiber is interrupted; a commit and its wakes are uninterruptible.
Abandon(f) ==
  /\ fiber[f].at \in {"replay", "notify"}
  /\ fiber' = [fiber EXCEPT ![f] = Idle]
  /\ UNCHANGED <<db, tail, got, writers, announced, removes>>

Claim(a, by) ==
  /\ db' = Claimed(db, a, by)
  /\ writers' = [writers EXCEPT ![a] = {}]
  /\ UNCHANGED <<fiber, tail, got, announced, removes>>

RemoveAggregate(a) ==
  /\ removes < MaxRemoves /\ removes' = removes + 1
  /\ db' = Removed(db, a)
  /\ writers' = [writers EXCEPT ![a] = {}]
  /\ announced' = announced \cap db'.events
  /\ UNCHANGED <<fiber, tail, got>>

-------------------------------------------------------------------------------
(* durable(): subscribe to wakes, then read what is there, then follow *)

Open(t, a, after) ==
  /\ tail[t] = Closed
  /\ tail' = [tail EXCEPT ![t] =
       [at |-> "querying", aggregate |-> a, after |-> after, cursor |-> after,
        batch |-> <<>>, woken |-> FALSE]]
  /\ got' = [got EXCEPT ![t] = <<>>]
  /\ UNCHANGED <<db, fiber, writers, announced, removes>>

\* ORDER BY seq: the n-th row is the one with n - 1 rows before it.
InSequence(rows) ==
  [n \in 1 .. Cardinality(rows) |->
     CHOOSE e \in rows : Cardinality({f \in rows : f.seq < e.seq}) = n - 1]

\* Deviation: rows are read from the sequence the stream was opened with.
QueryFromStart(t) ==
  /\ tail[t].at = "querying"
  /\ tail' = [tail EXCEPT ![t].at = "emitting",
                          ![t].batch = InSequence(After(db, tail[t].aggregate, tail[t].after))]
  /\ UNCHANGED <<db, fiber, got, writers, announced, removes>>

\* readAfter
Query(t) ==
  /\ tail[t].at = "querying"
  /\ tail' = [tail EXCEPT ![t].at = "emitting",
                          ![t].batch = InSequence(After(db, tail[t].aggregate, tail[t].cursor))]
  /\ UNCHANGED <<db, fiber, got, writers, announced, removes>>

\* The cursor moves to the last row, and the consumer takes the rows.
Emit(t) ==
  /\ tail[t].at = "emitting"
  /\ LET batch == tail[t].batch IN
       /\ tail' = [tail EXCEPT ![t].at = "waiting", ![t].batch = <<>>,
                     ![t].cursor = IF batch = <<>> THEN @ ELSE batch[Len(batch)].seq]
       /\ got' = [got EXCEPT ![t] = @ \o batch]
  /\ UNCHANGED <<db, fiber, writers, announced, removes>>

TakeWake(t) ==
  /\ tail[t].at = "waiting" /\ tail[t].woken
  /\ tail' = [tail EXCEPT ![t].at = "querying", ![t].woken = FALSE]
  /\ UNCHANGED <<db, fiber, got, writers, announced, removes>>

Close(t) ==
  /\ tail[t] # Closed
  /\ tail' = [tail EXCEPT ![t] = Closed]
  /\ UNCHANGED <<db, fiber, got, writers, announced, removes>>

Next ==
  \/ \E f \in Fiber :
       \/ \E a \in Aggregate, id \in EventId, data \in Data : Publish(f, a, id, data)
       \/ \E chunk \in Chunk, by \in Owner \cup {None}, strict \in BOOLEAN :
            ReplayAll(f, chunk, by, strict)
       \/ ReplayOne(f) \/ Wake(f) \/ Notify(f) \/ Abandon(f)
  \/ \E a \in Aggregate : RemoveAggregate(a) \/ \E by \in Owner : Claim(a, by)
  \/ \E t \in Reader :
       \/ \E a \in Aggregate, after \in {-1, 0} : Open(t, a, after)
       \/ Query(t) \/ Emit(t) \/ TakeWake(t) \/ Close(t)

Safe == Init /\ [][Next]_vars

\* A commit wakes the tails before anything can interrupt its fiber; a stream
\* whose consumer pulls keeps going.
Fairness ==
  /\ \A f \in Fiber : WF_vars(Wake(f))
  /\ \A t \in Reader : WF_vars(Query(t) \/ Emit(t) \/ TakeWake(t))

Spec == Safe /\ Fairness
-------------------------------------------------------------------------------
(* Properties *)

\* The sequence table and the event table stay in step: publishes and replays,
\* accepted, repeated or rejected, leave no gap and no second row for a sequence; and
\* an event ID stands for one event in one place of one aggregate.
LogIsSound == Contiguous(db) /\ UniqueIds(db)

\* Between two claims of an aggregate only one owner's replays get in, also when
\* chunks of several owners are replayed at the same time.
OneWriter ==
  \A a \in Aggregate :
    /\ Cardinality(writers[a]) <= 1
    /\ db.owner[a] # None => writers[a] \subseteq {db.owner[a]}

\* Listeners hear of a stored event once, however often and from however many
\* sides it is replayed.
AnnouncedOnce == [][\A f \in Fiber : Notify(f) => fiber[f].event \notin announced]_vars

\* A tail emits each event after its starting point exactly once and in order,
\* across the handoff from history to live.
TailHasNoGap ==
  \A t \in Reader : tail[t] # Closed =>
    /\ \A n \in DOMAIN got[t] : got[t][n].seq = tail[t].after + n
    /\ tail[t].cursor = tail[t].after + Len(got[t])

BoundedEvent == [id : EventId, aggregate : Aggregate, seq : 0 .. MaxSeq, data : Data]

\* The tail is open on the event's aggregate and started before the event.
Follows(t, e) ==
  tail[t] # Closed /\ tail[t].aggregate = e.aggregate /\ tail[t].after < e.seq

\* "replays durable events after the optional aggregate sequence, continues with
\* newly committed durable events": whatever is stored while a tail is open is
\* emitted by it, however commits and reads interleave.
TailCatchesUp ==
  \A t \in Reader, e \in BoundedEvent :
    (Follows(t, e) /\ e \in db.events)
      ~> (~Follows(t, e) \/ e \notin db.events \/ e \in ToSet(got[t]))
===============================================================================
