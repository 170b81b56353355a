---------------------------- MODULE EventLogProofs ----------------------------
(***************************************************************************)
(* The event tables of EventLog are right for any aggregates, owners,      *)
(* fibers and chunks: no bound of the TLC runs is used.                    *)
(***************************************************************************)
EXTENDS EventLog, FunctionTheorems, SequenceTheorems, FiniteSetTheorems, TLAPS


-------------------------------------------------------------------------------
(* What the operators return, field by field *)

\* Appending sets the sequence, adds the row and adopts an unowned aggregate.
LEMMA AppendedFields ==
  ASSUME NEW d \in Store, NEW e \in Event, NEW by \in Owner \cup {None}
  PROVE  /\ Appended(d, e, by) \in Store
         /\ Appended(d, e, by).seq = [d.seq EXCEPT ![e.aggregate] = e.seq]
         /\ Appended(d, e, by).events = d.events \cup {e}
         /\ Appended(d, e, by).owner =
              [d.owner EXCEPT ![e.aggregate] =
                 IF d.owner[e.aggregate] = None THEN by ELSE d.owner[e.aggregate]]
BY DEF Appended, Adopted, Store, Event

\* Adoption touches the owner alone.
LEMMA AdoptedFields ==
  ASSUME NEW d \in Store, NEW a \in Aggregate, NEW by \in Owner \cup {None}
  PROVE  /\ Adopted(d, a, by) \in Store
         /\ Adopted(d, a, by).seq = d.seq
         /\ Adopted(d, a, by).events = d.events
         /\ Adopted(d, a, by).owner =
              [d.owner EXCEPT ![a] = IF d.owner[a] = None THEN by ELSE d.owner[a]]
BY DEF Adopted, Store

\* A claim touches the owner alone.
LEMMA ClaimedFields ==
  ASSUME NEW d \in Store, NEW a \in Aggregate, NEW by \in Owner \cup {None}
  PROVE  /\ Claimed(d, a, by) \in Store
         /\ Claimed(d, a, by).seq = d.seq
         /\ Claimed(d, a, by).events = d.events
         /\ \A b \in Aggregate \ {a} : Claimed(d, a, by).owner[b] = d.owner[b]
BY DEF Claimed, Store

\* Removal clears every trace of the aggregate and of no other.
LEMMA RemovedFields ==
  ASSUME NEW d \in Store, NEW a \in Aggregate
  PROVE  /\ Removed(d, a) \in Store
         /\ Removed(d, a).seq = [d.seq EXCEPT ![a] = -1]
         /\ Removed(d, a).events = {e \in d.events : e.aggregate # a}
         /\ Removed(d, a).owner = [d.owner EXCEPT ![a] = None]
BY DEF Removed, Store

-------------------------------------------------------------------------------
(* They keep the tables in step *)

\* Tables with the same rows and sequences are equally sound.
LEMMA SameRows ==
  ASSUME NEW d, NEW g, g.seq = d.seq, g.events = d.events, Contiguous(d), UniqueIds(d)
  PROVE  Contiguous(g) /\ UniqueIds(g)
BY DEF Contiguous, UniqueIds, After

\* An unused ID in the next sequence of its aggregate may be appended.
LEMMA AppendKeepsTables ==
  ASSUME NEW d \in Store, NEW e \in Event, NEW by \in Owner \cup {None},
         Contiguous(d), UniqueIds(d), ~Used(d, e.id), e.seq = d.seq[e.aggregate] + 1
  PROVE  Contiguous(Appended(d, e, by)) /\ UniqueIds(Appended(d, e, by))
<1> DEFINE g == Appended(d, e, by)
<1>1. /\ g.seq = [d.seq EXCEPT ![e.aggregate] = e.seq]
      /\ g.events = d.events \cup {e}
  BY AppendedFields
<1>2. d.seq \in [Aggregate -> Nat \cup {-1}] /\ d.events \subseteq Event /\ e.aggregate \in Aggregate
      /\ e.seq \in Nat
  BY DEF Store, Event
<1> HIDE DEF g
<1>3. UniqueIds(g)
  BY <1>1 DEF UniqueIds, Used
<1>4. ASSUME NEW a \in Aggregate
      PROVE  /\ {r.seq : r \in After(g, a, -1)} = 0 .. g.seq[a]
             /\ \A r, s \in After(g, a, -1) : r.seq = s.seq => r = s
  <2>0. /\ {r.seq : r \in After(d, a, -1)} = 0 .. d.seq[a]
        /\ \A r, s \in After(d, a, -1) : r.seq = s.seq => r = s
    BY DEF Contiguous
  <2>1. CASE a # e.aggregate
    <3>1. After(g, a, -1) = After(d, a, -1) /\ g.seq[a] = d.seq[a]
      BY <1>1, <1>2, <2>1 DEF After
    <3> QED BY <2>0, <3>1
  <2>2. CASE a = e.aggregate
    <3>1. After(g, a, -1) = After(d, a, -1) \cup {e} /\ g.seq[a] = e.seq
      BY <1>1, <1>2, <2>2 DEF After
    <3>2. 0 .. e.seq = (0 .. d.seq[a]) \cup {e.seq}
      BY <1>2, <2>2
    <3>3. \A r \in After(d, a, -1) : r.seq # e.seq
      <4> SUFFICES ASSUME NEW r \in After(d, a, -1) PROVE r.seq # e.seq
        OBVIOUS
      <4>1. r.seq \in 0 .. d.seq[a]
        BY <2>0
      <4> QED BY <4>1, <1>2, <2>2
    <3>4. {r.seq : r \in After(g, a, -1)} = {r.seq : r \in After(d, a, -1)} \cup {e.seq}
      BY <3>1
    <3> QED BY <2>0, <3>1, <3>2, <3>3, <3>4
  <2> QED BY <2>1, <2>2
<1> QED BY <1>3, <1>4 DEF g, Contiguous

\* A removal leaves nothing behind that could be out of step.
LEMMA RemoveKeepsTables ==
  ASSUME NEW d \in Store, NEW b \in Aggregate, Contiguous(d), UniqueIds(d)
  PROVE  Contiguous(Removed(d, b)) /\ UniqueIds(Removed(d, b))
<1> DEFINE g == Removed(d, b)
<1>1. g.seq = [d.seq EXCEPT ![b] = -1] /\ g.events = {e \in d.events : e.aggregate # b}
  BY RemovedFields
<1>2. d.seq \in [Aggregate -> Nat \cup {-1}]
  BY DEF Store
<1> HIDE DEF g
<1>3. UniqueIds(g)
  BY <1>1 DEF UniqueIds
<1>4. ASSUME NEW a \in Aggregate
      PROVE  /\ {r.seq : r \in After(g, a, -1)} = 0 .. g.seq[a]
             /\ \A r, s \in After(g, a, -1) : r.seq = s.seq => r = s
  <2>1. CASE a = b
    <3>1. After(g, a, -1) = {} /\ g.seq[a] = -1
      BY <1>1, <1>2, <2>1 DEF After
    <3> QED BY <3>1
  <2>2. CASE a # b
    <3>1. After(g, a, -1) = After(d, a, -1) /\ g.seq[a] = d.seq[a]
      BY <1>1, <1>2, <2>2 DEF After
    <3> QED BY <3>1 DEF Contiguous
  <2> QED BY <2>1, <2>2
<1> QED BY <1>3, <1>4 DEF g, Contiguous

\* Whatever a replay decides, the tables stay in step.
LEMMA ReplayKeepsTables ==
  ASSUME NEW d \in Store, NEW e \in Event, NEW by \in Owner \cup {None}, NEW strict \in BOOLEAN,
         Contiguous(d), UniqueIds(d)
  PROVE  /\ Replayed(d, e, by, strict) \in Store
         /\ Contiguous(Replayed(d, e, by, strict))
         /\ UniqueIds(Replayed(d, e, by, strict))
<1> DEFINE outcome == ReplayOutcome(d, e, by, strict)
<1>0. e.aggregate \in Aggregate
  BY DEF Event
<1>1. CASE outcome = "committed"
  <2>1. e.seq = d.seq[e.aggregate] + 1 /\ ~Used(d, e.id)
    BY <1>1 DEF ReplayOutcome
  <2>2. Replayed(d, e, by, strict) = Appended(d, e, by)
    BY <1>1 DEF Replayed
  <2>3. Appended(d, e, by) \in Store
    BY AppendedFields
  <2>4. Contiguous(Appended(d, e, by)) /\ UniqueIds(Appended(d, e, by))
    BY <2>1, AppendKeepsTables
  <2> QED BY <2>2, <2>3, <2>4
<1>2. CASE outcome = "known"
  <2>1. Replayed(d, e, by, strict) = Adopted(d, e.aggregate, by)
    BY <1>2 DEF Replayed
  <2>2. /\ Adopted(d, e.aggregate, by) \in Store
        /\ Adopted(d, e.aggregate, by).seq = d.seq
        /\ Adopted(d, e.aggregate, by).events = d.events
    <3>1. \A a \in Aggregate : /\ Adopted(d, a, by) \in Store
                              /\ Adopted(d, a, by).seq = d.seq
                              /\ Adopted(d, a, by).events = d.events
      BY AdoptedFields
    <3> QED BY <1>0, <3>1
  <2> QED BY <2>1, <2>2, SameRows
<1>3. CASE outcome \notin {"committed", "known"}
  BY <1>3 DEF Replayed
<1> QED BY <1>1, <1>2, <1>3

-------------------------------------------------------------------------------
(* The inductive invariant *)

\* Whoever appended by replay since the last claim is the owner.
WritersOwn ==
  \A a \in Aggregate : writers[a] = {} \/ (db.owner[a] # None /\ writers[a] = {db.owner[a]})

IInv ==
  /\ db \in Store
  /\ fiber \in [Fiber -> FiberState]
  /\ writers \in [Aggregate -> SUBSET Owner]
  /\ Contiguous(db)
  /\ UniqueIds(db)
  /\ WritersOwn

\* Nothing is stored, owned or under way at first.
LEMMA InitIInv == Init => IInv
<1> SUFFICES ASSUME Init PROVE IInv
  OBVIOUS
<1>1. db \in Store
  BY DEF Init, EmptyStore, Store
<1>2. fiber \in [Fiber -> FiberState]
  BY DEF Init, FiberState
<1>3. writers \in [Aggregate -> SUBSET Owner] /\ WritersOwn
  BY DEF Init, WritersOwn
<1>4. Contiguous(db) /\ UniqueIds(db)
  <2>1. db.events = {} /\ \A a \in Aggregate : db.seq[a] = -1
    BY DEF Init, EmptyStore
  <2>2. \A a \in Aggregate : After(db, a, -1) = {}
    BY <2>1 DEF After
  <2>3. 0 .. -1 = {}
    OBVIOUS
  <2> QED BY <2>1, <2>2, <2>3 DEF Contiguous, UniqueIds
<1> QED BY <1>1, <1>2, <1>3, <1>4 DEF IInv

\* A publish goes to the next sequence under an unused ID and leaves the owner.
LEMMA PublishKeepsIInv ==
  ASSUME IInv, NEW f \in Fiber, NEW a \in Aggregate, NEW id \in EventId, NEW data \in Data,
         Publish(f, a, id, data)
  PROVE  IInv'
<1> DEFINE e == Following(db, a, id, data)
<1>1. e \in Event /\ e.aggregate = a /\ e.seq = db.seq[a] + 1 /\ e.id = id
  BY DEF IInv, Store, Event, Following
<1>2. ~Used(db, e.id) /\ db' = Appended(db, e, None) /\ db \in Store /\ Contiguous(db) /\ UniqueIds(db)
  BY <1>1 DEF Publish, IInv
<1> HIDE DEF e
<1>3. /\ Appended(db, e, None) \in Store
      /\ Appended(db, e, None).owner =
           [db.owner EXCEPT ![e.aggregate] =
              IF db.owner[e.aggregate] = None THEN None ELSE db.owner[e.aggregate]]
  BY <1>1, <1>2, AppendedFields
<1>4. Contiguous(Appended(db, e, None)) /\ UniqueIds(Appended(db, e, None))
  BY <1>1, <1>2, AppendKeepsTables
<1>5. Contiguous(db)' /\ UniqueIds(db)' /\ db' \in Store
  BY <1>2, <1>3, <1>4 DEF Contiguous, UniqueIds, After
<1>6. db'.owner = db.owner
  BY <1>1, <1>2, <1>3 DEF Store
<1>7. fiber' \in [Fiber -> FiberState]
  <2>1. [at |-> "wake", event |-> e, rest |-> <<>>, by |-> None, strict |-> FALSE] \in FiberState
    BY <1>1 DEF FiberState
  <2> QED BY <2>1 DEF Publish, Committing, IInv, e
<1>8. WritersOwn' /\ writers' \in [Aggregate -> SUBSET Owner]
  BY <1>6 DEF Publish, IInv, WritersOwn
<1> QED BY <1>5, <1>7, <1>8 DEF IInv

\* Going on with a chunk is well typed.
LEMMA ContinuingTyped ==
  ASSUME fiber \in [Fiber -> FiberState], NEW f \in Fiber, fiber[f].at # "idle",
         NEW rest \in Seq(Event), Continuing(f, rest)
  PROVE  fiber' \in [Fiber -> FiberState]
<1>1. fiber[f].by \in Owner \cup {None} /\ fiber[f].strict \in BOOLEAN
  BY DEF FiberState, Idle
<1>2. (IF rest = <<>> THEN Idle
       ELSE [at |-> "replay", rest |-> rest, by |-> fiber[f].by, strict |-> fiber[f].strict])
        \in FiberState
  BY <1>1 DEF FiberState
<1> QED BY <1>2 DEF Continuing

\* A replayed event leaves tables and owner as they should be.
LEMMA ReplayOneKeepsIInv ==
  ASSUME IInv, NEW f \in Fiber, ReplayOne(f)
  PROVE  IInv'
<1> DEFINE e == Head(fiber[f].rest)
           r == Tail(fiber[f].rest)
           by == fiber[f].by
           strict == fiber[f].strict
           outcome == ReplayOutcome(db, e, by, strict)
<1>1. /\ fiber[f].rest \in Seq(Event) /\ fiber[f].rest # <<>>
      /\ by \in Owner \cup {None} /\ strict \in BOOLEAN
  BY DEF IInv, ReplayOne, FiberState, Idle
<1>2. e \in Event /\ r \in Seq(Event) /\ e.aggregate \in Aggregate
  <2>1. e \in Event /\ r \in Seq(Event)
    BY <1>1
  <2> QED BY <2>1 DEF Event
<1>3. /\ db \in Store /\ Contiguous(db) /\ UniqueIds(db) /\ fiber \in [Fiber -> FiberState]
      /\ writers \in [Aggregate -> SUBSET Owner] /\ WritersOwn /\ fiber[f].at = "replay"
      /\ db' = Replayed(db, e, by, strict)
  BY DEF IInv, ReplayOne
<1>4. \/ /\ outcome = "committed" /\ Committing(f, e, r, by, strict)
         /\ writers' = [writers EXCEPT ![e.aggregate] = writers[e.aggregate] \cup ({by} \ {None})]
      \/ outcome \in {"known", "ignored"} /\ Continuing(f, r) /\ UNCHANGED writers
      \/ outcome = "refused" /\ fiber' = [fiber EXCEPT ![f] = Idle] /\ UNCHANGED writers
  BY DEF ReplayOne
<1> HIDE DEF e, r, by, strict
<1>5. db' \in Store /\ Contiguous(db') /\ UniqueIds(db')
  BY <1>1, <1>2, <1>3, ReplayKeepsTables
<1>6. Contiguous(db)' /\ UniqueIds(db)'
  BY <1>5 DEF Contiguous, UniqueIds, After
<1>7. fiber' \in [Fiber -> FiberState]
  <2>1. CASE Committing(f, e, r, by, strict)
    <3>1. [at |-> "wake", event |-> e, rest |-> r, by |-> by, strict |-> strict] \in FiberState
      BY <1>1, <1>2 DEF FiberState
    <3> QED BY <2>1, <3>1, <1>3 DEF Committing
  <2>2. CASE Continuing(f, r)
    BY <2>2, <1>2, <1>3, ContinuingTyped
  <2>3. CASE fiber' = [fiber EXCEPT ![f] = Idle]
    BY <2>3, <1>3 DEF FiberState
  <2> QED BY <1>4, <2>1, <2>2, <2>3
<1>8. WritersOwn' /\ writers' \in [Aggregate -> SUBSET Owner]
  <2>0. db \in Store /\ e \in Event /\ e.aggregate \in Aggregate /\ by \in Owner \cup {None}
    BY <1>1, <1>2, <1>3
  <2>1. CASE outcome = "committed"
    <3>1. db' = Appended(db, e, by)
      BY <1>3, <2>1 DEF Replayed
    <3>2. db'.owner = [db.owner EXCEPT ![e.aggregate] =
                         IF db.owner[e.aggregate] = None THEN by ELSE db.owner[e.aggregate]]
      BY <2>0, <3>1, AppendedFields
    <3>3. db.owner[e.aggregate] = None \/ db.owner[e.aggregate] = by
      BY <2>1 DEF ReplayOutcome, Foreign
    <3>4. writers' = [writers EXCEPT ![e.aggregate] = writers[e.aggregate] \cup ({by} \ {None})]
      BY <1>4, <2>1
    <3> QED BY <1>1, <1>2, <1>3, <3>2, <3>3, <3>4 DEF WritersOwn, Store
  <2>2. CASE outcome = "known"
    <3>1. db' = Adopted(db, e.aggregate, by) /\ writers' = writers
      BY <1>3, <1>4, <2>2 DEF Replayed
    <3>2. db'.owner = [db.owner EXCEPT ![e.aggregate] =
                         IF db.owner[e.aggregate] = None THEN by ELSE db.owner[e.aggregate]]
      BY <2>0, <3>1, AdoptedFields
    <3> QED BY <1>2, <1>3, <3>1, <3>2 DEF WritersOwn, Store
  <2>3. CASE outcome \in {"ignored", "refused"}
    <3>1. db' = db /\ writers' = writers
      BY <1>3, <1>4, <2>3 DEF Replayed
    <3> QED BY <1>3, <3>1 DEF WritersOwn
  <2> QED BY <1>4, <2>1, <2>2, <2>3
<1> QED BY <1>5, <1>6, <1>7, <1>8 DEF IInv

\* A claim starts a new period with no writers.
LEMMA ClaimKeepsIInv ==
  ASSUME IInv, NEW a \in Aggregate, NEW by \in Owner, Claim(a, by)
  PROVE  IInv'
<1>1. /\ db' \in Store /\ db'.seq = db.seq /\ db'.events = db.events
      /\ \A b \in Aggregate \ {a} : db'.owner[b] = db.owner[b]
  BY ClaimedFields DEF Claim, IInv
<1>2. Contiguous(db') /\ UniqueIds(db')
  BY <1>1, SameRows DEF IInv
<1>3. WritersOwn' /\ writers' \in [Aggregate -> SUBSET Owner]
  BY <1>1 DEF Claim, IInv, WritersOwn
<1>4. Contiguous(db)' /\ UniqueIds(db)'
  BY <1>2 DEF Contiguous, UniqueIds, After
<1> QED BY <1>1, <1>3, <1>4 DEF Claim, IInv

\* A removed aggregate has no writers either.
LEMMA RemoveKeepsIInv ==
  ASSUME IInv, NEW a \in Aggregate, RemoveAggregate(a)
  PROVE  IInv'
<1>1. db' \in Store /\ db'.owner = [db.owner EXCEPT ![a] = None]
  BY RemovedFields DEF RemoveAggregate, IInv
<1>2. Contiguous(db') /\ UniqueIds(db')
  BY RemoveKeepsTables DEF RemoveAggregate, IInv
<1>3. WritersOwn' /\ writers' \in [Aggregate -> SUBSET Owner]
  BY <1>1 DEF RemoveAggregate, IInv, WritersOwn, Store
<1>4. Contiguous(db)' /\ UniqueIds(db)'
  BY <1>2 DEF Contiguous, UniqueIds, After
<1> QED BY <1>1, <1>3, <1>4 DEF RemoveAggregate, IInv

\* No step of Next breaks the invariant.
LEMMA NextKeepsIInv == IInv /\ [Next]_vars => IInv'
<1> SUFFICES ASSUME IInv, [Next]_vars PROVE IInv'
  OBVIOUS
<1>0. ASSUME UNCHANGED <<db, writers>>, fiber' \in [Fiber -> FiberState] PROVE IInv'
  BY <1>0 DEF IInv, WritersOwn, Contiguous, UniqueIds, After
<1>1. ASSUME NEW f \in Fiber, NEW a \in Aggregate, NEW id \in EventId, NEW data \in Data,
             Publish(f, a, id, data)
      PROVE  IInv'
  BY <1>1, PublishKeepsIInv
<1>2. ASSUME NEW f \in Fiber, NEW chunk \in Chunk, NEW by \in Owner \cup {None},
             NEW strict \in BOOLEAN, ReplayAll(f, chunk, by, strict)
      PROVE  IInv'
  <2>1. chunk \in Seq(Event) \ {<<>>}
    BY ChunkAssumption
  <2>2. [at |-> "replay", rest |-> chunk, by |-> by, strict |-> strict] \in FiberState
    BY <2>1 DEF FiberState
  <2>3. fiber' \in [Fiber -> FiberState]
    BY <1>2, <2>2 DEF ReplayAll, IInv
  <2> QED BY <1>0, <1>2, <2>3 DEF ReplayAll
<1>3. ASSUME NEW f \in Fiber, ReplayOne(f) PROVE IInv'
  BY <1>3, ReplayOneKeepsIInv
<1>4. ASSUME NEW f \in Fiber, Wake(f) PROVE IInv'
  <2>1. fiber[f] \in FiberState /\ fiber[f].at = "wake" /\ fiber[f].rest \in Seq(Event)
    BY <1>4 DEF Wake, IInv, FiberState, Idle
  <2>2. CASE Continuing(f, fiber[f].rest)
    <3>1. fiber' \in [Fiber -> FiberState]
      BY <2>1, <2>2, ContinuingTyped DEF IInv
    <3> QED BY <1>0, <1>4, <3>1 DEF Wake
  <2>3. CASE fiber' = [fiber EXCEPT ![f].at = "notify"]
    <3>1. [fiber[f] EXCEPT !.at = "notify"] \in FiberState
      BY <2>1 DEF FiberState, Idle
    <3>2. fiber' \in [Fiber -> FiberState]
      BY <2>3, <3>1 DEF IInv
    <3> QED BY <1>0, <1>4, <3>2 DEF Wake
  <2> QED BY <1>4, <2>2, <2>3 DEF Wake, Woken
<1>5. ASSUME NEW f \in Fiber, Notify(f) PROVE IInv'
  <2>1. fiber[f].at = "notify" /\ fiber[f].rest \in Seq(Event)
    BY <1>5 DEF Notify, IInv, FiberState, Idle
  <2>2. fiber' \in [Fiber -> FiberState]
    BY <1>5, <2>1, ContinuingTyped DEF Notify, IInv
  <2> QED BY <1>0, <1>5, <2>2 DEF Notify
<1>6. ASSUME NEW f \in Fiber, Abandon(f) PROVE IInv'
  <2>1. fiber' \in [Fiber -> FiberState]
    BY <1>6 DEF Abandon, IInv, FiberState
  <2> QED BY <1>0, <1>6, <2>1 DEF Abandon
<1>7. ASSUME NEW a \in Aggregate, RemoveAggregate(a) PROVE IInv'
  BY <1>7, RemoveKeepsIInv
<1>8. ASSUME NEW a \in Aggregate, NEW by \in Owner, Claim(a, by) PROVE IInv'
  BY <1>8, ClaimKeepsIInv
<1>9. CASE UNCHANGED <<db, fiber, writers>>
  <2>1. fiber' \in [Fiber -> FiberState]
    BY <1>9 DEF IInv
  <2> QED BY <1>0, <1>9, <2>1
<1>10. ASSUME NEW t \in Reader, NEW a \in Aggregate, NEW after \in {-1, 0}, Open(t, a, after)
       PROVE  UNCHANGED <<db, fiber, writers>>
  BY <1>10 DEF Open
<1>11. ASSUME NEW t \in Reader, Query(t) \/ Emit(t) \/ TakeWake(t) \/ Close(t)
       PROVE  UNCHANGED <<db, fiber, writers>>
  BY <1>11 DEF Query, Emit, TakeWake, Close
<1>12. CASE UNCHANGED vars
  BY <1>9, <1>12 DEF vars
<1> QED
  BY <1>1, <1>2, <1>3, <1>4, <1>5, <1>6, <1>7, <1>8, <1>9, <1>10, <1>11, <1>12 DEF Next

\* The invariant holds throughout.
THEOREM InvariantHolds == Safe => []IInv
<1>1. IInv /\ [Next]_vars => IInv'
  BY NextKeepsIInv
<1> QED BY InitIInv, <1>1, PTL DEF Safe

\* Whatever is published, replayed, claimed and removed in whatever order, an
\* aggregate's rows carry the sequences 0 to its latest, one row each, and an event ID
\* never stands for two rows.
THEOREM SoundAlways == Safe => []LogIsSound
<1>1. IInv => LogIsSound
  BY DEF IInv, LogIsSound
<1> QED BY InvariantHolds, <1>1, PTL

\* Between two claims only one owner's replays are appended.
THEOREM SingleWriter == Safe => []OneWriter
<1>1. IInv => OneWriter
  <2> SUFFICES ASSUME IInv, NEW a \in Aggregate
               PROVE  /\ Cardinality(writers[a]) <= 1
                      /\ db.owner[a] # None => writers[a] \subseteq {db.owner[a]}
    BY DEF OneWriter
  <2>1. writers[a] = {} \/ (db.owner[a] # None /\ writers[a] = {db.owner[a]})
    BY DEF IInv, WritersOwn
  <2>2. CASE writers[a] = {}
    <3>1. Cardinality(writers[a]) = 0
      BY <2>2, FS_EmptySet
    <3> QED BY <2>2, <3>1
  <2>3. CASE db.owner[a] # None /\ writers[a] = {db.owner[a]}
    <3>1. Cardinality(writers[a]) = 1
      BY <2>3, FS_Singleton
    <3> QED BY <2>3, <3>1
  <2> QED BY <2>1, <2>2, <2>3
<1> QED BY InvariantHolds, <1>1, PTL

-------------------------------------------------------------------------------
(* Reading rows in order *)

\* Rows whose sequences are lo + 1 to hi, one row each, are hi - lo in number.
LEMMA RowsCounted ==
  ASSUME NEW S, NEW lo \in Int, NEW hi \in Int, {e.seq : e \in S} = lo + 1 .. hi,
         \A e, f \in S : e.seq = f.seq => e = f
  PROVE  IsFiniteSet(S) /\ Cardinality(S) = IF lo + 1 > hi THEN 0 ELSE hi - lo
<1> DEFINE I == lo + 1 .. hi
           g == [i \in I |-> CHOOSE e \in S : e.seq = i]
<1>1. \A i \in I : \E e \in S : e.seq = i
  OBVIOUS
<1>2. \A i \in I : g[i] \in S /\ g[i].seq = i
  BY <1>1
<1>3. \A e \in S : e.seq \in I
  OBVIOUS
<1>4. g \in [I -> S]
  BY <1>2
<1>5. \A i, j \in I : g[i] = g[j] => i = j
  BY <1>2
<1>6. \A e \in S : \E i \in I : g[i] = e
  BY <1>2, <1>3
<1>7. g \in Bijection(I, S)
  <2> HIDE DEF g
  <2> QED BY <1>4, <1>5, <1>6, Fun_IsBij
<1>8. IsFiniteSet(I) /\ Cardinality(I) = IF lo + 1 > hi THEN 0 ELSE hi - lo
  BY FS_Interval
<1>9. ExistsBijection(I, S)
  BY <1>7 DEF ExistsBijection
<1> QED BY <1>8, <1>9, FS_Bijection

\* Rows after lo come out in the order of their sequences, none left out.
LEMMA InSequenceOf ==
  ASSUME NEW S, NEW lo \in Int, NEW hi \in Int, {e.seq : e \in S} = lo + 1 .. hi,
         \A e, f \in S : e.seq = f.seq => e = f
  PROVE  /\ InSequence(S) \in Seq(S)
         /\ \A n \in 1 .. Len(InSequence(S)) : InSequence(S)[n].seq = lo + n
<1> DEFINE k == Cardinality(S)
           before(e) == {f \in S : f.seq < e.seq}
<1>1. k \in Nat /\ k = IF lo + 1 > hi THEN 0 ELSE hi - lo
  BY RowsCounted, FS_CardinalityType
<1>0. \A e \in S : e.seq \in lo + 1 .. hi
  OBVIOUS
<1>2. ASSUME NEW e \in S PROVE Cardinality(before(e)) = e.seq - 1 - lo /\ e.seq \in lo + 1 .. hi
  <2>1. e.seq \in lo + 1 .. hi
    OBVIOUS
  <2>2. {f.seq : f \in before(e)} = lo + 1 .. e.seq - 1
    <3>1. ASSUME NEW f \in before(e) PROVE f.seq \in lo + 1 .. e.seq - 1
      <4>1. f.seq \in lo + 1 .. hi /\ f.seq < e.seq
        BY <1>0
      <4> QED BY <2>1, <4>1
    <3>2. ASSUME NEW i \in lo + 1 .. e.seq - 1 PROVE \E f \in before(e) : f.seq = i
      <4>1. i \in lo + 1 .. hi
        BY <2>1
      <4>2. PICK f \in S : f.seq = i
        BY <4>1
      <4> QED BY <2>1, <4>2
    <3> QED BY <3>1, <3>2
  <2>3. \A f, h \in before(e) : f.seq = h.seq => f = h
    OBVIOUS
  <2>4. e.seq - 1 \in Int
    BY <2>1
  <2>5. Cardinality(before(e)) = IF lo + 1 > e.seq - 1 THEN 0 ELSE e.seq - 1 - lo
    <3> HIDE DEF before
    <3> QED BY <2>2, <2>3, <2>4, RowsCounted
  <2> QED BY <2>1, <2>5
<1>3. ASSUME NEW n \in 1 .. k
      PROVE  \E e \in S : Cardinality(before(e)) = n - 1
  <2>1. lo + n \in lo + 1 .. hi
    BY <1>1
  <2>2. PICK e \in S : e.seq = lo + n
    BY <2>1
  <2> QED BY <1>1, <1>2, <2>2
<1>4. ASSUME NEW n \in 1 .. k
      PROVE  InSequence(S)[n] \in S /\ InSequence(S)[n].seq = lo + n
  <2>1. InSequence(S)[n] = CHOOSE e \in S : Cardinality(before(e)) = n - 1
    BY DEF InSequence
  <2>2. InSequence(S)[n] \in S /\ Cardinality(before(InSequence(S)[n])) = n - 1
    <3> HIDE DEF before
    <3> QED BY <1>3, <2>1
  <2>3. InSequence(S)[n].seq - 1 - lo = n - 1 /\ InSequence(S)[n].seq \in Int
    <3>1. Cardinality(before(InSequence(S)[n])) = InSequence(S)[n].seq - 1 - lo
          /\ InSequence(S)[n].seq \in lo + 1 .. hi
      BY <1>2, <2>2
    <3> QED BY <2>2, <3>1
  <2> QED BY <1>1, <2>2, <2>3
<1>5. InSequence(S) \in [1 .. k -> S]
  <2> DEFINE row(n) == CHOOSE e \in S : Cardinality(before(e)) = n - 1
  <2>1. InSequence(S) = [n \in 1 .. k |-> row(n)]
    BY DEF InSequence
  <2>2. \A n \in 1 .. k : row(n) \in S
    BY <1>4, <2>1
  <2> HIDE DEF row
  <2> QED BY <2>1, <2>2
<1>6. InSequence(S) \in Seq(S) /\ Len(InSequence(S)) = k
  <2> HIDE DEF k
  <2> QED BY <1>1, <1>5
<1> QED BY <1>4, <1>6

\* What a tail reads from sound tables continues its cursor.
LEMMA ReadAfter ==
  ASSUME NEW d \in Store, Contiguous(d), NEW a \in Aggregate, NEW c \in Nat \cup {-1}
  PROVE  /\ InSequence(After(d, a, c)) \in Seq(Event)
         /\ \A n \in 1 .. Len(InSequence(After(d, a, c))) :
              InSequence(After(d, a, c))[n].seq = c + n
<1> DEFINE S == After(d, a, c)
<1>1. d.seq[a] \in Int /\ c \in Int /\ d.events \subseteq Event
  BY DEF Store
<1>2. /\ {e.seq : e \in After(d, a, -1)} = 0 .. d.seq[a]
      /\ \A e, f \in After(d, a, -1) : e.seq = f.seq => e = f
  BY DEF Contiguous
<1>3. S \subseteq After(d, a, -1) /\ S \subseteq Event
  BY <1>1 DEF After, Event
<1>4. \A e \in After(d, a, -1) : e.seq > c => e \in S
  BY DEF After
<1>5. \A e \in S : e.seq > c
  BY DEF After
<1> HIDE DEF S
<1>6. {e.seq : e \in S} = c + 1 .. d.seq[a]
  <2>1. ASSUME NEW e \in S PROVE e.seq \in c + 1 .. d.seq[a]
    <3>1. e.seq \in 0 .. d.seq[a]
      BY <1>2, <1>3
    <3> QED BY <1>1, <1>5, <3>1
  <2>2. ASSUME NEW i \in c + 1 .. d.seq[a] PROVE \E e \in S : e.seq = i
    <3>1. i \in 0 .. d.seq[a]
      BY <1>1
    <3>2. PICK e \in After(d, a, -1) : e.seq = i
      BY <1>2, <3>1
    <3> QED BY <1>1, <1>4, <3>2
  <2> QED BY <2>1, <2>2
<1>7. /\ InSequence(S) \in Seq(S)
      /\ \A n \in 1 .. Len(InSequence(S)) : InSequence(S)[n].seq = c + n
  BY <1>1, <1>2, <1>3, <1>6, InSequenceOf
<1>8. InSequence(S) \in Seq(Event)
  BY <1>3, <1>7, SeqMonotonic
<1> QED BY <1>7, <1>8 DEF S

-------------------------------------------------------------------------------
(* Tails *)

\* The rows continue the sequence lo without a gap.
Continues(rows, lo) == \A n \in 1 .. Len(rows) : rows[n].seq = lo + n

\* A tail holds rows only until it emits them; they continue its cursor, and what it
\* emitted leads from its start to its cursor.
TailInv ==
  /\ tail \in [Reader -> TailState]
  /\ got \in [Reader -> Seq(Event)]
  /\ announced \subseteq Event
  /\ \A t \in Reader : tail[t] # Closed =>
       /\ Continues(tail[t].batch, tail[t].cursor)
       /\ Continues(got[t], tail[t].after)
       /\ tail[t].cursor = tail[t].after + Len(got[t])

\* No tail is open at first.
LEMMA InitTailInv == Init => TailInv
BY DEF Init, TailInv, TailState

OpenState ==
  [at : {"querying", "emitting", "waiting"}, aggregate : Aggregate, after : Nat \cup {-1},
   cursor : Nat \cup {-1}, batch : Seq(Event), woken : BOOLEAN]

\* An open tail is in an open state, which is a state of a tail.
LEMMA OpenStates == OpenState \subseteq TailState /\ \A q \in OpenState : q # Closed
BY DEF OpenState, TailState, Closed

\* The fields of an open tail.
LEMMA OpenTail ==
  ASSUME NEW t \in Reader, tail \in [Reader -> TailState], tail[t] # Closed
  PROVE  /\ tail[t] \in OpenState
         /\ tail[t].at \in {"querying", "emitting", "waiting"}
         /\ tail[t].aggregate \in Aggregate
         /\ tail[t].after \in Nat \cup {-1} /\ tail[t].cursor \in Nat \cup {-1}
         /\ tail[t].batch \in Seq(Event) /\ tail[t].woken \in BOOLEAN
BY DEF TailState, OpenState, Closed

\* A fiber that has committed holds an event.
LEMMA HeldIsEvent ==
  ASSUME fiber \in [Fiber -> FiberState], NEW f \in Fiber, fiber[f].at \in {"wake", "notify"}
  PROVE  fiber[f].event \in Event /\ fiber[f].rest \in Seq(Event)
BY DEF FiberState, Idle

\* A read continues the cursor, because the tables have no gap.
LEMMA QueryKeepsTailInv ==
  ASSUME IInv, TailInv, NEW t \in Reader, Query(t)
  PROVE  TailInv'
<1> DEFINE rows == InSequence(After(db, tail[t].aggregate, tail[t].cursor))
<1>1. tail[t] # Closed /\ tail \in [Reader -> TailState]
  BY DEF Query, Closed, TailInv
<1>2. rows \in Seq(Event) /\ Continues(rows, tail[t].cursor)
  BY <1>1, OpenTail, ReadAfter DEF IInv, Continues
<1>3. tail' = [tail EXCEPT ![t].at = "emitting", ![t].batch = rows] /\ UNCHANGED <<got, announced>>
  BY DEF Query
<1> HIDE DEF rows
<1> DEFINE q == [tail[t] EXCEPT !.at = "emitting", !.batch = rows]
<1>4. /\ q \in TailState /\ q # Closed /\ q.batch = rows
      /\ q.cursor = tail[t].cursor /\ q.after = tail[t].after
  BY <1>1, <1>2, OpenTail DEF TailState, Closed
<1>5. tail' = [tail EXCEPT ![t] = q]
  BY <1>3
<1> HIDE DEF q
<1>6. tail' \in [Reader -> TailState]
  BY <1>1, <1>4, <1>5
<1>7. ASSUME NEW u \in Reader, tail'[u] # Closed
      PROVE  /\ Continues(tail'[u].batch, tail'[u].cursor)
             /\ Continues(got'[u], tail'[u].after)
             /\ tail'[u].cursor = tail'[u].after + Len(got'[u])
  <2>1. CASE u = t
    BY <1>1, <1>2, <1>3, <1>4, <1>5, <2>1 DEF TailInv
  <2>2. CASE u # t
    BY <1>1, <1>3, <1>5, <1>7, <2>2 DEF TailInv
  <2> QED BY <2>1, <2>2
<1> QED BY <1>3, <1>6, <1>7 DEF TailInv, Continues

\* Rows that continue what was there.
LEMMA ContinuesConcat ==
  ASSUME NEW r \in Seq(Event), NEW s \in Seq(Event), NEW lo \in Int,
         Continues(r, lo), Continues(s, lo + Len(r))
  PROVE  r \o s \in Seq(Event) /\ Len(r \o s) = Len(r) + Len(s) /\ Continues(r \o s, lo)
<1> DEFINE q == r \o s
<1>1. /\ q \in Seq(Event) /\ Len(q) = Len(r) + Len(s)
      /\ \A n \in 1 .. Len(r) + Len(s) : q[n] = IF n <= Len(r) THEN r[n] ELSE s[n - Len(r)]
  BY ConcatProperties
<1>2. Len(r) \in Nat /\ Len(s) \in Nat
  BY LenProperties
<1> HIDE DEF q
<1>3. ASSUME NEW n \in 1 .. Len(q) PROVE q[n].seq = lo + n
  <2>1. CASE n <= Len(r)
    <3>1. n \in 1 .. Len(r) /\ q[n] = r[n]
      BY <1>1, <1>2, <2>1
    <3> QED BY <3>1 DEF Continues
  <2>2. CASE n > Len(r)
    <3>1. n - Len(r) \in 1 .. Len(s) /\ q[n] = s[n - Len(r)]
      BY <1>1, <1>2, <2>2
    <3>2. s[n - Len(r)].seq = lo + Len(r) + (n - Len(r))
      BY <3>1 DEF Continues
    <3> QED BY <1>2, <3>1, <3>2
  <2> QED BY <1>2, <2>1, <2>2
<1> QED BY <1>1, <1>3 DEF q, Continues

\* What is emitted continues what was.
LEMMA EmitKeepsTailInv ==
  ASSUME TailInv, NEW t \in Reader, Emit(t)
  PROVE  TailInv'
<1> DEFINE batch == tail[t].batch
           cursor == IF batch = <<>> THEN tail[t].cursor ELSE batch[Len(batch)].seq
           q == [tail[t] EXCEPT !.at = "waiting", !.batch = <<>>, !.cursor = cursor]
           more == got[t] \o batch
<1>1. tail[t] # Closed /\ tail \in [Reader -> TailState] /\ got \in [Reader -> Seq(Event)]
  BY DEF Emit, Closed, TailInv
<1>2. batch \in Seq(Event) /\ tail[t].cursor \in Nat \cup {-1} /\ tail[t].after \in Nat \cup {-1}
  BY <1>1, OpenTail
<1>3. /\ Continues(batch, tail[t].cursor) /\ Continues(got[t], tail[t].after)
      /\ tail[t].cursor = tail[t].after + Len(got[t])
  BY <1>1 DEF TailInv
<1>4. got[t] \in Seq(Event) /\ Len(got[t]) \in Nat /\ Len(batch) \in Nat
  BY <1>1, <1>2, LenProperties
<1>5. cursor = tail[t].cursor + Len(batch) /\ cursor \in Nat \cup {-1}
  <2>1. CASE batch = <<>>
    BY <1>2, <2>1
  <2>2. CASE batch # <<>>
    <3>1. Len(batch) \in 1 .. Len(batch)
      BY <1>2, <2>2
    <3>2. batch[Len(batch)].seq = tail[t].cursor + Len(batch)
      BY <1>3, <3>1 DEF Continues
    <3> QED BY <1>2, <1>4, <2>2, <3>1, <3>2
  <2> QED BY <2>1, <2>2
<1>6. /\ more \in Seq(Event) /\ Len(more) = Len(got[t]) + Len(batch)
      /\ Continues(more, tail[t].after)
  <2> HIDE DEF batch
  <2> QED BY <1>2, <1>3, <1>4, ContinuesConcat
<1>7. Continues(more, tail[t].after)
  BY <1>6
<1>8. /\ q \in TailState /\ q # Closed /\ q.batch = <<>> /\ q.cursor = cursor
      /\ q.after = tail[t].after
  <2>0. cursor \in Nat \cup {-1}
    BY <1>5
  <2> HIDE DEF cursor, batch, more
  <2>1. tail[t] \in OpenState /\ <<>> \in Seq(Event)
    BY <1>1, OpenTail
  <2>2. /\ q \in OpenState /\ q.batch = <<>> /\ q.cursor = cursor /\ q.after = tail[t].after
    BY <2>0, <2>1 DEF OpenState
  <2> QED BY <2>2, OpenStates
<1>9. tail' = [tail EXCEPT ![t] = q] /\ got' = [got EXCEPT ![t] = more] /\ UNCHANGED announced
  BY DEF Emit
<1>10. cursor = tail[t].after + Len(more)
  <2> HIDE DEF cursor, more, batch
  <2> QED BY <1>2, <1>3, <1>4, <1>5, <1>6
<1> HIDE DEF q, cursor, more, batch
<1>11. tail' \in [Reader -> TailState] /\ got' \in [Reader -> Seq(Event)]
  BY <1>1, <1>6, <1>8, <1>9
<1>12. ASSUME NEW u \in Reader, tail'[u] # Closed
       PROVE  /\ Continues(tail'[u].batch, tail'[u].cursor)
              /\ Continues(got'[u], tail'[u].after)
              /\ tail'[u].cursor = tail'[u].after + Len(got'[u])
  <2>1. CASE u = t
    <3>1. Continues(<<>>, cursor)
      BY DEF Continues
    <3> QED BY <1>1, <1>7, <1>8, <1>9, <1>10, <2>1, <3>1
  <2>2. CASE u # t
    BY <1>1, <1>9, <1>12, <2>2 DEF TailInv
  <2> QED BY <2>1, <2>2
<1> QED BY <1>9, <1>11, <1>12 DEF TailInv, Continues

\* Other steps change neither the rows of a tail nor where it is.
LEMMA TailsKept ==
  ASSUME TailInv, tail' \in [Reader -> TailState], UNCHANGED got, announced' \subseteq Event,
         \A t \in Reader : tail'[t] # Closed =>
            /\ tail[t] # Closed
            /\ tail'[t].batch = tail[t].batch /\ tail'[t].cursor = tail[t].cursor
            /\ tail'[t].after = tail[t].after
  PROVE  TailInv'
BY DEF TailInv, Continues

\* No step of Next lets a tail lose or repeat a row.
LEMMA NextKeepsTailInv == IInv /\ TailInv /\ [Next]_vars => TailInv'
<1> SUFFICES ASSUME IInv, TailInv, [Next]_vars PROVE TailInv'
  OBVIOUS
<1>0. /\ tail \in [Reader -> TailState] /\ got \in [Reader -> Seq(Event)] /\ announced \subseteq Event
      /\ fiber \in [Fiber -> FiberState]
  BY DEF TailInv, IInv
<1>1. ASSUME UNCHANGED <<tail, got>>, announced' \subseteq Event PROVE TailInv'
  BY <1>0, <1>1, TailsKept
<1>2. ASSUME NEW f \in Fiber, NEW a \in Aggregate, NEW id \in EventId, NEW data \in Data,
             Publish(f, a, id, data)
      PROVE  TailInv'
  BY <1>0, <1>1, <1>2 DEF Publish
<1>3. ASSUME NEW f \in Fiber, NEW chunk \in Chunk, NEW by \in Owner \cup {None},
             NEW strict \in BOOLEAN, ReplayAll(f, chunk, by, strict)
      PROVE  TailInv'
  BY <1>0, <1>1, <1>3 DEF ReplayAll
<1>4. ASSUME NEW f \in Fiber, ReplayOne(f) \/ Abandon(f) PROVE TailInv'
  BY <1>0, <1>1, <1>4 DEF ReplayOne, Abandon
<1>5. ASSUME NEW f \in Fiber, Wake(f) PROVE TailInv'
  <2> DEFINE hit(t) == tail[t].at # "closed" /\ tail[t].aggregate = fiber[f].event.aggregate
  <2>1. tail' = [t \in Reader |-> IF hit(t) THEN [tail[t] EXCEPT !.woken = TRUE] ELSE tail[t]]
        /\ UNCHANGED <<got, announced>>
    BY <1>5 DEF Wake
  <2>2. ASSUME NEW t \in Reader, hit(t)
        PROVE  /\ [tail[t] EXCEPT !.woken = TRUE] \in TailState
               /\ tail[t] # Closed
               /\ [tail[t] EXCEPT !.woken = TRUE].batch = tail[t].batch
               /\ [tail[t] EXCEPT !.woken = TRUE].cursor = tail[t].cursor
               /\ [tail[t] EXCEPT !.woken = TRUE].after = tail[t].after
    <3>1. tail[t] # Closed
      BY <2>2 DEF Closed
    <3>2. tail[t] \in OpenState
      BY <1>0, <3>1, OpenTail
    <3> QED BY <3>1, <3>2, OpenStates DEF OpenState
  <2> HIDE DEF hit
  <2>3. tail' \in [Reader -> TailState]
    BY <1>0, <2>1, <2>2
  <2>4. \A t \in Reader : tail'[t] # Closed =>
            /\ tail[t] # Closed
            /\ tail'[t].batch = tail[t].batch /\ tail'[t].cursor = tail[t].cursor
            /\ tail'[t].after = tail[t].after
    BY <2>1, <2>2
  <2> QED BY <1>0, <2>1, <2>3, <2>4, TailsKept
<1>6. ASSUME NEW f \in Fiber, Notify(f) PROVE TailInv'
  <2>1. fiber[f].event \in Event
    BY <1>0, <1>6, HeldIsEvent DEF Notify
  <2> QED BY <1>0, <1>1, <1>6, <2>1 DEF Notify
<1>7. ASSUME NEW a \in Aggregate, RemoveAggregate(a) PROVE TailInv'
  BY <1>0, <1>1, <1>7 DEF RemoveAggregate
<1>8. ASSUME NEW a \in Aggregate, NEW by \in Owner, Claim(a, by) PROVE TailInv'
  BY <1>0, <1>1, <1>8 DEF Claim
<1>9. ASSUME NEW t \in Reader, NEW a \in Aggregate, NEW after \in {-1, 0}, Open(t, a, after)
      PROVE  TailInv'
  <2> DEFINE q == [at |-> "querying", aggregate |-> a, after |-> after, cursor |-> after,
                   batch |-> <<>>, woken |-> FALSE]
  <2>1. /\ tail' = [tail EXCEPT ![t] = q] /\ got' = [got EXCEPT ![t] = <<>>]
        /\ UNCHANGED announced
    BY <1>9 DEF Open
  <2>2. q \in TailState /\ q.batch = <<>> /\ q.cursor = after /\ q.after = after
    BY DEF TailState
  <2>3. Continues(<<>>, after) /\ Len(<<>>) = 0 /\ after + 0 = after
    BY DEF Continues
  <2> HIDE DEF q
  <2>4. tail' \in [Reader -> TailState] /\ got' \in [Reader -> Seq(Event)]
    BY <1>0, <2>1, <2>2
  <2>5. \A u \in Reader : tail'[u] # Closed =>
          /\ Continues(tail'[u].batch, tail'[u].cursor)
          /\ Continues(got'[u], tail'[u].after)
          /\ tail'[u].cursor = tail'[u].after + Len(got'[u])
    BY <1>0, <2>1, <2>2, <2>3 DEF TailInv
  <2> QED BY <1>0, <2>1, <2>4, <2>5 DEF TailInv, Continues
<1>10. ASSUME NEW t \in Reader, Query(t) PROVE TailInv'
  BY <1>10, QueryKeepsTailInv
<1>11. ASSUME NEW t \in Reader, Emit(t) PROVE TailInv'
  BY <1>11, EmitKeepsTailInv
<1>12. ASSUME NEW t \in Reader, TakeWake(t) PROVE TailInv'
  <2>1. tail[t] # Closed
    BY <1>12 DEF TakeWake, Closed
  <2> DEFINE q == [tail[t] EXCEPT !.at = "querying", !.woken = FALSE]
  <2>2. tail' = [tail EXCEPT ![t] = q] /\ UNCHANGED <<got, announced>>
    BY <1>12 DEF TakeWake
  <2>3. /\ q \in TailState /\ q.batch = tail[t].batch /\ q.cursor = tail[t].cursor
        /\ q.after = tail[t].after
    <3>1. tail[t] \in OpenState
      BY <1>0, <2>1, OpenTail
    <3> QED BY <3>1, OpenStates DEF OpenState
  <2> HIDE DEF q
  <2>4. tail' \in [Reader -> TailState]
    BY <1>0, <2>2, <2>3
  <2> QED BY <1>0, <2>1, <2>2, <2>3, <2>4, TailsKept
<1>13. ASSUME NEW t \in Reader, Close(t) PROVE TailInv'
  <2>1. tail' = [tail EXCEPT ![t] = Closed] /\ UNCHANGED <<got, announced>>
    BY <1>13 DEF Close
  <2>2. tail' \in [Reader -> TailState]
    BY <1>0, <2>1 DEF TailState
  <2> QED BY <1>0, <2>1, <2>2, TailsKept
<1>14. CASE UNCHANGED vars
  BY <1>0, <1>1, <1>14 DEF vars
<1> QED
  BY <1>2, <1>3, <1>4, <1>5, <1>6, <1>7, <1>8, <1>9, <1>10, <1>11, <1>12, <1>13, <1>14 DEF Next

\* The tables and the tails are in order throughout.
THEOREM TailInvHolds == Safe => [](IInv /\ TailInv)
<1>1. IInv /\ TailInv /\ [Next]_vars => TailInv'
  BY NextKeepsTailInv
<1>2. Init => TailInv
  BY InitTailInv
<1> QED BY InvariantHolds, <1>1, <1>2, PTL DEF Safe

\* Every reachable state of store, fibers, tails and listeners is well typed.
THEOREM TypeCorrect == Safe => []TypeOK
<1>1. IInv /\ TailInv => TypeOK
  BY DEF IInv, TailInv, TypeOK
<1> QED BY TailInvHolds, <1>1, PTL

\* Across the handoff from history to live, whatever commits, repeated wakes and
\* removals come in between, a tail emits consecutive sequences from its start on.
THEOREM TailsHaveNoGap == Safe => []TailHasNoGap
<1>1. TailInv => TailHasNoGap
  <2> SUFFICES ASSUME TailInv, NEW t \in Reader, tail[t] # Closed
               PROVE  /\ \A n \in DOMAIN got[t] : got[t][n].seq = tail[t].after + n
                      /\ tail[t].cursor = tail[t].after + Len(got[t])
    BY DEF TailHasNoGap
  <2>1. got[t] \in Seq(Event) /\ DOMAIN got[t] = 1 .. Len(got[t])
    BY LenProperties DEF TailInv
  <2> QED BY <2>1 DEF TailInv, Continues
<1> QED BY TailInvHolds, <1>1, PTL

-------------------------------------------------------------------------------
(* Listeners *)

\* The fiber has committed an event and has yet to wake the tails or to notify.
Holding(f) == fiber[f].at \in {"wake", "notify"}

\* Every event that a fiber holds is stored and has not been announced, and no two
\* fibers hold the same one.
AnnouncedInv ==
  /\ announced \subseteq db.events
  /\ \A f \in Fiber : Holding(f) => fiber[f].event \in db.events \ announced
  /\ \A f, g \in Fiber : f # g /\ Holding(f) /\ Holding(g) => fiber[f].event # fiber[g].event

\* Steps that store and announce nothing; fibers may let go of what they hold.
LEMMA HeldKept ==
  ASSUME AnnouncedInv, db'.events = db.events, UNCHANGED announced,
         \A f \in Fiber : Holding(f)' => Holding(f) /\ fiber'[f].event = fiber[f].event
  PROVE  AnnouncedInv'
BY DEF AnnouncedInv

\* A commit makes its fiber hold an event nobody has seen.
LEMMA CommitHeld ==
  ASSUME AnnouncedInv, fiber \in [Fiber -> FiberState], NEW f \in Fiber, NEW e,
         NEW rest, NEW by, NEW strict, Committing(f, e, rest, by, strict),
         ~Used(db, e.id), db'.events = db.events \cup {e}, UNCHANGED announced
  PROVE  AnnouncedInv'
<1>1. e \notin db.events
  BY DEF Used
<1>2. fiber'[f].at = "wake" /\ fiber'[f].event = e /\ \A g \in Fiber \ {f} : fiber'[g] = fiber[g]
  BY DEF Committing
<1> QED BY <1>1, <1>2 DEF AnnouncedInv, Holding

\* A fiber that goes on with its chunk holds nothing.
LEMMA ContinuingLetsGo ==
  ASSUME fiber \in [Fiber -> FiberState], NEW f \in Fiber, NEW rest, Continuing(f, rest)
  PROVE  ~Holding(f)' /\ \A g \in Fiber \ {f} : fiber'[g] = fiber[g]
<1>1. fiber'[f] \in {Idle, [at |-> "replay", rest |-> rest, by |-> fiber[f].by,
                            strict |-> fiber[f].strict]}
  BY DEF Continuing
<1>2. fiber'[f].at \in {"idle", "replay"}
  BY <1>1 DEF Idle
<1> QED BY <1>2 DEF Continuing, Holding

\* A step that is not a removal keeps it.
LEMMA NextKeepsAnnouncedInv ==
  IInv /\ AnnouncedInv /\ removes' = removes /\ removes \in Nat /\ [Next]_vars => AnnouncedInv'
<1> SUFFICES ASSUME IInv, AnnouncedInv, removes' = removes, removes \in Nat, [Next]_vars
             PROVE  AnnouncedInv'
  OBVIOUS
<1>0. fiber \in [Fiber -> FiberState] /\ db \in Store
  BY DEF IInv
<1>1. ASSUME NEW f \in Fiber, NEW a \in Aggregate, NEW id \in EventId, NEW data \in Data,
             Publish(f, a, id, data)
      PROVE  AnnouncedInv'
  <2> DEFINE e == Following(db, a, id, data)
  <2>1. e \in Event /\ e.id = id
    BY <1>0 DEF Store, Event, Following
  <2>2. /\ Committing(f, e, <<>>, None, FALSE) /\ ~Used(db, id)
        /\ db' = Appended(db, e, None) /\ UNCHANGED announced
    BY <1>1 DEF Publish
  <2> HIDE DEF e
  <2>3. db'.events = db.events \cup {e}
    BY <1>0, <2>1, <2>2, AppendedFields
  <2> QED BY <1>0, <2>1, <2>2, <2>3, CommitHeld
<1>2. ASSUME NEW f \in Fiber, NEW chunk \in Chunk, NEW by \in Owner \cup {None},
             NEW strict \in BOOLEAN, ReplayAll(f, chunk, by, strict)
      PROVE  AnnouncedInv'
  BY <1>0, <1>2, HeldKept DEF ReplayAll, Holding
<1>3. ASSUME NEW f \in Fiber, ReplayOne(f) PROVE AnnouncedInv'
  <2> DEFINE e == Head(fiber[f].rest)
             r == Tail(fiber[f].rest)
             by == fiber[f].by
             strict == fiber[f].strict
             outcome == ReplayOutcome(db, e, by, strict)
  <2>1. /\ fiber[f].rest \in Seq(Event) /\ fiber[f].rest # <<>>
        /\ by \in Owner \cup {None} /\ strict \in BOOLEAN
    BY <1>0, <1>3 DEF ReplayOne, FiberState, Idle
  <2>2. e \in Event /\ e.aggregate \in Aggregate
    <3>1. e \in Event
      BY <2>1
    <3> QED BY <3>1 DEF Event
  <2>3. UNCHANGED announced /\ db' = Replayed(db, e, by, strict)
    BY <1>3 DEF ReplayOne
  <2>4. \/ outcome = "committed" /\ Committing(f, e, r, by, strict)
        \/ outcome \in {"known", "ignored"} /\ Continuing(f, r)
        \/ outcome = "refused" /\ fiber' = [fiber EXCEPT ![f] = Idle]
    BY <1>3 DEF ReplayOne
  <2> HIDE DEF e, r, by, strict
  <2>5. CASE outcome = "committed" /\ Committing(f, e, r, by, strict)
    <3>1. db'.events = db.events \cup {e}
      BY <1>0, <2>1, <2>2, <2>3, <2>5, AppendedFields DEF Replayed
    <3>2. ~Used(db, e.id)
      BY <2>5 DEF ReplayOutcome
    <3> QED BY <1>0, <2>3, <2>5, <3>1, <3>2, CommitHeld
  <2>6. CASE outcome \in {"known", "ignored"} /\ Continuing(f, r)
    <3>1. db'.events = db.events
      BY <1>0, <2>1, <2>2, <2>3, <2>6, AdoptedFields DEF Replayed
    <3>2. ~Holding(f)' /\ \A g \in Fiber \ {f} : fiber'[g] = fiber[g]
      BY <1>0, <2>6, ContinuingLetsGo
    <3> QED BY <2>3, <3>1, <3>2, HeldKept DEF Holding
  <2>7. CASE outcome = "refused" /\ fiber' = [fiber EXCEPT ![f] = Idle]
    <3>1. db' = db
      BY <2>3, <2>7 DEF Replayed
    <3> QED BY <1>0, <2>3, <2>7, <3>1, HeldKept DEF Holding, Idle
  <2> QED BY <2>4, <2>5, <2>6, <2>7
<1>4. ASSUME NEW f \in Fiber, Wake(f) PROVE AnnouncedInv'
  <2>1. UNCHANGED <<db, announced>> /\ Holding(f)
    BY <1>4 DEF Wake, Holding
  <2>2. CASE Continuing(f, fiber[f].rest)
    BY <1>0, <2>1, <2>2, ContinuingLetsGo, HeldKept DEF Holding
  <2>3. CASE fiber' = [fiber EXCEPT ![f].at = "notify"]
    <3>1. fiber'[f].event = fiber[f].event
      BY <1>0, <2>1, <2>3 DEF FiberState, Idle, Holding
    <3> QED BY <1>0, <2>1, <2>3, <3>1, HeldKept DEF Holding
  <2> QED BY <1>4, <2>2, <2>3 DEF Wake, Woken
<1>5. ASSUME NEW f \in Fiber, Notify(f) PROVE AnnouncedInv'
  <2>1. Holding(f) /\ UNCHANGED db /\ announced' = (announced \cup {fiber[f].event}) \cap db.events
    BY <1>5 DEF Notify, Holding
  <2>2. ~Holding(f)' /\ \A g \in Fiber \ {f} : fiber'[g] = fiber[g]
    BY <1>0, <1>5, ContinuingLetsGo DEF Notify
  <2> QED BY <2>1, <2>2 DEF AnnouncedInv, Holding
<1>6. ASSUME NEW f \in Fiber, Abandon(f) PROVE AnnouncedInv'
  BY <1>0, <1>6, HeldKept DEF Abandon, Holding, Idle
<1>7. ASSUME NEW a \in Aggregate, RemoveAggregate(a) PROVE AnnouncedInv'
  BY <1>7 DEF RemoveAggregate
<1>8. ASSUME NEW a \in Aggregate, NEW by \in Owner, Claim(a, by) PROVE AnnouncedInv'
  <2>1. db'.events = db.events /\ UNCHANGED <<fiber, announced>>
    BY <1>0, <1>8, ClaimedFields DEF Claim
  <2> QED BY <2>1, HeldKept DEF Holding
<1>9. CASE UNCHANGED <<db, fiber, announced>>
  BY <1>9, HeldKept DEF Holding
<1>10. ASSUME NEW t \in Reader, NEW a \in Aggregate, NEW after \in {-1, 0}, Open(t, a, after)
       PROVE  UNCHANGED <<db, fiber, announced>>
  BY <1>10 DEF Open
<1>11. ASSUME NEW t \in Reader, Query(t) \/ Emit(t) \/ TakeWake(t) \/ Close(t)
       PROVE  UNCHANGED <<db, fiber, announced>>
  BY <1>11 DEF Query, Emit, TakeWake, Close
<1>12. CASE UNCHANGED vars
  BY <1>9, <1>12 DEF vars
<1> QED
  BY <1>1, <1>2, <1>3, <1>4, <1>5, <1>6, <1>7, <1>8, <1>9, <1>10, <1>11, <1>12 DEF Next

\* As long as no aggregate is removed (what a replay brings back after a removal is
\* announced again), listeners are told of an event by one of its replays only.
THEOREM AnnouncedOnceUnlessRemoved == Safe /\ [](removes = 0) => AnnouncedOnce
<1>1. Init => AnnouncedInv
  BY DEF Init, AnnouncedInv, Holding, Idle, EmptyStore
<1>2. IInv /\ AnnouncedInv /\ removes = 0 /\ (removes = 0)' /\ [Next]_vars => AnnouncedInv'
  BY NextKeepsAnnouncedInv
<1>3. AnnouncedInv => \A f \in Fiber : Notify(f) => fiber[f].event \notin announced
  BY DEF AnnouncedInv, Holding, Notify
<1>4. AnnouncedInv => [\A f \in Fiber : Notify(f) => fiber[f].event \notin announced]_vars
  BY <1>3
<1> QED BY InvariantHolds, <1>1, <1>2, <1>4, PTL DEF Safe, AnnouncedOnce
===============================================================================
