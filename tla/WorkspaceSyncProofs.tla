------------------------- MODULE WorkspaceSyncProofs -------------------------
(***************************************************************************)
(* What a move of a Session between servers guarantees, for any remote and *)
(* local workspaces and any number of events, moves and faults.            *)
(***************************************************************************)
EXTENDS WorkspaceSync, SequenceTheorems, WellFoundedInduction, TLAPS


-------------------------------------------------------------------------------
(* What the operators return, field by field *)

\* Appending sets the sequence, adds the row and adopts an unowned aggregate.
LEMMA AppendedFields ==
  ASSUME NEW d \in Store, NEW e \in Event, NEW by \in Owner \cup {None}
  PROVE  /\ Appended(d, e, by) \in Store
         /\ Appended(d, e, by).seq = [d.seq EXCEPT ![e.aggregate] = e.seq]
         /\ Appended(d, e, by).events = d.events \cup {e}
         /\ Appended(d, e, by).owner =
              [d.owner EXCEPT ![e.aggregate] =
                 IF d.owner[e.aggregate] = None THEN by ELSE d.owner[e.aggregate]]
BY DEF Appended, Adopted, Store, Event

\* Adoption touches the owner alone.
LEMMA AdoptedFields ==
  ASSUME NEW d \in Store, NEW a \in Aggregate, NEW by \in Owner \cup {None}
  PROVE  /\ Adopted(d, a, by) \in Store
         /\ Adopted(d, a, by).seq = d.seq
         /\ Adopted(d, a, by).events = d.events
         /\ Adopted(d, a, by).owner =
              [d.owner EXCEPT ![a] = IF d.owner[a] = None THEN by ELSE d.owner[a]]
BY DEF Adopted, Store

\* A claim touches the owner alone.
LEMMA ClaimedFields ==
  ASSUME NEW d \in Store, NEW a \in Aggregate, NEW by \in Owner \cup {None}
  PROVE  /\ Claimed(d, a, by) \in Store
         /\ Claimed(d, a, by).seq = d.seq
         /\ Claimed(d, a, by).events = d.events
         /\ \A b \in Aggregate \ {a} : Claimed(d, a, by).owner[b] = d.owner[b]
BY DEF Claimed, Store

\* Tables with the same rows and sequences are equally sound.
LEMMA SameRows ==
  ASSUME NEW d, NEW g, g.seq = d.seq, g.events = d.events, Contiguous(d), UniqueIds(d)
  PROVE  Contiguous(g) /\ UniqueIds(g)
BY DEF Contiguous, UniqueIds, After

\* An unused ID in the next sequence of its aggregate may be appended.
LEMMA AppendKeepsTables ==
  ASSUME NEW d \in Store, NEW e \in Event, NEW by \in Owner \cup {None},
         Contiguous(d), UniqueIds(d), ~Used(d, e.id), e.seq = d.seq[e.aggregate] + 1
  PROVE  Contiguous(Appended(d, e, by)) /\ UniqueIds(Appended(d, e, by))
<1> DEFINE g == Appended(d, e, by)
<1>1. /\ g.seq = [d.seq EXCEPT ![e.aggregate] = e.seq]
      /\ g.events = d.events \cup {e}
  BY AppendedFields
<1>2. d.seq \in [Aggregate -> Nat \cup {-1}] /\ d.events \subseteq Event /\ e.aggregate \in Aggregate
      /\ e.seq \in Nat
  BY DEF Store, Event
<1> HIDE DEF g
<1>3. UniqueIds(g)
  BY <1>1 DEF UniqueIds, Used
<1>4. ASSUME NEW a \in Aggregate
      PROVE  /\ {r.seq : r \in After(g, a, -1)} = 0 .. g.seq[a]
             /\ \A r, s \in After(g, a, -1) : r.seq = s.seq => r = s
  <2>0. /\ {r.seq : r \in After(d, a, -1)} = 0 .. d.seq[a]
        /\ \A r, s \in After(d, a, -1) : r.seq = s.seq => r = s
    BY DEF Contiguous
  <2>1. CASE a # e.aggregate
    <3>1. After(g, a, -1) = After(d, a, -1) /\ g.seq[a] = d.seq[a]
      BY <1>1, <1>2, <2>1 DEF After
    <3> QED BY <2>0, <3>1
  <2>2. CASE a = e.aggregate
    <3>1. After(g, a, -1) = After(d, a, -1) \cup {e} /\ g.seq[a] = e.seq
      BY <1>1, <1>2, <2>2 DEF After
    <3>2. 0 .. e.seq = (0 .. d.seq[a]) \cup {e.seq}
      BY <1>2, <2>2
    <3>3. \A r \in After(d, a, -1) : r.seq # e.seq
      <4> SUFFICES ASSUME NEW r \in After(d, a, -1) PROVE r.seq # e.seq
        OBVIOUS
      <4>1. r.seq \in 0 .. d.seq[a]
        BY <2>0
      <4> QED BY <4>1, <1>2, <2>2
    <3>4. {r.seq : r \in After(g, a, -1)} = {r.seq : r \in After(d, a, -1)} \cup {e.seq}
      BY <3>1
    <3> QED BY <2>0, <3>1, <3>2, <3>3, <3>4
  <2> QED BY <2>1, <2>2
<1> QED BY <1>3, <1>4 DEF g, Contiguous

\* Whatever a replay decides, the tables stay in step.
LEMMA ReplayKeepsTables ==
  ASSUME NEW d \in Store, NEW e \in Event, NEW by \in Owner \cup {None}, NEW strict \in BOOLEAN,
         Contiguous(d), UniqueIds(d)
  PROVE  /\ Replayed(d, e, by, strict) \in Store
         /\ Contiguous(Replayed(d, e, by, strict))
         /\ UniqueIds(Replayed(d, e, by, strict))
<1> DEFINE outcome == ReplayOutcome(d, e, by, strict)
<1>0. e.aggregate \in Aggregate
  BY DEF Event
<1>1. CASE outcome = "committed"
  <2>1. e.seq = d.seq[e.aggregate] + 1 /\ ~Used(d, e.id)
    BY <1>1 DEF ReplayOutcome
  <2>2. Replayed(d, e, by, strict) = Appended(d, e, by)
    BY <1>1 DEF Replayed
  <2>3. Appended(d, e, by) \in Store
    BY AppendedFields
  <2>4. Contiguous(Appended(d, e, by)) /\ UniqueIds(Appended(d, e, by))
    BY <2>1, AppendKeepsTables
  <2> QED BY <2>2, <2>3, <2>4
<1>2. CASE outcome = "known"
  <2>1. Replayed(d, e, by, strict) = Adopted(d, e.aggregate, by)
    BY <1>2 DEF Replayed
  <2>2. /\ Adopted(d, e.aggregate, by) \in Store
        /\ Adopted(d, e.aggregate, by).seq = d.seq
        /\ Adopted(d, e.aggregate, by).events = d.events
    <3>1. \A a \in Aggregate : /\ Adopted(d, a, by) \in Store
                              /\ Adopted(d, a, by).seq = d.seq
                              /\ Adopted(d, a, by).events = d.events
      BY AdoptedFields
    <3> QED BY <1>0, <3>1
  <2> QED BY <2>1, <2>2, SameRows
<1>3. CASE outcome \notin {"committed", "known"}
  BY <1>3 DEF Replayed
<1> QED BY <1>1, <1>2, <1>3

-------------------------------------------------------------------------------
(* The inductive invariant *)

\* Event IDs are given out downwards.
IdsToCome == \A n \in Node : \A e \in db[n].events : e.id >= budget.event

\* A connection in order; what it holds, its workspace published or was sent.
Fits(l, rows) ==
  /\ l \in Link
  /\ l.batch # <<>> => l.at = "applying"
  /\ l.status = "connected" <=> l.at = "listening"
  /\ \A k \in 1 .. Len(l.batch) : l.batch[k] \in rows
  /\ \A k \in 1 .. Len(l.queue) : l.queue[k] \in rows

LinksFit == /\ link \in [Remote -> Link]
            /\ \A w \in Remote : Fits(link[w], db[w].events)

\* Remote workspaces have nothing in common but what the control server sent them.
SharedIsControls ==
  \A v, w \in Remote : v # w => db[v].events \cap db[w].events \subseteq db[Control].events

StoresAreSound ==
  /\ db \in [Node -> Store]
  /\ \A n \in Node : Contiguous(db[n]) /\ UniqueIds(db[n])

Logs == StoresAreSound /\ LinksFit /\ budget \in Budget /\ IdsToCome /\ SharedIsControls

\* A request x to move the Session, while the servers' tables are d.

\* The last history comes from the previous workspace.
LastHistory(x, d) ==
  /\ x.at = "final" => x.previous \in Remote
  /\ x.batch # <<>> => x.at = "claim" /\ x.previous \in Remote
  /\ \A k \in 1 .. Len(x.batch) : x.batch[k] \in d[x.previous].events

\* The rows sent are the control server's, and the target holds those that it took.
RowsAreSent(x, d) ==
  /\ \A k \in 1 .. Len(x.rows) : x.rows[k] \in d[Control].events
  /\ x.at \in {"send", "set"} =>
       /\ x.target \in Remote
       /\ \A k \in 1 .. x.sent : x.rows[k] \in d[x.target].events
  /\ x.at = "set" => x.sent = Len(x.rows)
  /\ x.at \notin {"send", "set"} => x.sent = 0

\* A Session is moved out of a workspace only if it exists, so the claim takes effect.
InOrder(x, d) ==
  /\ x \in Move /\ x.sent <= Len(x.rows)
  /\ LastHistory(x, d) /\ RowsAreSent(x, d)
  /\ x.at \in {"final", "claim"} => d[Control].seq[Session] # -1

RequestsInOrder ==
  /\ warp \in [Warp -> Move]
  /\ \A m \in Warp : InOrder(warp[m], db)

HasClaimed == {"patch", "send", "set", "over"}

\* A claim is not given back, but by another claim.
ClaimHolds ==
  /\ claimed \in Warp \cup {0}
  /\ claimed # 0 => warp[claimed].at \in HasClaimed
  /\ \A w \in Remote : Left(w) => Foreign(db[Control], Session, w)

IInv == Logs /\ RequestsInOrder /\ ClaimHolds /\ loop \in [Node -> Loop]

-------------------------------------------------------------------------------
(* What the logs say *)

\* The Session's events are all there are, and their sequences are 0 to the latest.
LEMMA LogOf ==
  ASSUME StoresAreSound, NEW n \in Node
  PROVE  /\ db[n] \in Store /\ db[n].seq[Session] \in Nat \cup {-1}
         /\ db[n].events \subseteq Event
         /\ \A e \in db[n].events : e \in After(db[n], Session, -1)
         /\ {e.seq : e \in After(db[n], Session, -1)} = 0 .. db[n].seq[Session]
<1>1. db[n] \in Store /\ Session \in Aggregate
  BY SessionIsAggregate DEF StoresAreSound
<1>2. /\ db[n].seq[Session] \in Nat \cup {-1} /\ db[n].events \subseteq Event
  BY <1>1 DEF Store
<1>3. \A e \in db[n].events : e \in After(db[n], Session, -1)
  BY <1>2, SessionIsAggregate DEF After, Event
<1>4. {e.seq : e \in After(db[n], Session, -1)} = 0 .. db[n].seq[Session]
  BY <1>1 DEF StoresAreSound, Contiguous
<1> QED BY <1>1, <1>2, <1>3, <1>4

\* A function on an initial segment is a sequence.
LEMMA SegmentIsSeq ==
  ASSUME NEW m \in Nat, NEW S, NEW f \in [1 .. m -> S]
  PROVE  f \in Seq(S) /\ Len(f) = m
OBVIOUS

\* Rows are events of the log they were read from.
LEMMA RowsOf ==
  ASSUME StoresAreSound, NEW n \in Node, NEW s \in Nat \cup {-1}
  PROVE  /\ RowsAfter(n, s) \in Seq(Event)
         /\ \A k \in 1 .. Len(RowsAfter(n, s)) : RowsAfter(n, s)[k] \in db[n].events
<1> DEFINE m == db[n].seq[Session] - s
           r == [i \in 1 .. m |-> CHOOSE e \in After(db[n], Session, s) : e.seq = s + i]
<1>0. RowsAfter(n, s) = r
  BY DEF RowsAfter
<1>1. m \in Int /\ 1 .. m \subseteq Nat
  BY LogOf
<1>2. ASSUME NEW i \in 1 .. m PROVE r[i] \in db[n].events /\ r[i] \in Event
  <2>1. s + i \in 0 .. db[n].seq[Session]
    BY LogOf
  <2>2. PICK e \in After(db[n], Session, -1) : e.seq = s + i
    BY <2>1, LogOf
  <2>3. e \in After(db[n], Session, s)
    BY <2>2 DEF After
  <2>4. r[i] \in After(db[n], Session, s)
    BY <2>2, <2>3
  <2> QED BY <2>4, LogOf DEF After
<1> HIDE DEF m
<1>3. r \in [1 .. m -> Event] /\ DOMAIN r = 1 .. m
  BY <1>2
<1> HIDE DEF r
<1>4. CASE m \in Nat
  <2>1. r \in Seq(Event) /\ DOMAIN r = 1 .. Len(r)
    BY <1>3, <1>4, SegmentIsSeq, LenProperties
  <2>2. 1 .. Len(r) = 1 .. m
    BY <1>3, <2>1
  <2> QED BY <1>0, <1>2, <2>1, <2>2
<1>5. CASE m \notin Nat
  <2>1. 1 .. m = 1 .. 0
    BY <1>1, <1>5
  <2>2. r \in [1 .. 0 -> Event]
    BY <1>3, <2>1
  <2>3. r \in Seq(Event) /\ DOMAIN r = 1 .. Len(r)
    BY <2>2, SegmentIsSeq, LenProperties
  <2>4. 1 .. Len(r) = 1 .. m
    BY <1>3, <2>3
  <2> QED BY <1>0, <1>2, <2>3, <2>4
<1> QED BY <1>4, <1>5

\* A set of naturals with an upper bound has a largest element.
LEMMA LargestExists ==
  ASSUME NEW T, T \subseteq Nat, T # {}, NEW top \in Nat, \A t \in T : t <= top
  PROVE  \E t \in T : \A u \in T : u <= t
<1> DEFINE D == {top - t : t \in T}
<1>1. D \subseteq Nat /\ D # {}
  <2>1. ASSUME NEW t \in T PROVE top - t \in Nat
    OBVIOUS
  <2>2. D \subseteq Nat
    BY <2>1
  <2>3. D # {}
    OBVIOUS
  <2> QED BY <2>2, <2>3
<1> DEFINE R == OpToRel(<, Nat)
<1>2. PICK d \in D : \A y \in D : ~ (<<y, d>> \in R)
  BY <1>1, NatLessThanWellFounded, WFMin
<1>3. PICK t \in T : d = top - t
  OBVIOUS
<1>4. ASSUME NEW u \in T PROVE u <= t
  <2>1. ~ (<<top - u, top - t>> \in R)
    BY <1>2, <1>3
  <2>2. ~ (top - u < top - t)
    BY <2>1, <1>1 DEF OpToRel
  <2> QED BY <2>2
<1> QED BY <1>4

\* The Session's workspace is one, or none; and it is none if there is no Session.
LEMMA WorkspaceOf ==
  ASSUME StoresAreSound, NEW n \in Node
  PROVE  /\ WorkspaceIn(n) \in Remote \cup Local \cup {None}
         /\ WorkspaceIn(n) # None => Exists(n)
<1> DEFINE updates == {e \in After(db[n], Session, -1) : e.data # Message}
<1>1. CASE updates = {}
  BY <1>1 DEF WorkspaceIn
<1>2. CASE updates # {}
  <2> DEFINE T == {e.seq : e \in updates}
             chosen == CHOOSE e \in updates : \A f \in updates : f.seq <= e.seq
  <2>1. T # {} /\ T \subseteq 0 .. db[n].seq[Session]
    BY <1>2, LogOf
  <2>2. db[n].seq[Session] \in Nat /\ db[n].seq[Session] # -1
    BY <2>1, LogOf
  <2>3. PICK t \in T : \A u \in T : u <= t
    <3>1. T \subseteq Nat /\ \A u \in T : u <= db[n].seq[Session]
      BY <2>1
    <3> HIDE DEF T
    <3> QED BY <3>1, <2>1, <2>2, LargestExists
  <2>4. \E e \in updates : \A f \in updates : f.seq <= e.seq
    BY <2>3
  <2>5. chosen \in updates
    BY <2>4
  <2>6. chosen.data \in Data \ {Message}
    BY <2>5, LogOf DEF After, Event
  <2>7. WorkspaceIn(n) = chosen.data
    BY <1>2 DEF WorkspaceIn
  <2> QED BY <2>2, <2>6, <2>7, OwnersAssumption DEF Exists
<1> QED BY <1>1, <1>2

-------------------------------------------------------------------------------
(* What a step makes of the logs *)

\* Logs only get longer, and a Session that has an owner keeps it.
Grows == \A n \in Node : /\ db[n].events \subseteq db'[n].events
                         /\ db[n].seq[Session] <= db'[n].seq[Session]

OwnerKept == db[Control].owner[Session] # None =>
               db'[Control].owner[Session] = db[Control].owner[Session]

\* One store changes, and stays sound.
LEMMA OneStoreChanges ==
  ASSUME StoresAreSound, NEW n \in Node, NEW g \in Store, Contiguous(g), UniqueIds(g),
         db' = [db EXCEPT ![n] = g]
  PROVE  StoresAreSound'
<1>1. db' \in [Node -> Store] /\ \A m \in Node : db'[m] = IF m = n THEN g ELSE db[m]
  BY DEF StoresAreSound
<1>2. \A m \in Node : Contiguous(db'[m]) /\ UniqueIds(db'[m])
  BY <1>1 DEF StoresAreSound
<1>3. \A m \in Node : Contiguous(db[m])' /\ UniqueIds(db[m])'
  BY <1>2 DEF Contiguous, UniqueIds, After
<1> QED BY <1>1, <1>3 DEF StoresAreSound

\* Nothing happens to the logs.
LEMMA SameStores ==
  ASSUME StoresAreSound, UNCHANGED db
  PROVE  StoresAreSound' /\ Grows /\ OwnerKept
<1>1. \A n \in Node : db[n].seq[Session] \in Nat \cup {-1}
  BY LogOf
<1> QED BY <1>1 DEF StoresAreSound, Grows, OwnerKept, Contiguous, UniqueIds, After

\* A budget is spent one by one.
LEMMA Spending ==
  ASSUME budget \in Budget, NEW what \in {"event", "fault", "start"}, Spend(what)
  PROVE  /\ budget' \in Budget
         /\ budget'.event = IF what = "event" THEN budget.event - 1 ELSE budget.event
         /\ what = "event" => budget.event > 0
<1>0. /\ budget.event \in 0 .. MaxEvents
      /\ budget.fault \in 0 .. MaxFaults /\ budget.start \in 0 .. MaxStarts
  BY DEF Budget
<1>1. CASE what = "event"
  <2>1. budget.event > 0 /\ budget' = [budget EXCEPT !.event = budget.event - 1]
    BY <1>1 DEF Spend
  <2> QED BY <1>0, <1>1, <2>1, SyncBounds DEF Budget
<1>3. CASE what = "fault"
  <2>1. budget.fault > 0 /\ budget' = [budget EXCEPT !.fault = budget.fault - 1]
    BY <1>3 DEF Spend
  <2> QED BY <1>0, <1>3, <2>1, SyncBounds DEF Budget
<1>4. CASE what = "start"
  <2>1. budget.start > 0 /\ budget' = [budget EXCEPT !.start = budget.start - 1]
    BY <1>4 DEF Spend
  <2> QED BY <1>0, <1>4, <2>1, SyncBounds DEF Budget
<1> QED BY <1>1, <1>3, <1>4

\* A connection that fits still does when its log is longer, and takes what is published.
LEMMA FitsLonger ==
  ASSUME NEW rows, NEW more, rows \subseteq more, NEW l, Fits(l, rows)
  PROVE  Fits(l, more)
BY DEF Fits

LEMMA FitsAppended ==
  ASSUME NEW rows, NEW l, Fits(l, rows), NEW e \in Event
  PROVE  Fits([l EXCEPT !.queue = Append(l.queue, e)], rows \cup {e})
<1> DEFINE k == [l EXCEPT !.queue = Append(l.queue, e)]
<1>1. l \in Link /\ l.queue \in Seq(Event)
  BY DEF Fits, Link
<1>2. Append(l.queue, e) \in Seq(Event)
  BY <1>1
<1>3. /\ k \in Link /\ k.queue = Append(l.queue, e) /\ k.batch = l.batch
      /\ k.at = l.at /\ k.status = l.status
  BY <1>1, <1>2 DEF Link
<1> HIDE DEF k
<1>4. \A i \in 1 .. Len(k.queue) : k.queue[i] \in rows \cup {e}
  <2>1. \A i \in 1 .. Len(l.queue) : l.queue[i] \in rows
    BY DEF Fits
  <2> QED BY <1>1, <1>3, <2>1
<1> QED BY <1>3, <1>4 DEF Fits, k

\* Publishing: the event is new everywhere.
LEMMA PublishKeepsLogs ==
  ASSUME Logs, NEW n \in Node, NEW data \in Data, Publish(n, data)
  PROVE  /\ Logs' /\ Grows /\ OwnerKept
         /\ \A k, m \in Node : \A e \in db'[k].events \ db[k].events : e \notin db[m].events
<1> DEFINE e == Following(db[n], Session, budget.event - 1, data)
           g == Appended(db[n], e, None)
<1>0. budget' \in Budget /\ budget'.event = budget.event - 1 /\ budget.event \in 1 .. MaxEvents
  BY Spending DEF Publish, Logs, Budget
<1>1. /\ db[n] \in Store /\ db[n].seq[Session] \in Nat \cup {-1} /\ Session \in Aggregate
      /\ Contiguous(db[n]) /\ UniqueIds(db[n])
  BY LogOf, SessionIsAggregate DEF Logs, StoresAreSound
<1>2. /\ e \in Event /\ e.id = budget.event - 1 /\ e.aggregate = Session
      /\ e.seq = db[n].seq[Session] + 1
  BY <1>0, <1>1, SyncBounds DEF Following, Event
<1>3. \A m \in Node : ~Used(db[m], e.id) /\ e \notin db[m].events
  <2>1. \A m \in Node : \A f \in db[m].events : f.id >= budget.event
    BY DEF Logs, IdsToCome
  <2> QED BY <1>0, <1>2, <2>1 DEF Used
<1>4. db' = [db EXCEPT ![n] = g]
  BY DEF Publish
<1> HIDE DEF e
<1>5. /\ g \in Store /\ g.events = db[n].events \cup {e}
      /\ g.seq = [db[n].seq EXCEPT ![Session] = e.seq]
      /\ g.owner = [db[n].owner EXCEPT ![Session] =
                      IF db[n].owner[Session] = None THEN None ELSE db[n].owner[Session]]
  <2>1. /\ g \in Store /\ g.events = db[n].events \cup {e}
        /\ g.seq = [db[n].seq EXCEPT ![e.aggregate] = e.seq]
        /\ g.owner = [db[n].owner EXCEPT ![e.aggregate] =
                        IF db[n].owner[e.aggregate] = None THEN None
                        ELSE db[n].owner[e.aggregate]]
    <3>1. \A d \in Store :
            /\ Appended(d, e, None) \in Store
            /\ Appended(d, e, None).seq = [d.seq EXCEPT ![e.aggregate] = e.seq]
            /\ Appended(d, e, None).events = d.events \cup {e}
            /\ Appended(d, e, None).owner =
                 [d.owner EXCEPT ![e.aggregate] =
                    IF d.owner[e.aggregate] = None THEN None ELSE d.owner[e.aggregate]]
      BY <1>2, AppendedFields
    <3> QED BY <1>1, <3>1
  <2> QED BY <1>2, <2>1
<1>6. Contiguous(g) /\ UniqueIds(g)
  BY <1>1, <1>2, <1>3, AppendKeepsTables
<1> HIDE DEF g
<1>7. StoresAreSound'
  BY <1>4, <1>5, <1>6, OneStoreChanges DEF Logs
<1>8. /\ db \in [Node -> Store]
      /\ \A m \in Node : db'[m] = IF m = n THEN g ELSE db[m]
  BY <1>4 DEF Logs, StoresAreSound
<1>9. /\ \A m \in Node : db'[m].events = IF m = n THEN db[m].events \cup {e} ELSE db[m].events
      /\ g.seq[Session] = e.seq /\ g.owner[Session] = db[n].owner[Session]
  BY <1>1, <1>5, <1>8 DEF Store
<1>10. Grows /\ OwnerKept
  <2>1. \A m \in Node : db[m].seq[Session] \in Nat \cup {-1}
    BY LogOf DEF Logs
  <2>2. \A m \in Node : db[m].seq[Session] <= db'[m].seq[Session]
    BY <1>1, <1>2, <1>8, <1>9, <2>1
  <2>3. Control \in Node
    BY DEF Node
  <2> QED BY <1>8, <1>9, <2>2, <2>3 DEF Grows, OwnerKept
<1>11. IdsToCome'
  <2>1. \A m \in Node : \A f \in db[m].events : f.id \in Int /\ f.id >= budget.event
    BY LogOf, SyncBounds DEF Logs, IdsToCome, Event
  <2>2. ASSUME NEW m \in Node, NEW f \in db'[m].events PROVE f.id >= budget'.event
    <3>1. f = e \/ f \in db[m].events
      BY <1>9
    <3> QED BY <1>0, <1>2, <2>1, <3>1
  <2> QED BY <2>2 DEF IdsToCome
<1>12. SharedIsControls'
  <2>1. ASSUME NEW v \in Remote, NEW w \in Remote, v # w,
               NEW f \in db'[v].events \cap db'[w].events
        PROVE  f \in db'[Control].events
    <3>1. v \in Node /\ w \in Node /\ Control \in Node
      BY DEF Node
    <3>2. f \in db[v].events /\ f \in db[w].events
      BY <1>3, <1>9, <2>1, <3>1
    <3>3. f \in db[Control].events
      BY <2>1, <3>2 DEF Logs, SharedIsControls
    <3> QED BY <1>9, <3>1, <3>3
  <2> QED BY <2>1 DEF SharedIsControls
<1>13. LinksFit'
  <2>1. link' = [w \in Remote |-> IF w = n /\ Streaming(w)
                                 THEN [link[w] EXCEPT !.queue = Append(link[w].queue, e)]
                                 ELSE link[w]]
    BY DEF Publish, e
  <2>2. \A w \in Remote : Fits(link[w], db[w].events) /\ w \in Node
    BY DEF Logs, LinksFit, Node
  <2>3. ASSUME NEW w \in Remote PROVE Fits(link'[w], db'[w].events)
    <3>1. CASE w = n /\ Streaming(w)
      <4>1. Fits([link[w] EXCEPT !.queue = Append(link[w].queue, e)], db[w].events \cup {e})
        BY <1>2, <2>2, FitsAppended
      <4> QED BY <1>9, <2>1, <2>2, <3>1, <4>1
    <3>2. CASE ~(w = n /\ Streaming(w))
      <4>1. Fits(link[w], db'[w].events)
        BY <1>9, <2>2, FitsLonger
      <4> QED BY <2>1, <3>2, <4>1
    <3> QED BY <3>1, <3>2
  <2>4. \A w \in Remote : link'[w] \in Link
    BY <2>3 DEF Fits
  <2> QED BY <2>1, <2>3, <2>4 DEF LinksFit, Fits
<1> QED BY <1>0, <1>3, <1>7, <1>9, <1>10, <1>11, <1>12, <1>13 DEF Logs

\* A replay adds the event or nothing, keeps an owner, and acknowledges only what is there.
LEMMA ReplayFacts ==
  ASSUME NEW d \in Store, NEW e \in Event, e.aggregate = Session, NEW by \in Owner,
         NEW strict \in BOOLEAN, Contiguous(d), UniqueIds(d)
  PROVE  LET g == Replayed(d, e, by, strict) IN
           /\ g \in Store /\ Contiguous(g) /\ UniqueIds(g)
           /\ d.events \subseteq g.events /\ g.events \subseteq d.events \cup {e}
           /\ d.seq[Session] <= g.seq[Session]
           /\ d.owner[Session] # None => g.owner[Session] = d.owner[Session]
           /\ Foreign(d, Session, by) => g.events = d.events
           /\ strict /\ ReplayOutcome(d, e, by, strict) # "refused" => e \in g.events
<1> DEFINE g == Replayed(d, e, by, strict)
           outcome == ReplayOutcome(d, e, by, strict)
<1>0. /\ Session \in Aggregate /\ d.seq[Session] \in Nat \cup {-1} /\ e.seq \in Nat
      /\ by \in Owner \cup {None}
  BY SessionIsAggregate DEF Store, Event
<1>1. g \in Store /\ Contiguous(g) /\ UniqueIds(g)
  BY <1>0, ReplayKeepsTables
<1>2. CASE outcome = "committed"
  <2>1. e.seq = d.seq[Session] + 1 /\ ~Foreign(d, Session, by)
    BY <1>2 DEF ReplayOutcome
  <2>2. g = Appended(d, e, by)
    BY <1>2 DEF Replayed
  <2>3. /\ Appended(d, e, by).seq = [d.seq EXCEPT ![e.aggregate] = e.seq]
        /\ Appended(d, e, by).events = d.events \cup {e}
        /\ Appended(d, e, by).owner =
             [d.owner EXCEPT ![e.aggregate] =
                IF d.owner[e.aggregate] = None THEN by ELSE d.owner[e.aggregate]]
    BY <1>0, AppendedFields
  <2>4. /\ g.seq[Session] = e.seq /\ g.events = d.events \cup {e}
        /\ d.owner[Session] # None => g.owner[Session] = d.owner[Session]
    BY <1>0, <2>2, <2>3 DEF Store
  <2> QED BY <1>0, <1>1, <2>1, <2>4
<1>3. CASE outcome = "known"
  <2>1. g = Adopted(d, Session, by) /\ e \in d.events
    BY <1>3 DEF Replayed, ReplayOutcome
  <2>2. /\ Adopted(d, Session, by).seq = d.seq /\ Adopted(d, Session, by).events = d.events
        /\ Adopted(d, Session, by).owner =
             [d.owner EXCEPT ![Session] = IF d.owner[Session] = None THEN by ELSE d.owner[Session]]
    BY <1>0, AdoptedFields
  <2>3. /\ g.seq = d.seq /\ g.events = d.events
        /\ d.owner[Session] # None => g.owner[Session] = d.owner[Session]
    BY <1>0, <2>1, <2>2 DEF Store
  <2> QED BY <1>0, <1>1, <2>1, <2>3
<1>4. CASE outcome \notin {"committed", "known"}
  <2>1. g = d
    BY <1>4 DEF Replayed
  <2>2. strict => outcome = "refused"
    BY <1>4 DEF ReplayOutcome
  <2> QED BY <1>0, <1>1, <2>1, <2>2
<1> QED BY <1>2, <1>3, <1>4

\* Replaying at the control server, or at a workspace what the control server has.
LEMMA ReplayKeepsLogs ==
  ASSUME Logs, NEW n \in Node, NEW w \in Remote, NEW strict \in BOOLEAN,
         NEW m \in Node, NEW e \in db[m].events, n = Control \/ e \in db[Control].events,
         db' = [db EXCEPT ![n] = Replayed(db[n], e, w, strict)],
         link' \in [Remote -> Link], \A v \in Remote : Fits(link'[v], db[v].events),
         UNCHANGED budget
  PROVE  /\ Logs' /\ Grows /\ OwnerKept
         /\ \A k \in Node \ {n} : db'[k] = db[k]
         /\ db'[n].events \subseteq db[n].events \cup {e}
         /\ Foreign(db[n], Session, w) => db'[n].events = db[n].events
         /\ strict /\ ReplayOutcome(db[n], e, w, strict) # "refused" => e \in db'[n].events
<1> DEFINE g == Replayed(db[n], e, w, strict)
<1>0. /\ StoresAreSound /\ db[n] \in Store /\ Contiguous(db[n]) /\ UniqueIds(db[n])
      /\ w \in Owner /\ Control \in Node
  BY OwnersAssumption DEF Logs, StoresAreSound, Node
<1>1. e \in Event /\ e.aggregate = Session
  <2>1. e \in Event
    BY <1>0, LogOf
  <2> QED BY <2>1, SessionIsAggregate DEF Event
<1>2. /\ g \in Store /\ Contiguous(g) /\ UniqueIds(g)
      /\ db[n].events \subseteq g.events /\ g.events \subseteq db[n].events \cup {e}
      /\ db[n].seq[Session] <= g.seq[Session]
      /\ db[n].owner[Session] # None => g.owner[Session] = db[n].owner[Session]
      /\ Foreign(db[n], Session, w) => g.events = db[n].events
      /\ strict /\ ReplayOutcome(db[n], e, w, strict) # "refused" => e \in g.events
  <2>1. \A d \in Store : Contiguous(d) /\ UniqueIds(d) =>
          LET h == Replayed(d, e, w, strict) IN
            /\ h \in Store /\ Contiguous(h) /\ UniqueIds(h)
            /\ d.events \subseteq h.events /\ h.events \subseteq d.events \cup {e}
            /\ d.seq[Session] <= h.seq[Session]
            /\ d.owner[Session] # None => h.owner[Session] = d.owner[Session]
            /\ Foreign(d, Session, w) => h.events = d.events
            /\ strict /\ ReplayOutcome(d, e, w, strict) # "refused" => e \in h.events
    BY <1>0, <1>1, ReplayFacts
  <2> QED BY <1>0, <2>1
<1>3. db' = [db EXCEPT ![n] = g]
  OBVIOUS
<1> HIDE DEF g
<1>4. StoresAreSound'
  BY <1>0, <1>2, <1>3, OneStoreChanges
<1>5. \A k \in Node : db'[k] = IF k = n THEN g ELSE db[k]
  BY <1>0, <1>3 DEF StoresAreSound
<1>6. Grows /\ OwnerKept
  <2>1. \A k \in Node : db[k].seq[Session] \in Nat \cup {-1}
    BY <1>0, LogOf
  <2> QED BY <1>0, <1>2, <1>5, <2>1 DEF Grows, OwnerKept
<1>7. LinksFit'
  <2>1. \A v \in Remote : db[v].events \subseteq db'[v].events
    BY <1>6 DEF Grows, Node
  <2>2. \A v \in Remote : Fits(link'[v], db'[v].events)
    BY <2>1, FitsLonger
  <2> QED BY <2>2 DEF LinksFit, Fits
<1>8. IdsToCome'
  <2>1. e.id >= budget.event
    BY DEF Logs, IdsToCome
  <2>2. ASSUME NEW k \in Node, NEW f \in db'[k].events PROVE f.id >= budget'.event
    <3>1. f = e \/ f \in db[k].events
      BY <1>2, <1>5
    <3> QED BY <2>1, <3>1 DEF Logs, IdsToCome
  <2> QED BY <2>2 DEF IdsToCome
<1>9. SharedIsControls'
  <2>1. ASSUME NEW u \in Remote, NEW v \in Remote, u # v,
               NEW f \in db'[u].events \cap db'[v].events
        PROVE  f \in db'[Control].events
    <3>1. u \in Node /\ v \in Node /\ u # Control /\ v # Control
      BY OriginAssumption DEF Node
    <3>2. CASE f \in db[u].events /\ f \in db[v].events
      BY <1>0, <1>6, <2>1, <3>2 DEF Logs, SharedIsControls, Grows
    <3>3. CASE f = e /\ n # Control
      BY <1>0, <1>6, <3>3 DEF Grows
    <3> QED BY <1>2, <1>5, <2>1, <3>1, <3>2, <3>3
  <2> QED BY <2>1 DEF SharedIsControls
<1> QED BY <1>2, <1>4, <1>5, <1>6, <1>7, <1>8, <1>9 DEF Logs

\* A step of one connection that leaves the logs.
LEMMA LinkKeepsLogs ==
  ASSUME Logs, UNCHANGED db, NEW w \in Remote, NEW l, Fits(l, db[w].events), SetLink(w, l),
         budget' \in Budget, budget'.event = budget.event
  PROVE  Logs' /\ Grows /\ OwnerKept
<1>1. StoresAreSound' /\ Grows /\ OwnerKept
  BY SameStores DEF Logs
<1>2. LinksFit'
  BY DEF Logs, LinksFit, SetLink, Fits
<1> QED BY <1>1, <1>2 DEF Logs, IdsToCome, SharedIsControls

\* A step that leaves logs and connections.
LEMMA QuietKeepsLogs ==
  ASSUME Logs, UNCHANGED <<db, link>>, budget' \in Budget, budget'.event = budget.event
  PROVE  Logs' /\ Grows /\ OwnerKept
<1>1. StoresAreSound' /\ Grows /\ OwnerKept
  BY SameStores DEF Logs
<1>2. LinksFit'
  BY DEF Logs, LinksFit, Fits
<1> QED BY <1>1, <1>2 DEF Logs, IdsToCome, SharedIsControls

-------------------------------------------------------------------------------
(* What a step makes of the requests *)

\* While logs grow, a request is in order as it was.
LEMMA StillInOrder ==
  ASSUME NEW x, NEW d, NEW g, InOrder(x, d), d[Control].seq[Session] \in Nat \cup {-1},
         \A n \in Node : /\ d[n].events \subseteq g[n].events
                         /\ d[n].seq[Session] <= g[n].seq[Session]
  PROVE  InOrder(x, g)
<1>0. Control \in Node /\ Remote \subseteq Node
  BY DEF Node
<1>1. LastHistory(x, g)
  <2>1. CASE x.batch = <<>>
    <3>1. 1 .. Len(<<>>) = {}
      OBVIOUS
    <3> QED BY <2>1, <3>1 DEF InOrder, LastHistory
  <2>2. CASE x.batch # <<>>
    BY <1>0, <2>2 DEF InOrder, LastHistory
  <2> QED BY <2>1, <2>2
<1>2. RowsAreSent(x, g)
  BY <1>0 DEF InOrder, RowsAreSent
<1>3. d[Control].seq[Session] # -1 => g[Control].seq[Session] # -1
  BY <1>0
<1> QED BY <1>1, <1>2, <1>3 DEF InOrder

\* No request takes a step.
LEMMA NoRequestSteps ==
  ASSUME Logs, RequestsInOrder, ClaimHolds, Grows, OwnerKept, UNCHANGED moves
  PROVE  RequestsInOrder' /\ ClaimHolds'
<1>0. db[Control].seq[Session] \in Nat \cup {-1} /\ UNCHANGED <<warp, claimed>>
  BY LogOf DEF Logs, Node, moves
<1>1. RequestsInOrder'
  <2>1. \A m \in Warp : InOrder(warp[m], db')
    BY <1>0, StillInOrder DEF RequestsInOrder, Grows
  <2>2. \A m \in Warp : InOrder(warp'[m], db')
    BY <1>0, <2>1
  <2> QED BY <1>0, <2>2 DEF RequestsInOrder, InOrder, LastHistory, RowsAreSent
<1>2. ClaimHolds'
  <2>1. \A w \in Remote : Left(w)' <=> Left(w)
    BY <1>0 DEF Left
  <2>2. \A w \in Remote : Foreign(db[Control], Session, w) => Foreign(db'[Control], Session, w)
    BY DEF OwnerKept, Foreign
  <2>3. \A w \in Remote : Left(w)' => Foreign(db'[Control], Session, w)
    BY <2>1, <2>2 DEF ClaimHolds
  <2> QED BY <1>0, <2>3 DEF ClaimHolds, Foreign
<1> QED BY <1>1, <1>2

\* One request takes a step that is not a claim.
LEMMA RequestSteps ==
  ASSUME IInv, Logs', Grows, OwnerKept, NEW m \in Warp, NEW x, InOrder(x, db'),
         warp' = [warp EXCEPT ![m] = x], UNCHANGED claimed, loop' \in [Node -> Loop],
         warp[m].at \in HasClaimed => /\ x.at \in HasClaimed
                                      /\ x.previous = warp[m].previous
                                      /\ x.target = warp[m].target
  PROVE  IInv'
<1>0. /\ db[Control].seq[Session] \in Nat \cup {-1} /\ warp \in [Warp -> Move] /\ x \in Move
      /\ claimed' = claimed
  BY LogOf DEF IInv, Logs, Node, RequestsInOrder, InOrder
<1>1. warp' \in [Warp -> Move] /\ \A k \in Warp : warp'[k] = IF k = m THEN x ELSE warp[k]
  BY <1>0
<1>2. RequestsInOrder'
  <2>1. \A k \in Warp : InOrder(warp[k], db')
    BY <1>0, StillInOrder DEF IInv, RequestsInOrder, Grows
  <2>2. \A k \in Warp : InOrder(warp'[k], db')
    BY <1>1, <2>1
  <2> QED BY <1>1, <2>2 DEF RequestsInOrder, InOrder, LastHistory, RowsAreSent
<1>3. /\ claimed \in Warp \cup {0}
      /\ claimed # 0 => warp[claimed].at \in HasClaimed
      /\ \A w \in Remote : Left(w) => Foreign(db[Control], Session, w)
  BY DEF IInv, ClaimHolds
<1>4. claimed # 0 => /\ warp'[claimed].at \in HasClaimed
                     /\ warp'[claimed].previous = warp[claimed].previous
                     /\ warp'[claimed].target = warp[claimed].target
  BY <1>1, <1>3
<1>5. ASSUME NEW w \in Remote, Left(w)' PROVE Foreign(db'[Control], Session, w)
  <2>1. Left(w)
    BY <1>0, <1>4, <1>5 DEF Left
  <2>2. Foreign(db[Control], Session, w)
    BY <1>3, <2>1
  <2> QED BY <2>2 DEF OwnerKept, Foreign
<1>6. ClaimHolds'
  BY <1>0, <1>3, <1>4, <1>5 DEF ClaimHolds, Foreign
<1> QED BY <1>2, <1>6 DEF IInv

\* A request that is over has nothing left to send.
LEMMA RequestEnds ==
  ASSUME IInv, Logs', Grows, OwnerKept, NEW m \in Warp, Over(m), UNCHANGED <<claimed, loop>>
  PROVE  IInv'
<1> DEFINE x == [at |-> "over", previous |-> warp[m].previous, target |-> warp[m].target,
                 batch |-> <<>>, rows |-> <<>>, sent |-> 0]
<1>0. warp[m] \in Move
  BY DEF IInv, RequestsInOrder
<1>1. warp' = [warp EXCEPT ![m] = x]
  <2>1. PICK y : y = [NoWarp EXCEPT !.at = "over", !.previous = warp[m].previous,
                                    !.target = warp[m].target]
    OBVIOUS
  <2>2. y = x
    BY <2>1 DEF NoWarp
  <2> HIDE DEF x
  <2> QED BY <2>1, <2>2 DEF Over
<1>2. <<>> \in Seq(Event) /\ 0 \in Nat /\ Len(<<>>) = 0 /\ 1 .. 0 = {}
  OBVIOUS
<1>3. /\ x \in Move /\ x.at = "over" /\ x.previous = warp[m].previous
      /\ x.target = warp[m].target /\ x.batch = <<>> /\ x.rows = <<>> /\ x.sent = 0
  BY <1>0, <1>2 DEF Move
<1> HIDE DEF x
<1>4. InOrder(x, db')
  BY <1>2, <1>3 DEF InOrder, LastHistory, RowsAreSent
<1>5. loop' \in [Node -> Loop] /\ UNCHANGED claimed /\ x.at \in HasClaimed
  BY <1>3 DEF IInv, HasClaimed
<1> QED BY <1>1, <1>3, <1>4, <1>5, RequestSteps

-------------------------------------------------------------------------------
(* Every step keeps the invariant *)

\* A new connection holds nothing; one that takes its next state holds what it held.
LEMMA NewLinks ==
  ASSUME NEW rows, NEW l, Fits(l, rows)
  PROVE  /\ \A status \in {"none", "disconnected", "connecting", "error"} :
              /\ Fits(Off(status), rows)
              /\ \A at \in {"waiting", "opening"} : Fits([Off(status) EXCEPT !.at = at], rows)
         /\ l.at = "opening" => Fits([l EXCEPT !.at = "asking"], rows)
         /\ l.at = "waiting" => Fits([l EXCEPT !.at = "opening", !.status = "connecting"], rows)
         /\ l.at = "applying" /\ l.batch = <<>> =>
              Fits([l EXCEPT !.at = "listening", !.status = "connected"], rows)
<1>0. l \in Link
  BY DEF Fits
<1>1. <<>> \in Seq(Event) /\ Len(<<>>) = 0 /\ 1 .. 0 = {}
  OBVIOUS
<1>2. ASSUME NEW status \in {"none", "disconnected", "connecting", "error"},
             NEW at \in {"off", "waiting", "opening"}
      PROVE  Fits([at |-> at, status |-> status, batch |-> <<>>, queue |-> <<>>], rows)
  <2> DEFINE k == [at |-> at, status |-> status, batch |-> <<>>, queue |-> <<>>]
  <2>1. /\ k.at = at /\ k.status = status /\ k.batch = <<>> /\ k.queue = <<>>
    OBVIOUS
  <2>2. k \in Link
    BY <1>1 DEF Link
  <2> HIDE DEF k
  <2>3. Fits(k, rows)
    BY <1>1, <2>1, <2>2 DEF Fits
  <2> QED BY <2>3 DEF k
<1>3. ASSUME NEW status \in {"none", "disconnected", "connecting", "error"}
      PROVE  /\ Fits(Off(status), rows)
             /\ \A at \in {"waiting", "opening"} : Fits([Off(status) EXCEPT !.at = at], rows)
  BY <1>2 DEF Off
<1>4. ASSUME NEW at \in {"asking", "opening", "listening"},
             NEW status \in {"connecting", "connected", l.status}, l.batch = <<>>,
             status = "connected" <=> at = "listening"
      PROVE  Fits([l EXCEPT !.at = at, !.status = status], rows)
  <2> DEFINE k == [l EXCEPT !.at = at, !.status = status]
  <2>1. k \in Link /\ k.at = at /\ k.status = status /\ k.batch = <<>> /\ k.queue = l.queue
    BY <1>0, <1>4 DEF Link
  <2> HIDE DEF k
  <2>2. Fits(k, rows)
    BY <1>1, <1>4, <2>1 DEF Fits
  <2> QED BY <2>2 DEF k
<1>5. ASSUME l.at = "opening" PROVE Fits([l EXCEPT !.at = "asking"], rows)
  <2>1. [l EXCEPT !.at = "asking"] = [l EXCEPT !.at = "asking", !.status = l.status]
    BY <1>0 DEF Link
  <2>2. l.batch = <<>> /\ l.status # "connected"
    BY <1>5 DEF Fits
  <2> QED BY <1>4, <2>1, <2>2
<1>6. ASSUME l.at = "waiting"
      PROVE  Fits([l EXCEPT !.at = "opening", !.status = "connecting"], rows)
  <2>1. l.batch = <<>>
    BY <1>6 DEF Fits
  <2> QED BY <1>4, <2>1
<1> QED BY <1>3, <1>4, <1>5, <1>6

\* The head of what a connection holds is its workspace's; the rest remains.
LEMMA TakingFromLinks ==
  ASSUME NEW rows, NEW l, Fits(l, rows)
  PROVE  /\ l.batch # <<>> /\ l.at = "applying" =>
              Head(l.batch) \in rows /\ Fits([l EXCEPT !.batch = Tail(l.batch)], rows)
         /\ l.queue # <<>> =>
              Head(l.queue) \in rows /\ Fits([l EXCEPT !.queue = Tail(l.queue)], rows)
<1>0. l \in Link /\ l.batch \in Seq(Event) /\ l.queue \in Seq(Event)
  BY DEF Fits, Link
<1>1. ASSUME NEW q \in Seq(Event), q # <<>>, \A k \in 1 .. Len(q) : q[k] \in rows
      PROVE  Head(q) \in rows /\ Tail(q) \in Seq(Event) /\ \A k \in 1 .. Len(Tail(q)) : Tail(q)[k] \in rows
  <2>1. Len(q) \in Nat /\ Len(q) # 0
    BY <1>1
  <2>2. Head(q) = q[1] /\ Tail(q) \in Seq(Event) /\ Len(Tail(q)) = Len(q) - 1
        /\ \A k \in 1 .. Len(Tail(q)) : Tail(q)[k] = q[k + 1]
    BY <1>1, <2>1, HeadTailProperties
  <2> QED BY <1>1, <2>1, <2>2
<1>2. ASSUME l.batch # <<>>, l.at = "applying"
      PROVE  Head(l.batch) \in rows /\ Fits([l EXCEPT !.batch = Tail(l.batch)], rows)
  <2>1. /\ Head(l.batch) \in rows /\ Tail(l.batch) \in Seq(Event)
        /\ \A k \in 1 .. Len(Tail(l.batch)) : Tail(l.batch)[k] \in rows
    BY <1>0, <1>1, <1>2 DEF Fits
  <2> QED BY <1>0, <1>2, <2>1 DEF Fits, Link
<1>3. ASSUME l.queue # <<>>
      PROVE  Head(l.queue) \in rows /\ Fits([l EXCEPT !.queue = Tail(l.queue)], rows)
  <2>1. /\ Head(l.queue) \in rows /\ Tail(l.queue) \in Seq(Event)
        /\ \A k \in 1 .. Len(Tail(l.queue)) : Tail(l.queue)[k] \in rows
    BY <1>0, <1>1, <1>3 DEF Fits
  <2> QED BY <1>0, <2>1 DEF Fits, Link
<1> QED BY <1>2, <1>3

\* What a history or the rows of a move are made of.
LEMMA HistoryRows ==
  ASSUME StoresAreSound, NEW w \in Remote
  PROVE  /\ HistoryOf(w) \in Seq(Event)
         /\ \A k \in 1 .. Len(HistoryOf(w)) : HistoryOf(w)[k] \in db[w].events
<1>1. db[Control].seq[Session] \in Nat \cup {-1} /\ w \in Node
  BY LogOf DEF Node
<1> QED BY <1>1, RowsOf DEF HistoryOf

\* The Session is created with one event, on one server.
LEMMA InitIInv ==
  Init => IInv
<1> SUFFICES ASSUME Init PROVE IInv
  OBVIOUS
<1>0. PICK n \in Origin :
        db = [m \in Node |-> IF m # n THEN EmptyStore
                             ELSE Appended(EmptyStore,
                                    Following(EmptyStore, Session, MaxEvents - 1,
                                              IF n = Control THEN None ELSE n), None)]
  BY DEF Init
<1> DEFINE e == Following(EmptyStore, Session, MaxEvents - 1, IF n = Control THEN None ELSE n)
           g == Appended(EmptyStore, e, None)
<1>1. /\ EmptyStore \in Store /\ EmptyStore.seq[Session] = -1 /\ EmptyStore.events = {}
      /\ Contiguous(EmptyStore) /\ UniqueIds(EmptyStore) /\ n \in Node
  <2>1. EmptyStore \in Store /\ EmptyStore.events = {} /\ \A a \in Aggregate : EmptyStore.seq[a] = -1
    BY DEF EmptyStore, Store
  <2>2. 0 .. -1 = {}
    OBVIOUS
  <2> QED BY <2>1, <2>2, SessionIsAggregate, OriginAssumption DEF Contiguous, UniqueIds, After, Node
<1>2. /\ e \in Event /\ e.id = MaxEvents - 1 /\ e.seq = 0 /\ e.aggregate = Session
      /\ ~Used(EmptyStore, e.id)
  BY <1>1, SyncBounds, OwnersAssumption, OriginAssumption, SessionIsAggregate
     DEF Following, Event, Used
<1>3. g \in Store /\ g.events = {e} /\ Contiguous(g) /\ UniqueIds(g)
  <2>1. \A d \in Store : Contiguous(d) /\ UniqueIds(d) /\ ~Used(d, e.id) /\ e.seq = d.seq[e.aggregate] + 1 =>
          /\ Appended(d, e, None) \in Store /\ Appended(d, e, None).events = d.events \cup {e}
          /\ Contiguous(Appended(d, e, None)) /\ UniqueIds(Appended(d, e, None))
    <3> HIDE DEF e
    <3> QED BY <1>2, AppendedFields, AppendKeepsTables
  <2> QED BY <1>1, <1>2, <2>1
<1>4. \A m \in Node : db[m] = IF m # n THEN EmptyStore ELSE g
  BY <1>0
<1> HIDE DEF e, g
<1>5. db \in [Node -> Store]
  BY <1>0, <1>1, <1>3 DEF e, g
<1>6. StoresAreSound
  BY <1>1, <1>3, <1>4, <1>5 DEF StoresAreSound
<1>7. LinksFit
  <2>1. <<>> \in Seq(Event) /\ Len(<<>>) = 0 /\ 1 .. 0 = {}
    OBVIOUS
  <2>2. \A rows : Fits(Off("none"), rows)
    BY <2>1 DEF Fits, Off, Link
  <2> QED BY <2>2 DEF Init, LinksFit, Fits
<1>8. budget \in Budget /\ budget.event = MaxEvents - 1
  BY SyncBounds DEF Init, Budget
<1>9. IdsToCome
  BY <1>1, <1>2, <1>3, <1>4, <1>8, SyncBounds DEF IdsToCome
<1>10. SharedIsControls
  BY <1>1, <1>4 DEF SharedIsControls, Node
<1>11. loop \in [Node -> Loop]
  BY DEF Init, NoLoop, Loop
<1>12. RequestsInOrder
  <2>1. warp = [m \in Warp |-> NoWarp]
    BY DEF Init
  <2>2. <<>> \in Seq(Event) /\ 0 \in Nat /\ Len(<<>>) = 0 /\ 1 .. 0 = {}
    OBVIOUS
  <2>3. /\ NoWarp \in Move /\ NoWarp.at = "idle" /\ NoWarp.sent = 0 /\ NoWarp.rows = <<>>
        /\ NoWarp.batch = <<>>
    BY <2>2 DEF NoWarp, Move
  <2>4. InOrder(NoWarp, db)
    BY <2>2, <2>3 DEF InOrder, LastHistory, RowsAreSent
  <2> QED BY <2>1, <2>3, <2>4 DEF RequestsInOrder
<1>13. ClaimHolds
  BY DEF Init, ClaimHolds, Left
<1> QED BY <1>6, <1>7, <1>8, <1>9, <1>10, <1>11, <1>12, <1>13 DEF IInv, Logs

\* A prompt loop starts, reads or publishes.
LEMMA LoopKeeps ==
  ASSUME IInv, NEW n \in Node, StartLoop(n) \/ WriteMessage(n) \/ ReadForPatch(n) \/ PublishPatch(n)
  PROVE  IInv'
<1>0. /\ Logs /\ RequestsInOrder /\ ClaimHolds /\ loop \in [Node -> Loop] /\ StoresAreSound
      /\ budget \in Budget
  BY DEF IInv, Logs
<1>1. loop[n].read \in Remote \cup Local \cup {None}
  BY <1>0 DEF Loop
<1>2. UNCHANGED moves
  BY DEF StartLoop, WriteMessage, ReadForPatch, PublishPatch
<1>3. loop' \in [Node -> Loop]
  <2>1. Working \in Loop
    BY DEF Working, Loop
  <2>2. [at |-> "patching", read |-> WorkspaceIn(n)] \in Loop
    BY <1>0, WorkspaceOf DEF Loop
  <2> QED BY <1>0, <2>1, <2>2 DEF StartLoop, WriteMessage, ReadForPatch, PublishPatch
<1>4. Logs' /\ Grows /\ OwnerKept
  <2>1. CASE StartLoop(n) \/ ReadForPatch(n)
    BY <1>0, <2>1, QuietKeepsLogs DEF StartLoop, ReadForPatch
  <2>2. CASE WriteMessage(n) \/ PublishPatch(n)
    <3>1. Publish(n, Message) \/ Publish(n, loop[n].read)
      BY <2>2 DEF WriteMessage, PublishPatch
    <3> QED BY <1>0, <1>1, <3>1, PublishKeepsLogs, OwnersAssumption
  <2> QED BY <2>1, <2>2
<1> QED BY <1>0, <1>2, <1>3, <1>4, NoRequestSteps DEF IInv

\* The connection of a workspace takes a step of its own.
LEMMA ConnectionKeeps ==
  ASSUME IInv, NEW w \in Remote,
         \/ StartSync(w) \/ Connect(w) \/ AskHistory(w) \/ ConnectFails(w)
         \/ Listen(w) \/ StreamEnds(w) \/ Reconnect(w)
  PROVE  IInv'
<1>0. /\ Logs /\ RequestsInOrder /\ ClaimHolds /\ loop \in [Node -> Loop] /\ StoresAreSound /\ budget \in Budget
      /\ link \in [Remote -> Link] /\ Fits(link[w], db[w].events)
  BY DEF IInv, Logs, LinksFit
<1>1. UNCHANGED <<db, loop, moves>>
  BY DEF StartSync, Connect, AskHistory, ConnectFails, Listen, StreamEnds, Reconnect
<1>2. budget' \in Budget /\ budget'.event = budget.event
  <2>1. Spend("start") \/ Spend("fault") \/ UNCHANGED budget
    BY DEF StartSync, Connect, AskHistory, ConnectFails, Listen, StreamEnds, Reconnect
  <2> QED BY <1>0, <2>1, Spending
<1>3. \E l : SetLink(w, l) /\ Fits(l, db[w].events)
  <2>1. CASE StartSync(w)
    BY <1>0, <2>1, NewLinks DEF StartSync
  <2>2. CASE Connect(w)
    BY <1>0, <2>2, NewLinks DEF Connect
  <2>3. CASE AskHistory(w)
    <3> DEFINE h == HistoryOf(w)
    <3>1. h \in Seq(Event) /\ \A k \in 1 .. Len(h) : h[k] \in db[w].events
      BY <1>0, HistoryRows
    <3>2. SetLink(w, [link[w] EXCEPT !.at = "applying", !.batch = h]) /\ link[w].at = "asking"
      BY <2>3 DEF AskHistory
    <3> HIDE DEF h
    <3>3. Fits([link[w] EXCEPT !.at = "applying", !.batch = h], db[w].events)
      BY <1>0, <3>1, <3>2 DEF Fits, Link
    <3> QED BY <3>2, <3>3
  <2>4. CASE ConnectFails(w)
    BY <1>0, <2>4, NewLinks DEF ConnectFails
  <2>5. CASE Listen(w)
    BY <1>0, <2>5, NewLinks DEF Listen
  <2>6. CASE StreamEnds(w)
    BY <1>0, <2>6, NewLinks DEF StreamEnds
  <2>7. CASE Reconnect(w)
    BY <1>0, <2>7, NewLinks DEF Reconnect
  <2> QED BY <2>1, <2>2, <2>3, <2>4, <2>5, <2>6, <2>7
<1>4. Logs' /\ Grows /\ OwnerKept
  BY <1>0, <1>1, <1>2, <1>3, LinkKeepsLogs
<1> QED BY <1>0, <1>1, <1>4, NoRequestSteps DEF IInv

\* What arrives from a workspace is in its log, and the connection goes on without it.
LEMMA Arrival ==
  ASSUME LinksFit, NEW w \in Remote, ApplyHistory(w) \/ Deliver(w)
  PROVE  \E e \in db[w].events, l \in Link :
           ReplayAtControl(e, w) /\ SetLink(w, l) /\ Fits(l, db[w].events)
<1>0. Fits(link[w], db[w].events)
  BY DEF LinksFit
<1>1. CASE ApplyHistory(w)
  <2> DEFINE e == Head(link[w].batch)
  <2>1. /\ e \in db[w].events /\ ReplayAtControl(e, w)
        /\ Fits([link[w] EXCEPT !.batch = Tail(link[w].batch)], db[w].events)
    BY <1>0, <1>1, TakingFromLinks DEF ApplyHistory
  <2>2. Fits(Off("connecting"), db[w].events)
    BY <1>0, NewLinks
  <2>3. \/ SetLink(w, Off("connecting"))
        \/ SetLink(w, [link[w] EXCEPT !.batch = Tail(link[w].batch)])
    BY <1>1 DEF ApplyHistory
  <2> HIDE DEF e
  <2> QED BY <2>1, <2>2, <2>3 DEF Fits
<1>2. CASE Deliver(w)
  <2> DEFINE e == Head(link[w].queue)
             l == [link[w] EXCEPT !.queue = Tail(link[w].queue)]
  <2>1. /\ e \in db[w].events /\ Fits(l, db[w].events)
        /\ ReplayAtControl(e, w) /\ SetLink(w, l)
    BY <1>0, <1>2, TakingFromLinks DEF Deliver
  <2>2. l \in Link
    BY <2>1 DEF Fits
  <2> HIDE DEF e, l
  <2> QED BY <2>1, <2>2
<1> QED BY <1>1, <1>2

\* An event of a workspace is replayed at the control server.
LEMMA ArrivalKeeps ==
  ASSUME IInv, NEW w \in Remote, ApplyHistory(w) \/ Deliver(w)
  PROVE  IInv'
<1>0. /\ Logs /\ RequestsInOrder /\ ClaimHolds /\ loop \in [Node -> Loop] /\ link \in [Remote -> Link] /\ LinksFit
      /\ \A v \in Remote : Fits(link[v], db[v].events)
      /\ w \in Node /\ Control \in Node
  BY DEF IInv, Logs, LinksFit, Node
<1>1. UNCHANGED <<loop, moves, budget>>
  BY DEF ApplyHistory, Deliver
<1>2. PICK e \in db[w].events, l \in Link :
        ReplayAtControl(e, w) /\ SetLink(w, l) /\ Fits(l, db[w].events)
  BY <1>0, Arrival
<1>3. /\ db' = [db EXCEPT ![Control] = Replayed(db[Control], e, w, FALSE)]
      /\ link' = [link EXCEPT ![w] = l] /\ l \in Link
  BY <1>2 DEF ReplayAtControl, SetLink, Fits
<1>4. link' \in [Remote -> Link] /\ \A v \in Remote : Fits(link'[v], db[v].events)
  BY <1>0, <1>2, <1>3
<1>5. Logs' /\ Grows /\ OwnerKept
  BY <1>0, <1>1, <1>3, <1>4, ReplayKeepsLogs
<1> QED BY <1>0, <1>1, <1>5, NoRequestSteps DEF IInv

\* A request reads the workspace that the Session is in, and asks for its last history.
LEMMA StartKeeps ==
  ASSUME IInv, NEW m \in Warp, NEW target \in Data \ {Message}, StartWarp(m, target)
  PROVE  IInv'
<1> DEFINE previous == WorkspaceIn(Control)
           at == IF previous \in Remote THEN "final"
                 ELSE IF previous \in Local THEN "claim" ELSE "patch"
           x == [at |-> at, previous |-> previous, target |-> target,
                 batch |-> <<>>, rows |-> <<>>, sent |-> 0]
<1>0. /\ Logs /\ StoresAreSound /\ budget \in Budget /\ Control \in Node
      /\ loop \in [Node -> Loop]
  BY DEF IInv, Logs, Node
<1>1. /\ previous \in Remote \cup Local \cup {None} /\ (previous # None => Exists(Control))
      /\ target \in Remote \cup Local \cup {None} /\ None \notin Remote \cup Local
  BY <1>0, WorkspaceOf, OwnersAssumption, NoneIsNoOwner
<1>2. /\ UNCHANGED <<db, link, claimed, budget>> /\ warp[m].at = "idle"
      /\ warp' = [warp EXCEPT ![m] = x]
  <2>1. PICK y : y = [NoWarp EXCEPT !.previous = previous, !.target = target, !.at = at]
    OBVIOUS
  <2>2. y = x
    BY <2>1 DEF NoWarp
  <2> HIDE DEF x
  <2> QED BY <2>1, <2>2 DEF StartWarp
<1>3. loop' \in [Node -> Loop]
  <2>1. NoLoop \in Loop
    BY DEF NoLoop, Loop
  <2> QED BY <1>0, <2>1 DEF StartWarp
<1>4. <<>> \in Seq(Event) /\ Len(<<>>) = 0 /\ 1 .. 0 = {}
  OBVIOUS
<1>5. at \in {"final", "claim"} => Exists(Control)
  BY <1>1
<1>6. at = "final" => previous \in Remote
  OBVIOUS
<1>7. at \in {"final", "claim", "patch"}
  OBVIOUS
<1> HIDE DEF previous, at
<1>8. /\ x \in Move /\ x.at = at /\ x.sent = 0 /\ x.rows = <<>> /\ x.batch = <<>>
      /\ x.previous = previous /\ x.target = target
  BY <1>1, <1>4, <1>7 DEF Move
<1> HIDE DEF x
<1>9. InOrder(x, db')
  BY <1>2, <1>4, <1>5, <1>6, <1>7, <1>8 DEF InOrder, LastHistory, RowsAreSent, Exists
<1>10. Logs' /\ Grows /\ OwnerKept
  BY <1>0, <1>2, QuietKeepsLogs
<1>11. warp[m].at \notin HasClaimed
  BY <1>2 DEF HasClaimed
<1> QED BY <1>2, <1>3, <1>9, <1>10, <1>11, RequestSteps

\* The last history arrives, or does not.
LEMMA FinalHistoryKeeps ==
  ASSUME IInv, NEW m \in Warp, FinalHistory(m)
  PROVE  IInv'
<1>0. /\ Logs /\ StoresAreSound /\ budget \in Budget /\ warp[m] \in Move
      /\ InOrder(warp[m], db) /\ warp[m].at = "final" /\ warp[m].previous \in Remote
      /\ warp[m].batch = <<>>
  BY DEF IInv, Logs, RequestsInOrder, InOrder, LastHistory, FinalHistory
<1>1. UNCHANGED <<db, link, loop, claimed>> /\ (Spend("fault") \/ UNCHANGED budget)
  BY DEF FinalHistory
<1>2. Logs' /\ Grows /\ OwnerKept
  BY <1>0, <1>1, Spending, QuietKeepsLogs
<1>3. \E b \in Seq(Event) :
        /\ warp' = [warp EXCEPT ![m] = [warp[m] EXCEPT !.at = "claim", !.batch = b]]
        /\ \A k \in 1 .. Len(b) : b[k] \in db[warp[m].previous].events
  <2>1. CASE warp' = [warp EXCEPT ![m] = [warp[m] EXCEPT !.at = "claim",
                                            !.batch = HistoryOf(warp[m].previous)]]
    BY <1>0, <2>1, HistoryRows
  <2>2. CASE warp' = [warp EXCEPT ![m] = [warp[m] EXCEPT !.at = "claim"]]
    <3>1. <<>> \in Seq(Event) /\ 1 .. Len(<<>>) = {}
      OBVIOUS
    <3>2. [warp[m] EXCEPT !.at = "claim"] = [warp[m] EXCEPT !.at = "claim", !.batch = <<>>]
      BY <1>0 DEF Move
    <3> QED BY <2>2, <3>1, <3>2
  <2> QED BY <2>1, <2>2 DEF FinalHistory, Goes
<1>4. PICK b \in Seq(Event) :
        /\ warp' = [warp EXCEPT ![m] = [warp[m] EXCEPT !.at = "claim", !.batch = b]]
        /\ \A k \in 1 .. Len(b) : b[k] \in db[warp[m].previous].events
  BY <1>3
<1>5. PICK x : x = [warp[m] EXCEPT !.at = "claim", !.batch = b]
  OBVIOUS
<1>6. /\ x \in Move /\ x.at = "claim" /\ x.batch = b /\ x.previous = warp[m].previous
      /\ x.rows = warp[m].rows /\ x.sent = warp[m].sent /\ x.target = warp[m].target
  BY <1>0, <1>5 DEF Move
<1>7. InOrder(x, db')
  <2>1. LastHistory(x, db)
    BY <1>0, <1>4, <1>6 DEF LastHistory
  <2>2. RowsAreSent(x, db) /\ x.sent <= Len(x.rows)
    BY <1>0, <1>6 DEF InOrder, RowsAreSent
  <2>3. db[Control].seq[Session] # -1
    BY <1>0 DEF InOrder
  <2> QED BY <1>1, <1>6, <2>1, <2>2, <2>3 DEF InOrder
<1>8. loop' \in [Node -> Loop] /\ warp[m].at \notin HasClaimed
  BY <1>0, <1>1 DEF IInv, HasClaimed
<1> QED BY <1>1, <1>2, <1>4, <1>5, <1>7, <1>8, RequestSteps

\* What the last history replays is in the previous workspace's log.
LEMMA LastArrival ==
  ASSUME IInv, NEW m \in Warp, FinalReplay(m)
  PROVE  LET e == Head(warp[m].batch)
             w == warp[m].previous IN
           /\ w \in Remote /\ e \in db[w].events /\ ReplayAtControl(e, w)
           /\ \/ Over(m)
              \/ \E rest \in Seq(Event) :
                   /\ warp' = [warp EXCEPT ![m] = [warp[m] EXCEPT !.batch = rest]]
                   /\ \A k \in 1 .. Len(rest) : rest[k] \in db[w].events
<1> DEFINE e == Head(warp[m].batch)
           rest == Tail(warp[m].batch)
           w == warp[m].previous
<1>0. /\ warp[m].batch # <<>> /\ warp[m].batch \in Seq(Event) /\ w \in Remote
      /\ \A k \in 1 .. Len(warp[m].batch) : warp[m].batch[k] \in db[w].events
  BY DEF IInv, RequestsInOrder, InOrder, LastHistory, FinalReplay, Move
<1>1. Len(warp[m].batch) \in Nat /\ Len(warp[m].batch) # 0
  BY <1>0
<1>2. /\ e = warp[m].batch[1] /\ rest \in Seq(Event) /\ Len(rest) = Len(warp[m].batch) - 1
      /\ \A k \in 1 .. Len(rest) : rest[k] = warp[m].batch[k + 1]
  BY <1>0, <1>1, HeadTailProperties
<1>3. /\ ReplayAtControl(e, w)
      /\ Over(m) \/ warp' = [warp EXCEPT ![m] = [warp[m] EXCEPT !.batch = rest]]
  BY DEF FinalReplay
<1> HIDE DEF e, rest
<1>4. e \in db[w].events /\ \A k \in 1 .. Len(rest) : rest[k] \in db[w].events
  BY <1>0, <1>1, <1>2
<1> QED BY <1>0, <1>2, <1>3, <1>4 DEF e

\* An event of the last history is replayed.
LEMMA FinalReplayKeeps ==
  ASSUME IInv, NEW m \in Warp, FinalReplay(m)
  PROVE  IInv'
<1>0. /\ Logs /\ warp[m] \in Move /\ warp[m].at = "claim" /\ InOrder(warp[m], db)
      /\ link \in [Remote -> Link] /\ \A v \in Remote : Fits(link[v], db[v].events)
      /\ Control \in Node /\ Remote \subseteq Node
  BY DEF IInv, Logs, LinksFit, RequestsInOrder, FinalReplay, Node
<1>1. PICK e, w : /\ w \in Remote /\ w = warp[m].previous
                  /\ e \in db[w].events /\ ReplayAtControl(e, w)
                  /\ \/ Over(m)
                     \/ \E rest \in Seq(Event) :
                          /\ warp' = [warp EXCEPT ![m] = [warp[m] EXCEPT !.batch = rest]]
                          /\ \A k \in 1 .. Len(rest) : rest[k] \in db[w].events
  BY LastArrival
<1>2. /\ db' = [db EXCEPT ![Control] = Replayed(db[Control], e, w, FALSE)]
      /\ UNCHANGED <<link, loop, claimed, budget>>
  BY <1>1 DEF FinalReplay, ReplayAtControl
<1>3. Logs' /\ Grows /\ OwnerKept
  BY <1>0, <1>1, <1>2, ReplayKeepsLogs
<1>4. CASE Over(m)
  BY <1>2, <1>3, <1>4, RequestEnds
<1>5. CASE \E rest \in Seq(Event) :
             /\ warp' = [warp EXCEPT ![m] = [warp[m] EXCEPT !.batch = rest]]
             /\ \A k \in 1 .. Len(rest) : rest[k] \in db[w].events
  <2>1. PICK rest \in Seq(Event) :
          /\ warp' = [warp EXCEPT ![m] = [warp[m] EXCEPT !.batch = rest]]
          /\ \A k \in 1 .. Len(rest) : rest[k] \in db[w].events
    BY <1>5
  <2>2. PICK x : x = [warp[m] EXCEPT !.batch = rest]
    OBVIOUS
  <2>3. /\ x \in Move /\ x.at = "claim" /\ x.batch = rest /\ x.previous = warp[m].previous
        /\ x.rows = warp[m].rows /\ x.sent = warp[m].sent /\ x.target = warp[m].target
    BY <1>0, <2>1, <2>2 DEF Move
  <2>4. InOrder(x, db)
    <3>1. LastHistory(x, db)
      BY <1>1, <2>1, <2>3 DEF LastHistory
    <3> QED BY <1>0, <2>3, <3>1 DEF InOrder, RowsAreSent
  <2>5. InOrder(x, db')
    <3>1. db[Control].seq[Session] \in Nat \cup {-1}
      BY <1>0, LogOf DEF Logs
    <3> QED BY <1>3, <2>4, <3>1, StillInOrder DEF Grows
  <2>6. loop' \in [Node -> Loop] /\ warp[m].at \notin HasClaimed
    BY <1>0, <1>2 DEF IInv, HasClaimed
  <2> QED BY <1>2, <1>3, <2>1, <2>2, <2>5, <2>6, RequestSteps
<1> QED BY <1>1, <1>4, <1>5

\* The claim shuts the previous workspace out, whatever owner there was before.
LEMMA ClaimKeeps ==
  ASSUME IInv, NEW m \in Warp, Claim(m)
  PROVE  IInv'
<1> DEFINE by == IF warp[m].target = None THEN Project ELSE warp[m].target
           g == Claimed(db[Control], Session, by)
<1>0. /\ Logs /\ StoresAreSound /\ RequestsInOrder /\ warp \in [Warp -> Move]
      /\ warp[m] \in Move /\ warp[m].at = "claim" /\ warp[m].batch = <<>>
      /\ InOrder(warp[m], db) /\ Exists(Control) /\ Control \in Node /\ Session \in Aggregate
      /\ db[Control] \in Store /\ Contiguous(db[Control]) /\ UniqueIds(db[Control])
      /\ link \in [Remote -> Link] /\ \A v \in Remote : Fits(link[v], db[v].events)
  BY SessionIsAggregate
     DEF IInv, Logs, LinksFit, StoresAreSound, RequestsInOrder, InOrder, Claim, Exists, Node
<1>1. by \in Owner /\ by # None /\ \A w \in Remote : warp[m].target # w => by # w
  BY <1>0, OwnersAssumption, NoneIsNoOwner DEF Move
<1>2. /\ db' = [db EXCEPT ![Control] = g]
      /\ warp' = [warp EXCEPT ![m] = [warp[m] EXCEPT !.at = "patch"]]
      /\ UNCHANGED <<link, loop, budget>> /\ claimed' = m
  BY DEF Claim, Goes
<1> HIDE DEF by
<1>3. /\ g \in Store /\ g.seq = db[Control].seq /\ g.events = db[Control].events
      /\ Contiguous(g) /\ UniqueIds(g)
  BY <1>0, <1>1, ClaimedFields, SameRows
<1>4. g.owner[Session] = by
  BY <1>0, <1>1 DEF g, Claimed, Store, Exists
<1> HIDE DEF g
<1>5. StoresAreSound' /\ \A n \in Node : db'[n] = IF n = Control THEN g ELSE db[n]
  BY <1>0, <1>2, <1>3, OneStoreChanges DEF StoresAreSound
<1>6. \A n \in Node : db'[n].events = db[n].events /\ db'[n].seq = db[n].seq
  BY <1>3, <1>5
<1>7. Logs'
  <2>1. LinksFit'
    BY <1>0, <1>2, <1>6 DEF LinksFit, Node
  <2>2. IdsToCome' /\ SharedIsControls'
    BY <1>0, <1>2, <1>6 DEF Logs, IdsToCome, SharedIsControls, Node
  <2> QED BY <1>0, <1>2, <1>5, <2>1, <2>2 DEF Logs
<1>8. PICK x : x = [warp[m] EXCEPT !.at = "patch"]
  OBVIOUS
<1>9. /\ x \in Move /\ x.at = "patch" /\ x.batch = <<>> /\ x.previous = warp[m].previous
      /\ x.rows = warp[m].rows /\ x.sent = warp[m].sent /\ x.target = warp[m].target
  BY <1>0, <1>8 DEF Move
<1>10. /\ warp' \in [Warp -> Move]
       /\ \A k \in Warp : warp'[k] = IF k = m THEN x ELSE warp[k]
  BY <1>0, <1>2, <1>8, <1>9
<1>11. RequestsInOrder'
  <2>1. InOrder(x, db)
    <3>1. 1 .. Len(<<>>) = {}
      OBVIOUS
    <3> QED BY <1>0, <1>9, <3>1 DEF InOrder, LastHistory, RowsAreSent
  <2>2. \A k \in Warp : InOrder(warp'[k], db)
    BY <1>0, <1>10, <2>1 DEF RequestsInOrder
  <2>3. /\ db[Control].seq[Session] \in Nat \cup {-1}
        /\ \A n \in Node : /\ db[n].events \subseteq db'[n].events
                            /\ db[n].seq[Session] <= db'[n].seq[Session]
    <3>1. \A n \in Node : db[n].seq[Session] \in Nat \cup {-1}
      BY <1>0, LogOf
    <3> QED BY <1>0, <1>6, <3>1
  <2>4. \A k \in Warp : InOrder(warp'[k], db')
    BY <2>2, <2>3, StillInOrder
  <2> QED BY <1>10, <2>4 DEF RequestsInOrder, InOrder, LastHistory, RowsAreSent
<1>12. ClaimHolds'
  <2>1. ASSUME NEW w \in Remote, Left(w)' PROVE Foreign(db'[Control], Session, w)
    <3>1. warp[m].target # w
      BY <1>2, <1>9, <1>10, <2>1 DEF Left
    <3>2. db'[Control].owner[Session] = by
      BY <1>0, <1>4, <1>5
    <3> QED BY <1>1, <3>1, <3>2 DEF Foreign
  <2> QED BY <1>2, <1>9, <1>10, <2>1 DEF ClaimHolds, HasClaimed, Foreign
<1>13. loop' \in [Node -> Loop]
  BY <1>2 DEF IInv
<1> QED BY <1>7, <1>11, <1>12, <1>13 DEF IInv

\* The control server sets the workspace, and the request is over.
LEMMA SetKeeps ==
  ASSUME IInv, NEW m \in Warp, SetLocalWorkspace(m) \/ SetRemoteWorkspace(m)
  PROVE  IInv'
<1>0. Logs /\ warp[m] \in Move /\ Control \in Node
  BY DEF IInv, RequestsInOrder, Node
<1>1. Publish(Control, warp[m].target) /\ Over(m) /\ UNCHANGED <<loop, claimed>>
  BY DEF SetLocalWorkspace, SetRemoteWorkspace
<1>2. warp[m].target \in Data
  BY <1>0, OwnersAssumption DEF Move
<1>3. Logs' /\ Grows /\ OwnerKept
  BY <1>0, <1>1, <1>2, PublishKeepsLogs
<1> QED BY <1>1, <1>3, RequestEnds

\* The target takes the Session over: it holds all that was sent.
LEMMA StealKeeps ==
  ASSUME IInv, NEW m \in Warp, Steal(m)
  PROVE  IInv'
<1>0. /\ Logs /\ warp[m] \in Move /\ InOrder(warp[m], db) /\ warp[m].at = "send"
      /\ warp[m].sent = Len(warp[m].rows) /\ warp[m].target \in Remote
      /\ warp[m].target \in Node /\ Control \in Node /\ warp[m].batch = <<>>
  BY DEF IInv, RequestsInOrder, InOrder, LastHistory, RowsAreSent, Steal, Node
<1>1. /\ Publish(warp[m].target, warp[m].target) /\ UNCHANGED <<loop, claimed>>
      /\ warp' = [warp EXCEPT ![m] = [warp[m] EXCEPT !.at = "set"]]
  BY DEF Steal, Goes
<1>2. Logs' /\ Grows /\ OwnerKept
  BY <1>0, <1>1, OwnersAssumption, PublishKeepsLogs
<1>3. PICK x : x = [warp[m] EXCEPT !.at = "set"]
  OBVIOUS
<1>4. /\ x \in Move /\ x.at = "set" /\ x.batch = <<>> /\ x.previous = warp[m].previous
      /\ x.rows = warp[m].rows /\ x.sent = warp[m].sent /\ x.target = warp[m].target
  BY <1>0, <1>3 DEF Move
<1>5. InOrder(x, db)
  <2>1. 1 .. Len(<<>>) = {}
    OBVIOUS
  <2> QED BY <1>0, <1>4, <2>1 DEF InOrder, LastHistory, RowsAreSent
<1>6. InOrder(x, db')
  <2>1. db[Control].seq[Session] \in Nat \cup {-1}
    BY <1>0, LogOf DEF Logs
  <2> QED BY <1>2, <1>5, <2>1, StillInOrder DEF Grows
<1>7. loop' \in [Node -> Loop] /\ x.at \in HasClaimed
  BY <1>1, <1>4 DEF IInv, HasClaimed
<1> QED BY <1>1, <1>2, <1>3, <1>4, <1>6, <1>7, RequestSteps

\* The rows to send are read.
LEMMA ReadRowsKeeps ==
  ASSUME IInv, NEW m \in Warp, ReadRows(m)
  PROVE  IInv'
<1>0. /\ Logs /\ StoresAreSound /\ budget \in Budget /\ warp[m] \in Move
      /\ InOrder(warp[m], db) /\ warp[m].at = "patch" /\ warp[m].target \in Remote
      /\ Control \in Node /\ warp[m].batch = <<>> /\ warp[m].sent = 0
  BY DEF IInv, Logs, RequestsInOrder, InOrder, LastHistory, RowsAreSent, ReadRows, Node
<1>1. PICK r : r = RowsAfter(Control, -1)
  OBVIOUS
<1>2. /\ UNCHANGED <<db, link, loop, claimed, budget>>
      /\ Over(m) \/ warp' = [warp EXCEPT ![m] = [warp[m] EXCEPT !.at = "send", !.rows = r]]
  BY <1>1 DEF ReadRows
<1>3. r \in Seq(Event) /\ Len(r) \in Nat /\ \A k \in 1 .. Len(r) : r[k] \in db[Control].events
  BY <1>0, <1>1, RowsOf
<1>4. Logs' /\ Grows /\ OwnerKept
  BY <1>0, <1>2, QuietKeepsLogs
<1>5. CASE Over(m)
  BY <1>2, <1>4, <1>5, RequestEnds
<1>6. CASE warp' = [warp EXCEPT ![m] = [warp[m] EXCEPT !.at = "send", !.rows = r]]
  <2>1. PICK x : x = [warp[m] EXCEPT !.at = "send", !.rows = r]
    OBVIOUS
  <2>2. /\ x \in Move /\ x.at = "send" /\ x.batch = <<>> /\ x.previous = warp[m].previous
        /\ x.rows = r /\ x.sent = 0 /\ x.target = warp[m].target
    BY <1>0, <1>3, <2>1 DEF Move
  <2>3. InOrder(x, db')
    <3>1. 1 .. Len(<<>>) = {} /\ 1 .. 0 = {}
      OBVIOUS
    <3>2. RowsAreSent(x, db) /\ x.sent <= Len(x.rows)
      BY <1>0, <1>3, <2>2, <3>1 DEF RowsAreSent
    <3> QED BY <1>2, <2>2, <3>1, <3>2 DEF InOrder, LastHistory
  <2>4. loop' \in [Node -> Loop] /\ x.at \in HasClaimed
    BY <1>2, <2>2 DEF IInv, HasClaimed
  <2> QED BY <1>2, <1>4, <1>6, <2>1, <2>2, <2>3, <2>4, RequestSteps
<1> QED BY <1>2, <1>5, <1>6

\* A row is sent; the target takes it, or the request ends.
LEMMA SendKeeps ==
  ASSUME IInv, NEW m \in Warp, SendRow(m)
  PROVE  IInv'
<1>0. /\ Logs /\ warp[m] \in Move /\ InOrder(warp[m], db) /\ warp[m].at = "send"
      /\ warp[m].target \in Remote /\ warp[m].target \in Node /\ Control \in Node
      /\ warp[m].batch = <<>> /\ warp[m].sent \in Nat /\ warp[m].rows \in Seq(Event)
      /\ Len(warp[m].rows) \in Nat /\ warp[m].sent < Len(warp[m].rows)
      /\ link \in [Remote -> Link] /\ \A v \in Remote : Fits(link[v], db[v].events)
  BY DEF IInv, Logs, LinksFit, RequestsInOrder, InOrder, LastHistory, RowsAreSent, SendRow,
         Sending, Node, Move
<1>1. PICK t, k, e : t = warp[m].target /\ k = warp[m].sent + 1 /\ e = warp[m].rows[k]
  OBVIOUS
<1>2. /\ UNCHANGED <<link, loop, claimed, budget>>
      /\ db' = [db EXCEPT ![t] = Replayed(db[t], e, t, TRUE)]
      /\ \/ Over(m)
         \/ /\ warp' = [warp EXCEPT ![m] = [warp[m] EXCEPT !.sent = k]]
            /\ ReplayOutcome(db[t], e, t, TRUE) # "refused"
  BY <1>1 DEF SendRow, NextRow
<1>3. k \in 1 .. Len(warp[m].rows) /\ k <= Len(warp[m].rows) /\ k \in Nat
  BY <1>0, <1>1
<1>4. e \in db[Control].events
  BY <1>0, <1>1, <1>3 DEF InOrder, RowsAreSent
<1>5. /\ Logs' /\ Grows /\ OwnerKept
      /\ ReplayOutcome(db[t], e, t, TRUE) # "refused" => e \in db'[t].events
  BY <1>0, <1>1, <1>2, <1>4, ReplayKeepsLogs
<1>6. CASE Over(m)
  BY <1>2, <1>5, <1>6, RequestEnds
<1>7. CASE /\ warp' = [warp EXCEPT ![m] = [warp[m] EXCEPT !.sent = k]]
           /\ ReplayOutcome(db[t], e, t, TRUE) # "refused"
  <2>1. PICK x : x = [warp[m] EXCEPT !.sent = k]
    OBVIOUS
  <2>2. /\ x \in Move /\ x.at = "send" /\ x.batch = <<>> /\ x.previous = warp[m].previous
        /\ x.rows = warp[m].rows /\ x.sent = k /\ x.target = t
    BY <1>0, <1>1, <1>3, <2>1 DEF Move
  <2>3. \A i \in 1 .. k : warp[m].rows[i] \in db'[t].events
    <3>1. ASSUME NEW i \in 1 .. k PROVE warp[m].rows[i] \in db'[t].events
      <4>1. CASE i = k
        BY <1>1, <1>5, <1>7, <4>1
      <4>2. CASE i # k
        <5>1. i \in 1 .. warp[m].sent
          BY <1>0, <1>1, <4>2
        <5>2. warp[m].rows[i] \in db[t].events
          BY <1>0, <1>1, <5>1 DEF InOrder, RowsAreSent
        <5> QED BY <1>0, <1>1, <1>5, <5>2 DEF Grows
      <4> QED BY <4>1, <4>2
    <3> QED BY <3>1
  <2>4. InOrder(x, db')
    <3>1. \A i \in 1 .. Len(warp[m].rows) : warp[m].rows[i] \in db'[Control].events
      BY <1>0, <1>5 DEF InOrder, RowsAreSent, Grows
    <3>2. RowsAreSent(x, db') /\ x.sent <= Len(x.rows)
      BY <1>0, <1>1, <1>3, <2>2, <2>3, <3>1 DEF RowsAreSent
    <3>3. 1 .. Len(<<>>) = {}
      OBVIOUS
    <3> QED BY <2>2, <3>2, <3>3 DEF InOrder, LastHistory
  <2>5. loop' \in [Node -> Loop] /\ x.at \in HasClaimed
    BY <1>2, <2>2 DEF IInv, HasClaimed
  <2> QED BY <1>1, <1>2, <1>5, <1>7, <2>1, <2>2, <2>4, <2>5, RequestSteps
<1> QED BY <1>2, <1>6, <1>7

\* The request is given up.
LEMMA FailureKeeps ==
  ASSUME IInv, NEW m \in Warp, WarpFails(m)
  PROVE  IInv'
<1>0. Logs /\ budget \in Budget
  BY DEF IInv, Logs
<1>1. UNCHANGED <<db, link, loop, claimed>> /\ Spend("fault") /\ Over(m)
  BY DEF WarpFails
<1>2. Logs' /\ Grows /\ OwnerKept
  BY <1>0, <1>1, Spending, QuietKeepsLogs
<1> QED BY <1>1, <1>2, RequestEnds

\* No step does harm.
LEMMA NextKeepsIInv ==
  IInv /\ [Next]_vars => IInv'
<1> SUFFICES ASSUME IInv, [Next]_vars PROVE IInv'
  OBVIOUS
<1>1. CASE UNCHANGED vars
  <2>1. UNCHANGED <<db, link, loop, moves, budget>>
    BY <1>1 DEF vars, moves
  <2>2. Logs' /\ Grows /\ OwnerKept
    BY <2>1, QuietKeepsLogs DEF IInv, Logs
  <2> QED BY <2>1, <2>2, NoRequestSteps DEF IInv
<1>2. ASSUME NEW n \in Node,
             StartLoop(n) \/ WriteMessage(n) \/ ReadForPatch(n) \/ PublishPatch(n)
      PROVE  IInv'
  BY <1>2, LoopKeeps
<1>3. ASSUME NEW w \in Remote, StartSync(w) \/ ConnectFails(w) \/ StreamEnds(w) \/ Sync(w)
      PROVE  IInv'
  BY <1>3, ConnectionKeeps, ArrivalKeeps DEF Sync
<1>4. ASSUME NEW m \in Warp, NEW target \in Data \ {Message}, StartWarp(m, target) PROVE IInv'
  BY <1>4, StartKeeps
<1>5. ASSUME NEW m \in Warp, Warping(m) PROVE IInv'
  BY <1>5, FinalHistoryKeeps, FinalReplayKeeps, ClaimKeeps, SetKeeps, ReadRowsKeeps, SendKeeps,
     StealKeeps, FailureKeeps DEF Warping
<1> QED BY <1>1, <1>2, <1>3, <1>4, <1>5 DEF Next

-------------------------------------------------------------------------------
(* Theorems *)

\* In every behaviour the logs are sound and every request is what the steps of
\* sessionWarp have made of it, however many of them overlap.
THEOREM InvHolds == Safe => []IInv
<1> QED BY InitIInv, NextKeepsIInv, PTL DEF Safe

\* Every server's tables stay in step, and so do the connections' states (workspace.ts).
THEOREM TypeCorrect == Safe => []TypeOK
<1>1. IInv => TypeOK
  BY DEF IInv, Logs, RequestsInOrder, InOrder, ClaimHolds, StoresAreSound, LinksFit, Fits, TypeOK
<1> QED BY <1>1, InvHolds, PTL

\* What counts as sent the target holds, and it takes a Session over only with all of it
\* (workspace.ts:667-699), whatever other requests do meanwhile.
THEOREM TargetIsComplete == Safe => []TargetHoldsTheLog
<1>1. IInv => TargetHoldsTheLog
  <2> SUFFICES ASSUME IInv, NEW m \in Warp
               PROVE  /\ \A k \in 1 .. warp[m].sent :
                           warp[m].rows[k] \in db[warp[m].target].events
                      /\ warp[m].at = "set" => warp[m].sent = Len(warp[m].rows)
    BY DEF TargetHoldsTheLog
  <2>1. RowsAreSent(warp[m], db)
    BY DEF IInv, RequestsInOrder, InOrder
  <2>2. CASE warp[m].at \in {"send", "set"}
    BY <2>1, <2>2 DEF RowsAreSent
  <2>3. CASE warp[m].at \notin {"send", "set"}
    <3>1. 1 .. 0 = {}
      OBVIOUS
    <3> QED BY <2>1, <2>3, <3>1 DEF RowsAreSent
  <2> QED BY <2>2, <2>3
<1> QED BY <1>1, InvHolds, PTL

\* Until the next claim nothing that the old workspace's log holds enters the control
\* server's, whatever the stream, a late history or this or another request replays
\* (workspace.ts:587-591).
THEOREM OldWorkspaceShutOut == Safe => OldWorkspaceIsShutOut
<1>1. ASSUME IInv, [Next]_vars, NEW w \in Remote, Left(w),
             NEW e \in db'[Control].events \ db[Control].events
      PROVE  e \notin db[w].events
  <2>0. /\ Logs /\ StoresAreSound /\ Control \in Node /\ w \in Node
        /\ Foreign(db[Control], Session, w) /\ Control \notin Remote
        /\ db \in [Node -> Store] /\ link \in [Remote -> Link]
        /\ \A v \in Remote : Fits(link[v], db[v].events)
        /\ warp \in [Warp -> Move] /\ loop \in [Node -> Loop]
    BY <1>1, OriginAssumption
       DEF IInv, Logs, LinksFit, StoresAreSound, RequestsInOrder, ClaimHolds, Node
  <2>1. ~ UNCHANGED db
    BY <1>1
  <2>2. ASSUME NEW n \in Node, NEW data \in Data, Publish(n, data) PROVE e \notin db[w].events
    BY <1>1, <2>0, <2>2, PublishKeepsLogs
  <2>3. ASSUME NEW n \in Node, WriteMessage(n) \/ PublishPatch(n) PROVE e \notin db[w].events
    <3>1. Publish(n, Message) \/ Publish(n, loop[n].read)
      BY <2>3 DEF WriteMessage, PublishPatch
    <3>2. Message \in Data /\ loop[n].read \in Data
      BY <2>0, OwnersAssumption DEF Loop
    <3> QED BY <2>2, <3>1, <3>2
  <2>4. ASSUME NEW v \in Remote, NEW f \in db[v].events, ReplayAtControl(f, v),
               link' \in [Remote -> Link], \A u \in Remote : Fits(link'[u], db[u].events),
               UNCHANGED budget
        PROVE  e \notin db[w].events
    <3>1. db' = [db EXCEPT ![Control] = Replayed(db[Control], f, v, FALSE)] /\ v \in Node
      BY <2>4 DEF ReplayAtControl, Node
    <3>2. /\ db'[Control].events \subseteq db[Control].events \cup {f}
          /\ Foreign(db[Control], Session, v) => db'[Control].events = db[Control].events
      BY <2>0, <2>4, <3>1, ReplayKeepsLogs
    <3>3. e = f /\ v # w
      BY <1>1, <2>0, <3>2
    <3> QED BY <1>1, <2>0, <3>3 DEF Logs, SharedIsControls
  <2>5. ASSUME NEW v \in Remote, ApplyHistory(v) \/ Deliver(v) PROVE e \notin db[w].events
    <3>1. \E f \in db[v].events, l \in Link :
            ReplayAtControl(f, v) /\ SetLink(v, l) /\ Fits(l, db[v].events)
      BY <1>1, <2>5, Arrival DEF IInv, Logs
    <3>2. PICK f \in db[v].events, l \in Link :
            ReplayAtControl(f, v) /\ SetLink(v, l) /\ Fits(l, db[v].events)
      BY <3>1
    <3>3. link' = [link EXCEPT ![v] = l] /\ UNCHANGED budget
      BY <2>5, <3>2 DEF SetLink, ApplyHistory, Deliver
    <3>4. link' \in [Remote -> Link] /\ \A u \in Remote : Fits(link'[u], db[u].events)
      BY <2>0, <3>2, <3>3
    <3> QED BY <2>4, <3>2, <3>3, <3>4
  <2>6. ASSUME NEW m \in Warp, FinalReplay(m) PROVE e \notin db[w].events
    <3>1. PICK f, v : v \in Remote /\ f \in db[v].events /\ ReplayAtControl(f, v)
      BY <1>1, <2>6, LastArrival
    <3>2. UNCHANGED <<link, budget>>
      BY <2>6 DEF FinalReplay
    <3> QED BY <2>0, <2>4, <3>1, <3>2
  <2>7. ASSUME NEW m \in Warp, SetLocalWorkspace(m) \/ SetRemoteWorkspace(m) \/ Steal(m)
        PROVE  e \notin db[w].events
    <3>1. warp[m].target \in Data
      BY <2>0, OwnersAssumption DEF Move
    <3>2. \/ Publish(Control, warp[m].target)
          \/ Publish(warp[m].target, warp[m].target) /\ warp[m].target \in Remote
      BY <1>1, <2>7
         DEF SetLocalWorkspace, SetRemoteWorkspace, Steal, IInv, RequestsInOrder, InOrder,
             RowsAreSent
    <3> QED BY <2>0, <2>2, <3>1, <3>2 DEF Node
  <2>8. ASSUME NEW m \in Warp, SendRow(m) PROVE FALSE
    <3>1. warp[m].target \in Remote
      BY <1>1, <2>8 DEF SendRow, Sending, IInv, RequestsInOrder, InOrder, RowsAreSent
    <3>2. db'[Control] = db[Control]
      BY <2>0, <2>8, <3>1 DEF SendRow
    <3> QED BY <1>1, <3>2
  <2>9. ASSUME NEW m \in Warp, Claim(m) PROVE FALSE
    <3>1. PICK by : db' = [db EXCEPT ![Control] = Claimed(db[Control], Session, by)]
      BY <2>9 DEF Claim
    <3>2. db'[Control].events = db[Control].events
      BY <2>0, <3>1 DEF Claimed, Store
    <3> QED BY <1>1, <3>2
  <2>10. \/ \E n \in Node : WriteMessage(n) \/ PublishPatch(n)
         \/ \E v \in Remote : ApplyHistory(v) \/ Deliver(v)
         \/ \E m \in Warp : FinalReplay(m) \/ SetLocalWorkspace(m) \/ SetRemoteWorkspace(m) \/ Steal(m)
    BY <1>1, <2>1, <2>8, <2>9
       DEF Next, vars, Sync, StartLoop, ReadForPatch, StartSync, Connect, AskHistory, ConnectFails,
           Listen, StreamEnds, Reconnect, Warping, StartWarp, FinalHistory, ReadRows, WarpFails
  <2> QED BY <2>3, <2>5, <2>6, <2>7, <2>10
<1>2. IInv /\ [Next]_vars =>
        [\A w \in Remote : Left(w) =>
           \A e \in db'[Control].events \ db[Control].events : e \notin db[w].events]_vars
  BY <1>1
<1> QED BY <1>2, InvHolds, PTL DEF Safe, OldWorkspaceIsShutOut
===============================================================================
