------------------------ MODULE EvidenceTrailProofs ------------------------
(***************************************************************************)
(* The evidence trail is right for any number of calls, dimensions, turns, *)
(* crashes and anchors: no bound of the TLC runs is used.                  *)
(***************************************************************************)
EXTENDS EvidenceTrail, FunctionTheorems, FiniteSetTheorems, SequenceTheorems, TLAPS

----------------------------------------------------------------------------
(* Ranks in a finite ordered set *)

\* R orders the elements of A.
Orders(R, A) ==
    /\ \A a \in A : <<a, a>> \notin R
    /\ \A a, b, c \in A : <<a, b>> \in R /\ <<b, c>> \in R => <<a, c>> \in R
    /\ \A a, b \in A : a # b => <<a, b>> \in R \/ <<b, a>> \in R

\* How many elements of A come before a.
RankIn(R, A, a) == Cardinality({b \in A : <<b, a>> \in R})

\* The number of smaller elements numbers them from 0 without a gap, because it is
\* a smaller one for a smaller element and less than the number of all.
LEMMA RankIsBijection ==
    ASSUME NEW A, IsFiniteSet(A), NEW R, Orders(R, A)
    PROVE  /\ Cardinality(A) \in Nat
           /\ [a \in A |-> RankIn(R, A, a)] \in Bijection(A, 0 .. Cardinality(A) - 1)
           /\ \A a, b \in A : <<a, b>> \in R <=> RankIn(R, A, a) < RankIn(R, A, b)
<1> DEFINE before(a) == {b \in A : <<b, a>> \in R}
           r == [a \in A |-> RankIn(R, A, a)]
           N == Cardinality(A)
<1>1. N \in Nat
  BY FS_CardinalityType
<1>2. ASSUME NEW a \in A
      PROVE  /\ IsFiniteSet(before(a))
             /\ RankIn(R, A, a) \in 0 .. N - 1 /\ RankIn(R, A, a) \in Nat
             /\ RankIn(R, A, a) = Cardinality(before(a))
  <2>1. before(a) \in SUBSET A /\ a \notin before(a)
    BY DEF Orders
  <2>2. RankIn(R, A, a) = Cardinality(before(a))
    BY DEF RankIn
  <2> HIDE DEF before
  <2>3. /\ IsFiniteSet(before(a)) /\ Cardinality(before(a)) <= N
        /\ Cardinality(before(a)) # N
    BY <2>1, FS_Subset
  <2>4. Cardinality(before(a)) \in Nat
    BY <2>3, FS_CardinalityType
  <2> QED BY <1>1, <2>2, <2>3, <2>4
<1>3. ASSUME NEW a \in A, NEW b \in A, <<a, b>> \in R
      PROVE  RankIn(R, A, a) < RankIn(R, A, b)
  <2>1. before(a) \in SUBSET before(b) /\ a \in before(b) /\ a \notin before(a)
    BY <1>3 DEF Orders
  <2>2. IsFiniteSet(before(b)) /\ RankIn(R, A, b) = Cardinality(before(b))
        /\ RankIn(R, A, a) = Cardinality(before(a))
        /\ RankIn(R, A, a) \in Nat /\ RankIn(R, A, b) \in Nat
    BY <1>2
  <2> HIDE DEF before
  <2>3. Cardinality(before(a)) <= Cardinality(before(b))
        /\ Cardinality(before(a)) # Cardinality(before(b))
    BY <2>1, <2>2, FS_Subset
  <2> QED BY <2>2, <2>3
<1>4. \A a, b \in A : <<a, b>> \in R <=> RankIn(R, A, a) < RankIn(R, A, b)
  <2>1. \A a \in A : RankIn(R, A, a) \in Nat
    BY <1>2
  <2>2. ASSUME NEW a \in A, NEW b \in A, <<a, b>> \notin R
        PROVE  ~(RankIn(R, A, a) < RankIn(R, A, b))
    <3>1. CASE a = b
      BY <2>1, <3>1
    <3>2. CASE <<b, a>> \in R
      BY <2>1, <1>3, <3>2
    <3> QED BY <2>2, <3>1, <3>2 DEF Orders
  <2> QED BY <1>3, <2>2
<1>5. r \in [A -> 0 .. N - 1]
  BY <1>2
<1>6. \A a, b \in A : r[a] = r[b] => a = b
  <2> SUFFICES ASSUME NEW a \in A, NEW b \in A, r[a] = r[b], a # b PROVE FALSE
    OBVIOUS
  <2>1. <<a, b>> \in R \/ <<b, a>> \in R
    BY DEF Orders
  <2>2. RankIn(R, A, a) = RankIn(R, A, b) /\ RankIn(R, A, a) \in Nat /\ RankIn(R, A, b) \in Nat
    BY <1>2
  <2> QED BY <1>3, <2>1, <2>2
<1>7. r \in Injection(A, 0 .. N - 1)
  <2> HIDE DEF r
  <2> QED BY <1>5, <1>6 DEF Injection, IsInjective
<1>8. IsFiniteSet(0 .. N - 1) /\ Cardinality(0 .. N - 1) = N
  BY <1>1, FS_Interval
<1>9. r \in Surjection(A, 0 .. N - 1)
  <2> HIDE DEF r
  <2> QED BY <1>7, <1>8, FS_Injection
<1>10. r \in Bijection(A, 0 .. N - 1)
  BY <1>7, <1>9 DEF Bijection
<1> QED BY <1>1, <1>4, <1>10

\* The M last ones are as many as there are, but no more than M.
LEMMA LastOnes ==
    ASSUME NEW A, IsFiniteSet(A), NEW R, Orders(R, A), NEW M \in Nat
    PROVE  LET last == {a \in A : Cardinality({b \in A : <<a, b>> \in R}) < M} IN
           /\ Cardinality(last) = IF Cardinality(A) <= M THEN Cardinality(A) ELSE M
           /\ \A a \in last, b \in A \ last : <<b, a>> \in R
<1> DEFINE S == {p \in A \X A : <<p[2], p[1]>> \in R}
           N == Cardinality(A)
           r == [a \in A |-> RankIn(S, A, a)]
           last == {a \in A : Cardinality({b \in A : <<a, b>> \in R}) < M}
           low == {n \in 0 .. N - 1 : n < M}
<1>1. Orders(S, A) /\ \A a, b \in A : <<a, b>> \in S <=> <<b, a>> \in R
  BY DEF Orders
<1>2. \A a \in A : RankIn(S, A, a) = Cardinality({b \in A : <<a, b>> \in R})
  <2> SUFFICES ASSUME NEW a \in A
               PROVE  {b \in A : <<b, a>> \in S} = {b \in A : <<a, b>> \in R}
    BY DEF RankIn
  <2> QED BY <1>1
<1> HIDE DEF S
<1>3. /\ N \in Nat /\ r \in Bijection(A, 0 .. N - 1)
      /\ \A a, b \in A : <<a, b>> \in S <=> RankIn(S, A, a) < RankIn(S, A, b)
  BY <1>1, RankIsBijection
<1>4. last = {a \in A : r[a] < M}
  BY <1>2
<1>5. /\ r \in [A -> 0 .. N - 1]
      /\ \A a, b \in A : r[a] = r[b] => a = b
      /\ \A n \in 0 .. N - 1 : \E a \in A : r[a] = n
  <2>1. r \in Bijection(A, 0 .. N - 1)
    BY <1>3
  <2> HIDE DEF r, N
  <2>2. r \in [A -> 0 .. N - 1] /\ \A a, b \in A : r[a] = r[b] => a = b
    BY <2>1 DEF Bijection, Injection, IsInjective
  <2>3. \A n \in 0 .. N - 1 : \E a \in A : r[a] = n
    BY <2>1 DEF Bijection, Surjection
  <2> QED BY <2>2, <2>3
<1>6. \A a \in A : r[a] = RankIn(S, A, a)
  OBVIOUS
<1> HIDE DEF r, last
<1> DEFINE g == [a \in last |-> r[a]]
<1>7. g \in [last -> low]
  BY <1>3, <1>4, <1>5
<1>8. \A a, b \in last : g[a] = g[b] => a = b
  BY <1>4, <1>5
<1>9. \A n \in low : \E a \in last : g[a] = n
  BY <1>3, <1>4, <1>5
<1>10. g \in Bijection(last, low)
  <2> HIDE DEF g, low
  <2> QED BY <1>7, <1>8, <1>9, Fun_IsBij
<1>11. IsFiniteSet(last)
  BY <1>4, FS_Subset
<1>12. Cardinality(low) = Cardinality(last)
  BY <1>10, <1>11, FS_Bijection DEF ExistsBijection
<1>13. Cardinality(low) = IF N <= M THEN N ELSE M
  <2>1. CASE N <= M
    <3>1. low = 0 .. N - 1
      BY <1>3, <2>1
    <3>2. 0 \in Int /\ N - 1 \in Int
      BY <1>3
    <3>3. Cardinality(0 .. N - 1) = IF 0 > N - 1 THEN 0 ELSE N - 1 - 0 + 1
      BY <3>2, FS_Interval
    <3> HIDE DEF low, N
    <3>4. N \in Nat
      BY <1>3
    <3> QED BY <2>1, <3>1, <3>3, <3>4
  <2>2. CASE ~(N <= M)
    <3>1. low = 0 .. M - 1
      BY <1>3, <2>2
    <3>2. 0 \in Int /\ M - 1 \in Int
      OBVIOUS
    <3>3. Cardinality(0 .. M - 1) = IF 0 > M - 1 THEN 0 ELSE M - 1 - 0 + 1
      BY <3>2, FS_Interval
    <3> HIDE DEF low, N
    <3>4. N \in Nat
      BY <1>3
    <3> QED BY <2>2, <3>1, <3>3, <3>4
  <2> QED BY <2>1, <2>2
<1>14. ASSUME NEW a \in last, NEW b \in A \ last PROVE <<b, a>> \in R
  <2>1. a \in A /\ r[a] \in Nat /\ r[b] \in Nat /\ r[a] < M /\ ~(r[b] < M)
    BY <1>3, <1>4, <1>5
  <2>2. r[a] < r[b]
    BY <2>1
  <2> QED BY <1>1, <1>3, <1>6, <2>1, <2>2
<1> QED BY <1>12, <1>13, <1>14 DEF last

----------------------------------------------------------------------------
(* Parts in order *)

\* The calls that have a part.
Parts == ToSet(transcript)

\* The transcript holds finitely many calls, each at one place of its own.
Ordered == transcript \in Seq(Call) /\ IsInjective(transcript)

LEMMA PartsAreFinite ==
    ASSUME Ordered
    PROVE  IsFiniteSet(Parts)
<1>1. Len(transcript) \in Nat /\ DOMAIN transcript = 1 .. Len(transcript)
  BY DEF Ordered
<1>2. transcript \in Surjection(1 .. Len(transcript), Parts)
  BY <1>1 DEF Ordered, Parts, ToSet, Surjection
<1> QED BY <1>1, <1>2, FS_NatSurjection DEF ExistsSurjection

\* The places of parts order any set of calls that have one.
LEMMA OlderOrders ==
    ASSUME Ordered, NEW A, A \subseteq Parts
    PROVE  Orders({p \in A \X A : Older(p[1], p[2])}, A)
<1> DEFINE R == {p \in A \X A : Older(p[1], p[2])}
<1>1. DOMAIN transcript \subseteq Int
  BY DEF Ordered
<1>2. \A i, j \in DOMAIN transcript : transcript[i] = transcript[j] => i = j
  BY DEF Ordered, IsInjective
<1>3. \A a \in A : \E i \in DOMAIN transcript : transcript[i] = a
  BY DEF Parts, ToSet
<1>4. \A a \in A : ~Older(a, a)
  BY <1>1, <1>2 DEF Older
<1>5. \A a, b, c \in A : Older(a, b) /\ Older(b, c) => Older(a, c)
  BY <1>1, <1>2 DEF Older
<1>6. ASSUME NEW a \in A, NEW b \in A, a # b PROVE Older(a, b) \/ Older(b, a)
  <2>1. PICK i \in DOMAIN transcript : transcript[i] = a
    BY <1>3
  <2>2. PICK j \in DOMAIN transcript : transcript[j] = b
    BY <1>3
  <2>3. i < j \/ j < i
    BY <1>1, <1>6, <2>1, <2>2
  <2> QED BY <2>1, <2>2, <2>3 DEF Older
<1>7. \A a, b \in A : <<a, b>> \in R <=> Older(a, b)
  OBVIOUS
<1> HIDE DEF R
<1> QED BY <1>4, <1>5, <1>6, <1>7 DEF Orders, R

\* What InOrder makes of a set of calls: all of them, each once, the older first.
LEMMA InOrderOf ==
    ASSUME Ordered, NEW A, A \subseteq Parts
    PROVE  /\ IsFiniteSet(A)
           /\ InOrder(A) \in Seq(A)
           /\ Len(InOrder(A)) = Cardinality(A)
           /\ ToSet(InOrder(A)) = A
           /\ \A i, j \in DOMAIN InOrder(A) : i < j => Older(InOrder(A)[i], InOrder(A)[j])
<1> DEFINE R == {p \in A \X A : Older(p[1], p[2])}
           rank(c) == Cardinality({d \in A : Older(d, c)})
           N == Cardinality(A)
           r == [a \in A |-> RankIn(R, A, a)]
<1>1. IsFiniteSet(A)
  BY PartsAreFinite, FS_Subset
<1>2. \A c \in A : {d \in A : <<d, c>> \in R} = {d \in A : Older(d, c)}
  OBVIOUS
<1>3. \A c \in A : RankIn(R, A, c) = rank(c)
  BY <1>2 DEF RankIn
<1>4. \A a, b \in A : <<a, b>> \in R <=> Older(a, b)
  OBVIOUS
<1>5. /\ N \in Nat
      /\ r \in Bijection(A, 0 .. N - 1)
      /\ \A a, b \in A : <<a, b>> \in R <=> RankIn(R, A, a) < RankIn(R, A, b)
  <2>1. Orders(R, A)
    BY OlderOrders
  <2> HIDE DEF R
  <2> QED BY <1>1, <2>1, RankIsBijection
<1>6. \A a \in A : r[a] = rank(a) /\ rank(a) \in 0 .. N - 1
  <2>1. \A a \in A : r[a] = rank(a)
    BY <1>3
  <2> HIDE DEF r, N, rank
  <2>2. r \in [A -> 0 .. N - 1]
    BY <1>5 DEF Bijection, Injection
  <2> QED BY <2>1, <2>2
<1>7. \A a, b \in A : rank(a) = rank(b) => a = b
  <2> HIDE DEF r, N, rank
  <2>1. \A a, b \in A : r[a] = r[b] => a = b
    BY <1>5 DEF Bijection, Injection, IsInjective
  <2> QED BY <1>6, <2>1
<1>8. \A n \in 0 .. N - 1 : \E a \in A : rank(a) = n
  <2> HIDE DEF r, N, rank
  <2>1. \A n \in 0 .. N - 1 : \E a \in A : r[a] = n
    BY <1>5 DEF Bijection, Surjection
  <2> QED BY <1>6, <2>1
<1>9. \A a, b \in A : rank(a) < rank(b) => Older(a, b)
  <2> HIDE DEF R, rank
  <2> QED BY <1>3, <1>4, <1>5
<1> DEFINE pick(n) == CHOOSE c \in A : rank(c) = n - 1
<1>10. InOrder(A) = [n \in 1 .. N |-> pick(n)]
  BY DEF InOrder
<1> HIDE DEF N, rank, r, R
<1>11. ASSUME NEW n \in 1 .. N PROVE pick(n) \in A /\ rank(pick(n)) = n - 1
  <2>1. n - 1 \in 0 .. N - 1
    BY <1>5
  <2>2. \E c \in A : rank(c) = n - 1
    BY <1>8, <2>1
  <2> QED BY <2>2
<1> HIDE DEF pick
<1>12. InOrder(A) \in [1 .. N -> A]
  BY <1>10, <1>11
<1>13. InOrder(A) \in Seq(A) /\ Len(InOrder(A)) = N /\ DOMAIN InOrder(A) = 1 .. N
  BY <1>5, <1>12
<1>14. \A i, j \in 1 .. N : i < j => Older(InOrder(A)[i], InOrder(A)[j])
  <2> SUFFICES ASSUME NEW i \in 1 .. N, NEW j \in 1 .. N, i < j
               PROVE  Older(InOrder(A)[i], InOrder(A)[j])
    OBVIOUS
  <2>1. rank(pick(i)) < rank(pick(j)) /\ pick(i) \in A /\ pick(j) \in A
    BY <1>5, <1>11
  <2> QED BY <1>9, <1>10, <2>1
<1>15. ToSet(InOrder(A)) = A
  <2>1. ToSet(InOrder(A)) \subseteq A
    BY <1>12 DEF ToSet
  <2>2. ASSUME NEW a \in A PROVE \E n \in 1 .. N : InOrder(A)[n] = a
    <3>1. rank(a) + 1 \in 1 .. N
      BY <1>5, <1>6
    <3>2. PICK n \in 1 .. N : n - 1 = rank(a)
      BY <1>5, <1>6, <3>1
    <3>3. pick(n) \in A /\ rank(pick(n)) = rank(a)
      BY <1>11, <3>2
    <3>4. pick(n) = a
      BY <1>7, <3>3
    <3> QED BY <1>10, <3>4
  <2> QED BY <1>12, <2>1, <2>2 DEF ToSet
<1> QED BY <1>1, <1>13, <1>14, <1>15 DEF N

----------------------------------------------------------------------------
(* Compaction *)

\* The order of the drop is an order on the anchors, with a plan or without.
LEMMA DropOrders ==
    ASSUME Ordered
    PROVE  Orders({p \in Anchors \X Anchors : DroppedBefore(p[1], p[2])}, Anchors)
<1> DEFINE R == {p \in Anchors \X Anchors : DroppedBefore(p[1], p[2])}
           O == {p \in Anchors \X Anchors : Older(p[1], p[2])}
<1>1. Anchors \subseteq Parts
  BY DEF Anchors, SettledCalls, Parts
<1>2. Orders(O, Anchors)
  BY <1>1, OlderOrders
<1>3. \A a, b \in Anchors : <<a, b>> \in O <=> Older(a, b)
  OBVIOUS
<1>4. \A a, b \in Anchors : <<a, b>> \in R <=> DroppedBefore(a, b)
  OBVIOUS
<1>5. \A a : Rank(a) \in Nat
  BY DEF Rank
<1> HIDE DEF O, R
<1>6. /\ \A a \in Anchors : ~Older(a, a)
      /\ \A a, b, c \in Anchors : Older(a, b) /\ Older(b, c) => Older(a, c)
      /\ \A a, b \in Anchors : a # b => Older(a, b) \/ Older(b, a)
  BY <1>2, <1>3 DEF Orders
<1>7. \A a \in Anchors : ~DroppedBefore(a, a)
  BY <1>6 DEF DroppedBefore
<1>8. \A a, b, c \in Anchors :
        DroppedBefore(a, b) /\ DroppedBefore(b, c) => DroppedBefore(a, c)
  BY <1>5, <1>6 DEF DroppedBefore
<1>9. \A a, b \in Anchors : a # b => DroppedBefore(a, b) \/ DroppedBefore(b, a)
  BY <1>5, <1>6 DEF DroppedBefore
<1> QED BY <1>4, <1>7, <1>8, <1>9 DEF Orders, R

\* What selectAnchors keeps: as many as it may, and nothing that goes before
\* something it drops.
LEMMA SelectAnchorsKeeps ==
    ASSUME Ordered
    PROVE  /\ SelectAnchors(Anchors) \subseteq Anchors
           /\ Cardinality(SelectAnchors(Anchors)) =
                IF Cardinality(Anchors) <= MaxAnchors THEN Cardinality(Anchors) ELSE MaxAnchors
           /\ \A c \in SelectAnchors(Anchors), d \in Anchors \ SelectAnchors(Anchors) :
                DroppedBefore(d, c)
<1> DEFINE R == {p \in Anchors \X Anchors : DroppedBefore(p[1], p[2])}
           last == {a \in Anchors : Cardinality({b \in Anchors : <<a, b>> \in R}) < MaxAnchors}
<1>1. IsFiniteSet(Anchors)
  <2>1. Anchors \subseteq Parts
    BY DEF Anchors, SettledCalls, Parts
  <2> QED BY <2>1, PartsAreFinite, FS_Subset
<1>2. \A a, b \in Anchors : <<a, b>> \in R <=> DroppedBefore(a, b)
  OBVIOUS
<1>3. Orders(R, Anchors) /\ MaxAnchors \in Nat
  BY DropOrders, CallAssumption
<1> HIDE DEF R
<1>4. /\ Cardinality(last) = IF Cardinality(Anchors) <= MaxAnchors
                             THEN Cardinality(Anchors) ELSE MaxAnchors
      /\ \A a \in last, b \in Anchors \ last : <<b, a>> \in R
  BY <1>1, <1>3, LastOnes
<1>5. SelectAnchors(Anchors) = last
  <2>1. ASSUME NEW a \in Anchors
        PROVE  {b \in Anchors : <<a, b>> \in R} = {d \in Anchors : DroppedBefore(a, d)}
    BY <1>2
  <2> QED BY <2>1 DEF SelectAnchors
<1>6. last \subseteq Anchors
  OBVIOUS
<1> HIDE DEF last
<1> QED BY <1>2, <1>4, <1>5, <1>6

\* The block is written by compaction alone.
LEMMA BlockChanges ==
    ASSUME [Next]_vars
    PROVE  block' = block \/ Compact
BY DEF Next, Handler, Cleanup, Fiber, StartTurn, ModelNames, ModelCalls, Ensure, ReadCall,
       ReadOutcome, WritePart, Track, SettleCall, RefuseLocally, ReadToDeclare, Declare, Permit,
       Reject, Answer, Record, Return, ReadToComplete, Save, SettleSaved, StreamEnds,
       StreamFails, Interrupt, GiveUp, ReadToClose, Close, EndTurn, Crash, vars

\* What compaction shows.
LEMMA CompactShows ==
    ASSUME Ordered, Compact
    PROVE  /\ block'.shown \in Seq(Anchors)
           /\ Len(block'.shown) = IF Cardinality(Anchors) <= MaxAnchors
                                  THEN Cardinality(Anchors) ELSE MaxAnchors
           /\ ToSet(block'.shown) \subseteq Anchors
           /\ \A i, j \in DOMAIN block'.shown :
                i < j => Older(block'.shown[i], block'.shown[j])
           /\ \A c \in ToSet(block'.shown), d \in Anchors \ ToSet(block'.shown) :
                /\ Planned # {} => Rank(d) <= Rank(c)
                /\ Planned = {} \/ Rank(d) = Rank(c) => Older(d, c)
<1> DEFINE kept == SelectAnchors(Anchors)
           s == InOrder(kept)
<1>1. block'.shown = s
  BY DEF Compact
<1>2. /\ kept \subseteq Anchors
      /\ Cardinality(kept) = IF Cardinality(Anchors) <= MaxAnchors
                             THEN Cardinality(Anchors) ELSE MaxAnchors
      /\ \A c \in kept, d \in Anchors \ kept : DroppedBefore(d, c)
  BY SelectAnchorsKeeps
<1>3. kept \subseteq Parts
  BY <1>2 DEF Anchors, SettledCalls, Parts
<1> HIDE DEF kept
<1>4. /\ s \in Seq(kept) /\ Len(s) = Cardinality(kept) /\ ToSet(s) = kept
      /\ \A i, j \in DOMAIN s : i < j => Older(s[i], s[j])
  BY <1>3, InOrderOf
<1> HIDE DEF s
<1>5. s \in Seq(Anchors)
  BY <1>2, <1>4, SeqMonotonic
<1>6. ASSUME NEW c \in kept, NEW d \in Anchors \ kept
      PROVE  /\ Planned # {} => Rank(d) <= Rank(c)
             /\ Planned = {} \/ Rank(d) = Rank(c) => Older(d, c)
  <2>1. Rank(c) \in Nat /\ Rank(d) \in Nat
    BY DEF Rank
  <2> QED BY <1>2, <2>1 DEF DroppedBefore
<1> QED BY <1>1, <1>2, <1>4, <1>5, <1>6

----------------------------------------------------------------------------
(* The inductive invariant *)

\* The kinds of the events in the stream that the processor has yet to handle for c.
Said(c) == {queue[i].kind : i \in {j \in DOMAIN queue : queue[j].call = c}}

Outcomes == {"result", "failure"}

\* What the stream says of one call comes in this order, each once.
Precedes(k, l) == (k = "input" /\ l # "input") \/ (k = "call" /\ l \in Outcomes)

StreamOrder ==
    \A i, j \in DOMAIN queue :
        i < j /\ queue[i].call = queue[j].call => Precedes(queue[i].kind, queue[j].kind)

\* The processor has a part in hand of a call that has one; an outcome only while the
\* stream is open, a part to close only in cleanup, which alone has calls to close.
SeenInv ==
    /\ seen.op = "none" => seen = Idle
    /\ seen.op # "none" => seen.call \in Call /\ seen.part.status # "none"
    /\ seen.op \in {"track", "call", "result", "failure", "settle"} => turn = "streaming"
    /\ seen.op = "close" => turn = "closing"
    /\ seen.op = "call" => seen.part.status \in {"pending", "running"}
    /\ turn # "closing" => todo = {}

\* A part is there for the calls of the transcript, and only they are tracked or
\* in somebody's hand.
HasPlace(c) ==
    /\ part[c].status = "none" <=> c \notin Parts
    /\ c \in tracked => c \in Parts
    /\ "input" \in Said(c) => c \notin Parts
    /\ seen.call = c => c \in Parts
    /\ exec[c] \in {"declaring", "saving", "saved"} => c \in Parts
    /\ c \in todo => c \in calls

\* The stream is over for a call that was cut; the fiber completes only such a call
\* by itself, and cleanup closes only such a call.
IsCut(c) ==
    /\ c \in cut => Said(c) = {}
    /\ c \in cut /\ seen.call = c => seen.op = "close" /\ c \in calls /\ c \notin todo
    /\ exec[c] \in {"saving", "saved"} => c \in cut

\* The part has been written and the call is about to be tracked.
Tracking(c) == seen.call = c /\ seen.op = "track"

\* The model has named the call at most.
Unmade(c) ==
    /\ c \in calls => turn = "streaming"
    /\ c \notin calls => c \notin Parts
    /\ Said(c) \subseteq {"input"}
    /\ c \notin calls => Said(c) = {}
    /\ c \in Parts => c \in tracked \/ Tracking(c)
    /\ part[c].status \in {"none", "pending"}
    /\ seen.call = c => Tracking(c)

\* The outcome is on its way, or has yet to come.
Undecided(c) == exec[c] # "done" \/ Said(c) \cap Outcomes # {}

\* The processor has not handled the call's event yet,
Called(c) ==
    /\ Undecided(c) /\ "call" \in Said(c)
    /\ seen.call = c => Tracking(c)
    /\ c \in Parts => c \in tracked \/ Tracking(c)
    /\ part[c].status \in {"none", "pending", "running"}

\* has it in hand,
Calling(c) ==
    /\ Undecided(c) /\ seen.call = c /\ seen.op = "call"
    /\ c \in tracked /\ part[c].status \in {"pending", "running"}

\* waits for the outcome,
Awaiting(c) ==
    /\ Undecided(c) /\ seen.call # c
    /\ c \in tracked /\ part[c].status = "running"

\* has the outcome in hand,
Deciding(c) ==
    /\ Said(c) = {} /\ seen.call = c /\ seen.op \in Outcomes /\ exec[c] = "done"
    /\ c \in tracked /\ part[c].status = "running"

\* has written it,
Settling(c) ==
    /\ Said(c) = {} /\ seen.call = c /\ seen.op = "settle" /\ exec[c] = "done"
    /\ c \in tracked /\ part[c].status \in Settled

\* and is done with the call.
IsSettled(c) ==
    /\ Said(c) = {} /\ seen.call # c /\ exec[c] = "done"
    /\ c \notin tracked /\ part[c].status \in Settled

\* A call whose stream was not torn down goes through these phases; when the turn is
\* over it is settled.
Phase(c) ==
    c \notin cut =>
        IF exec[c] = "none" THEN Unmade(c)
        ELSE /\ "input" \in Said(c) => "call" \in Said(c)
             /\ "call" \notin Said(c) => Said(c) \subseteq Outcomes
             /\ Said(c) \cap Outcomes # {} => exec[c] = "done"
             /\ \/ /\ turn = "streaming" /\ c \in calls
                   /\ Called(c) \/ (("call" \notin Said(c)) /\
                        (Calling(c) \/ Awaiting(c) \/ Deciding(c) \/ Settling(c)))
                \/ IsSettled(c)

\* A receipt stands for an entry, wherever a part is copied to.
Receipts(c) ==
    /\ receipt[c] <=> c \in ledger
    /\ receipt[c] => exec[c] \in {"noted", "saving", "saved", "done"}
    /\ part[c].receipt => receipt[c]
    /\ stash[c].receipt => receipt[c]
    /\ seen.call = c /\ seen.part.receipt => receipt[c]

\* A call with an entry does not fail while its stream is open.
Recorded(c) ==
    c \in ledger \ cut =>
        /\ "failure" \notin Said(c)
        /\ ~(seen.call = c /\ seen.op = "failure")
        /\ part[c].status \in Settled => part[c].status = "completed" /\ part[c].receipt

\* The dimension of a part is the one the call declares, once it is running.
DimOf(c, p) ==
    /\ p.dim \in {None, DimensionOf[c]}
    /\ p.status \in {"none", "pending"} => p.dim = None

\* A declaration that comes too late writes back the part as it is: nobody closes a
\* part twice.
Dims(c) ==
    /\ DimOf(c, part[c])
    /\ seen.call = c => DimOf(c, seen.part)
    /\ exec[c] = "declaring" =>
         /\ DimOf(c, stash[c])
         /\ stash[c].status # "none"
         /\ c \notin cut => stash[c].status \in {"pending", "running"}
         /\ stash[c].status \in Settled => stash[c] = part[c]
    /\ c \in cut /\ exec[c] \in {"begun", "declaring"} /\ part[c].status \in Settled =>
         /\ c \notin todo /\ seen.call # c
         /\ turn \in {"closing", "idle"} \/ c \notin calls

CallInv(c) ==
    HasPlace(c) /\ IsCut(c) /\ Phase(c) /\ Receipts(c) /\ Recorded(c) /\ Dims(c)

IInv ==
    /\ TypeOK
    /\ StreamOrder
    /\ turn # "streaming" => queue = <<>>
    /\ SeenInv
    /\ ToSet(block.shown) \subseteq ledger
    /\ \A c \in Call : CallInv(c)

----------------------------------------------------------------------------
(* The stream *)

EventSet == [kind : {"input", "call", "result", "failure"}, call : Call]

\* An event that may follow what the stream says of its call.
LEMMA SaidAppend ==
    ASSUME queue \in Seq(EventSet), StreamOrder, NEW c \in Call,
           NEW k \in {"input", "call", "result", "failure"},
           queue' = Append(queue, Event(k, c)), \A l \in Said(c) : Precedes(l, k)
    PROVE  /\ queue' \in Seq(EventSet)
           /\ StreamOrder'
           /\ Said(c)' = Said(c) \cup {k}
           /\ \A d \in Call \ {c} : Said(d)' = Said(d)
<1> DEFINE n == Len(queue)
<1>1. /\ n \in Nat /\ DOMAIN queue = 1 .. n /\ DOMAIN queue' = 1 .. n + 1
      /\ queue' \in Seq(EventSet)
      /\ \A i \in 1 .. n : queue'[i] = queue[i]
      /\ queue'[n + 1] = Event(k, c)
  BY DEF EventSet, Event
<1> HIDE DEF n
<1>2. queue'[n + 1].kind = k /\ queue'[n + 1].call = c
  BY <1>1 DEF Event
<1>3. ASSUME NEW i \in 1 .. n, queue[i].call = c PROVE Precedes(queue[i].kind, k)
  BY <1>1, <1>3 DEF Said
<1>4. ASSUME NEW i \in 1 .. n + 1, NEW j \in 1 .. n + 1, i < j, queue'[i].call = queue'[j].call
      PROVE  Precedes(queue'[i].kind, queue'[j].kind)
  <2>1. i \in 1 .. n
    BY <1>1, <1>4
  <2>2. CASE j \in 1 .. n
    BY <1>1, <1>4, <2>1, <2>2 DEF StreamOrder
  <2>3. CASE j = n + 1
    BY <1>1, <1>2, <1>3, <1>4, <2>1, <2>3
  <2> QED BY <1>1, <2>2, <2>3
<1>5. StreamOrder'
  BY <1>1, <1>4 DEF StreamOrder
<1>6. Said(c)' = Said(c) \cup {k}
  <2>1. \A i \in 1 .. n + 1 : i \in 1 .. n \/ i = n + 1
    BY <1>1
  <2>2. 1 .. n \subseteq 1 .. n + 1 /\ n + 1 \in 1 .. n + 1
    BY <1>1
  <2> QED BY <1>1, <1>2, <2>1, <2>2 DEF Said
<1>7. ASSUME NEW d \in Call \ {c} PROVE Said(d)' = Said(d)
  <2>1. \A i \in 1 .. n + 1 : i \in 1 .. n \/ i = n + 1
    BY <1>1
  <2>2. 1 .. n \subseteq 1 .. n + 1
    BY <1>1
  <2> QED BY <1>1, <1>2, <2>1, <2>2 DEF Said
<1> QED BY <1>1, <1>5, <1>6, <1>7

\* The processor takes the first event: it comes before all others of its call.
LEMMA SaidTail ==
    ASSUME queue \in Seq(EventSet), StreamOrder, queue # <<>>,
           NEW k, NEW c, Head(queue).kind = k, Head(queue).call = c
    PROVE  /\ c \in Call /\ k \in {"input", "call", "result", "failure"}
           /\ k \in Said(c)
           /\ \A l \in Said(c) \ {k} : Precedes(k, l)
           /\ queue' = Tail(queue) =>
                /\ queue' \in Seq(EventSet)
                /\ StreamOrder'
                /\ Said(c)' = Said(c) \ {k}
                /\ \A d \in Call \ {c} : Said(d)' = Said(d)
<1> DEFINE n == Len(queue)
<1>1. n \in Nat /\ n > 0 /\ DOMAIN queue = 1 .. n /\ 1 \in 1 .. n
      /\ queue[1].kind = k /\ queue[1].call = c /\ queue[1] \in EventSet
  <2>1. n \in Nat /\ n > 0 /\ DOMAIN queue = 1 .. n /\ 1 \in 1 .. n
    OBVIOUS
  <2>2. queue[1] = Head(queue) /\ queue[1] \in EventSet
    OBVIOUS
  <2> QED BY <2>1, <2>2
<1> HIDE DEF n
<1>2. c \in Call /\ k \in {"input", "call", "result", "failure"} /\ k \in Said(c)
  BY <1>1 DEF EventSet, Said
<1>3. ASSUME NEW i \in 2 .. n, queue[i].call = c
      PROVE  Precedes(k, queue[i].kind) /\ queue[i].kind # k
  <2>1. i \in 1 .. n /\ 1 < i
    BY <1>1
  <2>2. Precedes(k, queue[i].kind)
    BY <1>1, <1>3, <2>1 DEF StreamOrder
  <2> QED BY <2>2 DEF Precedes, Outcomes
<1>4. \A i \in 1 .. n : i = 1 \/ i \in 2 .. n
  BY <1>1
<1>5. \A l \in Said(c) \ {k} : Precedes(k, l)
  BY <1>1, <1>3, <1>4 DEF Said
<1>6. ASSUME queue' = Tail(queue)
      PROVE  /\ queue' \in Seq(EventSet)
             /\ StreamOrder'
             /\ Said(c)' = Said(c) \ {k}
             /\ \A d \in Call \ {c} : Said(d)' = Said(d)
  <2>1. /\ queue' \in Seq(EventSet) /\ DOMAIN queue' = 1 .. n - 1
        /\ \A i \in 1 .. n - 1 : queue'[i] = queue[i + 1]
    BY <1>6 DEF n
  <2>2. \A i \in 1 .. n - 1 : i + 1 \in 2 .. n /\ i + 1 \in 1 .. n
    BY <1>1
  <2>3. \A i \in 2 .. n : i - 1 \in 1 .. n - 1 /\ i - 1 + 1 = i
    BY <1>1
  <2>4. \A i \in 2 .. n : \E j \in 1 .. n - 1 : queue'[j] = queue[i]
    BY <2>1, <2>3
  <2>5. ASSUME NEW i \in 1 .. n - 1, NEW j \in 1 .. n - 1, i < j,
               queue'[i].call = queue'[j].call
        PROVE  Precedes(queue'[i].kind, queue'[j].kind)
    <3>1. i + 1 < j + 1 /\ i + 1 \in DOMAIN queue /\ j + 1 \in DOMAIN queue
      BY <1>1, <2>2, <2>5
    <3> QED BY <2>1, <2>5, <3>1 DEF StreamOrder
  <2>6. StreamOrder'
    BY <2>1, <2>5 DEF StreamOrder
  <2>7. Said(c)' = Said(c) \ {k}
    <3>1. ASSUME NEW l \in Said(c)' PROVE l \in Said(c) \ {k}
      <4>1. PICK i \in 1 .. n - 1 : queue'[i].call = c /\ queue'[i].kind = l
        BY <2>1, <3>1 DEF Said
      <4>2. i + 1 \in 2 .. n /\ i + 1 \in DOMAIN queue /\ queue[i + 1].call = c
            /\ queue[i + 1].kind = l
        BY <1>1, <2>1, <2>2, <4>1
      <4> QED BY <1>3, <4>2 DEF Said
    <3>2. ASSUME NEW l \in Said(c) \ {k} PROVE l \in Said(c)'
      <4>1. PICK i \in 1 .. n : queue[i].call = c /\ queue[i].kind = l
        BY <1>1, <3>2 DEF Said
      <4>2. PICK j \in 1 .. n - 1 : queue'[j] = queue[i]
        BY <1>1, <1>4, <2>4, <4>1
      <4> QED BY <2>1, <4>1, <4>2 DEF Said
    <3> QED BY <3>1, <3>2
  <2>8. ASSUME NEW d \in Call \ {c} PROVE Said(d)' = Said(d)
    <3>1. ASSUME NEW l \in Said(d)' PROVE l \in Said(d)
      <4>1. PICK i \in 1 .. n - 1 : queue'[i].call = d /\ queue'[i].kind = l
        BY <2>1, <3>1 DEF Said
      <4> QED BY <1>1, <2>1, <2>2, <4>1 DEF Said
    <3>2. ASSUME NEW l \in Said(d) PROVE l \in Said(d)'
      <4>1. PICK i \in 1 .. n : queue[i].call = d /\ queue[i].kind = l
        BY <1>1, <3>2 DEF Said
      <4>2. PICK j \in 1 .. n - 1 : queue'[j] = queue[i]
        BY <1>1, <1>4, <2>4, <4>1
      <4> QED BY <2>1, <4>1, <4>2 DEF Said
    <3> QED BY <3>1, <3>2
  <2> QED BY <2>1, <2>6, <2>7, <2>8
<1> QED BY <1>2, <1>5, <1>6

\* An empty stream says nothing.
LEMMA SaidNothing ==
    /\ queue = <<>> => StreamOrder /\ \A d : Said(d) = {}
    /\ queue' = <<>> => StreamOrder' /\ \A d : Said(d)' = {}
BY DEF StreamOrder, Said

\* An unchanged stream says the same.
LEMMA SaidSame ==
    ASSUME UNCHANGED queue
    PROVE  (StreamOrder' <=> StreamOrder) /\ \A d : Said(d)' = Said(d)
BY DEF StreamOrder, Said

----------------------------------------------------------------------------
(* Steps that do not touch a call *)

\* Nothing that the invariant says of the call has changed.
Same(c) ==
    /\ part'[c] = part[c] /\ exec'[c] = exec[c] /\ stash'[c] = stash[c]
    /\ receipt'[c] = receipt[c]
    /\ c \in tracked' <=> c \in tracked
    /\ c \in Parts' <=> c \in Parts
    /\ c \in calls' <=> c \in calls
    /\ c \in todo' <=> c \in todo
    /\ c \in cut' <=> c \in cut
    /\ c \in ledger' <=> c \in ledger
    /\ Said(c)' = Said(c)
    /\ turn' = turn
    /\ seen'.call = c <=> seen.call = c
    /\ seen.call = c => seen' = seen

\* Then it still holds.
LEMMA SameCall ==
    ASSUME NEW c \in Call, CallInv(c), Same(c)
    PROVE  CallInv(c)'
<1>1. HasPlace(c)'
  BY DEF CallInv, HasPlace, Same
<1>2. IsCut(c)'
  BY DEF CallInv, IsCut, Same
<1>3. Phase(c)'
  BY DEF CallInv, Phase, Same, Unmade, Tracking, Undecided, Called, Calling, Awaiting, Deciding,
      Settling, IsSettled
<1>4. Receipts(c)'
  BY DEF CallInv, Receipts, Same
<1>5. Recorded(c)'
  BY DEF CallInv, Recorded, Same
<1>6. Dims(c)'
  BY DEF CallInv, Dims, DimOf, Same
<1> QED BY <1>1, <1>2, <1>3, <1>4, <1>5, <1>6 DEF CallInv

\* Nobody is called None, so an idle processor has no call in hand.
LEMMA IdleHasNoCall ==
    /\ \A c \in Call : Idle.call # c
    /\ Idle.op = "none" /\ Idle.part = NoPart
BY CallAssumption DEF Idle

\* Nothing has happened at first.
LEMMA InitIInv == Init => IInv
<1> SUFFICES ASSUME Init PROVE IInv
  OBVIOUS
<1>1. TypeOK
  <2>1. NoPart \in Part
    BY DEF NoPart, Part, Status
  <2>2. ToSet(<<>>) = {} /\ IsInjective(<<>>) /\ <<>> \in Seq(Call)
    BY DEF ToSet, IsInjective
  <2>3. seen \in Seen
    BY <2>1 DEF Init, Idle, Seen
  <2>4. queue \in Seq([kind : {"input", "call", "result", "failure"}, call : Call])
    BY DEF Init
  <2>5. \A c \in Call : part[c].status = "none" <=> c \notin ToSet(transcript)
    BY <2>2 DEF Init, NoPart
  <2> QED BY <2>1, <2>2, <2>3, <2>4, <2>5, CallAssumption DEF Init, TypeOK, NoBlock
<1>2. StreamOrder /\ \A c : Said(c) = {}
  BY SaidNothing DEF Init
<1>3. SeenInv
  BY DEF Init, SeenInv, Idle
<1>4. ToSet(block.shown) \subseteq ledger
  BY DEF Init, NoBlock, ToSet
<1>5. ASSUME NEW c \in Call PROVE CallInv(c)
  <2>1. Parts = {}
    BY DEF Init, Parts, ToSet
  <2>2. seen.call # c
    BY IdleHasNoCall DEF Init
  <2> QED BY <1>2, <2>1, <2>2
          DEF Init, CallInv, HasPlace, IsCut, Phase, Unmade, Tracking, Receipts, Recorded, Dims,
              DimOf, NoPart
<1> QED BY <1>1, <1>2, <1>3, <1>4, <1>5 DEF IInv, Init

----------------------------------------------------------------------------
(* The fiber of a call *)

Places == {"none", "begun", "declaring", "asking", "requested", "packed", "plain", "noted",
           "saving", "saved", "done"}

\* Refusal, permission, answer and the after hook: the call moves on towards its note,
\* and gets an entry together with its receipt, or neither.
LEMMA MoveOnKeepsIInv ==
    ASSUME IInv, NEW c \in Call, UNCHANGED <<stored, flow, stash, block, crashes>>,
           NEW place, Goto(c, place),
           \/ /\ exec[c] \in {"begun", "asking", "requested"}
              /\ place \in {"requested", "packed", "plain"}
              /\ UNCHANGED <<ledger, receipt>>
           \/ exec[c] \in {"packed", "plain"} /\ place = "noted" /\ UNCHANGED <<ledger, receipt>>
           \/ exec[c] = "packed" /\ place = "noted" /\ Log(c)
    PROVE  IInv'
<1> USE DEF stored, flow
<1>1. /\ TypeOK /\ StreamOrder /\ SeenInv /\ (turn # "streaming" => queue = <<>>)
      /\ ToSet(block.shown) \subseteq ledger /\ \A d \in Call : CallInv(d)
  BY DEF IInv
<1>2. exec' = [exec EXCEPT ![c] = place] /\ exec \in [Call -> Places]
      /\ receipt \in [Call -> BOOLEAN] /\ ledger \subseteq Call
  BY <1>1 DEF Goto, TypeOK, Places
<1>3. /\ ledger \subseteq ledger' /\ ledger' \subseteq ledger \cup {c}
      /\ receipt' \in [Call -> BOOLEAN] /\ \A d \in Call \ {c} : receipt'[d] = receipt[d]
  BY <1>1, <1>2 DEF Log
<1>4. TypeOK'
  <2>1. exec' \in [Call -> Places] /\ ledger' \subseteq Call
    BY <1>2, <1>3 DEF Places
  <2> QED BY <1>1, <1>3, <2>1 DEF TypeOK, Places
<1>5. StreamOrder' /\ (\A d : Said(d)' = Said(d)) /\ Parts' = Parts
  BY <1>1, SaidSame DEF Parts
<1>6. ASSUME NEW d \in Call \ {c} PROVE CallInv(d)'
  BY <1>1, <1>2, <1>3, <1>5, SameCall DEF Same
<1>7. CallInv(c)'
  <2>0. HasPlace(c) /\ IsCut(c) /\ Phase(c) /\ Receipts(c) /\ Recorded(c) /\ Dims(c)
    BY <1>1 DEF CallInv
  <2>1. /\ exec'[c] = place /\ place \in {"requested", "packed", "plain", "noted"}
        /\ exec[c] \in {"begun", "asking", "requested", "packed", "plain"}
    BY <1>2
  <2>2. HasPlace(c)' /\ IsCut(c)'
    BY <1>5, <2>0, <2>1 DEF HasPlace, IsCut
  <2>3. Phase(c)'
    BY <1>5, <2>0, <2>1
    DEF Phase, Unmade, Tracking, Undecided, Called, Calling, Awaiting, Deciding, Settling,
        IsSettled
  <2>4. Receipts(c)'
    BY <1>2, <1>3, <2>0, <2>1 DEF Receipts, Log
  <2>5. Recorded(c)'
    BY <1>5, <2>0, <2>1
    DEF Recorded, Phase, Tracking, Undecided, Called, Calling, Awaiting, Deciding, Settling, IsSettled,
        Outcomes, Settled
  <2>6. Dims(c)'
    BY <2>0, <2>1 DEF Dims, DimOf
  <2> QED BY <2>2, <2>3, <2>4, <2>5, <2>6 DEF CallInv
<1>8. SeenInv' /\ ToSet(block.shown)' \subseteq ledger'
  BY <1>1, <1>3 DEF SeenInv
<1> QED BY <1>1, <1>4, <1>5, <1>6, <1>7, <1>8 DEF IInv

\* The declaration reads the part of a call that has one.
LEMMA ReadToDeclareKeepsIInv ==
    ASSUME IInv, NEW c \in Call, ReadToDeclare(c)
    PROVE  IInv'
<1> USE DEF stored, flow
<1>1. /\ TypeOK /\ StreamOrder /\ SeenInv /\ (turn # "streaming" => queue = <<>>)
      /\ ToSet(block.shown) \subseteq ledger /\ \A d \in Call : CallInv(d)
  BY DEF IInv
<1>2. HasPlace(c) /\ IsCut(c) /\ Phase(c) /\ Receipts(c) /\ Recorded(c) /\ Dims(c)
  BY <1>1 DEF CallInv
<1>3. /\ UNCHANGED <<stored, flow, receipt, ledger, block, crashes>> /\ exec[c] = "begun"
      /\ \/ /\ c \in tracked /\ exec' = [exec EXCEPT ![c] = "declaring"]
            /\ stash' = [stash EXCEPT ![c] = part[c]]
         \/ c \notin tracked /\ exec' = [exec EXCEPT ![c] = "asking"] /\ stash' = stash
  BY DEF ReadToDeclare, At, Goto
<1>4. exec \in [Call -> Places] /\ stash \in [Call -> Part] /\ part \in [Call -> Part]
  BY <1>1 DEF TypeOK, Places
<1>5. TypeOK'
  <2>1. exec' \in [Call -> Places] /\ stash' \in [Call -> Part]
    BY <1>3, <1>4 DEF Places
  <2> QED BY <1>1, <1>3, <2>1 DEF TypeOK, Places
<1>6. StreamOrder' /\ (\A d : Said(d)' = Said(d)) /\ Parts' = Parts
  BY <1>1, <1>3, SaidSame DEF Parts
<1>7. ASSUME NEW d \in Call \ {c} PROVE CallInv(d)'
  BY <1>1, <1>3, <1>4, <1>6, SameCall DEF Same
<1>8. CallInv(c)'
  <2>1. /\ exec'[c] \in {"declaring", "asking"}
        /\ exec'[c] = "declaring" => c \in tracked /\ stash'[c] = part[c]
        /\ exec'[c] = "asking" => stash'[c] = stash[c]
    BY <1>3, <1>4
  <2>2. HasPlace(c)' /\ IsCut(c)'
    BY <1>2, <1>3, <1>6, <2>1 DEF HasPlace, IsCut
  <2>3. Phase(c)'
    BY <1>2, <1>3, <1>6, <2>1
    DEF Phase, Unmade, Tracking, Undecided, Called, Calling, Awaiting, Deciding, Settling,
        IsSettled
  <2>4. Receipts(c)' /\ Recorded(c)'
    BY <1>2, <1>3, <1>6, <2>1 DEF Receipts, Recorded
  <2>5. Dims(c)'
    <3>1. ASSUME c \in tracked, c \notin cut PROVE part[c].status \in {"pending", "running"}
      BY <1>2, <1>3, <3>1
      DEF HasPlace, Phase, Unmade, Tracking, Undecided, Called, Calling, Awaiting, Deciding,
          Settling, IsSettled
    <3> QED BY <1>2, <1>3, <2>1, <3>1 DEF Dims, DimOf, HasPlace
  <2> QED BY <2>2, <2>3, <2>4, <2>5 DEF CallInv
<1>9. SeenInv'
  BY <1>1, <1>3 DEF SeenInv
<1> QED BY <1>1, <1>3, <1>5, <1>6, <1>7, <1>8, <1>9 DEF IInv

\* The declaration is written into a part that is not settled; a settled one is written
\* back as it was read.
LEMMA DeclareKeepsIInv ==
    ASSUME IInv, NEW c \in Call, Declare(c)
    PROVE  IInv'
<1> USE DEF flow
<1> DEFINE p == IF stash[c].status \in {"pending", "running"} THEN Running(DimensionOf[c])
                ELSE stash[c]
<1>1. /\ TypeOK /\ StreamOrder /\ SeenInv /\ (turn # "streaming" => queue = <<>>)
      /\ ToSet(block.shown) \subseteq ledger /\ \A d \in Call : CallInv(d)
  BY DEF IInv
<1>2. HasPlace(c) /\ IsCut(c) /\ Phase(c) /\ Receipts(c) /\ Recorded(c) /\ Dims(c)
  BY <1>1 DEF CallInv
<1>3. /\ UNCHANGED <<transcript, flow, receipt, ledger, block, crashes>>
      /\ exec[c] = "declaring" /\ exec' = [exec EXCEPT ![c] = "asking"]
      /\ part' = [part EXCEPT ![c] = p] /\ stash' = [stash EXCEPT ![c] = NoPart]
      /\ tracked' = tracked \cup {c}
  BY DEF Declare, At, Goto
<1>4. /\ exec \in [Call -> Places] /\ stash \in [Call -> Part] /\ part \in [Call -> Part]
      /\ NoPart \in Part /\ NoPart.receipt = FALSE
  BY <1>1 DEF TypeOK, Places, NoPart, Part, Status
<1>5. /\ p \in Part /\ p.status # "none" /\ (p.receipt => stash[c].receipt)
      /\ p.dim \in {None, DimensionOf[c]} /\ (p.status = "pending" => p.dim = None)
      /\ c \notin cut => p.status = "running"
      /\ p.status \in Settled => part[c] = p /\ c \in cut
      /\ c \in Parts
  <2>1. Running(DimensionOf[c]) \in Part
    BY CallAssumption DEF Running, NoPart, Part, Status
  <2>2. /\ Running(DimensionOf[c]).status = "running"
        /\ Running(DimensionOf[c]).dim = DimensionOf[c]
        /\ Running(DimensionOf[c]).receipt = FALSE
    BY DEF Running, NoPart
  <2> QED BY <1>2, <1>3, <1>4, <2>1, <2>2 DEF Dims, DimOf, HasPlace, Settled
<1> HIDE DEF p
<1>6. StreamOrder' /\ (\A d : Said(d)' = Said(d)) /\ Parts' = Parts
  BY <1>1, <1>3, SaidSame DEF Parts
<1>7. TypeOK'
  <2>1. exec' \in [Call -> Places] /\ stash' \in [Call -> Part] /\ part' \in [Call -> Part]
    BY <1>3, <1>4, <1>5 DEF Places
  <2>2. \A d \in Call : part'[d].status = "none" <=> d \notin ToSet(transcript)
    BY <1>1, <1>3, <1>4, <1>5 DEF TypeOK, Parts
  <2>3. tracked' \subseteq ToSet(transcript)
    BY <1>1, <1>3, <1>5 DEF TypeOK, Parts
  <2> QED BY <1>1, <1>3, <2>1, <2>2, <2>3 DEF TypeOK, Places
<1>8. ASSUME NEW d \in Call \ {c} PROVE CallInv(d)'
  BY <1>1, <1>3, <1>4, <1>6, SameCall DEF Same
<1>9. CallInv(c)'
  <2>1. exec'[c] = "asking" /\ part'[c] = p /\ stash'[c] = NoPart /\ c \in tracked'
    BY <1>3, <1>4
  <2>2. HasPlace(c)' /\ IsCut(c)'
    BY <1>2, <1>3, <1>5, <1>6, <2>1 DEF HasPlace, IsCut
  <2>3. Phase(c)'
    BY <1>2, <1>3, <1>5, <1>6, <2>1
    DEF Phase, Unmade, Tracking, Undecided, Called, Calling, Awaiting, Deciding, Settling,
        IsSettled
  <2>4. Receipts(c)' /\ Recorded(c)'
    BY <1>2, <1>3, <1>4, <1>5, <1>6, <2>1 DEF Receipts, Recorded
  <2>5. Dims(c)'
    BY <1>2, <1>3, <1>5, <2>1 DEF Dims, DimOf, Settled
  <2> QED BY <2>2, <2>3, <2>4, <2>5 DEF CallInv
<1>10. SeenInv'
  BY <1>1, <1>3 DEF SeenInv
<1> QED BY <1>1, <1>3, <1>6, <1>7, <1>8, <1>9, <1>10 DEF IInv

\* The outcome goes to the stream behind everything else of the call, unless the stream
\* is gone.
LEMMA DeliverKeepsIInv ==
    ASSUME IInv, NEW c \in Call, Reject(c) \/ Return(c)
    PROVE  IInv'
<1> USE DEF stored
<1>1. /\ TypeOK /\ StreamOrder /\ SeenInv /\ (turn # "streaming" => queue = <<>>)
      /\ ToSet(block.shown) \subseteq ledger /\ \A d \in Call : CallInv(d)
  BY DEF IInv
<1>2. HasPlace(c) /\ IsCut(c) /\ Phase(c) /\ Receipts(c) /\ Recorded(c) /\ Dims(c)
  BY <1>1 DEF CallInv
<1> DEFINE kind == IF exec[c] = "asking" THEN "failure" ELSE "result"
<1>3. /\ UNCHANGED <<stored, turn, calls, seen, todo, cut, stash, receipt, ledger, block, crashes>>
      /\ exec[c] \in {"asking", "noted"} /\ exec' = [exec EXCEPT ![c] = "done"]
      /\ queue' = IF c \in cut THEN queue ELSE Append(queue, Event(kind, c))
      /\ kind \in Outcomes /\ (exec[c] = "noted" => kind = "result" /\ c \notin cut)
  BY DEF Reject, Return, At, Goto, Deliver, Outcomes
<1> HIDE DEF kind
<1>4. exec \in [Call -> Places] /\ queue \in Seq(EventSet)
  BY <1>1 DEF TypeOK, Places, EventSet
<1>5. /\ StreamOrder' /\ queue' \in Seq(EventSet)
      /\ Said(c)' = IF c \in cut THEN Said(c) ELSE Said(c) \cup {kind}
      /\ \A d \in Call \ {c} : Said(d)' = Said(d)
  <2>1. CASE c \in cut
    BY <1>1, <1>3, <1>4, <2>1, SaidSame
  <2>2. CASE c \notin cut
    <3>1. \A l \in Said(c) : Precedes(l, kind)
      <4>1. Said(c) \cap Outcomes = {}
        BY <1>2, <1>3, <2>2 DEF Phase
      <4>2. Said(c) \subseteq {"input", "call", "result", "failure"}
        <5>1. \A i \in DOMAIN queue : queue[i] \in EventSet
          BY <1>4
        <5> QED BY <5>1 DEF Said, EventSet
      <4> QED BY <1>3, <4>1, <4>2 DEF Precedes, Outcomes
    <3>2. kind \in {"input", "call", "result", "failure"} /\ queue' = Append(queue, Event(kind, c))
      BY <1>3, <2>2 DEF Outcomes
    <3> QED BY <1>1, <1>4, <2>2, <3>1, <3>2, SaidAppend
  <2> QED BY <2>1, <2>2
<1>6. TypeOK'
  <2>1. exec' \in [Call -> Places]
    BY <1>3, <1>4 DEF Places
  <2> QED BY <1>1, <1>3, <1>5, <2>1 DEF TypeOK, Places, EventSet
<1>7. Parts' = Parts
  BY <1>3 DEF Parts
<1>8. ASSUME NEW d \in Call \ {c} PROVE CallInv(d)'
  BY <1>1, <1>3, <1>4, <1>5, <1>7, SameCall DEF Same
<1>9. CallInv(c)'
  <2>1. exec'[c] = "done"
    BY <1>3, <1>4
  <2>2. HasPlace(c)' /\ IsCut(c)'
    BY <1>2, <1>3, <1>5, <1>7, <2>1 DEF HasPlace, IsCut, Outcomes
  <2>3. Phase(c)'
    <3>1. CASE c \in cut
      BY <1>3, <3>1 DEF Phase
    <3>2. CASE c \notin cut
      <4>1. /\ Said(c)' = Said(c) \cup {kind} /\ Said(c)' \cap Outcomes # {}
            /\ "call" \in Said(c)' <=> "call" \in Said(c)
            /\ "input" \in Said(c)' <=> "input" \in Said(c)
        BY <1>3, <1>5, <3>2 DEF Outcomes
      <4>2. /\ exec[c] \notin {"none", "done"}
            /\ "input" \in Said(c) => "call" \in Said(c)
            /\ "call" \notin Said(c) => Said(c) \subseteq Outcomes
            /\ turn = "streaming" /\ c \in calls
            /\ Called(c) \/ (("call" \notin Said(c)) /\ (Calling(c) \/ Awaiting(c)))
        BY <1>2, <1>3, <3>2 DEF Phase, Deciding, Settling, IsSettled
      <4>3. Undecided(c)'
        BY <4>1 DEF Undecided
      <4>4. /\ Called(c) => Called(c)'
            /\ Calling(c) => Calling(c)'
            /\ Awaiting(c) => Awaiting(c)'
        BY <1>3, <1>7, <4>1, <4>3 DEF Called, Calling, Awaiting, Tracking
      <4> QED BY <1>3, <2>1, <4>1, <4>2, <4>4 DEF Phase
    <3> QED BY <3>1, <3>2
  <2>4. Receipts(c)' /\ Recorded(c)'
    BY <1>2, <1>3, <1>5, <2>1 DEF Receipts, Recorded, Outcomes
  <2>5. Dims(c)'
    BY <1>2, <1>3, <2>1 DEF Dims, DimOf
  <2> QED BY <2>2, <2>3, <2>4, <2>5 DEF CallInv
<1>10. SeenInv'
  BY <1>1, <1>3 DEF SeenInv
<1>11. turn' # "streaming" => queue' = <<>>
  <2>1. c \notin cut => turn = "streaming"
    BY <1>2, <1>3 DEF Phase, IsSettled
  <2> QED BY <1>1, <1>3, <2>1
<1> QED BY <1>1, <1>3, <1>5, <1>6, <1>8, <1>9, <1>10, <1>11 DEF IInv

\* A call that was cut completes itself.
LEMMA SaveKeepsIInv ==
    ASSUME IInv, NEW c \in Call, ReadToComplete(c) \/ Save(c) \/ SettleSaved(c)
    PROVE  IInv'
<1> USE DEF flow
<1>1. /\ TypeOK /\ StreamOrder /\ SeenInv /\ (turn # "streaming" => queue = <<>>)
      /\ ToSet(block.shown) \subseteq ledger /\ \A d \in Call : CallInv(d)
  BY DEF IInv
<1>2. HasPlace(c) /\ IsCut(c) /\ Phase(c) /\ Receipts(c) /\ Recorded(c) /\ Dims(c)
  BY <1>1 DEF CallInv
<1> DEFINE place == exec'[c]
<1>3. exec \in [Call -> Places] /\ part \in [Call -> Part] /\ c \in DOMAIN exec
  BY <1>1 DEF TypeOK, Places
<1>4. /\ UNCHANGED <<transcript, flow, stash, receipt, ledger, block, crashes>>
      /\ exec[c] \in {"noted", "saving", "saved"} /\ c \in cut
      /\ place \in {"saving", "saved", "done"} /\ exec' = [exec EXCEPT ![c] = place]
      /\ place = "saving" => c \in tracked
      /\ \/ UNCHANGED part
         \/ exec[c] = "saving" /\ part' = [part EXCEPT ![c] = Completed(c)]
      /\ tracked' \subseteq tracked /\ tracked \subseteq tracked' \cup {c}
      /\ exec[c] = "noted" \/ place \in {"saved", "done"}
      /\ place = "saved" => exec[c] = "saving"
  BY <1>2, <1>3 DEF ReadToComplete, Save, SettleSaved, At, Goto, stored, IsCut
<1> HIDE DEF place
<1>5. /\ Completed(c) \in Part /\ Completed(c).status = "completed"
      /\ Completed(c).receipt = receipt[c] /\ Completed(c).dim = DimensionOf[c]
  BY <1>1, CallAssumption DEF Completed, Part, Status, TypeOK
<1>6. StreamOrder' /\ (\A d : Said(d)' = Said(d)) /\ Parts' = Parts
  BY <1>1, <1>4, SaidSame DEF Parts
<1>7. TypeOK'
  <2>1. exec' \in [Call -> Places] /\ part' \in [Call -> Part]
    BY <1>3, <1>4, <1>5 DEF Places
  <2>2. \A d \in Call : part'[d].status = "none" <=> d \notin ToSet(transcript)
    BY <1>1, <1>2, <1>3, <1>4, <1>5 DEF TypeOK, Parts, HasPlace
  <2>3. tracked' \subseteq ToSet(transcript)
    BY <1>1, <1>4 DEF TypeOK
  <2> QED BY <1>1, <1>4, <2>1, <2>2, <2>3 DEF TypeOK, Places
<1>8. ASSUME NEW d \in Call \ {c} PROVE CallInv(d)'
  BY <1>1, <1>3, <1>4, <1>6, SameCall DEF Same
<1>9. CallInv(c)'
  <2>1. /\ exec'[c] = place /\ place \notin {"none", "begun", "declaring"}
        /\ part'[c] = part[c] \/ (exec[c] = "saving" /\ part'[c] = Completed(c))
    BY <1>3, <1>4
  <2>2. HasPlace(c)' /\ IsCut(c)'
    BY <1>2, <1>4, <1>5, <1>6, <2>1 DEF HasPlace, IsCut
  <2>3. Phase(c)' /\ Recorded(c)'
    BY <1>4 DEF Phase, Recorded
  <2>4. Receipts(c)'
    BY <1>2, <1>4, <1>5, <2>1 DEF Receipts
  <2>5. Dims(c)'
    BY <1>2, <1>4, <1>5, <2>1 DEF Dims, DimOf
  <2> QED BY <2>2, <2>3, <2>4, <2>5 DEF CallInv
<1>10. SeenInv'
  BY <1>1, <1>4 DEF SeenInv
<1> QED BY <1>1, <1>4, <1>6, <1>7, <1>8, <1>9, <1>10 DEF IInv

----------------------------------------------------------------------------
(* The stream and its handler *)

\* The model names a call or makes it.
LEMMA ModelKeepsIInv ==
    ASSUME IInv, NEW c \in Call, ModelNames(c) \/ ModelCalls(c)
    PROVE  IInv'
<1> USE DEF stored
<1>1. /\ TypeOK /\ StreamOrder /\ SeenInv /\ (turn # "streaming" => queue = <<>>)
      /\ ToSet(block.shown) \subseteq ledger /\ \A d \in Call : CallInv(d)
  BY DEF IInv
<1>2. HasPlace(c) /\ IsCut(c) /\ Phase(c) /\ Receipts(c) /\ Recorded(c) /\ Dims(c)
  BY <1>1 DEF CallInv
<1>3. /\ UNCHANGED <<stored, turn, seen, todo, cut, stash, receipt, ledger, block, crashes>>
      /\ turn = "streaming" /\ exec[c] = "none" /\ c \notin cut /\ calls' = calls \cup {c}
      /\ \/ c \notin calls /\ exec' = exec /\ queue' = Append(queue, Event("input", c))
         \/ exec' = [exec EXCEPT ![c] = "begun"] /\ queue' = Append(queue, Event("call", c))
  BY DEF ModelNames, ModelCalls, New, tool
<1>4. exec \in [Call -> Places] /\ queue \in Seq(EventSet)
  BY <1>1 DEF TypeOK, Places, EventSet
<1>5. Unmade(c) /\ Said(c) \subseteq {"input"} /\ (c \notin calls => Said(c) = {})
  BY <1>2, <1>3 DEF Phase, Unmade
<1>6. /\ StreamOrder' /\ queue' \in Seq(EventSet)
      /\ \A d \in Call \ {c} : Said(d)' = Said(d)
      /\ \/ c \notin calls /\ exec' = exec /\ Said(c)' = {"input"}
         \/ /\ exec' = [exec EXCEPT ![c] = "begun"] /\ "call" \in Said(c)'
            /\ Said(c)' \subseteq {"input", "call"} /\ ("input" \in Said(c)' => "input" \in Said(c))
  <2>1. CASE c \notin calls /\ exec' = exec /\ queue' = Append(queue, Event("input", c))
    <3>1. \A l \in Said(c) : Precedes(l, "input")
      BY <1>5, <2>1
    <3> QED BY <1>1, <1>4, <1>5, <2>1, <3>1, SaidAppend
  <2>2. CASE exec' = [exec EXCEPT ![c] = "begun"] /\ queue' = Append(queue, Event("call", c))
    <3>1. \A l \in Said(c) : Precedes(l, "call")
      BY <1>5 DEF Precedes
    <3> QED BY <1>1, <1>4, <1>5, <2>2, <3>1, SaidAppend
  <2> QED BY <1>3, <2>1, <2>2
<1>7. TypeOK'
  <2>1. exec' \in [Call -> Places]
    BY <1>3, <1>4 DEF Places
  <2> QED BY <1>1, <1>3, <1>6, <2>1 DEF TypeOK, Places, EventSet
<1>8. Parts' = Parts
  BY <1>3 DEF Parts
<1>9. ASSUME NEW d \in Call \ {c} PROVE CallInv(d)'
  BY <1>1, <1>3, <1>4, <1>6, <1>8, SameCall DEF Same
<1>10. CallInv(c)'
  <2>1. exec'[c] \in {"none", "begun"} /\ (seen.call = c => Tracking(c)) /\ seen' = seen
    BY <1>3, <1>4, <1>5 DEF Unmade
  <2>2. HasPlace(c)' /\ IsCut(c)'
    BY <1>2, <1>3, <1>5, <1>6, <1>8, <2>1 DEF HasPlace, IsCut, Unmade
  <2>3. Phase(c)'
    <3>1. CASE c \notin calls /\ exec' = exec /\ Said(c)' = {"input"}
      BY <1>3, <1>5, <1>8, <2>1, <3>1 DEF Phase, Unmade, Tracking
    <3>2. CASE /\ exec' = [exec EXCEPT ![c] = "begun"] /\ "call" \in Said(c)'
               /\ Said(c)' \subseteq {"input", "call"}
               /\ ("input" \in Said(c)' => "input" \in Said(c))
      <4>1. exec'[c] = "begun"
        BY <1>4, <3>2
      <4>2. Called(c)'
        BY <1>3, <1>5, <1>8, <2>1, <3>2, <4>1 DEF Called, Undecided, Unmade, Tracking
      <4> QED BY <1>3, <3>2, <4>1, <4>2 DEF Phase, Outcomes
    <3> QED BY <1>6, <3>1, <3>2
  <2>4. Receipts(c)' /\ Recorded(c)'
    BY <1>2, <1>3, <1>5, <1>6, <2>1 DEF Receipts, Recorded
  <2>5. Dims(c)'
    BY <1>2, <1>3, <1>5, <2>1 DEF Dims, DimOf, Unmade, Tracking, Settled
  <2> QED BY <2>2, <2>3, <2>4, <2>5 DEF CallInv
<1>11. SeenInv'
  BY <1>1, <1>3 DEF SeenInv
<1> QED BY <1>1, <1>3, <1>6, <1>7, <1>9, <1>10, <1>11 DEF IInv

\* A call gets one part.
LEMMA EnsureKeepsIInv ==
    ASSUME IInv, NEW c \in Call, Ensure(c)
    PROVE  IInv'
<1>1. /\ TypeOK /\ StreamOrder /\ SeenInv /\ (turn # "streaming" => queue = <<>>)
      /\ ToSet(block.shown) \subseteq ledger /\ \A d \in Call : CallInv(d)
  BY DEF IInv
<1>2. HasPlace(c) /\ IsCut(c) /\ Phase(c) /\ Receipts(c) /\ Recorded(c) /\ Dims(c)
  BY <1>1 DEF CallInv
<1>3. /\ turn = "streaming" /\ seen = Idle /\ queue # <<>> /\ Head(queue).call = c
      /\ Head(queue).kind \in {"input", "call"} /\ c \notin tracked
      /\ transcript' = Append(transcript, c)
      /\ part' = [part EXCEPT ![c] = Pending]
      /\ seen' = [op |-> "track", call |-> c, part |-> Pending]
      /\ queue' = IF Head(queue).kind = "input" THEN Tail(queue) ELSE queue
      /\ UNCHANGED <<tracked, exec, stash, receipt, turn, calls, todo, cut, ledger, block, crashes>>
  BY DEF Ensure, Handling, tool
<1>4. /\ exec \in [Call -> Places] /\ queue \in Seq(EventSet) /\ part \in [Call -> Part]
      /\ transcript \in Seq(Call) /\ IsInjective(transcript)
  BY <1>1 DEF TypeOK, Places, EventSet
<1>5. /\ Head(queue).kind \in Said(c) /\ StreamOrder' /\ queue' \in Seq(EventSet)
      /\ Said(c)' = Said(c) \ {"input"}
      /\ \A d \in Call \ {c} : Said(d)' = Said(d)
  <2>1. /\ Head(queue).kind \in Said(c)
        /\ \A l \in Said(c) \ {Head(queue).kind} : Precedes(Head(queue).kind, l)
    BY <1>1, <1>3, <1>4, SaidTail
  <2>2. CASE Head(queue).kind = "input"
    BY <1>1, <1>3, <1>4, <2>2, SaidTail
  <2>3. CASE Head(queue).kind = "call"
    <3>1. queue' = queue /\ "input" \notin Said(c)
      BY <1>3, <2>1, <2>3 DEF Precedes, Outcomes
    <3> QED BY <1>1, <1>4, <2>1, <3>1, SaidSame
  <2> QED BY <1>3, <2>2, <2>3
<1>6. c \notin cut /\ c \notin Parts
  <2>1. seen.call # c
    BY <1>3, IdleHasNoCall
  <2> QED BY <1>2, <1>3, <1>5, <2>1
          DEF HasPlace, IsCut, Phase, Unmade, Tracking, Undecided, Called, Calling, Awaiting,
              Deciding, Settling, IsSettled, Outcomes
<1>7. /\ transcript' \in Seq(Call) /\ IsInjective(transcript') /\ Parts' = Parts \cup {c}
  <2> DEFINE n == Len(transcript)
  <2>1. /\ n \in Nat /\ DOMAIN transcript = 1 .. n /\ DOMAIN transcript' = 1 .. n + 1
        /\ transcript' \in Seq(Call) /\ transcript'[n + 1] = c
        /\ \A i \in 1 .. n : transcript'[i] = transcript[i]
    BY <1>3, <1>4
  <2> HIDE DEF n
  <2>2. \A i \in 1 .. n + 1 : i \in 1 .. n \/ i = n + 1
    BY <2>1
  <2>3. 1 .. n \subseteq 1 .. n + 1 /\ n + 1 \in 1 .. n + 1
    BY <2>1
  <2>4. \A i \in 1 .. n : transcript[i] # c
    BY <1>6, <2>1 DEF Parts, ToSet
  <2>5. IsInjective(transcript')
    BY <1>4, <2>1, <2>2, <2>4 DEF IsInjective
  <2>6. Parts' = Parts \cup {c}
    BY <2>1, <2>2, <2>3 DEF Parts, ToSet
  <2> QED BY <2>1, <2>5, <2>6
<1>8. Pending \in Part /\ Pending.status = "pending" /\ Pending.dim = None /\ Pending.receipt = FALSE
  BY DEF Pending, NoPart, Part, Status
<1>9. TypeOK'
  <2>1. part' \in [Call -> Part]
    BY <1>3, <1>4, <1>8
  <2>2. \A d \in Call : part'[d].status = "none" <=> d \notin Parts'
    BY <1>1, <1>3, <1>4, <1>7, <1>8 DEF TypeOK, Parts
  <2>3. tracked' \subseteq Parts'
    BY <1>1, <1>3, <1>7 DEF TypeOK, Parts
  <2>4. seen' \in Seen
    BY <1>3, <1>8 DEF Seen
  <2> QED BY <1>1, <1>3, <1>5, <1>7, <2>1, <2>2, <2>3, <2>4 DEF TypeOK, EventSet, Parts
<1>10. ASSUME NEW d \in Call \ {c} PROVE CallInv(d)'
  <2>1. seen.call # d /\ seen'.call # d
    BY <1>3, IdleHasNoCall
  <2> QED BY <1>1, <1>3, <1>4, <1>5, <1>7, <2>1, SameCall DEF Same
<1>11. CallInv(c)'
  <2>1. /\ part'[c] = Pending /\ c \in Parts' /\ seen.call # c
        /\ seen'.op = "track" /\ seen'.call = c /\ seen'.part = Pending
    BY <1>3, <1>4, <1>7, IdleHasNoCall
  <2>2. HasPlace(c)' /\ IsCut(c)'
    BY <1>2, <1>3, <1>5, <1>6, <1>8, <2>1 DEF HasPlace, IsCut
  <2>3. Phase(c)'
    BY <1>2, <1>3, <1>5, <1>6, <1>8, <2>1
    DEF HasPlace, Phase, Unmade, Tracking, Undecided, Called, Calling, Awaiting, Deciding, Settling,
        IsSettled, Outcomes, Settled
  <2>4. Receipts(c)' /\ Recorded(c)'
    BY <1>2, <1>3, <1>5, <1>6, <1>8, <2>1 DEF Receipts, Recorded, Settled
  <2>5. Dims(c)'
    BY <1>2, <1>3, <1>6, <1>8, <2>1 DEF Dims, DimOf, Settled, HasPlace
  <2> QED BY <2>2, <2>3, <2>4, <2>5 DEF CallInv
<1>12. SeenInv'
  BY <1>1, <1>3, <1>8 DEF SeenInv
<1> QED BY <1>1, <1>3, <1>5, <1>9, <1>10, <1>11, <1>12 DEF IInv

\* A call whose part has been written is tracked.
LEMMA TrackKeepsIInv ==
    ASSUME IInv, Track
    PROVE  IInv'
<1>1. /\ TypeOK /\ StreamOrder /\ SeenInv /\ (turn # "streaming" => queue = <<>>)
      /\ ToSet(block.shown) \subseteq ledger /\ \A d \in Call : CallInv(d)
  BY DEF IInv
<1>0. PICK c \in Call : c = seen.call
  BY <1>1 DEF Track, SeenInv
<1>2. /\ UNCHANGED <<transcript, part, exec, stash, receipt, turn, calls, queue, todo, cut,
                   ledger, block, crashes>>
      /\ seen.op = "track" /\ tracked' = tracked \cup {c} /\ seen' = Idle
  BY <1>0 DEF Track, tool
<1>3. turn = "streaming"
  BY <1>1, <1>2 DEF SeenInv
<1>4. HasPlace(c) /\ IsCut(c) /\ Phase(c) /\ Receipts(c) /\ Recorded(c) /\ Dims(c)
  BY <1>1 DEF CallInv
<1>5. StreamOrder' /\ (\A d : Said(d)' = Said(d)) /\ Parts' = Parts
  BY <1>1, <1>2, SaidSame DEF Parts
<1>6. c \in Parts /\ c \notin cut
  BY <1>0, <1>2, <1>4 DEF HasPlace, IsCut
<1>7. TypeOK'
  <2>1. Idle \in Seen
    BY DEF Idle, NoPart, Part, Status, Seen
  <2> QED BY <1>1, <1>2, <1>6, <2>1 DEF TypeOK, Parts
<1>8. \A d \in Call : seen'.call # d
  BY <1>2, IdleHasNoCall
<1>9. ASSUME NEW d \in Call \ {c} PROVE CallInv(d)'
  BY <1>0, <1>1, <1>2, <1>5, <1>8, SameCall DEF Same
<1>10. CallInv(c)'
  <2>1. HasPlace(c)' /\ IsCut(c)'
    BY <1>2, <1>4, <1>5, <1>6, <1>8 DEF HasPlace, IsCut
  <2>2. Phase(c)'
    <3>1. CASE exec[c] = "none"
      BY <1>2, <1>4, <1>5, <1>6, <1>8, <3>1 DEF Phase, Unmade
    <3>2. CASE exec[c] # "none"
      <4>1. Called(c)
        BY <1>0, <1>2, <1>4, <1>6, <3>2
        DEF Phase, Calling, Awaiting, Deciding, Settling, IsSettled, Outcomes
      <4>2. Called(c)'
        BY <1>2, <1>5, <1>8, <4>1 DEF Called, Undecided
      <4>3. "call" \in Said(c) /\ turn = "streaming" /\ c \in calls
        BY <1>0, <1>4, <1>6, <3>2, <4>1 DEF Phase, Called, IsSettled
      <4> QED BY <1>2, <1>4, <1>5, <1>6, <3>2, <4>2, <4>3 DEF Phase
    <3> QED BY <3>1, <3>2
  <2>3. Receipts(c)' /\ Recorded(c)' /\ Dims(c)'
    BY <1>2, <1>4, <1>5, <1>6, <1>8 DEF Receipts, Recorded, Dims, DimOf
  <2> QED BY <2>1, <2>2, <2>3 DEF CallInv
<1>11. SeenInv'
  BY <1>1, <1>2, <1>8 DEF SeenInv, Idle
<1> QED BY <1>1, <1>2, <1>3, <1>5, <1>7, <1>9, <1>10, <1>11 DEF IInv

\* The processor takes an event of the stream and reads the part of its call.
LEMMA ReadKeepsIInv ==
    ASSUME IInv, NEW c \in Call, ReadCall(c) \/ ReadOutcome(c)
    PROVE  IInv'
<1> USE DEF stored
<1>1. /\ TypeOK /\ StreamOrder /\ SeenInv /\ (turn # "streaming" => queue = <<>>)
      /\ ToSet(block.shown) \subseteq ledger /\ \A d \in Call : CallInv(d)
  BY DEF IInv
<1>2. HasPlace(c) /\ IsCut(c) /\ Phase(c) /\ Receipts(c) /\ Recorded(c) /\ Dims(c)
  BY <1>1 DEF CallInv
<1> DEFINE kind == Head(queue).kind
<1>3. /\ UNCHANGED <<stored, exec, stash, receipt, turn, calls, todo, cut, ledger, block, crashes>>
      /\ turn = "streaming" /\ seen = Idle /\ queue # <<>> /\ Head(queue).call = c
      /\ queue' = Tail(queue)
      /\ \/ kind = "call" /\ c \in tracked /\ seen' = [op |-> kind, call |-> c, part |-> part[c]]
         \/ /\ kind \in Outcomes
            /\ seen' = IF c \in tracked /\ part[c].status = "running"
                       THEN [op |-> kind, call |-> c, part |-> part[c]] ELSE Idle
  BY DEF ReadCall, ReadOutcome, Handling, tool, Outcomes
<1>4. queue \in Seq(EventSet) /\ part \in [Call -> Part]
  BY <1>1 DEF TypeOK, EventSet
<1>5. /\ kind \in Said(c) /\ StreamOrder' /\ queue' \in Seq(EventSet)
      /\ Said(c)' = Said(c) \ {kind}
      /\ \A l \in Said(c)' : Precedes(kind, l)
      /\ \A d \in Call \ {c} : Said(d)' = Said(d)
  BY <1>1, <1>3, <1>4, SaidTail
<1> HIDE DEF kind
<1>6. c \notin cut /\ seen.call # c
  BY <1>2, <1>3, <1>5, IdleHasNoCall DEF IsCut
<1>7. c \in tracked /\ (kind \in Outcomes => part[c].status = "running")
  BY <1>2, <1>3, <1>5, <1>6
  DEF Phase, Unmade, Tracking, Undecided, Called, Calling, Awaiting, Deciding, Settling, IsSettled,
      Outcomes,
      Precedes
<1>8. seen' = [op |-> kind, call |-> c, part |-> part[c]]
  BY <1>3, <1>7
<1>9. /\ seen'.op = kind /\ seen'.call = c /\ seen'.part = part[c]
      /\ kind \in {"call", "result", "failure"}
      /\ part[c].status \in {"pending", "running"} /\ c \in Parts /\ c \in calls
      /\ exec[c] # "none" /\ (kind \in Outcomes => exec[c] = "done")
      /\ kind \in Outcomes => Said(c)' = {}
      /\ kind = "call" => Said(c)' \subseteq Outcomes
  <2>1. /\ seen'.op = kind /\ seen'.call = c /\ seen'.part = part[c]
        /\ kind \in {"call", "result", "failure"} /\ c \in Parts
    BY <1>2, <1>3, <1>7, <1>8 DEF Outcomes, HasPlace
  <2>2. /\ kind \in Outcomes => Said(c)' = {}
        /\ kind = "call" => Said(c)' \subseteq Outcomes
    BY <1>5, <2>1 DEF Precedes, Outcomes
  <2>3. exec[c] # "none"
    BY <1>2, <1>5, <1>6, <2>1 DEF Phase, Unmade
  <2>4. (kind \in Outcomes => exec[c] = "done") /\ c \in calls
    BY <1>2, <1>5, <1>6, <2>3 DEF Phase, IsSettled
  <2>5. part[c].status \in {"pending", "running"}
    BY <1>2, <1>5, <1>6, <1>7, <2>1, <2>3
    DEF HasPlace, Phase, Unmade, Tracking, Undecided, Called, Calling, Awaiting, Deciding, Settling,
        IsSettled, Outcomes
  <2> QED BY <2>1, <2>2, <2>3, <2>4, <2>5
<1>10. TypeOK'
  <2>1. seen' \in Seen
    BY <1>4, <1>8, <1>9 DEF Seen
  <2> QED BY <1>1, <1>3, <1>5, <2>1 DEF TypeOK, EventSet
<1>11. Parts' = Parts
  BY <1>3 DEF Parts
<1>12. ASSUME NEW d \in Call \ {c} PROVE CallInv(d)'
  <2>1. seen.call # d /\ seen'.call # d
    BY <1>3, <1>9, IdleHasNoCall
  <2> QED BY <1>1, <1>3, <1>5, <1>11, <2>1, SameCall DEF Same
<1>13. CallInv(c)'
  <2>1. HasPlace(c)' /\ IsCut(c)'
    BY <1>2, <1>3, <1>5, <1>6, <1>9, <1>11 DEF HasPlace, IsCut
  <2>2. Phase(c)'
    <3>1. CASE kind = "call"
      BY <1>2, <1>3, <1>5, <1>6, <1>7, <1>9, <3>1
      DEF Phase, Calling, Called, Undecided, IsSettled, Outcomes
    <3>2. CASE kind \in Outcomes
      BY <1>3, <1>5, <1>6, <1>7, <1>9, <3>2 DEF Phase, Deciding
    <3> QED BY <1>9, <3>1, <3>2 DEF Outcomes
  <2>3. Receipts(c)' /\ Recorded(c)'
    BY <1>2, <1>3, <1>5, <1>9 DEF Receipts, Recorded
  <2>4. Dims(c)'
    BY <1>2, <1>3, <1>6, <1>9 DEF Dims, DimOf
  <2> QED BY <2>1, <2>2, <2>3, <2>4 DEF CallInv
<1>14. SeenInv'
  BY <1>1, <1>3, <1>9 DEF SeenInv
<1> QED BY <1>1, <1>3, <1>5, <1>10, <1>12, <1>13, <1>14 DEF IInv

\* The part that the processor or cleanup writes over the one it has read.
LEMMA SuccessorOf ==
    ASSUME NEW c \in Call, NEW p \in Part, NEW op \in {"call", "result", "failure", "close"},
           receipt \in [Call -> BOOLEAN], DimOf(c, p), p.status # "none",
           op = "call" => p.status \in {"pending", "running"}
    PROVE  LET q == Successor(op, c, p) IN
           /\ q \in Part /\ DimOf(c, q) /\ q.status \notin {"none", "pending"}
           /\ op = "call" => q.status = "running"
           /\ op # "call" => q.status \in Settled
           /\ op = "result" => q.status = "completed" /\ q.receipt = receipt[c]
           /\ q.receipt => receipt[c] \/ p.receipt
           /\ op = "result" => q.dim = DimensionOf[c]
           /\ op # "result" => q.dim = p.dim
<1>1. CASE op = "call"
  <2> DEFINE dim == IF p.status = "running" THEN p.dim ELSE None
  <2>1. Successor(op, c, p) = Running(dim)
    BY <1>1 DEF Successor
  <2>2. dim = p.dim /\ dim \in Dimension \cup {None}
    BY <1>1 DEF DimOf, Part
  <2> HIDE DEF dim
  <2>3. /\ Running(dim) \in Part /\ Running(dim).status = "running" /\ Running(dim).dim = dim
        /\ Running(dim).receipt = FALSE
    BY <2>2 DEF Running, NoPart, Part, Status
  <2> QED BY <1>1, <2>1, <2>2, <2>3 DEF DimOf
<1>2. CASE op = "result"
  <2>1. Successor(op, c, p) = Completed(c)
    BY <1>2 DEF Successor
  <2>2. /\ Completed(c) \in Part /\ Completed(c).status = "completed"
        /\ Completed(c).receipt = receipt[c] /\ Completed(c).dim = DimensionOf[c]
    BY CallAssumption DEF Completed, Part, Status
  <2> QED BY <1>2, <2>1, <2>2 DEF DimOf, Settled
<1>3. CASE op \in {"failure", "close"}
  <2>1. Successor(op, c, p) = Failed(p)
    BY <1>3 DEF Successor
  <2>2. /\ Failed(p) \in Part /\ Failed(p).status = "error"
        /\ Failed(p).receipt = p.receipt /\ Failed(p).dim = p.dim
    BY DEF Failed, Part, Status
  <2> QED BY <1>3, <2>1, <2>2 DEF DimOf, Settled
<1> QED BY <1>1, <1>2, <1>3

\* The successor of the part in hand is written.
LEMMA WriteKeepsIInv ==
    ASSUME IInv, WritePart
    PROVE  IInv'
<1>1. /\ TypeOK /\ StreamOrder /\ SeenInv /\ (turn # "streaming" => queue = <<>>)
      /\ ToSet(block.shown) \subseteq ledger /\ \A d \in Call : CallInv(d)
  BY DEF IInv
<1>0. PICK c \in Call : c = seen.call
  BY <1>1 DEF WritePart, SeenInv
<1> DEFINE q == Successor(seen.op, c, seen.part)
<1>2. /\ UNCHANGED <<transcript, tracked, exec, stash, receipt, turn, calls, queue, todo, cut,
                   ledger, block, crashes>>
      /\ seen.op \in {"call", "result", "failure"} /\ part' = [part EXCEPT ![c] = q]
      /\ seen' = IF seen.op = "call" THEN Idle ELSE [seen EXCEPT !.op = "settle"]
  BY <1>0 DEF WritePart, tool
<1>3. c \in Call /\ turn = "streaming"
  BY <1>1, <1>2 DEF SeenInv
<1>4. HasPlace(c) /\ IsCut(c) /\ Phase(c) /\ Receipts(c) /\ Recorded(c) /\ Dims(c)
  BY <1>1, <1>3 DEF CallInv
<1>5. /\ part \in [Call -> Part] /\ seen.part \in Part /\ receipt \in [Call -> BOOLEAN]
      /\ seen \in Seen
  BY <1>1 DEF TypeOK, Seen
<1>6. /\ q \in Part /\ DimOf(c, q) /\ q.status \notin {"none", "pending"}
      /\ seen.op = "call" => q.status = "running"
      /\ seen.op # "call" => q.status \in Settled
      /\ seen.op = "result" => q.status = "completed" /\ q.receipt = receipt[c]
      /\ q.receipt => receipt[c]
  <2>1. /\ DimOf(c, seen.part) /\ seen.part.status # "none"
        /\ seen.op = "call" => seen.part.status \in {"pending", "running"}
    BY <1>0, <1>1, <1>2, <1>4 DEF Dims, SeenInv
  <2>2. seen.part.receipt => receipt[c]
    BY <1>0, <1>4 DEF Receipts
  <2>3. /\ q \in Part /\ DimOf(c, q) /\ q.status \notin {"none", "pending"}
        /\ seen.op = "call" => q.status = "running"
        /\ seen.op # "call" => q.status \in Settled
        /\ seen.op = "result" => q.status = "completed" /\ q.receipt = receipt[c]
        /\ q.receipt => receipt[c] \/ seen.part.receipt
    BY <1>2, <1>3, <1>5, <2>1, SuccessorOf
  <2> QED BY <2>2, <2>3
<1> HIDE DEF q
<1>7. c = seen.call
  BY <1>0
<1>8. StreamOrder' /\ (\A d : Said(d)' = Said(d)) /\ Parts' = Parts
  BY <1>1, <1>2, SaidSame DEF Parts
<1>9. /\ seen' \in Seen
      /\ \/ seen.op = "call" /\ seen' = Idle /\ \A d \in Call : seen'.call # d
         \/ /\ seen.op \in Outcomes /\ seen'.op = "settle" /\ seen'.call = c
            /\ seen'.part = seen.part
  <2>1. CASE seen.op = "call"
    <3>1. Idle \in Seen
      BY DEF Idle, NoPart, Part, Status, Seen
    <3> QED BY <1>2, <2>1, <3>1, IdleHasNoCall
  <2>2. CASE seen.op # "call"
    BY <1>2, <1>5, <1>7, <2>2 DEF Outcomes, Seen
  <2> QED BY <2>1, <2>2
<1>10. TypeOK'
  <2>1. part' \in [Call -> Part]
    BY <1>2, <1>3, <1>5, <1>6
  <2>2. \A d \in Call : part'[d].status = "none" <=> d \notin ToSet(transcript)
    BY <1>1, <1>2, <1>3, <1>4, <1>5, <1>6, <1>7 DEF TypeOK, Parts, HasPlace
  <2> QED BY <1>1, <1>2, <1>9, <2>1, <2>2 DEF TypeOK
<1>11. ASSUME NEW d \in Call \ {c} PROVE CallInv(d)'
  <2>1. seen.call # d /\ seen'.call # d
    BY <1>7, <1>9
  <2> QED BY <1>1, <1>2, <1>3, <1>5, <1>8, <2>1, SameCall DEF Same
<1>12. CallInv(c)'
  <2>1. part'[c] = q
    BY <1>2, <1>3, <1>5
  <2>2. c \notin cut
    BY <1>2, <1>4, <1>7 DEF IsCut
  <2>3. HasPlace(c)' /\ IsCut(c)'
    BY <1>2, <1>4, <1>6, <1>7, <1>8, <1>9, <2>1, <2>2 DEF HasPlace, IsCut
  <2>4. exec[c] # "none" /\ ~IsSettled(c)
    BY <1>2, <1>4, <1>7, <2>2 DEF Phase, Unmade, Tracking, IsSettled
  <2>5. Phase(c)'
    <3>1. CASE seen.op = "call"
      <4>1. Calling(c) /\ "call" \notin Said(c)
        BY <1>4, <1>7, <2>2, <2>4, <3>1
        DEF Phase, Called, Tracking, Awaiting, Deciding, Settling, Outcomes
      <4>2. /\ c \in calls /\ Undecided(c)
            /\ Said(c) \subseteq Outcomes
            /\ (Said(c) \cap Outcomes # {} => exec[c] = "done")
        BY <1>4, <2>2, <2>4, <4>1 DEF Phase, Calling, Undecided
      <4>3. Undecided(c)'
        BY <1>2, <1>8, <4>2 DEF Undecided
      <4>4. Awaiting(c)'
        BY <1>2, <1>3, <1>6, <1>9, <2>1, <3>1, <4>1, <4>3 DEF Calling, Awaiting, Outcomes
      <4>5. exec'[c] # "none" /\ turn' = "streaming" /\ Said(c)' = Said(c)
        BY <1>2, <1>3, <1>8, <2>4
      <4> QED BY <1>2, <4>1, <4>2, <4>4, <4>5 DEF Phase, Outcomes
    <3>2. CASE seen.op \in Outcomes
      <4>1. Deciding(c) /\ c \in calls
        BY <1>4, <1>7, <2>2, <2>4, <3>2
        DEF Phase, Called, Tracking, Awaiting, Calling, Settling, Outcomes
      <4> QED BY <1>2, <1>3, <1>6, <1>8, <1>9, <2>1, <3>2, <4>1
              DEF Phase, Deciding, Settling, Outcomes
    <3> QED BY <1>2, <3>1, <3>2 DEF Outcomes
  <2>6. Receipts(c)'
    BY <1>2, <1>4, <1>6, <1>7, <1>9, <2>1 DEF Receipts
  <2>7. Recorded(c)'
    BY <1>2, <1>4, <1>6, <1>7, <1>8, <1>9, <2>1, <2>2 DEF Recorded, Receipts, Outcomes, Settled
  <2>8. Dims(c)'
    <3>1. seen.op = "call" /\ exec[c] = "declaring" => stash[c].status \notin Settled
      BY <1>4, <2>2 DEF Dims, Settled
    <3> QED BY <1>2, <1>4, <1>6, <1>7, <1>9, <2>1, <2>2, <3>1 DEF Dims, DimOf, Settled
  <2> QED BY <2>3, <2>5, <2>6, <2>7, <2>8 DEF CallInv
<1>13. SeenInv'
  <2>1. (seen.op # "call" => seen.part.status # "none") /\ todo' = {}
    BY <1>1, <1>2, <1>3 DEF SeenInv
  <2> QED BY <1>2, <1>3, <1>9, <2>1, IdleHasNoCall DEF SeenInv, Outcomes, Idle
<1> QED BY <1>1, <1>2, <1>3, <1>8, <1>10, <1>11, <1>12, <1>13 DEF IInv

\* A call whose outcome has been written is no longer tracked.
LEMMA SettleKeepsIInv ==
    ASSUME IInv, SettleCall
    PROVE  IInv'
<1>1. /\ TypeOK /\ StreamOrder /\ SeenInv /\ (turn # "streaming" => queue = <<>>)
      /\ ToSet(block.shown) \subseteq ledger /\ \A d \in Call : CallInv(d)
  BY DEF IInv
<1>0. PICK c \in Call : c = seen.call
  BY <1>1 DEF SettleCall, SeenInv
<1>2. /\ UNCHANGED <<transcript, part, exec, stash, receipt, turn, calls, queue, todo, cut,
                   ledger, block, crashes>>
      /\ seen.op = "settle" /\ tracked' = tracked \ {c} /\ seen' = Idle
  BY <1>0 DEF SettleCall, tool
<1>3. c \in Call /\ turn = "streaming"
  BY <1>1, <1>2 DEF SeenInv
<1>4. HasPlace(c) /\ IsCut(c) /\ Phase(c) /\ Receipts(c) /\ Recorded(c) /\ Dims(c)
  BY <1>1, <1>3 DEF CallInv
<1>5. StreamOrder' /\ (\A d : Said(d)' = Said(d)) /\ Parts' = Parts
  BY <1>1, <1>2, SaidSame DEF Parts
<1>6. TypeOK'
  <2>1. Idle \in Seen
    BY DEF Idle, NoPart, Part, Status, Seen
  <2> QED BY <1>1, <1>2, <2>1 DEF TypeOK
<1>7. \A d \in Call : seen'.call # d
  BY <1>2, IdleHasNoCall
<1>8. ASSUME NEW d \in Call \ {c} PROVE CallInv(d)'
  BY <1>1, <1>2, <1>5, <1>7, SameCall, <1>0 DEF Same
<1>9. CallInv(c)'
  <2>1. c \notin cut
    BY <1>0, <1>2, <1>4 DEF IsCut
  <2>2. exec[c] # "none" /\ Settling(c)
    BY <1>0, <1>2, <1>4, <2>1
    DEF Phase, Unmade, Tracking, Undecided, Called, Calling, Awaiting, Deciding, Settling,
        IsSettled, Outcomes
  <2>3. HasPlace(c)' /\ IsCut(c)'
    BY <1>2, <1>3, <1>4, <1>5, <1>7, <2>1 DEF HasPlace, IsCut
  <2>4. Phase(c)'
    BY <1>2, <1>3, <1>5, <1>7, <2>2 DEF Phase, Settling, IsSettled
  <2>5. Receipts(c)' /\ Recorded(c)' /\ Dims(c)'
    BY <1>2, <1>3, <1>4, <1>5, <1>7, <2>1 DEF Receipts, Recorded, Dims, DimOf
  <2> QED BY <2>3, <2>4, <2>5 DEF CallInv
<1>10. SeenInv'
  BY <1>1, <1>2, <1>7 DEF SeenInv, Idle
<1> QED BY <1>1, <1>2, <1>3, <1>5, <1>6, <1>8, <1>9, <1>10 DEF IInv

----------------------------------------------------------------------------
(* The end of a turn *)

\* Wherever the stream stops, the calls of the turn that are not cut are settled.
LEMMA StreamOver ==
    ASSUME IInv, turn = "streaming", turn' \in {"streaming", "draining"},
           UNCHANGED <<stored, tool, calls, todo, ledger, block, crashes>>,
           queue' = <<>>, seen' = Idle,
           cut \subseteq cut', cut' \subseteq cut \cup calls,
           \A c \in calls \ cut' : IsSettled(c)
    PROVE  IInv'
<1> USE DEF stored, tool
<1>1. /\ TypeOK /\ StreamOrder /\ SeenInv
      /\ ToSet(block.shown) \subseteq ledger /\ \A d \in Call : CallInv(d)
  BY DEF IInv
<1>2. StreamOrder' /\ (\A d : Said(d)' = {}) /\ Parts' = Parts
  BY SaidNothing DEF Parts
<1>3. \A d \in Call : seen'.call # d
  BY IdleHasNoCall
<1>4. TypeOK'
  <2>1. Idle \in Seen
    BY DEF Idle, NoPart, Part, Status, Seen
  <2>2. queue' \in Seq([kind : {"input", "call", "result", "failure"}, call : Call])
    OBVIOUS
  <2> QED BY <1>1, <2>1, <2>2 DEF TypeOK
<1>5. ASSUME NEW c \in Call PROVE CallInv(c)'
  <2>1. HasPlace(c) /\ IsCut(c) /\ Phase(c) /\ Receipts(c) /\ Recorded(c) /\ Dims(c)
    BY <1>1 DEF CallInv
  <2>2. HasPlace(c)' /\ IsCut(c)'
    BY <1>2, <1>3, <2>1 DEF HasPlace, IsCut
  <2>3. Phase(c)'
    <3>1. CASE c \in cut'
      BY <3>1 DEF Phase
    <3>2. CASE c \notin cut' /\ exec[c] = "none"
      <4>1. Unmade(c)
        BY <2>1, <3>2 DEF Phase
      <4>2. c \notin calls
        BY <3>2 DEF IsSettled
      <4> QED BY <1>2, <1>3, <3>2, <4>1, <4>2 DEF Phase, Unmade
    <3>3. CASE c \notin cut' /\ exec[c] # "none"
      <4>1. IsSettled(c)
        BY <2>1, <3>3 DEF Phase
      <4>2. IsSettled(c)'
        BY <1>2, <1>3, <4>1 DEF IsSettled
      <4> QED BY <1>2, <3>3, <4>2 DEF Phase
    <3> QED BY <3>1, <3>2, <3>3
  <2>4. Receipts(c)' /\ Recorded(c)'
    BY <1>2, <1>3, <2>1 DEF Receipts, Recorded
  <2>5. Dims(c)'
    <3>1. c \in calls \ cut /\ exec[c] \in {"begun", "declaring"} => part[c].status \notin Settled
      BY <2>1 DEF Phase, Called, Calling, Awaiting, Deciding, Settling, IsSettled, Settled
    <3> QED BY <1>3, <2>1, <3>1 DEF Dims, DimOf
  <2> QED BY <2>2, <2>3, <2>4, <2>5 DEF CallInv
<1>6. SeenInv'
  BY <1>1, <1>3, IdleHasNoCall DEF SeenInv
<1> QED BY <1>1, <1>2, <1>4, <1>5, <1>6 DEF IInv

\* A finished call is one that the processor has settled.
LEMMA FinishedIsSettled ==
    ASSUME IInv
    PROVE  \A c \in calls \ (cut \cup Unfinished) : IsSettled(c)
<1> SUFFICES ASSUME NEW c \in calls \ (cut \cup Unfinished) PROVE IsSettled(c)
  OBVIOUS
<1>1. c \in Call /\ Phase(c)
  BY DEF IInv, TypeOK, CallInv
<1>2. exec[c] = "done" /\ c \notin tracked /\ Said(c) = {}
  BY DEF Unfinished, Said
<1> QED BY <1>1, <1>2 DEF Phase, Called, Calling, Awaiting, Deciding, Settling

\* The stream ends, fails or is interrupted.
LEMMA StopKeepsIInv ==
    ASSUME IInv, StreamEnds \/ StreamFails \/ Interrupt
    PROVE  IInv'
<1>1. CASE StreamEnds
  <2>1. /\ UNCHANGED <<stored, tool, calls, queue, seen, todo, cut, ledger, block, crashes>>
        /\ turn = "streaming" /\ turn' = "draining" /\ seen = Idle /\ queue = <<>>
        /\ \A c \in calls : exec[c] = "done"
    BY <1>1 DEF StreamEnds
  <2>2. ASSUME NEW c \in calls \ cut PROVE IsSettled(c)
    <3>1. c \in Call /\ Phase(c)
      BY DEF IInv, TypeOK, CallInv
    <3>2. exec[c] = "done" /\ Said(c) = {} /\ seen.call # c
      BY <2>1, <3>1, SaidNothing, IdleHasNoCall
    <3> QED BY <3>1, <3>2
            DEF Phase, Called, Calling, Awaiting, Undecided, Deciding, Settling
  <2> QED BY <2>1, <2>2, StreamOver
<1>2. CASE StreamFails
  BY <1>2, FinishedIsSettled, StreamOver DEF StreamFails, Unfinished
<1>3. CASE Interrupt
  BY <1>3, FinishedIsSettled, StreamOver DEF Interrupt, Unfinished
<1> QED BY <1>1, <1>2, <1>3

\* A turn begins: the calls of the one before are cut or settled.
LEMMA StartKeepsIInv ==
    ASSUME IInv, StartTurn
    PROVE  IInv'
<1> USE DEF stored, tool
<1>1. /\ TypeOK /\ StreamOrder /\ SeenInv /\ (turn # "streaming" => queue = <<>>)
      /\ ToSet(block.shown) \subseteq ledger /\ \A d \in Call : CallInv(d)
  BY DEF IInv
<1>2. /\ UNCHANGED <<stored, tool, queue, seen, todo, cut, ledger, block, crashes>>
      /\ turn = "idle" /\ turn' = "streaming" /\ calls' = {} /\ todo = {} /\ queue = <<>>
      /\ seen = Idle
  <2>1. seen.op = "none"
    BY <1>1 DEF StartTurn, SeenInv, TypeOK, Seen
  <2> QED BY <1>1, <2>1 DEF StartTurn, SeenInv
<1>3. /\ StreamOrder' /\ Parts' = Parts /\ \A d : Said(d) = {} /\ Said(d)' = {}
      /\ \A d \in Call : seen.call # d /\ seen'.call # d
  BY <1>1, <1>2, SaidSame, SaidNothing, IdleHasNoCall DEF Parts
<1>4. TypeOK'
  BY <1>1, <1>2 DEF TypeOK
<1>5. ASSUME NEW c \in Call PROVE CallInv(c)'
  <2>1. HasPlace(c) /\ IsCut(c) /\ Phase(c) /\ Receipts(c) /\ Recorded(c) /\ Dims(c)
    BY <1>1 DEF CallInv
  <2>2. HasPlace(c)' /\ IsCut(c)' /\ Receipts(c)' /\ Recorded(c)'
    BY <1>2, <1>3, <2>1 DEF HasPlace, IsCut, Receipts, Recorded
  <2>3. Phase(c)'
    BY <1>2, <1>3, <2>1 DEF Phase, Unmade, Tracking, IsSettled
  <2>4. Dims(c)'
    BY <1>2, <1>3, <2>1 DEF Dims, DimOf
  <2> QED BY <2>2, <2>3, <2>4 DEF CallInv
<1>6. SeenInv'
  BY <1>1, <1>2 DEF SeenInv
<1> QED BY <1>1, <1>2, <1>3, <1>4, <1>5, <1>6 DEF IInv

\* Once the stream is over, a call that is still tracked and was made in the turn is cut.
LEMMA TrackedIsCut ==
    ASSUME NEW c \in Call, Phase(c), SeenInv, turn # "streaming"
    PROVE  /\ c \in calls /\ c \in tracked => c \in cut
           /\ seen.call = c => c \in cut
BY DEF Phase, Unmade, Tracking, IsSettled, SeenInv

\* Cleanup gives up waiting, goes through the calls it tracks, and ends the turn.
LEMMA CleanupKeepsIInv ==
    ASSUME IInv, GiveUp \/ (\E c \in Call : ReadToClose(c)) \/ EndTurn
    PROVE  IInv'
<1>1. /\ TypeOK /\ StreamOrder /\ SeenInv /\ (turn # "streaming" => queue = <<>>)
      /\ ToSet(block.shown) \subseteq ledger /\ \A d \in Call : CallInv(d)
  BY DEF IInv
<1>2. /\ UNCHANGED <<transcript, part, exec, stash, receipt, calls, queue, cut, ledger, block,
                   crashes>>
      /\ turn \in {"draining", "closing"} /\ turn' \in {"closing", "idle"}
      /\ tracked' \subseteq tracked /\ tracked \cap cut \subseteq tracked' \cup calls
      /\ todo' \subseteq calls /\ (turn' = "idle" => todo' = {})
      /\ \/ turn = "draining" /\ todo' = tracked \cap calls
         \/ turn = "closing" /\ todo' \subseteq todo
      /\ \/ seen' = seen
         \/ /\ turn = "closing" /\ seen = Idle
            /\ \/ seen' = Idle
               \/ \E c \in todo \cap tracked :
                    /\ seen' = [op |-> "close", call |-> c, part |-> part[c]]
                    /\ turn' = "closing" /\ c \notin todo'
      /\ turn' = "idle" => seen' = Idle
  BY <1>1 DEF GiveUp, ReadToClose, EndTurn, TypeOK, stored, tool
<1>3. StreamOrder' /\ Parts' = Parts /\ queue = <<>> /\ \A d : Said(d) = {} /\ Said(d)' = {}
  BY <1>1, <1>2, SaidSame, SaidNothing DEF Parts
<1>4. /\ seen' \in Seen
      /\ \A c \in Call : seen'.call = c =>
            \/ seen' = seen
            \/ /\ seen'.op = "close" /\ seen'.part = part[c] /\ c \in calls /\ c \in Parts
               /\ turn = "closing" /\ turn' = "closing"
               /\ c \in todo /\ c \in tracked /\ c \notin todo'
  <2>1. CASE seen' = seen
    BY <1>1, <2>1 DEF TypeOK
  <2>2. CASE seen' = Idle
    <3>1. Idle \in Seen
      BY DEF Idle, NoPart, Part, Status, Seen
    <3> QED BY <2>2, <3>1, IdleHasNoCall
  <2>3. ASSUME NEW c \in todo \cap tracked, turn = "closing", turn' = "closing", c \notin todo',
               seen' = [op |-> "close", call |-> c, part |-> part[c]]
        PROVE  <1>4!:
    BY <1>1, <2>3 DEF TypeOK, Parts, Seen
  <2> QED BY <1>2, <2>1, <2>2, <2>3
<1>5. TypeOK'
  BY <1>1, <1>2, <1>4 DEF TypeOK
<1>6. ASSUME NEW c \in Call PROVE CallInv(c)'
  <2>1. HasPlace(c) /\ IsCut(c) /\ Phase(c) /\ Receipts(c) /\ Recorded(c) /\ Dims(c)
    BY <1>1 DEF CallInv
  <2>2. /\ c \in calls /\ c \in tracked => c \in cut
        /\ seen.call = c => c \in cut
    BY <1>1, <1>2, <2>1, TrackedIsCut
  <2>3. HasPlace(c)'
    BY <1>2, <1>3, <1>4, <2>1 DEF HasPlace
  <2>4. IsCut(c)'
    <3>1. seen.op = "close" => turn = "closing"
      BY <1>1 DEF SeenInv
    <3> QED BY <1>2, <1>3, <1>4, <2>1, <3>1 DEF IsCut
  <2>5. Phase(c)'
    BY <1>2, <1>3, <1>4, <2>1, <2>2 DEF Phase, Unmade, Tracking, IsSettled
  <2>6. Receipts(c)' /\ Recorded(c)'
    BY <1>2, <1>3, <1>4, <2>1 DEF Receipts, Recorded
  <2>7. Dims(c)'
    BY <1>2, <1>3, <1>4, <2>1 DEF Dims, DimOf
  <2> QED BY <2>3, <2>4, <2>5, <2>6, <2>7 DEF CallInv
<1>7. SeenInv'
  <2>1. todo' = {} \/ turn' = "closing"
    BY <1>2
  <2>2. CASE seen' = seen
    <3>1. seen.op \in {"none", "close"}
      BY <1>1, <1>2 DEF SeenInv, TypeOK, Seen
    <3>2. seen.op = "close" => turn' = "closing"
      BY <1>2, <2>2, IdleHasNoCall
    <3> QED BY <1>1, <2>1, <2>2, <3>1, <3>2 DEF SeenInv
  <2>3. CASE seen' = Idle
    BY <2>1, <2>3, IdleHasNoCall DEF SeenInv
  <2>4. ASSUME NEW c \in todo \cap tracked, turn' = "closing",
               seen' = [op |-> "close", call |-> c, part |-> part[c]]
        PROVE  SeenInv'
    <3>1. c \in Call /\ part[c].status # "none"
      BY <1>1 DEF TypeOK
    <3> QED BY <2>4, <3>1 DEF SeenInv
  <2> QED BY <1>2, <2>2, <2>3, <2>4
<1> QED BY <1>1, <1>2, <1>3, <1>5, <1>6, <1>7 DEF IInv

\* Cleanup closes a call that was cut; a declaration that has read its part before
\* finds it unsettled.
LEMMA CloseKeepsIInv ==
    ASSUME IInv, Close
    PROVE  IInv'
<1>1. /\ TypeOK /\ StreamOrder /\ SeenInv /\ (turn # "streaming" => queue = <<>>)
      /\ ToSet(block.shown) \subseteq ledger /\ \A d \in Call : CallInv(d)
  BY DEF IInv
<1>2. PICK c \in Call : c = seen.call
  BY <1>1 DEF Close, SeenInv
<1> DEFINE q == Successor("close", c, seen.part)
<1>3. /\ UNCHANGED <<transcript, tracked, exec, stash, receipt, turn, calls, queue, todo, cut,
                   ledger, block, crashes>>
      /\ seen.op = "close" /\ part' = [part EXCEPT ![c] = q] /\ seen' = Idle
  BY <1>2 DEF Close, tool
<1>4. HasPlace(c) /\ IsCut(c) /\ Phase(c) /\ Receipts(c) /\ Recorded(c) /\ Dims(c)
  BY <1>1 DEF CallInv
<1>5. turn = "closing" /\ seen.part.status # "none" /\ c \in cut
  <2>1. turn = "closing" /\ seen.part.status # "none"
    BY <1>1, <1>3 DEF SeenInv
  <2> QED BY <1>1, <1>2, <1>4, <2>1, TrackedIsCut
<1>6. part \in [Call -> Part] /\ seen.part \in Part /\ receipt \in [Call -> BOOLEAN]
  BY <1>1 DEF TypeOK, Seen
<1>7. /\ q \in Part /\ DimOf(c, q) /\ q.status \in Settled
      /\ q.receipt => receipt[c]
  <2>1. DimOf(c, seen.part) /\ (seen.part.receipt => receipt[c])
    BY <1>2, <1>4 DEF Dims, Receipts
  <2> QED BY <1>5, <1>6, <2>1, SuccessorOf
<1> HIDE DEF q
<1>8. /\ StreamOrder' /\ (\A d : Said(d)' = Said(d)) /\ Parts' = Parts
      /\ \A d \in Call : seen'.call # d
  BY <1>1, <1>3, SaidSame, IdleHasNoCall DEF Parts
<1>9. part' \in [Call -> Part] /\ part'[c] = q
  BY <1>3, <1>6, <1>7
<1>10. TypeOK'
  <2>1. Idle \in Seen
    BY DEF Idle, NoPart, Part, Status, Seen
  <2>2. \A d \in Call : part'[d].status = "none" <=> d \notin ToSet(transcript)
    BY <1>1, <1>2, <1>3, <1>4, <1>6, <1>7 DEF TypeOK, Parts, HasPlace, Settled
  <2> QED BY <1>1, <1>3, <1>9, <2>1, <2>2 DEF TypeOK
<1>11. ASSUME NEW d \in Call \ {c} PROVE CallInv(d)'
  BY <1>1, <1>2, <1>3, <1>6, <1>8, SameCall DEF Same
<1>12. CallInv(c)'
  <2>1. HasPlace(c)' /\ IsCut(c)'
    BY <1>2, <1>3, <1>4, <1>5, <1>7, <1>8, <1>9 DEF HasPlace, IsCut, Settled
  <2>2. Phase(c)' /\ Receipts(c)' /\ Recorded(c)'
    BY <1>3, <1>4, <1>5, <1>7, <1>8, <1>9 DEF Phase, Receipts, Recorded
  <2>3. Dims(c)'
    <3>1. exec[c] = "declaring" => stash[c].status \notin Settled
      BY <1>2, <1>4, <1>5 DEF Dims
    <3>2. c \notin todo
      BY <1>2, <1>4, <1>5 DEF IsCut
    <3> QED BY <1>3, <1>4, <1>5, <1>7, <1>8, <1>9, <3>1, <3>2 DEF Dims, DimOf
  <2> QED BY <2>1, <2>2, <2>3 DEF CallInv
<1>13. SeenInv'
  BY <1>3, <1>5, <1>8, IdleHasNoCall DEF SeenInv
<1> QED BY <1>1, <1>3, <1>5, <1>8, <1>10, <1>11, <1>12, <1>13 DEF IInv

\* The process dies: every call that was made is over, and cut unless it was settled.
LEMMA CrashKeepsIInv ==
    ASSUME IInv, Crash
    PROVE  IInv'
<1>1. /\ TypeOK /\ StreamOrder /\ SeenInv /\ (turn # "streaming" => queue = <<>>)
      /\ ToSet(block.shown) \subseteq ledger /\ \A d \in Call : CallInv(d)
  BY DEF IInv
<1>2. /\ cut' = cut \cup Unfinished /\ stash' = [c \in Call |-> NoPart]
      /\ exec' = [c \in Call |-> IF exec[c] = "none" THEN "none" ELSE "done"]
      /\ tracked' = {} /\ turn' = "idle" /\ calls' = {} /\ queue' = <<>> /\ seen' = Idle
      /\ todo' = {} /\ crashes < MaxCrashes /\ crashes' = crashes + 1
      /\ UNCHANGED <<transcript, part, receipt, ledger, block>>
  BY DEF Crash
<1>3. /\ StreamOrder' /\ (\A d : Said(d)' = {}) /\ Parts' = Parts
      /\ \A d \in Call : seen'.call # d
  BY <1>2, SaidNothing, IdleHasNoCall DEF Parts
<1>4. NoPart \in Part /\ NoPart.receipt = FALSE
  BY DEF NoPart, Part, Status
<1>5. TypeOK'
  <2>1. Idle \in Seen
    BY <1>4 DEF Idle, Seen
  <2>2. cut' \subseteq Call
    BY <1>1, <1>2 DEF TypeOK, Unfinished
  <2>3. exec' \in [Call -> Places] /\ stash' \in [Call -> Part]
    BY <1>2, <1>4 DEF Places
  <2>4. crashes' \in 0 .. MaxCrashes
    BY <1>1, <1>2, CallAssumption DEF TypeOK
  <2>5. queue' \in Seq([kind : {"input", "call", "result", "failure"}, call : Call])
    BY <1>2
  <2> QED BY <1>1, <1>2, <2>1, <2>2, <2>3, <2>4, <2>5 DEF TypeOK, Places
<1>6. ASSUME NEW c \in Call PROVE CallInv(c)'
  <2>1. HasPlace(c) /\ IsCut(c) /\ Phase(c) /\ Receipts(c) /\ Recorded(c) /\ Dims(c)
    BY <1>1 DEF CallInv
  <2>2. exec'[c] = (IF exec[c] = "none" THEN "none" ELSE "done") /\ stash'[c] = NoPart
    BY <1>2
  <2>3. HasPlace(c)' /\ IsCut(c)'
    BY <1>2, <1>3, <2>1, <2>2 DEF HasPlace, IsCut
  <2>4. Phase(c)'
    <3>1. CASE c \in cut'
      BY <3>1 DEF Phase
    <3>2. CASE c \notin cut' /\ exec[c] = "none"
      <4>1. Unmade(c) /\ c \notin calls
        BY <1>2, <2>1, <3>2 DEF Phase, Unfinished
      <4> QED BY <1>2, <1>3, <2>2, <3>2, <4>1 DEF Phase, Unmade
    <3>3. CASE c \notin cut' /\ exec[c] # "none"
      <4>1. IsSettled(c)
        <5>1. CASE c \in calls
          BY <1>2, <3>3, <5>1, FinishedIsSettled
        <5>2. CASE c \notin calls
          BY <1>2, <2>1, <3>3, <5>2 DEF Phase
        <5> QED BY <5>1, <5>2
      <4>2. IsSettled(c)'
        BY <1>2, <1>3, <2>2, <3>3, <4>1 DEF IsSettled
      <4> QED BY <1>3, <2>2, <3>3, <4>2 DEF Phase
    <3> QED BY <3>1, <3>2, <3>3
  <2>5. Receipts(c)' /\ Recorded(c)'
    BY <1>2, <1>3, <1>4, <2>1, <2>2 DEF Receipts, Recorded
  <2>6. Dims(c)'
    BY <1>2, <1>3, <2>1, <2>2 DEF Dims, DimOf
  <2> QED BY <2>3, <2>4, <2>5, <2>6 DEF CallInv
<1>7. SeenInv'
  BY <1>2, <1>3, IdleHasNoCall DEF SeenInv
<1> QED BY <1>1, <1>2, <1>3, <1>5, <1>6, <1>7 DEF IInv

\* Compaction shows calls that have a receipt, and each receipt has its entry.
LEMMA CompactKeepsIInv ==
    ASSUME IInv, Compact
    PROVE  IInv'
<1> USE DEF stored, flow, tool
<1>1. /\ TypeOK /\ StreamOrder /\ SeenInv /\ (turn # "streaming" => queue = <<>>)
      /\ \A d \in Call : CallInv(d)
  BY DEF IInv
<1>2. UNCHANGED <<stored, flow, tool, ledger, crashes>>
  BY DEF Compact
<1>3. Ordered
  BY <1>1 DEF TypeOK, Ordered
<1>4. block'.shown \in Seq(Anchors) /\ ToSet(block'.shown) \subseteq Anchors
  BY <1>3, CompactShows
<1>5. Anchors \subseteq Call /\ Anchors \subseteq ledger
  <2>1. ASSUME NEW c \in Anchors PROVE c \in Call /\ c \in ledger
    <3>1. c \in Call /\ part[c].receipt
      BY <1>3 DEF Anchors, SettledCalls, IsAnchor, Ordered, ToSet
    <3>2. Receipts(c)
      BY <1>1, <3>1 DEF CallInv
    <3> QED BY <3>1, <3>2 DEF Receipts
  <2> QED BY <2>1
<1>6. block'.shown \in Seq(Call)
  BY <1>4, <1>5, SeqMonotonic
<1>7. TypeOK'
  BY <1>1, <1>2, <1>6 DEF TypeOK
<1>8. StreamOrder' /\ (\A d : Said(d)' = Said(d)) /\ Parts' = Parts
  BY <1>1, <1>2, SaidSame DEF Parts
<1>9. ASSUME NEW c \in Call PROVE CallInv(c)'
  BY <1>1, <1>2, <1>8, SameCall DEF Same
<1>10. SeenInv'
  BY <1>1, <1>2 DEF SeenInv
<1> QED BY <1>1, <1>2, <1>4, <1>5, <1>7, <1>8, <1>9, <1>10 DEF IInv

\* A fiber's step, whichever it is.
LEMMA FiberKeepsIInv ==
    ASSUME IInv, NEW c \in Call, Fiber(c)
    PROVE  IInv'
<1>1. CASE RefuseLocally(c)
  BY <1>1, MoveOnKeepsIInv DEF RefuseLocally, At
<1>2. CASE ReadToDeclare(c)
  BY <1>2, ReadToDeclareKeepsIInv
<1>3. CASE Declare(c)
  BY <1>3, DeclareKeepsIInv
<1>4. CASE Permit(c)
  BY <1>4, MoveOnKeepsIInv DEF Permit, At
<1>5. CASE Reject(c) \/ Return(c)
  BY <1>5, DeliverKeepsIInv
<1>6. CASE Answer(c)
  BY <1>6, MoveOnKeepsIInv DEF Answer, At
<1>7. CASE Record(c)
  BY <1>7, MoveOnKeepsIInv DEF Record, At
<1>8. CASE ReadToComplete(c) \/ Save(c) \/ SettleSaved(c)
  BY <1>8, SaveKeepsIInv
<1> QED BY <1>1, <1>2, <1>3, <1>4, <1>5, <1>6, <1>7, <1>8 DEF Fiber

\* Every step keeps the invariant.
LEMMA NextKeepsIInv == IInv /\ [Next]_vars => IInv'
<1> SUFFICES ASSUME IInv, [Next]_vars PROVE IInv'
  OBVIOUS
<1>1. CASE StartTurn
  BY <1>1, StartKeepsIInv
<1>2. CASE \E c \in Call : ModelNames(c) \/ ModelCalls(c)
  BY <1>2, ModelKeepsIInv
<1>3. CASE Handler
  BY <1>3, EnsureKeepsIInv, TrackKeepsIInv, ReadKeepsIInv, WriteKeepsIInv, SettleKeepsIInv
  DEF Handler
<1>4. CASE \E c \in Call : Fiber(c)
  BY <1>4, FiberKeepsIInv
<1>5. CASE StreamEnds \/ StreamFails \/ Interrupt
  BY <1>5, StopKeepsIInv
<1>6. CASE Cleanup
  BY <1>6, CleanupKeepsIInv, CloseKeepsIInv DEF Cleanup
<1>7. CASE Crash
  BY <1>7, CrashKeepsIInv
<1>8. CASE Compact
  BY <1>8, CompactKeepsIInv
<1>9. CASE UNCHANGED vars
  <2> USE DEF vars, stored, flow, tool
  <2>1. StreamOrder' /\ (\A d : Said(d)' = Said(d)) /\ Parts' = Parts
    BY <1>9, SaidSame DEF Parts, IInv
  <2>2. \A c \in Call : CallInv(c)'
    BY <1>9, <2>1, SameCall DEF Same, IInv
  <2>3. TypeOK' /\ SeenInv'
    BY <1>9 DEF IInv, TypeOK, SeenInv
  <2> QED BY <1>9, <2>1, <2>2, <2>3 DEF IInv
<1> QED BY <1>1, <1>2, <1>3, <1>4, <1>5, <1>6, <1>7, <1>8, <1>9 DEF Next

----------------------------------------------------------------------------
(* Theorems *)

\* The phases of every call hold throughout (processor.ts, tools.ts).
THEOREM InvariantHolds == Safe => []IInv
BY InitIInv, NextKeepsIInv, PTL DEF Safe

\* Parts, events and fibers are of their kind; each call has one part at most.
THEOREM TypeCorrect == Safe => []TypeOK
<1>1. IInv => TypeOK
  BY DEF IInv
<1> QED BY <1>1, InvariantHolds, PTL

\* A receipt in the transcript, and what compaction shows, has its ledger entry, also
\* after any number of crashes (log-writer.ts, glasspane-compaction.ts).
THEOREM ReceiptsAreBacked == Safe => []ReceiptsAreInLedger
<1>1. IInv => ReceiptsAreInLedger
  BY DEF IInv, CallInv, Receipts, ReceiptsAreInLedger
<1> QED BY <1>1, InvariantHolds, PTL

\* When the turn is over, an entry that was not cut is in the transcript.
LEMMA IdleHasEntries ==
    ASSUME IInv
    PROVE  turn = "idle" => \A c \in ledger \ cut : part[c].status = "completed" /\ part[c].receipt
<1> SUFFICES ASSUME turn = "idle", NEW c \in ledger \ cut
             PROVE  part[c].status = "completed" /\ part[c].receipt
  OBVIOUS
<1>1. c \in Call
  BY DEF IInv, TypeOK
<1>2. Phase(c) /\ Receipts(c) /\ Recorded(c)
  BY <1>1 DEF IInv, CallInv
<1>3. exec[c] # "none"
  BY <1>2 DEF Receipts
<1>4. part[c].status \in Settled
  BY <1>2, <1>3 DEF Phase, IsSettled
<1> QED BY <1>2, <1>4 DEF Recorded

\* The steps that write a part.
LEMMA PartChanges ==
    ASSUME [Next]_vars, part' # part
    PROVE  (\E d \in Call : Ensure(d) \/ Declare(d) \/ Save(d)) \/ WritePart \/ Close
BY DEF Next, Handler, Cleanup, Fiber, StartTurn, ModelNames, ModelCalls, ReadCall, ReadOutcome,
       Track, SettleCall, RefuseLocally, ReadToDeclare, Permit, Reject, Answer, Record, Return,
       ReadToComplete, SettleSaved, StreamEnds, StreamFails, Interrupt, GiveUp, ReadToClose,
       EndTurn, Crash, Compact, vars, stored

\* A dimension gives way only to the successor of a part that lacked it.
LEMMA DimensionStays ==
    ASSUME IInv, [Next]_vars, NEW c \in Call,
           part[c].dim # None, part'[c].dim # part[c].dim
    PROVE  seen.call = c /\ seen.part.dim # part[c].dim
<1>1. /\ TypeOK /\ SeenInv /\ HasPlace(c) /\ Dims(c)
      /\ \A d \in Call : HasPlace(d) /\ Dims(d)
  BY DEF IInv, CallInv
<1>2. /\ part \in [Call -> Part] /\ part[c].dim = DimensionOf[c]
      /\ part[c].status \notin {"none", "pending"} /\ c \in Parts
      /\ seen.part \in Part /\ receipt \in [Call -> BOOLEAN]
  BY <1>1 DEF TypeOK, Seen, Dims, DimOf, HasPlace
<1>3. ASSUME NEW d \in Call, Ensure(d) PROVE FALSE
  <2>1. part' = [part EXCEPT ![d] = Pending] /\ transcript' = Append(transcript, d)
    BY <1>3 DEF Ensure
  <2>2. d = c
    BY <1>2, <2>1
  <2>3. transcript' \in Seq(Call) /\ IsInjective(transcript') /\ transcript \in Seq(Call)
    BY <1>1, NextKeepsIInv DEF IInv, TypeOK
  <2>4. PICK i \in DOMAIN transcript : transcript[i] = c
    BY <1>2 DEF Parts, ToSet
  <2>5. /\ i \in DOMAIN transcript' /\ Len(transcript) + 1 \in DOMAIN transcript'
        /\ transcript'[i] = c /\ transcript'[Len(transcript) + 1] = c
        /\ i # Len(transcript) + 1
    BY <2>1, <2>2, <2>3, <2>4
  <2> QED BY <2>3, <2>5 DEF IsInjective
<1>4. ASSUME NEW d \in Call, Declare(d) PROVE FALSE
  <2>1. exec[c] = "declaring" /\ d = c
        /\ part' = [part EXCEPT ![c] = IF stash[c].status \in {"pending", "running"}
                                       THEN Running(DimensionOf[c]) ELSE stash[c]]
    BY <1>2, <1>4 DEF Declare, At
  <2>2. Running(DimensionOf[c]).dim = DimensionOf[c]
    BY DEF Running, NoPart
  <2>3. stash[c].status \in {"pending", "running"} \/ stash[c] = part[c]
    BY <1>1, <2>1 DEF Dims, Settled, TypeOK, Part, Status
  <2> QED BY <1>2, <2>1, <2>2, <2>3
<1>5. ASSUME NEW d \in Call, Save(d) PROVE FALSE
  <2>1. d = c /\ part' = [part EXCEPT ![c] = Completed(c)]
    BY <1>2, <1>5 DEF Save
  <2> QED BY <1>2, <2>1 DEF Completed
<1>6. CASE WritePart \/ Close
  <2>1. /\ seen.op \in {"call", "result", "failure", "close"}
        /\ part' = [part EXCEPT ![seen.call] = Successor(seen.op, seen.call, seen.part)]
    BY <1>6 DEF WritePart, Close
  <2>2. seen.call = c
    BY <1>2, <2>1
  <2>3. /\ DimOf(c, seen.part) /\ seen.part.status # "none"
        /\ seen.op = "call" => seen.part.status \in {"pending", "running"}
    BY <1>1, <2>1, <2>2 DEF SeenInv, Dims
  <2>4. /\ seen.op = "result" => Successor(seen.op, c, seen.part).dim = DimensionOf[c]
        /\ seen.op # "result" => Successor(seen.op, c, seen.part).dim = seen.part.dim
    BY <1>2, <2>1, <2>3, SuccessorOf
  <2> QED BY <1>2, <2>1, <2>2, <2>4
<1> QED BY <1>3, <1>4, <1>5, <1>6, PartChanges

\* A decision with an entry is in the transcript, completed and with its receipt, once
\* its turn is over; and only a write that was in hand before loses a dimension
\* (processor.ts, tools.ts, log-writer.ts).
THEOREM DecisionsAreKept == Safe => DecisionsReachTheTranscript
<1>1. IInv => (turn = "idle" =>
                 \A c \in ledger \ cut : part[c].status = "completed" /\ part[c].receipt)
  BY IdleHasEntries
<1>2. IInv /\ [Next]_vars =>
        [\A c \in Call : part[c].dim # None /\ part'[c].dim # part[c].dim
                            => seen.call = c /\ seen.part.dim # part[c].dim]_vars
  BY DimensionStays
<1> QED BY <1>1, <1>2, InvariantHolds, PTL DEF Safe, DecisionsReachTheTranscript

\* What compaction shows is as much as fits, in order, and nothing that the plan or
\* recency puts behind something it drops (glasspane-compaction.ts).
THEOREM BlocksKeepThePlan == Safe => PlannedAnchorsSurvive
<1> DEFINE Right == LET shown == block'.shown
        IN  /\ Len(shown) = IF Cardinality(Anchors) <= MaxAnchors
                            THEN Cardinality(Anchors) ELSE MaxAnchors
            /\ ToSet(shown) \subseteq Anchors
            /\ \A i, j \in DOMAIN shown : i < j => Older(shown[i], shown[j])
            /\ \A c \in ToSet(shown), d \in Anchors \ ToSet(shown) :
                  /\ Planned # {} => Rank(d) <= Rank(c)
                  /\ Planned = {} \/ Rank(d) = Rank(c) => Older(d, c)
<1>1. IInv /\ [Next]_vars => (block' # block => Right)
  <2> SUFFICES ASSUME IInv, [Next]_vars, block' # block PROVE Right
    OBVIOUS
  <2>1. Compact
    BY BlockChanges
  <2>2. Ordered
    BY DEF IInv, TypeOK, Ordered
  <2> QED BY <2>1, <2>2, CompactShows
<1>2. IInv /\ [Next]_vars => [block' # block => Right]_vars
  BY <1>1
<1> QED BY <1>2, InvariantHolds, PTL DEF Safe, PlannedAnchorsSurvive
============================================================================
