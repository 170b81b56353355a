------------------------ MODULE PermissionQueueProofs ------------------------
(***************************************************************************)
(* No reply, sweep or interrupt of PermissionQueue strands a caller, for   *)
(* any requests, IDs, rules and repliers.                                  *)
(***************************************************************************)
EXTENDS PermissionQueue, TLAPS

-------------------------------------------------------------------------------
(* The inductive invariant *)

Targeted(r) == \E p \in Replier : r \in {replier[p].of, replier[p].next}

\* Whoever got past its evaluation under an assert's ID did so after that assert was
\* registered.
IdsAreSeen ==
  \A r \in Request, q \in Asserting :
    Id[q] = Id[r] /\ q # r /\ caller[r] # "idle" => caller[q] \notin {"idle", "checked"}

\* A request that was not registered yet is known to nobody.
UnregisteredIsUnknown ==
  \A r \in Request : caller[r] \in {"idle", "checked"} =>
    r \notin pending /\ ~Targeted(r)

\* While an assert waits for its outcome its ID is its own: it is in the Map, and no
\* other fiber is about to delete that ID.
HoldsItsId ==
  \A r \in Request : Awaits(r) /\ settled[r] = None =>
    /\ r \in pending
    /\ \A c \in Request \ {r} : Id[c] = Id[r] =>
         caller[c] \notin {"registered", "waiting", "queued"} /\ ~Targeted(c)

\* A reply is published before it is carried out, for its own request and for a swept one.
ToldFirst ==
  \A p \in Replier :
    /\ replier[p].at \notin {"idle", "announce"} => replier[p].reply \in announced[replier[p].of]
    /\ replier[p].at = "resolve" => replier[p].reply \in announced[replier[p].next]

IInv == TypeOK /\ IdsAreSeen /\ UnregisteredIsUnknown /\ HoldsItsId /\ ToldFirst /\ OutcomeWasAnnounced

-------------------------------------------------------------------------------
(* What a step may touch *)

\* Deleting an ID takes no other away, and leaves at most one entry for each.
LEMMA WithoutKeeps ==
  ASSUME TypeOK, NEW id
  PROVE  /\ Without(id) \subseteq pending
         /\ \A r \in pending : Id[r] # id => r \in Without(id)
BY DEF Without

\* Nothing is pending, known or told at first.
LEMMA InitIInv == Init => IInv
<1> SUFFICES ASSUME Init PROVE IInv
  OBVIOUS
<1>1. IdleReplier \in ReplierState
  BY DEF IdleReplier, ReplierState, Reply
<1>2. TypeOK
  BY <1>1, RepliesAssumption DEF Init, TypeOK, IdleReplier
<1>3. IdsAreSeen /\ HoldsItsId /\ OutcomeWasAnnounced
  BY RequestAssumption DEF Init, IdsAreSeen, HoldsItsId, OutcomeWasAnnounced, Awaits, Outcome
<1>4. UnregisteredIsUnknown
  BY RequestAssumption DEF Init, UnregisteredIsUnknown, Targeted, IdleReplier
<1>5. ToldFirst
  BY DEF Init, ToldFirst, IdleReplier
<1> QED BY <1>2, <1>3, <1>4, <1>5 DEF IInv

\* A step that only moves a caller's fiber leaves what the repliers told as it was.
LEMMA CallerTells ==
  ASSUME IInv, UNCHANGED <<settled, announced, replier>>
  PROVE  ToldFirst' /\ OutcomeWasAnnounced'
BY DEF IInv, ToldFirst, OutcomeWasAnnounced

LEMMA EvaluateKeepsIInv ==
  ASSUME IInv, NEW r \in Request, Evaluate(r)
  PROVE  IInv'
<1>1. TypeOK'
  BY DEF IInv, TypeOK, Evaluate
<1>2. IdsAreSeen'
  BY RequestAssumption DEF IInv, IdsAreSeen, Evaluate, HasItsId, TypeOK
<1>3. UnregisteredIsUnknown'
  BY DEF IInv, UnregisteredIsUnknown, Evaluate, TypeOK, Targeted
<1>4. HoldsItsId'
  BY DEF IInv, HoldsItsId, Evaluate, TypeOK, Targeted, Awaits
<1> QED BY <1>1, <1>2, <1>3, <1>4, CallerTells DEF IInv, Evaluate

LEMMA RegisterKeepsIInv ==
  ASSUME IInv, NEW r \in Request, Register(r)
  PROVE  IInv'
<1>1. TypeOK'
  BY DEF IInv, TypeOK, Register, Known
<1>2. IdsAreSeen'
  BY RequestAssumption DEF IInv, IdsAreSeen, Register, TypeOK
<1>3. UnregisteredIsUnknown'
  BY DEF IInv, UnregisteredIsUnknown, Register, TypeOK, Targeted
<1>4. HoldsItsId'
  BY DEF IInv, HoldsItsId, Register, TypeOK, Targeted, Awaits, IdsAreSeen, UnregisteredIsUnknown, Known
<1> QED BY <1>1, <1>2, <1>3, <1>4, CallerTells DEF IInv, Register

\* The fiber goes on to wait, or back to its client.
LEMMA PublishAskedKeepsIInv ==
  ASSUME IInv, NEW r \in Request, PublishAsked(r)
  PROVE  IInv'
<1>1. TypeOK'
  BY DEF IInv, TypeOK, PublishAsked
<1>2. IdsAreSeen'
  BY RequestAssumption DEF IInv, IdsAreSeen, PublishAsked, TypeOK
<1>3. UnregisteredIsUnknown'
  BY DEF IInv, UnregisteredIsUnknown, PublishAsked, TypeOK, Targeted
<1>4. HoldsItsId'
  BY DEF IInv, HoldsItsId, PublishAsked, TypeOK, Targeted, Awaits
<1> QED BY <1>1, <1>2, <1>3, <1>4, CallerTells DEF IInv, PublishAsked

\* A fiber that stops waiting deletes its own ID: nobody else waits under it unanswered.
LEMMA LeavingKeepsIInv ==
  ASSUME IInv, NEW r \in Request, caller[r] \in {"registered", "waiting"},
         NEW end \in {"passed", "failed"},
         caller' = [caller EXCEPT ![r] = end], pending' = Without(Id[r]),
         UNCHANGED <<settled, announced, saved, replier, replies>>
  PROVE  IInv'
<1>1. TypeOK'
  BY DEF IInv, TypeOK, Without
<1>2. IdsAreSeen'
  BY RequestAssumption DEF IInv, IdsAreSeen, TypeOK
<1>3. UnregisteredIsUnknown'
  BY DEF IInv, UnregisteredIsUnknown, TypeOK, Targeted, Without
<1>4. HoldsItsId'
  BY DEF IInv, HoldsItsId, TypeOK, Targeted, Awaits, Without
<1> QED BY <1>1, <1>2, <1>3, <1>4, CallerTells DEF IInv

\* A reply finds a pending request, so not one whose ID an assert holds.
LEMMA FindKeepsIInv ==
  ASSUME IInv, NEW p \in Replier, NEW r \in Request, NEW reply \in Reply, Find(p, r, reply)
  PROVE  IInv'
<1> DEFINE found == [IdleReplier EXCEPT !.at = "announce", !.of = r, !.reply = reply]
<1>0. /\ found \in ReplierState /\ found.at = "announce" /\ found.of = r /\ found.next = None
      /\ replier' = [replier EXCEPT ![p] = found]
  BY DEF IdleReplier, ReplierState, Find
<1> HIDE DEF found
<1>1. TypeOK'
  BY <1>0, RepliesAssumption DEF IInv, TypeOK, Find
<1>2. IdsAreSeen'
  BY DEF IInv, IdsAreSeen, Find
<1>3. UnregisteredIsUnknown'
  BY <1>0, RequestAssumption DEF IInv, UnregisteredIsUnknown, Find, TypeOK, Targeted
<1>4. HoldsItsId'
  <2>0. r \in pending /\ \A x, y \in pending : Id[x] = Id[y] => x = y
    BY DEF IInv, TypeOK, Find
  <2>1. ASSUME NEW a \in Request, Awaits(a), settled[a] = None, NEW c \in Request \ {a}, Id[c] = Id[a]
        PROVE  a \in pending /\ caller[c] \notin {"registered", "waiting", "queued"} /\ ~Targeted(c)'
    <3>1. a \in pending /\ caller[c] \notin {"registered", "waiting", "queued"} /\ ~Targeted(c)
      BY <2>1 DEF IInv, HoldsItsId
    <3>2. c # r /\ c # None
      BY <2>0, <2>1, <3>1, RequestAssumption
    <3> QED BY <1>0, <3>1, <3>2 DEF Targeted, IInv, TypeOK
  <2>2. \A a \in Request : Awaits(a) /\ settled[a] = None => a \in pending
    BY DEF IInv, HoldsItsId
  <2> QED BY <2>1, <2>2 DEF HoldsItsId, Find, Awaits
<1>5. ToldFirst'
  BY <1>0 DEF IInv, ToldFirst, Find, TypeOK
<1>6. OutcomeWasAnnounced'
  BY DEF IInv, OutcomeWasAnnounced, Find
<1> QED BY <1>1, <1>2, <1>3, <1>4, <1>5, <1>6 DEF IInv

\* Steps of a reply at which it neither finds nor answers a request.
LEMMA QuietKeepsIInv ==
  ASSUME IInv, NEW p \in Replier, NEW state \in ReplierState,
         replier' = [replier EXCEPT ![p] = state],
         {state.of, state.next} \subseteq {replier[p].of, replier[p].next, None},
         state.at \in {"idle", "settle", "sweep"},
         state.at # "idle" => /\ replier[p].at \notin {"idle", "announce"}
                              /\ state.of = replier[p].of /\ state.reply = replier[p].reply,
         UNCHANGED <<caller, pending, settled, announced, replies>>, saved' \subseteq Resource
  PROVE  IInv'
<1>1. TypeOK'
  BY DEF IInv, TypeOK
<1>2. IdsAreSeen' /\ OutcomeWasAnnounced'
  BY DEF IInv, IdsAreSeen, OutcomeWasAnnounced
<1>3. \A r \in Request : Targeted(r)' => Targeted(r)
  BY RequestAssumption DEF IInv, TypeOK, Targeted
<1>4. UnregisteredIsUnknown'
  BY <1>3 DEF IInv, UnregisteredIsUnknown
<1>5. HoldsItsId'
  BY <1>3 DEF IInv, HoldsItsId, Awaits
<1>6. ToldFirst'
  BY DEF IInv, ToldFirst, TypeOK
<1> QED BY <1>1, <1>2, <1>4, <1>5, <1>6 DEF IInv

\* Publishing a reply, for its own request or for a swept one.
LEMMA TellingKeepsIInv ==
  ASSUME IInv, NEW p \in Replier, NEW c \in Request, NEW at \in {"save", "settle", "resolve"},
         announced' = [announced EXCEPT ![c] = announced[c] \cup {replier[p].reply}],
         replier' = [replier EXCEPT ![p].at = at],
         replier[p].at # "idle",
         at = "resolve" => replier[p].next = c /\ replier[p].at # "announce",
         replier[p].at = "announce" => replier[p].of = c,
         UNCHANGED <<caller, pending, settled, saved, replies>>
  PROVE  IInv'
<1>0. replier[p] \in ReplierState /\ replier[p].of \in Request /\ replier[p].reply \in Reply
  BY DEF IInv, TypeOK, ReplierState
<1>1. TypeOK'
  <2>1. [replier[p] EXCEPT !.at = at] \in ReplierState
    BY <1>0 DEF ReplierState
  <2>2. replier' \in [Replier -> ReplierState]
    BY <2>1 DEF IInv, TypeOK
  <2>3. \A q \in Replier : /\ replier'[q].at # "idle" => replier'[q].of \in Request
                           /\ replier'[q].at \in {"tell", "resolve"} => replier'[q].next \in Request
    BY <1>0 DEF IInv, TypeOK, ReplierState
  <2>4. announced' \in [Request -> SUBSET Reply]
    BY <1>0 DEF IInv, TypeOK
  <2> QED BY <2>2, <2>3, <2>4 DEF IInv, TypeOK
<1>2. \A r \in Request : announced[r] \subseteq announced'[r]
  BY DEF IInv, TypeOK
<1>3. IdsAreSeen' /\ OutcomeWasAnnounced'
  BY <1>2 DEF IInv, IdsAreSeen, OutcomeWasAnnounced
<1>4. \A r \in Request : Targeted(r)' => Targeted(r)
  BY <1>0 DEF IInv, TypeOK, Targeted, ReplierState
<1>5. UnregisteredIsUnknown' /\ HoldsItsId'
  BY <1>4 DEF IInv, UnregisteredIsUnknown, HoldsItsId, Awaits
<1>6. ToldFirst'
  <2>1. ASSUME NEW q \in Replier
        PROVE  /\ replier'[q].at \notin {"idle", "announce"} =>
                    replier'[q].reply \in announced'[replier'[q].of]
               /\ replier'[q].at = "resolve" => replier'[q].reply \in announced'[replier'[q].next]
    <3>1. CASE q = p
      <4>1. /\ replier'[q].at = at /\ replier'[q].reply = replier[p].reply
            /\ replier'[q].of = replier[p].of /\ replier'[q].next = replier[p].next
        BY <1>0, <3>1 DEF IInv, TypeOK, ReplierState
      <4>2. replier[p].reply \in announced'[c]
        BY DEF IInv, TypeOK
      <4>3. replier[p].reply \in announced'[replier[p].of]
        BY <1>0, <1>2, <4>2 DEF IInv, ToldFirst
      <4> QED BY <4>1, <4>2, <4>3
    <3>2. CASE q # p
      <4>1. replier'[q] = replier[q]
        BY <3>2 DEF IInv, TypeOK
      <4> QED BY <4>1, <1>2 DEF IInv, ToldFirst, TypeOK
    <3> QED BY <3>1, <3>2
  <2> QED BY <2>1 DEF ToldFirst
<1> QED BY <1>1, <1>3, <1>5, <1>6 DEF IInv

\* Answering a request that was told: its own ID is deleted, which no other assert that
\* is still to be answered holds.
LEMMA AnsweringKeepsIInv ==
  ASSUME IInv, NEW p \in Replier, NEW c \in Request, NEW state \in ReplierState,
         c \in {replier[p].of, replier[p].next},
         replier[p].at \notin {"idle", "announce"}, replier[p].reply \in announced[c],
         Complete(c, OutcomeOf(p)), pending' = Without(Id[c]),
         replier' = [replier EXCEPT ![p] = state],
         {state.of, state.next} \subseteq {replier[p].of, replier[p].next, None},
         state.at \in {"idle", "remember", "sweep"},
         state.at # "idle" => state.of = replier[p].of /\ state.reply = replier[p].reply,
         UNCHANGED <<caller, announced, saved, replies>>
  PROVE  IInv'
<1>0. replier[p].reply \in Reply /\ replier[p].of \in Request
  BY DEF IInv, TypeOK, ReplierState
<1>1. TypeOK'
  <2>1. settled' \in [Request -> Outcome \cup {None}]
    BY DEF IInv, TypeOK, Complete, OutcomeOf, Outcome
  <2>2. pending' \subseteq Request /\ \A q, r \in pending' : Id[q] = Id[r] => q = r
    BY DEF IInv, TypeOK, Without
  <2>3. replier' \in [Replier -> ReplierState]
    BY DEF IInv, TypeOK
  <2>4. \A q \in Replier : /\ replier'[q].at # "idle" => replier'[q].of \in Request
                           /\ replier'[q].at \in {"tell", "resolve"} => replier'[q].next \in Request
    BY <1>0 DEF IInv, TypeOK
  <2> QED BY <2>1, <2>2, <2>3, <2>4 DEF IInv, TypeOK
<1>2. \A r \in Request : settled[r] # None => settled'[r] = settled[r]
  BY DEF IInv, TypeOK, Complete
<1>3. \A r \in Request : Targeted(r)' => Targeted(r)
  BY RequestAssumption DEF IInv, TypeOK, Targeted
<1>4. IdsAreSeen' /\ UnregisteredIsUnknown'
  BY <1>3 DEF IInv, IdsAreSeen, UnregisteredIsUnknown, Without
<1>5. HoldsItsId'
  <2>1. ASSUME NEW a \in Request, Awaits(a), settled'[a] = None
        PROVE  /\ a \in pending'
               /\ \A x \in Request \ {a} : Id[x] = Id[a] =>
                    caller[x] \notin {"registered", "waiting", "queued"} /\ ~Targeted(x)'
    <3>1. settled[a] = None /\ a # c
      BY <1>2, <2>1, RequestAssumption DEF IInv, TypeOK, Complete, OutcomeOf, Outcome
    <3>2. Targeted(c)
      BY DEF Targeted
    <3>3. Id[c] # Id[a]
      BY <2>1, <3>1, <3>2 DEF IInv, HoldsItsId
    <3> QED BY <1>3, <2>1, <3>1, <3>3 DEF IInv, HoldsItsId, Without
  <2> QED BY <2>1 DEF HoldsItsId, Awaits
<1>6. ToldFirst'
  BY DEF IInv, ToldFirst, TypeOK
<1>7. OutcomeWasAnnounced'
  <2>1. ASSUME NEW r \in Request, r # c PROVE settled'[r] = settled[r]
    BY <2>1 DEF Complete, IInv, TypeOK
  <2>2. settled'[c] = settled[c] \/ settled'[c] = OutcomeOf(p)
    BY DEF Complete, IInv, TypeOK
  <2>3. /\ OutcomeOf(p) = "succeed" => announced[c] \cap {"once", "always"} # {}
        /\ OutcomeOf(p) = "fail" => "reject" \in announced[c]
    BY <1>0 DEF OutcomeOf, Reply
  <2> QED BY <2>1, <2>2, <2>3 DEF IInv, OutcomeWasAnnounced
<1> QED BY <1>1, <1>4, <1>5, <1>6, <1>7 DEF IInv

\* A sweep comes to a pending request, so not to one whose ID an assert holds.
LEMMA VisitKeepsIInv ==
  ASSUME IInv, NEW p \in Replier, NEW r \in Request, Visit(p, r)
  PROVE  IInv'
<1> DEFINE visiting == [replier[p] EXCEPT !.at = "tell", !.next = r]
<1>0. /\ replier[p] \in ReplierState /\ replier[p].at = "sweep" /\ replier[p].of \in Request
      /\ replier' = [replier EXCEPT ![p] = visiting]
      /\ UNCHANGED <<caller, pending, settled, announced, saved, replies>>
  BY DEF IInv, TypeOK, Visit
<1>1. /\ visiting \in ReplierState /\ visiting.at = "tell" /\ visiting.next = r
      /\ visiting.of = replier[p].of /\ visiting.reply = replier[p].reply
  BY <1>0 DEF ReplierState
<1>2. r \in pending /\ \A x, y \in pending : Id[x] = Id[y] => x = y
  BY DEF IInv, TypeOK, Visit, ToSweep
<1> HIDE DEF visiting
<1>3. TypeOK'
  BY <1>0, <1>1 DEF IInv, TypeOK
<1>4. \A c \in Request : Targeted(c)' => Targeted(c) \/ c = r
  BY <1>0, <1>1 DEF IInv, TypeOK, Targeted
<1>5. IdsAreSeen' /\ OutcomeWasAnnounced'
  BY <1>0 DEF IInv, IdsAreSeen, OutcomeWasAnnounced
<1>6. UnregisteredIsUnknown'
  BY <1>0, <1>2, <1>4 DEF IInv, UnregisteredIsUnknown
<1>7. HoldsItsId'
  BY <1>0, <1>2, <1>4 DEF IInv, HoldsItsId, Awaits
<1>8. ToldFirst'
  BY <1>0, <1>1 DEF IInv, ToldFirst, TypeOK
<1> QED BY <1>3, <1>5, <1>6, <1>7, <1>8 DEF IInv

\* No step of Next breaks the invariant.
LEMMA NextKeepsIInv == IInv /\ [Next]_vars => IInv'
<1> SUFFICES ASSUME IInv, [Next]_vars PROVE IInv'
  OBVIOUS
<1>1. ASSUME NEW r \in Request, Evaluate(r) PROVE IInv'
  BY <1>1, EvaluateKeepsIInv
<1>2. ASSUME NEW r \in Request, Register(r) PROVE IInv'
  BY <1>2, RegisterKeepsIInv
<1>3. ASSUME NEW r \in Request, PublishAsked(r) PROVE IInv'
  BY <1>3, PublishAskedKeepsIInv
<1>4. ASSUME NEW r \in Request, PublishAskedFails(r) \/ Resume(r) \/ Interrupt(r) PROVE IInv'
  <2>1. PICK end \in {"passed", "failed"} :
          /\ caller[r] \in {"registered", "waiting"}
          /\ caller' = [caller EXCEPT ![r] = end] /\ pending' = Without(Id[r])
          /\ UNCHANGED <<settled, announced, saved, replier, replies>>
    BY <1>4 DEF PublishAskedFails, Resume, Interrupt
  <2> QED BY <2>1, LeavingKeepsIInv
<1>5. ASSUME NEW p \in Replier, NEW r \in Request, NEW reply \in Reply, Find(p, r, reply)
      PROVE  IInv'
  BY <1>5, FindKeepsIInv
<1>6. ASSUME NEW p \in Replier, PublishReplied(p) PROVE IInv'
  <2>1. replier[p].of \in Request
    BY <1>6 DEF IInv, TypeOK, PublishReplied
  <2> QED BY <1>6, <2>1, TellingKeepsIInv DEF PublishReplied
<1>7. ASSUME NEW p \in Replier, PublishSwept(p) PROVE IInv'
  <2>1. replier[p].next \in Request
    BY <1>7 DEF IInv, TypeOK, PublishSwept
  <2> QED BY <1>7, <2>1, TellingKeepsIInv DEF PublishSwept
<1>8. ASSUME NEW p \in Replier, SaveRules(p) \/ Remember(p) \/ Return(p) PROVE IInv'
  <2> DEFINE state == IF SaveRules(p) THEN [replier[p] EXCEPT !.at = "settle"]
                      ELSE IF Remember(p) THEN [replier[p] EXCEPT !.at = "sweep", !.rules = saved]
                      ELSE IdleReplier
  <2>1. replier[p] \in ReplierState /\ saved \subseteq Resource /\ replier[p].of \in Request
    BY <1>8 DEF IInv, TypeOK, SaveRules, Remember, Return
  <2>2. IdleReplier \in ReplierState /\ IdleReplier.of = None /\ IdleReplier.next = None
        /\ IdleReplier.at = "idle"
    BY DEF IdleReplier, ReplierState, Reply
  <2>3. state \in ReplierState
    BY <2>1, <2>2 DEF ReplierState
  <2>4. saved' \subseteq Resource
    <3>1. Save[replier[p].of] \subseteq Resource
      <4>1. DOMAIN Configured[replier[p].of] \cup Save[replier[p].of]
              \in {DOMAIN Configured[r] \cup Save[r] : r \in Request}
        BY <2>1
      <4> QED BY <4>1, Zenon DEF Resource
    <3> QED BY <1>8, <2>1, <3>1 DEF SaveRules, Remember, Return
  <2>5. /\ replier' = [replier EXCEPT ![p] = state]
        /\ UNCHANGED <<caller, pending, settled, announced, replies>>
        /\ replier[p].at \notin {"idle", "announce"}
    BY <1>8 DEF SaveRules, Remember, Return
  <2>6. /\ state.at \in {"idle", "settle", "sweep"}
        /\ state.next \in {replier[p].next, None} /\ state.of \in {replier[p].of, None}
        /\ state.at # "idle" => state.of = replier[p].of /\ state.reply = replier[p].reply
    BY <2>1, <2>2 DEF ReplierState
  <2> HIDE DEF state
  <2> QED BY <2>3, <2>4, <2>5, <2>6, QuietKeepsIInv
<1>9. ASSUME NEW p \in Replier, Settle(p) PROVE IInv'
  <2> DEFINE state == IF replier[p].reply = "reject" THEN [replier[p] EXCEPT !.at = "sweep"]
                      ELSE IF Remembers(p) THEN [replier[p] EXCEPT !.at = "remember"]
                      ELSE IdleReplier
  <2>1. replier[p] \in ReplierState /\ replier[p].of \in Request /\ replier[p].at = "settle"
    BY <1>9 DEF IInv, TypeOK, Settle
  <2>2. /\ IdleReplier \in ReplierState /\ IdleReplier.of = None /\ IdleReplier.next = None
        /\ IdleReplier.at = "idle"
    BY DEF IdleReplier, ReplierState, Reply
  <2>3. state \in ReplierState
    BY <2>1, <2>2 DEF ReplierState
  <2>4. replier' = [replier EXCEPT ![p] = state]
    BY <1>9 DEF Settle
  <2>5. /\ state.at \in {"idle", "remember", "sweep"}
        /\ state.next \in {replier[p].next, None} /\ state.of \in {replier[p].of, None}
        /\ state.at # "idle" => state.of = replier[p].of /\ state.reply = replier[p].reply
    BY <2>1, <2>2 DEF ReplierState
  <2>6. replier[p].reply \in announced[replier[p].of]
    BY <2>1 DEF IInv, ToldFirst
  <2> HIDE DEF state
  <2> QED BY <1>9, <2>1, <2>3, <2>4, <2>5, <2>6, AnsweringKeepsIInv DEF Settle
<1>10. ASSUME NEW p \in Replier, Resolve(p) PROVE IInv'
  <2>1. /\ replier[p] \in ReplierState /\ replier[p].at = "resolve"
        /\ replier[p].of \in Request /\ replier[p].next \in Request
    BY <1>10 DEF IInv, TypeOK, Resolve
  <2>2. /\ Swept(p) \in ReplierState /\ Swept(p).at = "sweep" /\ Swept(p).next = None
        /\ Swept(p).of = replier[p].of /\ Swept(p).reply = replier[p].reply
    BY <2>1 DEF Swept, ReplierState
  <2>3. replier[p].reply \in announced[replier[p].next]
    BY <2>1 DEF IInv, ToldFirst
  <2> QED BY <1>10, <2>1, <2>2, <2>3, AnsweringKeepsIInv DEF Resolve
<1>11. ASSUME NEW p \in Replier, NEW r \in Request, Visit(p, r) PROVE IInv'
  BY <1>11, VisitKeepsIInv
<1>12. ASSUME NEW x \in Resource, RemoveRule(x) PROVE IInv'
  <2>1. UNCHANGED <<caller, pending, settled, announced, replier, replies>> /\ saved' \subseteq Resource
    BY <1>12 DEF RemoveRule, IInv, TypeOK
  <2> QED BY <2>1 DEF IInv, TypeOK, IdsAreSeen, UnregisteredIsUnknown, HoldsItsId, ToldFirst,
                      OutcomeWasAnnounced, Targeted, Awaits
<1>13. CASE UNCHANGED vars
  BY <1>13 DEF vars, IInv, TypeOK, IdsAreSeen, UnregisteredIsUnknown, HoldsItsId, ToldFirst,
               OutcomeWasAnnounced, Targeted, Awaits
<1> QED
  BY <1>1, <1>2, <1>3, <1>4, <1>5, <1>6, <1>7, <1>8, <1>9, <1>10, <1>11, <1>12, <1>13
  DEF Next, Answering

-------------------------------------------------------------------------------
(* The sweep *)

\* Whom a sweep has visited has its outcome.
SweptAreSettled ==
  \A p \in Replier : \A r \in replier[p].swept : settled[r] # None

\* A sweep only lists an entry after completing it, and an outcome stays.
LEMMA SweptStaySettled ==
  ASSUME IInv, SweptAreSettled, [Next]_vars
  PROVE  SweptAreSettled'
<1>0. /\ replier \in [Replier -> ReplierState] /\ settled \in [Request -> Outcome \cup {None}]
      /\ \A p \in Replier : replier[p].swept \subseteq Request
  BY DEF IInv, TypeOK, ReplierState
<1>1. ASSUME settled' = settled, \A p \in Replier : replier'[p].swept \subseteq replier[p].swept
      PROVE  SweptAreSettled'
  BY <1>1 DEF SweptAreSettled
<1>2. CASE replier' = replier /\ settled' = settled
  BY <1>2 DEF SweptAreSettled
<1>3. ASSUME NEW p \in Replier, NEW c \in Request, Complete(c, OutcomeOf(p)),
             NEW state, replier' = [replier EXCEPT ![p] = state],
             state.swept \subseteq replier[p].swept \cup {c}
      PROVE  SweptAreSettled'
  <2>1. settled'[c] # None /\ \A r \in Request : settled[r] # None => settled'[r] # None
    BY <1>0, <1>3, RequestAssumption DEF Complete, OutcomeOf, Outcome
  <2> QED BY <1>0, <1>3, <2>1 DEF SweptAreSettled
<1>4. ASSUME NEW r \in Request, \/ Evaluate(r) \/ Register(r) \/ PublishAsked(r)
                                \/ PublishAskedFails(r) \/ Resume(r) \/ Interrupt(r)
      PROVE  SweptAreSettled'
  BY <1>2, <1>4 DEF Evaluate, Register, PublishAsked, PublishAskedFails, Resume, Interrupt
<1>5. ASSUME NEW p \in Replier, NEW r \in Request, NEW reply \in Reply, Find(p, r, reply)
      PROVE  SweptAreSettled'
  BY <1>0, <1>1, <1>5 DEF Find, IdleReplier
<1>6. ASSUME NEW p \in Replier, PublishReplied(p) \/ PublishSwept(p) \/ SaveRules(p)
      PROVE  SweptAreSettled'
  BY <1>0, <1>1, <1>6 DEF PublishReplied, PublishSwept, SaveRules, ReplierState
<1>7. ASSUME NEW p \in Replier, Remember(p) \/ Return(p) PROVE SweptAreSettled'
  BY <1>0, <1>1, <1>7 DEF Remember, Return, IdleReplier, ReplierState
<1>8. ASSUME NEW p \in Replier, Settle(p) PROVE SweptAreSettled'
  <2> DEFINE state == IF replier[p].reply = "reject" THEN [replier[p] EXCEPT !.at = "sweep"]
                      ELSE IF Remembers(p) THEN [replier[p] EXCEPT !.at = "remember"]
                      ELSE IdleReplier
  <2>1. state.swept \subseteq replier[p].swept
    BY <1>0 DEF IdleReplier, ReplierState
  <2>2. /\ replier[p].of \in Request /\ Complete(replier[p].of, OutcomeOf(p))
        /\ replier' = [replier EXCEPT ![p] = state]
    BY <1>8 DEF Settle, IInv, TypeOK
  <2> HIDE DEF state
  <2> QED BY <1>3, <2>1, <2>2
<1>9. ASSUME NEW p \in Replier, Resolve(p) PROVE SweptAreSettled'
  <2>1. Swept(p).swept = replier[p].swept \cup {replier[p].next}
    BY <1>0 DEF Swept, ReplierState
  <2>2. /\ replier[p].next \in Request /\ Complete(replier[p].next, OutcomeOf(p))
        /\ replier' = [replier EXCEPT ![p] = Swept(p)]
    BY <1>9 DEF Resolve, IInv, TypeOK
  <2> QED BY <1>3, <2>1, <2>2
<1>10. ASSUME NEW p \in Replier, NEW r \in Request, Visit(p, r) PROVE SweptAreSettled'
  BY <1>0, <1>1, <1>10 DEF Visit, ReplierState
<1>11. ASSUME NEW x \in Resource, RemoveRule(x) PROVE SweptAreSettled'
  BY <1>2, <1>11 DEF RemoveRule
<1>12. CASE UNCHANGED vars
  BY <1>2, <1>12 DEF vars
<1> QED
  BY <1>4, <1>5, <1>6, <1>7, <1>8, <1>9, <1>10, <1>11, <1>12 DEF Next, Answering

\* A sweep that returns has come to every entry that it concerns.
LEMMA ReturnLeavesNobody ==
  ASSUME IInv, SweptAreSettled, [Next]_vars, NEW p \in Replier,
         replier[p].at = "sweep", replier'[p].at = "idle",
         NEW r \in Request, Awaits(r), Concerns(p, r)
  PROVE  settled[r] # None
<1>0. replier \in [Replier -> ReplierState]
  BY DEF IInv, TypeOK
<1>1. Return(p)
  <2>1. CASE \E q \in Request : \/ Evaluate(q) \/ Register(q) \/ PublishAsked(q)
                               \/ PublishAskedFails(q) \/ Resume(q) \/ Interrupt(q)
    BY <2>1 DEF Evaluate, Register, PublishAsked, PublishAskedFails, Resume, Interrupt
  <2>2. ASSUME NEW q \in Replier, NEW c \in Request, NEW reply \in Reply, Find(q, c, reply)
        PROVE  FALSE
    BY <1>0, <2>2 DEF Find
  <2>3. ASSUME NEW q \in Replier, \/ PublishReplied(q) \/ PublishSwept(q) \/ SaveRules(q)
                                 \/ Remember(q) \/ Settle(q) \/ Resolve(q)
        PROVE  FALSE
    BY <1>0, <2>3 DEF PublishReplied, PublishSwept, SaveRules, Remember, Settle, Resolve
  <2>4. ASSUME NEW q \in Replier, NEW c \in Request, Visit(q, c) PROVE FALSE
    BY <1>0, <2>4 DEF Visit, ReplierState
  <2>5. CASE \E x \in Resource : RemoveRule(x)
    BY <2>5 DEF RemoveRule
  <2>6. ASSUME NEW q \in Replier, q # p, Return(q) PROVE FALSE
    BY <1>0, <2>6 DEF Return
  <2>7. CASE UNCHANGED vars
    BY <2>7 DEF vars
  <2> QED BY <2>1, <2>2, <2>3, <2>4, <2>5, <2>6, <2>7 DEF Next, Answering
<1>2. r \notin pending \/ r \in replier[p].swept
  BY <1>1 DEF Return, ToSweep
<1> QED BY <1>2 DEF IInv, HoldsItsId, SweptAreSettled

-------------------------------------------------------------------------------
(* Theorems *)

\* The invariant holds throughout.
THEOREM InvHolds == Safe => []IInv
<1> QED BY InitIInv, NextKeepsIInv, PTL DEF Safe

\* Callers, the Map, outcomes and repliers are well typed, and pending IDs distinct, for
\* any requests and repliers.
THEOREM TypeCorrect == Safe => []TypeOK
<1>1. IInv => TypeOK
  BY DEF IInv
<1> QED BY <1>1, InvHolds, PTL

\* A caller that waits has its outcome or is where a reply will find it: no interleaving of
\* replies, sweeps, interrupts and asks that reuse IDs strands one.
THEOREM NobodyStranded == Safe => []NoOrphan
<1>1. IInv => NoOrphan
  BY DEF IInv, HoldsItsId, NoOrphan
<1> QED BY <1>1, InvHolds, PTL

\* Clients are told of every outcome before the caller gets it.
THEOREM OutcomesAreAnnounced == Safe => []OutcomeWasAnnounced
<1>1. IInv => OutcomeWasAnnounced
  BY DEF IInv
<1> QED BY <1>1, InvHolds, PTL

\* When a reply returns, nobody it concerns is left waiting, however the Map changed while
\* it went through it.
THEOREM SweepsAreComplete == Safe => SweepIsComplete
<1>1. Init => SweptAreSettled
  <2>1. IdleReplier.swept = {}
    BY DEF IdleReplier
  <2>2. Init => \A p \in Replier : replier[p] = IdleReplier
    BY DEF Init
  <2> QED BY <2>1, <2>2 DEF SweptAreSettled
<1>2. Safe => []SweptAreSettled
  BY <1>1, SweptStaySettled, InvHolds, PTL DEF Safe
<1>3. IInv /\ SweptAreSettled /\ [Next]_vars =>
        [\A p \in Replier : replier[p].at = "sweep" /\ replier'[p].at = "idle" =>
           \A r \in Request : Awaits(r) /\ Concerns(p, r) => settled[r] # None]_vars
  BY ReturnLeavesNobody
<1> QED BY <1>2, <1>3, InvHolds, PTL DEF Safe, SweepIsComplete
===============================================================================
