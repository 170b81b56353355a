--------------------------- MODULE PermissionQueue ---------------------------
(***************************************************************************)
(* The pending permission requests of one location                         *)
(* (packages/core/src/permission.ts) and the rules saved for its project.  *)
(*                                                                         *)
(* Callers evaluate a request against the configured and the saved rules,  *)
(* register it and wait; replies answer it and sweep the other requests.   *)
(* Every publish and every read of a table is a step of its own.           *)
(***************************************************************************)
EXTENDS Integers

CONSTANTS
  Request,     \* what callers will ask
  Asserting,   \* requests made with assert, which waits; the others with ask
  Id,          \* [Request -> requestID]
  SessionOf,   \* [Request -> sessionID]
  Configured,  \* [Request -> [its resources -> effect]], of the request's agent
  Save,        \* [Request -> resources remembered by an "always" reply]
  Replier,     \* fibers that reply
  MaxReplies,  \* bound: replies
  None

Resource == UNION {DOMAIN Configured[r] \cup Save[r] : r \in Request}
Effect   == {"allow", "ask", "deny"}
Reply    == {"once", "always", "reject"}
Outcome  == {"succeed", "fail"}   \* DeclinedError and CorrectedError alike

ASSUME RequestAssumption == Asserting \subseteq Request /\ None \notin Request \cup Outcome
ASSUME RulesAssumption == \A r \in Request : Configured[r] \in [DOMAIN Configured[r] -> Effect]
\* assert makes a new ID.
ASSUME FreshIds == \A r, q \in Asserting : Id[r] = Id[q] => r = q
ASSUME RepliesAssumption == MaxReplies \in Nat

VARIABLES
  caller,     \* where the fiber of each request is
  pending,    \* the Map's entries; their order matters to no property and is left out
  settled,    \* the Deferred of each request: its outcome, or None
  announced,  \* the replies published for each request
  saved,      \* the rules saved: resources allowed
  replier,
  replies     \* replies made so far

vars == <<caller, pending, settled, announced, saved, replier, replies>>

IdleReplier == [at |-> "idle", of |-> None, reply |-> "once", rules |-> {},
                swept |-> {}, next |-> None]

\* The request replied to and the reply; for the sweep, the remembered rules, the entries
\* visited and the one being answered.
ReplierState ==
  [at : {"idle", "announce", "save", "settle", "remember", "sweep", "tell", "resolve"},
   of : Request \cup {None}, reply : Reply, rules : SUBSET Resource,
   swept : SUBSET Request, next : Request \cup {None}]

TypeOK ==
  /\ caller \in [Request -> {"idle", "checked", "registered", "waiting", "queued", "passed",
                             "failed"}]
  /\ pending \subseteq Request /\ \A q, r \in pending : Id[q] = Id[r] => q = r
  /\ settled \in [Request -> Outcome \cup {None}]
  /\ announced \in [Request -> SUBSET Reply]
  /\ saved \subseteq Resource
  /\ replier \in [Replier -> ReplierState]
  /\ \A p \in Replier : /\ replier[p].at # "idle" => replier[p].of \in Request
                        /\ replier[p].at \in {"tell", "resolve"} => replier[p].next \in Request
  /\ replies \in 0 .. MaxReplies

Init ==
  /\ caller = [r \in Request |-> "idle"]
  /\ pending = {}
  /\ settled = [r \in Request |-> None]
  /\ announced = [r \in Request |-> {}]
  /\ saved = {}
  /\ replier = [p \in Replier |-> IdleReplier]
  /\ replies = 0

Known(id) == \E r \in pending : Id[r] = id

\* Map.delete: whoever is registered under the ID.
Without(id) == {r \in pending : Id[r] # id}

-------------------------------------------------------------------------------
(* ask and assert *)

Denied(r) == \E x \in DOMAIN Configured[r] : Configured[r][x] = "deny"

\* Saved rules come after the configured ones, and the last match counts; but a
\* configured denial is looked for first.
Allowed(r, rules) ==
  ~Denied(r) /\ \A x \in DOMAIN Configured[r] : x \in rules \/ Configured[r][x] = "allow"

\* The ID of an ask is its client's choice, and may be one the client saw before.
HasItsId(r) ==
  \A q \in Asserting : Id[q] = Id[r] => q = r \/ caller[q] \notin {"idle", "checked"}

Evaluate(r) ==
  /\ caller[r] = "idle" /\ HasItsId(r)
  /\ caller' = [caller EXCEPT ![r] = IF Denied(r) THEN "failed"
                                     ELSE IF Allowed(r, saved) THEN "passed" ELSE "checked"]
  /\ UNCHANGED <<pending, settled, announced, saved, replier, replies>>

\* Deviation: a pending ID is registered again.
RegisterAgain(r) ==
  /\ caller[r] = "checked"
  /\ caller' = [caller EXCEPT ![r] = "registered"] /\ pending' = pending \cup {r}
  /\ UNCHANGED <<settled, announced, saved, replier, replies>>

\* create: a pending ID is not registered again.
Register(r) ==
  /\ caller[r] = "checked"
  /\ IF Known(Id[r])
     THEN caller' = [caller EXCEPT ![r] = "failed"] /\ UNCHANGED pending
     ELSE caller' = [caller EXCEPT ![r] = "registered"] /\ pending' = pending \cup {r}
  /\ UNCHANGED <<settled, announced, saved, replier, replies>>

\* Asked is published.
PublishAsked(r) ==
  /\ caller[r] = "registered"
  /\ caller' = [caller EXCEPT ![r] = IF r \in Asserting THEN "waiting" ELSE "queued"]
  /\ UNCHANGED <<pending, settled, announced, saved, replier, replies>>

\* A listener of Asked fails: onError takes the request back.
PublishAskedFails(r) ==
  /\ caller[r] = "registered"
  /\ caller' = [caller EXCEPT ![r] = "failed"]
  /\ pending' = Without(Id[r])
  /\ UNCHANGED <<settled, announced, saved, replier, replies>>

\* The awaiting fiber takes the outcome.
Resume(r) ==
  /\ caller[r] = "waiting" /\ settled[r] # None
  /\ caller' = [caller EXCEPT ![r] = IF settled[r] = "succeed" THEN "passed" ELSE "failed"]
  /\ pending' = Without(Id[r])
  /\ UNCHANGED <<settled, announced, saved, replier, replies>>

Interrupt(r) ==
  /\ caller[r] = "waiting"
  /\ caller' = [caller EXCEPT ![r] = "failed"]
  /\ pending' = Without(Id[r])
  /\ UNCHANGED <<settled, announced, saved, replier, replies>>

-------------------------------------------------------------------------------
(* reply *)

\* A Deferred keeps the outcome that came first.
Complete(r, outcome) ==
  settled' = [settled EXCEPT ![r] = IF @ = None THEN outcome ELSE @]

Remembers(p) == replier[p].reply = "always" /\ Save[replier[p].of] # {}

\* Deviation: the reply is published when it has been carried out.
FindAndSettle(p, r, reply) ==
  /\ replier[p].at = "idle" /\ r \in pending
  /\ replies < MaxReplies /\ replies' = replies + 1
  /\ replier' = [replier EXCEPT ![p] = [IdleReplier EXCEPT !.at = "settle", !.of = r,
                                                           !.reply = reply]]
  /\ UNCHANGED <<caller, pending, settled, announced, saved>>

\* A reply to an ID that is not pending fails and changes nothing.
Find(p, r, reply) ==
  /\ replier[p].at = "idle" /\ r \in pending
  /\ replies < MaxReplies /\ replies' = replies + 1
  /\ replier' = [replier EXCEPT ![p] = [IdleReplier EXCEPT !.at = "announce", !.of = r,
                                                           !.reply = reply]]
  /\ UNCHANGED <<caller, pending, settled, announced, saved>>

\* Deviation: a reply with nothing to remember is only published.
PublishRepliedOnly(p) ==
  /\ replier[p].at = "announce"
  /\ announced' = [announced EXCEPT ![replier[p].of] = @ \cup {replier[p].reply}]
  /\ replier' = [replier EXCEPT ![p] = IF Remembers(p) THEN [@ EXCEPT !.at = "save"] ELSE IdleReplier]
  /\ UNCHANGED <<caller, pending, settled, saved, replies>>

PublishReplied(p) ==
  /\ replier[p].at = "announce"
  /\ announced' = [announced EXCEPT ![replier[p].of] = @ \cup {replier[p].reply}]
  /\ replier' = [replier EXCEPT ![p].at = IF Remembers(p) THEN "save" ELSE "settle"]
  /\ UNCHANGED <<caller, pending, settled, saved, replies>>

SaveRules(p) ==
  /\ replier[p].at = "save"
  /\ saved' = saved \cup Save[replier[p].of]
  /\ replier' = [replier EXCEPT ![p].at = "settle"]
  /\ UNCHANGED <<caller, pending, settled, announced, replies>>

OutcomeOf(p) == IF replier[p].reply = "reject" THEN "fail" ELSE "succeed"

Settle(p) ==
  /\ replier[p].at = "settle"
  /\ Complete(replier[p].of, OutcomeOf(p))
  /\ pending' = Without(Id[replier[p].of])
  /\ replier' = [replier EXCEPT ![p] = IF @.reply = "reject" THEN [@ EXCEPT !.at = "sweep"]
                                       ELSE IF Remembers(p) THEN [@ EXCEPT !.at = "remember"]
                                       ELSE IdleReplier]
  /\ UNCHANGED <<caller, announced, saved, replies>>

\* What is saved now is what the sweep goes by.
Remember(p) ==
  /\ replier[p].at = "remember"
  /\ replier' = [replier EXCEPT ![p].at = "sweep", ![p].rules = saved]
  /\ UNCHANGED <<caller, pending, settled, announced, saved, replies>>

\* Whom the reply answers besides: the Session's other requests if it is a reject, and
\* what the remembered rules allow if it is not.
Concerns(p, r) ==
  IF replier[p].reply = "reject" THEN SessionOf[r] = SessionOf[replier[p].of]
  ELSE Allowed(r, replier[p].rules)

\* for (const [id, item] of pending) goes over the Map as it changes, and comes to every
\* entry once, those registered meanwhile included.
ToSweep(p) == {r \in pending \ replier[p].swept : Concerns(p, r)}

Visit(p, r) ==
  /\ replier[p].at = "sweep" /\ r \in ToSweep(p)
  /\ replier' = [replier EXCEPT ![p].at = "tell", ![p].next = r]
  /\ UNCHANGED <<caller, pending, settled, announced, saved, replies>>

\* The entry may have been answered and deleted by now.
PublishSwept(p) ==
  /\ replier[p].at = "tell"
  /\ announced' = [announced EXCEPT ![replier[p].next] = @ \cup {replier[p].reply}]
  /\ replier' = [replier EXCEPT ![p].at = "resolve"]
  /\ UNCHANGED <<caller, pending, settled, saved, replies>>

Swept(p) == [replier[p] EXCEPT !.at = "sweep", !.swept = @ \cup {replier[p].next}, !.next = None]

\* Deviation: the Deferred of the request replied to is completed, not the entry's.
ResolveExisting(p) ==
  /\ replier[p].at = "resolve"
  /\ Complete(replier[p].of, OutcomeOf(p))
  /\ pending' = Without(Id[replier[p].next])
  /\ replier' = [replier EXCEPT ![p] = Swept(p)]
  /\ UNCHANGED <<caller, announced, saved, replies>>

Resolve(p) ==
  /\ replier[p].at = "resolve"
  /\ Complete(replier[p].next, OutcomeOf(p))
  /\ pending' = Without(Id[replier[p].next])
  /\ replier' = [replier EXCEPT ![p] = Swept(p)]
  /\ UNCHANGED <<caller, announced, saved, replies>>

\* Deviation: the loop is left with the first entry that it answered.
ReturnEarly(p) ==
  /\ replier[p].at = "sweep" /\ (replier[p].swept # {} \/ ToSweep(p) = {})
  /\ replier' = [replier EXCEPT ![p] = IdleReplier]
  /\ UNCHANGED <<caller, pending, settled, announced, saved, replies>>

Return(p) ==
  /\ replier[p].at = "sweep" /\ ToSweep(p) = {}
  /\ replier' = [replier EXCEPT ![p] = IdleReplier]
  /\ UNCHANGED <<caller, pending, settled, announced, saved, replies>>

\* PermissionSaved.remove.
RemoveRule(x) ==
  /\ x \in saved /\ saved' = saved \ {x}
  /\ UNCHANGED <<caller, pending, settled, announced, replier, replies>>

Answering(p) ==
  \/ PublishReplied(p) \/ SaveRules(p) \/ Settle(p) \/ Remember(p)
  \/ (\E r \in Request : Visit(p, r)) \/ PublishSwept(p) \/ Resolve(p) \/ Return(p)

Next ==
  \/ \E r \in Request : \/ Evaluate(r) \/ Register(r) \/ PublishAsked(r) \/ PublishAskedFails(r)
                        \/ Resume(r) \/ Interrupt(r)
  \/ \E p \in Replier : \/ \E r \in Request, reply \in Reply : Find(p, r, reply)
                        \/ Answering(p)
  \/ \E x \in Resource : RemoveRule(x)

Safe == Init /\ [][Next]_vars

\* A reply runs uninterruptibly to its end; a fiber whose Deferred is completed resumes.
Spec == /\ Safe
        /\ \A p \in Replier : WF_vars(Answering(p))
        /\ \A r \in Request : WF_vars(Resume(r))

-------------------------------------------------------------------------------
(* Properties *)

Awaits(r) == r \in Asserting /\ caller[r] \in {"registered", "waiting"}

\* Whoever waits can still be answered: its request is in the Map, where a reply finds
\* it, or has its outcome, whatever other replies, sweeps and interrupts deleted.
NoOrphan == \A r \in Request : Awaits(r) => r \in pending \/ settled[r] # None

\* No caller gets an outcome that the clients were not told of before: one that passed
\* was allowed by a published reply, one that did not was rejected by one.
OutcomeWasAnnounced ==
  \A r \in Request :
    /\ settled[r] = "succeed" => announced[r] \cap {"once", "always"} # {}
    /\ settled[r] = "fail" => "reject" \in announced[r]

\* When a reply returns, nobody is left to wait whom it concerns: neither a request of a
\* rejected Session nor one the saved rules allow, those registered or answered by
\* another reply during the sweep included.
SweepIsComplete ==
  [][\A p \in Replier : replier[p].at = "sweep" /\ replier'[p].at = "idle" =>
       \A r \in Request : Awaits(r) /\ Concerns(p, r) => settled[r] # None]_vars

\* A published reply is carried out: the fiber that waits is resumed (or interrupted).
AnnouncedIsResumed ==
  \A r \in Request : announced[r] # {} /\ caller[r] = "waiting" ~> caller[r] # "waiting"
===============================================================================
