------------------------- MODULE SessionDrainProofs -------------------------
(***************************************************************************)
(* Turns are due, inputs enter in order and answers agree, for any number  *)
(* of clients, requests, turns and crashes.                                *)
(***************************************************************************)
EXTENDS SessionDrain, WellFoundedInduction, TLAPS

----------------------------------------------------------------------------
(* The inductive invariant *)

\* Sequence numbers are not handed out twice.
InboxInv ==
  /\ \A i \in Id : inbox[i] # NoRow =>
        inbox[i].admitted \in 1 .. seq /\ inbox[i].promoted \in 0 .. seq
  /\ \A i, j \in Id :
        inbox[i] # NoRow /\ inbox[j] # NoRow /\ inbox[i].admitted = inbox[j].admitted => i = j
  /\ reverts \in Nat

\* A prompt call that is about to answer has the row it answers with.
Answering ==
  reverts = 0 =>
    \A c \in Client : At(c, "wake") =>
      LET r == client[c].req IN inbox[r.id] # NoRow /\ Equivalent(inbox[r.id], r)

\* Promotions follow the order of admission.
Ordered ==
  reverts = 0 =>
    \A i, j \in Id :
      (/\ inbox[i] # NoRow /\ inbox[j] # NoRow
       /\ inbox[i].delivery = inbox[j].delivery
       /\ inbox[i].admitted < inbox[j].admitted
       /\ inbox[j].promoted # 0)
        => (inbox[i].promoted # 0 /\ inbox[i].promoted < inbox[j].promoted)

\* The rows in hand are rows of the inbox that wait, all of one delivery mode; whatever
\* was admitted before one of them is promoted or in hand too.
RowsInv ==
  /\ rows # {} => pc \in {"publishQueued", "publishSteers"} /\ promotedNow
  /\ reverts = 0 => \A r \in rows :
       /\ inbox[r.id] = r.row /\ Pending(r.id)
       /\ r.row.delivery = (IF pc = "publishQueued" THEN "queue" ELSE "steer")
       /\ \A j \in Id :
            /\ Pending(j) /\ inbox[j].delivery = r.row.delivery
            /\ inbox[j].admitted < r.row.admitted
            => \E other \in rows : other.id = j

Unstarted == {"off", "failed", "hasSteer", "hasQueue", "recover"}
Promoting == {"pickQueued", "publishQueued", "pickSteers", "publishSteers", "prepare"}

\* A queued input is taken up only when nothing is to be continued, and no tool call is
\* left open when a request is assembled.
ContinueInv ==
  /\ pc \in Unstarted \cup {"pickQueued", "publishQueued", "moreQueued"} => ~continue
  /\ pc = "attempt" /\ promotion = "queue" => ~continue
  /\ pc \in Promoting \cup {"attempt", "settled", "moreQueued"} => ~openTool
  /\ pc = "turn" /\ openTool => continue

\* A steer is there for the promotion that comes next.
SteerDue == \E i \in PendingOf("steer") : inbox[i].admitted <= cutoff

\* What is promoted restarts the allowance before the next turn,
FreshInv ==
  /\ pc \in Unstarted \cup {"settled", "moreQueued"} => ~fresh
  /\ pc \in {"attempt", "turn"} /\ fresh => step = 1
  /\ pc \in Promoting /\ fresh => promotedNow \/ step = 1

\* and a turn beyond the allowance is prepared only for a steer that restarts it.
AllowanceInv ==
  reverts = 0 =>
    /\ pc \in Unstarted \cup {"pickQueued", "publishQueued", "turn", "settled", "moreQueued"}
         => step <= MaxSteps
    /\ pc \in {"turn", "settled"} /\ continue => step < MaxSteps
    /\ pc = "attempt" => step <= MaxSteps \/ (promotion = "steer" /\ HasPending("steer"))
    /\ pc = "pickSteers" => step <= MaxSteps \/ promotedNow \/ SteerDue
    /\ pc \in {"publishSteers", "prepare"} => step <= MaxSteps \/ promotedNow

\* A drain that was only woken has an input to promote until it has promoted one.
FedInv ==
  reverts = 0 /\ drain[Session] = "followUp" /\ ~fed =>
    /\ pc \in {"recover", "attempt"} => promotion # "none" /\ HasPending(promotion)
    /\ pc = "pickQueued" => HasPending("queue")
    /\ pc = "pickSteers" => SteerDue
    /\ pc \in {"publishQueued", "publishSteers"} => rows # {}
    /\ pc \notin {"prepare", "turn", "settled", "moreQueued"}

IInv ==
  /\ TypeOK /\ InboxInv /\ Answering /\ Ordered /\ RowsInv
  /\ ContinueInv /\ FreshInv /\ AllowanceInv /\ FedInv

----------------------------------------------------------------------------
(* The inbox *)

\* A set of inputs with rows has an oldest one.
LEMMA OldestExists ==
  ASSUME InboxInv, NEW ids \in SUBSET Id, ids # {}, \A i \in ids : inbox[i] # NoRow
  PROVE  Oldest(ids) # {}
<1> DEFINE R == OpToRel(<, Nat)
           numbers == {inbox[i].admitted : i \in ids}
<1>1. IsWellFoundedOn(R, Nat)
  BY NatLessThanWellFounded
<1>2. numbers \in SUBSET Nat /\ numbers # {}
  BY DEF InboxInv
<1>3. \A m, n \in Nat : <<m, n>> \in R <=> m < n
  BY DEF OpToRel
<1> HIDE DEF R, numbers
<1>4. PICK n \in numbers : \A m \in numbers : <<m, n>> \notin R
  BY <1>1, <1>2, WFMin
<1>5. PICK i \in ids : inbox[i].admitted = n
  BY DEF numbers
<1>6. ASSUME NEW j \in ids PROVE inbox[i].admitted <= inbox[j].admitted
  <2>1. inbox[j].admitted \in numbers
    BY DEF numbers
  <2>2. inbox[j].admitted \in Nat /\ n \in Nat
    BY <1>2, <2>1
  <2>3. ~(inbox[j].admitted < n)
    BY <1>3, <1>4, <2>1, <2>2
  <2> QED BY <1>5, <2>2, <2>3
<1> QED BY <1>5, <1>6 DEF Oldest

\* The same for the rows in hand.
LEMMA FirstExists ==
  ASSUME TypeOK, rows # {}
  PROVE  FirstAdmitted # {}
<1> DEFINE R == OpToRel(<, Nat)
           numbers == {r.row.admitted : r \in rows}
<1>1. IsWellFoundedOn(R, Nat)
  BY NatLessThanWellFounded
<1>2. numbers \in SUBSET Nat /\ numbers # {}
  BY DEF TypeOK, Row
<1>3. \A m, n \in Nat : <<m, n>> \in R <=> m < n
  BY DEF OpToRel
<1> HIDE DEF R, numbers
<1>4. PICK n \in numbers : \A m \in numbers : <<m, n>> \notin R
  BY <1>1, <1>2, WFMin
<1>5. PICK r \in rows : r.row.admitted = n
  BY DEF numbers
<1>6. ASSUME NEW other \in rows PROVE r.row.admitted <= other.row.admitted
  <2>1. other.row.admitted \in numbers
    BY DEF numbers
  <2>2. other.row.admitted \in Nat /\ n \in Nat
    BY <1>2, <2>1
  <2>3. ~(other.row.admitted < n)
    BY <1>3, <1>4, <2>1, <2>2
  <2> QED BY <1>5, <2>2, <2>3
<1> QED BY <1>5, <1>6 DEF FirstAdmitted

\* Nothing happens to the inbox.
LEMMA InboxSame ==
  ASSUME UNCHANGED <<inbox, seq, reverts>>
  PROVE  /\ InboxInv => InboxInv'
         /\ Ordered => Ordered'
         /\ \A i : Pending(i)' <=> Pending(i)
         /\ \A d : PendingOf(d)' = PendingOf(d) /\ (HasPending(d)' <=> HasPending(d))
BY DEF InboxInv, Ordered, Pending, PendingOf, HasPending

\* Nor to the calls.
LEMMA AnsweringSame ==
  ASSUME UNCHANGED <<inbox, client, reverts>>, Answering
  PROVE  Answering'
BY DEF Answering, At, Equivalent

\* A session that was never drained is idle.
LEMMA InitIInv == Init => IInv
<1> SUFFICES ASSUME Init PROVE IInv
  OBVIOUS
<1>1. TypeOK
  BY DEF Init, TypeOK, Serial!Init, Serial!TypeOK, Serial!Owed, Serial!Drain, Pc
<1>2. InboxInv /\ Answering /\ Ordered
  BY DEF Init, InboxInv, Answering, Ordered, At
<1>3. RowsInv /\ ContinueInv /\ FreshInv /\ FedInv
  BY DEF Init, Serial!Init, RowsInv, ContinueInv, FreshInv, FedInv, Unstarted, Promoting
<1>4. AllowanceInv
  BY StepsAssumption DEF Init, AllowanceInv, Unstarted
<1> QED BY <1>1, <1>2, <1>3, <1>4 DEF IInv

----------------------------------------------------------------------------
(* The drain up to its promotion *)

\* A drain begins, looks at the inbox and closes abandoned tool calls.
LEMMA OpeningKeepsIInv ==
  ASSUME IInv, BeginDrain \/ HasSteer \/ (HasQueue /\ pc' = "recover") \/ FailInterruptedTools
  PROVE  IInv'
<1> USE DEF Quiet, envVars, bounds, local, durable, execution, Step
<1>1. /\ TypeOK /\ InboxInv /\ Answering /\ Ordered /\ RowsInv
      /\ ContinueInv /\ FreshInv /\ AllowanceInv /\ FedInv
  BY DEF IInv
<1>2. /\ UNCHANGED <<inbox, seq, client, stopping, bounds, cutoff, rows, promotedNow, step,
                     continue, overflowOnce, fed, fresh, covered>>
      /\ openTool' \in {openTool, FALSE}
      /\ \/ /\ pc \in {"off", "failed"} /\ pc' = "hasSteer" /\ Serial!Begin(Session)
            /\ UNCHANGED promotion
         \/ /\ pc \in {"hasSteer", "hasQueue", "recover"} /\ UNCHANGED execution
            /\ \/ pc' = "hasQueue" /\ UNCHANGED promotion
               \/ pc' = "recover" /\ promotion' = "steer" /\ HasPending("steer")
               \/ pc' = "recover" /\ promotion' = "queue" /\ HasPending("queue")
               \/ pc' = "recover" /\ promotion' = "none" /\ drain[Session] = "forced"
               \/ pc = "recover" /\ pc' = "attempt" /\ UNCHANGED promotion /\ openTool' = FALSE
  <2>1. CASE BeginDrain
    BY <1>1, <2>1 DEF BeginDrain, TypeOK, Serial!Begin, Pc
  <2>2. CASE HasSteer
    BY <2>2 DEF HasSteer
  <2>3. CASE HasQueue /\ pc' = "recover"
    BY <1>1, <2>3 DEF HasQueue, Finish, Idle
  <2>4. CASE FailInterruptedTools
    BY <2>4 DEF FailInterruptedTools
  <2> QED BY <2>1, <2>2, <2>3, <2>4
<1>3. /\ \A d : HasPending(d)' <=> HasPending(d)
      /\ InboxInv' /\ Ordered' /\ Answering'
  BY <1>1, <1>2, InboxSame, AnsweringSame
<1>4. TypeOK'
  <2>1. Serial!TypeOK' /\ (pc' \in {"off", "failed"} <=> drain'[Session] = "none")
    BY <1>1, <1>2 DEF TypeOK, Serial!TypeOK, Serial!Begin, Serial!Owed, Serial!Drain
  <2> QED BY <1>1, <1>2, <2>1 DEF TypeOK, Pc
<1>5. RowsInv'
  BY <1>1, <1>2 DEF RowsInv
<1>6. ContinueInv' /\ FreshInv'
  BY <1>1, <1>2 DEF ContinueInv, FreshInv, Unstarted, Promoting
<1>7. AllowanceInv'
  BY <1>1, <1>2, <1>3 DEF AllowanceInv, Unstarted
<1>8. FedInv'
  BY <1>1, <1>2, <1>3 DEF FedInv
<1> QED BY <1>3, <1>4, <1>5, <1>6, <1>7, <1>8 DEF IInv

\* The attempt knows what to promote.
LEMMA AttemptKeepsIInv ==
  ASSUME IInv, Attempt
  PROVE  IInv'
<1> USE DEF Quiet, envVars, bounds, local, durable, execution
<1>1. /\ TypeOK /\ InboxInv /\ Answering /\ Ordered /\ RowsInv
      /\ ContinueInv /\ FreshInv /\ AllowanceInv /\ FedInv
  BY DEF IInv
<1>2. /\ UNCHANGED <<inbox, seq, client, stopping, bounds, rows, step, continue, promotion,
                     overflowOnce, fed, fresh, covered, openTool, execution>>
      /\ pc = "attempt" /\ promotedNow' = FALSE
      /\ \/ promotion = "none" /\ pc' = "prepare" /\ cutoff' = cutoff
         \/ promotion = "steer" /\ pc' = "pickSteers" /\ cutoff' = seq
         \/ promotion = "queue" /\ pc' = "pickQueued" /\ cutoff' = seq
  BY <1>1 DEF Attempt, TypeOK
<1>3. /\ \A d : HasPending(d)' <=> HasPending(d)
      /\ InboxInv' /\ Ordered' /\ Answering'
  BY <1>1, <1>2, InboxSame, AnsweringSame
<1>4. TypeOK'
  BY <1>1, <1>2 DEF TypeOK, Serial!TypeOK, Pc
<1>5. RowsInv'
  BY <1>1, <1>2 DEF RowsInv
<1>6. ContinueInv' /\ FreshInv'
  BY <1>1, <1>2 DEF ContinueInv, FreshInv, Unstarted, Promoting
<1>7. promotion = "steer" /\ HasPending("steer") => SteerDue'
  <2> SUFFICES ASSUME promotion = "steer", NEW i \in PendingOf("steer") PROVE SteerDue'
    BY DEF HasPending
  <2>1. i \in PendingOf("steer")' /\ inbox'[i].admitted <= cutoff'
    BY <1>1, <1>2, InboxSame DEF InboxInv, PendingOf, Pending
  <2> QED BY <2>1 DEF SteerDue
<1>8. AllowanceInv'
  BY <1>1, <1>2, <1>3, <1>7 DEF AllowanceInv, Unstarted
<1>9. FedInv'
  BY <1>1, <1>2, <1>3, <1>7 DEF FedInv
<1> QED BY <1>3, <1>4, <1>5, <1>6, <1>8, <1>9 DEF IInv

\* The inputs that are picked wait, and no older one waits unless it is picked too.
LEMMA PickKeepsIInv ==
  ASSUME IInv, PickQueued \/ PickSteers
  PROVE  IInv'
<1> USE DEF Quiet, envVars, bounds, local, durable, execution, Step
<1> DEFINE mode == IF pc = "pickQueued" THEN "queue" ELSE "steer"
           ids == IF pc = "pickQueued" THEN Oldest(PendingOf("queue"))
                  ELSE {i \in PendingOf("steer") : inbox[i].admitted <= cutoff}
<1>1. /\ TypeOK /\ InboxInv /\ Answering /\ Ordered /\ RowsInv
      /\ ContinueInv /\ FreshInv /\ AllowanceInv /\ FedInv
  BY DEF IInv
<1>2. /\ UNCHANGED <<inbox, seq, client, stopping, bounds, step, continue, promotion,
                     overflowOnce, fed, fresh, covered, openTool, execution>>
      /\ pc \in {"pickQueued", "pickSteers"} /\ cutoff' \in {0, cutoff}
      /\ pc' = IF pc = "pickQueued" THEN "publishQueued" ELSE "publishSteers"
      /\ rows' = {[id |-> i, row |-> inbox[i]] : i \in ids}
      /\ promotedNow' = (promotedNow \/ ids # {})
  BY DEF PickQueued, PickSteers, Pick
<1>3. ids \subseteq PendingOf(mode)
  BY DEF Oldest
<1>4. \A i \in ids, j \in PendingOf(mode) : inbox[j].admitted < inbox[i].admitted => j \in ids
  <2> SUFFICES ASSUME NEW i \in ids, NEW j \in PendingOf(mode),
                      inbox[j].admitted < inbox[i].admitted
               PROVE  j \in ids
    OBVIOUS
  <2>1. inbox[i].admitted \in Nat /\ inbox[j].admitted \in Nat
    BY <1>1, <1>3 DEF InboxInv, PendingOf, Pending
  <2>2. CASE pc = "pickQueued"
    BY <2>1, <2>2 DEF Oldest
  <2>3. CASE pc # "pickQueued"
    BY <1>1, <2>1, <2>3 DEF TypeOK
  <2> QED BY <2>2, <2>3
<1>5. /\ pc = "pickQueued" /\ HasPending("queue") => ids # {}
      /\ pc = "pickSteers" /\ SteerDue => ids # {}
  <2>1. \A i \in PendingOf("queue") : inbox[i] # NoRow
    BY DEF PendingOf, Pending
  <2>2. PendingOf("queue") \in SUBSET Id
    BY DEF PendingOf
  <2> QED BY <1>1, <2>1, <2>2, OldestExists DEF HasPending, SteerDue
<1> HIDE DEF ids
<1>6. rows' # {} <=> ids # {}
  BY <1>2
<1>7. /\ \A d : HasPending(d)' <=> HasPending(d)
      /\ \A i : Pending(i)' <=> Pending(i)
      /\ InboxInv' /\ Ordered' /\ Answering'
  BY <1>1, <1>2, InboxSame, AnsweringSame
<1>8. TypeOK'
  <2>1. rows' \subseteq [id : Id, row : Row]
    BY <1>1, <1>2, <1>3 DEF TypeOK, PendingOf, Pending
  <2> QED BY <1>1, <1>2, <2>1 DEF TypeOK, Serial!TypeOK, Pc
<1>9. RowsInv'
  <2>1. ASSUME NEW r \in rows'
        PROVE  /\ inbox'[r.id] = r.row /\ Pending(r.id)'
               /\ r.row.delivery = (IF pc' = "publishQueued" THEN "queue" ELSE "steer")
               /\ \A j \in Id :
                    /\ Pending(j)' /\ inbox'[j].delivery = r.row.delivery
                    /\ inbox'[j].admitted < r.row.admitted
                    => \E other \in rows' : other.id = j
    <3>1. PICK i \in ids : r = [id |-> i, row |-> inbox[i]]
      BY <1>2
    <3>2. r.id = i /\ r.row = inbox[i] /\ Pending(i) /\ inbox[i].delivery = mode
      BY <1>3, <3>1 DEF PendingOf
    <3>3. ASSUME NEW j \in Id, Pending(j)', inbox'[j].delivery = r.row.delivery,
                 inbox'[j].admitted < r.row.admitted
          PROVE  \E other \in rows' : other.id = j
      <4>1. j \in PendingOf(mode)
        BY <1>2, <1>7, <3>2, <3>3 DEF PendingOf
      <4>2. j \in ids
        BY <1>2, <1>4, <3>2, <3>3, <4>1
      <4>3. [id |-> j, row |-> inbox[j]] \in rows'
        BY <1>2, <4>2
      <4> QED BY <4>3
    <3> QED BY <1>2, <1>7, <3>2, <3>3
  <2>2. rows' # {} => pc' \in {"publishQueued", "publishSteers"} /\ promotedNow'
    BY <1>2, <1>6
  <2> QED BY <2>1, <2>2 DEF RowsInv
<1>10. ContinueInv' /\ FreshInv'
  BY <1>1, <1>2 DEF ContinueInv, FreshInv, Unstarted, Promoting
<1>11. AllowanceInv'
  BY <1>1, <1>2, <1>5 DEF AllowanceInv, Unstarted
<1>12. FedInv'
  BY <1>1, <1>2, <1>5, <1>6 DEF FedInv
<1> QED BY <1>7, <1>8, <1>9, <1>10, <1>11, <1>12 DEF IInv

\* The rows are published; the attempt is repeated after compaction, or the provider is
\* called.
LEMMA PrepareKeepsIInv ==
  ASSUME IInv, PublishedRows \/ Compact \/ CallProvider
  PROVE  IInv'
<1> USE DEF Quiet, envVars, bounds, local, durable, execution, Step
<1>1. /\ TypeOK /\ InboxInv /\ Answering /\ Ordered /\ RowsInv
      /\ ContinueInv /\ FreshInv /\ AllowanceInv /\ FedInv
  BY DEF IInv
<1>2. /\ UNCHANGED <<inbox, seq, client, stopping, bounds, cutoff, rows, overflowOnce, fed, fresh,
                     covered, openTool, execution>>
      /\ \/ /\ rows = {} /\ UNCHANGED <<promotion, promotedNow, step, continue>>
            /\ \/ pc = "publishQueued" /\ pc' = "pickSteers"
               \/ pc = "publishSteers" /\ pc' = "prepare"
         \/ /\ pc = "prepare" /\ pc' = "attempt" /\ promotion' = "none"
            /\ step' = CurrentStep /\ UNCHANGED <<promotedNow, continue>>
         \/ /\ pc = "prepare" /\ pc' = "turn" /\ step' = CurrentStep
            /\ continue' = FALSE /\ promotedNow' = FALSE /\ UNCHANGED promotion
  BY DEF PublishedRows, Compact, CallProvider
<1>3. /\ \A d : HasPending(d)' <=> HasPending(d)
      /\ InboxInv' /\ Ordered' /\ Answering'
  BY <1>1, <1>2, InboxSame, AnsweringSame
<1>4. /\ CurrentStep \in Nat /\ (promotedNow => CurrentStep = 1)
      /\ ~promotedNow => CurrentStep = step
  BY <1>1 DEF TypeOK, CurrentStep
<1>5. TypeOK'
  BY <1>1, <1>2, <1>4 DEF TypeOK, Serial!TypeOK, Pc
<1>6. RowsInv'
  BY <1>1, <1>2 DEF RowsInv
<1>7. ContinueInv' /\ FreshInv'
  BY <1>1, <1>2, <1>4 DEF ContinueInv, FreshInv, Unstarted, Promoting
<1>8. AllowanceInv'
  BY <1>1, <1>2, <1>4, StepsAssumption DEF AllowanceInv, Unstarted
<1>9. FedInv'
  BY <1>1, <1>2, <1>3 DEF FedInv
<1> QED BY <1>3, <1>5, <1>6, <1>7, <1>8, <1>9 DEF IInv

\* The turn calls tools and ends, or overflows before anything came of it.
LEMMA TurnKeepsIInv ==
  ASSUME IInv, ToolCall \/ TurnEnds \/ RecoverOverflow
  PROVE  IInv'
<1> USE DEF Quiet, envVars, bounds, local, durable, execution, Step
<1>1. /\ TypeOK /\ InboxInv /\ Answering /\ Ordered /\ RowsInv
      /\ ContinueInv /\ FreshInv /\ AllowanceInv /\ FedInv
  BY DEF IInv
<1>2. /\ UNCHANGED <<inbox, seq, client, stopping, bounds, cutoff, rows, promotedNow, step, fed,
                     covered, execution>>
      /\ pc = "turn"
      /\ \/ /\ pc' = pc /\ step < MaxSteps /\ continue' = TRUE /\ openTool' = TRUE
            /\ UNCHANGED <<promotion, overflowOnce, fresh>>
         \/ /\ pc' = "settled" /\ openTool' = FALSE /\ continue' \in BOOLEAN
            /\ (continue' => continue) /\ fresh' = FALSE /\ UNCHANGED <<promotion, overflowOnce>>
         \/ /\ pc' = "attempt" /\ ~continue /\ promotion' = "none" /\ overflowOnce' = FALSE
            /\ UNCHANGED <<continue, openTool, fresh>>
  <2>1. CASE ToolCall
    BY <2>1 DEF ToolCall
  <2>2. CASE TurnEnds
    <3>1. continue' = continue \/ continue' = FALSE
      BY <2>2 DEF TurnEnds
    <3>2. continue \in BOOLEAN
      BY <1>1 DEF TypeOK
    <3>3. continue' \in BOOLEAN /\ (continue' => continue)
      <4>1. CASE continue' = continue
        BY <3>2, <4>1
      <4>2. CASE continue' = FALSE
        BY <4>2
      <4> QED BY <3>1, <4>1, <4>2
    <3> QED BY <2>2, <3>3 DEF TurnEnds
  <2>3. CASE RecoverOverflow
    BY <2>3 DEF RecoverOverflow
  <2> QED BY <2>1, <2>2, <2>3
<1>3. /\ \A d : HasPending(d)' <=> HasPending(d)
      /\ InboxInv' /\ Ordered' /\ Answering'
  BY <1>1, <1>2, InboxSame, AnsweringSame
<1>4. TypeOK'
  BY <1>1, <1>2 DEF TypeOK, Serial!TypeOK, Pc
<1>5. RowsInv'
  BY <1>1, <1>2 DEF RowsInv
<1>6. ContinueInv' /\ FreshInv'
  BY <1>1, <1>2 DEF ContinueInv, FreshInv, Unstarted, Promoting
<1>7. AllowanceInv'
  BY <1>1, <1>2 DEF AllowanceInv, Unstarted
<1>8. FedInv'
  BY <1>1, <1>2, <1>3 DEF FedInv
<1> QED BY <1>3, <1>4, <1>5, <1>6, <1>7, <1>8 DEF IInv

\* Another turn, another activity.
LEMMA NextKeepsFlow ==
  ASSUME IInv, NextTurn \/ (MoreQueued /\ pc' = "attempt")
  PROVE  IInv'
<1> USE DEF Quiet, envVars, bounds, local, durable, execution, Step
<1>1. /\ TypeOK /\ InboxInv /\ Answering /\ Ordered /\ RowsInv
      /\ ContinueInv /\ FreshInv /\ AllowanceInv /\ FedInv
  BY DEF IInv
<1>2. /\ UNCHANGED <<inbox, seq, client, stopping, bounds, cutoff, rows, promotedNow, continue,
                     fed, fresh, covered, openTool, execution>>
      /\ \/ /\ pc = "settled" /\ pc' = "attempt"
            /\ continue \/ HasPending("steer")
            /\ step' = step + 1 /\ promotion' = "steer" /\ overflowOnce' = TRUE
         \/ /\ pc = "settled" /\ pc' = "moreQueued" /\ ~continue
            /\ UNCHANGED <<step, promotion, overflowOnce>>
         \/ /\ pc = "moreQueued" /\ pc' = "attempt" /\ HasPending("queue")
            /\ step' = 1 /\ promotion' = "queue" /\ overflowOnce' = TRUE
  <2>1. CASE NextTurn
    BY <2>1 DEF NextTurn
  <2>2. CASE MoreQueued /\ pc' = "attempt"
    BY <2>2 DEF MoreQueued, Finish
  <2> QED BY <2>1, <2>2
<1>3. /\ \A d : HasPending(d)' <=> HasPending(d)
      /\ InboxInv' /\ Ordered' /\ Answering'
  BY <1>1, <1>2, InboxSame, AnsweringSame
<1>4. TypeOK'
  <2>1. step' \in Nat
    BY <1>1, <1>2 DEF TypeOK
  <2> QED BY <1>1, <1>2, <2>1 DEF TypeOK, Serial!TypeOK, Pc
<1>5. RowsInv'
  BY <1>1, <1>2 DEF RowsInv
<1>6. ContinueInv' /\ FreshInv'
  BY <1>1, <1>2 DEF ContinueInv, FreshInv, Unstarted, Promoting
<1>7. AllowanceInv'
  BY <1>1, <1>2, <1>3, StepsAssumption DEF AllowanceInv, Unstarted, TypeOK
<1>8. FedInv'
  BY <1>1, <1>2, <1>3 DEF FedInv
<1> QED BY <1>3, <1>4, <1>5, <1>6, <1>7, <1>8 DEF IInv

----------------------------------------------------------------------------
(* The end of a drain, and what else happens to the session *)

\* Nothing is in hand when the drain is over.
LEMMA OverKeepsIInv ==
  ASSUME IInv, Idle, UNCHANGED <<inbox, seq, reverts>>,
         client' = client \/ client' = [c \in Client |-> [at |-> "idle"]],
         pc' \in {"off", "failed"}, drain'[Session] = "none", Serial!TypeOK',
         openTool' \in BOOLEAN, stopping' \in BOOLEAN, fed' \in BOOLEAN, fresh' = FALSE,
         covered' \subseteq Id
  PROVE  IInv'
<1>1. TypeOK /\ InboxInv /\ Answering /\ Ordered
  BY DEF IInv
<1>2. InboxInv' /\ Ordered'
  BY <1>1, InboxSame
<1>3. Answering'
  BY <1>1 DEF Answering, At, Equivalent
<1>4. TypeOK'
  <2>1. client' \in [Client -> [at : {"idle"}]
                               \cup [at : {"publish", "find", "wake"}, req : Request]]
    BY <1>1 DEF TypeOK
  <2> QED BY <1>1, <2>1 DEF TypeOK, Idle, Pc
<1>5. RowsInv' /\ ContinueInv' /\ FreshInv' /\ FedInv'
  BY DEF Idle, RowsInv, ContinueInv, FreshInv, FedInv, Unstarted, Promoting
<1>6. AllowanceInv'
  BY StepsAssumption DEF Idle, AllowanceInv, Unstarted
<1> QED BY <1>2, <1>3, <1>4, <1>5, <1>6 DEF IInv

\* The drain finishes, in whatever way.
LEMMA FinishKeepsIInv ==
  ASSUME IInv, NEW failed \in BOOLEAN, Finish(failed), UNCHANGED <<inbox, seq>>,
         openTool' \in BOOLEAN
  PROVE  IInv'
<1>1. TypeOK
  BY DEF IInv
<1>2. Serial!TypeOK' /\ drain'[Session] = "none"
  BY <1>1 DEF TypeOK, Finish, Serial!End, Serial!TypeOK, Serial!Drain, Serial!Owed
<1>3. covered' \subseteq Id
  BY <1>1 DEF TypeOK, Finish
<1> QED BY <1>2, <1>3, OverKeepsIInv DEF Finish, bounds

\* The process dies.
LEMMA CrashKeepsIInv ==
  ASSUME IInv, Crash
  PROVE  IInv'
<1>1. TypeOK
  BY DEF IInv
<1>2. Serial!TypeOK' /\ drain'[Session] = "none"
  BY <1>1 DEF TypeOK, Crash, Serial!TypeOK, Serial!Drain, Serial!Owed
<1>3. openTool' \in BOOLEAN
  BY <1>1 DEF TypeOK, Crash, durable
<1> QED BY <1>2, <1>3, OverKeepsIInv DEF Crash, durable

\* Resume and interrupt reach the execution alone.
LEMMA RequestKeepsIInv ==
  ASSUME IInv, Resume \/ Interrupt \/ UNCHANGED vars
  PROVE  IInv'
<1> USE DEF envVars, bounds, local, durable, execution, vars
<1>1. /\ TypeOK /\ InboxInv /\ Answering /\ Ordered /\ RowsInv
      /\ ContinueInv /\ FreshInv /\ AllowanceInv /\ FedInv
  BY DEF IInv
<1>2. /\ UNCHANGED <<durable, drain, client, pc, local, fed, fresh, bounds>>
      /\ stopping' \in BOOLEAN /\ covered' \subseteq Id /\ Serial!TypeOK'
  BY <1>1 DEF Resume, Interrupt, Serial!Resume, TypeOK, Serial!TypeOK, Serial!Drain, Serial!Owed
<1>3. /\ \A d : HasPending(d)' <=> HasPending(d)
      /\ InboxInv' /\ Ordered' /\ Answering'
      /\ \A d : PendingOf(d)' = PendingOf(d)
      /\ \A i : Pending(i)' <=> Pending(i)
  BY <1>1, <1>2, InboxSame, AnsweringSame
<1>4. TypeOK'
  BY <1>1, <1>2 DEF TypeOK, Pc
<1>5. RowsInv'
  BY <1>1, <1>2, <1>3 DEF RowsInv
<1>6. ContinueInv' /\ FreshInv'
  BY <1>1, <1>2 DEF ContinueInv, FreshInv, Unstarted, Promoting
<1>7. SteerDue' <=> SteerDue
  BY <1>2, <1>3 DEF SteerDue
<1>8. AllowanceInv' /\ FedInv'
  BY <1>1, <1>2, <1>3, <1>7 DEF AllowanceInv, FedInv, Unstarted
<1> QED BY <1>3, <1>4, <1>5, <1>6, <1>8 DEF IInv

----------------------------------------------------------------------------
(* sessions.prompt *)

\* A stored row is found, or none.
LEMMA FindKeepsIInv ==
  ASSUME IInv, NEW c \in Client,
         (\E r \in Request : Prompt(c, r)) \/ FindAgain(c) \/ WakeAndAnswer(c)
  PROVE  IInv'
<1> USE DEF bounds, local, durable, execution
<1>1. /\ TypeOK /\ InboxInv /\ Answering /\ Ordered /\ RowsInv
      /\ ContinueInv /\ FreshInv /\ AllowanceInv /\ FedInv
  BY DEF IInv
<1>2. client \in [Client -> [at : {"idle"}]
                             \cup [at : {"publish", "find", "wake"}, req : Request]]
  BY <1>1 DEF TypeOK
<1>3. /\ UNCHANGED <<durable, drain, pc, local, fed, fresh, bounds, stopping>>
      /\ covered' \subseteq Id /\ Serial!TypeOK'
      /\ \/ client' = [client EXCEPT ![c] = [at |-> "idle"]]
         \/ \E r \in Request :
              \/ client' = [client EXCEPT ![c] = [at |-> "publish", req |-> r]]
              \/ /\ client' = [client EXCEPT ![c] = [at |-> "wake", req |-> r]]
                 /\ inbox[r.id] # NoRow /\ Equivalent(inbox[r.id], r)
  <2>1. ASSUME NEW r \in Request, Prompt(c, r) PROVE <1>3!:
    BY <1>1, <2>1 DEF Prompt, Checked, Go, TypeOK, Serial!TypeOK, Serial!Owed, Serial!Drain
  <2>2. CASE FindAgain(c)
    <3>1. client[c].req \in Request
      BY <1>2, <2>2 DEF FindAgain, At
    <3> QED BY <1>1, <2>2, <3>1 DEF FindAgain, Checked, Go, TypeOK, Serial!TypeOK
  <2>3. CASE WakeAndAnswer(c)
    <3>1. client[c].req.id \in Id
      BY <1>2, <2>3 DEF WakeAndAnswer, At, Id
    <3> QED BY <1>1, <2>3, <3>1
            DEF WakeAndAnswer, Serial!Wake, TypeOK, Serial!TypeOK, Serial!Owed, Serial!Drain
  <2> QED BY <2>1, <2>2, <2>3
<1>4. /\ \A d : HasPending(d)' <=> HasPending(d)
      /\ InboxInv' /\ Ordered'
      /\ \A d : PendingOf(d)' = PendingOf(d)
      /\ \A i : Pending(i)' <=> Pending(i)
  BY <1>1, <1>3, InboxSame
<1>5. Answering'
  BY <1>1, <1>2, <1>3 DEF Answering, At, Equivalent
<1>6. TypeOK'
  <2>1. client' \in [Client -> [at : {"idle"}]
                               \cup [at : {"publish", "find", "wake"}, req : Request]]
    BY <1>2, <1>3
  <2> QED BY <1>1, <1>3, <2>1 DEF TypeOK, Pc
<1>7. RowsInv'
  BY <1>1, <1>3, <1>4 DEF RowsInv
<1>8. ContinueInv' /\ FreshInv'
  BY <1>1, <1>3 DEF ContinueInv, FreshInv, Unstarted, Promoting
<1>9. SteerDue' <=> SteerDue
  BY <1>3, <1>4 DEF SteerDue
<1>10. AllowanceInv' /\ FedInv'
  BY <1>1, <1>3, <1>4, <1>9 DEF AllowanceInv, FedInv, Unstarted
<1> QED BY <1>4, <1>5, <1>6, <1>7, <1>8, <1>10 DEF IInv

\* A new row comes after all others, and takes nothing away.
LEMMA AdmitKeepsIInv ==
  ASSUME IInv, NEW c \in Client, PublishAdmitted(c)
  PROVE  IInv'
<1> USE DEF bounds, local, execution
<1>1. /\ TypeOK /\ InboxInv /\ Answering /\ Ordered /\ RowsInv
      /\ ContinueInv /\ FreshInv /\ AllowanceInv /\ FedInv
  BY DEF IInv
<1>2. /\ client \in [Client -> [at : {"idle"}]
                                \cup [at : {"publish", "find", "wake"}, req : Request]]
      /\ inbox \in [Id -> Row \cup {NoRow}] /\ seq \in Nat
  BY <1>1 DEF TypeOK
<1>3. PICK r \in Request : r = client[c].req
  BY <1>2 DEF PublishAdmitted, At
<1> DEFINE i == r.id
           new == [delivery |-> r.delivery, body |-> r.body, admitted |-> seq + 1, promoted |-> 0]
<1>4. i \in Id /\ new \in Row /\ new # NoRow
  BY <1>2, RequestAssumption, RowAssumption DEF Id, Row
<1>5. /\ UNCHANGED <<execution, stopping, openTool, pc, local, fed, fresh, covered, bounds>>
      /\ \/ /\ inbox[i] = NoRow /\ seq' = seq + 1 /\ inbox' = [inbox EXCEPT ![i] = new]
            /\ client' = [client EXCEPT ![c] = [at |-> "wake", req |-> r]]
         \/ /\ UNCHANGED <<inbox, seq>>
            /\ client' = [client EXCEPT ![c] = [at |-> "find", req |-> r]]
  BY <1>3 DEF PublishAdmitted, Admit, Go
<1> DEFINE admits == inbox[i] = NoRow /\ seq' = seq + 1 /\ inbox' = [inbox EXCEPT ![i] = new]
<1>6. /\ seq' \in Nat /\ seq <= seq'
      /\ \A j \in Id : inbox[j] # NoRow => inbox'[j] = inbox[j]
      /\ \A j \in Id : inbox'[j] = inbox[j] \/ (j = i /\ inbox[i] = NoRow /\ inbox'[j] = new
                                                  /\ seq' = seq + 1)
  BY <1>2, <1>4, <1>5
<1>7. /\ new.admitted = seq + 1 /\ new.promoted = 0 /\ new.delivery = r.delivery
      /\ new.body = r.body
  OBVIOUS
<1> HIDE DEF new, i
<1>8. \A j \in Id : Pending(j) => Pending(j)' /\ inbox'[j] = inbox[j]
  BY <1>6 DEF Pending
<1>9. /\ \A d : HasPending(d) => HasPending(d)'
      /\ SteerDue => SteerDue'
  BY <1>5, <1>8 DEF HasPending, PendingOf, SteerDue
<1>10. TypeOK'
  <2>1. client' \in [Client -> [at : {"idle"}]
                               \cup [at : {"publish", "find", "wake"}, req : Request]]
    BY <1>2, <1>5
  <2>2. inbox' \in [Id -> Row \cup {NoRow}]
    BY <1>2, <1>4, <1>5
  <2> QED BY <1>1, <1>5, <1>6, <2>1, <2>2 DEF TypeOK, Serial!TypeOK, Pc
<1>11. InboxInv'
  <2>1. ASSUME NEW j \in Id, inbox'[j] # NoRow
        PROVE  /\ inbox'[j].admitted \in 1 .. seq' /\ inbox'[j].promoted \in 0 .. seq'
               /\ inbox'[j] = inbox[j] => inbox'[j].admitted <= seq
    BY <1>1, <1>2, <1>6, <1>7, <2>1 DEF InboxInv
  <2>2. ASSUME NEW j \in Id, NEW k \in Id, inbox'[j] # NoRow, inbox'[k] # NoRow,
               inbox'[j].admitted = inbox'[k].admitted
        PROVE  j = k
    BY <1>1, <1>2, <1>6, <1>7, <2>1, <2>2 DEF InboxInv
  <2> QED BY <1>1, <1>5, <2>1, <2>2 DEF InboxInv
<1>12. Answering'
  <2> SUFFICES ASSUME reverts = 0, NEW d \in Client, At(d, "wake")'
               PROVE  LET q == client'[d].req
                      IN  inbox'[q.id] # NoRow /\ Equivalent(inbox'[q.id], q)
    BY <1>5 DEF Answering, Equivalent
  <2>1. CASE d = c
    <3>1. client'[c] = [at |-> "wake", req |-> r] /\ inbox'[i] = new
      BY <1>2, <1>4, <1>5, <2>1 DEF At
    <3> QED BY <1>4, <1>7, <2>1, <3>1 DEF Equivalent, i
  <2>2. CASE d # c
    <3>1. client'[d] = client[d] /\ client[d].at = "wake"
      BY <1>2, <1>5, <2>2 DEF At
    <3>2. client[d].req.id \in Id
      BY <1>2, <3>1 DEF Id
    <3> QED BY <1>1, <1>6, <3>1, <3>2 DEF Answering, At, Equivalent
  <2> QED BY <2>1, <2>2
<1>13. Ordered'
  <2> SUFFICES ASSUME reverts = 0, NEW j \in Id, NEW k \in Id,
                      inbox'[j] # NoRow, inbox'[k] # NoRow,
                      inbox'[j].delivery = inbox'[k].delivery,
                      inbox'[j].admitted < inbox'[k].admitted,
                      inbox'[k].promoted # 0
               PROVE  inbox'[j].promoted # 0 /\ inbox'[j].promoted < inbox'[k].promoted
    BY <1>5 DEF Ordered
  <2>1. inbox'[k] = inbox[k]
    BY <1>6, <1>7
  <2>2. inbox[k].admitted \in 1 .. seq
    BY <1>1, <2>1 DEF InboxInv
  <2>3. inbox'[j] = inbox[j]
    BY <1>2, <1>6, <1>7, <2>1, <2>2
  <2> QED BY <1>1, <2>1, <2>3 DEF Ordered
<1>14. RowsInv'
  <2>1. ASSUME reverts = 0, NEW q \in rows
        PROVE  /\ inbox'[q.id] = q.row /\ Pending(q.id)'
               /\ q.row.delivery = (IF pc = "publishQueued" THEN "queue" ELSE "steer")
               /\ \A j \in Id :
                    /\ Pending(j)' /\ inbox'[j].delivery = q.row.delivery
                    /\ inbox'[j].admitted < q.row.admitted
                    => \E other \in rows : other.id = j
    <3>1. inbox[q.id] = q.row /\ Pending(q.id) /\ q.id \in Id
      BY <1>1, <2>1 DEF RowsInv, TypeOK
    <3>2. q.row.admitted \in 1 .. seq
      BY <1>1, <3>1 DEF InboxInv, Pending
    <3>3. ASSUME NEW j \in Id, Pending(j)', inbox'[j].admitted < q.row.admitted
          PROVE  Pending(j) /\ inbox'[j] = inbox[j]
      <4>1. inbox'[j] = inbox[j]
        BY <1>2, <1>6, <1>7, <3>2, <3>3
      <4> QED BY <3>3, <4>1 DEF Pending
    <3> QED BY <1>1, <1>8, <2>1, <3>1, <3>3 DEF RowsInv
  <2> QED BY <1>1, <1>5, <2>1 DEF RowsInv
<1>15. ContinueInv' /\ FreshInv'
  BY <1>1, <1>5 DEF ContinueInv, FreshInv, Unstarted, Promoting
<1>16. AllowanceInv' /\ FedInv'
  BY <1>1, <1>5, <1>9 DEF AllowanceInv, FedInv, Unstarted
<1> QED BY <1>10, <1>11, <1>12, <1>13, <1>14, <1>15, <1>16 DEF IInv

----------------------------------------------------------------------------
(* Publication of a row, and a revert *)

\* A row in hand is promoted.  It is the oldest of those that wait, so that the order is
\* kept; the others stay in hand.
LEMMA PromotionKeepsIInv ==
  ASSUME IInv, NEW next \in FirstAdmitted, pc \in {"publishQueued", "publishSteers"},
         rows' = rows \ {next}, fed' = TRUE, fresh' = TRUE, covered' = covered \ {next.id},
         IF inbox[next.id] = NoRow \/ Pending(next.id) THEN Promote(next.id, next.row)
         ELSE UNCHANGED <<inbox, seq>>,
         UNCHANGED <<execution, openTool, pc, promotion, cutoff, promotedNow, step,
                     continue, overflowOnce, envVars>>
  PROVE  IInv'
<1> USE DEF envVars, bounds, execution
<1>1. /\ TypeOK /\ InboxInv /\ Answering /\ Ordered /\ RowsInv
      /\ ContinueInv /\ FreshInv /\ AllowanceInv /\ FedInv
  BY DEF IInv
<1>2. /\ inbox \in [Id -> Row \cup {NoRow}] /\ seq \in Nat /\ rows \subseteq [id : Id, row : Row]
      /\ next \in rows /\ next.id \in Id /\ next.row \in Row
  BY <1>1 DEF TypeOK, FirstAdmitted
<1> DEFINE i == next.id
           new == IF inbox[i] = NoRow
                  THEN [next.row EXCEPT !.admitted = seq + 1, !.promoted = seq + 1]
                  ELSE [inbox[i] EXCEPT !.promoted = seq + 1]
<1>3. /\ new \in Row /\ new # NoRow /\ new.promoted = seq + 1
      /\ inbox[i] = NoRow => new.admitted = seq + 1
      /\ inbox[i] # NoRow => /\ new.admitted = inbox[i].admitted /\ new.body = inbox[i].body
                             /\ new.delivery = inbox[i].delivery
  <2>1. ASSUME NEW r \in Row, NEW a \in Nat
        PROVE  LET n == [r EXCEPT !.admitted = a, !.promoted = seq + 1]
               IN  n \in Row /\ n.promoted = seq + 1 /\ n.admitted = a
    <3> DEFINE m == [r EXCEPT !.admitted = a]
    <3>1. m \in Row /\ m.admitted = a
      BY <2>1 DEF Row
    <3> HIDE DEF m
    <3>2. /\ [m EXCEPT !.promoted = seq + 1] \in Row
          /\ [m EXCEPT !.promoted = seq + 1].promoted = seq + 1
          /\ [m EXCEPT !.promoted = seq + 1].admitted = a
      BY <1>2, <3>1 DEF Row
    <3> QED BY <3>2 DEF m
  <2>2. ASSUME NEW r \in Row
        PROVE  LET n == [r EXCEPT !.promoted = seq + 1]
               IN  /\ n \in Row /\ n.promoted = seq + 1 /\ n.admitted = r.admitted
                   /\ n.body = r.body /\ n.delivery = r.delivery
    BY <1>2, <2>2 DEF Row
  <2>3. CASE inbox[i] = NoRow
    <3>1. seq + 1 \in Nat
      BY <1>2
    <3>2. new = [next.row EXCEPT !.admitted = seq + 1, !.promoted = seq + 1]
      BY <2>3
    <3> HIDE DEF new
    <3>3. LET n == [next.row EXCEPT !.admitted = seq + 1, !.promoted = seq + 1]
          IN  n \in Row /\ n.promoted = seq + 1 /\ n.admitted = seq + 1
      BY <1>2, <2>1, <3>1
    <3>4. new \in Row /\ new.promoted = seq + 1 /\ new.admitted = seq + 1
      BY <3>2, <3>3, Zenon
    <3> QED BY <2>3, <3>4, RowAssumption
  <2>4. CASE inbox[i] # NoRow
    <3>1. inbox[i] \in Row
      BY <1>2, <2>4
    <3> QED BY <2>2, <2>4, <3>1, RowAssumption
  <2> QED BY <2>3, <2>4
<1>4. \/ /\ inbox[i] = NoRow \/ Pending(i)
         /\ seq' = seq + 1 /\ inbox' = [inbox EXCEPT ![i] = new]
      \/ /\ inbox[i] # NoRow /\ ~Pending(i) /\ UNCHANGED <<inbox, seq>>
  BY DEF Promote
<1> HIDE DEF new, i
<1>5. i \in Id /\ i = next.id
  BY <1>2 DEF i
<1>6. /\ seq' \in Nat /\ seq <= seq'
      /\ \A j \in Id : inbox'[j] = inbox[j] \/ (j = i /\ seq' = seq + 1 /\ inbox'[j] = new)
  BY <1>2, <1>4, <1>5
<1>7. TypeOK'
  <2>1. inbox' \in [Id -> Row \cup {NoRow}]
    BY <1>2, <1>3, <1>4, <1>5
  <2>2. rows' \subseteq [id : Id, row : Row] /\ covered' \subseteq Id
    BY <1>1, <1>2 DEF TypeOK
  <2> QED BY <1>1, <1>6, <2>1, <2>2 DEF TypeOK, Serial!TypeOK, Pc
<1>8. InboxInv'
  <2>1. ASSUME NEW j \in Id, inbox'[j] # NoRow
        PROVE  /\ inbox'[j].admitted \in 1 .. seq' /\ inbox'[j].promoted \in 0 .. seq'
               /\ \/ inbox[j] # NoRow /\ inbox'[j].admitted = inbox[j].admitted
                  \/ j = i /\ inbox'[j].admitted = seq + 1
    BY <1>1, <1>2, <1>3, <1>6, <2>1 DEF InboxInv
  <2>2. ASSUME NEW j \in Id, NEW k \in Id, inbox'[j] # NoRow, inbox'[k] # NoRow,
               inbox'[j].admitted = inbox'[k].admitted
        PROVE  j = k
    BY <1>1, <1>2, <2>1, <2>2 DEF InboxInv
  <2> QED BY <1>1, <2>1, <2>2 DEF InboxInv
<1>9. ASSUME reverts = 0
      PROVE  /\ inbox[i] = next.row /\ Pending(i) /\ inbox[i] # NoRow
             /\ seq' = seq + 1 /\ inbox'[i] = new
             /\ \A j \in Id \ {i} : inbox'[j] = inbox[j]
  <2>1. inbox[i] = next.row /\ Pending(i)
    BY <1>1, <1>2, <1>5, <1>9 DEF RowsInv
  <2> QED BY <1>2, <1>4, <1>5, <2>1 DEF Pending
<1>10. Answering'
  <2> SUFFICES ASSUME reverts = 0, NEW c \in Client, At(c, "wake")
               PROVE  LET q == client[c].req
                      IN  inbox'[q.id] # NoRow /\ Equivalent(inbox'[q.id], q)
    BY DEF Answering, At, Equivalent
  <2>1. client[c].req.id \in Id
    BY <1>1 DEF TypeOK, At, Id
  <2> QED BY <1>1, <1>3, <1>9, <2>1 DEF Answering, Equivalent
<1>11. Ordered'
  <2> SUFFICES ASSUME reverts = 0, NEW j \in Id, NEW k \in Id,
                      inbox'[j] # NoRow, inbox'[k] # NoRow,
                      inbox'[j].delivery = inbox'[k].delivery,
                      inbox'[j].admitted < inbox'[k].admitted,
                      inbox'[k].promoted # 0
               PROVE  inbox'[j].promoted # 0 /\ inbox'[j].promoted < inbox'[k].promoted
    BY DEF Ordered
  <2>1. CASE k = i
    <3>1. j # i
      BY <1>2, <1>3, <1>5, <1>9, <2>1 DEF Row
    <3>2. inbox'[j] = inbox[j] /\ inbox[j] # NoRow /\ inbox[j].delivery = next.row.delivery
          /\ inbox[j].admitted < next.row.admitted
      BY <1>3, <1>9, <2>1, <3>1
    <3>3. ~Pending(j)
      <4> SUFFICES ASSUME Pending(j) PROVE FALSE
        OBVIOUS
      <4>1. PICK other \in rows : other.id = j
        BY <1>1, <1>2, <3>2 DEF RowsInv
      <4>2. inbox[j] = other.row
        BY <1>1, <4>1 DEF RowsInv
      <4>3. next.row.admitted <= other.row.admitted
        BY <4>1 DEF FirstAdmitted
      <4> QED BY <1>2, <3>2, <4>1, <4>2, <4>3 DEF Row
    <3>4. inbox[j].promoted \in 1 .. seq
      BY <1>1, <1>2, <3>2, <3>3 DEF InboxInv, Pending
    <3> QED BY <1>2, <1>3, <1>9, <2>1, <3>2, <3>4
  <2>2. CASE k # i
    <3>1. inbox'[k] = inbox[k]
      BY <1>9, <2>2
    <3>2. inbox[j] # NoRow /\ inbox[j].delivery = inbox[k].delivery
          /\ inbox[j].admitted < inbox[k].admitted
      BY <1>3, <1>9, <3>1
    <3>3. inbox[j].promoted # 0 /\ inbox[j].promoted < inbox[k].promoted
      BY <1>1, <3>1, <3>2 DEF Ordered
    <3>4. j # i
      BY <1>9, <3>3 DEF Pending
    <3> QED BY <1>9, <3>1, <3>3, <3>4
  <2> QED BY <2>1, <2>2
<1>12. RowsInv'
  <2>1. rows' # {} => pc \in {"publishQueued", "publishSteers"} /\ promotedNow
    BY <1>1, <1>2 DEF RowsInv
  <2>2. ASSUME reverts = 0, NEW q \in rows'
        PROVE  /\ inbox'[q.id] = q.row /\ Pending(q.id)'
               /\ q.row.delivery = (IF pc = "publishQueued" THEN "queue" ELSE "steer")
               /\ \A j \in Id :
                    /\ Pending(j)' /\ inbox'[j].delivery = q.row.delivery
                    /\ inbox'[j].admitted < q.row.admitted
                    => \E other \in rows' : other.id = j
    <3>1. q \in rows /\ q # next /\ q.id \in Id
      BY <1>2, <2>2
    <3>2. inbox[q.id] = q.row /\ Pending(q.id)
      BY <1>1, <2>2, <3>1 DEF RowsInv
    <3>3. q.id # i
      BY <1>2, <1>5, <1>9, <2>2, <3>1, <3>2
    <3>4. ASSUME NEW j \in Id, Pending(j)', inbox'[j].delivery = q.row.delivery,
                 inbox'[j].admitted < q.row.admitted
          PROVE  \E other \in rows' : other.id = j
      <4>1. j # i
        BY <1>2, <1>3, <1>9, <2>2, <3>4 DEF Pending
      <4>2. inbox'[j] = inbox[j] /\ Pending(j)
        BY <1>9, <2>2, <3>4, <4>1 DEF Pending
      <4>3. PICK other \in rows : other.id = j
        BY <1>1, <2>2, <3>1, <3>4, <4>2 DEF RowsInv
      <4> QED BY <1>5, <4>1, <4>3
    <3> QED BY <1>1, <1>9, <2>2, <3>1, <3>2, <3>3, <3>4 DEF RowsInv, Pending
  <2> QED BY <2>1, <2>2 DEF RowsInv
<1>13. promotedNow
  BY <1>1, <1>2 DEF RowsInv
<1>14. ContinueInv' /\ FreshInv'
  BY <1>1, <1>13 DEF ContinueInv, FreshInv, Unstarted, Promoting
<1>15. AllowanceInv' /\ FedInv'
  BY <1>1, <1>13 DEF AllowanceInv, FedInv, Unstarted
<1> QED BY <1>7, <1>8, <1>10, <1>11, <1>12, <1>14, <1>15 DEF IInv

\* So the publication of a row keeps the invariant, and so does its failure.
LEMMA PublishRowKeepsIInv ==
  ASSUME IInv, PublishRow
  PROVE  IInv'
<1>1. PICK next \in FirstAdmitted :
         IF Replaced(next.id, next.row) THEN Finish(TRUE) /\ UNCHANGED durable
         ELSE /\ rows' = rows \ {next}
              /\ fed' = TRUE /\ fresh' = TRUE /\ covered' = covered \ {next.id}
              /\ IF inbox[next.id] = NoRow \/ Pending(next.id) THEN Promote(next.id, next.row)
                 ELSE UNCHANGED <<inbox, seq>>
              /\ UNCHANGED <<execution, openTool, pc, promotion, cutoff, promotedNow, step,
                             continue, overflowOnce, envVars>>
  BY DEF PublishRow
<1>2. CASE Replaced(next.id, next.row)
  <2>1. openTool' \in BOOLEAN
    BY <1>1, <1>2 DEF IInv, TypeOK, durable
  <2> QED BY <1>1, <1>2, <2>1, FinishKeepsIInv DEF durable
<1>3. CASE ~Replaced(next.id, next.row)
  BY <1>1, <1>3, PromotionKeepsIInv DEF PublishRow
<1> QED BY <1>2, <1>3

\* A revert only removes rows.
LEMMA RevertKeepsIInv ==
  ASSUME IInv, NEW i \in Id, RevertCommit(i)
  PROVE  IInv'
<1> USE DEF bounds, local, execution
<1>1. /\ TypeOK /\ InboxInv /\ RowsInv /\ ContinueInv /\ FreshInv
  BY DEF IInv
<1>2. /\ inbox \in [Id -> Row \cup {NoRow}]
      /\ seq \in Nat /\ seq' = seq + 1 /\ covered' \subseteq Id
      /\ inbox' \in [Id -> Row \cup {NoRow}]
      /\ \A j \in Id : inbox'[j] \in {NoRow, inbox[j]}
  BY <1>1 DEF TypeOK, RevertCommit
<1>3. reverts' \in Nat /\ reverts' # 0
  BY <1>1 DEF InboxInv, RevertCommit
<1>4. TypeOK'
  BY <1>1, <1>2 DEF RevertCommit, TypeOK, Serial!TypeOK, Pc
<1>5. InboxInv'
  <2>1. ASSUME NEW j \in Id, inbox'[j] # NoRow
        PROVE  /\ inbox'[j] = inbox[j]
               /\ inbox'[j].admitted \in 1 .. seq' /\ inbox'[j].promoted \in 0 .. seq'
    BY <1>1, <1>2, <2>1 DEF InboxInv
  <2>2. ASSUME NEW j \in Id, NEW k \in Id, inbox'[j] # NoRow, inbox'[k] # NoRow,
               inbox'[j].admitted = inbox'[k].admitted
        PROVE  j = k
    BY <1>1, <2>1, <2>2 DEF InboxInv
  <2> QED BY <1>3, <2>1, <2>2 DEF InboxInv
<1>6. Answering' /\ Ordered' /\ AllowanceInv' /\ FedInv'
  BY <1>3 DEF Answering, Ordered, AllowanceInv, FedInv
<1>7. RowsInv' /\ ContinueInv' /\ FreshInv'
  BY <1>1, <1>3 DEF RevertCommit, RowsInv, ContinueInv, FreshInv, Unstarted, Promoting
<1> QED BY <1>4, <1>5, <1>6, <1>7 DEF IInv

\* The drain ends: nothing is left, it fails, or it is interrupted.
LEMMA EndKeepsIInv ==
  ASSUME IInv, \/ (HasQueue \/ MoreQueued) /\ pc' \notin {"recover", "attempt"}
               \/ DrainFails \/ DrainInterrupted
  PROVE  IInv'
<1>1. openTool \in BOOLEAN
  BY DEF IInv, TypeOK
<1>2. CASE (HasQueue \/ MoreQueued) /\ pc' \notin {"recover", "attempt"}
  <2>1. Finish(FALSE) /\ UNCHANGED durable
    BY <1>2 DEF HasQueue, MoreQueued, Step
  <2> QED BY <1>1, <2>1, FinishKeepsIInv DEF durable
<1>3. CASE DrainFails
  <2>1. (openTool /\ pc # "turn") \in BOOLEAN
    OBVIOUS
  <2>2. openTool' \in BOOLEAN
    BY <1>1, <1>3, <2>1, Zenon DEF DrainFails
  <2> QED BY <1>3, <2>2, FinishKeepsIInv DEF DrainFails
<1>4. CASE DrainInterrupted
  <2>1. openTool' \in BOOLEAN
    BY <1>4 DEF DrainInterrupted
  <2> QED BY <1>4, <2>1, FinishKeepsIInv DEF DrainInterrupted
<1> QED BY <1>2, <1>3, <1>4

LEMMA NextKeepsIInv == IInv /\ [Next]_vars => IInv'
<1> SUFFICES ASSUME IInv, [Next]_vars PROVE IInv'
  OBVIOUS
<1>1. CASE BeginDrain \/ HasSteer \/ (HasQueue /\ pc' = "recover") \/ FailInterruptedTools
  BY <1>1, OpeningKeepsIInv
<1>2. CASE Attempt
  BY <1>2, AttemptKeepsIInv
<1>3. CASE PickQueued \/ PickSteers
  BY <1>3, PickKeepsIInv
<1>4. CASE PublishRow
  BY <1>4, PublishRowKeepsIInv
<1>5. CASE PublishedRows \/ Compact \/ CallProvider
  BY <1>5, PrepareKeepsIInv
<1>6. CASE ToolCall \/ TurnEnds \/ RecoverOverflow
  BY <1>6, TurnKeepsIInv
<1>7. CASE NextTurn \/ (MoreQueued /\ pc' = "attempt")
  BY <1>7, NextKeepsFlow
<1>8. CASE \/ (HasQueue \/ MoreQueued) /\ pc' \notin {"recover", "attempt"}
           \/ DrainFails \/ DrainInterrupted
  BY <1>8, EndKeepsIInv
<1>9. CASE Resume \/ Interrupt \/ UNCHANGED vars
  BY <1>9, RequestKeepsIInv
<1>10. CASE Crash
  BY <1>10, CrashKeepsIInv
<1>11. CASE \E i \in Id : RevertCommit(i)
  BY <1>11, RevertKeepsIInv
<1>12. CASE \E c \in Client : \/ \E r \in Request : Prompt(c, r)
                              \/ PublishAdmitted(c) \/ FindAgain(c) \/ WakeAndAnswer(c)
  BY <1>12, FindKeepsIInv, AdmitKeepsIInv
<1>13. HasQueue => pc' # "attempt"
  BY DEF HasQueue, Step, Finish
<1>14. MoreQueued => pc' # "recover"
  BY DEF MoreQueued, Step, Finish
<1> QED BY <1>1, <1>2, <1>3, <1>4, <1>5, <1>6, <1>7, <1>8, <1>9, <1>10, <1>11, <1>12,
           <1>13, <1>14 DEF Next, Runner

----------------------------------------------------------------------------
(* The properties *)

\* The invariant holds in every reachable state.
THEOREM InvariantHolds == Safe => []IInv
<1> QED BY InitIInv, NextKeepsIInv, PTL DEF Safe

\* Every variable keeps its type, and a drain has a program counter exactly while it runs.
THEOREM TypeCorrect == Safe => []TypeOK
<1>1. IInv => TypeOK
  BY DEF IInv
<1> QED BY <1>1, InvariantHolds, PTL

\* Without a revert every turn is due: a drain that was only woken has promoted an input
\* before it calls the provider, no turn exceeds the allowance its promotion gave, and no
\* request is assembled over a tool call left open.
THEOREM TurnsAreDue == Safe /\ [](reverts = 0) => []TurnIsDue
<1>1. IInv /\ reverts = 0 => TurnIsDue
  <2> SUFFICES ASSUME IInv, reverts = 0 PROVE TurnIsDue
    OBVIOUS
  <2>1. WakeCallsOnlyWithInput
    BY DEF IInv, FedInv, WakeCallsOnlyWithInput
  <2>2. AllowanceFollowsPromotion
    BY DEF IInv, AllowanceInv, FreshInv, AllowanceFollowsPromotion
  <2>3. NoAbandonedToolInRequest
    BY DEF IInv, ContinueInv, NoAbandonedToolInRequest, Promoting
  <2> QED BY <2>1, <2>2, <2>3 DEF TurnIsDue
<1> QED BY <1>1, InvariantHolds, PTL

\* Reverts or not, no request is assembled over a tool call that was left open: the drain
\* fails such calls before its first turn, and every turn settles its own.
THEOREM NoRequestOverOpenTools == Safe => []NoAbandonedToolInRequest
<1>1. IInv => NoAbandonedToolInRequest
  BY DEF IInv, ContinueInv, NoAbandonedToolInRequest, Promoting
<1> QED BY <1>1, InvariantHolds, PTL

\* Whoever is answered with an admission gets the one that is stored, if no revert has
\* deleted it.
THEOREM AnswersAgreeHolds == Safe => AnswersAgree
<1>1. IInv => \A c \in Client : reverts = 0 /\ WakeAndAnswer(c) =>
                LET r == client[c].req IN inbox[r.id] # NoRow => Equivalent(inbox[r.id], r)
  BY DEF IInv, Answering, WakeAndAnswer
<1> QED BY <1>1, InvariantHolds, PTL DEF AnswersAgree

\* The inbox changes only where an admission or a promotion is published, or by a revert.
LEMMA InboxChanges ==
  ASSUME [Next]_vars
  PROVE  \/ UNCHANGED inbox
         \/ PublishRow
         \/ \E c \in Client : PublishAdmitted(c)
         \/ \E i \in Id : RevertCommit(i)
<1> USE DEF durable, Quiet
<1>1. CASE UNCHANGED vars
  BY <1>1 DEF vars
<1>2. ASSUME NEW c \in Client, (\E r \in Request : Prompt(c, r)) \/ FindAgain(c) \/ WakeAndAnswer(c)
      PROVE  UNCHANGED inbox
  BY <1>2 DEF Prompt, FindAgain, WakeAndAnswer
<1>3. CASE BeginDrain \/ HasSteer \/ HasQueue \/ FailInterruptedTools \/ Attempt
  BY <1>3 DEF BeginDrain, HasSteer, HasQueue, FailInterruptedTools, Attempt
<1>4. CASE PickQueued \/ PickSteers \/ PublishedRows \/ CallProvider \/ TurnEnds \/ NextTurn
           \/ MoreQueued
  BY <1>4 DEF PickQueued, PickSteers, Pick, PublishedRows, CallProvider, TurnEnds, NextTurn,
              MoreQueued
<1>5. CASE Compact \/ ToolCall \/ RecoverOverflow \/ DrainFails \/ DrainInterrupted
  BY <1>5 DEF Compact, ToolCall, RecoverOverflow, DrainFails, DrainInterrupted
<1>6. CASE Resume \/ Interrupt \/ Crash
  BY <1>6 DEF Resume, Interrupt, Crash
<1> QED BY <1>1, <1>2, <1>3, <1>4, <1>5, <1>6 DEF Next, Runner

\* A queued input is promoted only when nothing is to be continued: it is in hand only
\* while queued rows are published.
LEMMA QueuedWhenIdle ==
  ASSUME IInv, reverts = 0, [Next]_vars, NEW i \in Id,
         Pending(i), inbox'[i] # NoRow, inbox'[i].promoted # 0, inbox[i].delivery = "queue"
  PROVE  ~continue
<1>1. /\ inbox \in [Id -> Row \cup {NoRow}] /\ rows \subseteq [id : Id, row : Row]
      /\ client \in [Client -> [at : {"idle"}]
                                \cup [at : {"publish", "find", "wake"}, req : Request]]
      /\ RowsInv /\ ContinueInv
  BY DEF IInv, TypeOK
<1>2. inbox'[i] # inbox[i]
  BY DEF Pending
<1>3. ASSUME NEW c \in Client PROVE ~PublishAdmitted(c)
  <2>1. At(c, "publish") => client[c].req.id \in Id
    BY <1>1 DEF At, Id
  <2>2. PublishAdmitted(c) => inbox'[i] = inbox[i]
    BY <1>1, <2>1 DEF PublishAdmitted, Admit, Pending
  <2> QED BY <1>2, <2>2
<1>4. ASSUME NEW j \in Id PROVE ~RevertCommit(j)
  BY <1>2 DEF RevertCommit
<1>5. PublishRow
  BY <1>2, <1>3, <1>4, InboxChanges
<1>6. PICK next \in rows : next.id = i
  <2>1. PICK next \in FirstAdmitted :
           \/ UNCHANGED durable
           \/ Promote(next.id, next.row)
           \/ UNCHANGED <<inbox, seq>>
    BY <1>5 DEF PublishRow
  <2>2. Promote(next.id, next.row)
    BY <1>2, <2>1 DEF durable
  <2>3. next \in rows /\ next.id \in Id
    BY <1>1, <2>1 DEF FirstAdmitted
  <2>4. next.id = i
    BY <1>1, <1>2, <2>2, <2>3 DEF Promote
  <2> QED BY <2>3, <2>4
<1>7. pc = "publishQueued"
  BY <1>1, <1>6 DEF RowsInv
<1> QED BY <1>1, <1>7 DEF ContinueInv

\* Without a revert inputs of one delivery mode are promoted in the order they were
\* admitted, and a queued one only when nothing is to be continued.
THEOREM InputsEnterInOrder == Safe /\ [](reverts = 0) => DeliveryOrder
<1> DEFINE Order ==
      \A i, j \in Id :
        (/\ inbox[i] # NoRow /\ inbox[j] # NoRow
         /\ inbox[i].delivery = inbox[j].delivery
         /\ inbox[i].admitted < inbox[j].admitted
         /\ inbox[j].promoted # 0)
          => (inbox[i].promoted # 0 /\ inbox[i].promoted < inbox[j].promoted)
    Taken ==
      \A i \in Id :
        (Pending(i) /\ inbox'[i] # NoRow /\ inbox'[i].promoted # 0
           /\ inbox[i].delivery = "queue") => ~continue
<1>1. IInv /\ reverts = 0 => Order
  BY DEF IInv, Ordered
<1>2. IInv /\ reverts = 0 /\ [Next]_vars => Taken
  BY QueuedWhenIdle
<1>3. DeliveryOrder <=> []Order /\ [][Taken]_vars
  BY DEF DeliveryOrder
<1> HIDE DEF Order, Taken
<1> QED BY <1>1, <1>2, <1>3, InvariantHolds, PTL DEF Safe
=============================================================================
