----------------------------- MODULE SessionDrain -----------------------------
(***************************************************************************)
(* One V2 Session: durable admission of prompts, the wakes they cause, and *)
(* the drain that promotes them and calls the provider                     *)
(* (src/packages/core/src/session.ts, session/input.ts, session/runner/    *)
(* llm.ts, the input and revert projections of session/projector.ts).      *)
(*                                                                         *)
(* Execution is serialized by SerialExecution, which RunCoordinator is     *)
(* shown to implement.  A durable event and its projection commit in one   *)
(* transaction, so each publication is one action; every other yield* of   *)
(* the runner is a boundary where prompts, interruption, a revert or a     *)
(* crash may come in between.                                              *)
(***************************************************************************)
EXTENDS Naturals

CONSTANTS
  Session,     \* the Session's ID
  Client,      \* fibers calling sessions.prompt
  Request,     \* the prompts they send: [id, delivery, body, resume]
  MaxSteps,    \* the selected agent's provider-turn allowance (agent.steps)
  MaxReverts,  \* bound: committed reverts
  MaxCrashes,  \* bound: process restarts
  NoRow        \* no inbox row

ASSUME StepsAssumption == MaxSteps \in Nat \ {0}
ASSUME RequestAssumption ==
  \A r \in Request : r.delivery \in {"steer", "queue"} /\ r.resume \in BOOLEAN

Id == {r.id : r \in Request}

VARIABLES
  owed, drain,   \* SerialExecution
  stopping,      \* the running drain has been interrupted
  inbox,         \* SessionInputTable: id -> row
  seq,           \* latest durable sequence of the Session's aggregate
  openTool,      \* some projected tool call is still pending or running
  client,        \* where each prompt call is
  pc,            \* where the drain is
  promotion,     \* "none", "steer" or "queue"
  cutoff, rows,  \* sequence and inbox rows read for the current promotion
  promotedNow,   \* this turn attempt promoted something
  step,          \* provider turns since the allowance was last reset
  continue,      \* needsContinuation
  overflowOnce,  \* recoverOverflow is still available to this turn
  fed,           \* history: the drain has promoted at least one input
  fresh,         \* history: something was promoted since the last turn ended
  covered,       \* history: pending inputs whose wake nothing has cancelled
  reverts, crashes

execution == <<owed, drain>>
durable   == <<inbox, seq, openTool>>
local     == <<promotion, cutoff, rows, promotedNow, step, continue, overflowOnce>>
bounds    == <<reverts, crashes>>
vars == <<execution, stopping, durable, client, pc, local, fed, fresh, covered, bounds>>

Serial == INSTANCE SerialExecution WITH Key <- {Session}

Row == [delivery : {"steer", "queue"}, body : {r.body : r \in Request},
        admitted : Nat, promoted : Nat]   \* promoted = 0: promoted_seq is null

ASSUME RowAssumption == NoRow \notin Row

Pc == {"off", "failed", "hasSteer", "hasQueue", "recover", "attempt", "pickQueued", "publishQueued",
       "pickSteers", "publishSteers", "prepare", "turn", "settled", "moreQueued"}

TypeOK ==
  /\ Serial!TypeOK
  /\ stopping \in BOOLEAN
  /\ inbox \in [Id -> Row \cup {NoRow}]
  /\ seq \in Nat
  /\ openTool \in BOOLEAN
  /\ client \in [Client -> [at : {"idle"}]
                   \cup [at : {"publish", "find", "wake"}, req : Request]]
  /\ pc \in Pc
  /\ pc \in {"off", "failed"} <=> drain[Session] = "none"
  /\ promotion \in {"none", "steer", "queue"}
  /\ cutoff \in Nat /\ rows \subseteq [id : Id, row : Row]
  /\ promotedNow \in BOOLEAN /\ continue \in BOOLEAN /\ overflowOnce \in BOOLEAN
  /\ step \in Nat
  /\ fed \in BOOLEAN /\ fresh \in BOOLEAN /\ covered \subseteq Id

Init ==
  /\ Serial!Init
  /\ stopping = FALSE
  /\ inbox = [i \in Id |-> NoRow] /\ seq = 0 /\ openTool = FALSE
  /\ client = [c \in Client |-> [at |-> "idle"]]
  /\ pc = "off" /\ promotion = "none" /\ cutoff = 0 /\ rows = {}
  /\ promotedNow = FALSE /\ step = 1 /\ continue = FALSE /\ overflowOnce = TRUE
  /\ fed = FALSE /\ fresh = FALSE /\ covered = {}
  /\ reverts = 0 /\ crashes = 0

-------------------------------------------------------------------------------
(* The inbox *)

Pending(i)   == inbox[i] # NoRow /\ inbox[i].promoted = 0
PendingOf(d) == {i \in Id : Pending(i) /\ inbox[i].delivery = d}
HasPending(d) == PendingOf(d) # {}

\* SessionInput.equivalent: the stored prompt is the one the caller sent.
Equivalent(row, r) == row.delivery = r.delivery /\ row.body = r.body

\* PromptAdmitted with projectAdmitted: one new row, or LifecycleConflict.
Admit(r) ==
  /\ inbox[r.id] = NoRow
  /\ seq' = seq + 1
  /\ inbox' = [inbox EXCEPT ![r.id] =
       [delivery |-> r.delivery, body |-> r.body, admitted |-> seq + 1, promoted |-> 0]]

\* Prompted with projectPrompted for a row read earlier: mark the row, or insert it
\* anew when it is gone by now.
Promote(i, row) ==
  /\ seq' = seq + 1
  /\ inbox' = [inbox EXCEPT ![i] =
       IF inbox[i] = NoRow
       THEN [row EXCEPT !.admitted = seq + 1, !.promoted = seq + 1]
       ELSE [inbox[i] EXCEPT !.promoted = seq + 1]]

\* A row that was deleted and admitted again since has another creation time.
Replaced(i, row) == Pending(i) /\ inbox[i].admitted # row.admitted

-------------------------------------------------------------------------------
(* sessions.prompt *)

At(c, where) == client[c].at = where
Go(c, where, r) == client' = [client EXCEPT ![c] = [at |-> where, req |-> r]]

\* Deviation: any row under the ID counts as the caller's.
CheckedById(c, r, row) == Go(c, "wake", r)

\* What follows once a stored row is in hand: PromptConflictError, or an answer
\* that is given after the wake.
Checked(c, r, row) ==
  \/ ~Equivalent(row, r) /\ client' = [client EXCEPT ![c] = [at |-> "idle"]]
  \/ Equivalent(row, r) /\ Go(c, "wake", r)

\* admit: find.
Prompt(c, r) ==
  /\ At(c, "idle")
  /\ IF inbox[r.id] = NoRow THEN Go(c, "publish", r) ELSE Checked(c, r, inbox[r.id])
  /\ UNCHANGED <<execution, stopping, durable, pc, local, fed, fresh, covered, bounds>>

\* admit: publish PromptAdmitted; a defect leads to a second find.
PublishAdmitted(c) ==
  /\ At(c, "publish")
  /\ LET r == client[c].req IN
       \/ Admit(r) /\ Go(c, "wake", r)
       \/ inbox[r.id] # NoRow /\ Go(c, "find", r) /\ UNCHANGED <<inbox, seq>>
  /\ UNCHANGED <<execution, stopping, openTool, pc, local, fed, fresh, covered, bounds>>

\* The second find; without a row the conflict is reported as it is.
FindAgain(c) ==
  /\ At(c, "find")
  /\ LET r == client[c].req IN
       IF inbox[r.id] = NoRow THEN client' = [client EXCEPT ![c] = [at |-> "idle"]]
       ELSE Checked(c, r, inbox[r.id])
  /\ UNCHANGED <<execution, stopping, durable, pc, local, fed, fresh, covered, bounds>>

\* Deviation: an execution in progress is taken to need no wake.
WakeWhenIdle(c) ==
  /\ At(c, "wake")
  /\ LET r == client[c].req IN
       IF r.resume
       THEN /\ \/ drain[Session] = "none" /\ Serial!Wake(Session)
               \/ (drain[Session] # "none" \/ owed[Session] # "nothing") /\ UNCHANGED execution
            /\ covered' = IF Pending(r.id) THEN covered \cup {r.id} ELSE covered
       ELSE UNCHANGED <<execution, covered>>
  /\ client' = [client EXCEPT ![c] = [at |-> "idle"]]
  /\ UNCHANGED <<stopping, durable, pc, local, fed, fresh, bounds>>

\* execution.wake unless resume is false, and the answer.
WakeAndAnswer(c) ==
  /\ At(c, "wake")
  /\ LET r == client[c].req IN
       IF r.resume
       THEN /\ Serial!Wake(Session) \/ (owed[Session] # "nothing" /\ UNCHANGED execution)
            /\ covered' = IF Pending(r.id) THEN covered \cup {r.id} ELSE covered
       ELSE UNCHANGED <<execution, covered>>
  /\ client' = [client EXCEPT ![c] = [at |-> "idle"]]
  /\ UNCHANGED <<stopping, durable, pc, local, fed, fresh, bounds>>

-------------------------------------------------------------------------------
(* The drain: SessionRunner.run.  Step(from, to) moves it on. *)

Step(from, to) == pc = from /\ pc' = to

envVars == <<client, bounds, stopping>>
Quiet == UNCHANGED <<execution, durable, fed, fresh, covered, envVars>>

Idle == /\ promotion' = "none" /\ cutoff' = 0 /\ rows' = {} /\ promotedNow' = FALSE
        /\ step' = 1 /\ continue' = FALSE /\ overflowOnce' = TRUE

BeginDrain ==
  /\ Serial!Begin(Session)
  /\ pc' = "hasSteer"
  /\ UNCHANGED <<durable, local, fed, fresh, covered, envVars>>

\* Deviation: a failing drain is not ended.
FinishOnSuccess(failed) ==
  /\ IF failed THEN UNCHANGED execution ELSE Serial!End(Session)
  /\ pc' = "off" /\ Idle /\ stopping' = FALSE /\ fed' = FALSE /\ fresh' = FALSE
  /\ covered' = covered
  /\ UNCHANGED <<client, bounds>>

\* The drain ends; one that fails by itself leaves its inputs to a wake that is
\* registered already, or else to a later one.
Finish(failed) ==
  /\ Serial!End(Session)
  /\ pc' = (IF failed THEN "failed" ELSE "off") /\ Idle /\ stopping' = FALSE /\ fed' = FALSE /\ fresh' = FALSE
  /\ covered' = IF failed /\ owed[Session] = "nothing" THEN {} ELSE covered
  /\ UNCHANGED <<client, bounds>>

HasSteer ==
  \/ /\ HasPending("steer") /\ Step("hasSteer", "recover")
     /\ promotion' = "steer"
     /\ UNCHANGED <<cutoff, rows, promotedNow, step, continue, overflowOnce>> /\ Quiet
  \/ ~HasPending("steer") /\ Step("hasSteer", "hasQueue") /\ UNCHANGED local /\ Quiet

\* Deviation: a wake is taken for a resume.
HasQueueForced ==
  /\ Step("hasQueue", "recover")
  /\ promotion' = IF HasPending("queue") THEN "queue" ELSE "none"
  /\ UNCHANGED <<cutoff, rows, promotedNow, step, continue, overflowOnce>> /\ Quiet

HasQueue ==
  \/ /\ HasPending("queue") \/ drain[Session] = "forced"
     /\ Step("hasQueue", "recover")
     /\ promotion' = IF HasPending("queue") THEN "queue" ELSE "none"
     /\ UNCHANGED <<cutoff, rows, promotedNow, step, continue, overflowOnce>> /\ Quiet
  \/ /\ pc = "hasQueue" /\ ~HasPending("queue") /\ drain[Session] = "followUp"
     /\ Finish(FALSE) /\ UNCHANGED durable

\* Deviation: the tools of a dead process are left as they are.
FailNoTools ==
  Step("recover", "attempt") /\ UNCHANGED local /\ Quiet

FailInterruptedTools ==
  /\ Step("recover", "attempt")
  /\ openTool' = FALSE
  /\ UNCHANGED <<execution, inbox, seq, local, fed, fresh, covered, envVars>>

\* runTurnAttempt up to the promotion it was asked for.
Attempt ==
  /\ pc = "attempt"
  /\ pc' = CASE promotion = "none"  -> "prepare"
             [] promotion = "steer" -> "pickSteers"
             [] promotion = "queue" -> "pickQueued"
  /\ cutoff' = IF promotion = "none" THEN cutoff ELSE seq
  /\ promotedNow' = FALSE
  /\ UNCHANGED <<promotion, rows, step, continue, overflowOnce>> /\ Quiet

\* promoteNextQueued and promoteSteers read their rows, then publish one by one.
Pick(from, to, ids) ==
  /\ Step(from, to)
  /\ rows' = {[id |-> i, row |-> inbox[i]] : i \in ids}
  /\ promotedNow' = (promotedNow \/ ids # {})
  /\ cutoff' = IF from = "pickSteers" THEN 0 ELSE cutoff   \* not read again
  /\ UNCHANGED <<promotion, step, continue, overflowOnce>> /\ Quiet

\* Deviation: ordered by the wrong end.
Newest(ids) == {i \in ids : \A j \in ids : inbox[i].admitted >= inbox[j].admitted}

Oldest(ids) == {i \in ids : \A j \in ids : inbox[i].admitted <= inbox[j].admitted}

PickQueued == Pick("pickQueued", "publishQueued", Oldest(PendingOf("queue")))
PickSteers == Pick("pickSteers", "publishSteers",
                   {i \in PendingOf("steer") : inbox[i].admitted <= cutoff})

\* Deviation: the rows are published in any order.
AnyOfThem == rows

\* publish goes through the rows in the order of their admission.
FirstAdmitted == {r \in rows : \A other \in rows : r.row.admitted <= other.row.admitted}

PublishRow ==
  /\ pc \in {"publishQueued", "publishSteers"}
  /\ \E next \in FirstAdmitted :
       LET i == next.id
           row == next.row IN
       IF Replaced(i, row) THEN Finish(TRUE) /\ UNCHANGED durable
       ELSE /\ rows' = rows \ {next}
            /\ fed' = TRUE /\ fresh' = TRUE /\ covered' = covered \ {i}
            /\ IF inbox[i] = NoRow \/ Pending(i) THEN Promote(i, row)
               ELSE UNCHANGED <<inbox, seq>>   \* already promoted: conflict tolerated
            /\ UNCHANGED <<execution, openTool, pc, promotion, cutoff, promotedNow, step,
                           continue, overflowOnce, envVars>>

PublishedRows ==
  /\ rows = {}
  /\ Step("publishQueued", "pickSteers") \/ Step("publishSteers", "prepare")
  /\ UNCHANGED local /\ Quiet

\* Deviation: promotion does not restart the allowance.
KeptStep == step

CurrentStep == IF promotedNow THEN 1 ELSE step

\* compactIfNeeded compacted: the attempt is repeated without a promotion.
Compact ==
  /\ Step("prepare", "attempt")
  /\ step' = CurrentStep /\ promotion' = "none"
  /\ UNCHANGED <<cutoff, rows, promotedNow, continue, overflowOnce>> /\ Quiet

CallProvider ==
  /\ Step("prepare", "turn")
  /\ step' = CurrentStep /\ continue' = FALSE /\ promotedNow' = FALSE
  /\ UNCHANGED <<promotion, cutoff, rows, overflowOnce>> /\ Quiet

\* A local tool call is projected and its fiber started; on the last step the
\* call is failed at once and nothing continues.
ToolCall ==
  /\ pc = "turn" /\ step < MaxSteps
  /\ continue' = TRUE /\ openTool' = TRUE
  /\ UNCHANGED <<execution, inbox, seq, pc, promotion, cutoff, rows, promotedNow, step,
                 overflowOnce, fed, fresh, covered, envVars>>

\* The stream has ended and every tool fiber has settled.  A provider error
\* ends the activity whatever tools were called.
TurnEnds ==
  /\ Step("turn", "settled")
  /\ openTool' = FALSE
  /\ continue' \in {continue, FALSE}
  /\ fresh' = FALSE
  /\ UNCHANGED <<execution, inbox, seq, promotion, cutoff, rows, promotedNow, step,
                 overflowOnce, fed, covered, envVars>>

\* Context overflow before the assistant started: compact and repeat, once.
RecoverOverflow ==
  /\ overflowOnce /\ ~continue
  /\ Step("turn", "attempt")
  /\ overflowOnce' = FALSE /\ promotion' = "none"
  /\ UNCHANGED <<cutoff, rows, promotedNow, step, continue>> /\ Quiet

\* Deviation: a continuing drain takes a queued prompt along.
NextTurnFromQueue ==
  \/ /\ continue \/ HasPending("steer")
     /\ Step("settled", "attempt")
     /\ step' = step + 1 /\ overflowOnce' = TRUE
     /\ promotion' = IF HasPending("steer") THEN "steer" ELSE "queue"
     /\ UNCHANGED <<cutoff, rows, promotedNow, continue>> /\ Quiet
  \/ /\ ~continue /\ ~HasPending("steer")
     /\ Step("settled", "moreQueued")
     /\ UNCHANGED local /\ Quiet

\* The inner loop of run: another turn for continuation or for pending steers.
NextTurn ==
  \/ /\ continue \/ HasPending("steer")
     /\ Step("settled", "attempt")
     /\ step' = step + 1 /\ promotion' = "steer" /\ overflowOnce' = TRUE
     /\ UNCHANGED <<cutoff, rows, promotedNow, continue>> /\ Quiet
  \/ /\ ~continue /\ ~HasPending("steer")
     /\ Step("settled", "moreQueued")
     /\ UNCHANGED local /\ Quiet

\* The outer loop: open the next activity with one queued input, or return.
MoreQueued ==
  \/ /\ HasPending("queue")
     /\ Step("moreQueued", "attempt")
     /\ step' = 1 /\ promotion' = "queue" /\ overflowOnce' = TRUE
     /\ UNCHANGED <<cutoff, rows, promotedNow, continue>> /\ Quiet
  \/ /\ pc = "moreQueued" /\ ~HasPending("queue")
     /\ Finish(FALSE) /\ UNCHANGED durable

\* The turn cannot start (Session moved, context unavailable, no model), the
\* provider stream fails, or the user declines a tool.  Unless the stream died of
\* a defect the turn has settled its tools.
DrainFails ==
  /\ pc \in {"attempt", "prepare", "turn"}
  /\ Finish(TRUE)
  /\ openTool' \in {openTool, openTool /\ pc # "turn"}
  /\ UNCHANGED <<inbox, seq>>

\* Interruption takes effect at any suspension point; a turn settles its tools.
DrainInterrupted ==
  /\ stopping
  /\ Finish(FALSE)
  /\ openTool' = (openTool /\ pc # "turn")
  /\ UNCHANGED <<inbox, seq>>

-------------------------------------------------------------------------------
(* What else happens to a Session *)

\* sessions.resume
Resume ==
  /\ Serial!Resume(Session)
  /\ UNCHANGED <<durable, pc, local, fed, fresh, covered, envVars>>

\* sessions.interrupt
Interrupt ==
  /\ owed[Session] # "nothing" \/ drain[Session] # "none"
  /\ owed' = [owed EXCEPT ![Session] = "nothing"]
  /\ stopping' = (drain[Session] # "none")
  /\ covered' = {}
  /\ UNCHANGED <<drain, durable, client, pc, local, fed, fresh, bounds>>

\* sessions.revert.commit back to the message that i became: every later message
\* and input goes.
RevertCommit(i) ==
  /\ reverts < MaxReverts /\ reverts' = reverts + 1
  /\ inbox[i] # NoRow /\ ~Pending(i)
  /\ LET later == {j \in Id : inbox[j] # NoRow
                     /\ (inbox[j].admitted > inbox[i].promoted
                          \/ inbox[j].promoted > inbox[i].promoted)} IN
       /\ inbox' = [j \in Id |-> IF j \in later THEN NoRow ELSE inbox[j]]
       /\ covered' = covered \ later
  /\ seq' = seq + 1
  /\ UNCHANGED <<execution, stopping, openTool, client, pc, local, fed, fresh, crashes>>

\* The process dies and another one opens the same database.
Crash ==
  /\ crashes < MaxCrashes /\ crashes' = crashes + 1
  /\ owed' = [owed EXCEPT ![Session] = "nothing"]
  /\ drain' = [drain EXCEPT ![Session] = "none"]
  /\ stopping' = FALSE /\ pc' = "off" /\ Idle /\ fed' = FALSE /\ fresh' = FALSE /\ covered' = {}
  /\ client' = [c \in Client |-> [at |-> "idle"]]
  /\ UNCHANGED <<durable, reverts>>

Runner == \/ HasSteer \/ HasQueue \/ FailInterruptedTools \/ Attempt \/ PickQueued \/ PickSteers
          \/ PublishRow \/ PublishedRows \/ CallProvider \/ TurnEnds \/ NextTurn \/ MoreQueued

Next ==
  \/ \E c \in Client : \/ \E r \in Request : Prompt(c, r)
                       \/ PublishAdmitted(c) \/ FindAgain(c) \/ WakeAndAnswer(c)
  \/ BeginDrain \/ Runner \/ Compact \/ ToolCall \/ RecoverOverflow
  \/ DrainFails \/ DrainInterrupted
  \/ Resume \/ Interrupt \/ Crash
  \/ \E i \in Id : RevertCommit(i)

\* Owed work is begun (SerialExecution), the runner's own steps are taken, a turn
\* that can be sent is in the end sent instead of compacted again, and an
\* admitted prompt call runs on: sessions.prompt is uninterruptible.
Fairness ==
  /\ WF_vars(BeginDrain)
  /\ WF_vars(Runner) /\ SF_vars(CallProvider) /\ WF_vars(stopping /\ DrainInterrupted)
  /\ \A c \in Client : WF_vars(PublishAdmitted(c) \/ FindAgain(c) \/ WakeAndAnswer(c))

Safe == Init /\ [][Next]_vars
Spec == Safe /\ Fairness
-------------------------------------------------------------------------------
(* Properties *)

\* Inputs of one delivery mode enter history in the order they were admitted,
\* although promotion is spread over many steps, batches and drains, any of which
\* may be cut short ("queue inputs remain in a FIFO"; steers "in durable admission
\* order"); and a queued one does not enter while the drain requires continuation.
DeliveryOrder ==
  /\ [](\A i, j \in Id :
          (/\ inbox[i] # NoRow /\ inbox[j] # NoRow
           /\ inbox[i].delivery = inbox[j].delivery
           /\ inbox[i].admitted < inbox[j].admitted
           /\ inbox[j].promoted # 0)
            => (inbox[i].promoted # 0 /\ inbox[i].promoted < inbox[j].promoted))
  /\ [][\A i \in Id :
          (Pending(i) /\ inbox'[i] # NoRow /\ inbox'[i].promoted # 0
             /\ inbox[i].delivery = "queue") => ~continue]_vars

\* Whoever is answered with an admission gets the one that is stored: of concurrent
\* prompts that reuse an ID for something else, at most one is ever accepted.  (A
\* revert deletes the row and frees the ID, also of a prompt not yet answered.)
AnswersAgree ==
  [][\A c \in Client : reverts = 0 /\ WakeAndAnswer(c) =>
       LET r == client[c].req IN inbox[r.id] # NoRow => Equivalent(inbox[r.id], r)]_vars

\* The first turn after a promotion has the full allowance, also when compaction or
\* overflow recovery repeats the attempt without promoting again; no turn exceeds it.
AllowanceFollowsPromotion ==
  pc = "turn" => (step <= MaxSteps /\ (fresh => step = 1))

\* "A wake calls the provider only when it can promote eligible input": the drain that
\* looks at the inbox finds its input when it promotes, unless a revert takes it away.
WakeCallsOnlyWithInput ==
  (pc = "turn" /\ drain[Session] = "followUp" /\ reverts = 0) => fed

\* A provider request is never assembled over a tool call that a dead process left
\* running.
NoAbandonedToolInRequest == pc = "prepare" => ~openTool

\* A provider turn is made only when it is due: for an input that a wake was for, within
\* the allowance its promotion gave, and over a history without abandoned tool calls.
TurnIsDue == WakeCallsOnlyWithInput /\ AllowanceFollowsPromotion /\ NoAbandonedToolInRequest

\* An admitted input whose wake was requested is promoted, unless interruption, a
\* failing drain or a restart cancels the execution it was waiting for, or drains
\* fail for ever: no wake is lost between the drain's last look at the inbox and
\* its end, nor by the failure of a drain that it was not for.
WokenInputIsPromoted ==
  \A i \in Id : [](i \in covered => (<>(i \notin covered) \/ []<>(pc = "failed")))
===============================================================================
