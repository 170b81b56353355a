----------------------------- MODULE SubagentTask -----------------------------
(***************************************************************************)
(* Calls of the task tool (packages/opencode/src/tool/task.ts) that run or *)
(* resume one child Session, over the background job with its ID.  A call  *)
(* extends the job if it is running and starts it if not; it returns the   *)
(* outcome, unless the job was started or promoted to run in the           *)
(* background: then a notification fiber waits for the outcome and puts it *)
(* into the parent Session.                                                *)
(*                                                                         *)
(* The calls of Call are followed; others on the same child Session start, *)
(* extend and cancel the job as they please.                               *)
(***************************************************************************)
EXTENDS BackgroundJob

CONSTANTS
  Call,
  MaxOthers  \* bound: what others do to the job

\* A call waits for the job in its own fiber and in the one that notifies its parent.
Result(c) == <<c, "result">>
Notice(c) == <<c, "notice">>

ASSUME OthersBound == MaxOthers \in Nat
ASSUME CallsWait == Waiter = {Result(c) : c \in Call} \cup {Notice(c) : c \in Call}

VARIABLES
  task,        \* each call: where it is, the incarnation it started (0: none), and the
               \* one whose result it returned
  notice,      \* each call's notification, and the incarnation that it waits for or met
  background,  \* incarnations whose metadata say background
  others       \* what others did so far

registry == <<latest, job, run, done, closed>>
tasks    == <<task, notice, background, others>>
taskVars == <<vars, task, notice, background, others>>

\* What a call returns: that the task is running, its result, or a failure.
Answers == {"running", "result", "failed"}

TasksOK ==
  /\ TypeOK
  /\ task \in [Call -> [at : {"called", "starting", "started", "launched", "waiting", "aborting"}
                             \cup Answers,
                        own : Token \cup {0}, of : Token \cup {0}]]
  /\ notice \in [Call -> [at : {"none", "promoting", "waiting", "told", "dropped"},
                          of : Token \cup {0}]]
  /\ \A c \in Call : /\ task[c].at = "waiting" <=> ~Free(Result(c))
                     /\ notice[c].at = "waiting" <=> ~Free(Notice(c))
  /\ background \subseteq Token
  /\ others \in 0 .. MaxOthers

TasksInit ==
  /\ Init
  /\ task = [c \in Call |-> [at |-> "called", own |-> 0, of |-> 0]]
  /\ notice = [c \in Call |-> [at |-> "none", of |-> 0]]
  /\ background = {}
  /\ others = 0

At(c, place) == task' = [task EXCEPT ![c].at = place]

-------------------------------------------------------------------------------
(* A call *)

\* extend, which answers the call, or finds nothing running.
CallExtends(c) ==
  /\ task[c].at = "called"
  /\ \/ Extend /\ At(c, "running")
     \/ ~Running /\ At(c, "starting") /\ UNCHANGED vars
  /\ UNCHANGED <<notice, background, others>>

\* start, possibly after another call: then the job is that call's, and the prompt of
\* this one is dropped.  launched: the call asks for the background.
CallStarts(c) ==
  /\ task[c].at = "starting"
  /\ \E place \in {"started", "launched"} :
       \/ /\ Start
          /\ task' = [task EXCEPT ![c].at = place, ![c].own = latest']
          /\ background' = IF place = "launched" THEN background \cup {latest'} ELSE background
       \/ Running /\ At(c, place) /\ UNCHANGED <<vars, background>>
  /\ UNCHANGED <<notice, others>>

\* What the call makes of the job's last snapshot.
Returns(c, t) ==
  IF t \in background THEN At(c, "running")
  ELSE IF job[t].status = "completed" THEN task' = [task EXCEPT ![c].at = "result", ![c].of = t]
  ELSE At(c, "failed")

\* wait and waitForPromotion both look the job up by its ID.
AwaitResult(c) ==
  /\ task[c].at = "started"
  /\ IF Running /\ latest \notin background THEN Wait(Result(c)) /\ At(c, "waiting")
     ELSE Returns(c, latest) /\ UNCHANGED vars
  /\ UNCHANGED <<notice, background, others>>

\* Deviation: that the job was promoted is seen by waitForPromotion only.
TakeOutcomeAnyway(c) ==
  /\ task[c].at = "waiting"
  /\ \E t \in Token :
       /\ Told(Result(c), t)
       /\ IF job[t].status = "completed" THEN task' = [task EXCEPT ![c].at = "result", ![c].of = t]
          ELSE At(c, "failed")
  /\ UNCHANGED <<notice, background, others>>

\* wait wins the race.
TakeOutcome(c) ==
  /\ task[c].at = "waiting"
  /\ \E t \in Token : Told(Result(c), t) /\ Returns(c, t)
  /\ UNCHANGED <<notice, background, others>>

\* waitForPromotion wins it.
TakePromotion(c) ==
  /\ task[c].at = "waiting" /\ caller[Result(c)].token \in background
  /\ Answered(Result(c)) /\ At(c, "running")
  /\ UNCHANGED <<registry, notice, background, others>>

Abort(c) ==
  /\ task[c].at = "waiting"
  /\ Answered(Result(c)) /\ At(c, "aborting")
  /\ UNCHANGED <<registry, notice, background, others>>

\* The release of an interrupted call cancels the job, again by its ID.
CancelAborted(c) ==
  /\ task[c].at = "aborting"
  /\ Cancel \/ (~Running /\ UNCHANGED vars)
  /\ At(c, "failed")
  /\ UNCHANGED <<notice, background, others>>

-------------------------------------------------------------------------------
(* Notifications *)

\* Deviation: only a completed task is put into the parent Session.
InjectedIfCompleted(t) == IF job[t].status = "completed" THEN "told" ELSE "dropped"

\* A completed or failed task is put into the parent Session, a cancelled one is not.
Injected(t) == IF job[t].status \in {"completed", "error"} THEN "told" ELSE "dropped"

\* The notification of c is waiting, or has met the end, of t.
Noticed(c, at, t) == notice' = [notice EXCEPT ![c] = [at |-> at, of |-> t]]

\* notify: wait for whatever has the ID.
Notify(c) ==
  IF Running THEN Wait(Notice(c)) /\ Noticed(c, "waiting", latest)
  ELSE Noticed(c, Injected(latest), latest) /\ UNCHANGED vars

ReturnInBackground(c) ==
  /\ task[c].at = "launched"
  /\ Notify(c)
  /\ At(c, "running")
  /\ UNCHANGED <<background, others>>

\* promote, asked for by a client.  It takes onPromote, which the starting call gave.
Promote ==
  /\ Running /\ latest \notin background
  /\ background' = background \cup {latest}
  /\ notice' = [c \in Call |-> IF task[c].own = latest THEN [at |-> "promoting", of |-> 0] ELSE notice[c]]
  /\ UNCHANGED <<vars, task, others>>

\* onPromote: the call's part is updated first.
NotifyPromoted(c) ==
  /\ notice[c].at = "promoting"
  /\ Notify(c)
  /\ UNCHANGED <<task, background, others>>

Inject(c) ==
  /\ notice[c].at = "waiting"
  /\ \E t \in Token : Told(Notice(c), t) /\ Noticed(c, Injected(t), t)
  /\ UNCHANGED <<task, background, others>>

-------------------------------------------------------------------------------
(* Everything else *)

\* Other calls on the child Session, and whoever cancels it.  Whether another call's job
\* runs in the background makes the difference that Promote makes.
Others ==
  /\ Start \/ Extend \/ Cancel
  /\ others < MaxOthers /\ others' = others + 1
  /\ UNCHANGED <<task, notice, background>>

Runs ==
  /\ \/ \E t \in Token, n \in Sequence :
          \/ BeginRun(t, n) \/ InterruptRun(t, n) \/ Settle(t, n)
          \/ \E exit \in Exit : EndRun(t, n, exit)
     \/ \E t \in Token : Announce(t)
  /\ UNCHANGED tasks

\* What the fiber of a call, or that of its notification, does next.
Calling(c) ==
  \/ AwaitResult(c) \/ TakeOutcome(c) \/ TakePromotion(c) \/ CancelAborted(c) \/ ReturnInBackground(c)

Notifying(c) == NotifyPromoted(c) \/ Inject(c)

TasksNext ==
  \/ \E c \in Call : CallExtends(c) \/ CallStarts(c) \/ Calling(c) \/ Notifying(c) \/ Abort(c)
  \/ Promote \/ Others \/ Runs

\* What a fiber goes on with: as in BackgroundJob, work is obliged to end only while its
\* job is running.
Obliged ==
  \/ \E c \in Call : Calling(c) \/ Notifying(c)
  \/ /\ \/ \E t \in Token, n \in Sequence :
             \/ BeginRun(t, n) \/ InterruptRun(t, n) \/ Settle(t, n)
             \/ job[t].status = "running" /\ \E exit \in Exit : EndRun(t, n, exit)
        \/ \E t \in Token : Announce(t)
     /\ UNCHANGED tasks

\* No step of the model can be repeated for ever, so that each fiber is treated fairly if
\* all of them together are.
TasksSafe == TasksInit /\ [][TasksNext]_taskVars
TasksSpec == TasksSafe /\ WF_taskVars(Obliged)

-------------------------------------------------------------------------------
(* Properties *)

Returned(c, t) == task[c].at = "result" /\ task[c].of = t
ToldOf(c, t) == notice[c].at = "told" /\ notice[c].of = t

\* An outcome that some call returned as its result is injected by no notification of the
\* call that started the job: a second report of it can only come from a call which
\* met the job by its ID, having started none or an earlier one (task.ts:256-262).
ReportedOnce(t) ==
  \A c, d \in Call : Returned(c, t) /\ ToldOf(d, t) => task[d].own < t

\* The job a call started reports to its parent in one way: as the call's result or by
\* a notification.  "You will be notified automatically when it finishes" (task.ts:31)
\* is kept with the outcome of that very job, also for one promoted while it ends,
\* unless it is cancelled or the notification is overtaken by the next job.
OutcomeReachesParent ==
  \A c \in Call, t \in Token :
    /\ []ReportedOnce(t)
    /\ task[c].own = t /\ t \in background ~>
         \/ ToldOf(c, t)
         \/ job[t].status = "cancelled"
         \/ notice[c].of > t
===============================================================================
