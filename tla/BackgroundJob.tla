---------------------------- MODULE BackgroundJob ----------------------------
(***************************************************************************)
(* The registry of src/packages/core/src/background-job.ts, for one job    *)
(* ID.  A job that has ended may be started again under its ID: each start *)
(* makes a new incarnation, told apart by its token.  Runs added by extend *)
(* are executed one after another; the job ends with the last of them.     *)
(*                                                                         *)
(* A SynchronizedRef.modify is one action.  The end of a run, its settle,  *)
(* and what follows a final settle or a cancel are separate steps.         *)
(***************************************************************************)
EXTENDS Integers, FiniteSets

CONSTANTS
  Waiter,     \* fibers that wait for the job
  MaxStarts,  \* bound: incarnations
  MaxRuns     \* bound: runs of an incarnation

ASSUME BoundsAssumption == MaxStarts \in Nat /\ MaxRuns \in Nat \ {0}

Token    == 1 .. MaxStarts
Sequence == 0 .. MaxRuns - 1

VARIABLES
  latest,    \* token of the registered incarnation, 0 before the first start
  job,       \* the registered job of each incarnation as it is, or last was
  run,       \* where each run of each incarnation is
  done,      \* incarnations whose done Deferred is completed
  closed,    \* incarnations whose scope is closed
  caller

vars == <<latest, job, run, done, closed, caller>>

Final  == {"completed", "error", "cancelled"}
Exit   == {"success", "failure", "interrupt"}
Active == {"accepted", "running"}   \* accepted: its fiber awaits the previous tail

NoJob == [status |-> "none", pending |-> 0, next |-> 0, output |-> -1]

TypeOK ==
  /\ latest \in 0 .. MaxStarts
  /\ job \in [Token -> [status : Final \cup {"none", "running"}, pending : 0 .. MaxRuns,
                        next : 0 .. MaxRuns, output : Sequence \cup {-1}]]
  /\ \A t \in Token : job[t].status = "running" => t = latest /\ job[t].pending > 0
  /\ run \in [Token -> [Sequence -> Active \cup Exit \cup {"none", "settled"}]]
  /\ done \subseteq Token /\ closed \subseteq Token
  /\ caller \in [Waiter -> [at : {"free"}] \cup [at : {"waiting"}, token : Token]]

Init ==
  /\ latest = 0
  /\ job = [t \in Token |-> NoJob]
  /\ run = [t \in Token |-> [n \in Sequence |-> "none"]]
  /\ done = {} /\ closed = {}
  /\ caller = [c \in Waiter |-> [at |-> "free"]]

Running == latest # 0 /\ job[latest].status = "running"

-------------------------------------------------------------------------------
(* start, extend and the runs *)

\* start, unless the job is running: then the caller just gets its snapshot.
Start ==
  /\ ~Running /\ latest < MaxStarts
  /\ latest' = latest + 1
  /\ job' = [job EXCEPT ![latest + 1] =
       [status |-> "running", pending |-> 1, next |-> 1, output |-> -1]]
  /\ run' = [run EXCEPT ![latest + 1][0] = "accepted"]
  /\ UNCHANGED <<done, closed, caller>>

\* extend of a running job.
Extend ==
  /\ Running /\ job[latest].next < MaxRuns
  /\ job' = [job EXCEPT ![latest].pending = @ + 1, ![latest].next = @ + 1]
  /\ run' = [run EXCEPT ![latest][job[latest].next] = "accepted"]
  /\ UNCHANGED <<latest, done, closed, caller>>

\* A run's tail is completed when the run is over, before it is settled.
TailDone(t, n) == run[t][n] \notin Active

\* Deviation: an added run does not wait for its turn.
BeginRunAtOnce(t, n) ==
  /\ run[t][n] = "accepted"
  /\ run' = [run EXCEPT ![t][n] = "running"]
  /\ UNCHANGED <<latest, job, done, closed, caller>>

\* The run's fiber starts it when the previous tail is completed.
BeginRun(t, n) ==
  /\ run[t][n] = "accepted"
  /\ n > 0 => TailDone(t, n - 1)
  /\ run' = [run EXCEPT ![t][n] = "running"]
  /\ UNCHANGED <<latest, job, done, closed, caller>>

EndRun(t, n, exit) ==
  /\ run[t][n] = "running"
  /\ run' = [run EXCEPT ![t][n] = exit]
  /\ UNCHANGED <<latest, job, done, closed, caller>>

\* Closing the scope interrupts its fibers.  The job has ended before, so that their
\* settle, if it is reached at all, changes nothing.
InterruptRun(t, n) ==
  /\ t \in closed /\ run[t][n] \in Active
  /\ run' = [run EXCEPT ![t][n] = "settled"]
  /\ UNCHANGED <<latest, job, done, closed, caller>>

StatusOf(exit) == CASE exit = "success"   -> "completed"
                    [] exit = "failure"   -> "error"
                    [] exit = "interrupt" -> "cancelled"

\* Deviation: the output of the run that settles last is kept.
OutputOfLastSettled(j, n, exit) == IF exit = "success" THEN n ELSE j.output

\* The output of the latest run that succeeded so far.
Output(j, n, exit) == IF exit = "success" /\ n > j.output THEN n ELSE j.output

\* Deviation: a settle counts whatever became of the job in the meantime.
SettleLate(t, n) ==
  /\ run[t][n] \in Exit
  /\ run' = [run EXCEPT ![t][n] = "settled"]
  /\ LET exit == run[t][n]
         j    == [job[t] EXCEPT !.pending = @ - 1, !.output = Output(job[t], n, exit)] IN
       IF t # latest THEN UNCHANGED job
       ELSE IF exit = "success" /\ j.pending > 0 THEN job' = [job EXCEPT ![t] = j]
       ELSE job' = [job EXCEPT ![t] = [j EXCEPT !.status = StatusOf(exit), !.pending = 0]]
  /\ UNCHANGED <<latest, done, closed, caller>>

\* Deviation: one run too many is expected.
SettleOffByOne(t, n) ==
  /\ run[t][n] \in Exit
  /\ run' = [run EXCEPT ![t][n] = "settled"]
  /\ LET exit == run[t][n]
         j    == [job[t] EXCEPT !.pending = @ - 1, !.output = Output(job[t], n, exit)] IN
       IF t # latest \/ ~Running THEN UNCHANGED job
       ELSE IF exit = "success" /\ j.pending >= 0 THEN job' = [job EXCEPT ![t] = j]
       ELSE job' = [job EXCEPT ![t] = [j EXCEPT !.status = StatusOf(exit), !.pending = 0]]
  /\ UNCHANGED <<latest, done, closed, caller>>

\* settle: only for the registered incarnation and while it is running.  A success
\* with runs pending keeps it running; anything else ends it.
Settle(t, n) ==
  /\ run[t][n] \in Exit
  /\ run' = [run EXCEPT ![t][n] = "settled"]
  /\ LET exit == run[t][n]
         j    == [job[t] EXCEPT !.pending = @ - 1, !.output = Output(job[t], n, exit)] IN
       IF t # latest \/ ~Running THEN UNCHANGED job
       ELSE IF exit = "success" /\ j.pending > 0 THEN job' = [job EXCEPT ![t] = j]
       ELSE job' = [job EXCEPT ![t] =
              [j EXCEPT !.status = StatusOf(exit), !.pending = 0]]
  /\ UNCHANGED <<latest, done, closed, caller>>

\* Deviation: the scope of an ended job is left open.
AnnounceOnly(t) ==
  /\ job[t].status \in Final /\ t \notin done
  /\ done' = done \cup {t}
  /\ UNCHANGED <<latest, job, run, closed, caller>>

\* Deviation: only a job that completed tells its waiters.
AnnounceCompleted(t) ==
  /\ job[t].status \in Final /\ t \notin closed
  /\ done' = IF job[t].status = "completed" THEN done \cup {t} ELSE done
  /\ closed' = closed \cup {t}
  /\ UNCHANGED <<latest, job, run, caller>>

\* Whoever ended the job completes done and closes the scope.
Announce(t) ==
  /\ job[t].status \in Final /\ t \notin done
  /\ done' = done \cup {t} /\ closed' = closed \cup {t}
  /\ UNCHANGED <<latest, job, run, caller>>

-------------------------------------------------------------------------------
(* wait and cancel *)

\* The answer, a snapshot of the job, is left out.
Answered(c) == caller' = [caller EXCEPT ![c] = [at |-> "free"]]

Free(c) == caller[c].at = "free"
WaitsFor(c, t) == ~Free(c) /\ caller[c].token = t

\* wait, when it is not answered at once.
Wait(c) ==
  /\ Free(c) /\ Running
  /\ caller' = [caller EXCEPT ![c] = [at |-> "waiting", token |-> latest]]
  /\ UNCHANGED <<latest, job, run, done, closed>>

Told(c, t) ==
  /\ WaitsFor(c, t) /\ t \in done
  /\ Answered(c)
  /\ UNCHANGED <<latest, job, run, done, closed>>

\* The timeout, if one was given, wins.
TimeOut(c) ==
  /\ ~Free(c)
  /\ Answered(c)
  /\ UNCHANGED <<latest, job, run, done, closed>>

\* cancel of a running job.  Its caller returns when the runs have stopped.
Cancel ==
  /\ Running
  /\ job' = [job EXCEPT ![latest].status = "cancelled", ![latest].pending = 0]
  /\ UNCHANGED <<latest, run, done, closed, caller>>

Next ==
  \/ Start \/ Extend \/ Cancel
  \/ \E t \in Token, n \in Sequence :
       \/ BeginRun(t, n) \/ InterruptRun(t, n) \/ Settle(t, n)
       \/ \E exit \in Exit : EndRun(t, n, exit)
  \/ \E t \in Token : Announce(t)
  \/ \E c \in Waiter :
       Wait(c) \/ TimeOut(c) \/ \E t \in Token : Told(c, t)

\* Every runnable fiber is resumed.  Work comes to an end by itself as long as its job
\* is running; that of an ended job has to be stopped.
Fairness ==
  /\ \A t \in Token, n \in Sequence :
       /\ WF_vars(BeginRun(t, n)) /\ WF_vars(Settle(t, n)) /\ WF_vars(InterruptRun(t, n))
       /\ WF_vars(job[t].status = "running" /\ \E exit \in Exit : EndRun(t, n, exit))
  /\ \A t \in Token : WF_vars(Announce(t))
  /\ \A c \in Waiter, t \in Token : WF_vars(Told(c, t))

Safe == Init /\ [][Next]_vars
Spec == Safe /\ Fairness
-------------------------------------------------------------------------------
(* Properties *)

\* A job completes only when every run it accepted has succeeded, and with the
\* output of the last of them, although a run may begin, end and settle before an
\* earlier one has settled.
CompletedWithLastOutput ==
  \A t \in Token : job[t].status = "completed" =>
    /\ job[t].output = job[t].next - 1
    /\ \A n \in Sequence : n < job[t].next => run[t][n] = "settled"

\* The runs of a job take turns for as long as it is open, also past a failure.
OneRunAtATime ==
  \A t \in Token \ closed : Cardinality({n \in Sequence : run[t][n] = "running"}) <= 1

\* The outcome of a job is decided once: the runs that outlive it, and the next job
\* under its ID, leave it alone.
OutcomeIsFinal ==
  [][\A t \in Token : job[t].status \in Final => job'[t] = job[t]]_vars

\* Nothing hangs on a job that has ended: whoever waits for it is answered, however it
\* ends and whatever is started under its ID meanwhile, and none of its runs goes on.
EndedJobsLetGo ==
  /\ \A c \in Waiter : ~Free(c) ~> Free(c)
  /\ \A t \in Token : (job[t].status \in Final)
       ~> (\A n \in Sequence : run[t][n] \notin Active)
===============================================================================
