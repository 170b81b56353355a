---------------------------- MODULE SessionRunState ----------------------------
(***************************************************************************)
(* The runners of one V1 Session: packages/opencode/src/effect/runner.ts   *)
(* and the Map from Sessions to runners in session/run-state.ts.  A runner *)
(* shares one loop among the prompts of its Session, lets a loop wait for  *)
(* a user's shell command, and stops both when asked to.                   *)
(*                                                                         *)
(* A runner, a run and a shell bear the name of the call that made them.   *)
(* Each SynchronizedRef.modify is one step; the effect that it returns is  *)
(* carried out in later ones.                                              *)
(***************************************************************************)
EXTENDS Integers

CONSTANTS
  Prompt,     \* calls of prompt and loop: ensureRunning
  Shell,      \* calls of shell: startShell
  Canceller,  \* calls of cancel
  None

ASSUME CallsAreApart ==
  /\ Prompt \cap Shell = {} /\ (Prompt \cup Shell) \cap Canceller = {}
  /\ None \notin Prompt \cup Shell \cup Canceller

Starter == Prompt \cup Shell

VARIABLES
  listed,   \* runners.get(sessionID)
  state,    \* each runner: the run and the shell it holds.  Idle: neither; Running: a
            \* run; Shell: a shell; ShellThenRun: a shell and the run waiting behind it
  call,     \* each call: where it is, its runner, the run and the shell it deals with
  work,     \* the fiber of each run and shell
  stopped,  \* fibers that were interrupted
  done      \* runs whose Deferred is completed

vars == <<listed, state, call, work, stopped, done>>

Idle == [run |-> None, shell |-> None]

\* preparing: before the shell opens its latch, uninterruptibly.  ended: about to take
\* the runner's lock.  idling, completing: what finishRun and finishShell do after it.
Place == {"none", "pending", "preparing", "working", "ended", "idling", "completing", "over"}

TypeOK ==
  /\ listed \in Starter \cup {None}
  /\ state \in [Starter -> [run : Prompt \cup {None}, shell : Shell \cup {None}]]
  /\ call \in [Starter \cup Canceller ->
       [at     : {"new", "found", "waiting", "stopping", "awaiting", "checking", "idling",
                  "returned", "cut"},
        runner : Starter \cup {None}, run : Prompt \cup {None}, shell : Shell \cup {None}]]
  /\ \A c \in Starter \cup Canceller : call[c].at \notin {"new", "returned"} => call[c].runner # None
  /\ work \in [Starter -> Place]
  /\ stopped \subseteq Starter
  /\ done \subseteq Prompt

Init ==
  /\ listed = None
  /\ state = [r \in Starter |-> Idle]
  /\ call = [c \in Starter \cup Canceller |->
               [at |-> "new", runner |-> None, run |-> None, shell |-> None]]
  /\ work = [c \in Starter |-> "none"]
  /\ stopped = {} /\ done = {}

Goto(c, place) == call' = [call EXCEPT ![c].at = place]

-------------------------------------------------------------------------------
(* Calls *)

\* runner(): the Session's runner, or a new one.
FindRunner(c) ==
  /\ call[c].at = "new"
  /\ listed' = IF listed = None THEN c ELSE listed
  /\ call' = [call EXCEPT ![c].at = "found", ![c].runner = listed']
  /\ UNCHANGED <<state, work, stopped, done>>

\* A run that the runner holds is shared; a shell is waited for.
EnsureRunning(p) ==
  LET r == call[p].runner IN
    /\ call[p].at = "found"
    /\ IF state[r].run # None
       THEN /\ call' = [call EXCEPT ![p].at = "waiting", ![p].run = state[r].run]
            /\ UNCHANGED <<state, work>>
       ELSE /\ call' = [call EXCEPT ![p].at = "waiting", ![p].run = p]
            /\ state' = [state EXCEPT ![r].run = p]
            /\ work' = [work EXCEPT ![p] = IF state[r].shell = None THEN "working" ELSE "pending"]
    /\ UNCHANGED <<listed, stopped, done>>

\* A busy runner fails the call.  onBusy is called with the lock held.
StartShell(s) ==
  LET r == call[s].runner IN
    /\ call[s].at = "found"
    /\ IF state[r] # Idle
       THEN Goto(s, "returned") /\ UNCHANGED <<state, work>>
       ELSE /\ call' = [call EXCEPT ![s].at = "waiting", ![s].shell = s]
            /\ state' = [state EXCEPT ![r].shell = s]
            /\ work' = [work EXCEPT ![s] = "preparing"]
    /\ UNCHANGED <<listed, stopped, done>>

Return(c) ==
  /\ call[c].at = "waiting"
  /\ IF c \in Prompt THEN call[c].run \in done ELSE work[c] = "over"
  /\ Goto(c, "returned")
  /\ UNCHANGED <<listed, state, work, stopped, done>>

\* The client is gone: a run goes on without the call, a shell, its child, does not.
Disconnect(c) ==
  /\ call[c].at = "waiting"
  /\ Goto(c, "returned")
  /\ stopped' = IF c \in Shell THEN stopped \cup {c} ELSE stopped
  /\ UNCHANGED <<listed, state, work, done>>

-------------------------------------------------------------------------------
(* Runs and shells *)

Prepared(s) ==
  /\ work[s] = "preparing"
  /\ work' = [work EXCEPT ![s] = "working"]
  /\ UNCHANGED <<listed, state, call, stopped, done>>

\* By itself, with a failure, or because it was interrupted.
EndWork(c) ==
  /\ work[c] = "working"
  /\ work' = [work EXCEPT ![c] = "ended"]
  /\ UNCHANGED <<listed, state, call, stopped, done>>

Released(c) == state' = [state EXCEPT ![call[c].runner] = Idle]

\* Deviation: the runner becomes idle with whichever run it had.
FinishAnyRun(q) ==
  /\ q \in Prompt /\ work[q] = "ended"
  /\ Released(q) /\ work' = [work EXCEPT ![q] = "idling"]
  /\ UNCHANGED <<listed, call, stopped, done>>

\* finishRun: a run that was cancelled is no longer the runner's.
FinishRun(q) ==
  /\ q \in Prompt /\ work[q] = "ended"
  /\ IF state[call[q].runner] = [run |-> q, shell |-> None]
     THEN Released(q) /\ work' = [work EXCEPT ![q] = "idling"]
     ELSE work' = [work EXCEPT ![q] = "completing"] /\ UNCHANGED state
  /\ UNCHANGED <<listed, call, stopped, done>>

\* finishShell: the run that waits is started.
FinishShell(s) ==
  LET r == call[s].runner IN
    /\ s \in Shell /\ work[s] = "ended"
    /\ \/ /\ state[r] = [run |-> None, shell |-> s]
          /\ Released(s) /\ work' = [work EXCEPT ![s] = "idling"]
       \/ /\ state[r].shell = s /\ state[r].run # None
          /\ state' = [state EXCEPT ![r].shell = None]
          /\ work' = [work EXCEPT ![s] = "over", ![state[r].run] = "working"]
       \/ /\ state[r].shell # s
          /\ work' = [work EXCEPT ![s] = "over"] /\ UNCHANGED state
    /\ UNCHANGED <<listed, call, stopped, done>>

\* onIdle deletes the Session's entry, whoever's it is.
WorkIdle(c) ==
  /\ work[c] = "idling"
  /\ listed' = None
  /\ work' = [work EXCEPT ![c] = IF c \in Prompt THEN "completing" ELSE "over"]
  /\ UNCHANGED <<state, call, stopped, done>>

CompleteRun(q) ==
  /\ q \in Prompt /\ work[q] = "completing"
  /\ done' = done \cup {q}
  /\ work' = [work EXCEPT ![q] = "over"]
  /\ UNCHANGED <<listed, state, call, stopped>>

-------------------------------------------------------------------------------
(* cancel *)

\* Deviation: a Session without a runner is not told apart.
FindNoRunner(k) ==
  /\ call[k].at = "new"
  /\ call' = [call EXCEPT ![k].at = "found", ![k].runner = listed]
  /\ UNCHANGED <<listed, state, work, stopped, done>>

FindToCancel(k) ==
  /\ call[k].at = "new"
  /\ call' = [call EXCEPT ![k] =
       [@ EXCEPT !.at = IF listed = None THEN "returned" ELSE "found", !.runner = listed]]
  /\ UNCHANGED <<listed, state, work, stopped, done>>

\* The runner is idle from now on; what it held has still to be stopped.
Cancel(k) ==
  LET r == call[k].runner IN
    /\ call[k].at = "found"
    /\ state' = [state EXCEPT ![r] = Idle]
    /\ call' = [call EXCEPT ![k] =
         [at     |-> IF state[r] = Idle THEN "returned" ELSE "stopping",
          runner |-> r, run |-> state[r].run, shell |-> state[r].shell]]
    /\ UNCHANGED <<listed, work, stopped, done>>

\* A shell is stopped before the run behind it, which has no fiber.
Target(k) == IF call[k].shell # None THEN call[k].shell ELSE call[k].run

\* stopShell waits for the latch.
StopWork(k) ==
  /\ call[k].at = "stopping" /\ work[Target(k)] # "preparing"
  /\ stopped' = stopped \cup {Target(k)}
  /\ Goto(k, "awaiting")
  /\ UNCHANGED <<listed, state, work, done>>

\* Deviation: only the fiber is waited for, which a run behind a shell does not have.
AwaitExitOnly(k) ==
  /\ call[k].at = "awaiting" /\ work[Target(k)] = "over"
  /\ Goto(k, "checking")
  /\ UNCHANGED <<listed, state, work, stopped, done>>

\* The fiber has ended, and the run's callers are told.
AwaitExit(k) ==
  /\ call[k].at = "awaiting" /\ work[Target(k)] = "over"
  /\ done' = done \cup ({call[k].run} \ {None})
  /\ Goto(k, "checking")
  /\ UNCHANGED <<listed, state, work, stopped>>

\* idleIfCurrent
IdleIfCurrent(k) ==
  /\ call[k].at = "checking"
  /\ Goto(k, IF state[call[k].runner] = Idle THEN "idling" ELSE "returned")
  /\ UNCHANGED <<listed, state, work, stopped, done>>

CancelIdle(k) ==
  /\ call[k].at = "idling"
  /\ listed' = None
  /\ Goto(k, "returned")
  /\ UNCHANGED <<state, work, stopped, done>>

\* The fiber that cancels is interrupted itself, as by a client that is gone.
CutOff(k) ==
  /\ call[k].at \in {"stopping", "awaiting", "checking", "idling"}
  /\ Goto(k, "cut")
  /\ UNCHANGED <<listed, state, work, stopped, done>>

-------------------------------------------------------------------------------

Calling(c) == \/ FindRunner(c) \/ Return(c)
              \/ c \in Prompt /\ EnsureRunning(c)
              \/ c \in Shell /\ StartShell(c)

Working(c) == Prepared(c) \/ FinishRun(c) \/ FinishShell(c) \/ WorkIdle(c) \/ CompleteRun(c)

Cancelling(k) == Cancel(k) \/ StopWork(k) \/ AwaitExit(k) \/ IdleIfCurrent(k) \/ CancelIdle(k)

Next ==
  \/ \E c \in Starter : Calling(c) \/ Disconnect(c) \/ Working(c) \/ EndWork(c)
  \/ \E k \in Canceller : FindToCancel(k) \/ Cancelling(k) \/ CutOff(k)

Safe == Init /\ [][Next]_vars

\* Every fiber goes on; work that was interrupted ends.  Whether other work ends is up to
\* the model and to the command.
Spec ==
  /\ Safe
  /\ \A c \in Starter : WF_vars(Return(c)) /\ WF_vars(Working(c)) /\ WF_vars(c \in stopped /\ EndWork(c))
  /\ \A k \in Canceller : WF_vars(Cancelling(k))

-------------------------------------------------------------------------------
(* Properties *)

Cancelled(c) == \E k \in Canceller : call[k].run = c \/ call[k].shell = c

\* A runner is busy with exactly that work of its own which nobody cancelled: it is not
\* idle while such work goes on, so that a second run would start, nor busy with work
\* that is over, so that its callers would wait for nothing.
BusyWithItsWork ==
  \A c \in Starter :
    LET holds == call[c].runner # None /\ (state[call[c].runner].run = c \/ state[call[c].runner].shell = c) IN
      holds <=> work[c] \in {"pending", "preparing", "working", "ended"} /\ ~Cancelled(c)

\* All work ends some day.
WorkEnds == \A c \in Starter : WF_vars(EndWork(c))

\* A run that waited behind a shell when its cancel was cut off: nobody starts it, and
\* nobody tells its callers.
Forgotten(q) == work[q] = "pending" /\ \E k \in Canceller : call[k].at = "cut" /\ call[k].run = q

Waits(p) == call[p].at = "waiting" /\ ~Forgotten(call[p].run)

\* Every caller of ensureRunning gets an answer if work ends: from the run it joined, also
\* one that waited behind a shell, that was cancelled while a replacement ran, or whose
\* cancel raced its end; and a cancel returns although the loop might go on for ever.
CallersAreAnswered ==
  /\ WorkEnds => \A p \in Prompt : Waits(p) ~> ~Waits(p)
  /\ \A k \in Canceller : call[k].at = "stopping" ~> call[k].at \in {"returned", "cut"}
===============================================================================
