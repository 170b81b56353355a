---------------------------- MODULE RunCoordinator ----------------------------
(***************************************************************************)
(* The per-key execution coordinator of                                    *)
(* src/packages/core/src/session/run-coordinator.ts.                       *)
(*                                                                         *)
(* An element of Entry stands for an Entry object together with its owner  *)
(* fiber: when the fiber settles it either starts the next fiber of the    *)
(* same entry in the same synchronous step or ends for good, so an entry   *)
(* never has two fibers that can still act.  Synchronous blocks of the     *)
(* code (settle, run, wake, the body of interrupt) are single actions;     *)
(* wherever an Effect fiber can be suspended there is a boundary between   *)
(* actions.  The identity of an ended entry that nobody awaits may stand   *)
(* for a new object, so a finite Entry carries behaviours of any length.   *)
(***************************************************************************)
CONSTANTS
  Key,      \* what execution is serialized by (session IDs)
  Caller,   \* fibers that call run or interrupt
  Entry,    \* identities of Entry objects
  None      \* undefined

ASSUME NoneIsNoEntry == None \notin Entry

VARIABLES
  active,       \* Map<Key, Entry>
  key,          \* the key an entry was made for (closed over by its fiber)
  force,        \* the force argument of the entry's current fiber
  pendingWake,
  stopping,
  phase,        \* where the entry's owner fiber is
  caller        \* where each calling fiber is suspended

entryVars == <<key, force, pendingWake, stopping, phase>>
vars == <<active, key, force, pendingWake, stopping, phase, caller>>

Exit == {"success", "failure", "interrupt"}

\* "starting": forked, not yet in options.drain.  "draining": in options.drain.
\* "aborting": interrupted before options.drain.  "cleanup": interrupted within.
\* "ended": settled for good, or not made yet.
Live     == {"starting", "draining", "aborting", "cleanup"}
Draining == {"draining", "cleanup"}

\* joining: awaiting done.  restarting: awaiting done, to call run again after.
\* rerunning: about to call run again.  interrupting: awaiting the owner fiber.
Returned == [at : {"returned"}, result : Exit \cup {"void"}]
Awaiting == [at : {"joining", "restarting", "interrupting"}, entry : Entry]
Again    == [at : {"rerunning"}, key : Key]

TypeOK ==
  /\ active \in [Key -> Entry \cup {None}]
  /\ key \in [Entry -> Key]
  /\ force \in [Entry -> BOOLEAN]
  /\ pendingWake \in [Entry -> BOOLEAN]
  /\ stopping \in [Entry -> BOOLEAN]
  /\ phase \in [Entry -> Live \cup {"ended"}]
  /\ caller \in [Caller -> Returned \cup Awaiting \cup Again]

Init ==
  /\ active = [k \in Key |-> None]
  /\ key \in {[e \in Entry |-> k] : k \in Key}
  /\ force = [e \in Entry |-> FALSE]
  /\ pendingWake = [e \in Entry |-> FALSE]
  /\ stopping = [e \in Entry |-> FALSE]
  /\ phase = [e \in Entry |-> "ended"]
  /\ caller = [c \in Caller |-> [at |-> "returned", result |-> "void"]]

Awaits(c, e) ==
  caller[c].at \in {"joining", "restarting", "interrupting"} /\ caller[c].entry = e

Unreachable(e) == phase[e] = "ended" /\ \A c \in Caller : ~Awaits(c, e)

-------------------------------------------------------------------------------
\* active.set(key, makeEntry()) and start(key, entry, forced): s is made for k,
\* while the entries in over have ended.
StartNew(k, s, forced, over) ==
  /\ Unreachable(s)
  /\ active' = [active EXCEPT ![k] = s]
  /\ key' = [key EXCEPT ![s] = k]
  /\ force' = [force EXCEPT ![s] = forced]
  /\ pendingWake' = [pendingWake EXCEPT ![s] = FALSE]
  /\ stopping' = [stopping EXCEPT ![s] = FALSE]
  /\ phase' = [e \in Entry |-> IF e = s THEN "starting"
                               ELSE IF e \in over THEN "ended" ELSE phase[e]]

\* Deviation: a run that meets a stopping entry starts over it instead of waiting.
EnterRunOverStopping(c, k) ==
  \/ /\ active[k] # None
     /\ ~stopping[active[k]]
     /\ caller' = [caller EXCEPT ![c] = [at |-> "joining", entry |-> active[k]]]
     /\ UNCHANGED <<active, entryVars>>
  \/ /\ active[k] # None => stopping[active[k]]
     /\ \E e \in Entry :
          /\ StartNew(k, e, TRUE, {})
          /\ caller' = [caller EXCEPT ![c] = [at |-> "joining", entry |-> e]]

\* run(key): join, park behind an execution that is being stopped, or start one.
EnterRun(c, k) ==
  \/ /\ active[k] # None
     /\ caller' = [caller EXCEPT ![c] =
          [at |-> IF stopping[active[k]] THEN "restarting" ELSE "joining",
           entry |-> active[k]]]
     /\ UNCHANGED <<active, entryVars>>
  \/ /\ active[k] = None
     /\ \E e \in Entry :
          /\ StartNew(k, e, TRUE, {})
          /\ caller' = [caller EXCEPT ![c] = [at |-> "joining", entry |-> e]]

Run(c, k) == caller[c].at = "returned" /\ EnterRun(c, k)

\* wake(key)
Wake(k) ==
  \/ /\ active[k] # None
     /\ pendingWake' = [pendingWake EXCEPT ![active[k]] = TRUE]
     /\ UNCHANGED <<active, key, force, stopping, phase, caller>>
  \/ /\ active[k] = None
     /\ \E e \in Entry : StartNew(k, e, FALSE, {})
     /\ UNCHANGED caller

\* interrupt(key): flag the entry, deliver the interruption, await the fiber.
Interrupt(c, k) ==
  /\ caller[c].at = "returned"
  /\ active[k] # None
  /\ LET e == active[k] IN
       /\ stopping' = [stopping EXCEPT ![e] = TRUE]
       /\ pendingWake' = [pendingWake EXCEPT ![e] = FALSE]
       /\ phase' = [phase EXCEPT ![e] =
            IF phase[e] \in Draining THEN "cleanup" ELSE "aborting"]
       /\ caller' = [caller EXCEPT ![c] = [at |-> "interrupting", entry |-> e]]
  /\ UNCHANGED <<active, key, force>>

-------------------------------------------------------------------------------
\* The fiber gets past Deferred.await(ready) or Effect.yieldNow.
BeginDrain(e) ==
  /\ phase[e] = "starting"
  /\ phase' = [phase EXCEPT ![e] = "draining"]
  /\ UNCHANGED <<active, key, force, pendingWake, stopping, caller>>

Return(c, result) == caller' = [caller EXCEPT ![c] = [at |-> "returned", result |-> result]]

\* Deviation: only those who joined are told.
AfterDoneForJoiners(w, exit) ==
  IF w.at = "joining" THEN [at |-> "returned", result |-> exit] ELSE w

\* Deviation: the parked run comes back for the entry instead of its key.
AfterDoneForEntry(w, exit) ==
  IF w.at = "interrupting" THEN [at |-> "returned", result |-> "void"]
  ELSE IF w.at = "restarting" /\ exit = "success"
    THEN [at |-> "rerunning", key |-> w.entry]
  ELSE [at |-> "returned", result |-> exit]

\* What Deferred.done(entry.done, exit) and the end of the fiber do to a fiber
\* suspended on them.  A parked run calls run again after a success only:
\* Deferred.await(done).pipe(andThen(run(key))).
AfterDone(w, exit) ==
  IF w.at = "interrupting" THEN [at |-> "returned", result |-> "void"]
  ELSE IF w.at = "restarting" /\ exit = "success"
    THEN [at |-> "rerunning", key |-> key[w.entry]]
  ELSE [at |-> "returned", result |-> exit]

Complete(e, exit) ==
  caller' = [c \in Caller |-> IF Awaits(c, e) THEN AfterDone(caller[c], exit) ELSE caller[c]]

\* settle, first branch: the same entry goes round again in a new fiber, and
\* whoever was interrupting the old one is released.
Restart(e) ==
  /\ pendingWake' = [pendingWake EXCEPT ![e] = FALSE]
  /\ force' = [force EXCEPT ![e] = FALSE]
  /\ phase' = [phase EXCEPT ![e] = "starting"]
  /\ caller' = [c \in Caller |->
       IF Awaits(c, e) /\ caller[c].at = "interrupting"
       THEN [at |-> "returned", result |-> "void"] ELSE caller[c]]
  /\ UNCHANGED <<active, key, stopping>>

\* Deviation: the hand-over forgets those awaiting the entry that ends.
HandOverForgetsDone(e, exit) ==
  /\ \E s \in Entry : StartNew(key[e], s, FALSE, {e})
  /\ UNCHANGED caller

\* settle, second branch with a wake registered: a successor takes the key.
HandOver(e, exit) ==
  /\ \E s \in Entry : StartNew(key[e], s, FALSE, {e})
  /\ Complete(e, exit)

\* Deviation: only a success releases the key.
ReleaseOnSuccess(e, exit) ==
  /\ active' = [active EXCEPT ![key[e]] = IF exit = "success" THEN None ELSE @]
  /\ phase' = [phase EXCEPT ![e] = "ended"]
  /\ Complete(e, exit)
  /\ UNCHANGED <<key, force, pendingWake, stopping>>

\* settle, second branch without one: the key becomes idle.
Release(e, exit) ==
  /\ active' = [active EXCEPT ![key[e]] = None]
  /\ phase' = [phase EXCEPT ![e] = "ended"]
  /\ Complete(e, exit)
  /\ UNCHANGED <<key, force, pendingWake, stopping>>

\* Deviation: a wake registered during a drain that does not succeed is dropped.
SettleDropsWake(e, exit) ==
  IF exit = "success" /\ ~stopping[e] /\ pendingWake[e] THEN Restart(e)
  ELSE Release(e, exit)

\* Deviation: settle restarts an entry that is being stopped.
SettleRestartsStopped(e, exit) ==
  IF exit = "success" /\ pendingWake[e] THEN Restart(e)
  ELSE IF pendingWake[e] THEN HandOver(e, exit)
  ELSE Release(e, exit)

\* Deviation: every follow-up reuses the entry, so that done never completes.
SettleNeverHandsOver(e, exit) ==
  IF pendingWake[e] THEN Restart(e) ELSE Release(e, exit)

Settle(e, exit) ==
  IF exit = "success" /\ ~stopping[e] /\ pendingWake[e] THEN Restart(e)
  ELSE IF pendingWake[e] THEN HandOver(e, exit)
  ELSE Release(e, exit)

\* options.drain returns.  One that is being interrupted may still succeed or
\* fail when the interruption finds it in an uninterruptible region.
EndDrain(e, exit) ==
  /\ phase[e] \in Draining
  /\ exit = "interrupt" => phase[e] = "cleanup"
  /\ Settle(e, exit)

\* An owner interrupted before options.drain settles without running it.
Abort(e) == phase[e] = "aborting" /\ Settle(e, "interrupt")

-------------------------------------------------------------------------------
\* The run that a parked run makes once the stopping entry is out of the way.
RunAgain(c) == caller[c].at = "rerunning" /\ EnterRun(c, caller[c].key)

\* The calling fiber is itself interrupted while suspended in its wait.
LeaveWait(c) ==
  /\ caller[c].at # "returned"
  /\ Return(c, "interrupt")
  /\ UNCHANGED <<active, entryVars>>

Next ==
  \/ \E k \in Key : \/ Wake(k)
                    \/ \E c \in Caller : Run(c, k) \/ Interrupt(c, k)
  \/ \E e \in Entry : \/ BeginDrain(e)
                      \/ Abort(e)
                      \/ \E exit \in Exit : EndDrain(e, exit)
  \/ \E c \in Caller : RunAgain(c) \/ LeaveWait(c)

Safe == Init /\ [][Next]_vars

\* The scheduler resumes every runnable fiber.
SchedulerFairness ==
  /\ \A e \in Entry : WF_vars(BeginDrain(e)) /\ WF_vars(Abort(e))
  /\ \A c \in Caller : WF_vars(RunAgain(c))

Spec == Safe /\ SchedulerFairness

\* The drain itself comes to an end: whoever calls make owes this.
DrainsEnd == \A e \in Entry : WF_vars(\E exit \in Exit : EndDrain(e, exit))

SpecDrainsEnd == Spec /\ DrainsEnd

-------------------------------------------------------------------------------
(* Properties *)

LiveOn(k) == {e \in Entry : key[e] = k /\ phase[e] \in Live}

\* At most one execution of a key exists at any time, and it is the one that the
\* map names: run, wake and settle never leave a second fiber behind (start is
\* called from four places, two of them inside an exiting fiber's onExit), nor an
\* ended entry in the map, whose pendingWake flag would swallow every later wake.
OneExecutionPerKey ==
  \A k \in Key : LiveOn(k) = {active[k]} \ {None}

\* Nobody awaits a Deferred or a fiber that has nothing more to do: whoever
\* waits, waits for the entry in the map, also across a hand-over.
NoAbandonedWaiter ==
  \A c \in Caller, e \in Entry : Awaits(c, e) => e \in LiveOn(key[e])

\* An interrupted execution only ever ends: whatever its drain returned and
\* whatever wakes arrive during cleanup, follow-up work goes to another entry, so
\* interrupt waits for the stopped drain alone.
StoppedOnlyEnds ==
  [][\A e \in Entry :
       (stopping[e] /\ phase[e] \in Live /\ phase'[e] # phase[e])
         => phase'[e] = "ended"]_vars

\* interrupt, and every run waiting on the execution it stops, are released once
\* that execution has cleaned up, even if wakes keep coming.  A joined run waits
\* through coalesced follow-ups; only an unending succession of wakes can hold it
\* for ever.
CallersAreReleased ==
  /\ \A c \in Caller, e \in Entry : (Awaits(c, e) /\ stopping[e]) ~> ~Awaits(c, e)
  /\ \A c \in Caller : [](caller[c].at = "joining" =>
       (<>(caller[c].at # "joining")
          \/ []<>(\E e \in Entry : pendingWake[e] /\ phase[e] \in Live)))

\* What callers rely on (SerialExecution).  Work is owed while a fiber has not yet
\* reached its drain or has another wake registered.
OwedWork(k) ==
  LET e == active[k] IN
    IF e = None THEN "nothing"
    ELSE IF phase[e] = "starting" /\ force[e] THEN "forced"
    ELSE IF phase[e] = "starting" \/ pendingWake[e] THEN "followUp"
    ELSE "nothing"

CurrentDrain(k) ==
  LET e == active[k] IN
    IF e = None THEN "none"
    ELSE IF phase[e] \in Draining THEN (IF force[e] THEN "forced" ELSE "followUp")
    ELSE "none"

Serial == INSTANCE SerialExecution
            WITH owed  <- [k \in Key |-> OwedWork(k)],
                 drain <- [k \in Key |-> CurrentDrain(k)]

\* Drains of a key never overlap, a forced drain happens exactly for a run that
\* found the key idle, and owed work is drained unless it is interrupted.
ImplementsSerialExecution == Serial!Spec
===============================================================================
