-------------------------- MODULE SessionRunStateProofs --------------------------
(***************************************************************************)
(* Proofs about SessionRunState for every set of prompts, shells and       *)
(* cancelling calls.                                                       *)
(*                                                                         *)
(* A runner cannot tell its current run from a cancelled one by looking at *)
(* the run: it compares identities.  That this is enough needs to know     *)
(* whose work a runner holds (HeldByItsCaller), that a run behind a shell  *)
(* has not begun (PendingBehindShell), and that only work that was begun   *)
(* is ever cancelled (CancelledWasBegun).                                  *)
(***************************************************************************)
EXTENDS SessionRunState, TLAPS

HoldsWork(r, c) == state[r].run = c \/ state[r].shell = c

ActiveWork == {"pending", "preparing", "working", "ended"}

HeldByItsCaller ==
  \A r \in Starter, c \in Starter : HoldsWork(r, c) => call[c].runner = r

PendingBehindShell ==
  \A r \in Starter :
    state[r].run # None /\ state[r].shell # None => work[state[r].run] = "pending"

BegunByACall ==
  \A c \in Starter : work[c] # "none" => call[c].runner # None /\ call[c].at \notin {"new", "found"}

CancelledWasBegun ==
  /\ \A c \in Starter : Cancelled(c) => work[c] # "none"
  /\ \A k \in Canceller : call[k].at \in {"new", "found"} => call[k].run = None /\ call[k].shell = None
  /\ \A k \in Canceller : call[k].at = "stopping" => call[k].run # None \/ call[k].shell # None

\* The invariant: what runners hold, what their work is doing and what cancels took from
\* them agree.
IInv == /\ TypeOK /\ BusyWithItsWork
        /\ HeldByItsCaller /\ PendingBehindShell /\ BegunByACall /\ CancelledWasBegun

\* A runner holds nothing of a call whose work is not active, and what it holds nobody
\* has cancelled.
LEMMA HeldIsActive ==
  ASSUME IInv, NEW r \in Starter, NEW c \in Starter
  PROVE  /\ HoldsWork(r, c) => call[c].runner = r /\ work[c] \in ActiveWork /\ ~Cancelled(c)
         /\ call[c].runner = r /\ work[c] \in ActiveWork /\ ~Cancelled(c) => HoldsWork(r, c)
  BY CallsAreApart DEF IInv, BusyWithItsWork, HeldByItsCaller, HoldsWork, ActiveWork, Starter

\* The invariant of the next state, from what runners hold there.
LEMMA IInvFromHeld ==
  ASSUME TypeOK', HeldByItsCaller', PendingBehindShell', BegunByACall', CancelledWasBegun',
         \A r \in Starter, c \in Starter :
           HoldsWork(r, c)' => work'[c] \in ActiveWork /\ ~Cancelled(c)',
         \A r \in Starter, c \in Starter :
           call'[c].runner = r /\ work'[c] \in ActiveWork /\ ~Cancelled(c)' => HoldsWork(r, c)'
  PROVE  IInv'
<1>1. BusyWithItsWork'
  <2> SUFFICES ASSUME NEW c \in Starter
               PROVE  (/\ call'[c].runner # None
                       /\ state'[call'[c].runner].run = c \/ state'[call'[c].runner].shell = c)
                        <=> work'[c] \in ActiveWork /\ ~Cancelled(c)'
    BY DEF BusyWithItsWork, ActiveWork
  <2>1. call'[c].runner \in Starter \cup {None}
    BY DEF TypeOK, Starter
  <2>2. work'[c] \in ActiveWork => call'[c].runner # None
    BY DEF BegunByACall, ActiveWork
  <2>3. QED BY <2>1, <2>2 DEF HoldsWork
<1>2. QED BY <1>1 DEF IInv

-------------------------------------------------------------------------------
Standing == {"new", "found", "waiting", "stopping", "awaiting", "checking", "idling",
               "returned", "cut"}

Record == [at     : Standing,
           runner : Starter \cup {None}, run : Prompt \cup {None}, shell : Shell \cup {None}]

\* A call's record is replaced by one that has its runner.
LEMMA CallTyped ==
  ASSUME TypeOK, NEW x \in Starter \cup Canceller, NEW v \in Record,
         v.at \notin {"new", "returned"} => v.runner # None,
         call' = [call EXCEPT ![x] = v]
  PROVE  /\ call' \in [Starter \cup Canceller -> Record]
         /\ \A c \in Starter \cup Canceller :
              call'[c].at \notin {"new", "returned"} => call'[c].runner # None
  BY DEF TypeOK, Record, Standing

\* Type correctness of one step of each kind.
LEMMA TypeStep == IInv /\ [Next]_vars => TypeOK'
<1> SUFFICES ASSUME IInv, [Next]_vars PROVE TypeOK'
  OBVIOUS
<1> USE CallsAreApart DEF Starter
<1>0. TypeOK
  BY DEF IInv
<1>1. ASSUME NEW c \in Starter, FindRunner(c) PROVE TypeOK'
  BY <1>0, <1>1 DEF TypeOK, FindRunner
<1>2. ASSUME NEW p \in Prompt, EnsureRunning(p) PROVE TypeOK'
  <2>1. PICK q \in Prompt : call' = [call EXCEPT ![p].at = "waiting", ![p].run = q]
    BY <1>0, <1>2 DEF TypeOK, EnsureRunning
  <2>2. /\ state' \in [Starter -> [run : Prompt \cup {None}, shell : Shell \cup {None}]]
        /\ work' \in [Starter -> Place]
    BY <1>0, <1>2 DEF TypeOK, EnsureRunning, Place
  <2>3. QED BY <1>0, <1>2, <2>1, <2>2 DEF TypeOK, EnsureRunning
<1>3. ASSUME NEW s \in Shell, StartShell(s) PROVE TypeOK'
  BY <1>0, <1>3 DEF TypeOK, StartShell, Goto, Place
<1>4. ASSUME NEW c \in Starter, Return(c) \/ Disconnect(c) PROVE TypeOK'
  BY <1>0, <1>4 DEF TypeOK, Return, Disconnect, Goto
<1>5. ASSUME NEW c \in Starter, Prepared(c) \/ EndWork(c) \/ FinishRun(c) \/ WorkIdle(c) \/ CompleteRun(c)
      PROVE  TypeOK'
  <2>1. ASSUME NEW w \in Place, work' = [work EXCEPT ![c] = w] PROVE work' \in [Starter -> Place]
    BY <1>0, <2>1 DEF TypeOK
  <2>2. CASE Prepared(c) \/ EndWork(c)
    BY <1>0, <2>1, <2>2 DEF TypeOK, Prepared, EndWork, Place
  <2>3. CASE FinishRun(c)
    BY <1>0, <2>1, <2>3 DEF TypeOK, FinishRun, Released, Idle, Place
  <2>4. CASE WorkIdle(c)
    BY <1>0, <2>1, <2>4 DEF TypeOK, WorkIdle, Place
  <2>5. CASE CompleteRun(c)
    BY <1>0, <2>1, <2>5 DEF TypeOK, CompleteRun, Place
  <2>6. QED BY <1>5, <2>2, <2>3, <2>4, <2>5
<1>6. ASSUME NEW s \in Starter, FinishShell(s) PROVE TypeOK'
  <2> DEFINE r == call[s].runner
  <2>1. state' \in [Starter -> [run : Prompt \cup {None}, shell : Shell \cup {None}]]
    BY <1>0, <1>6 DEF TypeOK, FinishShell, Released, Idle
  <2>2. work' \in [Starter -> Place]
    BY <1>0, <1>6 DEF TypeOK, FinishShell, Place
  <2>3. QED BY <1>0, <1>6, <2>1, <2>2 DEF TypeOK, FinishShell
<1>7. ASSUME NEW k \in Canceller, FindToCancel(k) PROVE TypeOK'
  <2> DEFINE v == [call[k] EXCEPT !.at = IF listed = None THEN "returned" ELSE "found",
                                  !.runner = listed]
  <2>1. v \in Record /\ (v.at \notin {"new", "returned"} => v.runner # None)
    <3>1. call[k] \in Record /\ listed \in Starter \cup {None}
      BY <1>0 DEF TypeOK, Record, Standing
    <3>2. \A at \in Standing : [call[k] EXCEPT !.at = at, !.runner = listed] \in Record
      BY <3>1 DEF Record
    <3>3. CASE listed = None
      BY <3>1, <3>2, <3>3 DEF Record, Standing
    <3>4. CASE listed # None
      BY <3>1, <3>2, <3>4 DEF Record, Standing
    <3>5. QED BY <3>3, <3>4
  <2>2. call' = [call EXCEPT ![k] = v]
    BY <1>7 DEF FindToCancel
  <2> HIDE DEF v
  <2>3. QED BY <1>0, <1>7, <2>1, <2>2, CallTyped DEF TypeOK, FindToCancel, Record, Standing
<1>8. ASSUME NEW k \in Canceller, Cancel(k) PROVE TypeOK'
  <2>1. call[k].runner \in Starter /\ state[call[k].runner] \in [run : Prompt \cup {None}, shell : Shell \cup {None}]
    BY <1>0, <1>8 DEF TypeOK, Cancel
  <2> DEFINE r == call[k].runner
             v == [at |-> IF state[r] = Idle THEN "returned" ELSE "stopping", runner |-> r,
                   run |-> state[r].run, shell |-> state[r].shell]
  <2>2. v \in Record /\ (v.at \notin {"new", "returned"} => v.runner # None)
    BY <1>0, <2>1 DEF TypeOK, Record, Standing
  <2>4. call' = [call EXCEPT ![k] = v]
    BY <1>8 DEF Cancel
  <2>3. state' \in [Starter -> [run : Prompt \cup {None}, shell : Shell \cup {None}]]
    BY <1>0, <1>8 DEF TypeOK, Cancel, Idle
  <2> HIDE DEF v
  <2>5. QED BY <1>0, <1>8, <2>2, <2>3, <2>4, CallTyped DEF TypeOK, Cancel, Record, Standing
<1>9. ASSUME NEW k \in Canceller, \/ StopWork(k) \/ AwaitExit(k) \/ IdleIfCurrent(k)
                                  \/ CancelIdle(k) \/ CutOff(k)
      PROVE  TypeOK'
  <2>1. ASSUME NEW place \in {"awaiting", "checking", "idling", "returned", "cut"},
               call[k].at \notin {"new", "returned"}, Goto(k, place)
        PROVE  /\ call' \in [Starter \cup Canceller -> [
                    at : {"new", "found", "waiting", "stopping", "awaiting", "checking",
                          "idling", "returned", "cut"},
                    runner : Starter \cup {None}, run : Prompt \cup {None}, shell : Shell \cup {None}]]
               /\ \A c \in Starter \cup Canceller :
                    call'[c].at \notin {"new", "returned"} => call'[c].runner # None
    BY <1>0, <2>1 DEF TypeOK, Goto
  <2>2. CASE StopWork(k)
    <3>1. Target(k) \in Starter
      BY <1>0, <2>2 DEF IInv, CancelledWasBegun, TypeOK, StopWork, Target
    <3>2. QED BY <1>0, <2>1, <2>2, <3>1 DEF TypeOK, StopWork
  <2>3. CASE AwaitExit(k)
    BY <1>0, <2>1, <2>3 DEF TypeOK, AwaitExit
  <2>4. CASE IdleIfCurrent(k)
    BY <1>0, <2>1, <2>4 DEF TypeOK, IdleIfCurrent
  <2>5. CASE CancelIdle(k)
    BY <1>0, <2>1, <2>5 DEF TypeOK, CancelIdle
  <2>6. CASE CutOff(k)
    BY <1>0, <2>1, <2>6 DEF TypeOK, CutOff
  <2>7. QED BY <1>9, <2>2, <2>3, <2>4, <2>5, <2>6
<1>10. CASE UNCHANGED vars
  BY <1>0, <1>10 DEF TypeOK, vars
<1>11. QED
  BY <1>1, <1>2, <1>3, <1>4, <1>5, <1>6, <1>7, <1>8, <1>9, <1>10
     DEF Next, Calling, Working, Cancelling

-------------------------------------------------------------------------------
\* Calls and cancels that neither take work from a runner nor hand it any, and work that
\* goes on or that a cancel took away before it ended.
LEMMA Undisturbed ==
  ASSUME IInv, TypeOK', state' = state,
         \A c \in Starter :
           /\ call'[c].runner = call[c].runner \/ work[c] = "none"
           /\ work'[c] = "none" <=> work[c] = "none"
           /\ work'[c] = "pending" <=> work[c] = "pending"
           /\ work'[c] \in ActiveWork => work[c] \in ActiveWork
           /\ \A r \in Starter :
                HoldsWork(r, c) /\ work[c] \in ActiveWork => work'[c] \in ActiveWork
           /\ work'[c] # "none" => call'[c].runner # None /\ call'[c].at \notin {"new", "found"},
         \A k \in Canceller :
           /\ call'[k].run = call[k].run /\ call'[k].shell = call[k].shell
           /\ call'[k].at \in {"new", "found"} => call[k].at \in {"new", "found"}
           /\ call'[k].at = "stopping" => call[k].at = "stopping"
  PROVE  IInv'
<1>1. \A c \in Starter : Cancelled(c)' <=> Cancelled(c)
  BY DEF Cancelled
<1>2. \A r \in Starter, c \in Starter : HoldsWork(r, c)' <=> HoldsWork(r, c)
  BY DEF HoldsWork
<1>3. HeldByItsCaller'
  <2> SUFFICES ASSUME NEW r \in Starter, NEW c \in Starter, HoldsWork(r, c)'
               PROVE  call'[c].runner = r
    BY DEF HeldByItsCaller
  <2>1. call[c].runner = r /\ work[c] # "none"
    BY <1>2, HeldIsActive DEF ActiveWork
  <2>2. QED BY <2>1
<1>4. PendingBehindShell'
  BY DEF IInv, PendingBehindShell, TypeOK, Starter
<1>5. BegunByACall' /\ CancelledWasBegun'
  BY <1>1 DEF IInv, BegunByACall, CancelledWasBegun
<1>6. \A r \in Starter, c \in Starter :
        HoldsWork(r, c)' => work'[c] \in ActiveWork /\ ~Cancelled(c)'
  BY <1>1, <1>2, HeldIsActive
<1>7. \A r \in Starter, c \in Starter :
        call'[c].runner = r /\ work'[c] \in ActiveWork /\ ~Cancelled(c)' => HoldsWork(r, c)'
  BY <1>1, <1>2, HeldIsActive DEF ActiveWork
<1>8. QED BY <1>3, <1>4, <1>5, <1>6, <1>7, IInvFromHeld

\* Work that a runner begins: the caller's own, on a runner that has none of its kind.
LEMMA Started ==
  ASSUME IInv, TypeOK', NEW c \in Starter, NEW r \in Starter,
         call[c].at = "found", call[c].runner = r,
         call'[c].runner = r, call'[c].at = "waiting",
         \A d \in Starter \cup Canceller : d # c => call'[d] = call[d],
         \A d \in Starter : d # c => work'[d] = work[d],
         \A d \in Starter : d # r => state'[d] = state[d],
         \/ /\ c \in Prompt /\ state[r].run = None /\ state'[r].run = c
            /\ state'[r].shell = state[r].shell
            /\ work'[c] = IF state[r].shell = None THEN "working" ELSE "pending"
         \/ /\ c \in Shell /\ state[r] = Idle /\ state'[r].shell = c
            /\ state'[r].run = None /\ work'[c] = "preparing"
  PROVE  IInv'
<1>1. work[c] = "none" /\ ~Cancelled(c) /\ \A d \in Starter : ~HoldsWork(d, c)
  BY HeldIsActive DEF IInv, BegunByACall, CancelledWasBegun, ActiveWork
<1>2. \A d \in Starter : Cancelled(d)' <=> Cancelled(d)
  BY CallsAreApart DEF Cancelled, Starter
<1>3. \A d \in Starter, e \in Starter :
        HoldsWork(d, e)' <=> HoldsWork(d, e) \/ (d = r /\ e = c)
  BY CallsAreApart, <1>1 DEF HoldsWork, Starter, Idle
<1>4. HeldByItsCaller'
  BY <1>1, <1>3 DEF IInv, HeldByItsCaller
<1>5. PendingBehindShell'
  <2> SUFFICES ASSUME NEW d \in Starter, state'[d].run # None, state'[d].shell # None
               PROVE  work'[state'[d].run] = "pending"
    BY DEF PendingBehindShell
  <2>1. CASE d = r
    BY <2>1, CallsAreApart DEF Idle, Starter
  <2>2. CASE d # r
    <3>1. state'[d].run \in Starter /\ HoldsWork(d, state'[d].run)
      BY <2>2 DEF IInv, TypeOK, Starter, HoldsWork
    <3>2. QED BY <1>1, <2>2, <3>1 DEF IInv, PendingBehindShell
  <2>3. QED BY <2>1, <2>2
<1>6. BegunByACall'
  <2>1. call'[c].runner # None
    BY CallsAreApart DEF Starter
  <2>2. QED BY <2>1, CallsAreApart DEF IInv, BegunByACall, Starter
<1>7. CancelledWasBegun'
  <2>1. \A k \in Canceller : call'[k] = call[k]
    BY CallsAreApart DEF Starter
  <2>2. QED BY <1>1, <1>2, <2>1 DEF IInv, CancelledWasBegun
<1>8. \A d \in Starter, e \in Starter :
        HoldsWork(d, e)' => work'[e] \in ActiveWork /\ ~Cancelled(e)'
  BY <1>1, <1>2, <1>3, HeldIsActive DEF ActiveWork
<1>9. \A d \in Starter, e \in Starter :
        call'[e].runner = d /\ work'[e] \in ActiveWork /\ ~Cancelled(e)' => HoldsWork(d, e)'
  BY <1>1, <1>2, <1>3, HeldIsActive
<1>10. QED BY <1>4, <1>5, <1>6, <1>7, <1>8, <1>9, IInvFromHeld

\* A runner lets go of work that ends, and of nothing else.
LEMMA Ended ==
  ASSUME IInv, TypeOK', NEW c \in Starter, NEW r \in Starter,
         HoldsWork(r, c), call' = call,
         work'[c] \in {"idling", "over"},
         \A d \in Starter : d # c /\ work'[d] # work[d] =>
           HoldsWork(r, d) /\ work'[d] = "working" /\ state'[r].shell = None,
         \A d \in Starter : d # r => state'[d] = state[d],
         \A d \in Starter : HoldsWork(r, d)' <=> HoldsWork(r, d) /\ d # c,
         state'[r].run = None \/ state'[r].shell = None
  PROVE  IInv'
<1>1. \A d \in Starter : Cancelled(d)' <=> Cancelled(d)
  BY DEF Cancelled
<1>2. call[c].runner = r /\ work[c] \in ActiveWork /\ ~Cancelled(c)
  BY HeldIsActive
<1>3. \A d \in Starter, e \in Starter : HoldsWork(d, e)' <=> HoldsWork(d, e) /\ e # c
  BY <1>2, HeldIsActive DEF HoldsWork
<1>4. HeldByItsCaller'
  BY <1>3 DEF IInv, HeldByItsCaller
<1>5. PendingBehindShell'
  <2> SUFFICES ASSUME NEW d \in Starter, state'[d].run # None, state'[d].shell # None
               PROVE  work'[state'[d].run] = "pending"
    BY DEF PendingBehindShell
  <2>1. d # r /\ state'[d] = state[d] /\ state[d].run \in Starter
    BY DEF IInv, TypeOK, Starter
  <2>2. HoldsWork(d, state[d].run) /\ ~HoldsWork(r, state[d].run)
    BY <2>1, HeldIsActive DEF HoldsWork
  <2>3. QED BY <2>1, <2>2 DEF IInv, PendingBehindShell
<1>6. \A d \in Starter : work'[d] # work[d] => work[d] # "none" /\ work'[d] # "none"
  BY <1>2, HeldIsActive DEF ActiveWork
<1>7. BegunByACall' /\ CancelledWasBegun'
  BY <1>1, <1>6 DEF IInv, BegunByACall, CancelledWasBegun
<1>8. \A d \in Starter, e \in Starter :
        HoldsWork(d, e)' => work'[e] \in ActiveWork /\ ~Cancelled(e)'
  BY <1>1, <1>3, HeldIsActive DEF ActiveWork
<1>9. \A d \in Starter, e \in Starter :
        call'[e].runner = d /\ work'[e] \in ActiveWork /\ ~Cancelled(e)' => HoldsWork(d, e)'
  BY <1>1, <1>3, HeldIsActive DEF ActiveWork
<1>10. QED BY <1>4, <1>5, <1>7, <1>8, <1>9, IInvFromHeld

\* cancel takes everything from its runner, and is what cancelled it.
LEMMA CancelKeepsIInv ==
  ASSUME IInv, TypeOK', NEW k \in Canceller, Cancel(k)
  PROVE  IInv'
<1> DEFINE r == call[k].runner
<1>1. r \in Starter
  BY DEF IInv, TypeOK, Cancel
<1>2. /\ state'[r] = Idle /\ \A d \in Starter : d # r => state'[d] = state[d]
      /\ work' = work
      /\ \A d \in Starter \cup Canceller : d # k => call'[d] = call[d]
      /\ call'[k].run = state[r].run /\ call'[k].shell = state[r].shell
      /\ call'[k].at = IF state[r] = Idle THEN "returned" ELSE "stopping"
      /\ call[k].run = None /\ call[k].shell = None
  BY <1>1 DEF Cancel, IInv, TypeOK, CancelledWasBegun
<1> HIDE DEF r
<1>3. \A c \in Starter : k # c
  BY CallsAreApart DEF Starter
<1>4. \A c \in Starter : Cancelled(c)' <=> Cancelled(c) \/ HoldsWork(r, c)
  BY <1>2, CallsAreApart DEF Cancelled, HoldsWork, Starter
<1>5. \A d \in Starter, c \in Starter : HoldsWork(d, c)' <=> HoldsWork(d, c) /\ d # r
  BY <1>2, CallsAreApart DEF HoldsWork, Idle, Starter
<1>6. HeldByItsCaller'
  BY <1>2, <1>3, <1>5 DEF IInv, HeldByItsCaller
<1>7. PendingBehindShell'
  BY <1>2 DEF IInv, PendingBehindShell, Idle
<1>8. BegunByACall'
  BY <1>2, <1>3 DEF IInv, BegunByACall
<1>9. CancelledWasBegun'
  <2>1. \A c \in Starter : Cancelled(c)' => work'[c] # "none"
    BY <1>1, <1>2, <1>4, HeldIsActive DEF IInv, CancelledWasBegun, ActiveWork
  <2>2. call'[k].at = "stopping" => call'[k].run # None \/ call'[k].shell # None
    <3>1. state[r] # Idle => state[r].run # None \/ state[r].shell # None
      BY <1>1 DEF IInv, TypeOK, Idle
    <3>2. QED BY <1>2, <3>1
  <2>3. QED BY <1>2, <2>1, <2>2 DEF IInv, CancelledWasBegun
<1>10. \A d \in Starter, c \in Starter :
         HoldsWork(d, c)' => work'[c] \in ActiveWork /\ ~Cancelled(c)'
  BY <1>1, <1>2, <1>4, <1>5, HeldIsActive
<1>11. \A d \in Starter, c \in Starter :
         call'[c].runner = d /\ work'[c] \in ActiveWork /\ ~Cancelled(c)' => HoldsWork(d, c)'
  BY <1>1, <1>2, <1>3, <1>4, <1>5, HeldIsActive
<1>12. QED BY <1>6, <1>7, <1>8, <1>9, <1>10, <1>11, IInvFromHeld

-------------------------------------------------------------------------------
\* Every step keeps the invariant.
LEMMA InvStep == IInv /\ [Next]_vars => IInv'
<1> SUFFICES ASSUME IInv, [Next]_vars PROVE IInv'
  OBVIOUS
<1>a. TypeOK'
  BY TypeStep
<1>b. TypeOK /\ BegunByACall
  BY DEF IInv
<1>c. \A d \in Starter : d \notin Canceller /\ d # None
  BY CallsAreApart DEF Starter
<1>1. ASSUME NEW c \in Starter, FindRunner(c) PROVE IInv'
  <2>1. work[c] = "none" /\ UNCHANGED <<state, work>>
    BY <1>1, <1>b DEF FindRunner, BegunByACall
  <2>2. \A d \in Starter \cup Canceller : d # c => call'[d] = call[d]
    BY <1>1, <1>b DEF FindRunner, TypeOK
  <2>3. QED BY <1>a, <1>b, <1>c, <2>1, <2>2, Undisturbed DEF BegunByACall
<1>2. ASSUME NEW c \in Starter, Return(c) \/ Disconnect(c) PROVE IInv'
  <2>1. Goto(c, "returned") /\ UNCHANGED <<state, work>>
    BY <1>2 DEF Return, Disconnect
  <2>2. \A d \in Starter \cup Canceller :
          /\ d # c => call'[d] = call[d]
          /\ call'[d].runner = call[d].runner /\ call'[d].at \in {call[d].at, "returned"}
    BY <2>1, <1>b DEF Goto, TypeOK
  <2>3. QED BY <1>a, <1>b, <1>c, <2>1, <2>2, Undisturbed DEF BegunByACall
<1>3. ASSUME NEW p \in Prompt, EnsureRunning(p) PROVE IInv'
  <2>1. PICK r \in Starter :
          p \in Starter /\ call[p].runner = r /\ call[p].at = "found" /\ work[p] = "none"
    BY <1>3, <1>b DEF EnsureRunning, TypeOK, BegunByACall, Starter
  <2>2. /\ \A d \in Starter \cup Canceller : d # p => call'[d] = call[d]
        /\ call'[p].runner = r /\ call'[p].at = "waiting"
    BY <1>3, <1>b, <2>1 DEF EnsureRunning, TypeOK
  <2>3. CASE state[r].run # None
    <3>1. UNCHANGED <<state, work>>
      BY <1>3, <2>1, <2>3 DEF EnsureRunning
    <3>2. QED BY <1>a, <1>b, <1>c, <2>1, <2>2, <3>1, Undisturbed DEF BegunByACall
  <2>4. CASE state[r].run = None
    <3>1. /\ state' = [state EXCEPT ![r].run = p]
          /\ work' = [work EXCEPT ![p] = IF state[r].shell = None THEN "working" ELSE "pending"]
      BY <1>3, <2>1, <2>4 DEF EnsureRunning
    <3>2. /\ \A d \in Starter : d # r => state'[d] = state[d]
          /\ state'[r].run = p /\ state'[r].shell = state[r].shell
          /\ \A d \in Starter : d # p => work'[d] = work[d]
          /\ work'[p] = IF state[r].shell = None THEN "working" ELSE "pending"
      BY <1>b, <2>1, <3>1 DEF TypeOK
    <3>3. QED BY <1>a, <2>1, <2>2, <2>4, <3>2, Started
  <2>5. QED BY <2>3, <2>4
<1>4. ASSUME NEW s \in Shell, StartShell(s) PROVE IInv'
  <2>1. PICK r \in Starter :
          s \in Starter /\ call[s].runner = r /\ call[s].at = "found" /\ work[s] = "none"
    BY <1>4, <1>b DEF StartShell, TypeOK, BegunByACall, Starter
  <2>2. CASE state[r] # Idle
    <3>1. Goto(s, "returned") /\ UNCHANGED <<state, work>>
      BY <1>4, <2>1, <2>2 DEF StartShell
    <3>2. \A d \in Starter \cup Canceller :
            /\ d # s => call'[d] = call[d]
            /\ call'[d].runner = call[d].runner
      BY <1>b, <3>1 DEF Goto, TypeOK
    <3>3. QED BY <1>a, <1>b, <1>c, <2>1, <3>1, <3>2, Undisturbed DEF BegunByACall
  <2>3. CASE state[r] = Idle
    <3>1. /\ state' = [state EXCEPT ![r].shell = s]
          /\ work' = [work EXCEPT ![s] = "preparing"]
          /\ call' = [call EXCEPT ![s].at = "waiting", ![s].shell = s]
      BY <1>4, <2>1, <2>3 DEF StartShell
    <3>2. /\ \A d \in Starter \cup Canceller : d # s => call'[d] = call[d]
          /\ call'[s].runner = r /\ call'[s].at = "waiting"
          /\ \A d \in Starter : d # s => work'[d] = work[d]
          /\ work'[s] = "preparing"
      BY <1>b, <2>1, <3>1 DEF TypeOK
    <3>3. /\ \A d \in Starter : d # r => state'[d] = state[d]
          /\ state'[r].shell = s /\ state'[r].run = None
      BY <1>b, <2>1, <2>3, <3>1 DEF TypeOK, Idle
    <3>4. QED BY <1>a, <2>1, <2>3, <3>2, <3>3, Started
  <2>4. QED BY <2>2, <2>3
<1>5. ASSUME NEW c \in Starter, Prepared(c) \/ EndWork(c) \/ WorkIdle(c) \/ CompleteRun(c)
      PROVE  IInv'
  <2>1. UNCHANGED <<state, call>>
    BY <1>5 DEF Prepared, EndWork, WorkIdle, CompleteRun
  <2>2. /\ \A d \in Starter : d # c => work'[d] = work[d]
        /\ \/ work[c] \in ActiveWork /\ work'[c] \in ActiveWork
           \/ work[c] \in {"idling", "completing"} /\ work'[c] \in {"completing", "over"}
        /\ work[c] # "pending" /\ work'[c] # "pending"
    BY <1>5, <1>b DEF Prepared, EndWork, WorkIdle, CompleteRun, TypeOK, ActiveWork
  <2>3. QED BY <1>a, <1>b, <2>1, <2>2, Undisturbed DEF BegunByACall, ActiveWork
<1>6. ASSUME NEW q \in Starter, FinishRun(q) PROVE IInv'
  <2>1. PICK r \in Starter :
          call[q].runner = r /\ work[q] = "ended" /\ q \in Prompt /\ call' = call
    BY <1>6, <1>b, <1>c DEF FinishRun, BegunByACall, TypeOK, Starter
  <2>2. CASE state[r] = [run |-> q, shell |-> None]
    <3>1. /\ state' = [state EXCEPT ![r] = Idle]
          /\ work' = [work EXCEPT ![q] = "idling"]
      BY <1>6, <2>1, <2>2 DEF FinishRun, Released
    <3>2. /\ \A d \in Starter : d # r => state'[d] = state[d]
          /\ state'[r] = Idle
          /\ \A d \in Starter : d # q => work'[d] = work[d]
          /\ work'[q] = "idling"
      BY <1>b, <2>1, <3>1 DEF TypeOK
    <3>3. /\ HoldsWork(r, q) /\ state'[r].run = None
          /\ \A d \in Starter : HoldsWork(r, d)' <=> HoldsWork(r, d) /\ d # q
      BY <1>c, <2>2, <3>2 DEF HoldsWork, Idle
    <3>4. QED BY <1>a, <2>1, <3>2, <3>3, Ended
  <2>3. CASE state[r] # [run |-> q, shell |-> None]
    <3>1. state' = state /\ work' = [work EXCEPT ![q] = "completing"]
      BY <1>6, <2>1, <2>3 DEF FinishRun
    <3>2. ~HoldsWork(r, q)
      <4>1. state[r] \in [run : Prompt \cup {None}, shell : Shell \cup {None}]
        BY <1>b, <2>1 DEF TypeOK
      <4>2. CASE state[r].run = q
        <5>1. state[r].shell # None
          BY <2>3, <4>1, <4>2
        <5>2. work[q] = "pending"
          BY <1>c, <2>1, <4>2, <5>1 DEF IInv, PendingBehindShell
        <5>3. QED BY <2>1, <5>2
      <4>3. CASE state[r].run # q
        BY <1>c, <2>1, <4>1, <4>3, CallsAreApart DEF HoldsWork
      <4>4. QED BY <4>2, <4>3
    <3>3. \A d \in Starter : ~HoldsWork(d, q)
      BY <2>1, <3>2, HeldIsActive
    <3>4. /\ \A d \in Starter : d # q => work'[d] = work[d]
          /\ work'[q] = "completing"
      BY <1>b, <3>1 DEF TypeOK
    <3>5. QED BY <1>a, <1>b, <2>1, <3>1, <3>3, <3>4, Undisturbed DEF BegunByACall, ActiveWork
  <2>4. QED BY <2>2, <2>3
<1>7. ASSUME NEW s \in Starter, FinishShell(s) PROVE IInv'
  <2>1. PICK r \in Starter :
          call[s].runner = r /\ work[s] = "ended" /\ s \in Shell /\ call' = call
    BY <1>7, <1>b, <1>c DEF FinishShell, BegunByACall, TypeOK, Starter
  <2>2. PICK q \in Prompt \cup {None}, sh \in Shell \cup {None} :
          state[r] = [run |-> q, shell |-> sh]
    BY <1>b, <2>1 DEF TypeOK
  <2>3. CASE /\ state[r] = [run |-> None, shell |-> s]
             /\ Released(s) /\ work' = [work EXCEPT ![s] = "idling"]
    <3>1. /\ \A d \in Starter : d # r => state'[d] = state[d]
          /\ state'[r] = Idle
          /\ \A d \in Starter : d # s => work'[d] = work[d]
          /\ work'[s] = "idling"
      BY <1>b, <2>1, <2>3 DEF TypeOK, Released
    <3>2. /\ HoldsWork(r, s) /\ state'[r].run = None
          /\ \A d \in Starter : HoldsWork(r, d)' <=> HoldsWork(r, d) /\ d # s
      BY <1>c, <2>3, <3>1 DEF HoldsWork, Idle
    <3>3. QED BY <1>a, <2>1, <3>1, <3>2, Ended
  <2>4. CASE /\ state[r].shell = s /\ q # None
             /\ state' = [state EXCEPT ![r].shell = None]
             /\ work' = [work EXCEPT ![s] = "over", ![q] = "working"]
    <3>1. q \in Prompt /\ q \in Starter /\ q # s
      BY <2>1, <2>2, <2>4, CallsAreApart DEF Starter
    <3>2. /\ \A d \in Starter : d # r => state'[d] = state[d]
          /\ state'[r].run = q /\ state'[r].shell = None
          /\ \A d \in Starter : d # s /\ d # q => work'[d] = work[d]
          /\ work'[s] = "over" /\ work'[q] = "working"
      BY <1>b, <2>1, <2>2, <2>4, <3>1 DEF TypeOK
    <3>3. /\ HoldsWork(r, s) /\ HoldsWork(r, q)
          /\ \A d \in Starter : HoldsWork(r, d)' <=> HoldsWork(r, d) /\ d # s
      BY <1>c, <2>4, <3>1, <3>2 DEF HoldsWork
    <3>4. QED BY <1>a, <2>1, <3>2, <3>3, Ended
  <2>5. CASE state[r].shell # s /\ work' = [work EXCEPT ![s] = "over"] /\ UNCHANGED state
    <3>1. \A d \in Starter : ~HoldsWork(d, s)
      BY <1>c, <2>1, <2>2, <2>5, HeldIsActive, CallsAreApart DEF HoldsWork
    <3>2. /\ \A d \in Starter : d # s => work'[d] = work[d]
          /\ work'[s] = "over"
      BY <1>b, <2>5 DEF TypeOK
    <3>3. QED BY <1>a, <1>b, <2>1, <2>5, <3>1, <3>2, Undisturbed DEF BegunByACall, ActiveWork
  <2>6. QED BY <1>7, <2>1, <2>2, <2>3, <2>4, <2>5 DEF FinishShell
<1>8. ASSUME NEW k \in Canceller, FindToCancel(k) PROVE IInv'
  <2>1. /\ \A d \in Starter \cup Canceller : d # k => call'[d] = call[d]
        /\ call'[k].run = call[k].run /\ call'[k].shell = call[k].shell
        /\ call[k].at = "new" /\ call'[k].at \in {"returned", "found"}
        /\ UNCHANGED <<state, work>>
    BY <1>8, <1>b DEF FindToCancel, TypeOK
  <2>2. QED BY <1>a, <1>b, <1>c, <2>1, Undisturbed DEF BegunByACall
<1>9. ASSUME NEW k \in Canceller, \/ StopWork(k) \/ AwaitExit(k) \/ IdleIfCurrent(k)
                                  \/ CancelIdle(k) \/ CutOff(k)
      PROVE  IInv'
  <2>1. PICK place \in {"awaiting", "checking", "idling", "returned", "cut"} :
          Goto(k, place) /\ UNCHANGED <<state, work>>
    BY <1>9 DEF StopWork, AwaitExit, IdleIfCurrent, CancelIdle, CutOff
  <2>2. /\ \A d \in Starter \cup Canceller : d # k => call'[d] = call[d]
        /\ call'[k].run = call[k].run /\ call'[k].shell = call[k].shell
        /\ call'[k].at = place
    BY <2>1, <1>b DEF Goto, TypeOK
  <2>3. QED BY <1>a, <1>b, <1>c, <2>1, <2>2, Undisturbed DEF BegunByACall
<1>10. CASE UNCHANGED vars
  BY <1>a, <1>b, <1>10, Undisturbed DEF vars, BegunByACall
<1>11. QED
  BY <1>1, <1>2, <1>3, <1>4, <1>5, <1>6, <1>7, <1>8, <1>9, <1>10, <1>a, CancelKeepsIInv
     DEF Next, Calling, Working, Cancelling

\* The invariant holds in every reachable state.
THEOREM InvHolds == Safe => []IInv
<1>1. Init => IInv
  BY CallsAreApart DEF Init, IInv, TypeOK, BusyWithItsWork, HeldByItsCaller, PendingBehindShell,
     BegunByACall, CancelledWasBegun, Cancelled, HoldsWork, Idle, Place, Starter
<1>2. QED BY <1>1, InvStep, PTL DEF Safe

\* Every reachable state of runners, calls and work is well typed, and a call that goes on
\* has its runner.
THEOREM TypeCorrect == Safe => []TypeOK
<1>1. IInv => TypeOK BY DEF IInv
<1>2. QED BY <1>1, InvHolds, PTL

\* Whoever prompts, runs a shell or cancels, and whenever: a runner is busy exactly with
\* that work of its own which nobody cancelled.
THEOREM RunnersKnowTheirWork == Safe => []BusyWithItsWork
<1>1. IInv => BusyWithItsWork BY DEF IInv
<1>2. QED BY <1>1, InvHolds, PTL

\* Work that goes on, which nobody cancelled, on one runner.
GoesOn(r, c) ==
  call[c].runner = r /\ work[c] \in {"preparing", "working", "ended"} /\ ~Cancelled(c)

\* Two loops of one runner never go on at once, nor a loop and a shell, except for what a
\* cancel has told to stop: the runner's part in "one loop per Session".
THEOREM OneAtATime ==
  Safe => [](\A r \in Starter, c, d \in Starter : GoesOn(r, c) /\ GoesOn(r, d) => c = d)
<1>1. ASSUME IInv, NEW r \in Starter, NEW c \in Starter, NEW d \in Starter,
             GoesOn(r, c), GoesOn(r, d)
      PROVE  c = d
  <2>1. HoldsWork(r, c) /\ HoldsWork(r, d)
    BY <1>1, HeldIsActive DEF GoesOn, ActiveWork
  <2>2. ~(state[r].run # None /\ state[r].shell # None /\ state[r].run \in {c, d})
    BY <1>1 DEF IInv, PendingBehindShell, GoesOn
  <2>3. c # None /\ d # None
    BY <1>1, CallsAreApart DEF Starter
  <2>4. QED BY <2>1, <2>2, <2>3 DEF HoldsWork
<1>2. IInv => \A r \in Starter, c, d \in Starter : GoesOn(r, c) /\ GoesOn(r, d) => c = d
  BY <1>1
<1>3. QED BY <1>2, InvHolds, PTL
================================================================================
