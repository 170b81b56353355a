------------------------- MODULE RunCoordinatorProofs -------------------------
(***************************************************************************)
(* Proofs about RunCoordinator for every set of keys, callers and entries. *)
(*                                                                         *)
(* The inductive invariant is the conjunction of the facts that keep the   *)
(* map, the fibers and the waiters in step with each other: neither of     *)
(* them is inductive alone.  A hand-over keeps OneExecutionPerKey only     *)
(* because the entry that ends was the one in the map; an entry identity   *)
(* is free for reuse only because no waiter is left on an ended entry.     *)
(***************************************************************************)
EXTENDS RunCoordinator, TLAPS

\* Type correctness of one step of each kind.
LEMMA TypeStep == TypeOK /\ [Next]_vars => TypeOK'
<1> SUFFICES ASSUME TypeOK, [Next]_vars PROVE TypeOK'
  OBVIOUS
<1> USE NoneIsNoEntry DEF TypeOK, Live, Draining, Exit, Returned, Awaiting, Again
<1>1. ASSUME NEW k \in Key, NEW s \in Entry, NEW f \in BOOLEAN, NEW over,
             StartNew(k, s, f, over)
      PROVE  /\ active' \in [Key -> Entry \cup {None}]
             /\ key' \in [Entry -> Key]
             /\ force' \in [Entry -> BOOLEAN]
             /\ pendingWake' \in [Entry -> BOOLEAN]
             /\ stopping' \in [Entry -> BOOLEAN]
             /\ phase' \in [Entry -> Live \cup {"ended"}]
  BY <1>1 DEF StartNew
<1>2. ASSUME NEW e \in Entry, NEW exit \in Exit, Complete(e, exit)
      PROVE  caller' \in [Caller -> Returned \cup Awaiting \cup Again]
  <2>1. ASSUME NEW c \in Caller, Awaits(c, e)
        PROVE  AfterDone(caller[c], exit) \in Returned \cup Again
    BY <2>1 DEF Awaits, AfterDone
  <2>2. QED
    BY <1>2, <2>1 DEF Complete
<1>3. ASSUME NEW c \in Caller, NEW k \in Key, EnterRun(c, k) PROVE TypeOK'
  <2>1. CASE active[k] # None
    <3> DEFINE at == IF stopping[active[k]] THEN "restarting" ELSE "joining"
    <3>1. [at |-> at, entry |-> active[k]] \in Awaiting
      BY <2>1
    <3>2. /\ caller' = [caller EXCEPT ![c] = [at |-> at, entry |-> active[k]]]
          /\ UNCHANGED <<active, entryVars>>
      BY <1>3, <2>1 DEF EnterRun
    <3> HIDE DEF at
    <3>3. QED BY <3>1, <3>2 DEF entryVars
  <2>2. CASE active[k] = None
    <3>1. PICK e \in Entry :
            /\ StartNew(k, e, TRUE, {})
            /\ caller' = [caller EXCEPT ![c] = [at |-> "joining", entry |-> e]]
      BY <1>3, <2>2 DEF EnterRun
    <3>2. [at |-> "joining", entry |-> e] \in Awaiting
      OBVIOUS
    <3>3. QED BY <1>1, <3>1, <3>2
  <2>3. QED BY <2>1, <2>2
<1>4. ASSUME NEW k \in Key, Wake(k) PROVE TypeOK'
  BY <1>1, <1>4 DEF Wake
<1>5. ASSUME NEW k \in Key, NEW c \in Caller, Interrupt(c, k) PROVE TypeOK'
  BY <1>5 DEF Interrupt
<1>6. ASSUME NEW e \in Entry, BeginDrain(e) PROVE TypeOK'
  BY <1>6 DEF BeginDrain
<1>7. ASSUME NEW e \in Entry, NEW exit \in Exit, Settle(e, exit) PROVE TypeOK'
  <2>1. CASE Restart(e)
    BY <2>1 DEF Restart
  <2>2. CASE HandOver(e, exit)
    BY <2>2, <1>1, <1>2 DEF HandOver
  <2>3. CASE Release(e, exit)
    BY <2>3, <1>2 DEF Release
  <2>4. QED BY <1>7, <2>1, <2>2, <2>3 DEF Settle
<1>8. ASSUME NEW c \in Caller, LeaveWait(c) PROVE TypeOK'
  BY <1>8 DEF LeaveWait, Return, entryVars
<1>9. ASSUME NEW c \in Caller, RunAgain(c) PROVE TypeOK'
  <2>1. caller[c].key \in Key
    BY <1>9 DEF RunAgain
  <2>2. QED BY <1>3, <1>9, <2>1 DEF RunAgain
<1>10. CASE UNCHANGED vars
  BY <1>10 DEF vars
<1>11. QED
  BY <1>3, <1>4, <1>5, <1>6, <1>7, <1>8, <1>9, <1>10
     DEF Next, Run, EndDrain, Abort

\* The maps of the model always hold what their comments say.
THEOREM TypeCorrect == Safe => []TypeOK
<1>1. Init => TypeOK
  BY DEF Init, TypeOK, Live, Returned
<1>2. QED
  BY <1>1, TypeStep, PTL DEF Safe

-------------------------------------------------------------------------------
\* The inductive invariant: one execution of a key at a time, registered as the active one,
\* with somebody left to answer every waiter.
IInv == TypeOK /\ OneExecutionPerKey /\ NoAbandonedWaiter

\* The invariants in terms of single entries, as the proofs use them.
LEMMA IInvFacts ==
  ASSUME IInv
  PROVE  /\ \A e \in Entry : phase[e] \in Live => active[key[e]] = e
         /\ \A k \in Key : active[k] # None =>
              /\ active[k] \in Entry
              /\ key[active[k]] = k
              /\ phase[active[k]] \in Live
         /\ \A c \in Caller, e \in Entry : Awaits(c, e) => phase[e] \in Live
  BY DEF IInv, TypeOK, OneExecutionPerKey, NoAbandonedWaiter, LiveOn

\* Conversely, these facts about the next state give the invariant.
LEMMA IInvFromFacts ==
  ASSUME TypeOK',
         \A e \in Entry : phase'[e] \in Live => active'[key'[e]] = e,
         \A k \in Key : active'[k] # None =>
           active'[k] \in Entry /\ key'[active'[k]] = k /\ phase'[active'[k]] \in Live,
         \A c \in Caller, e \in Entry : Awaits(c, e)' => phase'[e] \in Live
  PROVE  IInv'
<1>1. ASSUME NEW k \in Key PROVE LiveOn(k)' = {active'[k]} \ {None}
  <2>1. LiveOn(k)' \subseteq {active'[k]} \ {None}
    BY NoneIsNoEntry DEF LiveOn
  <2>2. {active'[k]} \ {None} \subseteq LiveOn(k)'
    BY DEF LiveOn
  <2>3. QED BY <2>1, <2>2
<1>2. NoAbandonedWaiter'
  BY DEF NoAbandonedWaiter, LiveOn, TypeOK
<1>3. QED BY <1>1, <1>2 DEF IInv, OneExecutionPerKey

\* The new entry s takes over k, and the one it replaces, if any, has ended.
TakesOver(k, s) ==
  /\ phase[s] = "ended"
  /\ active' = [active EXCEPT ![k] = s]
  /\ key' = [key EXCEPT ![s] = k]
  /\ \A e \in Entry : phase'[e] = IF e = s THEN "starting"
                                   ELSE IF e = active[k] THEN "ended" ELSE phase[e]

\* Whoever takes a key over is its only live entry: what run, wake and settle rely on when
\* they make a new entry.
LEMMA StartNewOwns ==
  ASSUME IInv, NEW k \in Key, NEW s \in Entry, TakesOver(k, s)
  PROVE  /\ \A e \in Entry : phase'[e] \in Live => active'[key'[e]] = e
         /\ \A j \in Key : active'[j] # None =>
              active'[j] \in Entry /\ key'[active'[j]] = j /\ phase'[active'[j]] \in Live
         /\ phase'[s] \in Live
<1> USE DEF TakesOver
<1>1. s # active[k] /\ phase'[s] \in Live
  BY IInvFacts, NoneIsNoEntry DEF Live
<1>2. ASSUME NEW e \in Entry, phase'[e] \in Live PROVE active'[key'[e]] = e
  <2>1. CASE e = s
    BY <2>1 DEF IInv, TypeOK
  <2>2. CASE e # s
    <3>1. e # active[k] /\ phase[e] \in Live
      BY <1>2, <2>2 DEF Live
    <3>2. active[key[e]] = e /\ key[e] # k
      BY <3>1, IInvFacts
    <3>3. QED BY <2>2, <3>2 DEF IInv, TypeOK
  <2>3. QED BY <2>1, <2>2
<1>3. ASSUME NEW j \in Key, active'[j] # None
      PROVE  active'[j] \in Entry /\ key'[active'[j]] = j /\ phase'[active'[j]] \in Live
  <2>1. CASE j = k
    BY <1>1, <2>1 DEF IInv, TypeOK
  <2>2. CASE j # k
    <3>1. active'[j] = active[j] /\ active[j] # None
      BY <1>3, <2>2 DEF IInv, TypeOK
    <3>2. active[j] \in Entry /\ key[active[j]] = j /\ phase[active[j]] \in Live
      BY <3>1, IInvFacts
    <3>3. active[j] # s /\ active[j] # active[k]
      BY <2>2, <3>2, IInvFacts, NoneIsNoEntry DEF Live
    <3>4. QED BY <3>1, <3>2, <3>3 DEF IInv, TypeOK
  <2>3. QED BY <2>1, <2>2
<1>4. QED BY <1>1, <1>2, <1>3

\* What a completed Deferred leaves suspended: nobody on the entry that ended.
LEMMA CompleteReleases ==
  ASSUME NEW e \in Entry, NEW exit \in Exit, Complete(e, exit)
  PROVE  /\ \A c \in Caller : ~Awaits(c, e)'
         /\ \A c \in Caller, d \in Entry : Awaits(c, d)' => Awaits(c, d)
<1>1. ASSUME NEW w PROVE AfterDone(w, exit).at \in {"returned", "rerunning"}
  BY DEF AfterDone
<1>2. QED BY <1>1 DEF Complete, Awaits

\* run keeps the invariant: it waits for the active entry, or for the one it starts.
LEMMA EnterRunKeepsIInv ==
  ASSUME IInv, TypeOK', NEW c \in Caller, NEW k \in Key, EnterRun(c, k)
  PROVE  IInv'
<1>1. CASE active[k] # None
  <2>1. /\ UNCHANGED <<active, key, phase>>
        /\ \E at \in {"joining", "restarting"} :
             caller' = [caller EXCEPT ![c] = [at |-> at, entry |-> active[k]]]
    BY <1>1 DEF EnterRun, entryVars
  <2>2. \A d \in Caller, e \in Entry : Awaits(d, e)' => Awaits(d, e) \/ e = active[k]
    BY <2>1 DEF IInv, TypeOK, Awaits
  <2>3. QED BY <1>1, <2>1, <2>2, IInvFacts, IInvFromFacts
<1>2. CASE active[k] = None
  <2>1. PICK s \in Entry :
          /\ StartNew(k, s, TRUE, {})
          /\ caller' = [caller EXCEPT ![c] = [at |-> "joining", entry |-> s]]
    BY <1>2 DEF EnterRun
  <2>2. \A d \in Caller, e \in Entry : Awaits(d, e)' => Awaits(d, e) \/ e = s
    BY <2>1 DEF IInv, TypeOK, Awaits
  <2>3. TakesOver(k, s)
    BY <1>2, <2>1, NoneIsNoEntry DEF StartNew, Unreachable, TakesOver
  <2>4. /\ \A e \in Entry : phase'[e] \in Live => active'[key'[e]] = e
        /\ \A j \in Key : active'[j] # None =>
             active'[j] \in Entry /\ key'[active'[j]] = j /\ phase'[active'[j]] \in Live
        /\ phase'[s] \in Live
    BY <2>3, StartNewOwns
  <2>5. \A d \in Caller, e \in Entry : Awaits(d, e)' => phase'[e] \in Live
    BY <1>2, <2>2, <2>3, <2>4, IInvFacts, NoneIsNoEntry DEF TakesOver
  <2>6. QED BY <2>4, <2>5, IInvFromFacts
<1>3. QED BY <1>1, <1>2

\* settle keeps the invariant: the entry runs again, hands its key over, or releases it,
\* and in the last two cases answers its waiters.
LEMMA SettleKeepsIInv ==
  ASSUME IInv, TypeOK', NEW e \in Entry, NEW exit \in Exit,
         phase[e] \in Live, Settle(e, exit)
  PROVE  IInv'
<1>1. key[e] \in Key /\ active[key[e]] = e /\ e # None
  BY IInvFacts, NoneIsNoEntry DEF IInv, TypeOK
<1>2. CASE Restart(e)
  <2>1. /\ UNCHANGED <<active, key>>
        /\ \A d \in Entry : phase'[d] \in Live <=> phase[d] \in Live
    BY <1>2 DEF Restart, Live, IInv, TypeOK
  <2>2. \A c \in Caller, d \in Entry : Awaits(c, d)' => Awaits(c, d)
    BY <1>2 DEF Restart, Awaits
  <2>3. QED BY <2>1, <2>2, IInvFacts, IInvFromFacts
<1>3. CASE HandOver(e, exit)
  <2>1. PICK s \in Entry : StartNew(key[e], s, FALSE, {e})
    BY <1>3 DEF HandOver
  <2>2. Complete(e, exit)
    BY <1>3 DEF HandOver
  <2>3. TakesOver(key[e], s)
    BY <1>1, <2>1 DEF StartNew, Unreachable, TakesOver
  <2>4. /\ \A d \in Entry : phase'[d] \in Live => active'[key'[d]] = d
        /\ \A j \in Key : active'[j] # None =>
             active'[j] \in Entry /\ key'[active'[j]] = j /\ phase'[active'[j]] \in Live
        /\ phase'[s] \in Live
    BY <1>1, <2>3, StartNewOwns
  <2>5. \A c \in Caller, d \in Entry : Awaits(c, d)' => phase'[d] \in Live
    BY <1>1, <2>2, <2>3, <2>4, CompleteReleases, IInvFacts DEF TakesOver
  <2>6. QED BY <2>4, <2>5, IInvFromFacts
<1>4. CASE Release(e, exit)
  <2>1. /\ active' = [active EXCEPT ![key[e]] = None]
        /\ phase' = [phase EXCEPT ![e] = "ended"]
        /\ key' = key
        /\ Complete(e, exit)
    BY <1>4 DEF Release
  <2>2. \A d \in Entry : phase'[d] \in Live => d # e /\ phase[d] \in Live
    BY <2>1 DEF Live, IInv, TypeOK
  <2>3. \A d \in Entry : phase'[d] \in Live => active'[key'[d]] = d
    <3> SUFFICES ASSUME NEW d \in Entry, phase'[d] \in Live PROVE active'[key'[d]] = d
      OBVIOUS
    <3>1. active[key[d]] = d /\ d # e
      BY <2>2, IInvFacts
    <3>2. key[d] # key[e] /\ key[d] \in Key
      BY <1>1, <3>1 DEF IInv, TypeOK
    <3>3. QED BY <2>1, <3>1, <3>2 DEF IInv, TypeOK
  <2>4. \A j \in Key : active'[j] # None => j # key[e] /\ active'[j] = active[j]
    BY <1>1, <2>1 DEF IInv, TypeOK
  <2>5. \A j \in Key : active'[j] # None =>
          active'[j] \in Entry /\ key'[active'[j]] = j /\ phase'[active'[j]] \in Live
    BY <1>1, <2>1, <2>4, IInvFacts DEF IInv, TypeOK
  <2>6. \A c \in Caller, d \in Entry : Awaits(c, d)' => phase'[d] \in Live
    BY <2>1, CompleteReleases, IInvFacts DEF IInv, TypeOK
  <2>7. QED BY <2>3, <2>5, <2>6, IInvFromFacts
<1>5. QED BY <1>2, <1>3, <1>4 DEF Settle

\* Every step of the coordinator keeps the inductive invariant.
LEMMA InvStep == IInv /\ [Next]_vars => IInv'
<1> SUFFICES ASSUME IInv, [Next]_vars PROVE IInv'
  OBVIOUS
<1>0. TypeOK'
  BY TypeStep DEF IInv
<1>1. ASSUME NEW k \in Key, Wake(k) PROVE IInv'
  <2>1. CASE active[k] # None
    BY <1>0, <1>1, <2>1, IInvFacts, IInvFromFacts DEF Wake, Awaits
  <2>2. CASE active[k] = None
    <3>1. PICK s \in Entry : StartNew(k, s, FALSE, {})
      BY <1>1, <2>2 DEF Wake
    <3>2. caller' = caller
      BY <1>1, <2>2 DEF Wake
    <3>3. \A c \in Caller, e \in Entry : Awaits(c, e)' => phase[e] \in Live
      BY <3>2, IInvFacts DEF Awaits
    <3>4. TakesOver(k, s)
      BY <2>2, <3>1, NoneIsNoEntry DEF StartNew, Unreachable, TakesOver
    <3>5. /\ \A e \in Entry : phase'[e] \in Live => active'[key'[e]] = e
          /\ \A j \in Key : active'[j] # None =>
               active'[j] \in Entry /\ key'[active'[j]] = j /\ phase'[active'[j]] \in Live
          /\ phase'[s] \in Live
      BY <3>4, StartNewOwns
    <3>6. \A c \in Caller, e \in Entry : Awaits(c, e)' => phase'[e] \in Live
      BY <2>2, <3>3, <3>4, <3>5, NoneIsNoEntry DEF TakesOver
    <3>7. QED BY <1>0, <3>5, <3>6, IInvFromFacts
  <2>3. QED BY <2>1, <2>2
<1>2. ASSUME NEW k \in Key, NEW c \in Caller, Interrupt(c, k) PROVE IInv'
  <2>1. /\ active[k] # None
        /\ UNCHANGED <<active, key>>
        /\ phase' = [phase EXCEPT ![active[k]] =
             IF phase[active[k]] \in Draining THEN "cleanup" ELSE "aborting"]
        /\ caller' = [caller EXCEPT ![c] = [at |-> "interrupting", entry |-> active[k]]]
    BY <1>2 DEF Interrupt
  <2>2. \A e \in Entry : phase'[e] \in Live <=> phase[e] \in Live
    BY <2>1, IInvFacts DEF Live, IInv, TypeOK
  <2>3. \A d \in Caller, e \in Entry : Awaits(d, e)' => Awaits(d, e) \/ e = active[k]
    BY <2>1 DEF IInv, TypeOK, Awaits
  <2>4. QED BY <1>0, <2>1, <2>2, <2>3, IInvFacts, IInvFromFacts
<1>3. ASSUME NEW e \in Entry, BeginDrain(e) PROVE IInv'
  <2>1. \A d \in Entry : phase'[d] \in Live <=> phase[d] \in Live
    BY <1>3 DEF BeginDrain, Live, IInv, TypeOK
  <2>2. QED BY <1>0, <1>3, <2>1, IInvFacts, IInvFromFacts DEF BeginDrain, Awaits
<1>4. ASSUME NEW c \in Caller, LeaveWait(c) PROVE IInv'
  <2>1. \A d \in Caller, e \in Entry : Awaits(d, e)' => Awaits(d, e)
    BY <1>4 DEF LeaveWait, Return, Awaits, IInv, TypeOK
  <2>2. QED BY <1>0, <1>4, <2>1, IInvFacts, IInvFromFacts DEF LeaveWait, entryVars
<1>5. ASSUME NEW c \in Caller, RunAgain(c) PROVE IInv'
  <2>1. caller[c].key \in Key
    BY <1>5 DEF RunAgain, IInv, TypeOK, Returned, Awaiting, Again
  <2>2. QED BY <1>0, <1>5, <2>1, EnterRunKeepsIInv DEF RunAgain
<1>6. ASSUME NEW e \in Entry, Abort(e) PROVE IInv'
  BY <1>0, <1>6, SettleKeepsIInv DEF Abort, Live, Exit
<1>7. ASSUME NEW e \in Entry, NEW exit \in Exit, EndDrain(e, exit) PROVE IInv'
  BY <1>0, <1>7, SettleKeepsIInv DEF EndDrain, Live, Draining
<1>8. ASSUME NEW c \in Caller, NEW k \in Key, Run(c, k) PROVE IInv'
  BY <1>0, <1>8, EnterRunKeepsIInv DEF Run
<1>9. CASE UNCHANGED vars
  BY <1>0, <1>9, IInvFacts, IInvFromFacts DEF vars, Awaits
<1>10. QED
  BY <1>1, <1>2, <1>3, <1>4, <1>5, <1>6, <1>7, <1>8, <1>9 DEF Next

\* The inductive invariant holds in every reachable state.
THEOREM InvCorrect == Safe => []IInv
<1>1. Init => IInv
  BY NoneIsNoEntry DEF Init, IInv, TypeOK, Live, Returned, OneExecutionPerKey,
     NoAbandonedWaiter, LiveOn, Awaits
<1>2. QED BY <1>1, InvStep, PTL DEF Safe

\* However many sessions, callers and wakes there are, executions of one session
\* never overlap, and an entry in the map always has a fiber left to settle it.
THEOREM Serialized == Safe => []OneExecutionPerKey
<1>1. IInv => OneExecutionPerKey BY DEF IInv
<1>2. QED BY <1>1, InvCorrect, PTL

\* Whoever waits on an entry waits on one whose fiber will still settle.
THEOREM NobodyAbandoned == Safe => []NoAbandonedWaiter
<1>1. IInv => NoAbandonedWaiter BY DEF IInv
<1>2. QED BY <1>1, InvCorrect, PTL

-------------------------------------------------------------------------------
(* RunCoordinator implements the safety part of SerialExecution.              *)

\* What one step may do to the owed work and the drain of key k.
KeyStep(k) ==
  \/ OwedWork(k)' = OwedWork(k) /\ CurrentDrain(k)' = CurrentDrain(k)
  \/ /\ OwedWork(k) = "nothing" /\ CurrentDrain(k)' = CurrentDrain(k)
     /\ \/ OwedWork(k)' = "followUp"
        \/ OwedWork(k)' = "forced" /\ CurrentDrain(k) = "none"
  \/ /\ OwedWork(k) # "nothing" /\ CurrentDrain(k) = "none"
     /\ CurrentDrain(k)' = OwedWork(k)
     /\ OwedWork(k)' \in {"nothing", "followUp"}
  \/ /\ CurrentDrain(k) # "none" /\ CurrentDrain(k)' = "none"
     /\ OwedWork(k)' = OwedWork(k)
  \/ /\ OwedWork(k) # "nothing" /\ OwedWork(k)' = "nothing"
     /\ CurrentDrain(k)' = CurrentDrain(k)

\* A step leaves a key alone that keeps its entry, and the entry its state.
KeyKept(j) ==
  /\ active'[j] = active[j]
  /\ active[j] # None =>
       /\ phase'[active[j]] = phase[active[j]]
       /\ force'[active[j]] = force[active[j]]
       /\ pendingWake'[active[j]] = pendingWake[active[j]]

\* A key that is kept looks the same to SerialExecution.
LEMMA KeyKeptStutters ==
  ASSUME NEW j \in Key, KeyKept(j)
  PROVE  OwedWork(j)' = OwedWork(j) /\ CurrentDrain(j)' = CurrentDrain(j)
  BY DEF KeyKept, OwedWork, CurrentDrain

\* Keys are independent: a step that is one of the abstract steps for one key, and leaves
\* the others alone, is a step of SerialExecution or a stutter.
LEMMA OneKeyStep ==
  ASSUME NEW k \in Key, KeyStep(k), \A j \in Key \ {k} : KeyKept(j)
  PROVE  [Serial!Next]_(Serial!vars)
<1> DEFINE O == [j \in Key |-> OwedWork(j)]
           D == [j \in Key |-> CurrentDrain(j)]
<1>1. \A j \in Key \ {k} : O'[j] = O[j] /\ D'[j] = D[j]
  BY KeyKeptStutters
<1>2. /\ O[k] = OwedWork(k) /\ O'[k] = OwedWork(k)'
      /\ D[k] = CurrentDrain(k) /\ D'[k] = CurrentDrain(k)'
  OBVIOUS
<1>3. /\ O' = [O EXCEPT ![k] = OwedWork(k)'] /\ D' = [D EXCEPT ![k] = CurrentDrain(k)']
      /\ OwedWork(k)' = OwedWork(k) => O' = O
      /\ CurrentDrain(k)' = CurrentDrain(k) => D' = D
  BY <1>1, <1>2
<1> HIDE DEF O, D
<1>4. (O' = O /\ D' = D) \/ Serial!Wake(k) \/ Serial!Resume(k) \/ Serial!Begin(k)
        \/ Serial!End(k) \/ Serial!Interrupt(k)
  BY <1>2, <1>3 DEF KeyStep, Serial!Wake, Serial!Resume, Serial!Begin, Serial!End,
     Serial!Interrupt, O, D
<1>5. QED BY <1>4 DEF Serial!Next, Serial!vars, O, D

\* The first entry of an idle key makes work owed: a wake's or a run's.
LEMMA StartNewSimulates ==
  ASSUME IInv, NEW k \in Key, active[k] = None,
         NEW s \in Entry, NEW f \in BOOLEAN, StartNew(k, s, f, {})
  PROVE  [Serial!Next]_(Serial!vars)
<1>1. /\ s # None /\ phase[s] = "ended" /\ active'[k] = s
      /\ phase'[s] = "starting" /\ force'[s] = f /\ pendingWake'[s] = FALSE
  BY NoneIsNoEntry DEF StartNew, Unreachable, IInv, TypeOK
<1>2. KeyStep(k)
  BY <1>1 DEF KeyStep, OwedWork, CurrentDrain, Draining
<1>3. ASSUME NEW j \in Key \ {k} PROVE KeyKept(j)
  <2>1. active[j] # None => active[j] \in Entry /\ active[j] # s
    BY <1>1, IInvFacts DEF Live
  <2>2. QED BY <2>1 DEF StartNew, KeyKept, IInv, TypeOK
<1>4. QED BY <1>2, <1>3, OneKeyStep

\* run of an idle key makes work owed; joining leaves the abstract state alone.
LEMMA EnterRunSimulates ==
  ASSUME IInv, NEW c \in Caller, NEW k \in Key, EnterRun(c, k)
  PROVE  [Serial!Next]_(Serial!vars)
<1>1. CASE active[k] # None
  <2>1. \A j \in Key : KeyKept(j)
    BY <1>1 DEF EnterRun, KeyKept, entryVars
  <2>2. KeyStep(k)
    BY <2>1, KeyKeptStutters DEF KeyStep
  <2>3. QED BY <2>1, <2>2, OneKeyStep
<1>2. CASE active[k] = None
  BY <1>2, StartNewSimulates DEF EnterRun
<1>3. QED BY <1>1, <1>2

\* settle ends the drain; a wake that came during it stays owed.
LEMMA SettleSimulates ==
  ASSUME IInv, NEW e \in Entry, NEW exit \in Exit, Settle(e, exit),
         phase[e] \in {"draining", "aborting", "cleanup"},
         phase[e] = "aborting" => exit = "interrupt"
  PROVE  [Serial!Next]_(Serial!vars)
<1>0. PICK k \in Key : k = key[e]
  BY DEF IInv, TypeOK
<1>1. /\ key[e] = k /\ active[k] = e /\ e # None
      /\ \A j \in Key \ {k} : active[j] # e
  BY <1>0, IInvFacts, NoneIsNoEntry DEF IInv, TypeOK, Live
<1>2. /\ OwedWork(k) = IF pendingWake[e] THEN "followUp" ELSE "nothing"
      /\ CurrentDrain(k) = "none" <=> phase[e] = "aborting"
  BY <1>1 DEF OwedWork, CurrentDrain, Draining
<1>3. CASE Restart(e) /\ exit = "success" /\ pendingWake[e]
  <2>1. OwedWork(k)' = "followUp" /\ CurrentDrain(k)' = "none"
    BY <1>1, <1>3 DEF Restart, OwedWork, CurrentDrain, Draining, IInv, TypeOK
  <2>2. KeyStep(k)
    BY <1>2, <1>3, <2>1 DEF KeyStep
  <2>3. \A j \in Key \ {k} : KeyKept(j)
    BY <1>1, <1>3 DEF Restart, KeyKept, IInv, TypeOK
  <2>4. QED BY <1>1, <2>2, <2>3, OneKeyStep
<1>4. CASE HandOver(e, exit) /\ pendingWake[e]
  <2>1. PICK s \in Entry : StartNew(k, s, FALSE, {e})
    BY <1>1, <1>4 DEF HandOver
  <2>2. /\ s # None /\ phase[s] = "ended" /\ active'[k] = s
        /\ phase'[s] = "starting" /\ ~force'[s]
    BY <1>1, <2>1, NoneIsNoEntry DEF StartNew, Unreachable, IInv, TypeOK
  <2>3. OwedWork(k)' = "followUp" /\ CurrentDrain(k)' = "none"
    BY <2>2 DEF OwedWork, CurrentDrain, Draining
  <2>4. KeyStep(k)
    BY <1>2, <1>4, <2>3 DEF KeyStep
  <2>5. ASSUME NEW j \in Key \ {k} PROVE KeyKept(j)
    <3>1. active[j] # None => active[j] \in Entry /\ active[j] # s /\ active[j] # e
      BY <1>1, <2>2, IInvFacts DEF Live
    <3>2. QED BY <2>1, <3>1 DEF StartNew, KeyKept, IInv, TypeOK
  <2>6. QED BY <1>1, <2>4, <2>5, OneKeyStep
<1>5. CASE Release(e, exit) /\ ~pendingWake[e]
  <2>1. OwedWork(k)' = "nothing" /\ CurrentDrain(k)' = "none"
    BY <1>1, <1>5 DEF Release, OwedWork, CurrentDrain, IInv, TypeOK
  <2>2. KeyStep(k)
    BY <1>2, <1>5, <2>1 DEF KeyStep
  <2>3. \A j \in Key \ {k} : KeyKept(j)
    BY <1>1, <1>5 DEF Release, KeyKept, IInv, TypeOK
  <2>4. QED BY <1>1, <2>2, <2>3, OneKeyStep
<1>6. QED BY <1>3, <1>4, <1>5 DEF Settle

\* wake makes a follow-up owed, unless one is.
LEMMA WakeSimulates ==
  ASSUME IInv, NEW k \in Key, Wake(k)
  PROVE  [Serial!Next]_(Serial!vars)
<1>1. CASE active[k] # None
  <2>1. /\ active[k] \in Entry /\ pendingWake' = [pendingWake EXCEPT ![active[k]] = TRUE]
        /\ UNCHANGED <<active, key, force, phase>>
    BY <1>1, IInvFacts DEF Wake
  <2>2. KeyStep(k)
    BY <1>1, <2>1 DEF KeyStep, OwedWork, CurrentDrain, IInv, TypeOK
  <2>3. \A j \in Key \ {k} : active[j] # None => active[j] # active[k]
    BY <1>1, IInvFacts
  <2>4. \A j \in Key \ {k} : KeyKept(j)
    BY <2>1, <2>3 DEF KeyKept, IInv, TypeOK
  <2>5. QED BY <2>2, <2>4, OneKeyStep
<1>2. CASE active[k] = None
  BY <1>2, StartNewSimulates DEF Wake
<1>3. QED BY <1>1, <1>2

\* interrupt drops what is owed, and leaves the drain to its cleanup.
LEMMA InterruptSimulates ==
  ASSUME IInv, NEW c \in Caller, NEW k \in Key, Interrupt(c, k)
  PROVE  [Serial!Next]_(Serial!vars)
<1>0. PICK e \in Entry : e = active[k]
  BY IInvFacts DEF Interrupt
<1>1. /\ e = active[k] /\ e # None /\ phase[e] \in Live
      /\ UNCHANGED <<active, key, force>>
      /\ pendingWake' = [pendingWake EXCEPT ![e] = FALSE]
      /\ phase' = [phase EXCEPT ![e] =
           IF phase[e] \in Draining THEN "cleanup" ELSE "aborting"]
  BY <1>0, IInvFacts DEF Interrupt
<1>2. /\ OwedWork(k)' = "nothing"
      /\ CurrentDrain(k)' = CurrentDrain(k)
  BY <1>1 DEF OwedWork, CurrentDrain, Draining, Live, IInv, TypeOK
<1>3. KeyStep(k)
  BY <1>2 DEF KeyStep
<1>4. \A j \in Key \ {k} : active[j] # None => active[j] # e
  BY <1>1, IInvFacts
<1>5. \A j \in Key \ {k} : KeyKept(j)
  BY <1>1, <1>4 DEF KeyKept, IInv, TypeOK
<1>6. QED BY <1>3, <1>5, OneKeyStep

\* The owner fiber takes up what is owed, and keeps a wake that came before.
LEMMA BeginDrainSimulates ==
  ASSUME IInv, NEW e \in Entry, BeginDrain(e)
  PROVE  [Serial!Next]_(Serial!vars)
<1>0. PICK k \in Key : k = key[e]
  BY DEF IInv, TypeOK
<1>1. /\ key[e] = k /\ active[k] = e /\ e # None
      /\ \A j \in Key \ {k} : active[j] # e
  BY <1>0, IInvFacts, NoneIsNoEntry DEF BeginDrain, IInv, TypeOK, Live
<1>2. /\ OwedWork(k) = IF force[e] THEN "forced" ELSE "followUp"
      /\ CurrentDrain(k) = "none"
      /\ CurrentDrain(k)' = OwedWork(k)
      /\ OwedWork(k)' \in {"nothing", "followUp"}
  BY <1>1 DEF BeginDrain, OwedWork, CurrentDrain, Draining, IInv, TypeOK
<1>3. KeyStep(k)
  BY <1>2 DEF KeyStep
<1>4. \A j \in Key \ {k} : KeyKept(j)
  BY <1>1 DEF BeginDrain, KeyKept, IInv, TypeOK
<1>5. QED BY <1>1, <1>3, <1>4, OneKeyStep

\* Every step of the coordinator is a step of SerialExecution or a stutter.
LEMMA StepSimulation == IInv /\ [Next]_vars => [Serial!Next]_(Serial!vars)
<1> SUFFICES ASSUME IInv, [Next]_vars PROVE [Serial!Next]_(Serial!vars)
  OBVIOUS
<1>1. ASSUME NEW e \in Entry, Abort(e) PROVE [Serial!Next]_(Serial!vars)
  BY <1>1, SettleSimulates DEF Abort, Exit
<1>2. ASSUME NEW e \in Entry, NEW exit \in Exit, EndDrain(e, exit)
      PROVE  [Serial!Next]_(Serial!vars)
  BY <1>2, SettleSimulates DEF EndDrain, Draining
<1>3. ASSUME NEW c \in Caller, RunAgain(c) PROVE [Serial!Next]_(Serial!vars)
  <2>1. caller[c].key \in Key
    BY <1>3 DEF RunAgain, IInv, TypeOK, Returned, Awaiting, Again
  <2>2. QED BY <1>3, <2>1, EnterRunSimulates DEF RunAgain
<1>4. CASE UNCHANGED <<active, key, force, pendingWake, stopping, phase>>
  <2>1. \A k \in Key : KeyKept(k)
    BY <1>4 DEF KeyKept
  <2>2. \A k \in Key : KeyStep(k)
    BY <2>1, KeyKeptStutters DEF KeyStep
  <2>3. CASE Key # {}
    BY <2>1, <2>2, <2>3, OneKeyStep
  <2>4. CASE Key = {}
    BY <2>4 DEF Serial!vars
  <2>5. QED BY <2>3, <2>4
<1>5. QED
  BY <1>1, <1>2, <1>3, <1>4, WakeSimulates, EnterRunSimulates, InterruptSimulates,
     BeginDrainSimulates DEF Next, Run, LeaveWait, entryVars, vars

\* The coordinator keeps the safety half of what it promises: drains of a key do
\* not overlap, and owed work is taken up by a drain or interrupted, never lost.
THEOREM SafeRefinement == Safe => Serial!SafeSpec
<1>1. Init => Serial!Init
  BY DEF Init, Serial!Init, OwedWork, CurrentDrain
<1>2. QED BY <1>1, StepSimulation, InvCorrect, PTL DEF Safe, Serial!SafeSpec

-------------------------------------------------------------------------------
(* What interruption leads to.  IInv does not relate stopping to the phase of *)
(* the fiber; this second inductive invariant does.                           *)

\* An entry that is being stopped neither drains nor is about to.
StoppedWindsDown ==
  \A e \in Entry : stopping[e] => phase[e] \in {"aborting", "cleanup", "ended"}

\* An entry that is being stopped winds down, and its next change of phase is its end.
LEMMA StoppedStep ==
  ASSUME IInv, StoppedWindsDown, [Next]_vars
  PROVE  /\ StoppedWindsDown'
         /\ \A d \in Entry : (stopping[d] /\ phase[d] \in Live /\ phase'[d] # phase[d])
              => phase'[d] = "ended"
<1> DEFINE Goal == /\ StoppedWindsDown'
                   /\ \A d \in Entry :
                        (stopping[d] /\ phase[d] \in Live /\ phase'[d] # phase[d])
                          => phase'[d] = "ended"
<1> USE DEF StoppedWindsDown, Live, IInv, TypeOK
<1>1. ASSUME NEW k \in Key, NEW s \in Entry, NEW f \in BOOLEAN, NEW over,
             StartNew(k, s, f, over)
      PROVE  Goal
  BY <1>1 DEF StartNew, Unreachable
<1>2. ASSUME NEW c \in Caller, NEW k \in Key, EnterRun(c, k) PROVE Goal
  BY <1>1, <1>2 DEF EnterRun, entryVars
<1>3. ASSUME NEW k \in Key, Wake(k) PROVE Goal
  BY <1>1, <1>3 DEF Wake
<1>4. ASSUME NEW c \in Caller, NEW k \in Key, Interrupt(c, k) PROVE Goal
  BY <1>4 DEF Interrupt, Draining
<1>5. ASSUME NEW e \in Entry, NEW exit \in Exit, Settle(e, exit) PROVE Goal
  <2>1. CASE Restart(e) /\ ~stopping[e]
    BY <2>1 DEF Restart
  <2>2. CASE HandOver(e, exit)
    BY <2>2, <1>1 DEF HandOver
  <2>3. CASE Release(e, exit)
    BY <2>3 DEF Release
  <2>4. QED BY <1>5, <2>1, <2>2, <2>3 DEF Settle
<1>6. ASSUME NEW e \in Entry, BeginDrain(e) PROVE Goal
  BY <1>6 DEF BeginDrain
<1>7. ASSUME NEW c \in Caller, RunAgain(c) PROVE Goal
  <2>1. caller[c].key \in Key
    BY <1>7 DEF RunAgain, Returned, Awaiting, Again
  <2>2. QED BY <1>2, <1>7, <2>1 DEF RunAgain
<1>8. CASE UNCHANGED <<stopping, phase>>
  BY <1>8
<1>9. QED
  BY <1>2, <1>3, <1>4, <1>5, <1>6, <1>7, <1>8
     DEF Next, Run, EndDrain, Abort, LeaveWait, entryVars, vars, Exit

\* Whatever its drain returns and whatever wakes arrive, an execution that is
\* being interrupted takes no step but its end: interrupt never waits for a
\* follow-up of the execution it stopped.
THEOREM InterruptOnlyStops == Safe => StoppedOnlyEnds
<1>1. Init => StoppedWindsDown
  BY DEF Init, StoppedWindsDown
<1>2. IInv /\ StoppedWindsDown /\ [Next]_vars => StoppedWindsDown'
  BY StoppedStep
<1>3. IInv /\ StoppedWindsDown /\ [Next]_vars
        => [\A e \in Entry : (stopping[e] /\ phase[e] \in Live /\ phase'[e] # phase[e])
              => phase'[e] = "ended"]_vars
  BY StoppedStep
<1>4. QED BY <1>1, <1>2, <1>3, InvCorrect, PTL DEF Safe, StoppedOnlyEnds
===============================================================================
