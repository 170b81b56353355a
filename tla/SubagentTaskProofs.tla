-------------------------- MODULE SubagentTaskProofs --------------------------
(***************************************************************************)
(* Proofs about BackgroundJob and about SubagentTask, which extends it,    *)
(* for any number of calls, incarnations, runs and waiters.                *)
(*                                                                         *)
(* The registry: the properties of a job that has ended rest on what is    *)
(* known while it runs.  pending counts exactly the runs that are not      *)
(* settled (Counted), every settled run had its chance at the output       *)
(* (LastOutput), and a run begins only after all the runs before it are    *)
(* over (InTurn).                                                          *)
(*                                                                         *)
(* The task tool uses the registry only as BackgroundJob lets it, so that  *)
(* what is proved there holds here (Registry).                             *)
(***************************************************************************)
EXTENDS SubagentTask, FiniteSetTheorems, TLAPS

-------------------------------------------------------------------------------
(* The job registry *)


Open(t) == {n \in Sequence : run[t][n] \notin {"none", "settled"}}

\* Nothing has happened under a token that is not given out yet.
NotGivenOut == \A t \in Token : t > latest => job[t] = NoJob

\* The runs of a job are those below its next sequence.
AcceptedBelowNext ==
  \A t \in Token, n \in Sequence : run[t][n] = "none" <=> n >= job[t].next

PendingAccepted == \A t \in Token : job[t].pending <= job[t].next

Counted ==
  \A t \in Token : job[t].status = "running" => Cardinality(Open(t)) = job[t].pending

LastOutput ==
  \A t \in Token : job[t].status = "running" =>
    /\ job[t].output < job[t].next
    /\ \A n \in Sequence : run[t][n] = "settled" => n <= job[t].output

InTurn ==
  \A t \in Token \ closed : \A m, n \in Sequence :
    (m < n /\ run[t][n] \notin {"none", "accepted"}) => run[t][m] \notin Active

ClosedHasEnded == \A t \in closed : job[t].status \in Final

IInv ==
  /\ TypeOK
  /\ NotGivenOut
  /\ AcceptedBelowNext
  /\ PendingAccepted
  /\ Counted
  /\ LastOutput
  /\ InTurn
  /\ ClosedHasEnded
  /\ CompletedWithLastOutput

\* The runs of a job are a finite set, and so is any part of them.
LEMMA OpenIsFinite == ASSUME NEW t \in Token PROVE IsFiniteSet(Open(t))
<1>1. IsFiniteSet(Sequence)
  BY FS_Interval, BoundsAssumption DEF Sequence
<1>2. QED
  BY <1>1, FS_Subset DEF Open

\* Before the first start.
LEMMA InitIInv == Init => IInv
<1> SUFFICES ASSUME Init PROVE IInv
  OBVIOUS
<1> USE BoundsAssumption DEF Init, Token, Sequence, Final, Exit, Active, NoJob
<1>1. TypeOK
  BY DEF TypeOK
<1>2. NotGivenOut /\ AcceptedBelowNext /\ PendingAccepted /\ ClosedHasEnded
  BY DEF NotGivenOut, AcceptedBelowNext, PendingAccepted, ClosedHasEnded
<1>3. Counted /\ LastOutput /\ InTurn /\ CompletedWithLastOutput
  BY DEF Counted, LastOutput, InTurn, CompletedWithLastOutput
<1>4. QED
  BY <1>1, <1>2, <1>3 DEF IInv

\* Starting takes a token of its own; its first run is the one that is open.
LEMMA StartKeepsIInv == IInv /\ Start => IInv'
<1> SUFFICES ASSUME IInv, Start PROVE IInv'
  OBVIOUS
<1> USE BoundsAssumption DEF IInv, Sequence
<1>0. latest + 1 \in Token
  BY DEF Start, TypeOK, Token
<1> SUFFICES ASSUME NEW s \in Token, s = latest + 1 PROVE IInv'
  BY <1>0
<1>1. s \in Token /\ 0 \in Sequence /\ s > latest /\ latest \in Nat
  BY DEF TypeOK
<1>2. /\ job' = [job EXCEPT ![s] = [status |-> "running", pending |-> 1, next |-> 1, output |-> -1]]
      /\ run' = [run EXCEPT ![s][0] = "accepted"]
      /\ latest' = s /\ UNCHANGED <<done, closed, caller>>
  BY DEF Start
<1>3. \A t \in Token : job[t].status # "running"
  BY DEF Start, Running, TypeOK, Token
<1>4. /\ \A n \in Sequence : run[s][n] = "none"
      /\ job[s] = NoJob
  BY <1>1 DEF NotGivenOut, AcceptedBelowNext, NoJob, TypeOK
<1>5. s \notin closed
  BY <1>4, <1>1 DEF ClosedHasEnded, NoJob, Final
<1>6. TypeOK'
  <2>1. job' \in [Token -> [status : Final \cup {"none", "running"}, pending : 0 .. MaxRuns,
                            next : 0 .. MaxRuns, output : Sequence \cup {-1}]]
    BY <1>1, <1>2 DEF TypeOK
  <2>2. run' \in [Token -> [Sequence -> Active \cup Exit \cup {"none", "settled"}]]
    BY <1>1, <1>2 DEF TypeOK, Active
  <2>3. \A t \in Token : job'[t].status = "running" => t = latest' /\ job'[t].pending > 0
    BY <1>1, <1>2, <1>3 DEF TypeOK
  <2>4. latest' \in 0 .. MaxStarts
    BY <1>1, <1>2 DEF Token
  <2>5. QED
    BY <1>2, <2>1, <2>2, <2>3, <2>4 DEF TypeOK
<1>7. NotGivenOut'
  BY <1>1, <1>2 DEF NotGivenOut, TypeOK, Token
<1>8. AcceptedBelowNext'
  BY <1>1, <1>2, <1>4 DEF AcceptedBelowNext, TypeOK
<1>9. PendingAccepted'
  BY <1>1, <1>2 DEF PendingAccepted, TypeOK
<1>10. Counted'
  <2>1. Open(s)' = {0}
    BY <1>1, <1>2, <1>4 DEF Open, TypeOK
  <2>2. Cardinality({0}) = 1
    BY FS_Singleton
  <2>3. QED
    BY <2>1, <2>2, <1>1, <1>2, <1>3 DEF Counted, TypeOK
<1>11. LastOutput'
  BY <1>1, <1>2, <1>3, <1>4 DEF LastOutput, TypeOK
<1>12. InTurn'
  BY <1>1, <1>2, <1>4 DEF InTurn, TypeOK, Active
<1>13. ClosedHasEnded'
  BY <1>1, <1>2, <1>5 DEF ClosedHasEnded, TypeOK
<1>14. CompletedWithLastOutput'
  BY <1>1, <1>2, <1>4 DEF CompletedWithLastOutput, TypeOK, NoJob
<1>15. QED
  BY <1>6, <1>7, <1>8, <1>9, <1>10, <1>11, <1>12, <1>13, <1>14

\* One run more is accepted, open and counted.
LEMMA ExtendKeepsIInv == IInv /\ Extend => IInv'
<1> USE BoundsAssumption DEF IInv, Sequence
<1> SUFFICES ASSUME IInv, Extend PROVE IInv'
  OBVIOUS
<1>0. latest \in Token /\ job[latest].next \in Sequence
  <2>1. latest \in Token
    BY DEF Extend, Running, TypeOK, Token
  <2>2. job[latest].next \in 0 .. MaxRuns /\ job[latest].next < MaxRuns
    BY <2>1 DEF Extend, TypeOK
  <2>3. QED
    BY <2>1, <2>2
<1> SUFFICES ASSUME NEW t \in Token, t = latest,
                    NEW k \in Sequence, k = job[t].next
             PROVE  IInv'
  BY <1>0
<1>1. /\ job' = [job EXCEPT ![t] = [job[t] EXCEPT !.pending = job[t].pending + 1,
                                                  !.next = k + 1]]
      /\ run' = [run EXCEPT ![t][k] = "accepted"]
      /\ job[t].status = "running"
      /\ UNCHANGED <<latest, done, closed, caller>>
  BY DEF Extend, Running, TypeOK
<1>2. /\ job[t] \in [status : Final \cup {"none", "running"}, pending : 0 .. MaxRuns,
                     next : 0 .. MaxRuns, output : Sequence \cup {-1}]
      /\ job[t].pending + 1 \in 0 .. MaxRuns
      /\ k + 1 \in 0 .. MaxRuns
  BY DEF TypeOK, PendingAccepted
<1>3. \A n \in Sequence : run[t][n] = "none" <=> n >= k
  BY DEF AcceptedBelowNext
<1>4. TypeOK'
  <2>1. job' \in [Token -> [status : Final \cup {"none", "running"}, pending : 0 .. MaxRuns,
                            next : 0 .. MaxRuns, output : Sequence \cup {-1}]]
    BY <1>1, <1>2 DEF TypeOK
  <2>2. run' \in [Token -> [Sequence -> Active \cup Exit \cup {"none", "settled"}]]
    BY <1>1 DEF TypeOK, Active
  <2>3. \A u \in Token : job'[u].status = "running" => u = latest' /\ job'[u].pending > 0
    BY <1>1, <1>2 DEF TypeOK
  <2>4. QED
    BY <1>1, <2>1, <2>2, <2>3 DEF TypeOK
<1>5. NotGivenOut'
  BY <1>1 DEF NotGivenOut, TypeOK, Token
<1>6. AcceptedBelowNext'
  BY <1>1, <1>2, <1>3 DEF AcceptedBelowNext, TypeOK
<1>7. PendingAccepted'
  BY <1>1, <1>2 DEF PendingAccepted, TypeOK
<1>8. Counted'
  <2>1. Open(t)' = Open(t) \cup {k}
    BY <1>1 DEF Open, TypeOK
  <2>2. k \notin Open(t)
    BY <1>3 DEF Open
  <2>3. Cardinality(Open(t)') = Cardinality(Open(t)) + 1
    BY <2>1, <2>2, OpenIsFinite, FS_AddElement
  <2>4. \A u \in Token : u # t => job'[u].status # "running"
    BY <1>1 DEF TypeOK
  <2>5. QED
    BY <1>1, <1>2, <2>3, <2>4 DEF Counted, TypeOK
<1>9. LastOutput'
  BY <1>1, <1>2, <1>3 DEF LastOutput, TypeOK
<1>10. InTurn'
  BY <1>1, <1>3 DEF InTurn, TypeOK, Active
<1>11. ClosedHasEnded'
  BY <1>1, <1>2 DEF ClosedHasEnded, TypeOK, Final
<1>12. CompletedWithLastOutput'
  BY <1>1, <1>2 DEF CompletedWithLastOutput, TypeOK
<1>13. QED
  BY <1>4, <1>5, <1>6, <1>7, <1>8, <1>9, <1>10, <1>11, <1>12

\* A run that moves while its job stays as it is: nobody counts it but by whether
\* it is settled, and a running job settles its runs itself.
LEMMA RunMovesKeepsIInv ==
  ASSUME IInv, InTurn',
         NEW t \in Token, NEW n \in Sequence,
         NEW x \in Active \cup Exit \cup {"settled"},
         run[t][n] # "none",
         job[t].status = "running" => run[t][n] # "settled" /\ x # "settled",
         job[t].status = "completed" => x = "settled",
         run' = [run EXCEPT ![t][n] = x],
         UNCHANGED <<latest, job, done, closed, caller>>
  PROVE  IInv'
<1> USE DEF IInv
<1>1. TypeOK'
  BY DEF TypeOK, Active, Exit
<1>2. NotGivenOut' /\ PendingAccepted' /\ ClosedHasEnded'
  BY DEF NotGivenOut, PendingAccepted, ClosedHasEnded
<1>3. x # "none"
  BY DEF Active, Exit
<1>4. AcceptedBelowNext'
  BY <1>3 DEF AcceptedBelowNext, TypeOK
<1>5. \A u \in Token : job[u].status = "running" => Open(u)' = Open(u)
  BY <1>3 DEF Open, TypeOK
<1>6. Counted'
  BY <1>5 DEF Counted
<1>7. LastOutput'
  BY DEF LastOutput, TypeOK
<1>8. CompletedWithLastOutput'
  BY DEF CompletedWithLastOutput, TypeOK
<1>9. QED
  BY <1>1, <1>2, <1>4, <1>6, <1>7, <1>8

\* The run before is over, and with it, by InTurn, every earlier one.
LEMMA BeginRunKeepsIInv ==
  ASSUME IInv, NEW t \in Token, NEW n \in Sequence, BeginRun(t, n)
  PROVE  IInv'
<1>1. /\ run[t][n] = "accepted"
      /\ run' = [run EXCEPT ![t][n] = "running"]
      /\ UNCHANGED <<latest, job, done, closed, caller>>
  BY DEF BeginRun
<1>2. n < job[t].next
  BY <1>1, BoundsAssumption DEF IInv, AcceptedBelowNext, TypeOK, Sequence
<1>3. job[t].status # "completed"
  BY <1>1, <1>2 DEF IInv, CompletedWithLastOutput
<1>4. t \notin closed => \A m \in Sequence : m < n => run[t][m] \notin Active
  <2> SUFFICES ASSUME t \notin closed, NEW m \in Sequence, m < n
               PROVE  run[t][m] \notin Active
    OBVIOUS
  <2>1. n - 1 \in Sequence /\ n > 0
    BY BoundsAssumption DEF Sequence
  <2>2. run[t][n - 1] \notin Active
    BY <2>1 DEF BeginRun, TailDone
  <2>3. run[t][n - 1] \notin {"none", "accepted"}
    BY <1>2, <2>1, <2>2, BoundsAssumption
    DEF IInv, AcceptedBelowNext, TypeOK, Sequence, Active
  <2>4. CASE m = n - 1
    BY <2>2, <2>4
  <2>5. CASE m < n - 1
    BY <2>1, <2>3, <2>5 DEF IInv, InTurn
  <2>6. QED
    BY <2>4, <2>5 DEF Sequence
<1>5. InTurn'
  <2> SUFFICES ASSUME NEW u \in Token \ closed', NEW m \in Sequence, NEW k \in Sequence,
                      m < k, run'[u][k] \notin {"none", "accepted"}
               PROVE  run'[u][m] \notin Active
    BY DEF InTurn
  <2>1. CASE u = t /\ k = n
    BY <1>1, <1>4, <2>1 DEF IInv, TypeOK, Sequence
  <2>2. CASE u = t /\ k # n /\ m = n
    BY <1>1, <2>2 DEF IInv, TypeOK, InTurn, Active
  <2>3. CASE u # t \/ (k # n /\ m # n)
    BY <1>1, <2>3 DEF IInv, TypeOK, InTurn
  <2>4. QED
    BY <2>1, <2>2, <2>3
<1>6. QED
  BY <1>1, <1>3, <1>5, RunMovesKeepsIInv DEF Active

\* A run that is over is behind its tail as it was, and open as it was.
LEMMA EndRunKeepsIInv ==
  ASSUME IInv, NEW t \in Token, NEW n \in Sequence, NEW exit \in Exit, EndRun(t, n, exit)
  PROVE  IInv'
<1>1. /\ run[t][n] = "running"
      /\ run' = [run EXCEPT ![t][n] = exit]
      /\ UNCHANGED <<latest, job, done, closed, caller>>
  BY DEF EndRun
<1>2. job[t].status # "completed"
  BY <1>1, BoundsAssumption
  DEF IInv, CompletedWithLastOutput, AcceptedBelowNext, TypeOK, Sequence
<1>3. exit \notin Active /\ exit # "settled" /\ run[t][n] \notin {"none", "accepted"}
  BY <1>1 DEF Exit, Active
<1>4. InTurn'
  BY <1>1, <1>3 DEF IInv, InTurn, TypeOK
<1>5. QED
  BY <1>1, <1>2, <1>3, <1>4, RunMovesKeepsIInv

\* Only runs of an ended job are interrupted.
LEMMA InterruptRunKeepsIInv ==
  ASSUME IInv, NEW t \in Token, NEW n \in Sequence, InterruptRun(t, n)
  PROVE  IInv'
<1>1. /\ t \in closed /\ run[t][n] \in Active
      /\ run' = [run EXCEPT ![t][n] = "settled"]
      /\ UNCHANGED <<latest, job, done, closed, caller>>
  BY DEF InterruptRun
<1>2. job[t].status # "running"
  BY <1>1 DEF IInv, ClosedHasEnded, Final
<1>3. InTurn'
  BY <1>1 DEF IInv, InTurn, TypeOK
<1>4. QED
  BY <1>1, <1>2, <1>3, RunMovesKeepsIInv DEF Active

\* A settle that comes after the end of its job changes the run alone; one that
\* does not end the job counts it and may give the job its output; one that ends
\* it was either no success or the last.
LEMMA SettleKeepsIInv ==
  ASSUME IInv, NEW t \in Token, NEW n \in Sequence, Settle(t, n)
  PROVE  IInv'
<1> USE BoundsAssumption DEF IInv, Sequence
<1> DEFINE out == Output(job[t], n, run[t][n])
           left == job[t].pending - 1
<1>1. /\ run[t][n] \in Exit
      /\ run' = [run EXCEPT ![t][n] = "settled"]
      /\ UNCHANGED <<latest, done, closed, caller>>
  BY DEF Settle
<1>2. run[t][n] \notin {"none", "settled", "accepted"} /\ run[t][n] \notin Active
  BY <1>1 DEF Exit, Active
<1>3. InTurn'
  BY <1>1, <1>2 DEF InTurn, TypeOK, Active
<1>4. CASE job[t].status # "running"
  <2>1. UNCHANGED job
    BY <1>4 DEF Settle, Running
  <2>2. QED
    BY <1>1, <1>2, <1>3, <1>4, <2>1, RunMovesKeepsIInv
<1>5. CASE job[t].status = "running"
  <2>1. /\ t = latest /\ Running
        /\ job[t] \in [status : Final \cup {"none", "running"}, pending : 0 .. MaxRuns,
                       next : 0 .. MaxRuns, output : Sequence \cup {-1}]
        /\ job[t].pending > 0
    BY <1>5 DEF TypeOK, Running, Token
  <2>2. left \in 0 .. MaxRuns /\ left <= job[t].next
    BY <2>1 DEF PendingAccepted
  <2>3. n < job[t].next
    BY <1>2, <2>1 DEF AcceptedBelowNext
  <2>4. /\ out \in Sequence \cup {-1}
        /\ out < job[t].next
        /\ job[t].output <= out
        /\ run[t][n] = "success" => n <= out
    BY <1>5, <2>1, <2>3 DEF Output, LastOutput
  <2> HIDE DEF out
  <2>5. PICK status \in Final \cup {"running"}, pending \in {0, left} :
          /\ job' = [job EXCEPT ![t] = [job[t] EXCEPT !.status = status, !.pending = pending,
                                                      !.output = out]]
          /\ status = "running" => run[t][n] = "success" /\ pending = left /\ left > 0
          /\ status = "completed" => run[t][n] = "success" /\ left = 0
    <3>1. CASE run[t][n] = "success" /\ left > 0
      <4>1. job' = [job EXCEPT ![t] = [job[t] EXCEPT !.pending = left, !.output = out]]
        BY <2>1, <3>1 DEF Settle, out
      <4>2. [job[t] EXCEPT !.pending = left, !.output = out]
              = [job[t] EXCEPT !.status = "running", !.pending = left, !.output = out]
        BY <1>5, <2>1
      <4>3. QED
        BY <3>1, <4>1, <4>2 DEF Final
    <3>2. CASE ~(run[t][n] = "success" /\ left > 0)
      <4>1. job' = [job EXCEPT ![t] =
                      [[job[t] EXCEPT !.pending = left, !.output = out]
                         EXCEPT !.status = StatusOf(run[t][n]), !.pending = 0]]
        BY <2>1, <3>2 DEF Settle, out
      <4>2. [[job[t] EXCEPT !.pending = left, !.output = out]
               EXCEPT !.status = StatusOf(run[t][n]), !.pending = 0]
              = [job[t] EXCEPT !.status = StatusOf(run[t][n]), !.pending = 0, !.output = out]
        BY <2>1
      <4>3. /\ StatusOf(run[t][n]) \in Final
            /\ StatusOf(run[t][n]) = "completed" => run[t][n] = "success"
            /\ StatusOf(run[t][n]) # "running"
        BY <1>1 DEF StatusOf, Exit, Final
      <4>4. StatusOf(run[t][n]) = "completed" => left = 0
        <5> HIDE DEF left
        <5>1. left \in Nat
          BY <2>2
        <5>2. QED
          BY <3>2, <4>3, <5>1
      <4>5. QED
        BY <4>1, <4>2, <4>3, <4>4
    <3>3. QED
      BY <3>1, <3>2
  <2>6. /\ \A u \in Token : u # t => job'[u] = job[u] /\ job[u].status # "running"
        /\ job'[t].status = status /\ job'[t].pending = pending /\ job'[t].output = out
        /\ job'[t].next = job[t].next
    BY <1>5, <2>1, <2>5 DEF TypeOK
  <2>7. TypeOK'
    <3>1. job' \in [Token -> [status : Final \cup {"none", "running"}, pending : 0 .. MaxRuns,
                              next : 0 .. MaxRuns, output : Sequence \cup {-1}]]
      <4>1. [job[t] EXCEPT !.status = status, !.pending = pending, !.output = out]
              \in [status : Final \cup {"none", "running"}, pending : 0 .. MaxRuns,
                   next : 0 .. MaxRuns, output : Sequence \cup {-1}]
        <5> HIDE DEF left
        <5>1. pending \in 0 .. MaxRuns
          BY <2>2
        <5>2. QED
          BY <2>1, <2>4, <5>1
      <4>2. QED
        BY <2>5, <4>1 DEF TypeOK
    <3>2. run' \in [Token -> [Sequence -> Active \cup Exit \cup {"none", "settled"}]]
      BY <1>1 DEF TypeOK
    <3>3. \A u \in Token : job'[u].status = "running" => u = latest' /\ job'[u].pending > 0
      BY <1>1, <2>1, <2>5, <2>6
    <3>4. QED
      BY <1>1, <3>1, <3>2, <3>3 DEF TypeOK
  <2>8. NotGivenOut'
    BY <1>1, <2>1, <2>6 DEF NotGivenOut, Token
  <2>9. AcceptedBelowNext'
    <3>1. \A u \in Token, m \in Sequence : run'[u][m] = "none" <=> run[u][m] = "none"
      BY <1>1, <1>2 DEF TypeOK
    <3>2. \A u \in Token : job'[u].next = job[u].next
      BY <2>6
    <3>3. QED
      BY <3>1, <3>2 DEF AcceptedBelowNext
  <2>10. PendingAccepted'
    BY <2>2, <2>5, <2>6, <2>1 DEF PendingAccepted
  <2>11. ClosedHasEnded'
    BY <1>1, <1>5, <2>6 DEF ClosedHasEnded, Final, TypeOK
  <2>12. /\ Open(t)' = Open(t) \ {n}
         /\ Cardinality(Open(t)') = left
    <3>1. n \in Open(t) /\ Open(t)' = Open(t) \ {n}
      BY <1>1, <1>2 DEF Open, TypeOK
    <3>2. QED
      BY <1>5, <3>1, OpenIsFinite, FS_RemoveElement DEF Counted
  <2>13. Counted'
    BY <2>5, <2>6, <2>12 DEF Counted
  <2>14. LastOutput'
    BY <1>1, <1>5, <2>1, <2>4, <2>5, <2>6 DEF LastOutput, TypeOK
  <2>15. CompletedWithLastOutput'
    <3>1. CASE status = "completed"
      <4>1. left = 0 /\ n <= out
        BY <2>4, <2>5, <3>1
      <4>2. Open(t)' = {}
        <5>1. IsFiniteSet(Open(t)')
          BY <2>12, OpenIsFinite, FS_Subset
        <5>2. QED
          BY <2>12, <4>1, <5>1, FS_EmptySet
      <4>3. \A m \in Sequence : m < job[t].next => run'[t][m] = "settled"
        BY <2>6, <2>9, <4>2, <2>7, <2>1 DEF Open, AcceptedBelowNext
      <4>4. \A m \in Sequence : m < job[t].next => m <= out
        BY <1>1, <1>5, <2>1, <2>4, <4>1, <4>3 DEF LastOutput, TypeOK
      <4>5. out = job[t].next - 1
        <5>1. job[t].next - 1 \in Sequence
          BY <2>1, <2>3
        <5>2. QED
          BY <2>1, <2>4, <4>4, <5>1
      <4>6. QED
        BY <1>1, <2>6, <4>3, <4>5 DEF CompletedWithLastOutput, TypeOK
    <3>2. CASE status # "completed"
      BY <1>1, <2>6, <3>2 DEF CompletedWithLastOutput, TypeOK
    <3>3. QED
      BY <3>1, <3>2
  <2>16. QED
    BY <1>3, <2>7, <2>8, <2>9, <2>10, <2>11, <2>13, <2>14, <2>15
<1>6. QED
  BY <1>4, <1>5

\* Ending a job from outside leaves nothing to count.
LEMMA CancelKeepsIInv == IInv /\ Cancel => IInv'
<1> USE DEF IInv
<1> SUFFICES ASSUME IInv, Cancel PROVE IInv'
  OBVIOUS
<1>0. latest \in Token
  BY DEF Cancel, Running, TypeOK, Token
<1> SUFFICES ASSUME NEW t \in Token, t = latest PROVE IInv'
  BY <1>0
<1>1. /\ job' = [job EXCEPT ![t] = [job[t] EXCEPT !.status = "cancelled", !.pending = 0]]
      /\ job[t].status = "running"
      /\ UNCHANGED <<latest, run, done, closed, caller>>
  BY DEF Cancel, Running, TypeOK
<1>2. job[t] \in [status : Final \cup {"none", "running"}, pending : 0 .. MaxRuns,
                  next : 0 .. MaxRuns, output : Sequence \cup {-1}]
  BY DEF TypeOK
<1>3. \A u \in Token : job'[u].status # "running"
  BY <1>1, <1>2 DEF TypeOK
<1>4. TypeOK'
  <2>1. job' \in [Token -> [status : Final \cup {"none", "running"}, pending : 0 .. MaxRuns,
                            next : 0 .. MaxRuns, output : Sequence \cup {-1}]]
    <3>1. [job[t] EXCEPT !.status = "cancelled", !.pending = 0]
            \in [status : Final \cup {"none", "running"}, pending : 0 .. MaxRuns,
                 next : 0 .. MaxRuns, output : Sequence \cup {-1}]
      <4>1. "cancelled" \in Final /\ 0 \in 0 .. MaxRuns
        BY BoundsAssumption DEF Final
      <4>2. QED
        BY <1>2, <4>1
    <3>2. QED
      BY <1>1, <3>1 DEF TypeOK
  <2>2. QED
    BY <1>1, <1>3, <2>1 DEF TypeOK
<1>5. NotGivenOut'
  BY <1>1 DEF NotGivenOut, TypeOK, Token
<1>6. AcceptedBelowNext' /\ PendingAccepted'
  BY <1>1, <1>2 DEF AcceptedBelowNext, PendingAccepted, TypeOK
<1>7. Counted' /\ LastOutput'
  BY <1>3 DEF Counted, LastOutput
<1>8. InTurn'
  BY <1>1 DEF InTurn
<1>9. ClosedHasEnded' /\ CompletedWithLastOutput'
  BY <1>1, <1>2 DEF ClosedHasEnded, CompletedWithLastOutput, TypeOK, Final
<1>10. QED
  BY <1>4, <1>5, <1>6, <1>7, <1>8, <1>9

\* Announcing an end, and what waiters do, leaves jobs and runs alone.
LEMMA QuietKeepsIInv ==
  ASSUME IInv, TypeOK', ClosedHasEnded', closed \subseteq closed',
         UNCHANGED <<latest, job, run>>
  PROVE  IInv'
<1> USE DEF IInv
<1>1. NotGivenOut' /\ AcceptedBelowNext' /\ PendingAccepted'
  BY DEF NotGivenOut, AcceptedBelowNext, PendingAccepted
<1>2. Counted' /\ LastOutput' /\ CompletedWithLastOutput'
  BY DEF Counted, Open, LastOutput, CompletedWithLastOutput
<1>3. InTurn'
  BY DEF InTurn
<1>4. QED
  BY <1>1, <1>2, <1>3

\* Every step keeps the invariant.
LEMMA NextKeepsIInv == IInv /\ [Next]_vars => IInv'
<1> SUFFICES ASSUME IInv, [Next]_vars PROVE IInv'
  OBVIOUS
<1>1. CASE Start
  BY <1>1, StartKeepsIInv
<1>2. CASE Extend
  BY <1>2, ExtendKeepsIInv
<1>3. CASE Cancel
  BY <1>3, CancelKeepsIInv
<1>4. ASSUME NEW t \in Token, NEW n \in Sequence,
             \/ BeginRun(t, n) \/ InterruptRun(t, n) \/ Settle(t, n)
             \/ \E exit \in Exit : EndRun(t, n, exit)
      PROVE  IInv'
  BY <1>4, BeginRunKeepsIInv, InterruptRunKeepsIInv, SettleKeepsIInv, EndRunKeepsIInv
<1>5. ASSUME NEW t \in Token, Announce(t) PROVE IInv'
  <2>1. /\ job[t].status \in Final
        /\ done' = done \cup {t} /\ closed' = closed \cup {t}
        /\ UNCHANGED <<latest, job, run, caller>>
    BY <1>5 DEF Announce
  <2>2. TypeOK' /\ ClosedHasEnded'
    BY <2>1 DEF IInv, TypeOK, ClosedHasEnded
  <2>3. QED
    BY <2>1, <2>2, QuietKeepsIInv
<1>6. ASSUME NEW c \in Waiter, Wait(c) \/ TimeOut(c) \/ \E t \in Token : Told(c, t)
      PROVE  IInv'
  <2>1. UNCHANGED <<latest, job, run, done, closed>>
    BY <1>6 DEF Wait, TimeOut, Told
  <2>2. caller' \in [Waiter -> [at : {"free"}] \cup [at : {"waiting"}, token : Token]]
    <3>1. CASE Wait(c)
      <4>1. latest \in Token
        BY <3>1 DEF Wait, Running, IInv, TypeOK, Token
      <4>2. QED
        BY <3>1, <4>1 DEF Wait, IInv, TypeOK
    <3>2. CASE TimeOut(c) \/ \E t \in Token : Told(c, t)
      <4>1. caller' = [caller EXCEPT ![c] = [at |-> "free"]]
        BY <3>2 DEF TimeOut, Told, Answered
      <4>2. QED
        BY <4>1 DEF IInv, TypeOK
    <3>3. QED
      BY <1>6, <3>1, <3>2
  <2>3. TypeOK' /\ ClosedHasEnded'
    BY <2>1, <2>2 DEF IInv, TypeOK, ClosedHasEnded
  <2>4. QED
    BY <2>1, <2>3, QuietKeepsIInv
<1>7. CASE UNCHANGED vars
  BY <1>7, QuietKeepsIInv DEF vars, IInv, TypeOK, ClosedHasEnded
<1>8. QED
  BY <1>1, <1>2, <1>3, <1>4, <1>5, <1>6, <1>7 DEF Next

\* What the registry knows of its jobs holds in every reachable state.
THEOREM InvHolds == Safe => []IInv
<1>1. Init => IInv
  BY InitIInv
<1>2. IInv /\ [Next]_vars => IInv'
  BY NextKeepsIInv
<1>3. QED
  BY <1>1, <1>2, PTL DEF Safe

\* Every value stays of its kind; in particular pending never runs below zero and a
\* running job always has a run to end it (start, extend, settle, cancel).
THEOREM TypeCorrect == Safe => []TypeOK
<1>1. IInv => TypeOK
  BY DEF IInv
<1>2. QED
  BY <1>1, InvHolds, PTL

\* A job that completed did so with every run settled and the last one's output
\* (settle, background-job.ts).
THEOREM CompletesWithLast == Safe => []CompletedWithLastOutput
<1>1. IInv => CompletedWithLastOutput
  BY DEF IInv
<1>2. QED
  BY <1>1, InvHolds, PTL

\* While its scope is open, the runs of a job take turns: the tail chain serializes
\* them however long each takes to settle.
THEOREM RunsTakeTurns == Safe => []OneRunAtATime
<1>1. IInv => OneRunAtATime
  <2> SUFFICES ASSUME IInv, NEW t \in Token \ closed
               PROVE  Cardinality({n \in Sequence : run[t][n] = "running"}) <= 1
    BY DEF OneRunAtATime
  <2> DEFINE R == {n \in Sequence : run[t][n] = "running"}
  <2>1. \A m, n \in R : m = n
    BY BoundsAssumption DEF IInv, InTurn, Active, Sequence
  <2>2. CASE R = {}
    BY <2>2, FS_EmptySet
  <2>3. CASE R # {}
    <3>1. PICK n \in R : R = {n}
      BY <2>1, <2>3
    <3>2. Cardinality({n}) = 1
      BY FS_Singleton
    <3>3. Cardinality(R) = 1
      BY <3>1, <3>2
    <3>4. QED
      BY <3>3
  <2>4. QED
    BY <2>2, <2>3
<1>2. QED
  BY <1>1, InvHolds, PTL

\* No step changes the record of a job that has ended.
LEMMA OutcomeStep ==
  IInv /\ [Next]_vars => [\A t \in Token : job[t].status \in Final => job'[t] = job[t]]_vars
<1> SUFFICES ASSUME IInv, Next,
                    NEW t \in Token, job[t].status \in Final
             PROVE  job'[t] = job[t]
  OBVIOUS
<1>1. job[t].status # "running" /\ job[t].status # "none"
  BY DEF Final
<1>2. CASE Start
  <2>1. t <= latest
    BY <1>1 DEF IInv, NotGivenOut, NoJob, TypeOK, Token
  <2>2. QED
    BY <1>2, <2>1 DEF Start, IInv, TypeOK, Token
<1>3. CASE Extend \/ Cancel
  BY <1>1, <1>3 DEF Extend, Cancel, Running, IInv, TypeOK
<1>4. CASE \E u \in Token, n \in Sequence : Settle(u, n)
  <2>1. PICK u \in Token, n \in Sequence : Settle(u, n)
    BY <1>4
  <2>2. CASE u = t
    BY <1>1, <2>1, <2>2 DEF Settle, Running
  <2>3. CASE u # t
    BY <2>1, <2>3 DEF Settle, IInv, TypeOK
  <2>4. QED
    BY <2>2, <2>3
<1>5. CASE UNCHANGED job
  BY <1>5
<1>6. QED
  BY <1>2, <1>3, <1>4, <1>5
  DEF Next, BeginRun, InterruptRun, EndRun, Announce, Wait, TimeOut, Told

\* The outcome of a job is decided once (the status checks of settle and cancel, and
\* the token).
THEOREM OutcomeDecidedOnce == Safe => OutcomeIsFinal
<1>1. IInv /\ [Next]_vars => [\A t \in Token : job[t].status \in Final => job'[t] = job[t]]_vars
  BY OutcomeStep
<1>2. QED
  BY <1>1, InvHolds, PTL DEF Safe, OutcomeIsFinal

-------------------------------------------------------------------------------
(* The task tool *)

Place == {"called", "starting", "started", "launched", "waiting", "aborting"} \cup Answers

Typed ==
  /\ task \in [Call -> [at : Place, own : Token \cup {0}, of : Token \cup {0}]]
  /\ notice \in [Call -> [at : {"none", "promoting", "waiting", "told", "dropped"}, of : Token \cup {0}]]
  /\ others \in 0 .. MaxOthers

WaitsShow(c) ==
  /\ task[c].at = "waiting" <=> ~Free(Result(c))
  /\ notice[c].at = "waiting" <=> ~Free(Notice(c))

\* What a call relies on has been started.
HasStarted(c) ==
  /\ task[c].own <= latest
  /\ task[c].at \in {"started", "launched"} => latest # 0
  /\ notice[c].at = "promoting" => latest # 0

\* Only a job that runs in the background is reported by a notification.
NoticeOfBackground(c) ==
  notice[c].at # "none" \/ task[c].at = "launched" => task[c].own \in background \cup {0}

\* A result is that of a job which ended in the foreground.
ResultOfForeground(c) ==
  task[c].at = "result" =>
    task[c].of \in Token \ background /\ job[task[c].of].status \in Final

\* A notification looks its job up when that has been started, and waits for what it met.
MetLater(c) ==
  /\ notice[c].at \in {"waiting", "told", "dropped"} => task[c].own <= notice[c].of /\ notice[c].of # 0
  /\ notice[c].at = "waiting" => caller[Notice(c)].token = notice[c].of

NotBegun(c) ==
  /\ task[c].at \in {"called", "starting"} => task[c].own = 0
  /\ task[c].at \in {"called", "starting", "launched"} => notice[c].at = "none"

CallInv(c) ==
  /\ WaitsShow(c) /\ HasStarted(c) /\ NotBegun(c)
  /\ NoticeOfBackground(c) /\ ResultOfForeground(c) /\ MetLater(c)

TaskInv ==
  /\ Typed
  /\ background \subseteq 1 .. latest
  /\ \A c \in Call : CallInv(c)

\* The fibers of a call are two, and no other call's.
LEMMA Fibers ==
  ASSUME NEW c \in Call, NEW d \in Call
  PROVE  /\ Result(c) \in Waiter /\ Notice(c) \in Waiter /\ Result(c) # Notice(d)
         /\ Result(c) = Result(d) => c = d
         /\ Notice(c) = Notice(d) => c = d
<1>1. Result(c) \in Waiter /\ Notice(c) \in Waiter
  BY CallsWait
<1>2. Result(c) # Notice(d)
  BY DEF Result, Notice
<1>3. (Result(c) = Result(d) => c = d) /\ (Notice(c) = Notice(d) => c = d)
  BY DEF Result, Notice
<1> QED BY <1>1, <1>2, <1>3

\* A step of the tool is one of the registry, or leaves it alone.  Where one of two
\* fibers that race wins, the wait of the other is given up, as with a timeout.
LEMMA StepMaps ==
  ASSUME TaskInv, [TasksNext]_taskVars
  PROVE  [Next]_vars
<1>1. CASE UNCHANGED taskVars
  BY <1>1 DEF taskVars
<1>2. ASSUME NEW c \in Call, CallExtends(c) \/ CallStarts(c) \/ CancelAborted(c) PROVE [Next]_vars
  BY <1>2 DEF CallExtends, CallStarts, CancelAborted, Next
<1>3. ASSUME NEW c \in Call, AwaitResult(c) PROVE [Next]_vars
  <2>1. Wait(Result(c)) \/ UNCHANGED vars
    BY <1>3 DEF AwaitResult
  <2> QED BY <2>1, Fibers DEF Next
<1>4. ASSUME NEW c \in Call, TakeOutcome(c) PROVE [Next]_vars
  BY <1>4, Fibers DEF TakeOutcome, Next
<1>5. ASSUME NEW c \in Call, TakePromotion(c) \/ Abort(c) PROVE [Next]_vars
  <2>1. ~Free(Result(c))
    BY <1>5 DEF TaskInv, CallInv, WaitsShow, TakePromotion, Abort
  <2>2. TimeOut(Result(c))
    BY <1>5, <2>1 DEF TakePromotion, Abort, TimeOut, registry
  <2> QED BY <2>2, Fibers DEF Next
<1>6. ASSUME NEW c \in Call, Notify(c) PROVE [Next]_vars
  <2>1. Wait(Notice(c)) \/ UNCHANGED vars
    BY <1>6 DEF Notify
  <2> QED BY <2>1, Fibers DEF Next
<1>7. ASSUME NEW c \in Call, Inject(c) PROVE [Next]_vars
  BY <1>7, Fibers DEF Inject, Next
<1>8. CASE Promote
  BY <1>8 DEF Promote
<1>9. CASE Others \/ Runs
  BY <1>9 DEF Others, Runs, Next
<1> QED
  BY <1>1, <1>2, <1>3, <1>4, <1>5, <1>6, <1>7, <1>8, <1>9
  DEF TasksNext, Calling, Notifying, ReturnInBackground, NotifyPromoted

\* What a step of the registry leaves as it was.
LEMMA RegistryKeeps ==
  ASSUME IInv, [Next]_vars
  PROVE  /\ IInv'
         /\ latest' \in {latest, latest + 1} /\ latest \in Nat
         /\ \A t \in Token : job[t].status \in Final => t <= latest /\ job'[t] = job[t]
<1>1. IInv'
  BY NextKeepsIInv
<1>2. latest' \in {latest, latest + 1}
  BY DEF Next, vars, Start, Extend, Cancel, BeginRun, InterruptRun, Settle, EndRun, Announce,
         Wait, TimeOut, Told
<1>3. latest \in Nat
  BY BoundsAssumption DEF IInv, TypeOK
<1>4. ASSUME NEW t \in Token, job[t].status \in Final PROVE t <= latest
  BY <1>3, <1>4 DEF IInv, NotGivenOut, NoJob, Final, Token
<1>5. ASSUME NEW t \in Token, job[t].status \in Final PROVE job'[t] = job[t]
  BY <1>5, OutcomeStep DEF vars
<1> QED BY <1>1, <1>2, <1>3, <1>4, <1>5

\* Jobs that come to run in the background have not ended.
NewInBackground ==
  /\ background \subseteq background'
  /\ \A t \in Token \cap (background' \ background) : job[t].status \notin Final

\* A call that the step is not about.
LEMMA CallKept ==
  ASSUME IInv, [Next]_vars, NEW c \in Call, CallInv(c), Typed, NewInBackground,
         task'[c] = task[c], notice'[c] = notice[c],
         caller'[Result(c)] = caller[Result(c)], caller'[Notice(c)] = caller[Notice(c)]
  PROVE  CallInv(c)'
<1>0. /\ latest' \in {latest, latest + 1} /\ latest \in Nat
      /\ \A t \in Token : job[t].status \in Final => job'[t] = job[t]
  BY RegistryKeeps
<1>1. WaitsShow(c)'
  BY DEF CallInv, WaitsShow, Free
<1>2. HasStarted(c)'
  <2>1. task[c].own \in Nat
    BY BoundsAssumption DEF Typed, Token
  <2> QED BY <1>0, <2>1 DEF CallInv, HasStarted
<1>3. NoticeOfBackground(c)' /\ NotBegun(c)' /\ MetLater(c)'
  BY DEF CallInv, NoticeOfBackground, NotBegun, NewInBackground, MetLater
<1>4. ResultOfForeground(c)'
  BY <1>0 DEF CallInv, ResultOfForeground, NewInBackground
<1> QED BY <1>1, <1>2, <1>3, <1>4 DEF CallInv

\* The step of one call.
LEMMA OneCall ==
  ASSUME IInv, TaskInv, [Next]_vars, NEW c \in Call, Typed', NewInBackground,
         background' \subseteq 1 .. latest',
         CallInv(c)',
         \A d \in Call \ {c} : task'[d] = task[d] /\ notice'[d] = notice[d],
         \A w \in Waiter \ {Result(c), Notice(c)} : caller'[w] = caller[w]
  PROVE  TaskInv'
<1>1. ASSUME NEW d \in Call, d # c PROVE CallInv(d)'
  <2>1. /\ caller'[Result(d)] = caller[Result(d)]
        /\ caller'[Notice(d)] = caller[Notice(d)]
    BY <1>1, Fibers
  <2> QED BY <1>1, <2>1, CallKept DEF TaskInv
<1> QED BY <1>1 DEF TaskInv

\* The types of what a step finds.
LEMMA Found ==
  ASSUME IInv, TaskInv, NEW c \in Call
  PROVE  /\ Typed /\ CallInv(c) /\ background \subseteq 1 .. latest
         /\ latest \in Nat /\ latest \in Token \cup {0} /\ Token \subseteq Nat \ {0}
         /\ task[c] \in [at : Place, own : Token \cup {0}, of : Token \cup {0}]
         /\ Running => job[latest].status \notin Final /\ latest \in Token
         /\ caller \in [Waiter -> [at : {"free"}] \cup [at : {"waiting"}, token : Token]]
         /\ Result(c) \in Waiter /\ Notice(c) \in Waiter /\ Result(c) # Notice(c)
<1>1. Typed /\ CallInv(c) /\ background \subseteq 1 .. latest
  BY DEF TaskInv
<1>2. /\ latest \in Nat /\ latest \in Token \cup {0} /\ Token \subseteq Nat \ {0}
      /\ caller \in [Waiter -> [at : {"free"}] \cup [at : {"waiting"}, token : Token]]
  BY BoundsAssumption DEF IInv, TypeOK, Token
<1>3. task[c] \in [at : Place, own : Token \cup {0}, of : Token \cup {0}]
  BY <1>1 DEF Typed
<1>4. Running => job[latest].status \notin Final /\ latest \in Token
  BY <1>2 DEF Running, Final
<1> QED BY <1>1, <1>2, <1>3, <1>4, Fibers

LEMMA StartedStays ==
  ASSUME IInv, TaskInv, [Next]_vars, NEW c \in Call, task'[c].own = task[c].own,
         notice'[c].at = "promoting" => notice[c].at = "promoting",
         task'[c].at \in {"started", "launched"} => latest # 0
  PROVE  HasStarted(c)'
<1>1. latest' \in {latest, latest + 1} /\ latest \in Nat
  BY RegistryKeeps
<1>2. task[c].own \in Nat
  BY Found
<1>3. task[c].own <= latest
  BY Found DEF CallInv, HasStarted
<1>4. task'[c].own <= latest'
  BY <1>1, <1>2, <1>3
<1>5. task'[c].at \in {"started", "launched"} => latest' # 0
  BY <1>1
<1>6. notice'[c].at = "promoting" => latest' # 0
  BY <1>1, Found DEF CallInv, HasStarted
<1> QED BY <1>4, <1>5, <1>6 DEF HasStarted

\* A call goes to a place where nothing is claimed of it, or is claimed already.
LEMMA MoveKeeps ==
  ASSUME IInv, TaskInv, [Next]_vars, NEW c \in Call, NEW place \in Place \ {"result"},
         At(c, place), UNCHANGED <<notice, background, others>>,
         place \in {"called", "starting"} => task[c].at \in {"called", "starting"},
         place \in {"started", "launched"} => latest # 0,
         place = "launched" => task[c].own = 0 /\ notice[c].at = "none",
         (place = "waiting") <=> ~Free(Result(c))',
         caller'[Notice(c)] = caller[Notice(c)],
         \A w \in Waiter \ {Result(c), Notice(c)} : caller'[w] = caller[w]
  PROVE  TaskInv'
<1>0. /\ Typed /\ CallInv(c) /\ background \subseteq 1 .. latest
      /\ task[c] \in [at : Place, own : Token \cup {0}, of : Token \cup {0}]
      /\ latest \in Nat /\ Token \subseteq Nat \ {0}
  BY Found
<1>1. task'[c] = [at |-> place, own |-> task[c].own, of |-> task[c].of]
  BY <1>0 DEF At, Typed
<1>2. Typed' /\ \A d \in Call \ {c} : task'[d] = task[d]
  BY <1>0 DEF At, Typed
<1>3. latest' \in {latest, latest + 1}
  BY RegistryKeeps
<1>4. NewInBackground /\ background' \subseteq 1 .. latest'
  BY <1>0, <1>3 DEF NewInBackground
<1>5. WaitsShow(c)'
  <2>1. Free(Notice(c))' <=> Free(Notice(c))
    BY DEF Free
  <2>2. notice'[c] = notice[c] /\ (task'[c].at = "waiting" <=> place = "waiting")
    BY <1>1
  <2> QED BY <1>0, <2>1, <2>2 DEF CallInv, WaitsShow
<1>6. HasStarted(c)'
  BY <1>1, StartedStays
<1>7. NoticeOfBackground(c)' /\ ResultOfForeground(c)' /\ NotBegun(c)' /\ MetLater(c)'
  BY <1>0, <1>1 DEF CallInv, NoticeOfBackground, ResultOfForeground, NotBegun, MetLater
<1> QED BY <1>2, <1>4, <1>5, <1>6, <1>7, OneCall DEF CallInv

LEMMA ExtendsKeeps ==
  ASSUME IInv, TaskInv, [Next]_vars, NEW c \in Call, CallExtends(c) \/ CancelAborted(c)
  PROVE  TaskInv'
<1>1. UNCHANGED <<caller, notice, background, others>>
  BY DEF CallExtends, CancelAborted, Extend, Cancel, vars
<1>2. PICK place \in {"running", "starting", "failed"} :
        At(c, place) /\ (place = "starting" => task[c].at = "called")
  BY DEF CallExtends, CancelAborted
<1>3. Free(Result(c))'
  BY <1>1, Found DEF CallExtends, CancelAborted, CallInv, WaitsShow, Free
<1> QED BY <1>1, <1>2, <1>3, MoveKeeps DEF Place, Answers

LEMMA StopWaitingKeeps ==
  ASSUME IInv, TaskInv, [Next]_vars, NEW c \in Call, TakePromotion(c) \/ Abort(c)
  PROVE  TaskInv'
<1>1. /\ UNCHANGED <<notice, background, others>>
      /\ caller' = [caller EXCEPT ![Result(c)] = [at |-> "free"]]
  BY DEF TakePromotion, Abort, Answered
<1>2. PICK place \in {"running", "aborting"} : At(c, place)
  BY DEF TakePromotion, Abort
<1>3. /\ Free(Result(c))' /\ caller'[Notice(c)] = caller[Notice(c)]
      /\ \A w \in Waiter \ {Result(c), Notice(c)} : caller'[w] = caller[w]
  BY <1>1, Found DEF Free
<1> QED BY <1>1, <1>2, <1>3, MoveKeeps DEF Place, Answers

\* A call gets its answer from a job that has ended.
LEMMA ReturnsKeeps ==
  ASSUME IInv, TaskInv, [Next]_vars, NEW c \in Call, NEW t \in Token, Returns(c, t),
         UNCHANGED <<notice, background, others>>,
         Free(Result(c))',
         caller'[Notice(c)] = caller[Notice(c)],
         \A w \in Waiter \ {Result(c), Notice(c)} : caller'[w] = caller[w]
  PROVE  TaskInv'
<1>1. CASE At(c, "running") \/ At(c, "failed")
  BY <1>1, MoveKeeps DEF Place, Answers
<1>2. CASE /\ t \notin background /\ job[t].status \in Final
           /\ task' = [task EXCEPT ![c].at = "result", ![c].of = t]
  <2>0. /\ Typed /\ CallInv(c) /\ background \subseteq 1 .. latest
        /\ task[c] \in [at : Place, own : Token \cup {0}, of : Token \cup {0}]
        /\ latest \in Nat /\ Token \subseteq Nat \ {0}
    BY Found
  <2>1. task'[c] = [at |-> "result", own |-> task[c].own, of |-> t]
    BY <1>2, <2>0 DEF Typed
  <2>2. Typed' /\ \A d \in Call \ {c} : task'[d] = task[d]
    BY <1>2, <2>0 DEF Typed, Place, Answers
  <2>3. /\ latest' \in {latest, latest + 1}
        /\ job[t].status \in Final => job'[t] = job[t]
    BY RegistryKeeps
  <2>4. NewInBackground /\ background' \subseteq 1 .. latest'
    BY <2>0, <2>3 DEF NewInBackground
  <2>5. WaitsShow(c)'
    BY <2>0, <2>1 DEF CallInv, WaitsShow, Free
  <2>6. HasStarted(c)'
    BY <2>1, StartedStays
  <2>7. NoticeOfBackground(c)' /\ NotBegun(c)' /\ MetLater(c)'
    BY <2>0, <2>1 DEF CallInv, NoticeOfBackground, NotBegun, MetLater
  <2>8. ResultOfForeground(c)'
    BY <1>2, <2>1, <2>3 DEF ResultOfForeground
  <2> QED BY <2>2, <2>4, <2>5, <2>6, <2>7, <2>8, OneCall DEF CallInv
<1> QED BY <1>1, <1>2 DEF Returns, Final

LEMMA AwaitKeeps ==
  ASSUME IInv, TaskInv, [Next]_vars, NEW c \in Call, AwaitResult(c)
  PROVE  TaskInv'
<1>0. /\ UNCHANGED <<notice, background, others>> /\ task[c].at = "started"
      /\ latest \in Token /\ Free(Result(c))
  BY Found DEF AwaitResult, CallInv, HasStarted, WaitsShow
<1>1. CASE Wait(Result(c)) /\ At(c, "waiting")
  <2>1. caller' = [caller EXCEPT ![Result(c)] = [at |-> "waiting", token |-> latest]]
    BY <1>1 DEF Wait
  <2>2. /\ ~Free(Result(c))' /\ caller'[Notice(c)] = caller[Notice(c)]
        /\ \A w \in Waiter \ {Result(c), Notice(c)} : caller'[w] = caller[w]
    BY <2>1, Found DEF Free
  <2> QED BY <1>0, <1>1, <2>2, MoveKeeps DEF Place
<1>2. CASE ~(Running /\ latest \notin background) /\ Returns(c, latest) /\ UNCHANGED vars
  <2>1. UNCHANGED caller /\ Free(Result(c))'
    BY <1>0, <1>2 DEF vars, Free
  <2> QED BY <1>0, <1>2, <2>1, ReturnsKeeps
<1> QED BY <1>1, <1>2 DEF AwaitResult

LEMMA OutcomeKeeps ==
  ASSUME IInv, TaskInv, [Next]_vars, NEW c \in Call, TakeOutcome(c)
  PROVE  TaskInv'
<1>1. PICK t \in Token : Told(Result(c), t) /\ Returns(c, t)
  BY DEF TakeOutcome
<1>2. /\ UNCHANGED <<notice, background, others>>
      /\ caller' = [caller EXCEPT ![Result(c)] = [at |-> "free"]]
  BY <1>1 DEF TakeOutcome, Told, Answered
<1>3. /\ Free(Result(c))' /\ caller'[Notice(c)] = caller[Notice(c)]
      /\ \A w \in Waiter \ {Result(c), Notice(c)} : caller'[w] = caller[w]
  BY <1>2, Found DEF Free
<1> QED BY <1>1, <1>2, <1>3, ReturnsKeeps

\* start: a new job, or the one that is running.
LEMMA StartsKeeps ==
  ASSUME IInv, TaskInv, [Next]_vars, NEW c \in Call, CallStarts(c)
  PROVE  TaskInv'
<1>0. /\ Typed /\ CallInv(c) /\ background \subseteq 1 .. latest
      /\ task[c] \in [at : Place, own : Token \cup {0}, of : Token \cup {0}]
      /\ latest \in Nat /\ Token \subseteq Nat \ {0}
      /\ task[c].at = "starting" /\ UNCHANGED <<notice, others>>
  BY Found DEF CallStarts
<1>1. PICK place \in {"started", "launched"} :
        \/ /\ Start
           /\ task' = [task EXCEPT ![c].at = place, ![c].own = latest']
           /\ background' = IF place = "launched" THEN background \cup {latest'} ELSE background
        \/ Running /\ At(c, place) /\ UNCHANGED <<vars, background>>
  BY DEF CallStarts
<1>2. UNCHANGED caller
  BY <1>1 DEF Start, vars
<1>3. CASE /\ Start
           /\ task' = [task EXCEPT ![c].at = place, ![c].own = latest']
           /\ background' = IF place = "launched" THEN background \cup {latest'} ELSE background
  <2>1. latest' = latest + 1 /\ latest' \in Token
    BY <1>0, <1>3, BoundsAssumption DEF Start, Token
  <2>2. task'[c] = [at |-> place, own |-> latest', of |-> task[c].of]
    BY <1>0, <1>3 DEF Typed
  <2>3. Typed' /\ \A d \in Call \ {c} : task'[d] = task[d]
    BY <1>0, <1>3, <2>1 DEF Typed, Place
  <2>4. background' \subseteq 1 .. latest'
    BY <1>0, <1>3, <2>1
  <2>5. NewInBackground
    <3>1. job[latest'].status \notin Final
      BY <2>1, <1>0 DEF IInv, NotGivenOut, NoJob, Final
    <3> QED BY <1>3, <3>1 DEF NewInBackground
  <2>6. notice[c].at = "none"
    BY <1>0 DEF CallInv, NotBegun
  <2>7. WaitsShow(c)'
    BY <1>0, <1>2, <2>2 DEF CallInv, WaitsShow, Free
  <2>8. HasStarted(c)' /\ NotBegun(c)' /\ ResultOfForeground(c)'
    BY <1>0, <2>1, <2>2, <2>6 DEF HasStarted, NotBegun, ResultOfForeground
  <2>9. NoticeOfBackground(c)' /\ MetLater(c)'
    BY <1>0, <1>3, <2>2, <2>6 DEF NoticeOfBackground, MetLater
  <2> QED BY <1>0, <1>2, <2>3, <2>4, <2>5, <2>7, <2>8, <2>9, OneCall DEF CallInv
<1>4. CASE Running /\ At(c, place) /\ UNCHANGED <<vars, background>>
  <2>1. latest # 0 /\ task[c].own = 0 /\ notice[c].at = "none"
    BY <1>0, <1>4 DEF Running, CallInv, NotBegun
  <2>2. Free(Result(c)) /\ Free(Result(c))'
    BY <1>0, <1>2 DEF CallInv, WaitsShow, Free
  <2> QED BY <1>0, <1>2, <1>4, <2>1, <2>2, MoveKeeps DEF Place
<1> QED BY <1>1, <1>3, <1>4

\* promote, for whichever calls started the job.
LEMMA PromoteKeeps ==
  ASSUME IInv, TaskInv, [Next]_vars, Promote
  PROVE  TaskInv'
<1>0. /\ Running /\ latest \in Nat /\ latest # 0 /\ UNCHANGED <<vars, task, others>>
      /\ background' = background \cup {latest} /\ background \subseteq 1 .. latest
      /\ notice' = [c \in Call |-> IF task[c].own = latest THEN [at |-> "promoting", of |-> 0] ELSE notice[c]]
      /\ Typed
  BY RegistryKeeps DEF Promote, TaskInv, Running
<1>1. UNCHANGED <<latest, caller, job>> /\ job[latest].status \notin Final
  BY <1>0 DEF vars, Running, Final
<1>2. Typed' /\ background' \subseteq 1 .. latest'
  BY <1>0, <1>1 DEF Typed
<1>3. ASSUME NEW c \in Call PROVE CallInv(c)'
  <2>0. CallInv(c) /\ notice'[c] = IF task[c].own = latest THEN [at |-> "promoting", of |-> 0] ELSE notice[c]
    BY <1>0 DEF TaskInv
  <2>1. CASE task[c].own = latest
    <3>1. notice[c].at = "none" /\ task[c].at \notin {"called", "starting", "launched"}
      BY <1>0, <2>0, <2>1 DEF CallInv, NoticeOfBackground, NotBegun, Promote
    <3>2. WaitsShow(c)'
      BY <1>0, <1>1, <2>0, <2>1, <3>1 DEF CallInv, WaitsShow, Free
    <3> QED
      BY <1>0, <1>1, <2>0, <2>1, <3>1, <3>2
      DEF CallInv, HasStarted, NotBegun, NoticeOfBackground, ResultOfForeground, MetLater
  <2>2. CASE task[c].own # latest
    BY <1>0, <1>1, <2>0, <2>2, CallKept DEF NewInBackground
  <2> QED BY <2>1, <2>2
<1> QED BY <1>2, <1>3 DEF TaskInv

\* A notification goes on.
LEMMA NoticeKeeps ==
  ASSUME IInv, TaskInv, [Next]_vars, NEW c \in Call,
         NEW to \in {"waiting", "told", "dropped"}, NEW t \in Token, Noticed(c, to, t),
         task[c].own <= t, to = "waiting" => caller'[Notice(c)].token = t,
         \/ UNCHANGED task /\ notice[c].at # "none"
         \/ task[c].at = "launched" /\ At(c, "running"),
         UNCHANGED <<background, others>>,
         to = "waiting" <=> ~Free(Notice(c))',
         caller'[Result(c)] = caller[Result(c)],
         \A w \in Waiter \ {Result(c), Notice(c)} : caller'[w] = caller[w]
  PROVE  TaskInv'
<1>0. /\ Typed /\ CallInv(c) /\ background \subseteq 1 .. latest
      /\ task[c] \in [at : Place, own : Token \cup {0}, of : Token \cup {0}]
      /\ latest \in Nat /\ Token \subseteq Nat \ {0}
  BY Found
<1>1. /\ notice'[c] = [at |-> to, of |-> t] /\ task'[c].own = task[c].own /\ task'[c].of = task[c].of
      /\ \/ task'[c].at = task[c].at /\ notice[c].at # "none"
         \/ task[c].at = "launched" /\ task'[c].at = "running"
  BY <1>0 DEF Typed, At, Noticed
<1>2. Typed' /\ \A d \in Call \ {c} : task'[d] = task[d] /\ notice'[d] = notice[d]
  BY <1>0 DEF At, Noticed, Typed, Place, Answers
<1>3. /\ latest' \in {latest, latest + 1}
      /\ \A k \in Token : job[k].status \in Final => job'[k] = job[k]
  BY RegistryKeeps
<1>4. NewInBackground /\ background' \subseteq 1 .. latest'
  BY <1>0, <1>3 DEF NewInBackground
<1>5. WaitsShow(c)'
  <2>1. Free(Result(c))' <=> Free(Result(c))
    BY DEF Free
  <2> QED BY <1>0, <1>1, <2>1 DEF CallInv, WaitsShow
<1>6. HasStarted(c)'
  BY <1>0, <1>1, StartedStays DEF CallInv, HasStarted
<1>7. NoticeOfBackground(c)' /\ NotBegun(c)' /\ MetLater(c)'
  BY <1>0, <1>1 DEF CallInv, NoticeOfBackground, NotBegun, MetLater
<1>8. ResultOfForeground(c)'
  BY <1>0, <1>1, <1>3 DEF CallInv, ResultOfForeground
<1> QED BY <1>2, <1>4, <1>5, <1>6, <1>7, <1>8, OneCall DEF CallInv

LEMMA NotifyKeeps ==
  ASSUME IInv, TaskInv, [Next]_vars, NEW c \in Call, ReturnInBackground(c) \/ NotifyPromoted(c)
  PROVE  TaskInv'
<1>0. /\ UNCHANGED <<background, others>> /\ Notify(c)
      /\ task[c].at = "launched" \/ notice[c].at = "promoting"
      /\ \/ UNCHANGED task /\ notice[c].at # "none"
         \/ task[c].at = "launched" /\ At(c, "running")
  BY DEF ReturnInBackground, NotifyPromoted
<1>1. Free(Notice(c))
  BY <1>0, Found DEF CallInv, WaitsShow, NotBegun
<1>4. task[c].own <= latest /\ latest \in Token
  <2>1. latest # 0
    <3>1. CASE task[c].at = "launched"
      BY <3>1, Found DEF CallInv, HasStarted
    <3>2. CASE notice[c].at = "promoting"
      BY <3>2, Found DEF CallInv, HasStarted
    <3> QED BY <1>0, <3>1, <3>2
  <2> QED BY <2>1, Found DEF CallInv, HasStarted
<1>2. CASE Wait(Notice(c)) /\ Noticed(c, "waiting", latest)
  <2>1. caller' = [caller EXCEPT ![Notice(c)] = [at |-> "waiting", token |-> latest]]
    BY <1>2 DEF Wait
  <2>2. /\ ~Free(Notice(c))' /\ caller'[Result(c)] = caller[Result(c)]
        /\ \A w \in Waiter \ {Result(c), Notice(c)} : caller'[w] = caller[w]
        /\ caller'[Notice(c)].token = latest
    BY <2>1, Found DEF Free
  <2> QED BY <1>0, <1>2, <1>4, <2>2, NoticeKeeps
<1>3. CASE Noticed(c, Injected(latest), latest) /\ UNCHANGED vars
  <2>1. UNCHANGED caller /\ (Free(Notice(c))' <=> Free(Notice(c)))
    BY <1>3 DEF vars, Free
  <2>2. Injected(latest) \in {"told", "dropped"}
    BY DEF Injected
  <2> QED BY <1>0, <1>1, <1>3, <1>4, <2>1, <2>2, NoticeKeeps
<1> QED BY <1>0, <1>2, <1>3 DEF Notify

LEMMA InjectKeeps ==
  ASSUME IInv, TaskInv, [Next]_vars, NEW c \in Call, Inject(c)
  PROVE  TaskInv'
<1>1. PICK t \in Token : Told(Notice(c), t) /\ Noticed(c, Injected(t), t)
  BY DEF Inject
<1>2. /\ UNCHANGED <<task, background, others>> /\ notice[c].at # "none"
      /\ caller' = [caller EXCEPT ![Notice(c)] = [at |-> "free"]]
  BY <1>1 DEF Inject, Told, Answered
<1>3. /\ Free(Notice(c))' /\ caller'[Result(c)] = caller[Result(c)]
      /\ \A w \in Waiter \ {Result(c), Notice(c)} : caller'[w] = caller[w]
  BY <1>2, Found DEF Free
<1>4. Injected(t) \in {"told", "dropped"}
  BY DEF Injected
<1>5. task[c].own <= t
  BY <1>1, Found DEF Inject, Told, WaitsFor, CallInv, MetLater
<1> QED BY <1>1, <1>2, <1>3, <1>4, <1>5, NoticeKeeps

\* The runs and the other calls.
LEMMA QuietKeeps ==
  ASSUME IInv, TaskInv, [Next]_vars, Others \/ Runs \/ UNCHANGED taskVars
  PROVE  TaskInv'
<1>1. UNCHANGED <<task, notice, background, caller>>
  <2>1. CASE Others
    BY <2>1 DEF Others, Start, Extend, Cancel
  <2>2. CASE Runs
    BY <2>2 DEF Runs, tasks, BeginRun, InterruptRun, Settle, EndRun, Announce
  <2> QED BY <2>1, <2>2 DEF taskVars, vars
<1>0. others' \in 0 .. MaxOthers
  BY OthersBound DEF Others, Runs, tasks, taskVars, TaskInv, Typed
<1>2. Typed' /\ NewInBackground
  BY <1>0, <1>1 DEF TaskInv, Typed, NewInBackground
<1>3. background' \subseteq 1 .. latest'
  BY <1>1, RegistryKeeps DEF TaskInv
<1>4. ASSUME NEW c \in Call PROVE CallInv(c)'
  BY <1>1, <1>2, CallKept DEF TaskInv
<1> QED BY <1>2, <1>3, <1>4 DEF TaskInv

LEMMA TasksNextKeeps ==
  ASSUME IInv, TaskInv, [TasksNext]_taskVars
  PROVE  [Next]_vars /\ IInv' /\ TaskInv'
<1>1. [Next]_vars
  BY StepMaps
<1>2. IInv'
  BY <1>1, RegistryKeeps
<1>3. TaskInv'
  BY <1>1, ExtendsKeeps, StartsKeeps, AwaitKeeps, OutcomeKeeps, StopWaitingKeeps, NotifyKeeps,
     InjectKeeps, PromoteKeeps, QuietKeeps
  DEF TasksNext, Calling, Notifying
<1> QED BY <1>1, <1>2, <1>3

LEMMA InitTaskInv == TasksInit => Init /\ IInv /\ TaskInv
<1> SUFFICES ASSUME TasksInit PROVE Init /\ IInv /\ TaskInv
  OBVIOUS
<1>1. Init /\ IInv
  BY InitIInv DEF TasksInit
<1>2. Typed /\ background \subseteq 1 .. latest
  BY OthersBound DEF TasksInit, Typed, Place
<1>3. ASSUME NEW c \in Call PROVE CallInv(c)
  <2>1. Free(Result(c)) /\ Free(Notice(c))
    BY Fibers DEF TasksInit, Init, Free
  <2>2. latest = 0
    BY DEF TasksInit, Init
  <2> QED
    BY <2>1, <2>2 DEF TasksInit, CallInv, WaitsShow, HasStarted, NotBegun, NoticeOfBackground,
      ResultOfForeground, MetLater
<1> QED BY <1>1, <1>2, <1>3 DEF TaskInv

THEOREM TaskInvHolds == TasksSafe => [](IInv /\ TaskInv)
<1>1. IInv /\ TaskInv /\ [TasksNext]_taskVars => (IInv /\ TaskInv)'
  BY TasksNextKeeps
<1> QED BY <1>1, InitTaskInv, PTL DEF TasksSafe

\* The task tool, the calls nobody follows and whoever promotes or cancels a job use the
\* registry as background-job.ts lets them: every behaviour is one of BackgroundJob.
THEOREM Registry == TasksSafe => Safe
<1>1. IInv /\ TaskInv /\ [TasksNext]_taskVars => [Next]_vars
  BY TasksNextKeeps
<1> QED BY <1>1, InitTaskInv, TaskInvHolds, PTL DEF TasksSafe, Safe

\* So the outcome of a task is that of all its runs, decided once.
THEOREM TasksCompleteWithLast == TasksSafe => []CompletedWithLastOutput /\ OutcomeIsFinal
  BY Registry, CompletesWithLast, OutcomeDecidedOnce, PTL

\* The types of the task tool's state.
THEOREM TasksTypeCorrect == TasksSafe => []TasksOK
<1>1. IInv /\ TaskInv => TasksOK
  <2> SUFFICES ASSUME IInv, TaskInv PROVE TasksOK
    OBVIOUS
  <2>1. background \subseteq Token
    BY BoundsAssumption DEF IInv, TypeOK, TaskInv, Token
  <2> QED BY <2>1 DEF IInv, TaskInv, Typed, Place, CallInv, WaitsShow, TasksOK
<1> QED BY <1>1, TaskInvHolds, PTL

\* An outcome that some call returned is injected by no notification of the call that
\* started the job: whoever injects it as well met the job by its ID, having started none
\* or an earlier one (task.ts:256-262, 284-297, 333-342).
THEOREM ReportsOnce ==
  ASSUME NEW t \in Token
  PROVE  TasksSafe => []ReportedOnce(t)
<1>1. TaskInv => ReportedOnce(t)
  <2> SUFFICES ASSUME TaskInv, NEW c \in Call, NEW d \in Call, Returned(c, t), ToldOf(d, t)
               PROVE  task[d].own < t
    BY DEF ReportedOnce
  <2>1. t \notin background /\ t \in Nat \ {0}
    BY BoundsAssumption DEF TaskInv, CallInv, ResultOfForeground, Returned, Token
  <2>2. task[d].own \in background \cup {0}
    BY DEF TaskInv, CallInv, NoticeOfBackground, ToldOf
  <2>3. task[d].own <= t /\ task[d].own \in Nat
    BY BoundsAssumption DEF TaskInv, Typed, CallInv, MetLater, ToldOf, Token
  <2> QED BY <2>1, <2>2, <2>3
<1> QED BY <1>1, TaskInvHolds, PTL
===============================================================================
