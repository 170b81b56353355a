--------------------------- MODULE SerialExecution ---------------------------
(***************************************************************************)
(* What src/packages/core/src/session/run-coordinator.ts promises to its   *)
(* callers, with entries, fibers and deferreds abstracted away: the drains *)
(* of one key never overlap, and recorded work is drained again unless the *)
(* key is interrupted.                                                     *)
(***************************************************************************)
CONSTANT Key

VARIABLES
  owed,   \* work accepted for a key and not yet handed to a drain
  drain   \* the drain now executing for a key, if any

vars == <<owed, drain>>

Owed  == {"nothing", "followUp", "forced"}
Drain == {"none", "followUp", "forced"}

TypeOK == /\ owed \in [Key -> Owed]
          /\ drain \in [Key -> Drain]

Init == /\ owed = [k \in Key |-> "nothing"]
        /\ drain = [k \in Key |-> "none"]

\* "Registers one coalesced follow-up after newly recorded work."
Wake(k) == /\ owed[k] = "nothing"
           /\ owed' = [owed EXCEPT ![k] = "followUp"]
           /\ UNCHANGED drain

\* "Starts execution while idle or joins the active execution."
Resume(k) == /\ owed[k] = "nothing"
             /\ drain[k] = "none"
             /\ owed' = [owed EXCEPT ![k] = "forced"]
             /\ UNCHANGED drain

\* A drain begins only for owed work, only when the previous one has ended. A
\* wake that came in before it began may already be owed again.
Begin(k) == /\ owed[k] # "nothing"
            /\ drain[k] = "none"
            /\ drain' = [drain EXCEPT ![k] = owed[k]]
            /\ \E next \in {"nothing", "followUp"} :
                 owed' = [owed EXCEPT ![k] = next]

End(k) == /\ drain[k] # "none"
          /\ drain' = [drain EXCEPT ![k] = "none"]
          /\ UNCHANGED owed

\* "Stops active execution": nothing registered so far is owed any longer.
Interrupt(k) == /\ owed[k] # "nothing"
                /\ owed' = [owed EXCEPT ![k] = "nothing"]
                /\ UNCHANGED drain

Next == \E k \in Key : \/ Wake(k)
                       \/ Resume(k)
                       \/ Begin(k)
                       \/ End(k)
                       \/ Interrupt(k)

SafeSpec == Init /\ [][Next]_vars

\* Owed work never waits for anything but the drain in progress.
Spec == SafeSpec /\ \A k \in Key : WF_vars(Begin(k))
===============================================================================
