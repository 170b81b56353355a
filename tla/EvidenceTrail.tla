--------------------------- MODULE EvidenceTrail ---------------------------
(***************************************************************************)
(* The evidence trail of one session: how a gp_* tool call gets from the   *)
(* model's stream into the transcript, the decision ledger and the block   *)
(* that survives compaction.                                               *)
(*                                                                         *)
(* Three kinds of actor share the parts of the transcript.  The processor  *)
(* of the turn (session/processor.ts) handles the stream's events one by   *)
(* one and cleans up when the stream is over.  Every tool call runs in a   *)
(* detached fiber of its own (session/tools.ts: `run.promise`), which an   *)
(* interrupted turn does not stop.  Compaction (glasspane-compaction.ts)   *)
(* reads the parts between turns.  Both writers read a part, build its     *)
(* successor and publish it; the store lies between the two, so each is    *)
(* two steps here.                                                         *)
(*                                                                         *)
(* A call's arguments and output are reduced to the review dimension it    *)
(* declares and to whether the ledger gave a receipt for it.  The ledger   *)
(* is the set of calls it holds an entry of.                               *)
(***************************************************************************)
EXTENDS Naturals, Sequences, FiniteSets, SequencesExt

CONSTANTS
    Call,         \* tool calls the model may make, each with an ID of its own
    Dimension,    \* review dimensions
    None,
    DimensionOf,  \* the dimension each call declares, or None
    Planned,      \* the dimensions of the run plan
    MaxAnchors,   \* MAX_ANCHORS of the compaction plugin
    MaxCrashes    \* bound on process deaths

ASSUME CallAssumption ==
    /\ None \notin Dimension \cup Call
    /\ DimensionOf \in [Call -> Dimension \cup {None}]
    /\ Planned \subseteq Dimension
    /\ MaxAnchors \in Nat \ {0}
    /\ MaxCrashes \in Nat

VARIABLES
    transcript,  \* the calls that have a part, in the order of their parts
    part,        \* the stored part of each call
    tracked,     \* the calls in ctx.toolcalls of their processor
    turn,        \* what the session's processor is doing
    calls,       \* the calls the model made in this turn
    queue,       \* events of the stream the processor has not handled yet
    seen,        \* the part the processor has in hand: read and not yet written, or not yet tracked
    todo,        \* the calls cleanup has still to close
    exec,        \* where the fiber of each call is
    stash,       \* the part a tool fiber has read and not yet written
    receipt,     \* whether the call's output carries a ledger receipt
    cut,         \* the calls that were unsettled when their stream was torn down
    ledger,      \* the calls that have an entry in the decision ledger
    block,       \* the last block compaction injected
    crashes

stored == <<transcript, part, tracked>>
flow == <<turn, calls, queue, seen, todo, cut>>
tool == <<exec, stash, receipt>>
vars == <<stored, flow, tool, ledger, block, crashes>>

----------------------------------------------------------------------------
(* Data *)

Status == {"none", "pending", "running", "completed", "error"}
Settled == {"completed", "error"}

Part == [status : Status, dim : Dimension \cup {None}, receipt : BOOLEAN]

NoPart == [status |-> "none", dim |-> None, receipt |-> FALSE]

Pending == [NoPart EXCEPT !.status = "pending"]
Running(dim) == [NoPart EXCEPT !.status = "running", !.dim = dim]
Failed(p) == [p EXCEPT !.status = "error"]

\* The result's metadata replaces what was streamed while the call ran.
Completed(c) ==
    [status |-> "completed", dim |-> DimensionOf[c], receipt |-> receipt[c]]

Event(kind, c) == [kind |-> kind, call |-> c]

\* What the processor is about to do with a part, and the part as it knows it.
Seen == [op   : {"none", "track", "call", "result", "failure", "settle", "close"},
         call : Call \cup {None},
         part : Part]

Idle == [op |-> "none", call |-> None, part |-> NoPart]

Unfinished ==
    {c \in calls : \/ exec[c] # "done"
                   \/ c \in tracked
                   \/ \E i \in DOMAIN queue : queue[i].call = c}

NoBlock == [calls |-> 0, recorded |-> 0, lost |-> 0, shown |-> <<>>]

Init ==
    /\ transcript = <<>>
    /\ part = [c \in Call |-> NoPart]
    /\ tracked = {}
    /\ turn = "idle"
    /\ calls = {}
    /\ queue = <<>>
    /\ seen = Idle
    /\ todo = {}
    /\ exec = [c \in Call |-> "none"]
    /\ stash = [c \in Call |-> NoPart]
    /\ receipt = [c \in Call |-> FALSE]
    /\ cut = {}
    /\ ledger = {}
    /\ block = NoBlock
    /\ crashes = 0

----------------------------------------------------------------------------
(* The stream *)

\* A turn begins with a processor of its own, which tracks no calls.
StartTurn ==
    /\ turn = "idle"
    /\ turn' = "streaming"
    /\ calls' = {}
    /\ UNCHANGED <<stored, tool, queue, seen, todo, cut, ledger, block, crashes>>

New(c) == turn = "streaming" /\ exec[c] = "none" /\ c \notin cut

\* The model starts to write a call's input.
ModelNames(c) ==
    /\ New(c)
    /\ c \notin calls
    /\ calls' = calls \cup {c}
    /\ queue' = Append(queue, Event("input", c))
    /\ UNCHANGED <<stored, tool, turn, seen, todo, cut, ledger, block, crashes>>

\* The call is complete: its fiber starts, whether or not the processor has
\* got to the event.
ModelCalls(c) ==
    /\ New(c)
    /\ calls' = calls \cup {c}
    /\ queue' = Append(queue, Event("call", c))
    /\ exec' = [exec EXCEPT ![c] = "begun"]
    /\ UNCHANGED <<stored, stash, receipt, turn, seen, todo, cut, ledger, block, crashes>>

----------------------------------------------------------------------------
(* The processor: handleEvent *)

Handling(kinds) ==
    /\ turn = "streaming"
    /\ seen = Idle
    /\ queue # <<>>
    /\ Head(queue).kind \in kinds

\* Deviation: every tool-call event makes a part.
EnsureAgain(c) ==
    /\ Handling({"input", "call"})
    /\ Head(queue).call = c
    /\ transcript' = Append(transcript, c)
    /\ part' = [part EXCEPT ![c] = Pending]
    /\ seen' = [op |-> "track", call |-> c, part |-> Pending]
    /\ queue' = IF Head(queue).kind = "input" THEN Tail(queue) ELSE queue
    /\ UNCHANGED <<tracked, tool, turn, calls, todo, cut, ledger, block, crashes>>

\* ensureToolCall writes the part of a call that has none yet,
Ensure(c) ==
    /\ Handling({"input", "call"})
    /\ Head(queue).call = c
    /\ c \notin tracked
    /\ transcript' = Append(transcript, c)
    /\ part' = [part EXCEPT ![c] = Pending]
    /\ seen' = [op |-> "track", call |-> c, part |-> Pending]
    /\ queue' = IF Head(queue).kind = "input" THEN Tail(queue) ELSE queue
    /\ UNCHANGED <<tracked, tool, turn, calls, todo, cut, ledger, block, crashes>>

\* and tracks it in the step after.
Track ==
    /\ seen.op = "track"
    /\ tracked' = tracked \cup {seen.call}
    /\ seen' = Idle
    /\ UNCHANGED <<transcript, part, tool, turn, calls, queue, todo, cut, ledger, block, crashes>>

\* updateToolCall reads the part for the tool-call event.
ReadCall(c) ==
    /\ Handling({"call"})
    /\ Head(queue).call = c
    /\ c \in tracked
    /\ seen' = [op |-> "call", call |-> c, part |-> part[c]]
    /\ queue' = Tail(queue)
    /\ UNCHANGED <<stored, tool, turn, calls, todo, cut, ledger, block, crashes>>

\* completeToolCall and failToolCall act on a running part that is tracked.
ReadOutcome(c) ==
    /\ Handling({"result", "failure"})
    /\ Head(queue).call = c
    /\ seen' = IF c \in tracked /\ part[c].status = "running"
               THEN [op |-> Head(queue).kind, call |-> c, part |-> part[c]]
               ELSE Idle
    /\ queue' = Tail(queue)
    /\ UNCHANGED <<stored, tool, turn, calls, todo, cut, ledger, block, crashes>>

\* Deviation: the tool-call event starts the running part afresh.
SuccessorAfresh(op, c, p) ==
    CASE op = "call" -> Running(None)
      [] op = "result" -> Completed(c)
      [] op = "failure" -> Failed(p)
      [] op = "close" -> Failed(p)

\* What the processor makes of the part it has read.
Successor(op, c, p) ==
    CASE op = "call" -> Running(IF p.status = "running" THEN p.dim ELSE None)
      [] op = "result" -> Completed(c)
      [] op = "failure" -> Failed(p)
      [] op = "close" -> Failed(p)

\* Deviation: an outcome is written and the call stays in ctx.toolcalls.
WritePartUnsettled ==
    /\ seen.op \in {"call", "result", "failure"}
    /\ part' = [part EXCEPT ![seen.call] = Successor(seen.op, seen.call, seen.part)]
    /\ seen' = Idle
    /\ UNCHANGED <<transcript, tracked, tool, turn, calls, queue, todo, cut, ledger, block, crashes>>

\* Only a completed or failed call is settled, in the step after.
WritePart ==
    /\ seen.op \in {"call", "result", "failure"}
    /\ part' = [part EXCEPT ![seen.call] = Successor(seen.op, seen.call, seen.part)]
    /\ seen' = IF seen.op = "call" THEN Idle ELSE [seen EXCEPT !.op = "settle"]
    /\ UNCHANGED <<transcript, tracked, tool, turn, calls, queue, todo, cut, ledger, block, crashes>>

\* settleToolCall
SettleCall ==
    /\ seen.op = "settle"
    /\ tracked' = tracked \ {seen.call}
    /\ seen' = Idle
    /\ UNCHANGED <<transcript, part, tool, turn, calls, queue, todo, cut, ledger, block, crashes>>

----------------------------------------------------------------------------
(* The fiber of a tool call *)

At(c, place) == exec[c] = place

Goto(c, place) == exec' = [exec EXCEPT ![c] = place]

\* A malformed argument or a missing capability answers the call at once.
RefuseLocally(c) ==
    /\ At(c, "begun")
    /\ Goto(c, "plain")
    /\ UNCHANGED <<stored, flow, stash, receipt, ledger, block, crashes>>

\* declareDimension: updateToolCall reads the part, if the call has one yet.
ReadToDeclare(c) ==
    /\ At(c, "begun")
    /\ IF c \in tracked
       THEN Goto(c, "declaring") /\ stash' = [stash EXCEPT ![c] = part[c]]
       ELSE Goto(c, "asking") /\ UNCHANGED stash
    /\ UNCHANGED <<stored, flow, receipt, ledger, block, crashes>>

\* It publishes the part also when there is nothing to change, and the call is
\* in ctx.toolcalls again.
Declare(c) ==
    /\ At(c, "declaring")
    /\ part' = [part EXCEPT ![c] = IF stash[c].status \in {"pending", "running"}
                                   THEN Running(DimensionOf[c])
                                   ELSE stash[c]]
    /\ tracked' = tracked \cup {c}
    /\ stash' = [stash EXCEPT ![c] = NoPart]
    /\ Goto(c, "asking")
    /\ UNCHANGED <<transcript, flow, receipt, ledger, block, crashes>>

Permit(c) ==
    /\ At(c, "asking")
    /\ Goto(c, "requested")
    /\ UNCHANGED <<stored, flow, stash, receipt, ledger, block, crashes>>

\* The stream carries an outcome only while it is open.
Deliver(kind, c) ==
    queue' = IF c \in cut THEN queue ELSE Append(queue, Event(kind, c))

\* A rejected permission fails the call: there is no result.
Reject(c) ==
    /\ At(c, "asking")
    /\ Goto(c, "done")
    /\ Deliver("failure", c)
    /\ UNCHANGED <<stored, turn, calls, seen, todo, cut, stash, receipt, ledger, block, crashes>>

\* The engine answers with an evidence pack, or with none; a refusal, a
\* transport failure and the client's timeout are answers without one.
Answer(c) ==
    /\ At(c, "requested")
    /\ \/ Goto(c, "packed")
       \/ Goto(c, "plain")
    /\ UNCHANGED <<stored, flow, stash, receipt, ledger, block, crashes>>

\* Deviation: the note says "logged" whether or not the append succeeded.
LogUnchecked(c) ==
    /\ receipt' = [receipt EXCEPT ![c] = TRUE]
    /\ ledger' \in {ledger, ledger \cup {c}}

\* The tool.execute.after hook: one entry for an evidence pack, or a warning
\* when the ledger cannot be written.
Log(c) ==
    \/ /\ ledger' = ledger \cup {c}
       /\ receipt' = [receipt EXCEPT ![c] = TRUE]
    \/ UNCHANGED <<ledger, receipt>>

Record(c) ==
    /\ \/ At(c, "packed") /\ Log(c)
       \/ At(c, "plain") /\ UNCHANGED <<ledger, receipt>>
    /\ Goto(c, "noted")
    /\ UNCHANGED <<stored, flow, stash, block, crashes>>

\* The result goes to the stream.
Return(c) ==
    /\ At(c, "noted")
    /\ c \notin cut
    /\ Goto(c, "done")
    /\ Deliver("result", c)
    /\ UNCHANGED <<stored, turn, calls, seen, todo, cut, stash, receipt, ledger, block, crashes>>

\* After an abort the fiber completes its call itself, if it is still tracked.
ReadToComplete(c) ==
    /\ At(c, "noted")
    /\ c \in cut
    /\ Goto(c, IF c \in tracked /\ part[c].status = "running" THEN "saving" ELSE "done")
    /\ UNCHANGED <<stored, flow, stash, receipt, ledger, block, crashes>>

Save(c) ==
    /\ At(c, "saving")
    /\ part' = [part EXCEPT ![c] = Completed(c)]
    /\ Goto(c, "saved")
    /\ UNCHANGED <<transcript, tracked, flow, stash, receipt, ledger, block, crashes>>

SettleSaved(c) ==
    /\ At(c, "saved")
    /\ tracked' = tracked \ {c}
    /\ Goto(c, "done")
    /\ UNCHANGED <<transcript, part, flow, stash, receipt, ledger, block, crashes>>

----------------------------------------------------------------------------
(* The end of a turn *)

\* A stream ends by itself once every call's outcome went through it.
StreamEnds ==
    /\ turn = "streaming"
    /\ seen = Idle
    /\ queue = <<>>
    /\ \A c \in calls : exec[c] = "done"
    /\ turn' = "draining"
    /\ UNCHANGED <<stored, tool, calls, queue, seen, todo, cut, ledger, block, crashes>>

\* A failure follows the model's chunks; outcomes behind it are lost.  The
\* attempt is repeated within the turn, or the turn is over.
StreamFails ==
    /\ turn = "streaming"
    /\ seen = Idle
    /\ \A i \in DOMAIN queue : queue[i].kind \in {"result", "failure"}
    /\ cut' = cut \cup Unfinished
    /\ queue' = <<>>
    /\ turn' \in {"streaming", "draining"}
    /\ UNCHANGED <<stored, tool, calls, seen, todo, ledger, block, crashes>>

\* The user interrupts: whatever the handler was doing is dropped.
Interrupt ==
    /\ turn = "streaming"
    /\ cut' = cut \cup Unfinished
    /\ queue' = <<>>
    /\ seen' = Idle
    /\ turn' = "draining"
    /\ UNCHANGED <<stored, tool, calls, todo, ledger, block, crashes>>

\* Deviation: cleanup closes the calls that never ran only.
GiveUpPending ==
    /\ turn = "draining"
    /\ turn' = "closing"
    /\ todo' = {c \in tracked \cap calls : part[c].status = "pending"}
    /\ UNCHANGED <<stored, tool, calls, queue, seen, cut, ledger, block, crashes>>

\* cleanup waits for the calls it tracks, but for 250 ms only.
GiveUp ==
    /\ turn = "draining"
    /\ turn' = "closing"
    /\ todo' = tracked \cap calls
    /\ UNCHANGED <<stored, tool, calls, queue, seen, cut, ledger, block, crashes>>

ReadToClose(c) ==
    /\ turn = "closing"
    /\ seen = Idle
    /\ c \in todo
    /\ IF c \in tracked
       THEN seen' = [op |-> "close", call |-> c, part |-> part[c]]
       ELSE seen' = Idle
    /\ todo' = todo \ {c}
    /\ UNCHANGED <<stored, tool, turn, calls, queue, cut, ledger, block, crashes>>

Close ==
    /\ seen.op = "close"
    /\ part' = [part EXCEPT ![seen.call] = Successor("close", seen.call, seen.part)]
    /\ seen' = Idle
    /\ UNCHANGED <<transcript, tracked, tool, turn, calls, queue, todo, cut, ledger, block, crashes>>

EndTurn ==
    /\ turn = "closing"
    /\ seen = Idle
    /\ todo = {}
    /\ tracked' = tracked \ calls
    /\ turn' = "idle"
    /\ UNCHANGED <<transcript, part, tool, calls, queue, seen, todo, cut, ledger, block, crashes>>

\* The process dies; parts and ledger stay as they are.
Crash ==
    /\ crashes < MaxCrashes
    /\ crashes' = crashes + 1
    /\ cut' = cut \cup Unfinished
    /\ exec' = [c \in Call |-> IF exec[c] = "none" THEN "none" ELSE "done"]
    /\ stash' = [c \in Call |-> NoPart]
    /\ tracked' = {}
    /\ turn' = "idle"
    /\ calls' = {}
    /\ queue' = <<>>
    /\ seen' = Idle
    /\ todo' = {}
    /\ UNCHANGED <<transcript, part, receipt, ledger, block>>

----------------------------------------------------------------------------
(* Compaction *)

\* collectEvidenceAnchors: the settled calls, those with a receipt, and the
\* declarations that reached no anchor.
SettledCalls == {c \in ToSet(transcript) : part[c].status \in Settled}

IsAnchor(c) == part[c].status = "completed" /\ part[c].receipt

Anchors == {c \in SettledCalls : IsAnchor(c)}

LostDeclarations == {c \in SettledCalls : ~IsAnchor(c) /\ part[c].dim # None}

\* The part of c comes before the part of d.
Older(c, d) ==
    \E i, j \in DOMAIN transcript : i < j /\ transcript[i] = c /\ transcript[j] = d

\* Unplanned dimensions go first, then calls that declared none.
Rank(c) ==
    IF part[c].dim = None THEN 1
    ELSE IF part[c].dim \in Planned THEN 2 ELSE 0

\* Deviation: the plan does not order the drop.
DroppedByAge(c, d) == Older(c, d)

\* The order of selectAnchors: c is dropped before d.
DroppedBefore(c, d) ==
    IF Planned = {} \/ Rank(c) = Rank(d) THEN Older(c, d) ELSE Rank(c) < Rank(d)

\* What is left of them when all but MaxAnchors have been dropped.
SelectAnchors(anchors) ==
    {c \in anchors : Cardinality({d \in anchors : DroppedBefore(c, d)}) < MaxAnchors}

\* As a sequence in the order of the parts: the n-th has n - 1 older ones.
InOrder(anchors) ==
    [n \in 1 .. Cardinality(anchors) |->
        CHOOSE c \in anchors : Cardinality({d \in anchors : Older(d, c)}) = n - 1]

\* injectEvidenceAnchors: no block for a session without gp_* calls.
Compact ==
    /\ turn = "idle"
    /\ SettledCalls # {}
    /\ block' = [calls |-> Cardinality(SettledCalls),
                 recorded |-> Cardinality(Anchors),
                 lost |-> Cardinality(LostDeclarations),
                 shown |-> InOrder(SelectAnchors(Anchors))]
    /\ UNCHANGED <<stored, flow, tool, ledger, crashes>>

----------------------------------------------------------------------------
Handler ==
    \/ \E c \in Call : Ensure(c) \/ ReadCall(c) \/ ReadOutcome(c)
    \/ Track
    \/ WritePart
    \/ SettleCall

Cleanup ==
    \/ GiveUp
    \/ \E c \in Call : ReadToClose(c)
    \/ Close
    \/ EndTurn

Fiber(c) ==
    \/ RefuseLocally(c)
    \/ ReadToDeclare(c)
    \/ Declare(c)
    \/ Permit(c)
    \/ Reject(c)
    \/ Answer(c)
    \/ Record(c)
    \/ Return(c)
    \/ ReadToComplete(c)
    \/ Save(c)
    \/ SettleSaved(c)

Next ==
    \/ StartTurn
    \/ \E c \in Call : ModelNames(c) \/ ModelCalls(c)
    \/ Handler
    \/ \E c \in Call : Fiber(c)
    \/ StreamEnds
    \/ StreamFails
    \/ Interrupt
    \/ Cleanup
    \/ Crash
    \/ Compact

\* The processor's own steps go on; permissions, the engine and the model
\* need never answer.
Fairness == WF_vars(Handler) /\ WF_vars(Cleanup)

Safe == Init /\ [][Next]_vars
Spec == Safe /\ Fairness

----------------------------------------------------------------------------
(* Properties *)

\* Every part, event and fiber is of its kind.  A part exists exactly for the
\* calls of the transcript, each once, and only those are tracked.
TypeOK ==
    /\ transcript \in Seq(Call)
    /\ IsInjective(transcript)
    /\ part \in [Call -> Part]
    /\ \A c \in Call : part[c].status = "none" <=> c \notin ToSet(transcript)
    /\ tracked \subseteq ToSet(transcript)
    /\ turn \in {"idle", "streaming", "draining", "closing"}
    /\ calls \subseteq Call
    /\ queue \in Seq([kind : {"input", "call", "result", "failure"}, call : Call])
    /\ seen \in Seen
    /\ todo \subseteq calls
    /\ exec \in [Call -> {"none", "begun", "declaring", "asking", "requested",
                          "packed", "plain", "noted", "saving", "saved", "done"}]
    /\ stash \in [Call -> Part]
    /\ receipt \in [Call -> BOOLEAN]
    /\ cut \subseteq Call
    /\ ledger \subseteq Call
    /\ block.shown \in Seq(Call)
    /\ crashes \in 0 .. MaxCrashes

\* A receipt in the transcript always has its entry in the ledger, also after
\* a crash at any point and in what compaction made of it.
ReceiptsAreInLedger ==
    /\ \A c \in Call : part[c].receipt => c \in ledger
    /\ ToSet(block.shown) \subseteq ledger

\* The block shows as many anchors as it may, in order, and never drops one
\* that the run plan or recency puts before one it shows.
PlannedAnchorsSurvive ==
    [][block' # block =>
        LET shown == block'.shown
        IN  /\ Len(shown) = IF Cardinality(Anchors) <= MaxAnchors
                            THEN Cardinality(Anchors) ELSE MaxAnchors
            /\ ToSet(shown) \subseteq Anchors
            /\ \A i, j \in DOMAIN shown : i < j => Older(shown[i], shown[j])
            /\ \A c \in ToSet(shown), d \in Anchors \ ToSet(shown) :
                  /\ Planned # {} => Rank(d) <= Rank(c)
                  /\ Planned = {} \/ Rank(d) = Rank(c) => Older(d, c)]_vars

\* A turn that ended, for whatever reason, settles each call it tracks or
\* closes it, even if neither the user nor the engine ever answers.
AbortSettlesCalls ==
    \A c \in Call :
        (turn = "draining" /\ c \in tracked \cap calls)
            ~> (part[c].status \in Settled \/ crashes > 0)

\* An entry of a call whose stream was not torn down is in the transcript
\* once the turn is over: completed, with its receipt.  And a dimension that a
\* part carries is lost only to a write that the processor had in hand before
\* the declaration arrived.
DecisionsReachTheTranscript ==
    /\ [](turn = "idle" =>
            \A c \in ledger \ cut : part[c].status = "completed" /\ part[c].receipt)
    /\ [][\A c \in Call :
            part[c].dim # None /\ part'[c].dim # part[c].dim
                => seen.call = c /\ seen.part.dim # part[c].dim]_vars

\* "No receipt = the chain holds no entry for this call": a block that says no
\* decision-log entries were recorded in this session is right.
AbsenceIsTrue ==
    [][block' # block /\ block'.recorded = 0 => ledger = {}]_vars
=============================================================================
