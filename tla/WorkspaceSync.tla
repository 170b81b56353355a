---------------------------- MODULE WorkspaceSync ----------------------------
(***************************************************************************)
(* One Session kept by a control server and by remote workspace servers    *)
(* (packages/opencode/src/control-plane/workspace.ts): each has an event   *)
(* store of its own.  The control server follows every remote workspace    *)
(* with a sync fiber (an SSE stream, opened before the missing history is  *)
(* asked for) and moves the Session between workspaces with sessionWarp.   *)
(*                                                                         *)
(* An event is a session.updated, whose data is the workspaceID it carries *)
(* and its projector writes to the Session's row, or a message's.          *)
(***************************************************************************)
EXTENDS EventStore, Sequences

CONSTANTS
  Session,
  Control,    \* the control server
  Remote,     \* workspaces with a server of their own
  Local,      \* workspaces that are directories of the control server
  Message,    \* the data of every event that is not a session.updated
  Project,    \* projectID: who owns a Session that was moved out of its workspace
  Origin,     \* servers on which the Session may have been created
  MaxEvents,  \* bound: events published
  MaxWarps,   \* bound: requests to move the Session
  MaxFaults,  \* bound: requests and streams that fail
  MaxStarts   \* bound: startSync

ASSUME SessionIsAggregate == Aggregate = {Session}
ASSUME OwnersAssumption == /\ Owner = Remote \cup Local \cup {Project}
                           /\ Data = Remote \cup Local \cup {None, Message}
                           /\ Remote \cap Local = {} /\ Project \notin Remote \cup Local
                           /\ Message \notin Owner \cup {None}
ASSUME OriginAssumption == Origin \subseteq Remote \cup {Control} /\ Control \notin Remote
ASSUME SyncBounds == /\ MaxEvents \in Nat \ {0} /\ EventId = 0 .. MaxEvents - 1
                     /\ MaxWarps \in Nat /\ MaxFaults \in Nat /\ MaxStarts \in Nat

Node == Remote \cup {Control}

\* A request to move the Session is its number; each runs in a fiber of its own.
Warp == 1 .. MaxWarps

VARIABLES
  db,      \* each server's event tables
  link,    \* the sync fiber of each remote workspace
  loop,    \* each server's prompt loop of the Session: what it has read for a patch
  warp,    \* each request to move the Session
  claimed, \* history: the request that claimed the Session last (0: none)
  budget   \* what is left of the bounds: [event, fault, start]

vars == <<db, link, loop, warp, claimed, budget>>

\* The Session's rows that follow a sequence, in order.
RowsAfter(n, seq) ==
  [i \in 1 .. db[n].seq[Session] - seq |->
     CHOOSE e \in After(db[n], Session, seq) : e.seq = seq + i]

Exists(n) == db[n].seq[Session] # -1

\* SessionTable.workspace_id: the projection of the last session.updated.
WorkspaceIn(n) ==
  LET updates == {e \in After(db[n], Session, -1) : e.data # Message} IN
    IF updates = {} THEN None
    ELSE (CHOOSE e \in updates : \A f \in updates : f.seq <= e.seq).data

\* connections: the status shown of a workspace.
Link == [at     : {"off", "waiting", "opening", "asking", "applying", "listening"},
         status : {"none", "disconnected", "connecting", "connected", "error"},
         batch  : Seq(Event),   \* history still to be replayed
         queue  : Seq(Event)]   \* what the open stream holds

Off(status) == [at |-> "off", status |-> status, batch |-> <<>>, queue |-> <<>>]

NoLoop  == [at |-> "none", read |-> None]
Working == [at |-> "working", read |-> None]

\* A loop that patches the Session has read the workspaceID it will repeat.
Loop == [at : {"none", "working", "patching"}, read : Remote \cup Local \cup {None}]

NoWarp == [at |-> "idle", previous |-> None, target |-> None, batch |-> <<>>, rows |-> <<>>, sent |-> 0]

\* The workspaces that the Session is moved from and to, the last history of the first,
\* the rows sent to the second and how many of them it has.
Move == [at       : {"idle", "final", "claim", "patch", "send", "set", "over"},
         previous : Remote \cup Local \cup {None},
         target   : Remote \cup Local \cup {None},
         batch    : Seq(Event),
         rows     : Seq(Event),
         sent     : Nat]

Budget == [event : 0 .. MaxEvents, fault : 0 .. MaxFaults, start : 0 .. MaxStarts]

TypeOK ==
  /\ db \in [Node -> Store] /\ \A n \in Node : Contiguous(db[n]) /\ UniqueIds(db[n])
  /\ link \in [Remote -> Link]
  /\ \A w \in Remote : /\ link[w].batch # <<>> => link[w].at = "applying"
                       /\ link[w].status = "connected" <=> link[w].at = "listening"
  /\ loop \in [Node -> Loop]
  /\ warp \in [Warp -> Move] /\ \A m \in Warp : warp[m].sent <= Len(warp[m].rows)
  /\ claimed \in Warp \cup {0}
  /\ budget \in Budget

\* The Session was created on one server, in its own workspace.
Init ==
  /\ \E n \in Origin :
       db = [m \in Node |-> IF m # n THEN EmptyStore
                            ELSE Appended(EmptyStore,
                                   Following(EmptyStore, Session, MaxEvents - 1,
                                             IF n = Control THEN None ELSE n), None)]
  /\ link = [w \in Remote |-> Off("none")]
  /\ loop = [n \in Node |-> NoLoop]
  /\ warp = [m \in Warp |-> NoWarp]
  /\ claimed = 0
  /\ budget = [event |-> MaxEvents - 1, fault |-> MaxFaults, start |-> MaxStarts]

Spend(what) == budget[what] > 0 /\ budget' = [budget EXCEPT ![what] = @ - 1]

\* Deviation: the stream is opened when the history has been replayed.
StreamingLate(w) == link[w].at = "listening"

Streaming(w) == link[w].at \in {"asking", "applying", "listening"}

-------------------------------------------------------------------------------
(* Publishing *)

\* The next event of n's log.  A remote server puts it on the stream, if the control
\* server has one open.
Publish(n, data) ==
  LET e == Following(db[n], Session, budget.event - 1, data) IN
    /\ Exists(n)
    /\ Spend("event")
    /\ db' = [db EXCEPT ![n] = Appended(@, e, None)]
    /\ link' = [w \in Remote |-> IF w = n /\ Streaming(w)
                                 THEN [link[w] EXCEPT !.queue = Append(@, e)] ELSE link[w]]

moves == <<warp, claimed>>

\* A prompt is served where the Session is; a request for a remote workspace is
\* forwarded only while the workspace is syncing.  (With no event left to publish, a loop
\* and a patch are not begun.)
StartLoop(n) ==
  /\ loop[n].at = "none" /\ Exists(n) /\ budget.event > 0
  /\ IF n = Control THEN WorkspaceIn(Control) \notin Remote
     ELSE WorkspaceIn(Control) = n /\ link[n].at # "off" /\ link[n].status # "error"
  /\ loop' = [loop EXCEPT ![n] = Working]
  /\ UNCHANGED <<db, link, moves, budget>>

\* A message.
WriteMessage(n) ==
  /\ loop[n].at = "working"
  /\ Publish(n, Message)
  /\ UNCHANGED <<loop, moves>>

\* A patch of the Session reads it, and publishes what it has read with its changes.
ReadForPatch(n) ==
  /\ loop[n].at = "working" /\ budget.event > 0
  /\ loop' = [loop EXCEPT ![n] = [at |-> "patching", read |-> WorkspaceIn(n)]]
  /\ UNCHANGED <<db, link, moves, budget>>

PublishPatch(n) ==
  /\ loop[n].at = "patching"
  /\ Publish(n, loop[n].read)
  /\ loop' = [loop EXCEPT ![n] = Working]
  /\ UNCHANGED moves

-------------------------------------------------------------------------------
(* The sync fiber *)

SetLink(w, l) == link' = [link EXCEPT ![w] = l]

\* startSync: unless the fiber exists and is not in error.
StartSync(w) ==
  /\ link[w].at = "off" \/ link[w].status = "error"
  /\ Spend("start")
  /\ SetLink(w, [Off("connecting") EXCEPT !.at = "opening"])
  /\ UNCHANGED <<db, loop, moves>>

\* The stream is open: what is published from now on is kept by it.
Connect(w) ==
  /\ link[w].at = "opening"
  /\ SetLink(w, [link[w] EXCEPT !.at = "asking"])
  /\ UNCHANGED <<db, loop, moves, budget>>

\* The answer of POST /sync/history: what follows the sequence the control server
\* reported, and everything of a Session it did not report.
HistoryOf(w) ==
  RowsAfter(w, IF WorkspaceIn(Control) = w THEN db[Control].seq[Session] ELSE -1)

AskHistory(w) ==
  /\ link[w].at = "asking"
  /\ SetLink(w, [link[w] EXCEPT !.at = "applying", !.batch = HistoryOf(w)])
  /\ UNCHANGED <<db, loop, moves, budget>>

\* Either request failed.
ConnectFails(w) ==
  /\ link[w].at \in {"opening", "asking"}
  /\ Spend("fault")
  /\ SetLink(w, [Off("error") EXCEPT !.at = "waiting"])
  /\ UNCHANGED <<db, loop, moves>>

Outcome(e, w) == ReplayOutcome(db[Control], e, w, FALSE)

ReplayAtControl(e, w) == db' = [db EXCEPT ![Control] = Replayed(@, e, w, FALSE)]

\* One event of the history.  A refusal is a defect: the fiber dies with it, and the
\* status is left as it was.
ApplyHistory(w) ==
  /\ link[w].at = "applying" /\ link[w].batch # <<>>
  /\ ReplayAtControl(Head(link[w].batch), w)
  /\ SetLink(w, IF Outcome(Head(link[w].batch), w) = "refused" THEN Off("connecting")
                ELSE [link[w] EXCEPT !.batch = Tail(@)])
  /\ UNCHANGED <<loop, moves, budget>>

Listen(w) ==
  /\ link[w].at = "applying" /\ link[w].batch = <<>>
  /\ SetLink(w, [link[w] EXCEPT !.at = "listening", !.status = "connected"])
  /\ UNCHANGED <<db, loop, moves, budget>>

\* One event of the stream; one that is refused is dropped.
Deliver(w) ==
  /\ link[w].at = "listening" /\ link[w].queue # <<>>
  /\ ReplayAtControl(Head(link[w].queue), w)
  /\ SetLink(w, [link[w] EXCEPT !.queue = Tail(@)])
  /\ UNCHANGED <<loop, moves, budget>>

\* The stream ends, and what it still held is lost.  A stream that fails ends the
\* fiber as well.
StreamEnds(w) ==
  /\ link[w].at = "listening"
  /\ Spend("fault")
  /\ SetLink(w, [Off("disconnected") EXCEPT !.at = "waiting"]) \/ SetLink(w, Off("error"))
  /\ UNCHANGED <<db, loop, moves>>

Reconnect(w) ==
  /\ link[w].at = "waiting"
  /\ SetLink(w, [link[w] EXCEPT !.at = "opening", !.status = "connecting"])
  /\ UNCHANGED <<db, loop, moves, budget>>

-------------------------------------------------------------------------------
(* sessionWarp.  Nothing keeps two requests apart. *)

\* What a request does that has been taken up.
Goes(m, at) == warp' = [warp EXCEPT ![m].at = at]

\* It is over; the workspaces it was about are remembered.
Over(m) ==
  warp' = [warp EXCEPT ![m] = [NoWarp EXCEPT !.at = "over", !.previous = warp[m].previous,
                                             !.target = warp[m].target]]

\* The Session's workspace is read.  A prompt running in a local one is cancelled.
StartWarp(m, target) ==
  LET previous == WorkspaceIn(Control) IN
    /\ warp[m].at = "idle" /\ \A other \in 1 .. m - 1 : warp[other].at # "idle"
    /\ warp' = [warp EXCEPT ![m] =
                  [NoWarp EXCEPT !.previous = previous, !.target = target,
                                 !.at = IF previous \in Remote THEN "final"
                                        ELSE IF previous \in Local THEN "claim" ELSE "patch"]]
    /\ loop' = IF previous \in Local THEN [loop EXCEPT ![Control] = NoLoop] ELSE loop
    /\ UNCHANGED <<db, link, claimed, budget>>

\* The last history of the previous workspace; that it cannot be had is only logged.
FinalHistory(m) ==
  /\ warp[m].at = "final"
  /\ \/ /\ warp' = [warp EXCEPT ![m] = [@ EXCEPT !.at = "claim",
                                                  !.batch = HistoryOf(warp[m].previous)]]
        /\ UNCHANGED budget
     \/ Goes(m, "claim") /\ Spend("fault")
  /\ UNCHANGED <<db, link, loop, claimed>>

\* A defect of the replay ends the move.
FinalReplay(m) ==
  /\ warp[m].at = "claim" /\ warp[m].batch # <<>>
  /\ LET e == Head(warp[m].batch)
         w == warp[m].previous IN
       /\ ReplayAtControl(e, w)
       /\ IF Outcome(e, w) = "refused" THEN Over(m) ELSE warp' = [warp EXCEPT ![m].batch = Tail(@)]
  /\ UNCHANGED <<link, loop, claimed, budget>>

\* Deviation: the Session is moved without being claimed.
ClaimNothing(m) ==
  /\ warp[m].at = "claim" /\ warp[m].batch = <<>>
  /\ Goes(m, "patch") /\ claimed' = m
  /\ UNCHANGED <<db, link, loop, budget>>

Claim(m) ==
  /\ warp[m].at = "claim" /\ warp[m].batch = <<>>
  /\ db' = [db EXCEPT ![Control] =
              Claimed(@, Session, IF warp[m].target = None THEN Project ELSE warp[m].target)]
  /\ Goes(m, "patch") /\ claimed' = m
  /\ UNCHANGED <<link, loop, budget>>

\* To a workspace of the control server itself, or to none.
SetLocalWorkspace(m) ==
  /\ warp[m].at = "patch" /\ warp[m].target \notin Remote
  /\ Publish(Control, warp[m].target)
  /\ Over(m)
  /\ UNCHANGED <<loop, claimed>>

\* To a remote one: the rows are read, and the move fails if there are none.
ReadRows(m) ==
  /\ warp[m].at = "patch" /\ warp[m].target \in Remote
  /\ IF Exists(Control)
     THEN warp' = [warp EXCEPT ![m] = [@ EXCEPT !.at = "send", !.rows = RowsAfter(Control, -1)]]
     ELSE Over(m)
  /\ UNCHANGED <<db, link, loop, claimed, budget>>

Sending(m) == warp[m].at = "send" /\ warp[m].sent < Len(warp[m].rows)

NextRow(m) == warp[m].rows[warp[m].sent + 1]

\* Deviation: a row that the target refuses is passed over.
SendRowRegardless(m) ==
  /\ Sending(m)
  /\ db' = [db EXCEPT ![warp[m].target] = Replayed(@, NextRow(m), warp[m].target, TRUE)]
  /\ warp' = [warp EXCEPT ![m].sent = @ + 1]
  /\ UNCHANGED <<link, loop, claimed, budget>>

\* POST /sync/replay, ten rows a request; the target replays them one by one, and
\* fails the request, and so the move, with the first that it refuses.
SendRow(m) ==
  /\ Sending(m)
  /\ LET target == warp[m].target IN
       /\ db' = [db EXCEPT ![target] = Replayed(@, NextRow(m), target, TRUE)]
       /\ IF ReplayOutcome(db[target], NextRow(m), target, TRUE) = "refused" THEN Over(m)
          ELSE warp' = [warp EXCEPT ![m].sent = @ + 1]
  /\ UNCHANGED <<link, loop, claimed, budget>>

\* POST /sync/steal: the target sets the workspace in its own log.
Steal(m) ==
  /\ warp[m].at = "send" /\ warp[m].sent = Len(warp[m].rows)
  /\ Publish(warp[m].target, warp[m].target)
  /\ Goes(m, "set")
  /\ UNCHANGED <<loop, claimed>>

\* And the control server in its.
SetRemoteWorkspace(m) ==
  /\ warp[m].at = "set"
  /\ Publish(Control, warp[m].target)
  /\ Over(m)
  /\ UNCHANGED <<loop, claimed>>

\* The patch does not apply, the target is unknown, a request or its answer is lost: the
\* move is given up as it stands.
WarpFails(m) ==
  /\ warp[m].at \in {"patch", "send", "set"}
  /\ Spend("fault")
  /\ Over(m)
  /\ UNCHANGED <<db, link, loop, claimed>>

Sync(w) ==
  \/ Connect(w) \/ AskHistory(w) \/ ApplyHistory(w) \/ Listen(w) \/ Deliver(w) \/ Reconnect(w)

Warping(m) ==
  \/ FinalHistory(m) \/ FinalReplay(m) \/ Claim(m) \/ SetLocalWorkspace(m) \/ ReadRows(m)
  \/ SendRow(m) \/ Steal(m) \/ SetRemoteWorkspace(m) \/ WarpFails(m)

Next ==
  \/ \E n \in Node : StartLoop(n) \/ WriteMessage(n) \/ ReadForPatch(n) \/ PublishPatch(n)
  \/ \E w \in Remote : StartSync(w) \/ ConnectFails(w) \/ StreamEnds(w) \/ Sync(w)
  \/ \E m \in Warp : Warping(m) \/ \E target \in Data \ {Message} : StartWarp(m, target)

Safe == Init /\ [][Next]_vars

\* The loop is one fiber that never waits for anything but its own requests and sleep.
Spec == Safe /\ \A w \in Remote : WF_vars(Sync(w))

-------------------------------------------------------------------------------
(* Properties *)

\* The last request to claim the Session took it from w, for another owner.
Left(w) ==
  claimed # 0 /\ warp[claimed].previous = w /\ warp[claimed].target # w

\* workspace.ts:587: the Session is claimed "so any future events coming from the old
\* workspace are ignored", be they on the stream, in a history that this or another
\* request asked for before the claim, or published by a loop that still runs there.
\* That lasts until the next claim: a second request may have read the old workspace
\* as well, and claims the Session for its own target, which may be that workspace.
OldWorkspaceIsShutOut ==
  [][\A w \in Remote : Left(w) =>
       \A e \in db'[Control].events \ db[Control].events : e \notin db[w].events]_vars

\* A row counts as sent only when the target holds that very event, whatever its own log
\* held before and whatever other requests send it: so a remote workspace takes the
\* Session over (steal) only with everything the control server had when the request
\* began to send.
TargetHoldsTheLog ==
  \A m \in Warp :
    /\ \A k \in 1 .. warp[m].sent : warp[m].rows[k] \in db[warp[m].target].events
    /\ warp[m].at = "set" => warp[m].sent = Len(warp[m].rows)

\* The Session is in remote workspace w, which may write it, and the control server
\* listens to w; it is not being moved.
Settled(w) ==
  /\ \A m \in Warp : warp[m].at \in {"idle", "over"}
  /\ WorkspaceIn(Control) = w /\ ~Foreign(db[Control], Session, w)
  /\ link[w].at # "off"

CaughtUp(w) == db[Control].seq[Session] >= db[w].seq[Session]

\* A connection to the Session's workspace, once begun, brings the control server up to
\* date and keeps it so through later disconnects: between the history and the
\* stream no event is lost.
ConnectionCatchesUp ==
  \A w \in Remote : [](link[w].at = "opening" /\ []Settled(w) => <>[]CaughtUp(w))

\* sync/README.md:31-33: other devices "sync" the Session's data, by a log of events whose
\* order is their sequence, "because only one device is allowed to write".  So a message
\* of the Session's workspace is in the control server's log once that log is as long.
MessagesReachControl ==
  \A w \in Remote : Settled(w) =>
    \A e \in db[w].events :
      e.data = Message /\ e.seq <= db[Control].seq[Session] => e \in db[Control].events
===============================================================================
