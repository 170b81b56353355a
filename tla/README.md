# Glasspane Harness in TLA+

Glasspane Harness is a coding agent: a server that runs a language model in a
loop over durable sessions, executes the model's tool calls, and for the `gp_*`
tools drives an external Glasspane engine whose findings go into a decision
ledger. The modules here model the parts of it whose correctness hangs on
order: which fiber runs when, what is read before it is used, what survives a
crash or an interruption. Paths below are relative to the repository.

Contents: [the system](#1-the-system), [the modules](#2-the-modules),
[the runs](#3-the-runs), [fairness](#4-fairness), [proofs](#5-proofs),
[disagreements found](#6-where-code-and-documents-disagree),
[what is left out](#7-what-is-not-modelled), [the plan](#8-plan).

## 1. The system

`packages/core` holds the durable services (V2), `packages/opencode` the server,
the older session loop (V1), the control plane and the Glasspane tools. Both are
Effect programs: fibers that can be suspended, and interrupted, at every
`yield*`; a synchronous callback is atomic.

| component | state it keeps | operations | hard behaviour |
|---|---|---|---|
| **Run coordinator** `core/src/session/run-coordinator.ts` | `active`: key -> entry (done, owner fiber, pendingWake, stopping) | run, wake, interrupt, active (a read), settle | settle runs in the exiting fiber while others call in; hand-over to a successor; callers parked on an entry that goes away |
| **Session inbox and drain** `core/src/session.ts`, `session/input.ts`, `session/runner/llm.ts`, `session/projector.ts` | inbox rows (admitted, promoted), latest sequence, projected messages; the drain's locals | prompt, resume, interrupt, revert.commit; promote steers / next queued; provider turn; compaction; overflow recovery | prompts, interruption, reverts and restarts between any two steps of the drain |
| **Event store and durable tails** `core/src/event.ts` | event_sequence, event; per-aggregate wake queues; listeners | publish, replay, replayAll, claim, remove, durable, listen | concurrent commits, repeated and divergent histories, two owners, hand-over from history to live |
| **Background jobs** `core/src/background-job.ts` | job per ID: status, pending, token, tail, scope | start, extend, settle, wait, cancel, promote | runs chained by tails, several incarnations of an ID, cancel racing settle |
| **Glasspane evidence trail** `opencode/src/session/processor.ts`, `session/tools.ts`, `plugin/glasspane-decision-log.ts`, `plugin/glasspane-compaction.ts` | tool parts, `ctx.toolcalls`, the ledger, the compaction block | handle a stream event, run a tool, append to the ledger, clean up, compact | tools run in detached fibers that outlive an aborted turn; read-then-publish on both sides; crash between ledger and transcript |
| **Glasspane tools and daemon client** `opencode/src/tool/glasspane/` | socket, run plan, declared dimensions | gp_* calls | engine timeouts, refusal before the request |
| **Task tool** `opencode/src/tool/task.ts` | - (the background job with the child Session's ID) | extend or start, wait or be promoted, notify | two calls resume one task; promotion racing the end; waits by ID, not by incarnation |
| **Permission queue** `core/src/permission.ts`, `permission/saved.ts` (`question.ts` is alike and simpler) | pending requests with their Deferreds, saved rules | ask, assert, reply, remove a saved rule | two replies to one request, a rule saved between evaluation and registration, sweeps over a Map that changes |
| **Workspace sync** `opencode/src/control-plane/workspace.ts`, `server/.../handlers/sync.ts` | a sync fiber and its status per workspace; the owner of each aggregate | startSync, the SSE loop, syncHistory, sessionWarp, steal | events lost between history and stream, writes of a workspace that lost the session, two servers that publish at one sequence |
| **V1 runner** `opencode/src/effect/runner.ts`, `session/run-state.ts` | a Map of runners; each Idle, Running, Shell or ShellThenRun | ensureRunning, startShell, cancel; what a run or shell does when it ends | an old run that winds down beside its replacement, a run that waits behind a shell that is stopped, calls cut off in the middle |
| Turn event publisher `core/.../publish-llm-event.ts` | open text, reasoning and tool blocks | one handler per stream event, flush | block left open by an abort |
| Context epochs `core/.../context-epoch.ts` | epoch, baseline | prepare, replace, reset | stale read before an update is published |
| Others: keyed mutex, history projections, MCP, LSP, PTY, servers, clients, user interfaces, LLM transports, database adapters, plugins | | | see [section 7](#7-what-is-not-modelled) |

How they meet. A client's `prompt` is admitted through the **event store** (event
and inbox row in one transaction) and then wakes the **run coordinator**, which
keeps at most one **drain** per session. The drain promotes inbox rows by
publishing further events, calls the provider and publishes what it streams.
Clients follow a session by **durable tails**; replicas apply the same events by
**replay**. The task tool runs subagents as **background jobs**. The **workspace
sync** of the control server replays what remote workspaces publish, and moves a
session between them by claiming its aggregate and replaying its log at the
target. A tool call waits in the **permission queue** until a client replies. The **V1
runner** does for the older loop what the coordinator does for the drain. In that loop
a **processor** consumes the model's stream while each tool call runs in a
detached fiber; both write the same parts, the tools' results pass through the
**ledger** hook, and **compaction** reads the parts back.

What makes each one correct: executions of a session never overlap and no
accepted work is forgotten (coordinator); prompts enter history once, in order,
with the right step allowance, also over failure and restart (drain); the log of
an aggregate is gapless, has one writer and is delivered to each tail without
gap or repetition (store); a job ends once, with its last output, and takes its
runs and waiters with it (jobs); the outcome of a subagent reaches the parent, and
in one way (task tool); nobody waits for an answer that cannot come, and no outcome
is ahead of its announcement (permissions); a session is handed over with all of
its log, the workspace it left is shut out, and a connection brings the control
server up to date (workspace sync); a runner is busy with the work nobody
cancelled, no other, and answers whoever waits for it (V1 runner); what the transcript and the compacted context
say of the ledger is true (evidence trail).

`PROJECT.json` lists every component with its status, and the hazards, each at
its line, with the properties that watch it.

## 2. The modules

| module | models | role |
|---|---|---|
| `SerialExecution` | what callers of the coordinator rely on | abstract specification |
| `RunCoordinator` | the coordinator | refines `SerialExecution` |
| `RunCoordinatorProofs` | | theorems, among them the refinement |
| `SessionDrain` | inbox and drain of one session | composed with `SerialExecution` |
| `SessionDrainProofs` | | theorems |
| `EventStore` | the event tables as a value, the transaction's verdicts | operators used by `EventLog` and `WorkspaceSync` |
| `EventLog` | fibers over the store, tails, listeners | |
| `EventLogProofs` | | theorems, and lemmas of the store's operators |
| `BackgroundJob` | the job registry for one ID | |
| `SubagentTask` | calls of the task tool on one child session | composed over `BackgroundJob` |
| `SubagentTaskProofs` | | theorems of `BackgroundJob`, and of the calls on top of it |
| `PermissionQueue` | pending requests, replies, saved rules | |
| `PermissionQueueProofs` | | theorems |
| `WorkspaceSync` | control server, remote workspaces, moves of a session | composed over `EventStore` |
| `WorkspaceSyncProofs` | | theorems |
| `SessionRunState` | the V1 runners of one session | |
| `SessionRunStateProofs` | | theorems |
| `EvidenceTrail` | processor, tool fibers, ledger hook, cleanup, compaction | |
| `EvidenceTrailProofs` | | theorems |
| `MC*` | | instances for TLC |

A definition whose comment begins "Deviation:" is a wrong variant of the one that
follows it (a dropped guard, a missing reset). No specification uses it; it
documents the mistake a property is there to catch, and each property has been
seen to fail when the deviation takes the place of its original.

### RunCoordinator

An element of `Entry` is an entry object with its owner fiber. `settle`, `run`,
`wake` and the body of `interrupt` are synchronous blocks and so single actions;
a fiber's suspension points (`phase`: starting, draining, aborting, cleanup,
ended) separate them. `settle` is split by its branches into `Restart` (the same
entry goes round, lines 55-60), `HandOver` (a successor takes the key) and
`Release`. A caller is suspended in `joining`, `restarting` (parked behind a
stopping entry), `rerunning` or `interrupting`. An ended entry nobody awaits may
stand for a new object, so two identities carry behaviours of any length.

`SerialExecution` forgets entries, fibers and deferreds: per key, work is *owed*
(nothing, a follow-up, a forced drain), and a drain is in progress or not. The
refinement mapping reads both off the entry in the map (`OwedWork`,
`CurrentDrain`). `SessionDrain` is built over `SerialExecution`, so that what is
checked there rests on what is proved here.

### SessionDrain

One session. The drain's program counter `pc` follows `SessionRunner.run` and
`runTurnAttempt` in `llm.ts`: look at the inbox (`hasSteer`, `hasQueue`), fail
the tools of a dead process (`recover`), attempt (`attempt`, `pickQueued`,
`publishQueued`, `pickSteers`, `publishSteers`, `prepare`), `turn`, `settled`,
`moreQueued`. Every publication is one action because event and projection
commit in one transaction; rows are read in one step and published in later
ones, each time one of those admitted first (`FirstAdmitted`). `Compact`,
`RecoverOverflow`, `DrainFails` and `DrainInterrupted` leave the straight path. A prompt call is three steps (`Prompt`, `PublishAdmitted` /
`FindAgain`, `WakeAndAnswer`). Abstracted: a prompt is its ID, delivery mode and
a body that is only compared; all tool calls of a turn are one flag; a turn's
text is nothing. `fed`, `fresh` and `covered` are history variables for the
properties.

### EventStore and EventLog

`ReplayOutcome` is the decision table of `commitDurableEvent`: refused (a
defect), ignored (foreign owner, not strict), known (exact repetition) or
committed. A transaction is one action of a fiber; waking the tails and
notifying the listeners are later ones, `Abandon` interrupts a fiber between
events and `Wake` cannot be interrupted, as in the code. A tail (`durable()`)
reads, emits, waits for its one-element sliding wake buffer and reads again.
`Data` stands for type, version and encoded payload together.

### BackgroundJob

One job ID with its incarnations, told apart by token. Each
`SynchronizedRef.modify` is one action. A run is accepted, running, over (its
exit is known, its tail completed), and settled; what follows the final settle,
or a cancel, is `Announce`. The interruption of a caller of `cancel` between its
modify and `Deferred.succeed` is not modelled.

### SubagentTask

The calls of `Call` resume one child session and are followed step by step
(`task`, `notice`); all other calls on it are `Others`, which start, extend and
cancel the job. `wait` and `waitForPromotion` look the job up by ID in
immediate succession and are one step, `AwaitResult`; `TakeOutcome` and
`TakePromotion` are the two ways their race ends, and `Returns` re-reads the
metadata as the code does after `wait`. A promotion changes the job and
completes its Deferred in one step; `onPromote`, which looks the job up
again, is a later one (`NotifyPromoted`). A notification keeps the incarnation whose end
it met (`notice`), which may be a later one than its call started. Left out are the permission
question, the child session's creation, derived permissions, and a failure of
the metadata update in `onPromote`. No call of `task.ts` gives `wait` a timeout.

### PermissionQueue

A request is its ID, session, agent's rules for its resources, and what an
"always" would save. `ask` registers and returns, `assert` waits. Evaluation,
registration, the publication of `Asked`, and each publication or table
access of a reply are steps of their own; what lies between two `yield*` is one
(`Settle`: the Deferred and the deletion). Deletion is by ID, as in the code, so it
may hit a request registered later under that ID (`Without`). `DeclinedError` and
`CorrectedError` are one outcome. The Map's order is left out: a sweep
visits entries in any order, each once, also those registered meanwhile.

### WorkspaceSync

One session with a store of its own on each server (`db`), over the operators of
`EventStore`; `replay` has the verdicts of `ReplayOutcome`. A sync fiber
(`link`) opens the stream, asks for the missing history, replays it event by
event, and then takes the events off the stream; the status it shows is a part of
it, since requests are forwarded by it. Each request to move the session goes through
`sessionWarp` in a fiber of its own (`warp`): last history, claim, rows read, rows
sent, steal, and a `session.updated` of the control server. The code takes no lock, so
requests overlap at every one of these steps; `claimed` is a history variable that
names the one which claimed the session last. A prompt loop (`loop`) publishes messages, and
patches of the session, which it reads in one step and publishes in a later one
(`ReadForPatch`, `PublishPatch`): the workspace ID that it repeats may be out of
date. An event is a `session.updated`, whose
data is its workspace ID, or a message. A refusal during history replay is a
defect that ends the sync fiber and leaves the status `connecting`
(`ApplyHistory`), a refusal on the stream drops the event (`Deliver`). Sleeping and
back-off are left out, as they delay and decide nothing.

### SessionRunState

The V1 runners of one session and the entry that names one of them (`listed`). A
runner, a run and a shell bear the name of the call that made them, where the
code counts IDs. A runner's four tags are what it holds: `Idle` nothing,
Running a run, Shell a shell, ShellThenRun a shell and the run behind it. What a
`SynchronizedRef.modify` decides is one step; the effect it returns comes later,
when the runner may hold something else: `finishRun` and `finishShell` go on to
`onIdle` (`WorkIdle`) and to the run's Deferred (`CompleteRun`), `cancel` to
`StopWork`, `AwaitExit`, `IdleIfCurrent` and `CancelIdle`. Each of these may be
the last of a canceller that is itself interrupted (`CutOff`). A shell opens its
latch in `Prepared`; before, nobody interrupts it. That a fiber which was forked
also begins, and so ends in its `onExit`, is assumed. The values that calls
return, the session's busy or idle status, the cancellation of background jobs
and the finalizer of the Map's scope are left out.

### EvidenceTrail

Three kinds of actor share the parts of a transcript: the processor of the turn,
the detached fiber of each call, and compaction. Both writers read a part,
compute its successor and publish it; publishing waits on the event store's
transaction, so read and write are two steps (`ReadCall` .. `WritePart`,
`ReadToDeclare` .. `Declare`, `ReadToComplete` .. `Save`), and so are the first write of a
part and its entry in `ctx.toolcalls` (`Ensure`, `Track`). `settleToolCall`
comes after `completeToolCall`'s write, hence `SettleCall` and `SettleSaved`:
cleanup may fall between and closes a completed part as an error, because it
looks at what is tracked and not at the part's status. The stream is a queue of
events (`input`, `call`, `result`, `failure`); it may end, fail and be repeated
within the turn (`StreamFails`), or be interrupted with the handler
(`Interrupt`). `cut` collects the calls that were unsettled when their stream was
torn down: their fibers go on and complete their part themselves if cleanup has
not closed it. A call's arguments and output are its declared dimension and
whether the ledger gave a receipt; the ledger is the set of calls with an entry,
its hash chain (`iterate-kernel`) being external. Compaction sorts by two keys over
indices and cuts; the model says which anchor goes before which (`DroppedBefore`),
keeps the anchors that go before fewer than `MaxAnchors` others (`SelectAnchors`),
and lists them in the order of their parts (`InOrder`).

## 3. The runs

All state spaces are explored completely. Times are for two workers.

| run | instance | shows |
|---|---|---|
| `RunCoordinatorRuns` | 1 key, 3 callers, 2 entries; 79,000 states, 85 s | one execution per key, and the map holds it and no ended one; no waiter on an ended entry; an interrupted execution only ends; refinement of `SerialExecution` with its fairness; interrupting callers are released, joined ones unless wakes never stop |
| `SessionDrainInbox` | 2 clients, four prompts (a steer and a queued one under each of two IDs, one steer without a wake), 2 steps per activity, 1 restart; 1,677,000 states, 105 s | promotion order; a turn only for an input, within its allowance, and over settled tools; nobody is answered with an admission that is not the stored one |
| `SessionDrainWakes` | a steer and a queued prompt, 1 revert | every woken prompt is promoted unless something took it away |
| `EventLogStore` | 2 aggregates, 2 fibers, 2 owners, 5 chunks, 1 removal; 927,000 states, 70 s | contiguous tables, unique IDs, one writer between claims |
| `EventLogTails` | 1 aggregate, 2 fibers, 1 tail | the tail emits everything once, in order, and eventually; listeners hear of an event once |
| `SubagentTasks` | 1 followed call, 2 acts of others, 2 incarnations of 2 runs; 171,000 states, 65 s | the registry's properties (completion with the last output, runs take turns, outcome decided once, waiters answered and runs stopped) under its real caller; the outcome of the call's own job reaches the parent, once |
| `PermissionQueue` | 3 requests of 2 sessions, one reusing an ID, 2 repliers, 2 replies; 310,000 states, 100 s | nobody waits unanswerably, no outcome before its announcement, complete sweeps, answered fibers resume |
| `SessionRunState` | 2 prompts, 1 shell, 1 cancel; 205,000 states, 70 s | a runner is busy with exactly its uncancelled work; callers of runs and cancels are answered |
| `WorkspaceSync` | 2 remote workspaces, 1 local, 3 events, 2 requests to move that may overlap, 1 fault, 1 startSync; 937,000 states, 165 s | hand-over with the whole log, the old workspace shut out, connections catch up |
| `WorkspaceSyncWarp` | the same workspaces, 4 events, 1 move, no fault | **violated**: finding 2 |
| `EvidenceTrail` | 2 calls side by side (a planned and an unplanned dimension) and one after them, 2 anchors shown, 1 process death; 720,000 states, 140 s | receipts are backed, entries reach the transcript unless the stream was torn down, anchors are dropped by plan and age, cleanup closes what it tracks, declarations survive |
| `EvidenceTrailAbsence` | 1 call, no death | **violated**: finding 1 |

Why the bounds are enough, and where they bite.

- *RunCoordinator.* Keys share nothing (`StartNew` and `Complete` touch one key's
  entries), so one key is checked and the theorems cover any set. Two entries
  are one that settles and its successor; a third is never alive at once. Three
  callers are one each to join, to park and to interrupt.
- *SessionDrain.* Each of two IDs is used for a steer and for a queued prompt, so that two
  steers, two queued inputs, or one of each wait: a batch of two rows can be cut off by an
  interruption, a failure or the restart between them, and batches of both kinds follow each
  other in every order. `MaxSteps` is `agent.steps`: 2 separates a first from a last step. Two
  clients with one ID make admissions collide. The restart is in `SessionDrainInbox`, whose `MaxReverts`
  is 0: with a revert between `hasPending` (`llm.ts:408`) and promotion a
  continuing drain can take one final tool-less turn more than its allowance
  (`isLastStep` uses `>=`), which neither code nor document rules out. `WakeCallsOnlyWithInput`,
  a part of `TurnIsDue`, is stated without reverts too (section 6). The
  property `AnswersAgree` holds while no revert frees an ID: a revert deletes the
  row, also that of a prompt not yet answered.
- *EventLog.* Two rows per aggregate (`MaxSeq` 1) tell equal, next and gap; the
  chunks are a complete history, its continuation, a divergence, an ID taken
  from the other aggregate and a gap. `EventLogTails` has no removal: with one a
  tail misses events (section 6).
- *BackgroundJob, SubagentTask.* Two incarnations and two runs are what tokens
  and tails tell apart. `Others` stands for any number of other calls, two acts of
  which suffice to end a job and start the next one under a call that waits or a
  notification that is to come. With a second followed call the properties hold as well (2.8
  million states); `ReportedOnce` says more only then, and its theorem covers any
  number of calls.
- *PermissionQueue.* Two requests of one session and one of another tell whom a
  reject and an "always" concern; the third reuses an ID after its first holder is
  gone. Two replies are what can race; more of them follow one another.
- *SessionRunState.* Two prompts are a run and its replacement, or the two that
  share one; the shell is what the second may wait behind. A session has one
  cancelled run at a time, so one canceller meets each of them. The theorems
  cover any number.
- *WorkspaceSync.* Two requests take a session away from a workspace and back, or on
  to another, one after the other or at once: the second may read the old workspace, and claim,
  while the first asks for history, claims or sends. Three events are the creation in
  `w1` and two more, of a move, of its competitor, or of a loop in either place: what an old
  workspace publishes after the claim is one event, and what a move publishes is one or two.
  Two remote moves that are both completed would take a fourth; the theorems cover any
  number of events and requests. One fault and one `startSync` break
  the connection or the move at any place. `WorkspaceSyncWarp` starts on the control server.
- *EvidenceTrail.* Three anchors of which two are shown make selection choose by plan, or by
  age between the two of one rank, and put back in order what it ranked otherwise. The
  third call is made when the other two are over and anchors (`ThirdMatters`): with fewer anchors
  there is nothing to choose, and a repeated stream, an interruption and a following turn
  all fit in the two calls that run side by side. After a block no turn follows
  (`BlockIsLast`): no action reads the block. Both are constraints of the instance.
  Call IDs are unique, as providers make them.

Owners are symmetric in `EventLogStore` and clients in `SessionDrainInbox`, which
check invariants and action properties only. `SubagentTasks`, `PermissionQueue`,
`SessionRunState` and the two runs of `WorkspaceSync` have `CHECK_DEADLOCK FALSE`: when
their bounds are used up and everybody has been served nothing is left to do.

The bounds in the modules' guards are `MaxReverts`, `MaxCrashes` (SessionDrain,
EvidenceTrail), `MaxSeq`, `MaxRemoves` (EventLog), `MaxStarts`, `MaxRuns`
(BackgroundJob), `MaxOthers` (SubagentTask), `MaxReplies` (PermissionQueue),
`MaxEvents`, `MaxWarps`, `MaxFaults`, `MaxStarts` (WorkspaceSync). `MaxSteps` and
`MaxAnchors` are the program's own parameters.

## 4. Fairness

- `RunCoordinator`: weak fairness of what the scheduler resumes (a forked fiber,
  a parked caller). `DrainsEnd` - the drain returns in the end - is an assumption
  about the caller of `make`, kept apart, and only `SpecDrainsEnd` makes it.
- `SessionDrain`: owed work is begun (`SerialExecution!Spec`), the runner's own
  steps are taken, an interrupted drain stops, an admitted prompt call goes on
  (`prompt` is uninterruptible). Strong fairness of `CallProvider` says that a
  turn that can be sent over and over is sent some day rather than compacted for
  ever. Tools and overflow need never happen.
- `EventLog`: a committing fiber wakes the tails (uninterruptible in the code), a
  tail whose consumer pulls goes on. Nothing obliges anyone to publish or notify.
- `BackgroundJob`: runnable fibers go on; the work of a *running* job ends by
  itself, that of an ended one has to be stopped.
- `SubagentTask`: the same. One weak fairness condition over all fibers
  (`Obliged`) is as strong as one for each, because no step can be repeated for
  ever. Aborts, promotions and other calls are never obliged.
- `PermissionQueue`: a reply, once begun, goes on (`Effect.uninterruptible`), and
  a fiber whose Deferred is completed resumes. Nobody is obliged to reply.
- `WorkspaceSync`: each sync fiber goes on, which also means that requests are
  answered or fail. Prompts, moves and faults are never obliged.
- `SessionRunState`: every fiber goes on, and work that was interrupted ends
  (`StopWork` is followed by `EndWork`; the code interrupts the fiber). That other work ends is
  nobody's duty; `CallersAreAnswered` takes it as a premise (`WorkEnds`) where a
  prompt waits for its run, not where a cancel returns.
- `EvidenceTrail`: the handler and cleanup go on (cleanup waits 250 ms at most).
  The model, the user asked for permission and the engine need never answer.

## 5. Proofs

Checked by TLAPS for every value of the constants. The assumptions, evaluated by
TLC too, say that `None` differs from the entries (`RunCoordinator`) and owners
(`EventStore`); that the chunks of `EventLog` are non-empty and of one aggregate
(`ChunkAssumption`); that bounds are natural numbers; that no inbox row is
`NoRow`, a prompt is a steer or queued, and an agent has at least one step
(`RowAssumption`, `RequestAssumption`, `StepsAssumption`); that `None` is neither a dimension
nor a call (`CallAssumption`); that the calls of a V1 session are
prompts, shells or cancels (`CallsAreApart`); that each call of the task
tool waits in two places of its own (`CallsWait`); that asserted permission
requests have IDs of their own (`FreshIds`) and rules have an effect for each
resource (`RulesAssumption`); and which of the owners in `WorkspaceSync` are
remote, local or the project (`OwnersAssumption`, `OriginAssumption`).

**RunCoordinatorProofs.** The inductive invariant `IInv` joins `TypeOK`,
`OneExecutionPerKey` and `NoAbandonedWaiter`. Neither of the last
two is inductive alone: a hand-over keeps one execution per key because the
entry that ends was the one in the map; the map never keeps a dead entry because
an entry settles for its own key; an identity may be reused because nobody
awaits an ended entry. `TypeCorrect`, `Serialized` and
`NobodyAbandoned` follow. `InterruptOnlyStops` (`StoppedOnlyEnds`) needs
one more fact, that a stopping entry in the map is winding down: settle takes
its first branch only when `stopping` is unset. `SafeRefinement` shows that
each step of the coordinator is a step of `SerialExecution` or a stutter, action
by action: run that joins stutters, run on an idle key is `Resume`, settle that
hands over is `End`.

**EventLogProofs.** `IInv`: the store and the fibers are typed, `Contiguous`,
`UniqueIds`, and `WritersOwn` (owners that replayed since the last claim own
the aggregate). The types of the fibers matter, since a replayed event comes from
a chunk accepted many steps before. `SoundAlways` and `SingleWriter` are the
invariants of `EventLogStore`. That no verdict of the transaction spoils a sound
table is a fact of the operators alone (`ReplayKeepsTables`).
`TailsHaveNoGap` adds `TailInv`: a tail's unread rows continue its cursor, and what
it emitted leads from its start to its cursor. A read establishes the first,
because a contiguous table above a cursor, listed by `InSequence`, counts on from
it: a row's rank is its distance from the cursor. Removals do no harm, as the
property speaks of sequences. `AnnouncedOnceUnlessRemoved` adds that events in the
fibers' hands are stored, not announced, and different from each other
(`AnnouncedInv`). Its hypothesis, that nothing is removed, is that of
`EventLogTails`: after a removal a replay brings the same events back and listeners
do hear of them again.

**SessionDrainProofs.** `IInv` says where the drain stands. Rows in hand
(`RowsInv`) are rows of the inbox that wait, and whatever was admitted before one of
them is promoted or in hand too; since the first admitted is published next, no
promotion overtakes (`Ordered`), at whatever row the drain is cut off. A queued input is
taken up only when nothing is to be continued (`ContinueInv`). Until a drain that was
only woken has promoted something, its input is still there at each place on
the way (`FedInv`). A turn beyond the allowance is prepared only for a steer that
restarts it (`AllowanceInv`, `FreshInv`). `InputsEnterInOrder`
(`DeliveryOrder`) and `TurnsAreDue` (`TurnIsDue`) are stated for behaviours without
reverts, as the run checks them: a revert deletes rows between look and promotion, so
that a turn may come without input or one over its allowance, and a row in hand
that was deleted is inserted anew behind later admissions. `AnswersAgreeHolds` has that
condition in the property itself; `NoRequestOverOpenTools` and `TypeCorrect` need
none.

**SubagentTaskProofs, the registry.** What holds of a job that has ended rests on what the
registry knows while it runs, so `IInv` says that: `pending` is the number of
runs that are accepted and not settled (`Counted`, a cardinality), a settled run
has had its chance at the output (`LastOutput`), accepted runs are those below
`next` (`AcceptedBelowNext`), and a run that has begun has only runs behind it
that are over (`InTurn`). When the last settle finds `pending` at one, the set of
open runs is empty afterwards, so all are settled and the latest gave the output:
`CompletesWithLast`. `RunsTakeTurns` follows from `InTurn`; `OutcomeDecidedOnce`
from the status checks and from tokens never being given out twice.

**SubagentTaskProofs, the calls.** `Registry` shows that what task calls do to the registry
are steps of `BackgroundJob`, so its theorems hold under this caller:
`TasksCompleteWithLast`. `ReportsOnce` (`ReportedOnce`) is that no outcome which some call returned
is injected by the notification of the call that started that job or a later one. Its
invariant `TaskInv` says, of each call, that it waits with a token not later than
the latest, that only a job marked as background has a notification
(`NoticeOfBackground`), that a notification meets the job it is for or a later one
(`MetLater`), and that a returned result is of a job not so marked
(`ResultOfForeground`), which stays so because a job that has ended cannot be
promoted. What is left is a notification of an earlier job that meets a
foreground job by its ID: it does report that job a second time (section 6).

**PermissionQueueProofs.** `NoOrphan` is not inductive: a deletion by ID might
remove a request other than the one answered. `IInv` adds who can hold an ID:
an ask knows its ID from an assert that was registered (`IdsAreSeen`), a request
not yet registered is nowhere in a replier's hands (`UnregisteredIsUnknown`), and
a request that waits and has no outcome holds its ID alone (`HoldsItsId`).
`OutcomeWasAnnounced` needs that a replier about to settle has published
(`ToldFirst`); `SweepsAreComplete` that what a sweep answered has its outcome
(`SweptAreSettled`).

**WorkspaceSyncProofs.** `IInv` is `Logs` (each store is sound, histories and
streams hold rows of their workspace, IDs to come are unused) and, of each request
apart from all others, that what it holds came from the logs it read (`InOrder`).
`TargetHoldsTheLog` needs that strict replay at the target either stores a row or
fails, and that rows once stored stay. `OldWorkspaceIsShutOut` needs that after the last claim the owner in
the control server's store is neither the old workspace nor absent (`ClaimHolds`),
which only another claim can end, and that
what two workspaces share they have from the control server (`SharedIsControls`):
so what another workspace sends is new to the old one or known already. That the
rows of a late history, of another request's as well, are refused or ignored follows
from the owner alone.

**SessionRunStateProofs.** `BusyWithItsWork` relates a runner's state, the fibers
and what cancels took. It is not inductive: `finishRun` compares identities, so
one must know that what a runner holds was begun by a call on that runner
(`HeldByItsCaller`), that the run of ShellThenRun has no fiber that could end
(`PendingBehindShell`), and that a call's work cannot have been cancelled before
it began (`BegunByACall`, `CancelledWasBegun`). `RunnersKnowTheirWork` follows, and
`OneAtATime`: of the loops and shells of one runner that nobody cancelled, at
most one goes on. The same of a session would need one runner per
session, which does not hold (section 6).

**EvidenceTrailProofs.** The hard part is what a call is in the middle of while
three writers have old copies of its part. `Phase` lists it for a call whose
stream was not torn down: named, called, its event in the processor's hand, awaiting the
outcome, the outcome in hand, written, settled; in each of them the invariant says what
is tracked, what the stream still says (`StreamOrder`: input, call, outcome, each once) and
what is in hand. A call that was cut is completed by its own fiber or closed by
cleanup, and nothing of it is in the stream any more (`IsCut`). `Receipts` follows a
receipt through every copy, hence `ReceiptsAreBacked`; `Recorded` says that a call
with an entry does not fail while its stream is open, which with `Phase` at the
end of a turn gives the first half of `DecisionsAreKept`; `Dims` that a late declaration
writes a settled part back as it was, which gives the second. `BlocksKeepThePlan`
is about compaction alone: `DroppedBefore` is a strict total order on the anchors
(`DropOrders`), the number of elements before an element numbers a finite ordered
set without a gap (`RankIsBijection`), so as many anchors are kept as the limit allows and
the block lists each once.

Only model-checked: all liveness and the fairness part of the refinement
(`ENABLED` and fairness are out of the prover's reach): `CallersAreReleased`,
`WokenInputIsPromoted`, `TailCatchesUp`, `EndedJobsLetGo`, the promise in
`OutcomeReachesParent`, `AnnouncedIsResumed`, `ConnectionCatchesUp`,
`AbortSettlesCalls`, `CallersAreAnswered`. Every safety property of the passing
runs is stated by a theorem.

## 6. Where code and documents disagree

1. **The compaction block can deny ledger entries** (`processor.ts:608`; run
   `EvidenceTrailAbsence`), against `glasspane-compaction.ts:209`: a tool that
   outlives its interrupted turn appends its entry after its part was closed.
2. **A move to a remote workspace writes the session on two servers**
   (`workspace.ts:712` and `handlers/sync.ts:65`; run `WorkspaceSyncWarp`), against
   `sync/README.md:33` ("only one device is allowed to write"): the workspace's
   `session.updated` may arrive before the control server publishes its own, which
   then takes the sequence of the workspace's next message; that message is
   refused and never fetched again.

Met, and without a run:

- *Coordinator.* A resume parked behind an interrupted execution gets that
  execution's exit and may never start (`run-coordinator.ts:71`). The test
  "starts a resume registered during interruption cleanup" has a drain that
  swallows the interruption.
- *Drain.* A wake may call the provider with nothing promoted (`llm.ts:394`), against
  `specs/v2/session.md:163`, when a revert commits between the look at the inbox and
  the promotion.
- *V1 runner.* `onIdle` deletes the session's entry from the Map, whoever's it is
  (`run-state.ts:61`). A cancel makes a runner idle and waits for its run to clean up; a
  replacement runs and ends on the same runner, which deletes the entry; a
  third prompt makes a new runner; then the canceller finds the old one idle and
  deletes the entry of the new one, busy as it is. `assertNotBusy` passes (the
  test at `prompt.test.ts:1499` expects an error while the loop runs), `cancel`
  finds nothing to stop, and the next prompt starts a second loop. TLC finds this
  with four prompts. A cancel that is interrupted while it stops a shell leaves
  the callers of the run behind that shell without an answer (`Forgotten`). A
  prompt whose message is stored after the loop's last look (`prompt.ts:1088-1115`)
  and that joins the run before its end gets the old answer, against the test at
  1433 ("included in the next LLM input").
- *Sessions.* `CONTEXT.md:183` says that interrupt verifies the session exists, which
  `session.ts:430-432` does not do.
- *Event store.* A tail open across a removal skips the events of the
  aggregate's next life (`event.ts:593`, against `CONTEXT.md:172`).
- *Processor.* Of a call whose stream was torn down, cleanup may close a part as an error that
  its fiber has just completed (it looks at what is tracked, `processor.ts:592`). A
  declaration that read the part before cleanup closed it writes it back as running, and
  tracks the call again, when nobody is left to close it.
- *Glasspane tools.* A call that permission refuses can lose its declared dimension
  when `declareDimension` comes before the processor handled the call, or its write is
  overtaken by one that the processor has in hand, against
  the comment at `tool/glasspane/index.ts:212-236`.
- *Workspace sync.* Nothing keeps two requests to move a session apart. While one that left
  `w1` sends rows, a second still reads `w1` as the session's workspace and may claim the
  session for `w1`, whose events are then let in, although the first goes on to hand the
  session over; so the comment at `workspace.ts:587` is true until the next claim only
  (`OldWorkspaceIsShutOut` says so), and the session may end in one workspace and be claimed
  for another. A patch that read the session before a move publishes the old
  workspace ID after it (`session.ts:735-748`) and takes the move back. A session that was detached is owned by its project and is not
  claimed by a later move to a remote workspace, whose events are then ignored
  (`workspace.ts:568`). A workspace that wrote on after the claim diverges from
  the control server's log, and when the session comes back its full
  history ends the sync fiber with the status left at `connecting`. A move that fails
  after the claim leaves the session claimed (the comment at 605-607).
  `waitForSync` compares before it subscribes and can miss what it waits for (833).
- *Task tool.* When two calls both find nothing to extend, the second one's
  prompt is dropped (`task.ts:267` and 284: `start` returns the running job). A call
  that extends a foreground job answers "You will be notified automatically
  when it finishes" (278), but only the call that started the job has a
  notification. A notification looks the job up by ID (257) and may report the next
  incarnation in place of its own, whose outcome is then lost, or a second time if that one
  was returned as a result; one of a cancelled job is not sent.

## 7. What is not modelled

Within the modelled components: closing the coordinator's own scope; session
creation and moves, agent and model switches, the context epoch inside the
drain; live pubsub streams, `allBounded`, projector registration, paged reads of
the event log; the closing of the job registry's scope; the task tool's
permission question, child session and failing metadata updates; of permissions a
reply that dies in `saved.add` after its announcement (`permission.ts:251`; the
request stays pending then), the
service's finalizer, the lists (`list`, `get`, `forSession`) and `question.ts`; of
the V1 runner the status, background jobs and the scope's finalizer; of
workspaces their creation and removal, `stopSync`, `waitForSync` and the transport
of file patches; the doom-loop question, text, reasoning and snapshots of the processor, and the
daemon client's framing, socket trust, selectors and run plans.

Whole components: turn publisher, context epochs, V1 loop (planned, below); history
projections and compaction proper (queries and prompts; their effect on the
inbox and the drain is in `SessionDrain`); keyed mutex (small); MCP, LSP, PTY,
ACP, formatters and IDE integration (adapters to external processes); servers,
protocol and schema (declarations over the services above); clients (generated
in the main); user interfaces; LLM transports (parsing); database adapters
(transactions are taken as atomic); plugins and scripts.

## 8. Plan

1. Done: coordinator, drain, event log, jobs and task calls, permissions,
   workspace sync, V1 runner, evidence trail; proofs of the safety properties of all of
   them.
2. Modules: `ContextEpoch` and `TurnPublisher` beneath the drain; the V1
   loop over `SessionRunState`; the daemon client.
3. `VetoKeepsDeclaration`, for the declared dimension of a refused call.
4. Theorems: what of `DeliveryOrder` and `TurnIsDue` outlives a revert; `AnnouncedOnce`
   per life of an aggregate; the premises of the liveness properties (that what is owed
   is enabled) as invariants.
