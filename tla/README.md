# Formal models of the Ryco server core

TLA+ modules, TLC configurations and TLAPS proofs about the core of Ryco, a local
workspace for coding agents: the event-sourced orchestration engine of
`src/apps/server`, its delivery of requests to agent providers, the follow-up queue, the
retention of its event log, and the revert of a thread to a checkpoint. The code is the reference; every definition is translated from it and
`PROJECT.json` ("map") names the lines each definition stands for. File names below are
relative to `src/apps/server/src/` unless they say otherwise.

## 1. The system

Clients (`src/apps/web`, `src/apps/mobile`, `src/apps/desktop`) talk to a Node server
over a WebSocket RPC. The server keeps projects, threads, turns and queues as an event
log in SQLite. Every change is a *command*, decided by one worker fiber against an
in-memory read model, and committed as *events* together with a *receipt*. Everything
else reacts: projections fill SQL tables, reactors drive the agent providers, feeds
carry events to clients; reactors answer events with further commands.

### 1.1 Inventory

| Component | State it keeps | Operations | What is hard |
| --- | --- | --- | --- |
| **Orchestration engine** (`orchestration/Layers/OrchestrationEngine.ts`) | command queue, command read model, last published sequence, boot sequence, workspace commit fence and its health flag | `dispatch`; the worker's take, receipt lookup, admission, decide, transaction, install, publish, reconcile, rejected receipt, answer; boot; `captureThreadWorkspace` | retries against receipts; a commit that succeeds while the worker sees an error; crashes between any two steps; another process's commits |
| **Domain-event bus** (same file, `orchestration/sequenceOrderedStream.ts`) | a sliding PubSub; per subscription a cursor, a held array and an open gap read | `publishCommittedEvents`, `subscribeDomainEvents`, the ordered pull, gap pages read from the store | slow subscribers; gaps read while new events arrive; events this process cannot decode |
| **Event store and receipts** (`persistence/Layers/OrchestrationEventStore.ts`, `OrchestrationCommandReceipts.ts`) | events by sequence, stream versions and floors, one receipt a command id | append, reads by sequence and by stream, upsert and lookup of receipts | one transaction over events, receipt, projections and intents |
| **Storage lifecycle lock** (`storage/readWriteLock.ts`, held through `storage/lifecycle.ts`) | shared count, exclusive flag, queue of waiters | `withShared` (the worker, project creation), `withPermit` (removals, migrations, terminals, settings) | interruption in the queue or right after admission; starvation |
| Decider, invariants, projector (`orchestration/decider.ts`, `commandInvariants.ts`, `projector.ts`) | none (pure) | command + read model to events; event to read model | large rule sets; thread, session and queue life cycles |
| Projection pipeline (`orchestration/Layers/ProjectionPipeline.ts`) | SQL projections, one cursor a projector | project an event in the commit's transaction; catch up at boot | a projector behind the log after a crash or an upgrade |
| Provider effect intents (`orchestration/providerEffectIntents.ts`, `persistence/Layers/ProviderEffectIntents.ts`) | a ledger of requests to providers, in the commit's transaction | record, settle (by message, thread, handoff, turn start, session stop), recover | a request must not be sent twice after a crash, nor stay open for ever |
| Provider reactors (`ProviderCommandReactor.ts`, `ProviderRuntimeIngestion.ts`, `threadLaneControl.ts`) | provider sessions, one serial lane a thread, the highest stop noted | start, steer, interrupt, stop; provider events become commands; recovery at startup | submissions leave the lane before the call; a Stop races them; late answers of a session that was replaced |
| Follow-up queue and drain (`orchestration/followUpQueue.ts`, `serverQueueDrainRuntime.ts`, `Layers/ServerWakeFence.ts`) | per-thread entries and hold, in events; in memory: the awaited start, watched starts, refusals | add, edit, move, remove, steer, hold, resume, retry; a pass's reads and its dispatch; start outcomes; boot hold; cold-wake budget | a pass racing a client's command; holds at boot; a start that fails before the pass noted it |
| Checkpoint revert (`orchestration/checkpointRevertSaga.ts`, `checkpointRevertPolicy.ts`, `Layers/CheckpointReactor.ts`) | a journal row per revert, in activities; checkpoint and rescue refs in git; the files of the checkout; the agent's memory | admit, journal, rewind the agent, save, restore, put back, prune refs, shorten the history, report; recover at startup | no transaction spans agent, files and history; a process lost between any two; a rewind that fails half done; a retried restore over half-written files; turns after ten minutes, and accepted starts the policy no longer counts |
| Context handoff, restart continuation, goal continuation, usage-limit recovery | events, small ledgers | resume or refuse work after a restart, a limit, a handoff | deciding once, from a state that moves on |
| Event log retention and compaction (`persistence/Layers/EventLogRetention.ts`, `EventLogCompaction.ts`) | floors, usage rollups, compaction cursor; Statistics' reads of log, activity rows and rollups | a pass of short transactions over deleted and live threads; compact | deleting what a projector, an intent or a resuming client still needs; usage counted twice |
| Database ownership (`persistence/databaseOwnerLock.ts`, `processLock/`) | lock files | acquire, migrate, release | two processes on one database |
| Thread lanes, runtime session fence, approvals, command watches, secret requests, purge and deletion reactors | small in-memory tables or ledgers | admission rules and background work | each a race between a user, a provider and a restart |
| Services at the edge: terminals, git, source control, workspace, WebSocket RPC and feeds, hub relay, push, usage, MCP, tasks | processes, files, sockets | I/O | mostly outside what a model checker sees |
| Clients and shared packages | view state, a command queue | user interface; keyed workers | planned where they carry a protocol |

### 1.2 How the modelled components interact

```
callers --dispatch--> queue --> worker --(storage lock shared)--> one transaction:
   ^                              |  ^                              events + receipt
   | answer                       |  | reconcile: events after the read model
   +------------------------------+  +------------------- event store <--- other process
                                  | publish                   |  (offline CLI command)
                                  v                           | gap pages
                       sliding PubSub --> orderBySequence <---+
                                              | exactly once, in order
                                              v
                       reactors, feeds  --dispatch--> (back to the queue)
```

The components around the engine meet in the database and in the bus:

```
 client's command --> engine's transaction: event + intent row + projections
                            |                      ^            ^
                            v (bus)                | settles    | session-set, activity
   provider command reactor: lane --> mark --> provider call --> runtime ingestion
                            ^                      |
   follow-up queue drain --(thread.turn.start with queueDispatch)   event log retention:
     reads queue, newest message, pending start     removes rows below every open intent,
     before it dispatches                           every projector, every resumed feed's floor

   thread.*.revert --> journal row "requested" --> the checkpoint reactor's lane: rewind the agent,
     (turns and reverts wait while it is pending)    restore files through git, thread.revert.complete
```

The loop is why the bus may never make its publisher wait: the publisher is the only
command worker, and consumers wait for their own commands.

### 1.3 What makes each modelled component correct

- **Bus**: a subscription is given every event above the last one published when it
  subscribed, once and in order, however far the live window slides and whoever
  committed the events; nothing a subscriber does delays the worker.
- **Engine**: a command id takes effect at most once, and every answer agrees with the
  receipt, across retries, lost answers and crashes; events and receipt are one; the
  read model a command is decided on holds what this process committed and published
  before; a captured workspace stops answering valid once a move commits.
- **Lock**: an exclusive holder is alone, first come first served, no wake-up is lost
  whoever is interrupted, nobody starves.

- **Provider effect intents**: a turn or steer reaches the provider at most once, whatever
  process takes it; what a restart tells the user of it is true; no request loses its row
  without an ending the user sees, none gets two endings, and no row stays open under a
  running server.
- **Follow-up queue and drain**: a message is queued or sent, never both; what a restart
  finds queued waits for a Resume; a failed start holds the rest; nothing is sent past the
  waiting start of the newest message; a steer in doubt is not sent again; a head that may
  be sent moves on.
- **Checkpoint revert**: what a revert reports of the agent, the history and the files is true; the
  files from before stay in a snapshot it names until the target's are back; no turn runs under
  it, but for the starts section 5 names; the history loses only turns the agent has forgotten; a
  revert of one scope never touches the other; and it ends.
- **Retention**: no event is removed that a projector, an open intent or a later read of its
  thread needs; a resumed feed has no gap or is refused; Statistics counts every sample once,
  among log, outliving activity rows and rollups.

The hazards behind these properties, with their lines, are in `PROJECT.json`.

## 2. Modules

| Module | Models | EXTENDS / INSTANCE |
| --- | --- | --- |
| `EventDelivery` | what `Services/OrchestrationEngine.ts` promises of `subscribeDomainEvents` (abstract) | |
| `DomainEventBus` | the bus and its subscriptions; implements `EventDelivery` | `Delivery == INSTANCE EventDelivery` |
| `CommandService` | what `Services/OrchestrationEngine.ts` promises of `dispatch` (abstract) | |
| `CommandEngine` | the command worker with its receipts, read model, fence, crash and boot; implements `CommandService` | `Service == INSTANCE CommandService` |
| `OrchestrationEngine` | worker and bus composed on one store and one publication cursor | EXTENDS `CommandEngine`, `Bus == INSTANCE DomainEventBus` |
| `ReadWriteLock` | the fair read/write lock | |
| `ProviderEffectIntents` | the ledger of requests to providers, the reactor's lane and submissions, what the runtime reports, startup recovery | |
| `FollowUpQueue` | the queue of one thread as the decider records it, with the turn starts and steers it asks for | |
| `ServerQueueDrain` | the fiber that sends the queue, in a process that is lost and started again | EXTENDS `FollowUpQueue` |
| `EventLogRetention` | a retention pass beside projectors, intents, Statistics and a resumed feed | |
| `CheckpointRevertSaga` | the reverts of one thread: journal, agent, checkout, history, and their recovery | |
| `*Proofs` | theorems about the module they name | EXTENDS it and `TLAPS` |
| `MC*` | model values for TLC | EXTENDS the module |

Definitions whose comment says "Variant with a fault" are not part of any
specification: each is an action or operator with a plausible mistake, and TLC must find
a property violated when it takes the place of the right one (`PROJECT.json`,
"mutants"). They show that no property holds by the shape of the model alone.

### 2.1 EventDelivery and DomainEventBus

Events are their sequences. `Commit` covers every committer; only what the worker hands
over is published, so a publication may jump over other processes' events: the
interesting gaps come from there as well as from the sliding window. A subscription's
`inbox` is what the PubSub holds for it, `held` the rest of the array its pull took,
`gapThrough` the upper end of an open gap read, `cursor` orderBySequence's last emitted
sequence, `delivered` everything it emitted.

| Code | Model |
| --- | --- |
| `publishCommittedEvents`: filter above `lastPublishedSequence`, `publishAll`, advance | `Unpublished`, `Publish`, `Slide` |
| `subscribeDomainEvents` under `publicationLock` | `Subscribe`; its scope's end `Unsubscribe` |
| `pull` with nothing left over takes the chunk | `Pull` |
| `keep`: emit the next one, drop what is at or below the cursor | `Keep` |
| `openGap`, `pullGap`, `readMissedEvents`, `readThroughSequence` | `OpenGap`, `ReadGapPage`, `CloseGap`; `DieInGap` for a page with a row that does not decode |
| process end and engine construction | `Stop`, `Boot` |

Atomicity: publication and subscription exclude each other through the code's
semaphore, so each is one step. `keep` emits runs of an array; the model emits them one
at a time, which adds interleavings and removes none. A failed page read is a stutter
(the code retries it from the last row handed on, for ever).

### 2.2 CommandService and CommandEngine

`pc` is the place of the worker between two yields of `processEnvelope`; the actions
that can come in between are a caller's `Dispatch`, another process's `ForeignCommit`, a
`CaptureWorkspace`, and `Crash`.

| Code | Model |
| --- | --- |
| `Queue.take`, `dispatchStartSequence = commandReadModel.snapshotSequence` | `Take` |
| receipt lookup: accepted, previously rejected, none, read error | `AnswerFromReceipt`, `LookupMisses`, `LookupFails` |
| admission, approval checks, decider | `Refuse` or `Prepare` (what is decided is an input) |
| `workspaceCommitFence.begin` before the transaction | in `Prepare` |
| the transaction: append, project, receipt | `Commit`; `Rollback`; `CommitUnacknowledged` when it commits and the worker sees an error |
| install the model, `workspaceCommitFence.publish` | `Install` |
| publish, answer | `Publish` |
| `reconcileReadModelAfterDispatchFailure` | `ReconcileNothing`, `ReconcileModel` + `Republish`, `ReconcileFails` |
| rejected receipt for an invariant error (a failed write is ignored), answer | `Settle` |
| process death; projector catch-up and load, then the head, then the worker | `Crash`, `BootLoad`, `BootReady` |

The command read model is reduced to which sequences were projected onto it, in order
(`applied`): the properties are about what it has and has not seen. A thread's workspace
identity is the set of workspace-moving events in it.

`CommandService` has no worker: a command takes effect in one step (`TakeEffect`) while somebody
awaits it, or is rejected in the step that tells so (`Reject`), and callers are told (`TellAccepted`,
`TellRejected`, `TellFailed`) or lose their process (`Abandon`). Under the mapping of `Service` the
engine's transaction is `TakeEffect`, its answers are the tellings, and queue, lookup, install,
publish, reconcile and boot are stutters. "Failed" is the one answer that decides nothing: it may be
said of a command that has taken effect, when the commit's acknowledgement was lost.

`unacknowledged` is a history variable: some commit of this process failed for its
worker although it is durable. Several properties hold only until then, and say so.

### 2.3 OrchestrationEngine

The two modules share the log and `lastPublishedSequence`. `PublishToBus` is the
worker's `Publish` or `Republish` joined with the bus's `Publish` of the same events;
boot and crash are joined with the bus's; all else interleaves.

### 2.4 ReadWriteLock

A fiber's request goes `outside -> queued -> granted -> running -> outside`, or straight
to `running` on the fast path. `granted` is the window between a release that admits a
waiter and the waiter's own resumption, in which interruption must give the grant back.
The array of waiters is represented by its order: `ahead[f]` is who waits before `f`.

### 2.5 ProviderEffectIntents

One thread; request *n* is the *n*-th tracked event, so that its sequence, its ledger key and
its message are one number. `row` and `dispatched` are the table, `outcome` what the thread's
history says became of a request, `place` where this process's handling of it is. Every
action commits what one transaction of the engine commits.

| Code | Model |
| --- | --- |
| decide + `recordPlan` in the commit | `Request` |
| `planProviderEffectIntent`: settle by message, by dispatched turn starts, by session stop, by thread | `CommitVerdict`, `DispatchedTurnStarts`, `CommitStopped`, `ThreadDeleted` |
| `routeProviderIntentEvent`: once a process, stop noted at once | `Route`, `Deliver` |
| `processTurnStartRequested`, `prepareAndSubmitTurnStart` up to its fork | `BeginStart`, `PrepareFails`, `Submit` |
| `markDispatched`, then `sendTurn` or `steerTurn`, then the answer | `Mark`, `MarkFails`, `Call`, `Accept`, `Reject` |
| `reportTurnStartFailure`: the session, then the activity | `TellSession`, `AppendActivity`, `TellGone` |
| `processTurnSteerRequested`, `resolveSteer` | `BeginSteer`, `ResolveSteer` |
| `stopThreadSession`, `surfaceIntentFailure` | `BeginStop`, `ShowStopFailure`, `SetStopped`, `Surface` |
| runtime ingestion: `turn.started`, `turn.completed`, `session.exited` | `TurnStarted`, `TurnEnds`, `RuntimeExits` |
| startup: subscribe, reconcile orphaned sessions, list and resolve rows, admit commands | `Boot`, `Subscribe`, `Reconcile`, `ListOpen`, `RecoverOwn`, `RecoverPrior`, `Serve` |

From `marking` on a submission is a fiber of its own: it has left the lane, and the lane's next
item runs beside it. That is where most of the interleavings are.

### 2.6 FollowUpQueue and ServerQueueDrain

`FollowUpQueue` has one action for each `thread.queue.*` command, for each other command that
touches the queue (`followUpQueueFollowOns`), and for what the provider makes of a start or a
steer. A hold is the set of its kinds of cause. `ServerQueueDrain` adds the fiber and its
process.

| Code | Model |
| --- | --- |
| `decideQueueCommand` | `Add`, `Edit`, `MoveBefore`, `MoveToEnd`, `Remove`, `Steer`, `Hold`, `Resume`, `Retry` |
| `followUpQueueFollowOns` | `SendTurn`, `Stop`, `Trash`, `Delete`, `TurnEnds`, `Requeue` |
| pending turn-start rows of the turns projection | `TurnStarts`, `StartEnds` |
| `drainThread`: head, previous dispatch, shell, newest message, fence, dispatch, note | `BeginPass`, `PreviousIsOver` or `PreviousPending`, `ReadShell`, `Pin`, `CheckIdle`, `Send` or `Refused`, `Note` |
| `onStartEnded`, in the same lane as the passes | `StartIsOver` (the event), `OnStartEnded` |
| `ServerQueueDrainLive`, `holdQueuedAtBoot` | `Boot`, `AdmitCommands`, `HoldQueuedAtBoot` |

A pass is one fiber, so each of its reads is an action of its own and anything may commit in
between; the dispatch and its decision are one step, because the decider runs in the engine's
single worker. `leftover`, `drained`, `excused` and `unheld` are history variables
(`Track`): they record which entries an earlier process left, which messages the passes of this
one sent, and which exceptions a person or a failure of the store made. No guard reads them.

The newest message of a thread is the one with the greatest `createdAt`
(`userMessageOrder.ts`), which the client stamps. The model therefore lets a message that
commits later be the newest or not (`BecomeMessage`).

### 2.7 EventLogRetention

| Code | Model |
| --- | --- |
| append; settle; a projector's progress | `Commit`, `SettleIntent`, `Project` |
| `globalUpperBound`, read once a pass | `BeginPass` with `IsUpperBound` |
| the selection of deleted threads; its floors, rollup and batch in one transaction | `SelectDeleted`, `NextDeleted`, `RemoveBatch` |
| the selection of live threads; a batch of it | `SelectLive`, `NextLive`, `TrimBatch` |
| a thread held, created again, or whose transaction failed | second disjunct of `NextJob`, `SkipThread` |
| budget spent, failure, process loss | `EndPass` |
| `probeResume`, `makeBoundedReplayStream` | `Resume`, `ReadPage`, `SendPage`, `EndFeed` |
| `projection_thread_activities`, as append, creation and removal leave it | `ActivityRows` |
| `selectStatisticsTokenActivities`: log events no rollup covers, and activity rows without an event | `SamplesOf`, `RolledUp` |
| `frozen` of `listUsageRollups`, the `live` filter and the merge of partials by it | `Frozen`, `Counted` |

A pass keeps nothing but its local variables, so a process loss is the same step as an end of
the pass. `log` keeps every event and `gone` the removed ones, so that properties can
speak of what was removed. How old an event is, is each pass's choice.

A removed sample is still in `projection_thread_activities`, and Statistics reads it from there: what
keeps it from being counted beside its rollup is only that the thread is frozen, that is, has no event
after the deletion its latest rollup was taken at; a creation of the id ends that and drops the rows.
A sample may be taken of a thread that is deleted, so that a thread thaws with its rows still there.

### 2.8 CheckpointRevertSaga

One thread and its checkout. A tree of files is a number; the tree a turn leaves is its checkpoint.
`row` is the journal (the one activity each revert rewrites), `newest` the row written last, which
alone counts: the decider asks whether it is pending and less than ten minutes old, and recovery
lists a thread's newest row. `pc` is where the saga is between two calls of git, the provider or
the engine; turns, persons, time and a process loss come between any two.

| Code | Model |
| --- | --- |
| `thread.checkpoint.revert`, `thread.conversation.revert`, `thread.files.revert`, decided | `Request` with its scope |
| the decider's check before a turn start; what `hasQueuedTurnStart` makes of it later; the reactor's rejection of it, or its cancellation | `AcceptStart`; `LapseStart`; `DropStart` |
| the reactor begins the turn; `ensurePreTurnBaseline`; the capture after the turn | `BeginTurn`; `EnsureBaseline`; `EndTurn` |
| `threadBusyReason` | `Busy` |
| `handleRevertRequested`: checks, journal, `rollbackConversation` and its failures, journal | `Take`, `Refuse` or `Admit`, `JournalFirst`, `Rewind`, `RewindMiscounts`, `RewindFails`, `RewindTimesOut`, `Announce`; `Fail` |
| `restoreCheckpointFiles`: probe, plan, save, restore, put back, drop the snapshots | `Save`, `LeaveAsFound`, `ProbeFails`; `WriteBegins`, `WriteEnds`, `WriteUnresolved`, `WriteFails`; `PutBack`, `PutBackFails`; `Discard` |
| `finishRevert`, `finishFilesRevert` | `Prune`, `Project`, `ProjectFails`, `Report` |
| `CheckpointReactor.recover`, `recoverEntry`, `recoverRestoringFiles` | `Boot`, the `Recover...` actions, `GiveUp` |

`restoreCheckpoint` runs several git commands, so a restore is two steps with a torn checkout in
between. `says` is what an ended row tells the user, reduced to agent, history, files and the
snapshots it names. `did`, `first`, `excused`, `unrecorded`, `overdue` and `overlooked` are history
variables: what each revert really did, the files it met first, and which exceptions the properties
name. No guard reads them.

An accepted turn start is not a turn yet: it waits in `start` until the reactor begins it, which looks
for another turn but never for a revert. As long as it is `"counted"`, the policy keeps reverts out;
once it is `"lapsed"` a revert is admitted, and the turn begins under the saga whenever the reactor
comes to it. A rewind is a call of the agent, which may forget any of the turns and then fail, or
answer too late; what it has forgotten is `agent`, and only the saga's answer depends on how it ended.

## 3. Runs

All runs use the specifications as written; bounds are CONSTANTS, checked in guards.

| Run | Bounds | What it shows |
| --- | --- | --- |
| `bus` | 2 subscribers, live window 1, page 2, 4 events | exact delivery, nothing lost; implements `EventDelivery`; every published event reaches every subscription that stays open |
| `engine` | 2 callers, 2 commands (one a queue command), 3 dispatches, batches up to 2, 2 events, 1 foreign event, reconcile limit 1 | at most once, receipt = log, answers agree, implements `CommandService`, projection in order, own events projected, published implies projected, moves invalidate captures |
| `system` | 1 caller, 1 subscriber, 2 dispatches, batches up to 2, 2 events, 1 foreign event, window and page 1 | the worker uses the bus as the bus assumes (`EngineStepsBus`); a subscriber is given what a command did once and in one piece (`CommandsArriveWhole`); every dispatch ends with no fairness for consumers; own events are delivered while consumers pull |
| `lock` | 4 fibers | exclusion and exact counts, no lost wake-up, first come first served, every waiter is admitted or leaves |
| `intents` | 2 requests of any kinds, 1 crash, 1 fault, 1 recovery attempt | nothing is given to the provider twice, a restart tells the truth, no request vanishes or gets two endings, every row comes to rest (about 765,000 states) |
| `queue` | 2 messages, 2 entries, 4 commands of persons, 1 fault, 1 crash, 2 refusals | queued or sent; boot hold; failed start holds; nothing sent past the newest message's start; steer in doubt waits; a ready head moves on (about 1,016,000 states) |
| `retention` | 1 thread, 5 events, batch 1, page 1 | nothing needed is removed, resumed feeds are whole, usage counted once in log, activity rows and rollups (about 2,251,000 states) |
| `revert` | 1 revert, 2 turns at the start, 1 more, 1 edit, 2 crashes, 2 faults | ends are true, the files from before are kept, no turn under a revert but an overlooked or overdue one, the agent forgot first, scope kept, the newest revert ends (about 1,392,000 states) |
| `after_stop`, `nothing_changed` | 2 requests without faults; 1 revert and 1 crash without faults | violations, see section 5 |
| `read_model_gap`, `stale_authority` | small instances of `CommandEngine` | violations, see section 5 |

Type invariants are in no run: each is a theorem (section 6), so nothing but the bounds would be
checked again.

Why the bounds are enough. A window of one event slides on every second publication, so
four events give slides before, during and after a gap read, gaps of one and of several
pages, and jumps caused by foreign events alone. Two callers and three dispatches give a
retry that queues behind the original and a retry after the answer or after a crash; a
batch of two tells the first from the last event of a command; the foreign event falls
before, between and after the commits of this process, and one that does not decode makes
a reconcile fail. The reconcile limit of 1 makes a model that is two events behind
reachable in the reconcile itself. Four fibers are a holder, a waiter, a second waiter
behind it and a newcomer: the smallest number at which overtaking in the middle of the
queue is possible.

Two requests cover every pair of kinds (start and start, start and stop, steer and start, stop
and steer, and so on): a hand-off in the reactor involves a request and one other that overtakes
it. One crash puts every place of both requests before and after a restart; a second boot with
the same row only repeats the first until attempts run out, which the bound of 1 attempt reaches
(5 in the program). One fault fails any one read or commit. Two messages give a head and a
message behind it or one that goes past it; four commands let a person queue both and interfere
twice in one pass. Five events take a thread through a turn or a sample, its
deletion, its creation again and a second turn or sample, or a sample after the deletion; batches
and pages of one event put every other step between two removals and between two pages. Two threads with four events were
checked as well and showed nothing more.

Two crashes end a revert, its first recovery and meet the second one; two faults fail a restore and
its putting back, or a restore and the report; the third turn is begun after ten minutes or after
a revert, or waits while one is admitted and begins beneath it; the edit is what a second attempt
must not lose. A second revert meets the first
only through the newest row and the lane's queue; two reverts take TLC too long for a run, and the
proofs are for any number.

The `intents`, `after_stop`, `queue`, `revert` and `nothing_changed` configurations switch the
deadlock check off: a thread whose bounded requests or commands are used up has nothing left to do. In every
other one the bounded system always has a next step (crash and boot, request the lock, begin a
pass, resume a feed). Callers are symmetric in the `engine` run, which checks no liveness; no
liveness run uses symmetry.

## 4. Fairness

- **Worker and boot** (`WF(WorkerStep)`, `WF(Boot)`): the worker is `Effect.forever` on a
  fiber of its own and a step it waits for is a database call, which returns. A stopped
  server is started again by its supervisor (the desktop application or a service).
  Nothing is fair about who dispatches, commits elsewhere or crashes.
- **Subscriptions** (`WF(Advance(s))`, only where the property names it): a consumer that
  stays open keeps pulling, and a failed gap page is retried on a schedule without end.
  `EveryDispatchEnds` is checked *without* it: stuck consumers hold up nobody.
- **Lock** (`WF(Resume(f))`, `WF(Finish(f))`): an admitted fiber is resumed and what it does
  under the lock ends. Nobody has to request or give up.

- **Intents** (`WF(StartupStep)`, `WF(Boot)`, `WF(Deliver)`, `WF(LaneStep(i) \/ refused call)` for
  each request): the reactor's subscription, lane and forked submissions are fibers of this
  process whose steps are database calls or provider calls. A call that has been made may never
  be answered, so `waiting` has no fairness and `IntentsComeToRest` names it; a call that finds
  no runtime fails by itself.
- **Drain** (`WF(Startup)`, `WF(BeginPass)`, `WF(PassStep)`, `SF(OnStartEnded)`): the sweep begins
  a pass of every thread with an unheld queue again and again, and a pass's steps are database
  reads and one dispatch. Passes and news share a serial lane that takes its items in order, so
  news waits for passes but is not passed over for ever: enabled again and again, it is handled,
  which is strong fairness. Nothing is fair about persons, the provider or faults.
- **Reverts** (`WF(Take \/ SagaStep \/ Boot)`): the reactor's lane and startup recovery are fibers
  whose steps are calls of git, the engine or the provider; the provider's has a deadline. Starts
  and turns are not fair: nothing is claimed of them, since a revert that finds one is refused.
- **Retention**: no liveness is claimed.

Crashes are unrestricted, so "every dispatch ends" reads "is answered, or dies with its
process"; the caller of a dead process retries, and `AppliedAtMostOnce` is about that.

## 5. Where the code departs from its documentation

1. `ReadModelHasNoGap`. The service's doc says the command read model is "advanced by every
   committed event". The engine installs only its own batches, and a reconcile reads only
   what follows the model's own sequence, so an event of another process is left out for
   good once this process commits after it. What does hold is `OwnEventsProjected`.
2. `ValidCaptureIsCurrent`. A later reconcile that finds nothing to read declares the
   workspace authority healthy although an event below its start was never projected.
   What does hold is `OwnMovesInvalidateCaptures`.
3. `NothingRoutesAfterStop`. `ProviderService.ts:2301` says of the binding a stop writes: "nothing
   routes to the runtime again". A turn start that was forked before the stop marks its row and
   calls `sendTurn` after the stop is carried out; `sendTurn` resolves its session with recovery
   allowed, whatever the binding's status, and starts the stopped runtime again for it.
4. `NothingChangedIsTrue`. `checkpointRevertSaga.ts:591` says a failed restore tells whether files
   may be partly restored. A recovering restore knows of an earlier attempt by the snapshot that
   attempt left, and a restore that succeeded deletes it before the journal is updated: after a
   process loss in between, a restore that is then refused reports "Nothing was changed" although
   every file was. What does hold is `EndsAreTrue`, which excuses exactly these reverts
   (`excused`).

Smaller departures, met while modelling. No run lists them; the properties exempt each by name
or are stated so that they hold of what the code does:

- *A rejection may be retried.* `docs/hosted-hub-client.md:777` says a repeated id is answered with
  "the original result or rejection"; a rejected receipt whose write fails is ignored
  (`OrchestrationEngine.ts:722`), and the repeat is decided again. `ReceiptsFinal` is about
  receipts that were written.
- *A waiting start that is not the newest message's.* `serverQueueDrainRuntime.ts:445` says a
  person's message accepted after the pin fails the decider's guard. The guard compares the newest
  message by `createdAt`, which clients stamp, so a message stamped before the newest one does not
  change it, and the head is sent beside its waiting start. What holds is
  `NeverSendsPastNewestStart`.
- *The previous dispatch.* The drain's header says nothing is sent while the previous dispatch's
  start has neither bound a turn nor failed. `previousDispatchPending` reads the thread's one
  pending row; a person's start replaces that row, and the previous dispatch then counts as over
  though it may still wait (`PreviousIsOver`, third disjunct).
- *A steer whose acceptance cannot be committed* is resolved as rejected without
  `deliveryUncertain`, so its entry is queued again and sent although the provider took it.
  `UncertainSteerWaits` excuses it (`excused`).
- *A steering entry may be sent or removed by a person*, so that its message may go both ways;
  excused as well.
- *A boot hold that cannot be recorded*, or a read of the queues at boot that fails, is logged and
  the queue drains without a Resume (`unheld`).
- *An overtaken session-set.* `providerEffectIntents.ts:5-8` says a row goes when its outcome
  becomes visible. The session-set of one running turn settles every dispatched turn start of the
  thread, another one that still waits for its answer included; `UndispatchedEndsVisibly` is
  therefore about rows that were not marked yet.
- *Retention's holds* are read outside the transaction that removes, and not again between two
  batches; and a live thread's floor rises to its full bound with the first batch, so that what a
  stopped pass leaves below it waits for the thread's next turn, not for the next pass.
- *A start the policy does not count.* `threadSettlement.ts:109-126` takes an accepted turn start for
  over when the session or the latest turn is in error, two minutes after its message, or when a
  client's clock put the message before the latest turn's request; `threadBusyReason`
  (`checkpointRevertPolicy.ts:225-233`) then calls the thread idle and a revert is admitted. The
  reactor, which may still be waiting for the session or for the lane's baseline, begins the turn
  beside the saga. `NoTurnUnderRevert` excuses it (`overlooked`), as it does a revert that is in the
  lane for ten minutes (`overdue`).
- *A rewind that fails half done.* `ProviderService.ts:2528-2536` says that turns may be dropped even
  by a failed attempt; `checkpointRevertSaga.ts:1146-1153` then ends the revert with "Nothing was
  changed". `EndsAreTrue` excuses the reverts whose failed rewind made the agent forget a turn; one
  that failed without is claimed to have changed nothing.
- *A miscounted rewind.* An agent that is told how many turns to forget counts a turn that runs
  beside the saga too, and keeps the oldest it should forget. Such a turn is one of the two exceptions
  above; `EndsAreTrue` and `AgentForgotFirst` excuse it by name (`excused`, `"miscounted"`).
- *A sample of a deleted thread.* Statistics tells a thread created again from a deleted one by an
  event after its rollup (`StatisticsQuery.ts:165-171`). A sample taken after the deletion is such an
  event too: the activity rows of the samples that were rolled up and removed are then counted beside
  their rollup. `UsageCountedOnce` excuses these threads by name (`TakenWhenDeleted`); that no sample
  is lost and none is in two rollups is claimed of them as well.
- *A lost "restoring-files" update.* It is best effort; after a process loss recovery goes by the
  row before, "rolling-back", and says that the files were not changed. `EndsAreTrue` excuses it.
- *A failed probe in recovery.* When git cannot say whether an earlier snapshot exists, the restore
  is taken for one that never began (`ProbeFails`), and the snapshot is not named. Excused.
- *An unread thread in recovery* ends the revert without naming its snapshots (`GiveUp`). Excused.
- *A lost report* leaves the row pending: after ten minutes turns run again, and a later restart
  says of the files that they may be partly restored although they were (`unrecorded`).
- *A baseline under a dropped ref.* When deleting a dropped turn's ref failed, the next turn's
  checkpoint of that number writes over it; and when a baseline is missing, the checkout as it is
  then becomes it (`EnsureBaseline`).
- *A message id used twice.* The decider does not refuse a turn start whose message is already in
  the thread; clients never reuse ids, and `SendDirectly` has them not do so.

A limit that the models show and no run lists: another process's event is delivered to
open subscriptions only once this process publishes a later one; the bus is told of
nothing else. `OwnEventsAreDelivered` is therefore about this server's events.

## 6. Proofs

TLAPS proves the following for every value of the constants that satisfies the named
assumptions (`BusAssumption`, `EngineAssumption`, `LockAssumption`, `RetentionAssumption`, `QueueAssumption`,
`DrainAssumption`, `IntentsAssumption`, `SystemAssumption`, `RevertAssumption`).

**`DomainEventBusProofs`** (any subscribers, window, page size, length of the log):
`BusTypes` (`TypeOK`), `ExactDelivery` (`DeliveredExactly`), `NoPublishedEventLost`
(`NothingLost`), `GapsBounded` (`GapEndsBeforeHeldItem`), `CursorsBounded` (`NothingAhead`),
and `BusImplementsDelivery`: under the mapping of `Delivery` the bus starts and steps as
`EventDelivery` does. Handing on a page of a gap, or the item after it, is the abstract delivery
of the next events; offering, sliding, taking and skipping are stutters.
`BusInvariant` states what they follow from, `IndInv`. `NothingLost` is not inductive: it
says that *something* is still on its way to a subscription that lags. `SubscriptionInv`
says what: the last item a live subscription holds, in its inbox or, when that is empty, in
the array it took from it, is the last published event, and an open gap read ends just
before the first held item. A sliding buffer forgets the oldest items and keeps the last,
so a slide preserves it, and whatever slid away is inside the next gap.

**`ReadWriteLockProofs`** (any finite set of fibers): `LockTypes` (`TypeOK`), `LockExclusion`
(`Exclusion`),
`LockNoWakeUpLost` (`NoWakeUpLost`, `OneQueue`), `LockFirstComeFirstServed`
(`NoOvertaking`). The runs' invariants are inductive together with `OneQueue`: the sets
`ahead` describe one queue. One lemma, `AdmitInv`, is about `admit` for any departing
fiber; release, abandoned grants and abandoned waits are its instances.

**`CommandEngineProofs`** (any commands and callers, any bounds, any reconcile limit):
`EngineTypes`, `CommandsApplyAtMostOnce` (`AppliedAtMostOnce`), `ReceiptsMatchTheLog`
(`ReceiptMatchesLog`), `AnswersAreReceipts` (`AnswersAgree`), `ReceiptsAreFinal`
(`ReceiptsFinal`), `ModelProjectsInOrder` (`ProjectedInOrder`), `ModelHasOwnEvents`
(`OwnEventsProjected`), `ModelHasPublishedEvents` (`PublishedIsProjected`),
`MovesInvalidateCaptures` (`OwnMovesInvalidateCaptures`). `EngineInvariant` states the
inductive invariant:

- `TypeInv`: types, and a busy worker has an envelope.
- `ReceiptInv`: the receipt properties, and what the worker's place says of its command's
  receipt. From the lookup to the commit there is none: only the worker writes receipts,
  so the lookup is still true when the transaction runs. That is why a retry in the queue
  cannot apply its command twice, and why no step overwrites a receipt.
- `ModelInv`: `OrderInv` (the model holds committed events in rising order, and a command
  that may fail starts its reconcile at the model's last event), `BatchInv` (a batch to
  install is above everything installed and published), `OwnInv` (of this process's events
  only the batch being installed is missing from the model) and `FenceInv` (the fence is
  down from before a move commits until the model has it). `OwnEventsProjected` alone is
  not inductive: an event missing *above* the model's sequence would be skipped by the next
  install, and `OwnInv` excludes it.
- `CaptureInv`: no capture outlives its process.

`EngineImplementsService` (`ServiceSpec`) is the refinement of `CommandService`, every step and the
initial state. It needs one invariant more, `CallersHaveOneEnvelope`: a caller that awaits a command
has exactly one envelope, of that command, in the queue or in the worker's hands. So an answer is
never given to the caller of another command, nobody is forgotten while the process lives, and a
command takes effect only while somebody awaits it. The sentinel `NoCommand` is assumed to be no command.

The argument uses one fact of the code again and again: the worker is the only writer of
this process, and another process's commits are of no command of this one. An own commit
whose acknowledgement is lost (`unacknowledged`) ends what is claimed of the model, because
a reconcile that then fails, or that reads no more than `ReconcileLimit` events, may leave
it out.

**`OrchestrationEngineProofs`** (any commands, callers, subscribers, window and page size):
`EngineUsesBus` (`EngineStepsBus`), `EngineDeliversExactly` (`[]Bus!DeliveredExactly`),
`EngineLosesNothing` (`[]Bus!NothingLost`), `ConsumersSeeCommandsOnce` (`CommandsArriveWhole`),
`SystemImplementsService` (`ServiceSpec` beside the bus). The steps of the worker are steps of a publisher whose
head only rises, and its publishing, which may repeat, is one the bus allows; so every theorem of
the bus holds of it inside the engine, by an instance of `DomainEventBusProofs`. It needs the
worker's own invariant, and one part more (`BatchReadable`): what is to be published, this process
has decoded. `ConsumersSeeCommandsOnce` joins both halves: the events of a command lie side by side
in the store, its parts in order (`InOnePiece`, of the transaction and the receipts), and a
subscription is given an interval of the store (of the bus).

**`ProviderEffectIntentsProofs`** (any requests, any bounds of process losses, faults and recovery
attempts): `TypesOK` (`TypeOK`), `UnsentIsTrue` (`UnsentVerdictsAreTrue`), `UndispatchedIsVisible`
(`UndispatchedEndsVisibly`), `OneEnding` (`OneVerdict`), `SentOnce` (`NeverSentAgain`). A step does
one of five things to the place of a request (`PlaceSteps`) and one of four to its row
(`RowSteps`); everything else follows from these two lemmas. `IntentsInvariant` says what holds of
one request on its way through the lane and, after a crash, through a boot:

- `PlaceInv` and `BootInv`: of an earlier process's requests only stops are handled, and what a
  process committed itself it is handed once, because its subscription begins at the head it read.
- `SentInv`: what was sent is past the call, and its row was marked before, or settled.
- `TodoInv`: a row that recovery listed is still as it was listed when recovery comes to it, or the
  provider had it. Recovery decides on a listing that may be old; this is why it may.
- `VerdictInv`: a request that was given its ending is closed and is handled no more, by the lane or
  by a boot. A fiber that reports and a boot that resolves cannot both do so.

**`EventLogRetentionProofs`** (any set of threads, any length of the log, any sizes of batches
and pages): `RetentionTypes` (`TypeOK`), `NeededEventsStay` (`NothingNeededIsGone`),
`ResumedFeedsAreWhole` (`ReplayHasNoGap`), `UsageIsCountedOnce` (`UsageCountedOnce`), from
`RetentionInvariant`. What a pass decided is old by the time it removes, so the invariant says
which of its facts survive every commit:

- `StreamInv`: whatever follows a deletion, but a sample, follows a creation after it. It is what makes
  "created again since" visible as a newer event.
- `PassInv`: the pass's bound still lies below every open intent and at or below every projector
  (intents opened later have higher sequences, cursors only rise); a job of a deleted thread is a
  deletion that was committed, a job of a live one lies at or below a turn that is still there.
- `GoneInv`: each removed event is *spare*, for a reason no later commit can undo: a turn or a
  deletion of its stream follows it.
- `UsageInv`: a rollup's head is a deletion of its thread; a sample that some rollup's head has
  passed is in exactly one rollup's usage, and one that none has passed is not removed. The check that
  the deletion is still the newest event when the first batch commits is what keeps a second life's
  samples out. Of a removed sample Statistics still finds the activity row, and `StreamInv` decides
  whether it reads it: unless the thread was created again, which drops the row, or an event was taken
  of it when it was deleted, the rollup's head is still its newest event and the thread is frozen.
- `FeedInv`: while a feed's floor has not passed the sequence it was resumed from, no event it
  lacks is gone. A removal raises the floor in its own transaction, so a page read before it is
  whole and a page read after it is refused.

**`ServerQueueDrainProofs`** (any messages, any bounds of commands, faults and crashes, any limit
of refusals): `TypesOK` (`TypeOK`), `SentIsNotQueued` (`NothingSentStaysQueued`),
`HoldNeedsAnEntry` (`EmptyQueueIsNotHeld`), `RestartWaitsForResume` (`RestartNeedsResume`),
`FailedStartHolds` (`FailedStartHoldsRest`), `NewestStartIsWaitedFor`
(`NeverSendsPastNewestStart`), `UncertainSteersWait` (`UncertainSteerWaits`). The last four are
about steps; each follows from the part of `DrainInvariant` that says what the drain's memory
is worth by the time it acts:

- `OrderOK`: the queue holds no message twice. Moves, requeues and removals are taken apart with
  lemmas on sequences (`InsertedElements`, `RemovedElements`, ...), and every step changes the
  set of queued messages in one of four ways (`OrderSteps`).
- `HoldInv`: an empty queue is not held and a queue in Trash is; that is why the boot hold, which
  a thread in Trash refuses, is not needed there.
- `LeftoverInv`: until the first pass an earlier process's entries are on the list of queues to
  hold, afterwards they are held or were resumed, unless a fault kept the hold from being
  recorded.
- `FlightInv`, `NewsInv`, `DrainedInv`: of every start this process sent and has not heard the
  end of, the lane knows: it is watched, or bound, or the pass that sent it is still at its last
  step. The end of a start is told once, so removing the told one from the watched set is safe.
- `PassInv`: between the idle check and the send a new start may begin to wait, but then it is of
  a message that was not sent when the pin was read, so it is not the pinned one.
- `SteerInv`: a message on its way as a steer or taken as one waits in the queue with a status
  that is not sent, unless it was sent or excused.

**`CheckpointRevertSagaProofs`** (any reverts, turns, edits and bounds): `RevertTypes` (`TypeOK`),
`ScopeKept` (`ScopeIsKept`), `NoTurnRuns` (`NoTurnUnderRevert`), `BeforeKept`
(`FilesFromBeforeAreKept`), `ForgottenFirst` (`AgentForgotFirst`), from `RevertInvariant`, and
`EndsTrue` (`EndsAreTrue`), from `RowsTellTheTruth`. A saga's next step relies on a row it wrote long
ago, so the invariant says what a row still tells:

- `LaneInv`: the revert in hand and those queued are pending and distinct, and recovery runs alone:
  no turn, no waiting start, no queue.
- `TurnInv`: unless ten minutes have passed, the revert in the lane is the newest row and young, which
  is why the decider accepts no start beside it; a start that still waits is one the policy does not
  count, and a turn that runs came from such a start.
- `FreshInv`: a revert that has not reached the agent has done nothing, unless it is about to end as
  failed and is excused; and each place of the saga belongs to a scope that may be there.
- `SnapshotInv`, `NamedInv`: the first snapshot stands, and is the tree the revert met, until the
  target's files are in; a second attempt saves under the other name, and what is about to be
  reported names the first.
- `HistoryInv`, `AgentInv`: past an agent that has not miscounted, the agent lacks every turn the
  history is to lose; a row that says so stays true until the thread moves, so recovery may shorten
  the history by the row alone.

`EndsAreTrue` is about what is told at the end; whether it is true was decided by the steps before,
which may have been another process's. `TruthInv` carries it from one to the other, for the reverts
it makes a claim of (`Claimed`):

- `RowTruth`: what the status of a pending row still tells: "requested", that nothing was done;
  "rolling-back", that at most the agent was asked; "restoring-files", that the agent has forgotten
  what is to go, if anything is.
- `PlaceTruth`: what the place of the live saga tells: the history is as long as was journaled until
  it is shortened, and `result` names what became of the files.
- `NewestTruth`: what recovery concludes from the newest row: unless the history was shortened, it is
  as long as the row says, and the files of a revert that a process loss met are not restored yet.

Recovery tells a history that was shortened from one that was not by its length. That is safe
because a newest row that says "restoring-files" belongs to the revert in the lane, or the process is
down (`NewestTruth`): no turn ends meanwhile, and the length is either the one journaled or the
target's. The lemmas of the section say which step may disturb which of the three.

Left to TLC: what needs fairness or `ENABLED`, that is, every liveness property and the fairness
half of the refinement of `EventDelivery` (`DeliverySpec`). Every safety property of the passing
runs is a theorem.

## 7. Not modelled

- **What a command decides** (decider, projector, the SQL projections): an input of the
  engine's model.
- **Intents**: turn starts with a context handoff or a resume fallback, interrupts, approvals,
  out-of-band control, a commit whose acknowledgement is lost, a request whose message is missing.
- **Queue and drain**: the Claude resume review, the budget of cold wakes, usage limits and the
  exemptions of other provider instances, entries a device failed to send before it moved them
  here, more than one thread, the revert check of the wake fence.
- **Retention**: compaction's own removals, ages (each pass chooses), which completion return or
  restart continuation holds a thread (a thread may be passed over at any time), activity rows that
  never had an event (imports) or lose it to a revert, what a fork inherits, Statistics' cache of
  partials, subscribers served from a snapshot, the limits on how much a resume replays,
  dry runs. The engine's and the bus's models keep the whole log: a live subscription would
  have to lag behind by the week or month retention waits for to miss a removed event; the two
  are not composed.
- **Boot**: an event another process commits between the load of the read model and the
  read of the head is below `bootSequence` and in no model. `CommandEngine` has the step
  (`ForeignCommit` while `pc = "booting"`) and claims nothing of that event.
- **`dedupeBySequence`** (feeds: snapshot, then live tail, gaps pass through), sidebar undo
  receipts, stream versions and client paging.
- **Who holds the storage lock**: no holder dispatches a command while it holds the lock, so
  lock and engine are not composed.
- **Reverts**: the thread lifecycle around them (handoffs, background work, missing threads), all
  folded into `Refuse`; a rewind that is carried out only after its deadline was reported (the model
  has it done, in part or not at all, at the deadline); the agent's persisted cursor; the placeholder
  turns the runtime ingestion captures; head commits in place of checkpoint 0; moved folders and a
  missing workspace; turns the provider starts by itself; failed captures; other threads of the same checkout, which may only
  refuse or edit.
- The components marked `not_modelled` in `PROJECT.json`, each with its reason.

## 8. Plan

Done: `EventDelivery`, `DomainEventBus`, `CommandService`, `CommandEngine`, `OrchestrationEngine`,
`ReadWriteLock`, `ProviderEffectIntents`, `FollowUpQueue`, `ServerQueueDrain`,
`EventLogRetention`, `CheckpointRevertSaga`.

Next, in this order:

1. `ServerWakeFence`'s budget of cold starts, shared by the drain and the other server wakes.
2. Smaller protocols, as far as they carry their weight: context handoff, restart
   continuation, restart fences of `runtimeSessionFence`, `databaseOwnerLock`, feeds.
