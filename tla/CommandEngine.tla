----------------------------- MODULE CommandEngine -----------------------------
(***************************************************************************)
(* The orchestration engine's command worker (OrchestrationEngine.ts):     *)
(* one fiber takes commands off a queue, answers a repeated command from   *)
(* its receipt, decides, commits events and receipt in one transaction,    *)
(* installs the new command read model, publishes, and answers; a failed   *)
(* command reconciles the read model with the event store first.           *)
(*                                                                         *)
(* The worker's steps are cut at its yields, where callers, another        *)
(* process on the same database (an offline CLI command) and a crash can   *)
(* come between.  What a command decides is an input: its events, or a     *)
(* refusal.                                                                *)
(***************************************************************************)
EXTENDS Integers, Sequences, FiniteSets

CONSTANTS
  Commands,        \* command identities; a retry repeats the identity
  QueueCommands,   \* those of type thread.queue.*: they may change nothing
  Callers,         \* whoever awaits a dispatch
  Foreign,         \* the writer of another process's events
  MaxBatch,        \* bound: events of one command
  MaxSequence,     \* bound: events in the store
  MaxForeign,      \* bound: events of other processes
  MaxDispatches,   \* bound: dispatches in a run
  ReconcileLimit   \* events one reconcile reads, 1000 in the program

NoCommand == "no command"

ASSUME EngineAssumption ==
  /\ QueueCommands \subseteq Commands
  /\ NoCommand \notin Commands
  /\ Foreign \notin Commands
  /\ MaxBatch \in Nat \ {0}
  /\ MaxSequence \in Nat
  /\ MaxForeign \in Nat
  /\ MaxDispatches \in Nat
  /\ ReconcileLimit \in Nat \ {0}

VARIABLES
  log,                    \* the event store: event n has sequence n
  receipts,               \* [Commands -> Receipt], in the same database
  queue,                  \* envelopes not yet taken, suspended offers included
  pc,                     \* where the worker is
  envelope,               \* the envelope it processes
  dispatchStartSequence,  \* the read model's sequence when it took it
  prepared,               \* what the command decided: [count, workspace]
  batch,                  \* the events to install and publish: (from, through]
  failure,                \* how the command failed
  applied,                \* sequences projected onto commandReadModel, in order
  lastPublishedSequence,  \* highest sequence handed to the bus
  bootSequence,           \* the store's head when this process booted
  unacknowledged,         \* a commit of this process failed for its worker
  healthy,                \* workspaceAuthorityHealthy
  fence,                  \* workspaceCommitFence: [revision, available]
  capture,                \* one thread workspace captured by a caller
  waiting,                \* [Callers -> the command it awaits, or NoCommand]
  answers,                \* every answer given to a caller
  dispatches              \* dispatches so far

durable == <<log, receipts>>
worker == <<pc, envelope, dispatchStartSequence, prepared, batch, failure>>
model == <<applied, lastPublishedSequence, bootSequence, unacknowledged>>
authority == <<healthy, fence, capture>>
clients == <<queue, waiting, answers, dispatches>>
vars == <<durable, worker, model, authority, clients>>

NoEnvelope == [command |-> NoCommand, caller |-> NoCommand]
NoBatch == [from |-> 0, through |-> 0]
NothingPrepared == [count |-> 0, workspace |-> FALSE]
NoReceipt == [status |-> "none", sequence |-> 0]
NoCapture == [taken |-> FALSE, revision |-> 0, seen |-> {}]

Event == [command : Commands \cup {Foreign}, part : 1 .. MaxBatch,
          workspace : BOOLEAN, readable : BOOLEAN]
Receipt == [status : {"none", "accepted", "rejected"}, sequence : Nat]
Envelope == [command : Commands, caller : Callers]
Answer == [command : Commands, sequence : Nat,
           outcome : {"accepted", "rejected", "previously rejected", "failed"}]

Interval(from, through) == [i \in 1 .. (through - from) |-> from + i]
Larger(a, b) == IF a > b THEN a ELSE b
Smaller(a, b) == IF a < b THEN a ELSE b

(* The read model's snapshotSequence: projectEvent sets it to the event's.  *)
SnapshotSequence == IF applied = <<>> THEN 0 ELSE applied[Len(applied)]

Up == pc \notin {"down", "booting"}

TypeOK ==
  /\ log \in Seq(Event)
  /\ receipts \in [Commands -> Receipt]
  /\ queue \in Seq(Envelope)
  /\ pc \in {"down", "booting", "idle", "lookup", "decide", "commit", "install", "publish",
             "reconcile", "republish", "settle"}
  /\ envelope \in Envelope \cup {NoEnvelope}
  /\ dispatchStartSequence \in Nat
  /\ prepared \in [count : 0 .. MaxBatch, workspace : BOOLEAN]
  /\ batch \in [from : Nat, through : Nat]
  /\ failure \in {"none", "retryable", "rejected"}
  /\ applied \in Seq(Nat)
  /\ lastPublishedSequence \in Nat
  /\ bootSequence \in Nat
  /\ unacknowledged \in BOOLEAN
  /\ healthy \in BOOLEAN
  /\ fence \in [revision : Nat, available : BOOLEAN]
  /\ capture \in [taken : BOOLEAN, revision : Nat, seen : SUBSET Nat]
  /\ waiting \in [Callers -> Commands \cup {NoCommand}]
  /\ answers \subseteq Answer
  /\ dispatches \in Nat

Init ==
  /\ log = <<>>
  /\ receipts = [c \in Commands |-> NoReceipt]
  /\ queue = <<>>
  /\ pc = "down"
  /\ envelope = NoEnvelope
  /\ dispatchStartSequence = 0
  /\ prepared = NothingPrepared
  /\ batch = NoBatch
  /\ failure = "none"
  /\ applied = <<>>
  /\ lastPublishedSequence = 0
  /\ bootSequence = 0
  /\ unacknowledged = FALSE
  /\ healthy = TRUE
  /\ fence = [revision |-> 0, available |-> TRUE]
  /\ capture = NoCapture
  /\ waiting = [k \in Callers |-> NoCommand]
  /\ answers = {}
  /\ dispatches = 0

-----------------------------------------------------------------------------
(* Callers and other processes                                              *)

(* dispatch: the envelope joins the queue, the caller awaits its Deferred.   *)
Dispatch(k, c) ==
  /\ Up
  /\ waiting[k] = NoCommand
  /\ dispatches < MaxDispatches
  /\ queue' = Append(queue, [command |-> c, caller |-> k])
  /\ waiting' = [waiting EXCEPT ![k] = c]
  /\ dispatches' = dispatches + 1
  /\ UNCHANGED <<durable, worker, model, authority, answers>>

(* Another process commits an event: its own engine appends and projects it. *)
ForeignCommit(workspace, readable) ==
  /\ Len(log) < MaxSequence
  /\ Cardinality({n \in DOMAIN log : log[n].command = Foreign}) < MaxForeign
  /\ log' = Append(log, [command |-> Foreign, part |-> 1,
                         workspace |-> workspace, readable |-> readable])
  /\ UNCHANGED <<receipts, worker, model, authority, clients>>

(* The workspace events a set of sequences contains: what a thread's         *)
(* workspace identity is computed from.                                      *)
WorkspaceEvents(sequences) == {n \in sequences : log[n].workspace}
CommittedWorkspace == WorkspaceEvents(DOMAIN log)
ModelWorkspace == WorkspaceEvents({applied[i] : i \in DOMAIN applied})

(* captureThreadWorkspace: refused without a healthy, available authority.   *)
CaptureWorkspace ==
  /\ Up
  /\ healthy
  /\ fence.available
  /\ capture' = [taken |-> TRUE, revision |-> fence.revision, seen |-> ModelWorkspace]
  /\ UNCHANGED <<durable, worker, model, healthy, fence, clients>>

(* What the captured fence answers when it is checked in the PTY commit.     *)
CaptureValid ==
  /\ capture.taken
  /\ healthy
  /\ fence.available
  /\ capture.revision = fence.revision
  /\ capture.seen = ModelWorkspace

-----------------------------------------------------------------------------
(* The worker                                                               *)

(* Variant with a fault: a reconcile would read from the boot's head. *)
TakeWithoutSnapshot ==
  /\ pc = "idle"
  /\ queue # <<>>
  /\ envelope' = Head(queue)
  /\ queue' = Tail(queue)
  /\ dispatchStartSequence' = bootSequence
  /\ failure' = "none"
  /\ prepared' = NothingPrepared
  /\ batch' = NoBatch
  /\ pc' = "lookup"
  /\ UNCHANGED <<durable, model, authority, waiting, answers, dispatches>>

(* The queue's only consumer takes the next envelope. *)
Take ==
  /\ pc = "idle"
  /\ queue # <<>>
  /\ envelope' = Head(queue)
  /\ queue' = Tail(queue)
  /\ dispatchStartSequence' = SnapshotSequence
  /\ failure' = "none"
  /\ prepared' = NothingPrepared
  /\ batch' = NoBatch
  /\ pc' = "lookup"
  /\ UNCHANGED <<durable, model, authority, waiting, answers, dispatches>>

(* The Deferred of the envelope is completed and the worker is free.         *)
Answered(outcome, sequence) ==
  /\ answers' = answers \cup {[command |-> envelope.command, outcome |-> outcome,
                               sequence |-> sequence]}
  /\ waiting' = [waiting EXCEPT ![envelope.caller] = NoCommand]
  /\ envelope' = NoEnvelope
  /\ pc' = "idle"
  /\ UNCHANGED <<queue, dispatches>>

(* A repeated command is answered from its receipt, and nothing else runs.   *)
AnswerFromReceipt ==
  /\ pc = "lookup"
  /\ receipts[envelope.command].status # "none"
  /\ IF receipts[envelope.command].status = "accepted"
     THEN Answered("accepted", receipts[envelope.command].sequence)
     ELSE Answered("previously rejected", 0)
  /\ UNCHANGED <<durable, dispatchStartSequence, prepared, batch, failure, model, authority>>

(* Variant with a fault: the receipt is not looked at. *)
LookupSkipped ==
  /\ pc = "lookup"
  /\ pc' = "decide"
  /\ UNCHANGED <<durable, envelope, dispatchStartSequence, prepared, batch, failure, model,
                 authority, clients>>

LookupMisses ==
  /\ pc = "lookup"
  /\ receipts[envelope.command].status = "none"
  /\ pc' = "decide"
  /\ UNCHANGED <<durable, envelope, dispatchStartSequence, prepared, batch, failure, model,
                 authority, clients>>

(* The command fails: with an invariant error, which will be its rejection,  *)
(* or with an error that leaves no receipt and may be retried.               *)
Fail(kind) ==
  /\ failure' = kind
  /\ pc' = "reconcile"
  /\ UNCHANGED <<envelope, dispatchStartSequence, prepared, batch, applied,
                 lastPublishedSequence, bootSequence, authority, clients>>

(* Variant with a fault: an unreadable receipt counts as a rejection. *)
LookupFailureRejects ==
  /\ pc = "lookup"
  /\ Fail("rejected")
  /\ UNCHANGED <<durable, unacknowledged>>

(* The receipt cannot be read.                                               *)
LookupFails ==
  /\ pc = "lookup"
  /\ Fail("retryable")
  /\ UNCHANGED <<durable, unacknowledged>>

(* Storage admission, the approval checks or the decider refuse it.          *)
Refuse(kind) ==
  /\ pc = "decide"
  /\ Fail(kind)
  /\ UNCHANGED <<durable, unacknowledged>>

(* Variant with a fault: the fence is not begun before the commit. *)
PrepareUnfenced(count, workspace) ==
  /\ pc = "decide"
  /\ Len(log) + count <= MaxSequence
  /\ workspace => count > 0
  /\ prepared' = [count |-> count, workspace |-> workspace]
  /\ pc' = "commit"
  /\ UNCHANGED <<durable, envelope, dispatchStartSequence, batch, failure, model, authority,
                 clients>>

(* The decider's events; those that move a workspace begin the fence.        *)
Prepare(count, workspace) ==
  /\ pc = "decide"
  /\ Len(log) + count <= MaxSequence
  /\ workspace => count > 0
  /\ prepared' = [count |-> count, workspace |-> workspace]
  /\ fence' = IF workspace
              THEN [revision |-> fence.revision + 1, available |-> FALSE]
              ELSE fence
  /\ pc' = "commit"
  /\ UNCHANGED <<durable, envelope, dispatchStartSequence, batch, failure, model, healthy,
                 capture, clients>>

(* Only a follow-up queue command may commit without events.                 *)
MayCommit ==
  /\ pc = "commit"
  /\ prepared.count = 0 => envelope.command \in QueueCommands
  /\ Len(log) + prepared.count <= MaxSequence

ResultSequence ==
  IF prepared.count = 0 THEN SnapshotSequence ELSE Len(log) + prepared.count

(* Variant with a fault: the receipt names the event before the last. *)
TransactShortReceipt ==
  /\ log' = log \o [i \in 1 .. prepared.count |->
                      [command |-> envelope.command, part |-> i,
                       workspace |-> prepared.workspace, readable |-> TRUE]]
  /\ receipts' = [receipts EXCEPT ![envelope.command] =
                    [status |-> "accepted", sequence |-> Larger(ResultSequence - 1, 0)]]

(* The transaction: the command's events and its accepted receipt.           *)
Transact ==
  /\ log' = log \o [i \in 1 .. prepared.count |->
                      [command |-> envelope.command, part |-> i,
                       workspace |-> prepared.workspace, readable |-> TRUE]]
  /\ receipts' = [receipts EXCEPT ![envelope.command] =
                    [status |-> "accepted", sequence |-> ResultSequence]]

(* Variants with a fault: the first event is left out of what is installed; *)
(* the events are published before the model that holds them is installed.  *)
CommitShortBatch ==
  /\ MayCommit
  /\ Transact
  /\ batch' = [from |-> Smaller(Len(log) + 1, Len(log) + prepared.count),
               through |-> Len(log) + prepared.count]
  /\ pc' = "install"
  /\ UNCHANGED <<envelope, dispatchStartSequence, prepared, failure, model, authority, clients>>

CommitPublishing ==
  /\ MayCommit
  /\ Transact
  /\ batch' = [from |-> Len(log), through |-> Len(log) + prepared.count]
  /\ lastPublishedSequence' = IF prepared.count > 0 THEN Len(log) + prepared.count
                                                   ELSE lastPublishedSequence
  /\ pc' = "install"
  /\ UNCHANGED <<envelope, dispatchStartSequence, prepared, failure, applied, bootSequence,
                 unacknowledged, authority, clients>>

Commit ==
  /\ MayCommit
  /\ Transact
  /\ batch' = [from |-> Len(log), through |-> Len(log) + prepared.count]
  /\ pc' = "install"
  /\ UNCHANGED <<envelope, dispatchStartSequence, prepared, failure, model, authority, clients>>

(* It commits, but the worker sees it fail.                                  *)
CommitUnacknowledged ==
  /\ MayCommit
  /\ Transact
  /\ Fail("retryable")
  /\ unacknowledged' = TRUE

(* It rolls back: on an SQL error, on a claim another answer has taken, or   *)
(* because a command that must change something changes nothing.             *)
Rollback(kind) ==
  /\ pc = "commit"
  /\ Fail(kind)
  /\ UNCHANGED <<durable, unacknowledged>>

(* The committed model replaces the old one, and the fence lifts.            *)
Install ==
  /\ pc = "install"
  /\ applied' = applied \o Interval(batch.from, batch.through)
  /\ fence' = [fence EXCEPT !.available = TRUE]
  /\ pc' = "publish"
  /\ UNCHANGED <<durable, envelope, dispatchStartSequence, prepared, batch, failure,
                 lastPublishedSequence, bootSequence, unacknowledged, healthy, capture,
                 clients>>

(* publishCommittedEvents: only what is above the last published sequence.   *)
PublishBatch ==
  lastPublishedSequence' = IF batch.from < batch.through
                           THEN Larger(lastPublishedSequence, batch.through)
                           ELSE lastPublishedSequence

(* Variant with a fault: it answers with the store's head, not the receipt. *)
PublishAnsweringHead ==
  /\ pc = "publish"
  /\ PublishBatch
  /\ Answered("accepted", Len(log))
  /\ UNCHANGED <<durable, dispatchStartSequence, prepared, batch, failure, applied,
                 bootSequence, unacknowledged, authority>>

Publish ==
  /\ pc = "publish"
  /\ PublishBatch
  /\ Answered("accepted", receipts[envelope.command].sequence)
  /\ UNCHANGED <<durable, dispatchStartSequence, prepared, batch, failure, applied,
                 bootSequence, unacknowledged, authority>>

(* What a reconcile reads: the events after dispatchStartSequence.           *)
Unreconciled == Smaller(Len(log), dispatchStartSequence + ReconcileLimit)

(* Nothing was persisted: the model is as good as it was.                    *)
ReconcileNothing ==
  /\ pc = "reconcile"
  /\ Len(log) <= dispatchStartSequence
  /\ fence' = [fence EXCEPT !.available = TRUE]
  /\ healthy' = TRUE
  /\ pc' = "settle"
  /\ UNCHANGED <<durable, envelope, dispatchStartSequence, prepared, batch, failure, model,
                 capture, clients>>

(* Variant with a fault: an event that cannot be decoded is projected too. *)
ReconcileUndecoded ==
  /\ pc = "reconcile"
  /\ Len(log) > dispatchStartSequence
  /\ applied' = applied \o Interval(dispatchStartSequence, Unreconciled)
  /\ batch' = [from |-> dispatchStartSequence, through |-> Unreconciled]
  /\ fence' = [fence EXCEPT !.available = TRUE]
  /\ healthy' = TRUE
  /\ pc' = "republish"
  /\ UNCHANGED <<durable, envelope, dispatchStartSequence, prepared, failure,
                 lastPublishedSequence, bootSequence, unacknowledged, capture, clients>>

(* The persisted events are projected onto the model.                        *)
ReconcileModel ==
  /\ pc = "reconcile"
  /\ Len(log) > dispatchStartSequence
  /\ \A n \in (dispatchStartSequence + 1) .. Unreconciled : log[n].readable
  /\ applied' = applied \o Interval(dispatchStartSequence, Unreconciled)
  /\ batch' = [from |-> dispatchStartSequence, through |-> Unreconciled]
  /\ fence' = [fence EXCEPT !.available = TRUE]
  /\ healthy' = TRUE
  /\ pc' = "republish"
  /\ UNCHANGED <<durable, envelope, dispatchStartSequence, prepared, failure,
                 lastPublishedSequence, bootSequence, unacknowledged, capture, clients>>

(* The store cannot be read, or holds an event this process cannot decode.   *)
ReconcileFails ==
  /\ pc = "reconcile"
  /\ healthy' = FALSE
  /\ pc' = "settle"
  /\ UNCHANGED <<durable, envelope, dispatchStartSequence, prepared, batch, failure, model,
                 fence, capture, clients>>

Republish ==
  /\ pc = "republish"
  /\ PublishBatch
  /\ pc' = "settle"
  /\ UNCHANGED <<durable, envelope, dispatchStartSequence, prepared, batch, failure, applied,
                 bootSequence, unacknowledged, authority, clients>>

(* A rejection leaves a receipt; that its write fails is ignored.            *)
Settle(written) ==
  /\ pc = "settle"
  /\ IF failure = "rejected"
     THEN /\ Answered("rejected", 0)
          /\ receipts' = IF written
                         THEN [receipts EXCEPT ![envelope.command] =
                                 [status |-> "rejected", sequence |-> SnapshotSequence]]
                         ELSE receipts
     ELSE /\ Answered("failed", 0)
          /\ UNCHANGED receipts
  /\ UNCHANGED <<log, dispatchStartSequence, prepared, batch, failure, model, authority>>

-----------------------------------------------------------------------------
(* Crash and boot                                                           *)

(* The process dies: what was in memory is gone, and no caller is answered.  *)
(* (Nothing reads lastPublishedSequence until the boot sets it.)             *)
Crash ==
  /\ pc # "down"
  /\ pc' = "down"
  /\ queue' = <<>>
  /\ envelope' = NoEnvelope
  /\ prepared' = NothingPrepared
  /\ batch' = NoBatch
  /\ failure' = "none"
  /\ dispatchStartSequence' = 0
  /\ applied' = <<>>
  /\ bootSequence' = 0
  /\ unacknowledged' = FALSE
  /\ healthy' = TRUE
  /\ fence' = [revision |-> 0, available |-> TRUE]
  /\ capture' = NoCapture
  /\ waiting' = [k \in Callers |-> NoCommand]
  /\ UNCHANGED <<durable, lastPublishedSequence, answers, dispatches>>

(* Projector catch-up, then the read model is loaded.                        *)
BootLoad ==
  /\ pc = "down"
  /\ applied' = Interval(0, Len(log))
  /\ pc' = "booting"
  /\ UNCHANGED <<durable, envelope, dispatchStartSequence, prepared, batch, failure,
                 lastPublishedSequence, bootSequence, unacknowledged, authority, clients>>

(* The store's head is read, publication starts there, and the worker runs.  *)
BootReady ==
  /\ pc = "booting"
  /\ bootSequence' = Len(log)
  /\ lastPublishedSequence' = Len(log)
  /\ pc' = "idle"
  /\ UNCHANGED <<durable, envelope, dispatchStartSequence, prepared, batch, failure, applied,
                 unacknowledged, authority, clients>>

-----------------------------------------------------------------------------
WorkerStep ==
  \/ Take
  \/ AnswerFromReceipt \/ LookupMisses \/ LookupFails
  \/ \E kind \in {"retryable", "rejected"} : Refuse(kind) \/ Rollback(kind)
  \/ \E count \in 0 .. MaxBatch, workspace \in BOOLEAN : Prepare(count, workspace)
  \/ Commit \/ CommitUnacknowledged
  \/ Install \/ Publish
  \/ ReconcileNothing \/ ReconcileModel \/ ReconcileFails \/ Republish
  \/ \E written \in BOOLEAN : Settle(written)

Boot == BootLoad \/ BootReady

Next ==
  \/ WorkerStep
  \/ Boot
  \/ Crash
  \/ \E k \in Callers, c \in Commands : Dispatch(k, c)
  \/ \E workspace, readable \in BOOLEAN : ForeignCommit(workspace, readable)
  \/ CaptureWorkspace

(* The worker loops forever and a stopped server is started again; nobody    *)
(* has to dispatch, commit elsewhere or crash.                               *)
Fairness == WF_vars(WorkerStep) /\ WF_vars(Boot)

Spec == Init /\ [][Next]_vars /\ Fairness
-----------------------------------------------------------------------------
(* Properties                                                               *)

EventsOf(c) == {n \in DOMAIN log : log[n].command = c}

(* A command takes effect at most once, whatever callers retry and wherever *)
(* the process crashes: no two events of the store are the same part of the *)
(* same command.                                                            *)
AppliedAtMostOnce ==
  \A c \in Commands : \A m, n \in EventsOf(c) :
    log[m].part = log[n].part => m = n

(* Events and receipt commit together: a command has events exactly when it *)
(* has an accepted receipt, which names the last of them; only a follow-up  *)
(* queue command is accepted without events.                                *)
ReceiptMatchesLog ==
  \A c \in Commands :
    /\ EventsOf(c) # {} =>
         /\ receipts[c].status = "accepted"
         /\ receipts[c].sequence \in EventsOf(c)
         /\ \A n \in EventsOf(c) : n <= receipts[c].sequence
    /\ receipts[c].status = "accepted" /\ EventsOf(c) = {} => c \in QueueCommands

(* Every caller of a command that is told it was accepted is told the same  *)
(* sequence, the one its receipt holds; none is told so before the commit.  *)
AnswersAgree ==
  \A a \in answers : a.outcome = "accepted" =>
    /\ receipts[a.command].status = "accepted"
    /\ receipts[a.command].sequence = a.sequence

(* A receipt is the command's final outcome: no step replaces or removes it.*)
ReceiptsFinal ==
  [][\A c \in Commands : receipts[c].status # "none" => receipts'[c] = receipts[c]]_vars

(* The engine implements the promise of dispatch: seen from its callers and *)
(* from the store, queue, lookup, transaction, reconcile and boot are steps *)
(* that change nothing but for the one in which a command takes effect or   *)
(* is rejected, and the one in which its caller is told.                    *)
Service == INSTANCE CommandService WITH
  Unasked <- NoCommand,
  head <- Len(log),
  effects <- [c \in Commands |-> EventsOf(c)],
  outcome <- receipts,
  awaited <- waiting,
  answered <- answers

ServiceSpec == Service!Spec

(* The command read model has projected every event up to its own snapshot  *)
(* sequence, once each and in order (Services/OrchestrationEngine.ts:       *)
(* hydrated once at construction and advanced by every committed event),    *)
(* while no commit failed for the worker.                                   *)
ReadModelHasNoGap == ~unacknowledged => applied = Interval(0, SnapshotSequence)

(* Of the events this server commits, the model the next command is decided *)
(* on lacks none up to its snapshot sequence, whatever other processes      *)
(* commit in between and however commands fail.                             *)
OwnEventsProjected ==
  Up /\ ~unacknowledged =>
    \A n \in 1 .. SnapshotSequence :
      log[n].command # Foreign => \E i \in DOMAIN applied : applied[i] = n

(* No event is projected twice onto the read model, and none before an      *)
(* earlier one, however commands fail and reconcile.                        *)
ProjectedInOrder ==
  \A i, j \in DOMAIN applied : i < j => applied[i] < applied[j]

(* A consumer that reacts to a published event with a command finds that    *)
(* event in the read model its command is decided on: an event of this      *)
(* process is installed before it is published.                             *)
PublishedIsProjected ==
  Up /\ ~unacknowledged =>
    \A n \in (bootSequence + 1) .. lastPublishedSequence :
      log[n].command # Foreign => n <= SnapshotSequence

(* A captured workspace that still answers valid is the committed one: no   *)
(* event that moves a workspace has committed since the model it was        *)
(* captured from (Services/OrchestrationEngine.ts: fail closed without      *)
(* synchronous authority).                                                  *)
ValidCaptureIsCurrent == CaptureValid => capture.seen = CommittedWorkspace

(* The same of this server's own commands, while their commits are          *)
(* acknowledged: a capture answers valid at no moment between the commit of *)
(* a move and the model that has it.                                        *)
OwnMovesInvalidateCaptures ==
  CaptureValid /\ ~unacknowledged =>
    \A n \in CommittedWorkspace : log[n].command # Foreign => n \in capture.seen

(* Every dispatch ends: it is answered, or the process dies under it.       *)
EveryDispatchEnds ==
  \A k \in Callers : waiting[k] # NoCommand ~> waiting[k] = NoCommand

=============================================================================
