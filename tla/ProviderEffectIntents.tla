------------------------- MODULE ProviderEffectIntents -------------------------
(***************************************************************************)
(* What becomes of a request that only a provider can carry out: starting  *)
(* a turn, steering one, stopping the session.  The request's event and a  *)
(* row of the provider_effect_intents ledger commit together              *)
(* (providerEffectIntents.ts); the provider command reactor delivers it    *)
(* through the thread's serial lane (ProviderCommandReactor.ts); the row   *)
(* is deleted in the commit of an event that settles it; and after a       *)
(* restart the rows left open are recovered.                               *)
(*                                                                         *)
(* One thread.  Request n is the n-th tracked event: its sequence, its     *)
(* row's key and its message are n.  Everything a step commits is one      *)
(* transaction of the engine (CommandEngine.tla).                          *)
(***************************************************************************)
EXTENDS Integers, Sequences, FiniteSets

CONSTANTS
  MaxRequests,          \* bound: tracked requests
  MaxCrashes,           \* bound: process losses
  MaxFaults,            \* bound: reads and writes of the store that fail
  MaxRecoveryAttempts   \* boots a row may survive, 5 in the program

ASSUME IntentsAssumption ==
  /\ MaxRequests \in Nat
  /\ MaxCrashes \in Nat
  /\ MaxFaults \in Nat
  /\ MaxRecoveryAttempts \in Nat

VARIABLES
  request,        \* the kinds of the tracked events, in sequence order
  row,            \* [Ids -> "none", "open" or "closed"], the ledger
  dispatched,     \* rows whose dispatched_at is set
  attempts,       \* [Ids -> boots that tried to recover the row]
  outcome,        \* [Ids -> what the thread's history says became of it]
  dropped,        \* rows settled with a log line instead of an outcome
  gone,           \* the thread is deleted or trashed
  session,        \* the projected session: "none", "ready" or "stopped"
  active,         \* its activeTurnId: the turn start it runs, or 0
  known,          \* it names the provider's runtime, whose events it takes
  phase,          \* how far the process has started
  bootSequence,   \* the store's head at this boot
  delivered,      \* the live subscription's cursor
  todo,           \* rows the recovery has listed and not yet resolved
  lane,           \* the thread's lifecycle lane, its head in progress
  place,          \* [Ids -> where this process's handling of it is]
  stopNoted,      \* highest stop noted by the lane control
  kept,           \* rows this process gave up on: the next boot's
  live,           \* the provider runs a runtime for the thread
  owned,          \* turn starts that runtime was sent
  sent,           \* [Ids -> times the provider was called with it]
  crashes, faults

ledger == <<request, row, dispatched, attempts>>
history == <<outcome, dropped, gone>>
projection == <<session, active, known>>
reactor == <<phase, bootSequence, delivered, todo>>
lanes == <<lane, place, stopNoted, kept>>
provider == <<live, owned, sent>>
bounds == <<crashes, faults>>
vars == <<ledger, history, projection, reactor, lanes, provider, bounds>>

Ids == 1 .. MaxRequests
Kinds == {"turn-start", "turn-steer", "session-stop"}
Phases == {"down", "booting", "subscribed", "reconciled", "recovering", "serving"}

(* How the history ends a request, "running" apart: its turn is under way.  *)
Verdicts == {"failed", "cancelled", "not-sent", "uncertain", "accepted", "refused",
             "deferred", "stopped", "stop-failed"}

(* Where a handler is.  From "marking" on, a turn start or steer has left    *)
(* the lane: its submission is a fiber of its own.                           *)
Places == {"none", "queued", "preparing", "marking", "calling", "waiting", "accepted",
           "failing", "rejected", "cancelled", "failed", "steered", "refused",
           "stopped", "stop-failed", "surfacing", "done"}

AtHead(i) == lane # <<>> /\ Head(lane) = i
Is(i, kind) == i <= Len(request) /\ request[i] = kind
Rows(kind) == {i \in Ids : row[i] = "open" /\ Is(i, kind)}
Up == phase # "down"

TypeOK ==
  /\ request \in Seq(Kinds) /\ Len(request) <= MaxRequests
  /\ row \in [Ids -> {"none", "open", "closed"}]
  /\ dispatched \subseteq Ids
  /\ attempts \in [Ids -> Nat]
  /\ outcome \in [Ids -> SUBSET (Verdicts \cup {"running"})]
  /\ dropped \subseteq Ids
  /\ gone \in BOOLEAN
  /\ session \in {"none", "ready", "stopped"}
  /\ active \in Ids \cup {0}
  /\ known \in BOOLEAN
  /\ phase \in Phases
  /\ bootSequence \in 0 .. MaxRequests
  /\ delivered \in 0 .. MaxRequests
  /\ todo \subseteq Ids
  /\ lane \in Seq(Ids)
  /\ place \in [Ids -> Places]
  /\ stopNoted \in 0 .. MaxRequests
  /\ kept \subseteq Ids
  /\ live \in BOOLEAN
  /\ owned \subseteq Ids
  /\ sent \in [Ids -> Nat]
  /\ crashes \in Nat
  /\ faults \in Nat

Init ==
  /\ request = <<>>
  /\ row = [i \in Ids |-> "none"]
  /\ dispatched = {}
  /\ attempts = [i \in Ids |-> 0]
  /\ outcome = [i \in Ids |-> {}]
  /\ dropped = {}
  /\ gone = FALSE
  /\ session = "none"
  /\ active = 0
  /\ known = FALSE
  /\ phase = "down"
  /\ bootSequence = 0
  /\ delivered = 0
  /\ todo = {}
  /\ lane = <<>>
  /\ place = [i \in Ids |-> "none"]
  /\ stopNoted = 0
  /\ kept = {}
  /\ live = FALSE
  /\ owned = {}
  /\ sent = [i \in Ids |-> 0]
  /\ crashes = 0
  /\ faults = 0

-----------------------------------------------------------------------------
(* The ledger: what a committed event settles (planProviderEffectIntent)    *)

\* Variant with a fault: a turn that starts settles every turn start of the thread.
DispatchedTurnStartsAll == Rows("turn-start")

DispatchedTurnStarts == Rows("turn-start") \cap dispatched
SessionStops == Rows("session-stop")

(* The rows settled are deleted, and the history gains the verdict of those *)
(* the event speaks of.                                                     *)
Commit(settled, spokenOf, verdict) ==
  /\ row' = [i \in Ids |-> IF i \in settled THEN "closed" ELSE row[i]]
  /\ outcome' = [i \in Ids |-> IF i \in spokenOf THEN outcome[i] \cup {verdict}
                                                 ELSE outcome[i]]

\* Variant with a fault: the verdict is shown and its row stays.
CommitVerdictKeepingRow(i, verdict) == Commit({}, {i}, verdict)

(* ByMessage: the activity or resolution names request i itself.            *)
CommitVerdict(i, verdict) == Commit({i}, {i}, verdict)

(* thread.session-set with status stopped.                                   *)
CommitStopped == Commit(SessionStops, SessionStops, "stopped")

CommitNothing == UNCHANGED <<row, outcome>>

(* providerEffectIntents.settle: the row goes, no event says why.            *)
SettleQuietly(i) ==
  /\ row' = [row EXCEPT ![i] = "closed"]
  /\ dropped' = dropped \cup {i}
  /\ UNCHANGED outcome

Fault == faults < MaxFaults /\ faults' = faults + 1
NoFault == UNCHANGED faults

-----------------------------------------------------------------------------
(* Commands                                                                  *)

(* A request is decided: a turn start needs an idle session, a steer a       *)
(* running turn.  Its row is recorded in the same transaction.               *)
Request(kind) ==
  /\ Up /\ ~gone
  /\ Len(request) < MaxRequests
  /\ kind = "turn-start" => active = 0
  /\ kind = "turn-steer" => active # 0
  /\ request' = Append(request, kind)
  /\ row' = [row EXCEPT ![Len(request) + 1] = "open"]
  /\ UNCHANGED <<dispatched, attempts, history, projection, reactor, lanes, provider, bounds>>

(* thread.deleted, thread.trashed: every row of the thread is settled.       *)
ThreadDeleted ==
  /\ Up /\ ~gone
  /\ request # <<>>
  /\ gone' = TRUE
  /\ Commit({i \in Ids : row[i] = "open"}, {}, "failed")
  /\ UNCHANGED <<request, dispatched, attempts, dropped, projection, reactor, lanes, provider,
                 bounds>>

-----------------------------------------------------------------------------
(* Delivery                                                                  *)

(* routeProviderIntentEvent: once per process; a stop is noted at once, the  *)
(* request itself waits its turn in the lane.                                *)
Route(i) ==
  IF place[i] # "none"
  THEN UNCHANGED <<place, lane, stopNoted>>
  ELSE /\ place' = [place EXCEPT ![i] = "queued"]
       /\ lane' = Append(lane, i)
       /\ stopNoted' = IF Is(i, "session-stop") /\ i > stopNoted THEN i ELSE stopNoted

(* The live subscription hands the reactor the next event.                   *)
Deliver ==
  /\ phase \notin {"down", "booting"}
  /\ delivered < Len(request)
  /\ delivered' = delivered + 1
  /\ Route(delivered + 1)
  /\ UNCHANGED <<ledger, history, projection, phase, bootSequence, todo, kept, provider, bounds>>

-----------------------------------------------------------------------------
(* Lane items and submissions                                                *)

Goto(i, p) == place' = [place EXCEPT ![i] = p]
Stay == lane' = lane
Leave(i) == lane' = IF AtHead(i) THEN Tail(lane) ELSE lane
Finish(i) == Goto(i, "done") /\ Leave(i)
Keep(i) == kept' = kept \cup {i}

(* The session is ensured: a live runtime the projection names is used, any  *)
(* other is replaced by a new one.                                           *)
EnsureSession ==
  /\ live' = TRUE
  /\ known' = TRUE
  /\ session' = "ready"
  /\ IF live /\ known THEN UNCHANGED <<owned, active>> ELSE owned' = {} /\ active' = 0

NothingProjected == UNCHANGED <<session, active, known>>

BeginStart(i) ==
  /\ AtHead(i) /\ place[i] = "queued" /\ Is(i, "turn-start")
  /\ UNCHANGED <<request, dispatched, attempts, gone, projection, reactor, stopNoted, kept,
                 provider, crashes>>
  /\ \/ /\ gone
        /\ SettleQuietly(i)
        /\ Finish(i) /\ NoFault
     \/ /\ ~gone /\ active # 0
        /\ CommitVerdict(i, "failed")
        /\ Finish(i) /\ NoFault /\ UNCHANGED dropped
     \/ /\ ~gone /\ active = 0
        /\ Goto(i, "preparing") /\ Stay
        /\ CommitNothing /\ NoFault /\ UNCHANGED dropped
     \/ /\ Fault
        /\ Goto(i, "failing") /\ Stay
        /\ CommitNothing /\ UNCHANGED dropped

(* A preparation step fails, or a stop noted past the start cancels it,      *)
(* before the session is up or after.                                        *)
PrepareFails(i) ==
  /\ place[i] = "preparing"
  /\ Goto(i, "failing") /\ Stay
  /\ \/ UNCHANGED <<projection, live, owned>>
     \/ stopNoted < i /\ EnsureSession
  /\ UNCHANGED <<ledger, history, reactor, stopNoted, kept, sent, bounds>>

(* prepareAndSubmitTurnStart up to the fork: the session is up and no stop   *)
(* is noted past this start.                                                 *)
Submit(i) ==
  /\ place[i] = "preparing"
  /\ stopNoted < i
  /\ EnsureSession
  /\ Goto(i, "marking") /\ Leave(i)
  /\ UNCHANGED <<ledger, history, reactor, stopNoted, kept, sent, bounds>>

(* processTurnSteerRequested up to its fork.                                 *)
BeginSteer(i) ==
  /\ AtHead(i) /\ place[i] = "queued" /\ Is(i, "turn-steer")
  /\ \/ Goto(i, "marking") /\ Leave(i) /\ NoFault
     \/ Fault /\ Goto(i, "surfacing") /\ Stay
  /\ UNCHANGED <<ledger, history, projection, reactor, stopNoted, kept, provider, crashes>>

\* Variant with a fault: the call is made on a row that was never marked.
MarkNothing(i) ==
  /\ place[i] = "marking"
  /\ Goto(i, "calling")
  /\ UNCHANGED <<ledger, history, projection, reactor, lane, stopNoted, kept, provider, bounds>>

(* markDispatched, immediately before the provider call: a row already       *)
(* settled has nothing to mark.                                              *)
Mark(i) ==
  /\ place[i] = "marking"
  /\ dispatched' = IF row[i] = "open" THEN dispatched \cup {i} ELSE dispatched
  /\ Goto(i, "calling")
  /\ UNCHANGED <<request, row, attempts, history, projection, reactor, lane, stopNoted, kept,
                 provider, bounds>>

MarkFails(i) ==
  /\ place[i] = "marking"
  /\ Fault
  /\ Goto(i, IF Is(i, "turn-start") THEN "failing" ELSE "refused")
  /\ UNCHANGED <<ledger, history, projection, reactor, lane, stopNoted, kept, provider, crashes>>

(* sendTurn routes to the thread's runtime whatever its binding's status,    *)
(* and recovers one when none is live; steerTurn needs a live one.           *)
Call(i) ==
  /\ place[i] = "calling"
  /\ Is(i, "turn-steer") => live
  /\ sent' = [sent EXCEPT ![i] = @ + 1]
  /\ IF Is(i, "turn-start")
     THEN live' = TRUE /\ owned' = owned \cup {i}
     ELSE UNCHANGED <<live, owned>>
  /\ Goto(i, "waiting")
  /\ UNCHANGED <<ledger, history, projection, reactor, lane, stopNoted, kept, bounds>>

(* The provider answers, or the call fails before or after it is made: a     *)
(* refusal, a deadline, no session to route to.                              *)
Accept(i) ==
  /\ place[i] = "waiting"
  /\ Goto(i, IF Is(i, "turn-start") THEN "accepted" ELSE "steered")
  /\ UNCHANGED <<ledger, history, projection, reactor, lane, stopNoted, kept, provider, bounds>>

Reject(i) ==
  /\ place[i] \in {"calling", "waiting"}
  /\ Goto(i, IF Is(i, "turn-start") THEN "rejected" ELSE "refused")
  /\ UNCHANGED <<ledger, history, projection, reactor, lane, stopNoted, kept, provider, bounds>>

-----------------------------------------------------------------------------
(* Telling the user (reportTurnStartFailure, resolveSteer)                   *)

Cancelled(i) == stopNoted > i

(* settleSessionAfterCancelledStart: the projection follows the runtime that *)
(* is live.  A turn that still runs is set again, as running.                *)
SettleCancelled(i) ==
  IF live /\ known /\ active # 0
  THEN /\ Commit(DispatchedTurnStarts, {active}, "running")
       /\ NothingProjected
  ELSE /\ active' = 0
       /\ UNCHANGED known
       /\ IF live /\ known
          THEN session' = "ready" /\ CommitNothing
          ELSE session' = "stopped" /\ CommitStopped

(* setThreadSessionErrorOnTurnStartFailure: before the submission, a turn    *)
(* that runs belongs to someone else and is kept.                            *)
SettleFailed(i) ==
  IF session = "none" \/ (place[i] = "failing" /\ active # 0)
  THEN NothingProjected /\ CommitNothing
  ELSE /\ active' = 0
       /\ UNCHANGED <<session, known>>
       /\ IF session = "stopped" THEN CommitStopped ELSE CommitNothing

(* First the session, then the activity: a failed session-set ends the       *)
(* report of a cancelled start, and is logged for any other.                 *)
TellSession(i) ==
  /\ place[i] \in {"failing", "rejected"}
  /\ ~gone
  /\ UNCHANGED <<request, dispatched, attempts, dropped, gone, reactor, stopNoted, provider,
                 crashes>>
  /\ \/ /\ IF Cancelled(i) THEN SettleCancelled(i) ELSE SettleFailed(i)
        /\ Goto(i, IF Cancelled(i) THEN "cancelled" ELSE "failed")
        /\ Stay /\ NoFault /\ UNCHANGED kept
     \/ /\ Fault /\ Cancelled(i)
        /\ Finish(i) /\ Keep(i)
        /\ NothingProjected /\ CommitNothing
     \/ /\ Fault /\ ~Cancelled(i)
        /\ Goto(i, "failed") /\ Stay
        /\ NothingProjected /\ CommitNothing /\ UNCHANGED kept

AppendActivity(i) ==
  /\ place[i] \in {"cancelled", "failed"}
  /\ ~gone
  /\ UNCHANGED <<request, dispatched, attempts, dropped, gone, projection, reactor, stopNoted,
                 provider, crashes>>
  /\ Finish(i)
  /\ \/ CommitVerdict(i, place[i]) /\ NoFault /\ UNCHANGED kept
     \/ Fault /\ CommitNothing /\ Keep(i)

(* thread.turn.steer.resolve.  An acceptance that cannot be committed is     *)
(* resolved as a refusal; a refusal that cannot ends the fiber.              *)
ResolveSteer(i) ==
  /\ place[i] \in {"steered", "refused"}
  /\ ~gone
  /\ UNCHANGED <<request, dispatched, attempts, dropped, gone, projection, reactor, lane,
                 stopNoted, provider, crashes>>
  /\ \/ /\ CommitVerdict(i, IF place[i] = "steered" THEN "accepted" ELSE "refused")
        /\ Goto(i, "done") /\ NoFault /\ UNCHANGED kept
     \/ /\ Fault /\ CommitNothing
        /\ Goto(i, IF place[i] = "steered" THEN "refused" ELSE "done")
        /\ kept' = IF place[i] = "refused" THEN kept \cup {i} ELSE kept

(* Nothing can be shown on a thread that is gone: the commands are refused.  *)
TellGone(i) ==
  /\ place[i] \in {"failing", "rejected", "cancelled", "failed", "steered", "refused",
                   "stop-failed"}
  /\ gone
  /\ Finish(i)
  /\ UNCHANGED <<ledger, history, projection, reactor, stopNoted, kept, provider, bounds>>

-----------------------------------------------------------------------------
(* Session stops (stopThreadSession)                                         *)

BeginStop(i) ==
  /\ AtHead(i) /\ place[i] = "queued" /\ Is(i, "session-stop")
  /\ UNCHANGED <<request, dispatched, attempts, gone, projection, reactor, stopNoted, kept, sent,
                 crashes>>
  /\ \/ /\ gone
        /\ SettleQuietly(i)
        /\ Finish(i) /\ NoFault /\ UNCHANGED <<live, owned>>
     \/ /\ ~gone /\ CommitNothing /\ Stay /\ NoFault /\ UNCHANGED dropped
        /\ IF session = "ready"
           THEN \/ Goto(i, "stopped") /\ live' = FALSE /\ owned' = {}
                \/ Goto(i, "stop-failed") /\ UNCHANGED <<live, owned>>
           ELSE Goto(i, "stopped") /\ UNCHANGED <<live, owned>>
     \/ /\ Fault /\ CommitNothing /\ Stay /\ UNCHANGED <<dropped, live, owned>>
        /\ Goto(i, "surfacing")

ShowStopFailure(i) ==
  /\ place[i] = "stop-failed"
  /\ ~gone
  /\ Stay
  /\ \/ Commit(SessionStops, SessionStops, "stop-failed") /\ Goto(i, "stopped") /\ NoFault
     \/ Fault /\ CommitNothing /\ Goto(i, "surfacing")
  /\ UNCHANGED <<request, dispatched, attempts, dropped, gone, projection, reactor, stopNoted,
                 kept, provider, crashes>>

(* Whatever the provider said, the session is shown stopped, and without its *)
(* runtime: nothing that runtime still reports is taken any more.            *)
SetStopped(i) ==
  /\ place[i] = "stopped"
  /\ \/ /\ gone
        /\ Finish(i) /\ NoFault /\ NothingProjected /\ CommitNothing
     \/ /\ ~gone
        /\ session' = "stopped" /\ active' = 0 /\ known' = FALSE
        /\ CommitStopped
        /\ Finish(i) /\ NoFault
     \/ /\ Fault /\ NothingProjected /\ CommitNothing
        /\ Goto(i, "surfacing") /\ Stay
  /\ UNCHANGED <<request, dispatched, attempts, dropped, gone, reactor, stopNoted, kept, provider,
                 crashes>>

(* surfaceIntentFailure: a failure that escaped a lane item is shown, unless *)
(* its row is gone or handed to the provider.                                *)
Surface(i) ==
  /\ place[i] = "surfacing"
  /\ Finish(i)
  /\ UNCHANGED <<request, dispatched, attempts, dropped, gone, projection, reactor, stopNoted,
                 provider, crashes>>
  /\ \/ /\ row[i] = "closed" /\ CommitNothing /\ NoFault /\ UNCHANGED kept
     \/ /\ row[i] = "open" /\ NoFault /\ UNCHANGED kept
        /\ IF Is(i, "session-stop")
           THEN Commit(SessionStops, SessionStops, "stop-failed")
           ELSE CommitVerdict(i, "refused")
     \/ /\ row[i] = "open" /\ Fault /\ CommitNothing /\ Keep(i)

-----------------------------------------------------------------------------
(* Provider runtime events (ProviderRuntimeIngestion)                       *)

Heard == live /\ known /\ ~gone

(* turn.started of a turn the runtime was sent: running, unless another turn *)
(* is.  Every dispatched turn start of the thread is settled by it.          *)
TurnStarted(i) ==
  /\ Heard
  /\ i \in owned /\ place[i] \in {"waiting", "accepted"}
  /\ active = 0 /\ "running" \notin outcome[i]
  /\ active' = i /\ session' = "ready"
  /\ Commit(DispatchedTurnStarts, {i}, "running")
  /\ UNCHANGED <<request, dispatched, attempts, dropped, gone, known, reactor, lanes, provider,
                 bounds>>

(* turn.completed and turn.aborted of the active turn.                       *)
TurnEnds ==
  /\ Heard
  /\ active # 0
  /\ active' = 0 /\ session' = "ready"
  /\ UNCHANGED <<ledger, history, known, reactor, lanes, provider, bounds>>

(* session.exited, heard only while the projection names the runtime.        *)
RuntimeExits ==
  /\ live
  /\ live' = FALSE /\ owned' = {}
  /\ IF Heard
     THEN active' = 0 /\ session' = "stopped" /\ UNCHANGED known /\ CommitStopped
     ELSE NothingProjected /\ CommitNothing
  /\ UNCHANGED <<request, dispatched, attempts, dropped, gone, reactor, lanes, sent, bounds>>

-----------------------------------------------------------------------------
(* Startup (startOrchestrationRuntime), recovery, and process loss          *)

Boot ==
  /\ phase = "down"
  /\ phase' = "booting"
  /\ bootSequence' = Len(request)
  /\ UNCHANGED <<ledger, history, projection, delivered, todo, lanes, provider, bounds>>

(* reactors.start: what commits from here on is delivered live.              *)
Subscribe ==
  /\ phase = "booting"
  /\ phase' = "subscribed"
  /\ delivered' = Len(request)
  /\ UNCHANGED <<ledger, history, projection, bootSequence, todo, lanes, provider, bounds>>

(* reconcileOrphanedProviderSessions: the turn of a runtime that is gone is  *)
(* released; its session's status is then "error", which settles nothing.    *)
Reconcile ==
  /\ phase = "subscribed"
  /\ phase' = "reconciled"
  /\ \/ NoFault /\ active' = IF live THEN active ELSE 0
     \/ Fault /\ UNCHANGED active
  /\ UNCHANGED <<ledger, history, session, known, bootSequence, delivered, todo, lanes, provider,
                 crashes>>

\* Variant with a fault: only rows of earlier processes are recovered.
ListOpenPrior ==
  /\ phase = "reconciled"
  /\ phase' = "recovering"
  /\ todo' = {i \in Ids : row[i] = "open" /\ i <= bootSequence}
  /\ UNCHANGED <<ledger, history, projection, bootSequence, delivered, lanes, provider, bounds>>

(* listOpen: a list that cannot be read is an empty one.                     *)
ListOpen ==
  /\ phase = "reconciled"
  /\ phase' = "recovering"
  /\ \/ NoFault /\ todo' = {i \in Ids : row[i] = "open"} /\ UNCHANGED kept
     \/ Fault /\ todo' = {} /\ kept' = {i \in Ids : row[i] = "open" /\ place[i] = "none"}
  /\ UNCHANGED <<ledger, history, projection, bootSequence, delivered, lane, place, stopNoted,
                 provider, crashes>>

FirstToDo(i) == i \in todo /\ \A j \in todo : i <= j

(* What an earlier process left of a turn start or steer is told, never sent *)
(* again; an unreadable turn start cannot be said not to have been sent.     *)
RecoveredVerdict(i) ==
  IF i \in dispatched THEN "uncertain"
  ELSE IF Is(i, "turn-start") THEN "not-sent" ELSE "deferred"

\* Variant with a fault: rows of earlier processes are delivered like this one's.
RecoverLive(i) ==
  /\ FirstToDo(i)
  /\ Route(i)
  /\ todo' = todo \ {i}
  /\ UNCHANGED <<ledger, history, projection, phase, bootSequence, delivered, kept, provider,
                 bounds>>

(* A row of this process, committed before the reactor subscribed: it takes  *)
(* the live way, whose deduplication absorbs a live copy.                    *)
RecoverOwn(i) ==
  /\ FirstToDo(i) /\ i > bootSequence
  /\ \/ Route(i) /\ NoFault /\ UNCHANGED kept
     \/ Fault /\ UNCHANGED <<place, lane, stopNoted>>
        /\ kept' = IF place[i] = "none" THEN kept \cup {i} ELSE kept
  /\ todo' = todo \ {i}
  /\ UNCHANGED <<ledger, history, projection, phase, bootSequence, delivered, provider, crashes>>

(* noteRecoveryAttempt counts on the row, while there is one.                *)
NoteAttempt(i) == attempts' = IF row[i] = "open" THEN [attempts EXCEPT ![i] = @ + 1] ELSE attempts
Exhausted(i) == row[i] = "open" /\ attempts[i] >= MaxRecoveryAttempts

(* A row of an earlier process.                                              *)
RecoverPrior(i) ==
  /\ FirstToDo(i) /\ i <= bootSequence
  /\ todo' = todo \ {i}
  /\ \/ /\ Exhausted(i) \/ gone
        /\ NoteAttempt(i) /\ SettleQuietly(i) /\ NoFault
        /\ UNCHANGED lanes
     \/ /\ ~Exhausted(i) /\ ~gone /\ ~Is(i, "session-stop")
        /\ NoteAttempt(i) /\ CommitVerdict(i, RecoveredVerdict(i)) /\ NoFault
        /\ UNCHANGED <<dropped, lanes>>
     \/ /\ ~Exhausted(i) /\ ~gone /\ Is(i, "session-stop")
        /\ NoteAttempt(i) /\ Route(i) /\ CommitNothing /\ NoFault
        /\ UNCHANGED <<dropped, kept>>
     \/ /\ ~Exhausted(i) /\ ~gone /\ Fault   \* its event cannot be decoded
        /\ NoteAttempt(i)
        /\ IF Is(i, "turn-start")
           THEN CommitVerdict(i, "uncertain") /\ UNCHANGED dropped
           ELSE SettleQuietly(i)
        /\ UNCHANGED lanes
     \/ /\ Fault   \* a read, the count or the outcome's commit fails
        /\ NoteAttempt(i) \/ UNCHANGED attempts
        /\ Keep(i) /\ CommitNothing
        /\ UNCHANGED <<dropped, lane, place, stopNoted>>
  /\ UNCHANGED <<request, dispatched, gone, projection, phase, bootSequence, delivered, provider,
                 crashes>>

Serve ==
  /\ phase = "recovering" /\ todo = {}
  /\ phase' = "serving"
  /\ UNCHANGED <<ledger, history, projection, bootSequence, delivered, todo, lanes, provider,
                 bounds>>

(* The process is lost with its lane, its fibers and the provider's runtime. *)
Crash ==
  /\ Up
  /\ crashes < MaxCrashes
  /\ crashes' = crashes + 1
  /\ phase' = "down"
  /\ delivered' = 0 /\ todo' = {}
  /\ lane' = <<>> /\ place' = [i \in Ids |-> "none"]
  /\ stopNoted' = 0 /\ kept' = {}
  /\ live' = FALSE /\ owned' = {}
  /\ UNCHANGED <<ledger, history, projection, bootSequence, sent, faults>>

-----------------------------------------------------------------------------
LaneStep(i) ==
  \/ BeginStart(i) \/ PrepareFails(i) \/ Submit(i)
  \/ BeginSteer(i) \/ Mark(i) \/ MarkFails(i) \/ Call(i)
  \/ TellSession(i) \/ AppendActivity(i) \/ ResolveSteer(i) \/ TellGone(i)
  \/ BeginStop(i) \/ ShowStopFailure(i) \/ SetStopped(i) \/ Surface(i)

StartupStep ==
  \/ Subscribe \/ Reconcile \/ ListOpen \/ Serve
  \/ \E i \in Ids : RecoverOwn(i) \/ RecoverPrior(i)

ProviderStep(i) == Accept(i) \/ Reject(i)

Next ==
  \/ \E kind \in Kinds : Request(kind)
  \/ ThreadDeleted
  \/ Deliver
  \/ \E i \in Ids : LaneStep(i) \/ ProviderStep(i) \/ TurnStarted(i)
  \/ TurnEnds \/ RuntimeExits
  \/ StartupStep \/ Boot \/ Crash

(* The server's own fibers run on; nothing is asked of clients or of the     *)
(* provider, but a refused steer or a call that no runtime can take fails.   *)
Fairness ==
  /\ WF_vars(StartupStep)
  /\ WF_vars(Boot)
  /\ WF_vars(Deliver)
  /\ \A i \in Ids : WF_vars(LaneStep(i) \/ (place[i] = "calling" /\ Reject(i)))

Spec == Init /\ [][Next]_vars /\ Fairness

-----------------------------------------------------------------------------
(* Properties                                                                *)

(* A turn or steer is given to the provider at most once, and only by the    *)
(* process that took the request: no restart, redelivery or recovery sends   *)
(* it again.                                                                 *)
NeverSentAgain ==
  [][\A i \in Ids : sent'[i] # sent[i] =>
       sent[i] = 0 /\ sent'[i] = 1 /\ i > bootSequence]_vars

(* When a restart tells the user that a message was not sent, or puts a      *)
(* steer back on the queue to be sent next, the provider never had it.       *)
UnsentVerdictsAreTrue ==
  \A i \in Ids : outcome[i] \cap {"not-sent", "deferred"} # {} => sent[i] = 0

(* A request that was not yet marked for the provider does not vanish: when  *)
(* its row is gone, the thread's history has its verdict, the thread itself  *)
(* is gone, or recovery gave it up with a log line.                          *)
UndispatchedEndsVisibly ==
  \A i \in Ids : row[i] = "closed" /\ i \notin dispatched =>
    outcome[i] # {} \/ gone \/ i \in dropped

(* Boots, lanes and submissions never give one message two endings.          *)
OneVerdict ==
  \A i \in Ids : Is(i, "turn-start") \/ Is(i, "turn-steer") =>
    Cardinality(outcome[i] \cap Verdicts) <= 1

(* An open row does not stay open under a running server: it is settled, or  *)
(* kept for the next boot after a failure of the store, or the provider has  *)
(* the turn and has not yet said it started.                                 *)
IntentsComeToRest ==
  \A i \in Ids :
    row[i] = "open" ~> row[i] = "closed" \/ i \in kept \/ place[i] \in {"waiting", "accepted"}

(* stopSession says of its binding that nothing routes to the runtime again  *)
(* once the user stopped the session, even when the provider did not confirm *)
(* it: no turn requested before the stop is sent after it was carried out.   *)
NothingRoutesAfterStop ==
  [][\A i, j \in Ids :
       /\ Is(i, "turn-start") /\ Is(j, "session-stop") /\ j > i
       /\ place[j] = "done" /\ "stopped" \in outcome[j]
       => sent'[i] = sent[i]]_vars
=============================================================================
