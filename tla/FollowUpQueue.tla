----------------------------- MODULE FollowUpQueue -----------------------------
(***************************************************************************)
(* The follow-up queue of one thread: messages to send when the thread is  *)
(* next idle.  What the decider records for a queue command, and for the   *)
(* events of other commands that touch the queue (followUpQueue.ts), with  *)
(* the turn starts and steers these ask of the provider.                   *)
(*                                                                         *)
(* A hold is the set of its causes, named by kind: a Resume releases the   *)
(* causes it names and may miss one that arrived since.  Texts, models,    *)
(* modes and who wrote an entry are left out; so are usage limits, other   *)
(* provider instances and the node's own wakes.  An action is one decided  *)
(* command, or one step of the provider; ServerQueueDrain.tla adds the     *)
(* fiber that sends the queue and the process they live in.                *)
(***************************************************************************)
EXTENDS Integers, Sequences, FiniteSets

CONSTANTS
  Messages,       \* messages of persons, each with one id
  NoMessage,
  MaxEntries,     \* entries a queue may hold
  MaxCommands,    \* bound: commands of persons
  MaxFaults       \* bound: reads and commits that fail

ASSUME QueueAssumption ==
  /\ NoMessage \notin Messages
  /\ MaxEntries \in Nat
  /\ MaxCommands \in Nat
  /\ MaxFaults \in Nat

VARIABLES
  order,      \* the queued messages, head first
  entry,      \* [Messages -> its entry while it is queued]
  hold,       \* the causes the queue is held for; none: not held
  thread,     \* "live", "trashed" or "deleted"
  sent,       \* the user messages of the thread
  latest,     \* the newest of them, by their stamps
  pending,    \* the turn start whose row waits to be bound, or NoMessage
  bound,      \* messages a turn is bound to
  ended,      \* messages whose start ended without a turn
  running,    \* the thread runs a turn
  inFlight,   \* turn starts the provider was asked for and has not answered
  stopped,    \* those of them a Stop cancels
  lost,       \* those that lost their process
  steer,      \* [Messages -> how its steer stands]
  missed,     \* steers whose turn is over
  given,      \* [Messages -> times the provider took it]
  commands, faults

queueVars == <<order, entry, hold>>
startVars == <<pending, bound, ended, running, inFlight, stopped, lost>>
steerVars == <<steer, missed, given>>
bounds == <<commands, faults>>

NoEntry == [revision |-> 0, status |-> "queued"]
Entry == [revision : Nat, status : {"queued", "steering", "failed"}]
Causes == {"stop", "paused", "error", "restart", "start-failed", "refused", "stalled", "trashed"}
SteerStates == {"none", "requested", "dispatched", "given", "unsent", "uncertain"}

QueueTypeOK ==
  /\ order \in Seq(Messages)
  /\ entry \in [Messages -> Entry]
  /\ hold \subseteq Causes
  /\ thread \in {"live", "trashed", "deleted"}
  /\ sent \subseteq Messages
  /\ latest \in Messages \cup {NoMessage}
  /\ pending \in Messages \cup {NoMessage}
  /\ bound \subseteq Messages
  /\ ended \subseteq Messages
  /\ running \in BOOLEAN
  /\ inFlight \subseteq Messages
  /\ stopped \subseteq Messages
  /\ steer \in [Messages -> SteerStates]
  /\ lost \subseteq Messages
  /\ missed \subseteq Messages
  /\ given \in [Messages -> Nat]
  /\ commands \in Nat
  /\ faults \in Nat

QueueInit ==
  /\ order = <<>>
  /\ entry = [m \in Messages |-> NoEntry]
  /\ hold = {}
  /\ thread = "live"
  /\ sent = {} /\ latest = NoMessage
  /\ pending = NoMessage /\ bound = {} /\ ended = {}
  /\ running = FALSE
  /\ inFlight = {} /\ stopped = {}
  /\ steer = [m \in Messages |-> "none"]
  /\ lost = {}
  /\ missed = {}
  /\ given = [m \in Messages |-> 0]
  /\ commands = 0 /\ faults = 0

-----------------------------------------------------------------------------
(* The queue and its events                                                 *)

Queued == {order[i] : i \in DOMAIN order}
Position(m) == CHOOSE i \in DOMAIN order : order[i] = m
Without(m) ==
  IF m \in Queued
  THEN SubSeq(order, 1, Position(m) - 1) \o SubSeq(order, Position(m) + 1, Len(order))
  ELSE order

(* The event of an entry gives it a new revision.                            *)
Become(m, status) ==
  entry' = [entry EXCEPT ![m] = [revision |-> @.revision + 1, status |-> status]]

(* removedDrafts: a queue that is emptied loses its hold.                    *)
LeaveQueue(m) ==
  /\ order' = Without(m)
  /\ entry' = [entry EXCEPT ![m] = NoEntry]
  /\ hold' = IF Without(m) = <<>> THEN {} ELSE hold

(* heldDraft: only a queue with an entry is held.                            *)
HoldFor(cause) == hold' = IF order = <<>> THEN hold ELSE hold \cup {cause}

Command == commands < MaxCommands /\ commands' = commands + 1 /\ UNCHANGED faults
Fault == faults < MaxFaults /\ faults' = faults + 1 /\ UNCHANGED commands

-----------------------------------------------------------------------------
(* thread.queue.* commands                                                   *)

\* Variant with a fault: an add does not look at the thread's messages.
AddAgain(m, atHead, carried) ==
  /\ Command
  /\ thread = "live"
  /\ m \notin Queued
  /\ Len(order) < MaxEntries
  /\ order' = IF atHead THEN <<m>> \o order ELSE Append(order, m)
  /\ entry' = [entry EXCEPT ![m] = [revision |-> 1, status |-> "queued"]]
  /\ hold' = hold \cup carried
  /\ UNCHANGED <<thread, sent, latest, startVars, steerVars>>

(* Adding an id that is queued or already a message changes nothing, so a    *)
(* retry or another device's copy never makes a second message.  An add may  *)
(* carry the hold of a Stop that found the queue empty.  Entries a device    *)
(* failed to send before it moved them here are left out.                    *)
Add(m, atHead, carried) ==
  /\ Command
  /\ thread = "live"
  /\ m \notin Queued /\ m \notin sent
  /\ Len(order) < MaxEntries
  /\ order' = IF atHead THEN <<m>> \o order ELSE Append(order, m)
  /\ entry' = [entry EXCEPT ![m] = [revision |-> 1, status |-> "queued"]]
  /\ hold' = hold \cup carried
  /\ UNCHANGED <<thread, sent, latest, startVars, steerVars>>

Edit(m) ==
  /\ Command
  /\ thread = "live"
  /\ m \in Queued /\ entry[m].status # "steering"
  /\ Become(m, entry[m].status)
  /\ UNCHANGED <<order, hold, thread, sent, latest, startVars, steerVars>>

(* Before another entry, or to the end.                                      *)
MoveBefore(m, before) ==
  /\ Command
  /\ thread = "live"
  /\ m \in Queued /\ before \in Queued \ {m}
  /\ LET rest == Without(m)
         i == CHOOSE k \in DOMAIN rest : rest[k] = before
     IN order' = SubSeq(rest, 1, i - 1) \o <<m>> \o SubSeq(rest, i, Len(rest))
  /\ UNCHANGED <<entry, hold, thread, sent, latest, startVars, steerVars>>

MoveToEnd(m) ==
  /\ Command
  /\ thread = "live"
  /\ m \in Queued
  /\ order' = Append(Without(m), m)
  /\ UNCHANGED <<entry, hold, thread, sent, latest, startVars, steerVars>>

Remove(m) ==
  /\ Command
  /\ thread = "live"
  /\ m \in Queued
  /\ LeaveQueue(m)
  /\ UNCHANGED <<thread, sent, latest, startVars, steerVars>>

(* Into the turn that runs; the entry's change and the request commit        *)
(* together.                                                                 *)
Steer(m) ==
  /\ Command
  /\ thread = "live"
  /\ m \in Queued /\ entry[m].status = "queued"
  /\ running /\ steer[m] = "none"
  /\ Become(m, "steering")
  /\ steer' = [steer EXCEPT ![m] = "requested"]
  /\ UNCHANGED <<order, hold, thread, sent, latest, startVars, missed, given>>

Hold ==
  /\ Command
  /\ thread = "live"
  /\ order # <<>>
  /\ HoldFor("paused")
  /\ UNCHANGED <<order, entry, thread, sent, latest, startVars, steerVars>>

Resume(acknowledged) ==
  /\ Command
  /\ thread = "live"
  /\ hold \cap acknowledged # {}
  /\ hold' = hold \ acknowledged
  /\ UNCHANGED <<order, entry, thread, sent, latest, startVars, steerVars>>

Retry(m) ==
  /\ Command
  /\ thread = "live"
  /\ m \in Queued /\ entry[m].status = "failed"
  /\ Become(m, "queued")
  /\ UNCHANGED <<order, hold, thread, sent, latest, startVars, steerVars>>

-----------------------------------------------------------------------------
(* Other commands and what they do to the queue (followUpQueueFollowOns)    *)

(* The newest message is the one stamped last (latestUserMessage), by the    *)
(* clock of whoever sent it; a message committed again is stamped again.     *)
BecomeMessage(m) ==
  /\ sent' = sent \cup {m}
  /\ latest' \in (IF m \in sent THEN sent ELSE {latest, m}) \ {NoMessage}

(* thread.message-sent and thread.turn-start-requested of one command: the   *)
(* message leaves the queue, and its row replaces the one that waits.        *)
SendTurn(m) ==
  /\ LeaveQueue(m)
  /\ BecomeMessage(m)
  /\ pending' = m
  /\ inFlight' = inFlight \cup {m}
  /\ UNCHANGED <<thread, bound, ended, running, stopped, lost, steerVars>>

(* A person's message that goes past the queue.                              *)
SendDirectly(m) ==
  /\ Command
  /\ thread = "live"
  /\ m \notin sent
  /\ ~running
  /\ SendTurn(m)

(* thread.turn.interrupt with holdQueue, thread.session.stop: starts in      *)
(* flight are cancelled, the turn that runs ends on its own.                 *)
Stop ==
  /\ Command
  /\ thread = "live"
  /\ HoldFor("stop")
  /\ stopped' = stopped \cup inFlight
  /\ UNCHANGED <<order, entry, thread, sent, latest, pending, bound, ended, running, inFlight,
                 lost, steerVars>>

Trash ==
  /\ Command
  /\ thread = "live"
  /\ thread' = "trashed"
  /\ HoldFor("trashed")
  /\ UNCHANGED <<order, entry, sent, latest, startVars, steerVars>>

Restore ==
  /\ Command
  /\ thread = "trashed"
  /\ thread' = "live"
  /\ UNCHANGED <<queueVars, sent, latest, startVars, steerVars>>

Delete ==
  /\ Command
  /\ thread # "deleted"
  /\ thread' = "deleted"
  /\ order' = <<>> /\ entry' = [m \in Messages |-> NoEntry] /\ hold' = {}
  /\ UNCHANGED <<sent, latest, startVars, steerVars>>

PersonsCommand ==
  \/ \E m \in Messages :
       \/ \E atHead \in BOOLEAN, carried \in {{}, {"stop"}} : Add(m, atHead, carried)
       \/ Edit(m) \/ Remove(m) \/ Steer(m) \/ Retry(m) \/ SendDirectly(m) \/ MoveToEnd(m)
       \/ \E before \in Messages : MoveBefore(m, before)
  \/ Hold \/ Stop \/ Trash \/ Restore \/ Delete
  \/ \E acknowledged \in SUBSET hold : Resume(acknowledged)

-----------------------------------------------------------------------------
(* What the provider makes of a turn start                                   *)

(* session-set with the turn the provider started: the row that waits is     *)
(* bound to it, whichever message the turn took.                             *)
TurnStarts(m) ==
  /\ m \in inFlight
  /\ ~running
  /\ running' = TRUE
  /\ inFlight' = inFlight \ {m}
  /\ bound' = bound \cup ({pending} \cap Messages)
  /\ pending' = NoMessage
  /\ given' = [given EXCEPT ![m] = @ + 1]
  /\ UNCHANGED <<queueVars, thread, sent, latest, ended, stopped, lost, steer, missed,
                 bounds>>

(* A turn ends, well or with an error that holds the queue; no provider      *)
(* takes a steer into another turn than the one it names.                    *)
TurnEnds ==
  /\ running
  /\ running' = FALSE
  /\ missed' = missed \cup {m \in Messages : steer[m] \in {"requested", "dispatched"}}
  /\ UNCHANGED hold \/ HoldFor("error")
  /\ UNCHANGED <<order, entry, thread, sent, latest, pending, bound, ended, inFlight, stopped,
                 lost, steer, given, bounds>>

(* provider.turn.start.failed or .cancelled: the message's own row goes.     *)
StartEnds(m) ==
  /\ m \in inFlight \cup lost
  /\ inFlight' = inFlight \ {m}
  /\ lost' = lost \ {m}
  /\ ended' = ended \cup {m}
  /\ pending' = IF pending = m THEN NoMessage ELSE pending
  /\ UNCHANGED <<queueVars, thread, sent, latest, bound, running, stopped, steerVars, bounds>>

-----------------------------------------------------------------------------
(* What becomes of a steer (processTurnSteerRequested)                       *)

(* Marked in the intents ledger right before the call.                       *)
MarkSteer(m) ==
  /\ steer[m] = "requested"
  /\ steer' = [steer EXCEPT ![m] = "dispatched"]
  /\ UNCHANGED <<queueVars, thread, sent, latest, startVars, missed, given, bounds>>

TakeSteer(m) ==
  /\ steer[m] = "dispatched" /\ m \notin missed
  /\ running
  /\ steer' = [steer EXCEPT ![m] = "given"]
  /\ given' = [given EXCEPT ![m] = @ + 1]
  /\ UNCHANGED <<queueVars, thread, sent, latest, startVars, missed, bounds>>

(* message-sent and turn-steer-accepted.                                     *)
AcceptSteer(m) ==
  /\ steer[m] = "given"
  /\ thread # "deleted"
  /\ steer' = [steer EXCEPT ![m] = "none"]
  /\ LeaveQueue(m)
  /\ BecomeMessage(m)
  /\ UNCHANGED <<thread, startVars, missed, given, bounds>>

(* turn-steer-rejected: an entry that still waits for its steer is queued    *)
(* again, first if its provider stopped the turn to take it.                 *)
Requeue(m) ==
  IF m \in Queued /\ entry[m].status = "steering"
  THEN /\ Become(m, "queued")
       /\ order' \in {order, <<m>> \o Without(m)}
  ELSE UNCHANGED <<order, entry>>

(* The provider refuses it, or the call fails before it is made; a steer the *)
(* provider took and whose acceptance cannot be committed ends the same way. *)
RejectSteer(m) ==
  /\ \/ steer[m] \in {"requested", "dispatched"} /\ UNCHANGED bounds
     \/ steer[m] = "given" /\ Fault
  /\ steer' = [steer EXCEPT ![m] = "none"] /\ missed' = missed \ {m}
  /\ Requeue(m)
  /\ UNCHANGED <<hold, thread, sent, latest, startVars, given>>

(* After a restart: a steer that was marked may have reached the provider,   *)
(* and its entry waits for Retry.                                            *)
RecoverSteer(m) ==
  /\ steer[m] \in {"unsent", "uncertain"}
  /\ steer' = [steer EXCEPT ![m] = "none"]
  /\ IF steer[m] = "unsent" THEN Requeue(m)
     ELSE IF m \in Queued /\ entry[m].status = "steering"
     THEN Become(m, "failed") /\ UNCHANGED order
     ELSE UNCHANGED <<order, entry>>
  /\ UNCHANGED <<hold, thread, sent, latest, startVars, missed, given, bounds>>

-----------------------------------------------------------------------------
(* A message leaves the queue in the commit that makes it a message of the   *)
(* thread, whoever sent it, and no copy of an add brings it back: what is    *)
(* sent is never still queued to be sent.                                    *)
NothingSentStaysQueued == Queued \cap sent = {}

(* Nobody waits for a cause they never saw: the hold goes with the last      *)
(* entry it held.                                                            *)
EmptyQueueIsNotHeld == order = <<>> => hold = {}
=============================================================================
