---------------------------- MODULE ServerQueueDrain ----------------------------
(***************************************************************************)
(* The fiber that sends a thread's follow-up queue                         *)
(* (serverQueueDrainRuntime.ts): passes over the queue and the news of     *)
(* starts that ended run one at a time in the thread's lane, while persons *)
(* and the provider go on changing what a pass has read.  A process loss   *)
(* takes the fiber and what it remembers.                                  *)
(*                                                                         *)
(* The Claude resume review and the budget of cold wakes are left out; so  *)
(* are the wakes themselves: the sweep may begin a pass at any time.       *)
(***************************************************************************)
EXTENDS FollowUpQueue

CONSTANTS
  MaxAttempts,   \* refusals of a head before it is held, 3 in the program
  MaxCrashes     \* bound: process losses

ASSUME DrainAssumption ==
  /\ MaxAttempts \in Nat \ {0}
  /\ MaxCrashes \in Nat

VARIABLES
  phase,         \* how far the process has started
  queuedAtBoot,  \* this process found entries and has not held them yet
  news,          \* ended starts the lane has not handled yet, in order
  awaiting,      \* the sent head whose start has neither bound nor ended
  watched,       \* sent entries whose failed start holds the queue
  refusals,      \* refused attempts at the head: its key and their count
  pass,          \* the pass in progress: where it is and what it has read
  seen,          \* the pending start the fence has seen
  leftover,      \* entries an earlier process left, until they are resumed
  drained,       \* messages this process's passes sent
  excused,       \* messages that may be sent though the provider took them
  unheld,        \* their boot hold could not be recorded
  crashes

memory == <<awaiting, watched, refusals, seen>>
drainVars == <<phase, queuedAtBoot, news, memory, pass, unheld, crashes>>
threadVars == <<queueVars, thread, sent, latest, startVars, steerVars>>
vars == <<threadVars, bounds, drainVars, leftover, drained, excused>>

Key == [message : Messages \cup {NoMessage}, revision : Nat]
NoKey == [message |-> NoMessage, revision |-> 0]
KeyOf(m) == [message |-> m, revision |-> entry[m].revision]
HeadKey == IF order = <<>> THEN NoKey ELSE KeyOf(Head(order))

Places == {"idle", "previous", "shell", "pin", "fence", "dispatch", "note"}
NoPass == [at |-> "idle", head |-> NoKey, ready |-> FALSE, pin |-> NoMessage]
Pass == [at : Places, head : Key, ready : BOOLEAN, pin : Messages \cup {NoMessage}]

Serving == phase = "serving"
Up == phase # "down"

TypeOK ==
  /\ QueueTypeOK
  /\ phase \in {"down", "booting", "ready", "serving"}
  /\ queuedAtBoot \in BOOLEAN
  /\ news \in Seq(Messages)
  /\ awaiting \in Messages \cup {NoMessage}
  /\ watched \subseteq Messages
  /\ refusals \in [key : Key, count : 0 .. MaxAttempts - 1]
  /\ pass \in Pass
  /\ seen \in Messages \cup {NoMessage}
  /\ leftover \subseteq Messages
  /\ drained \subseteq Messages /\ excused \subseteq Messages
  /\ unheld \in BOOLEAN
  /\ crashes \in Nat

Init ==
  /\ QueueInit
  /\ phase = "down"
  /\ queuedAtBoot = FALSE
  /\ news = <<>>
  /\ awaiting = NoMessage
  /\ watched = {}
  /\ refusals = [key |-> NoKey, count |-> 0]
  /\ pass = NoPass
  /\ seen = NoMessage
  /\ leftover = {} /\ drained = {} /\ excused = {} /\ unheld = FALSE
  /\ crashes = 0

-----------------------------------------------------------------------------
(* Persons and the provider, while the process is up                        *)

Person == phase \notin {"down", "booting"} /\ PersonsCommand /\ UNCHANGED drainVars

Provider ==
  /\ phase \notin {"down", "booting"}
  /\ \E m \in Messages : TurnStarts(m) \/ MarkSteer(m) \/ TakeSteer(m) \/ RejectSteer(m)
                          \/ AcceptSteer(m)
  /\ UNCHANGED drainVars

TurnIsOver == TurnEnds /\ Up /\ UNCHANGED drainVars

(* The activity reaches the lane; what is missed before the fiber subscribes *)
(* is no start it watches.                                                   *)
StartIsOver ==
  /\ Up
  /\ \E m \in Messages :
       /\ StartEnds(m)
       /\ news' = IF Serving THEN Append(news, m) ELSE news
  /\ UNCHANGED <<phase, queuedAtBoot, memory, pass, unheld, crashes>>

(* recordHold: thread.queue.hold.record, which a thread in Trash refuses; a  *)
(* hold that cannot be recorded is logged.                                   *)
RecordHold(cause) ==
  /\ \/ thread = "live" /\ HoldFor(cause) /\ UNCHANGED bounds
     \/ thread # "live" /\ UNCHANGED <<hold, bounds>>
     \/ Fault /\ UNCHANGED hold
  /\ UNCHANGED <<order, entry, thread, sent, latest, startVars, steerVars>>

-----------------------------------------------------------------------------
(* Startup and process loss                                                  *)

(* ServerQueueDrainLive, before any command is admitted.                     *)
Boot ==
  /\ phase = "down"
  /\ phase' = "booting"
  /\ \/ queuedAtBoot' = (order # <<>>) /\ UNCHANGED <<bounds, unheld>>
     \/ Fault /\ queuedAtBoot' = FALSE /\ unheld' = TRUE
  /\ UNCHANGED <<threadVars, news, memory, pass, crashes>>

(* The intents' recovery resolves what lost its process, then commands are   *)
(* admitted.                                                                 *)
Recover ==
  /\ phase = "booting"
  /\ \E m \in Messages : RecoverSteer(m)
  /\ UNCHANGED drainVars

AdmitCommands ==
  /\ phase = "booting"
  /\ lost = {} /\ \A m \in Messages : steer[m] = "none"
  /\ phase' = "ready"
  /\ UNCHANGED <<threadVars, bounds, queuedAtBoot, news, memory, pass, unheld, crashes>>

\* Variant with a fault: passes begin without the boot hold.
ServeUnheld ==
  /\ phase = "ready"
  /\ phase' = "serving" /\ queuedAtBoot' = FALSE
  /\ UNCHANGED <<threadVars, bounds, news, memory, pass, unheld, crashes>>

(* holdQueuedAtBoot, before the lanes: every queue an earlier process left.  *)
HoldQueuedAtBoot ==
  /\ phase = "ready"
  /\ phase' = "serving" /\ queuedAtBoot' = FALSE
  /\ IF queuedAtBoot THEN RecordHold("restart") ELSE UNCHANGED <<threadVars, bounds>>
  /\ unheld' = (unheld \/ faults' # faults)
  /\ UNCHANGED <<news, memory, pass, crashes>>

\* Variant with a fault: a steer counts as unsent until the provider answered.
AfterLossUnsent(state) ==
  IF state \in {"requested", "dispatched", "given"} THEN "unsent" ELSE state

(* What the loss makes of a steer: one that was marked may have been taken.  *)
AfterLoss(state) ==
  IF state = "requested" THEN "unsent"
  ELSE IF state \in {"dispatched", "given"} THEN "uncertain"
  ELSE state

Crash ==
  /\ Up
  /\ crashes < MaxCrashes
  /\ crashes' = crashes + 1
  /\ phase' = "down"
  /\ queuedAtBoot' = FALSE
  /\ news' = <<>>
  /\ awaiting' = NoMessage /\ watched' = {}
  /\ refusals' = [key |-> NoKey, count |-> 0]
  /\ seen' = NoMessage
  /\ pass' = NoPass
  /\ unheld' = FALSE
  /\ inFlight' = {} /\ lost' = lost \cup inFlight
  /\ running' = FALSE
  /\ steer' = [m \in Messages |-> AfterLoss(steer[m])] /\ missed' = {}
  /\ UNCHANGED <<queueVars, thread, sent, latest, pending, bound, ended, stopped, given, bounds>>

-----------------------------------------------------------------------------
(* The lane: one pass, or one ended start, at a time                        *)

LaneIsFree == Serving /\ pass.at = "idle"
PassAt(place) == Serving /\ pass.at = place
EndPass == pass' = NoPass
GoOn(place) == pass' = [pass EXCEPT !.at = place]

\* Variant with a fault: the news of a start overtakes the pass that sent it.
OnStartEndedAtOnce ==
  /\ Serving
  /\ news # <<>>
  /\ news' = Tail(news)
  /\ LET m == Head(news)
     IN IF m \in watched
        THEN /\ watched' = watched \ {m}
             /\ awaiting' = IF awaiting = m THEN NoMessage ELSE awaiting
             /\ IF m \in stopped THEN UNCHANGED <<threadVars, bounds>>
                ELSE RecordHold("start-failed")
        ELSE UNCHANGED <<watched, awaiting, threadVars, bounds>>
  /\ UNCHANGED <<phase, queuedAtBoot, refusals, seen, pass, unheld, crashes>>

\* Variant with a fault: a failed start stays awaited.
OnStartEndedStillAwaited ==
  /\ LaneIsFree
  /\ news # <<>>
  /\ news' = Tail(news)
  /\ watched' = watched \ {Head(news)}
  /\ IF Head(news) \in watched \ stopped THEN RecordHold("start-failed")
     ELSE UNCHANGED <<threadVars, bounds>>
  /\ UNCHANGED <<phase, queuedAtBoot, awaiting, refusals, seen, pass, unheld, crashes>>

(* A watched start that ended without a turn holds the rest of the queue,    *)
(* unless a Stop cancelled it.                                               *)
OnStartEnded ==
  /\ LaneIsFree
  /\ news # <<>>
  /\ news' = Tail(news)
  /\ LET m == Head(news)
     IN IF m \in watched
        THEN /\ watched' = watched \ {m}
             /\ awaiting' = IF awaiting = m THEN NoMessage ELSE awaiting
             /\ IF m \in stopped THEN UNCHANGED <<threadVars, bounds>>
                ELSE RecordHold("start-failed")
        ELSE UNCHANGED <<watched, awaiting, threadVars, bounds>>
  /\ UNCHANGED <<phase, queuedAtBoot, refusals, seen, pass, unheld, crashes>>

(* A pass begins: the head is read, and refusals of another one forgotten.   *)
BeginPass ==
  /\ LaneIsFree
  /\ order # <<>> /\ hold = {}
  /\ pass' = IF thread = "live" /\ entry[Head(order)].status = "queued"
             THEN [NoPass EXCEPT !.at = "previous", !.head = HeadKey]
             ELSE NoPass
  /\ refusals' = IF refusals.key = HeadKey THEN refusals ELSE [key |-> NoKey, count |-> 0]
  /\ <<pass', refusals'>> # <<pass, refusals>>
  /\ UNCHANGED <<threadVars, bounds, phase, queuedAtBoot, news, awaiting, watched, seen,
                 unheld, crashes>>

(* previousDispatchPending.  A row another start has replaced is absent.     *)
PreviousIsOver ==
  /\ PassAt("previous")
  /\ awaiting = NoMessage \/ awaiting \in bound
       \/ (awaiting \notin ended /\ awaiting # pending)
  /\ awaiting' = NoMessage
  /\ watched' = IF awaiting \in bound THEN watched \ {awaiting} ELSE watched
  /\ GoOn("shell")
  /\ UNCHANGED <<threadVars, bounds, phase, queuedAtBoot, news, refusals, seen, unheld, crashes>>

\* A start that waits long enough is given up as stalled.
PreviousPending ==
  /\ PassAt("previous")
  /\ awaiting # NoMessage /\ awaiting \notin bound
  /\ EndPass
  /\ \/ awaiting \in ended \cup {pending} /\ UNCHANGED <<threadVars, bounds, awaiting>>
     \/ /\ awaiting \notin ended /\ awaiting = pending
        /\ awaiting' = NoMessage
        /\ RecordHold("stalled")
  /\ UNCHANGED <<phase, queuedAtBoot, news, watched, refusals, seen, unheld, crashes>>

(* The thread's shell, whose session the idle check below reads.             *)
ReadShell ==
  /\ PassAt("shell")
  /\ pass' = [pass EXCEPT !.at = "pin", !.ready = ~running]
  /\ UNCHANGED <<threadVars, bounds, phase, queuedAtBoot, news, memory, unheld, crashes>>

(* The newest user message, which the decider will compare.                  *)
Pin ==
  /\ PassAt("pin")
  /\ pass' = [pass EXCEPT !.at = "fence", !.pin = latest]
  /\ UNCHANGED <<threadVars, bounds, phase, queuedAtBoot, news, memory, unheld, crashes>>

(* The idle check of the wake fence.  A start that waits blocks until its    *)
(* grace, counted from the first sight of it, is over.                       *)
CheckIdle ==
  /\ PassAt("fence")
  /\ seen' = pending
  /\ \/ (pending # NoMessage \/ ~pass.ready) /\ EndPass
     \/ pending \in {NoMessage, seen} /\ pass.ready /\ GoOn("dispatch")
  /\ UNCHANGED <<threadVars, bounds, phase, queuedAtBoot, news, awaiting, watched, refusals,
                 unheld, crashes>>

(* followUpQueueDispatchBlocker and the server wake guard of the decider.    *)
Sendable(head, pin) ==
  /\ thread = "live"
  /\ hold = {}
  /\ order # <<>> /\ HeadKey = head
  /\ entry[head.message].status = "queued"
  /\ ~running
  /\ latest = pin

\* Variant with a fault: the pin is read with the dispatch, after the idle check.
SendPinnedLate ==
  /\ PassAt("dispatch")
  /\ Sendable(pass.head, latest)
  /\ SendTurn(pass.head.message)
  /\ GoOn("note")
  /\ UNCHANGED <<bounds, phase, queuedAtBoot, news, memory, unheld, crashes>>

Send ==
  /\ PassAt("dispatch")
  /\ Sendable(pass.head, pass.pin)
  /\ SendTurn(pass.head.message)
  /\ GoOn("note")
  /\ UNCHANGED <<bounds, phase, queuedAtBoot, news, memory, unheld, crashes>>

(* The answer is back: the start is awaited and watched.                     *)
Note ==
  /\ PassAt("note")
  /\ awaiting' = pass.head.message
  /\ watched' = watched \cup {pass.head.message}
  /\ refusals' = [key |-> NoKey, count |-> 0]
  /\ EndPass
  /\ UNCHANGED <<threadVars, bounds, phase, queuedAtBoot, news, seen, unheld, crashes>>

(* The decider refuses, for what changed or for a reason that is not in this *)
(* model; a head refused too often is held.                                  *)
Refused ==
  /\ PassAt("dispatch")
  /\ EndPass
  /\ LET count == IF refusals.key = pass.head THEN refusals.count ELSE 0
     IN IF count + 1 < MaxAttempts
        THEN /\ refusals' = [key |-> pass.head, count |-> count + 1]
             /\ UNCHANGED <<threadVars, bounds>>
        ELSE /\ refusals' = [key |-> NoKey, count |-> 0]
             /\ RecordHold("refused")
  /\ UNCHANGED <<phase, queuedAtBoot, news, awaiting, watched, seen, unheld, crashes>>

-----------------------------------------------------------------------------
PassStep ==
  \/ PreviousIsOver \/ PreviousPending \/ ReadShell \/ Pin \/ CheckIdle
  \/ Send \/ Refused \/ Note

Startup == Boot \/ Recover \/ AdmitCommands \/ HoldQueuedAtBoot

Steps ==
  \/ Person \/ Provider \/ TurnIsOver \/ StartIsOver
  \/ Startup \/ Crash
  \/ BeginPass \/ OnStartEnded \/ PassStep

(* What a process found queued is left over until a Resume ends the hold;    *)
(* what it sent is its own until it gives a start up as stalled.  A message  *)
(* may be sent though the provider took it if a person retried it, removed   *)
(* it while its steer was in doubt or on its way, or its acceptance could not*)
(* be committed.                                                             *)
Track ==
  /\ leftover' = IF phase = "down" THEN Queued
                 ELSE IF hold # {} /\ hold' = {} THEN {}
                 ELSE leftover \cap {order'[i] : i \in DOMAIN order'}
  /\ drained' = IF ~Up THEN {}
                ELSE IF pass.at = "dispatch" /\ pass'.at = "note"
                THEN drained \cup {pass.head.message}
                ELSE IF pass.at = "previous" /\ pass'.at = "idle" /\ awaiting' # awaiting
                THEN drained \ {awaiting}
                ELSE drained
  /\ excused' = excused \cup
       {m \in Messages :
          \/ steer[m] = "given" /\ faults' # faults
          \/ m \in Queued /\ entry[m].status = "failed" /\ entry'[m].status = "queued"
          \/ m \in Queued /\ entry[m].status = "steering" /\ m \notin {order'[i] : i \in DOMAIN order'}}

Next == Steps /\ Track

(* The server's own fibers run on; the lane takes its items in order, so a   *)
(* start's news is not passed over for ever.                                 *)
Fairness ==
  /\ WF_vars(Startup /\ Track)
  /\ WF_vars(BeginPass /\ Track)
  /\ WF_vars(PassStep /\ Track)
  /\ SF_vars(OnStartEnded /\ Track)

Spec == Init /\ [][Next]_vars /\ Fairness

-----------------------------------------------------------------------------
(* Properties                                                                *)

Sends(m) == m \notin sent /\ m \in sent' /\ pass.at = "dispatch" /\ pass'.at = "note"

(* A queue an earlier process left is not sent without a Resume: its hold is *)
(* recorded before the first pass, whatever clients did to the queue between *)
(* the boot and the hold.  Only a hold that could not be recorded lets it go.*)
RestartNeedsResume ==
  [][\A m \in leftover : Sends(m) => unheld]_vars

(* When the news of a failed start of a message this process sent from the   *)
(* queue reaches the lane, the rest of the queue is held, however soon after *)
(* the commit it failed; unless a Stop cancelled it, or its row was bound to *)
(* another turn, or the hold could not be recorded.                          *)
FailedStartHoldsRest ==
  [][\A m \in drained :
       /\ news # <<>> /\ news' = Tail(news) /\ Head(news) = m /\ phase' = phase
       /\ m \notin stopped /\ m \notin bound
       /\ order # <<>> /\ thread = "live"
       => hold' # {} \/ faults' # faults]_vars

(* The queue never sends past the start of the newest message, a person's    *)
(* included, of which no earlier pass knew (so its grace cannot be over): one*)
(* that commits after the pin fails the decider's guard, and one committed   *)
(* before it shows in the idle check.                                        *)
NeverSendsPastNewestStart ==
  [][(\E m \in Messages : Sends(m)) => pending \in {NoMessage, seen} \/ pending # latest]_vars

(* A head that may be sent does not stay there: it is sent, or the queue is  *)
(* held, or the thread is busy or gone, or the queue changes.                *)
Ready ==
  /\ Serving /\ thread = "live"
  /\ hold = {} /\ order # <<>> /\ entry[Head(order)].status = "queued"
  /\ ~running /\ pending = NoMessage
ReadyHeadMovesOn == Ready ~> ~Ready

(* A message the provider may have taken as a steer is not sent again as the *)
(* next turn without a person, though the process was lost before it knew.   *)
UncertainSteerWaits ==
  [][\A m \in Messages : Sends(m) => given[m] = 0 \/ m \in excused]_vars
=============================================================================
