-------------------------- MODULE OrchestrationEngine --------------------------
(***************************************************************************)
(* The orchestration engine whole: the command worker (CommandEngine) and  *)
(* the domain-event bus it publishes to (DomainEventBus), on one event     *)
(* store and one publication cursor.  Publications of the worker are the   *)
(* bus's; a crash ends the subscriptions with the process; everything else *)
(* interleaves.                                                            *)
(***************************************************************************)
EXTENDS CommandEngine

CONSTANTS Subscribers, BusCapacity, PageSize

ASSUME SystemAssumption ==
  /\ BusCapacity \in Nat \ {0}
  /\ PageSize \in Nat \ {0}

VARIABLES status, start, cursor, inbox, held, gapThrough, delivered

subscriptionVars == <<status, start, cursor, inbox, held, gapThrough, delivered>>
sysVars == <<vars, subscriptionVars>>

Bus == INSTANCE DomainEventBus WITH
  head <- Len(log),
  unreadable <- {n \in DOMAIN log : ~log[n].readable},
  running <- Up

SysInit == Init /\ Bus!Init

(* Variant with a fault: the bus makes its publisher wait for room. *)
PublishWithBackpressure ==
  /\ Publish \/ Republish
  /\ \A s \in Subscribers : Bus!Live(s) => Len(inbox[s]) < BusCapacity
  /\ Bus!Publish(batch.from, batch.through)

(* The worker's publications, after a commit and after a reconcile. *)
PublishToBus ==
  /\ Publish \/ Republish
  /\ Bus!Publish(batch.from, batch.through)

WorkerAlone ==
  /\ pc \notin {"publish", "republish"}
  /\ WorkerStep
  /\ UNCHANGED subscriptionVars

SysBoot ==
  \/ BootLoad /\ UNCHANGED subscriptionVars
  \/ BootReady /\ Bus!Boot

SysCrash == Crash /\ Bus!Stop

Environment ==
  /\ \/ \E k \in Callers, c \in Commands : Dispatch(k, c)
     \/ \E workspace, readable \in BOOLEAN : ForeignCommit(workspace, readable)
     \/ CaptureWorkspace
  /\ UNCHANGED subscriptionVars

Consume(s) == UNCHANGED vars /\ Bus!Advance(s)

Subscribe(s) == UNCHANGED vars /\ (Bus!Subscribe(s) \/ Bus!Unsubscribe(s))

SysNext ==
  \/ PublishToBus
  \/ WorkerAlone
  \/ SysBoot
  \/ SysCrash
  \/ Environment
  \/ \E s \in Subscribers : Consume(s) \/ Subscribe(s)

(* The worker loops and a stopped server is started again.  Consumers may   *)
(* stop pulling for good.                                                   *)
WorkerSpec ==
  /\ SysInit
  /\ [][SysNext]_sysVars
  /\ WF_sysVars(PublishToBus \/ WorkerAlone)
  /\ WF_sysVars(SysBoot)

ConsumersPull == \A s \in Subscribers : WF_sysVars(Consume(s))
-----------------------------------------------------------------------------
(* The worker uses the bus as the bus expects: it publishes only committed  *)
(* events it has decoded, each publication above the last, subscriptions    *)
(* end with the process and start at the head it booted from.  The          *)
(* invariants proved of DomainEventBus therefore hold of the engine.        *)
EngineStepsBus == Bus!Init /\ [][Bus!Next]_(Bus!vars)

(* However often a command is dispatched, and whatever is retried,          *)
(* reconciled or published twice: a subscription is given what a command    *)
(* did once, its first part first, and no other event between two parts.    *)
CommandsArriveWhole ==
  \A s \in Subscribers : \A i, j \in DOMAIN delivered[s] :
    LET Arrived(x) == log[delivered[s][x]]
    IN i < j /\ Arrived(i).command = Arrived(j).command /\ Arrived(i).command # Foreign =>
         \A x \in i .. j : /\ Arrived(x).command = Arrived(i).command
                           /\ Arrived(x).part = Arrived(i).part + (x - i)

(* While consumers pull and commits are acknowledged, every event this      *)
(* server commits is delivered to every subscription that stays open.       *)
(* (EveryDispatchEnds is checked without ConsumersPull: a full window does  *)
(* not hold back the worker.)                                               *)
OwnEventsAreDelivered ==
  ConsumersPull =>
    \A s \in Subscribers : \A n \in 1 .. MaxSequence :
      (/\ Bus!Live(s) /\ start[s] < n /\ n <= Len(log) /\ log[n].command # Foreign)
        ~> (~Bus!Live(s) \/ cursor[s] >= n \/ unacknowledged)
=============================================================================
