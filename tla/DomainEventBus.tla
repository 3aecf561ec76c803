---------------------------- MODULE DomainEventBus ----------------------------
(***************************************************************************)
(* The domain-event bus of the orchestration engine: a sliding PubSub that *)
(* never waits for a subscriber (OrchestrationEngine.ts), each             *)
(* subscription ordered and gap-filled by orderBySequence                  *)
(* (sequenceOrderedStream.ts) with reads of the event store                *)
(* (readMissedEvents, readThroughSequence).                                *)
(*                                                                         *)
(* Event n of the store has sequence n.  Commits come from the engine's    *)
(* own worker and from other processes on the same database; only the      *)
(* former are handed to the bus.                                           *)
(***************************************************************************)
EXTENDS Integers, Sequences

CONSTANTS
  Subscribers,   \* consumers of the bus (reactors, WebSocket feeds)
  BusCapacity,   \* live window of the bus, 4096 in the program
  PageSize,      \* rows per page of a gap read, 500 in the program
  MaxSequence    \* bound: the last sequence a run commits

ASSUME BusAssumption ==
  /\ BusCapacity \in Nat \ {0}
  /\ PageSize \in Nat \ {0}
  /\ MaxSequence \in Nat

VARIABLES
  head,                   \* sequence of the last committed event
  unreadable,             \* committed sequences this process cannot decode
  running,                \* the engine is constructed: publications, subscriptions
  lastPublishedSequence,  \* highest sequence handed to the bus
  status,                 \* [Subscribers -> Status]
  start,                  \* the cursor the subscription was given
  cursor,                 \* orderBySequence: last sequence emitted
  inbox,                  \* what the PubSub holds for the subscription
  held,                   \* rest of the array taken from the PubSub
  gapThrough,             \* upper end of the open gap read, NoGap if none
  delivered               \* everything emitted downstream, in order

subscriptionVars == <<status, start, cursor, inbox, held, gapThrough, delivered>>
vars == <<head, unreadable, running, lastPublishedSequence, subscriptionVars>>

Status == {"closed", "live", "died"}
NoGap == 0

Live(s) == status[s] = "live"

(* The events of the half-open interval (from, through], in order. *)
Interval(from, through) == [i \in 1 .. (through - from) |-> from + i]

Larger(a, b) == IF a > b THEN a ELSE b
Smaller(a, b) == IF a < b THEN a ELSE b

(* Variant with a fault, for mutation runs: full, it forgets the newest. *)
SlideDroppingNewest(items) ==
  IF Len(items) <= BusCapacity THEN items ELSE SubSeq(items, 1, BusCapacity)

(* A sliding buffer keeps the newest items and forgets the oldest. *)
Slide(items) ==
  IF Len(items) <= BusCapacity
  THEN items
  ELSE SubSeq(items, Len(items) - BusCapacity + 1, Len(items))

TypeOK ==
  /\ head \in Nat
  /\ unreadable \subseteq 1 .. head
  /\ running \in BOOLEAN
  /\ lastPublishedSequence \in Nat
  /\ status \in [Subscribers -> Status]
  /\ start \in [Subscribers -> Nat]
  /\ cursor \in [Subscribers -> Nat]
  /\ inbox \in [Subscribers -> Seq(Nat)]
  /\ held \in [Subscribers -> Seq(Nat)]
  /\ gapThrough \in [Subscribers -> Nat]
  /\ delivered \in [Subscribers -> Seq(Nat)]

-----------------------------------------------------------------------------
Init ==
  /\ head \in 0 .. MaxSequence
  /\ unreadable = {}
  /\ running \in BOOLEAN
  /\ lastPublishedSequence = head
  /\ status = [s \in Subscribers |-> "closed"]
  /\ start = [s \in Subscribers |-> 0]
  /\ cursor = [s \in Subscribers |-> 0]
  /\ inbox = [s \in Subscribers |-> <<>>]
  /\ held = [s \in Subscribers |-> <<>>]
  /\ gapThrough = [s \in Subscribers |-> NoGap]
  /\ delivered = [s \in Subscribers |-> <<>>]

(* A transaction commits count events: this engine's, or another process's. *)
Commit(count) ==
  /\ head + count <= MaxSequence
  /\ head' = head + count
  /\ UNCHANGED <<unreadable, running, lastPublishedSequence, subscriptionVars>>

(* Another process, of another version, commits an event whose payload this *)
(* process cannot decode.                                                   *)
CommitUnreadable ==
  /\ head < MaxSequence
  /\ head' = head + 1
  /\ unreadable' = unreadable \cup {head + 1}
  /\ UNCHANGED <<running, lastPublishedSequence, subscriptionVars>>

(* Variant with a fault: what was published is published again. *)
UnpublishedAll(from, through) == Interval(from, through)

(* publishCommittedEvents of the events in (from, through].  The worker's   *)
(* publication and the subscription's first cursor exclude each other, so   *)
(* the step is atomic.                                                      *)
Unpublished(from, through) == Interval(Larger(from, lastPublishedSequence), through)

Publish(from, through) ==
  /\ running
  /\ IF Unpublished(from, through) = <<>>
     THEN UNCHANGED <<inbox, lastPublishedSequence>>
     ELSE /\ inbox' = [s \in Subscribers |->
                         IF Live(s) THEN Slide(inbox[s] \o Unpublished(from, through))
                                    ELSE inbox[s]]
          /\ lastPublishedSequence' = through
  /\ UNCHANGED <<head, unreadable, running, status, start, cursor, held, gapThrough, delivered>>

(* subscribeDomainEvents: the PubSub subscription and its cursor, together  *)
(* under the publication lock.                                              *)
Subscribe(s) ==
  /\ running
  /\ ~Live(s)
  /\ status' = [status EXCEPT ![s] = "live"]
  /\ start' = [start EXCEPT ![s] = lastPublishedSequence]
  /\ cursor' = [cursor EXCEPT ![s] = lastPublishedSequence]
  /\ inbox' = [inbox EXCEPT ![s] = <<>>]
  /\ held' = [held EXCEPT ![s] = <<>>]
  /\ gapThrough' = [gapThrough EXCEPT ![s] = NoGap]
  /\ delivered' = [delivered EXCEPT ![s] = <<>>]
  /\ UNCHANGED <<head, unreadable, running, lastPublishedSequence>>

(* The consumer's scope closes. *)
Unsubscribe(s) ==
  /\ Live(s)
  /\ status' = [status EXCEPT ![s] = "closed"]
  /\ inbox' = [inbox EXCEPT ![s] = <<>>]
  /\ held' = [held EXCEPT ![s] = <<>>]
  /\ gapThrough' = [gapThrough EXCEPT ![s] = NoGap]
  /\ UNCHANGED <<head, unreadable, running, lastPublishedSequence, start, cursor, delivered>>

(* The pull with nothing left over takes what the PubSub holds. *)
Pull(s) ==
  /\ Live(s)
  /\ gapThrough[s] = NoGap
  /\ held[s] = <<>>
  /\ inbox[s] # <<>>
  /\ held' = [held EXCEPT ![s] = inbox[s]]
  /\ inbox' = [inbox EXCEPT ![s] = <<>>]
  /\ UNCHANGED <<head, unreadable, running, lastPublishedSequence, status, start, cursor,
                 gapThrough, delivered>>

(* The subscription looks at the next item of the array it took. *)
AtItem(s) == Live(s) /\ gapThrough[s] = NoGap /\ held[s] # <<>>

(* Variant with a fault: a jump is emitted like any other item. *)
KeepOverGap(s) ==
  /\ AtItem(s)
  /\ held' = [held EXCEPT ![s] = Tail(@)]
  /\ cursor' = [cursor EXCEPT ![s] = Larger(@, Head(held[s]))]
  /\ delivered' = [delivered EXCEPT ![s] =
                      IF Head(held[s]) > cursor[s] THEN Append(@, Head(held[s])) ELSE @]
  /\ UNCHANGED <<head, unreadable, running, lastPublishedSequence, status, start, inbox,
                 gapThrough>>

(* keep: the next sequence is emitted; an item at or below the cursor is    *)
(* dropped.                                                                 *)
Keep(s) ==
  /\ AtItem(s)
  /\ Head(held[s]) <= cursor[s] + 1
  /\ held' = [held EXCEPT ![s] = Tail(@)]
  /\ cursor' = [cursor EXCEPT ![s] = Larger(@, Head(held[s]))]
  /\ delivered' = [delivered EXCEPT ![s] =
                      IF Head(held[s]) > cursor[s] THEN Append(@, Head(held[s])) ELSE @]
  /\ UNCHANGED <<head, unreadable, running, lastPublishedSequence, status, start, inbox,
                 gapThrough>>

(* openGap: an item past the next sequence stays held until the store's     *)
(* events before it are read.                                               *)
OpenGap(s) ==
  /\ AtItem(s)
  /\ Head(held[s]) > cursor[s] + 1
  /\ gapThrough' = [gapThrough EXCEPT ![s] = Head(held[s]) - 1]
  /\ UNCHANGED <<head, unreadable, running, lastPublishedSequence, status, start, cursor,
                 inbox, held, delivered>>

(* The rows the next page of a gap read returns: (cursor, PageEnd]. *)
PageEnd(s) == Smaller(cursor[s] + PageSize, gapThrough[s])

ReadingGap(s) ==
  /\ Live(s)
  /\ gapThrough[s] # NoGap
  /\ cursor[s] < gapThrough[s]

(* Variant with a fault: a last, partial page is not handed on. *)
ReadFullGapPage(s) ==
  /\ ReadingGap(s)
  /\ cursor[s] + PageSize <= gapThrough[s]
  /\ (cursor[s] + 1) .. PageEnd(s) \cap unreadable = {}
  /\ delivered' = [delivered EXCEPT ![s] = @ \o Interval(cursor[s], PageEnd(s))]
  /\ cursor' = [cursor EXCEPT ![s] = PageEnd(s)]
  /\ UNCHANGED <<head, unreadable, running, lastPublishedSequence, status, start, inbox, held,
                 gapThrough>>

(* One page of readMissedEvents, handed on.  A page whose read failed is    *)
(* read again from the last event handed on: nothing changes.               *)
ReadGapPage(s) ==
  /\ ReadingGap(s)
  /\ (cursor[s] + 1) .. PageEnd(s) \cap unreadable = {}
  /\ delivered' = [delivered EXCEPT ![s] = @ \o Interval(cursor[s], PageEnd(s))]
  /\ cursor' = [cursor EXCEPT ![s] = PageEnd(s)]
  /\ UNCHANGED <<head, unreadable, running, lastPublishedSequence, status, start, inbox, held,
                 gapThrough>>

(* A page with an event this process cannot decode ends the subscription    *)
(* with a defect, before any row of the page is handed on.                  *)
DieInGap(s) ==
  /\ ReadingGap(s)
  /\ (cursor[s] + 1) .. PageEnd(s) \cap unreadable # {}
  /\ status' = [status EXCEPT ![s] = "died"]
  /\ inbox' = [inbox EXCEPT ![s] = <<>>]
  /\ held' = [held EXCEPT ![s] = <<>>]
  /\ gapThrough' = [gapThrough EXCEPT ![s] = NoGap]
  /\ UNCHANGED <<head, unreadable, running, lastPublishedSequence, start, cursor, delivered>>

(* The gap read ends: the cursor is at least its upper end. *)
CloseGap(s) ==
  /\ Live(s)
  /\ gapThrough[s] # NoGap
  /\ cursor[s] >= gapThrough[s]
  /\ cursor' = [cursor EXCEPT ![s] = Larger(@, gapThrough[s])]
  /\ gapThrough' = [gapThrough EXCEPT ![s] = NoGap]
  /\ UNCHANGED <<head, unreadable, running, lastPublishedSequence, status, start, inbox, held,
                 delivered>>

(* The process stops: every subscription is gone. *)
Stop ==
  /\ running' = FALSE
  /\ status' = [s \in Subscribers |-> "closed"]
  /\ inbox' = [s \in Subscribers |-> <<>>]
  /\ held' = [s \in Subscribers |-> <<>>]
  /\ gapThrough' = [s \in Subscribers |-> NoGap]
  /\ UNCHANGED <<head, unreadable, lastPublishedSequence, start, cursor, delivered>>

(* Construction of the engine: subscriptions start at the store's head. *)
Boot ==
  /\ ~running
  /\ running' = TRUE
  /\ lastPublishedSequence' = head
  /\ UNCHANGED <<head, unreadable, subscriptionVars>>

-----------------------------------------------------------------------------
(* What the worker publishes is committed, and it has decoded every event. *)
PublishCommitted ==
  \E from \in 0 .. head, through \in 1 .. head :
    /\ from < through
    /\ (from + 1) .. through \cap unreadable = {}
    /\ Publish(from, through)

(* One step of a subscription that has something to do. *)
Advance(s) ==
  \/ Pull(s) \/ Keep(s) \/ OpenGap(s)
  \/ ReadGapPage(s) \/ DieInGap(s) \/ CloseGap(s)

Next ==
  \/ \E count \in 1 .. MaxSequence : Commit(count)
  \/ CommitUnreadable
  \/ PublishCommitted
  \/ Stop
  \/ Boot
  \/ \E s \in Subscribers : Subscribe(s) \/ Unsubscribe(s) \/ Advance(s)

(* A subscription with items or a gap to read goes on: its consumer keeps   *)
(* pulling, and a failed page read is retried on a schedule that never ends.*)
Fairness == \A s \in Subscribers : WF_vars(Advance(s))

Spec == Init /\ [][Next]_vars /\ Fairness

-----------------------------------------------------------------------------
(* Every subscription has been given exactly the events above the last one  *)
(* published when it subscribed, once each, in sequence order, up to its    *)
(* cursor: orderBySequence neither skips nor repeats, whatever the bus has  *)
(* dropped and whoever committed the events.                                *)
DeliveredExactly ==
  \A s \in Subscribers : delivered[s] = Interval(start[s], cursor[s])

(* What is on its way to a subscription: the rest of the array it took, then*)
(* what the PubSub holds for it.                                            *)
OnItsWay(s) == held[s] \o inbox[s]

(* However far the bus slid, a live subscription is never left waiting for  *)
(* an event that was published: either it has come to the last published    *)
(* sequence, or that very event is still on its way, behind any gap.        *)
NothingLost ==
  \A s \in Subscribers : Live(s) =>
    IF OnItsWay(s) = <<>>
    THEN cursor[s] = lastPublishedSequence
    ELSE OnItsWay(s)[Len(OnItsWay(s))] = lastPublishedSequence

(* A gap read stops short of the item that jumped, so that item is emitted  *)
(* once, from the array; and it reads only what is committed.               *)
GapEndsBeforeHeldItem ==
  \A s \in Subscribers : gapThrough[s] # NoGap =>
    /\ held[s] # <<>>
    /\ gapThrough[s] = Head(held[s]) - 1
    /\ cursor[s] <= gapThrough[s]
    /\ gapThrough[s] < head

(* Nothing runs ahead: a cursor never passes the last published sequence,   *)
(* which never passes the store's head, and the bus holds nothing newer; no *)
(* subscription outlives the process.                                       *)
NothingAhead ==
  /\ lastPublishedSequence <= head
  /\ ~running => \A s \in Subscribers : ~Live(s)
  /\ \A s \in Subscribers :
       /\ start[s] <= cursor[s]
       /\ cursor[s] <= lastPublishedSequence
       /\ \A i \in 1 .. Len(held[s]) : held[s][i] <= lastPublishedSequence
       /\ \A i \in 1 .. Len(inbox[s]) : inbox[s][i] <= lastPublishedSequence

(* The bus implements the promise of subscribeDomainEvents. *)
Delivery == INSTANCE EventDelivery WITH
  published <- lastPublishedSequence,
  live <- [s \in Subscribers |-> Live(s)],
  received <- delivered

DeliverySpec == Delivery!Spec

(* Every published event reaches every subscription that stays open.        *)
PublishedIsDelivered ==
  \A s \in Subscribers : \A n \in 1 .. MaxSequence :
    (Live(s) /\ lastPublishedSequence >= n) ~> (~Live(s) \/ cursor[s] >= n)
=============================================================================
