---------------------------- MODULE EventDelivery ----------------------------
(***************************************************************************)
(* What a domain-event subscription promises                               *)
(* (orchestration/Services/OrchestrationEngine.ts, subscribeDomainEvents): *)
(* every committed event above the last one published when it subscribed,  *)
(* exactly once and in sequence order, and never at the publisher's        *)
(* expense: nothing a subscriber does or fails to do delays a publication. *)
(*                                                                         *)
(* The log is the sequence of naturals 1..head; published is the highest   *)
(* sequence handed to the bus.  A subscription is described by the         *)
(* sequences it has received so far and the sequence it started from.      *)
(***************************************************************************)
EXTENDS Integers, Sequences

CONSTANTS
  Subscribers,
  MaxSequence   \* bound: the last sequence that is ever committed

VARIABLES
  head,       \* sequence of the last committed event
  published,  \* sequence of the last event handed to the bus
  live,       \* [Subscribers -> BOOLEAN] the subscription is open
  start,      \* [Subscribers -> Nat] where the subscription began
  received    \* [Subscribers -> Seq(Nat)] what it was given, in order

vars == <<head, published, live, start, received>>

(* The events of the half-open interval (from, through], in order. *)
Interval(from, through) == [i \in 1 .. (through - from) |-> from + i]

(* How far a subscription has come: everything up to Reached(s) is delivered. *)
Reached(s) == start[s] + Len(received[s])

Init ==
  /\ head \in 0 .. MaxSequence
  /\ published = head
  /\ live = [s \in Subscribers |-> FALSE]
  /\ start = [s \in Subscribers |-> 0]
  /\ received = [s \in Subscribers |-> <<>>]

Commit ==
  /\ head' \in (head + 1) .. MaxSequence
  /\ UNCHANGED <<published, live, start, received>>

Publish ==
  /\ published' \in (published + 1) .. head
  /\ UNCHANGED <<head, live, start, received>>

Subscribe(s) ==
  /\ ~live[s]
  /\ live' = [live EXCEPT ![s] = TRUE]
  /\ start' = [start EXCEPT ![s] = published]
  /\ received' = [received EXCEPT ![s] = <<>>]
  /\ UNCHANGED <<head, published>>

(* The next events of the log, never past the last published one. *)
Deliver(s) ==
  /\ live[s]
  /\ \E through \in (Reached(s) + 1) .. published :
       received' = [received EXCEPT ![s] = @ \o Interval(Reached(s), through)]
  /\ UNCHANGED <<head, published, live, start>>

(* Subscriptions end: a scope closes, a stream dies on an event this        *)
(* process cannot decode, or the process stops and none survives.           *)
End(ended) ==
  /\ live' = [s \in Subscribers |-> live[s] /\ s \notin ended]
  /\ UNCHANGED <<head, published, start, received>>

(* The process starts again: publication resumes at the store's head.       *)
Restart ==
  /\ \A s \in Subscribers : ~live[s]
  /\ published' = head
  /\ UNCHANGED <<head, live, start, received>>

Next ==
  \/ Commit
  \/ Publish
  \/ Restart
  \/ \E s \in Subscribers : Subscribe(s) \/ Deliver(s)
  \/ \E ended \in SUBSET Subscribers : End(ended)

Spec == Init /\ [][Next]_vars /\ \A s \in Subscribers : WF_vars(Deliver(s))
=============================================================================
