---------------------------- MODULE CommandService ----------------------------
(***************************************************************************)
(* What dispatch promises (orchestration/Services/OrchestrationEngine.ts): *)
(* commands take effect one at a time, each in one step and at most once,  *)
(* however often it is dispatched; what became of a command never changes; *)
(* and whoever dispatched one is answered what became of it, unless the    *)
(* process dies first or the attempt fails, which leaves it to be retried. *)
(*                                                                         *)
(* No queue, worker, transaction, read model or reconcile appears here.    *)
(***************************************************************************)
EXTENDS Integers

CONSTANTS
  Commands,
  QueueCommands,  \* those that may be accepted and change nothing
  Callers,
  MaxBatch,       \* the most events of one command
  Unasked         \* what a caller awaits that has dispatched nothing

VARIABLES
  head,      \* sequence of the last event
  effects,   \* [Commands -> the sequences of its events]
  outcome,   \* [Commands -> [status, sequence]]
  awaited,   \* [Callers -> Commands \cup {Unasked}]
  answered   \* what callers were told so far: [command, outcome, sequence]

vars == <<head, effects, outcome, awaited, answered>>

Undecided(c) == outcome[c].status = "none"

Waiting == {k \in Callers : awaited[k] # Unasked}

Init ==
  /\ head = 0
  /\ effects = [c \in Commands |-> {}]
  /\ outcome = [c \in Commands |-> [status |-> "none", sequence |-> 0]]
  /\ awaited = [k \in Callers |-> Unasked]
  /\ answered = {}

Ask(k, c) ==
  /\ awaited[k] = Unasked
  /\ awaited' = [awaited EXCEPT ![k] = c]
  /\ UNCHANGED <<head, effects, outcome, answered>>

(* Another process commits an event. *)
Elsewhere ==
  /\ head' = head + 1
  /\ UNCHANGED <<effects, outcome, awaited, answered>>

(* An undecided command that somebody awaits is accepted: its events are    *)
(* the next ones of the store, and it has no others.                        *)
TakeEffect(c, count) ==
  /\ Undecided(c)
  /\ effects[c] = {}
  /\ \E k \in Callers : awaited[k] = c
  /\ count = 0 => c \in QueueCommands
  /\ head' = head + count
  /\ effects' = [effects EXCEPT ![c] = (head + 1) .. (head + count)]
  /\ \E sequence \in IF count = 0 THEN 0 .. head ELSE {head + count} :
       outcome' = [outcome EXCEPT ![c] = [status |-> "accepted", sequence |-> sequence]]
  /\ UNCHANGED <<awaited, answered>>

(* The caller k is told what became of the command it awaits. *)
Tell(k, verdict, sequence) ==
  /\ awaited' = [awaited EXCEPT ![k] = Unasked]
  /\ answered' = answered \cup {[command |-> awaited[k], outcome |-> verdict,
                                 sequence |-> sequence]}
  /\ UNCHANGED <<head, effects>>

TellAccepted(k) ==
  /\ outcome[awaited[k]].status = "accepted"
  /\ Tell(k, "accepted", outcome[awaited[k]].sequence)
  /\ UNCHANGED outcome

(* An undecided command is rejected: for good, or, when that cannot be      *)
(* recorded, for this attempt.                                              *)
Reject(k) ==
  /\ Undecided(awaited[k])
  /\ Tell(k, "rejected", 0)
  /\ \/ \E sequence \in 0 .. head :
          outcome' = [outcome EXCEPT ![awaited[k]] =
                        [status |-> "rejected", sequence |-> sequence]]
     \/ UNCHANGED outcome

TellRejected(k) ==
  /\ outcome[awaited[k]].status = "rejected"
  /\ Tell(k, "previously rejected", 0)
  /\ UNCHANGED outcome

(* The attempt fails.  That decides nothing, and may be said of a command   *)
(* that has taken effect: its caller may dispatch it again and learn so.    *)
TellFailed(k) ==
  /\ Tell(k, "failed", 0)
  /\ UNCHANGED outcome

(* The process dies: nobody who awaits an answer gets one. *)
Abandon ==
  /\ awaited' = [k \in Callers |-> Unasked]
  /\ UNCHANGED <<head, effects, outcome, answered>>

Next ==
  \/ \E k \in Callers, c \in Commands : Ask(k, c)
  \/ \E c \in Commands, count \in 0 .. MaxBatch : TakeEffect(c, count)
  \/ \E k \in Waiting : TellAccepted(k) \/ Reject(k) \/ TellRejected(k) \/ TellFailed(k)
  \/ Elsewhere
  \/ Abandon

Spec == Init /\ [][Next]_vars
=============================================================================
