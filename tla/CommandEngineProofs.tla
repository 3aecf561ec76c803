-------------------------- MODULE CommandEngineProofs --------------------------
(***************************************************************************)
(* What holds of the command worker for every set of commands and callers, *)
(* every bound and every interleaving with crashes and other processes:    *)
(* a command takes effect at most once and is answered by its receipt, and *)
(* the read model a command is decided on holds what this process          *)
(* committed and published before.                                         *)
(***************************************************************************)
EXTENDS CommandEngine, TLAPS

(***************************************************************************)
(* The inductive invariant                                                 *)
(***************************************************************************)

(* The places of the worker at which it has an envelope. *)
Busy == {"lookup", "decide", "commit", "install", "publish", "reconcile", "republish", "settle"}

EnvelopeInv == pc \in Busy => envelope \in Envelope

TypeInv == TypeOK /\ EnvelopeInv

(* What the worker's place says of its command's receipt: there is none     *)
(* from the lookup to the commit, and none when a rejection is on its way.  *)
WorkerReceiptInv ==
  /\ pc \in {"decide", "commit"} => receipts[envelope.command].status = "none"
  /\ pc \in {"reconcile", "republish", "settle"} /\ failure = "rejected" =>
       receipts[envelope.command].status = "none"
  /\ pc \in {"install", "publish"} => receipts[envelope.command].status = "accepted"

ReceiptInv ==
  /\ WorkerReceiptInv
  /\ AppliedAtMostOnce
  /\ ReceiptMatchesLog
  /\ AnswersAgree

Projected(n) == \E i \in DOMAIN applied : applied[i] = n

(* The read model holds committed events in order, and a reconcile starts   *)
(* from its last one.                                                       *)
OrderInv ==
  /\ \A i \in DOMAIN applied : applied[i] \in 1 .. Len(log)
  /\ ProjectedInOrder
  /\ pc \in {"lookup", "decide", "commit", "reconcile"} =>
       dispatchStartSequence = SnapshotSequence

(* The batch between commit and publication is committed, and newer than    *)
(* all that is installed and published.                                     *)
BatchInv ==
  /\ Up => lastPublishedSequence <= Len(log)
  /\ pc \in {"install", "publish", "republish"} =>
       batch.from <= batch.through /\ batch.through <= Len(log)
  /\ pc = "install" =>
       SnapshotSequence <= batch.from /\ lastPublishedSequence <= batch.from

(* Of this process's events only the batch being installed is missing.      *)
OwnInv ==
  pc # "down" /\ ~unacknowledged =>
    \A n \in DOMAIN log : log[n].command # Foreign =>
      Projected(n) \/ (pc = "install" /\ batch.from < n /\ n <= batch.through)

(* The fence is down from before a move commits until the model has it.     *)
FenceInv ==
  /\ pc \in {"commit", "install"} /\ prepared.workspace => ~fence.available
  /\ pc = "install" =>
       \A n \in DOMAIN log :
         batch.from < n /\ n <= batch.through /\ log[n].workspace => prepared.workspace

ModelInv == OrderInv /\ BatchInv /\ OwnInv /\ FenceInv

(***************************************************************************)
(* Sequences                                                               *)
(***************************************************************************)

(* Appending the k items of f keeps what was there and adds those.          *)
LEMMA Appended ==
  ASSUME NEW S, NEW s \in Seq(S), NEW k \in Nat, NEW f \in [1 .. k -> S]
  PROVE  /\ s \o f \in Seq(S)
         /\ Len(s \o f) = Len(s) + k
         /\ \A i \in 1 .. Len(s) : (s \o f)[i] = s[i]
         /\ \A i \in 1 .. k : (s \o f)[Len(s) + i] = f[i]
<1>1. f \in Seq(S) /\ Len(f) = k
  OBVIOUS
<1> QED
  BY <1>1

LEMMA SequenceIsFunction ==
  ASSUME NEW s \in Seq(Nat)
  PROVE  s \in [1 .. Len(s) -> Nat]
OBVIOUS

(* An interval is a sequence of naturals as long as it is wide. *)
LEMMA IntervalIsSequence ==
  ASSUME NEW a \in Nat, NEW b \in Nat, a <= b
  PROVE  /\ b - a \in Nat
         /\ Interval(a, b) \in [1 .. (b - a) -> Nat]
         /\ Interval(a, b) \in Seq(Nat)
         /\ Len(Interval(a, b)) = b - a
         /\ \A i \in 1 .. (b - a) : Interval(a, b)[i] = a + i
<1>1. b - a \in Nat
  OBVIOUS
<1>2. \A i \in 1 .. (b - a) : a + i \in Nat
  OBVIOUS
<1> QED
  BY <1>1, <1>2 DEF Interval

LEMMA IntervalType ==
  ASSUME NEW a \in Nat, NEW b \in Nat
  PROVE  Interval(a, b) \in Seq(Nat)
<1>1. CASE a <= b
  BY <1>1, IntervalIsSequence
<1>2. CASE b < a
  <2>1. 1 .. (b - a) = 1 .. 0
    BY <1>2
  <2>2. Interval(a, b) = [i \in 1 .. 0 |-> a + i]
    BY <2>1 DEF Interval
  <2>3. [i \in 1 .. 0 |-> a + i] \in [1 .. 0 -> Nat]
    OBVIOUS
  <2> QED
    BY <2>2, <2>3
<1> QED
  BY <1>1, <1>2

LEMMA SnapshotIsNatural ==
  ASSUME applied \in Seq(Nat)
  PROVE  SnapshotSequence \in Nat
BY DEF SnapshotSequence

(***************************************************************************)
(* Types                                                                   *)
(***************************************************************************)

(* The transaction of a command that may commit, item by item. *)
LEMMA TransactionItems ==
  ASSUME TypeOK, MayCommit, Transact, envelope \in Envelope
  PROVE  /\ log' \in Seq(Event)
         /\ prepared.count \in 0 .. MaxBatch
         /\ Len(log') = Len(log) + prepared.count
         /\ \A n \in 1 .. Len(log) : log'[n] = log[n]
         /\ \A i \in 1 .. prepared.count :
              log'[Len(log) + i] = [command |-> envelope.command, part |-> i,
                                    workspace |-> prepared.workspace, readable |-> TRUE]
         /\ ResultSequence \in Nat
         /\ receipts' = [receipts EXCEPT ![envelope.command] =
                            [status |-> "accepted", sequence |-> ResultSequence]]
         /\ receipts' \in [Commands -> Receipt]
<1> DEFINE k == prepared.count
           f == [i \in 1 .. k |-> [command |-> envelope.command, part |-> i,
                                   workspace |-> prepared.workspace, readable |-> TRUE]]
<1>1. /\ k \in 0 .. MaxBatch
      /\ prepared.workspace \in BOOLEAN
      /\ envelope.command \in Commands
      /\ MaxBatch \in Nat
      /\ log \in Seq(Event)
  BY EngineAssumption DEF TypeOK, Envelope
<1>2. f \in [1 .. k -> Event]
  <2> SUFFICES ASSUME NEW i \in 1 .. k
               PROVE  [command |-> envelope.command, part |-> i,
                       workspace |-> prepared.workspace, readable |-> TRUE] \in Event
    OBVIOUS
  <2>1. i \in 1 .. MaxBatch
    BY <1>1
  <2> QED
    BY <2>1, <1>1 DEF Event
<1>3. log' = log \o f
  BY DEF Transact
<1>4. k \in Nat
  BY <1>1
<1> HIDE DEF f
<1>5. /\ log \o f \in Seq(Event)
      /\ Len(log \o f) = Len(log) + k
      /\ \A n \in 1 .. Len(log) : (log \o f)[n] = log[n]
      /\ \A i \in 1 .. k : (log \o f)[Len(log) + i] = f[i]
  BY <1>1, <1>2, <1>4, Appended
<1>6. ResultSequence \in Nat
  <2>1. SnapshotSequence \in Nat
    BY SnapshotIsNatural DEF TypeOK
  <2>2. Len(log) + k \in Nat
    BY <1>1, <1>4
  <2> QED
    BY <2>1, <2>2 DEF ResultSequence
<1>7. receipts' = [receipts EXCEPT ![envelope.command] =
                     [status |-> "accepted", sequence |-> ResultSequence]]
  BY DEF Transact
<1>8. receipts' \in [Commands -> Receipt]
  BY <1>1, <1>6, <1>7 DEF TypeOK, Receipt
<1>9. \A i \in 1 .. k : f[i] = [command |-> envelope.command, part |-> i,
                                 workspace |-> prepared.workspace, readable |-> TRUE]
  BY DEF f
<1> QED
  BY <1>1, <1>3, <1>5, <1>6, <1>7, <1>8, <1>9

(* Whatever the worker answers, the answer is one. *)
LEMMA AnsweredTypes ==
  ASSUME TypeInv, envelope \in Envelope,
         NEW outcome \in {"accepted", "rejected", "previously rejected", "failed"},
         NEW sequence \in Nat, Answered(outcome, sequence)
  PROVE  /\ answers' \subseteq Answer
         /\ waiting' \in [Callers -> Commands \cup {NoCommand}]
         /\ envelope' = NoEnvelope
         /\ pc' = "idle"
         /\ queue' = queue
         /\ dispatches' = dispatches
<1>1. envelope.command \in Commands /\ envelope.caller \in Callers
  BY DEF Envelope
<1>2. answers' \subseteq Answer
  <2>1. [command |-> envelope.command, outcome |-> outcome, sequence |-> sequence] \in Answer
    BY <1>1 DEF Answer
  <2>2. answers \subseteq Answer
    BY DEF TypeInv, TypeOK
  <2>3. answers' = answers \cup {[command |-> envelope.command, outcome |-> outcome,
                                  sequence |-> sequence]}
    BY DEF Answered
  <2> QED
    BY <2>1, <2>2, <2>3
<1> QED
  BY <1>1, <1>2 DEF Answered, TypeInv, TypeOK

(* Every step keeps the types. *)
LEMMA TypeStep ==
  ASSUME TypeInv, [Next]_vars
  PROVE  TypeInv'
<1> USE EngineAssumption DEF TypeInv
<1>1. ASSUME NEW k \in Callers, NEW c \in Commands, Dispatch(k, c)
      PROVE  TypeInv'
  <2>1. [command |-> c, caller |-> k] \in Envelope
    BY DEF Envelope
  <2>2. queue' \in Seq(Envelope)
    BY <1>1, <2>1 DEF Dispatch, TypeOK
  <2> QED
    BY <1>1, <2>2 DEF Dispatch, TypeOK, EnvelopeInv, durable, worker, model, authority
<1>2. ASSUME NEW w \in BOOLEAN, NEW r \in BOOLEAN, ForeignCommit(w, r)
      PROVE  TypeInv'
  <2>1. [command |-> Foreign, part |-> 1, workspace |-> w, readable |-> r] \in Event
    BY DEF Event
  <2>2. log' \in Seq(Event)
    BY <1>2, <2>1 DEF ForeignCommit, TypeOK
  <2> QED
    BY <1>2, <2>2 DEF ForeignCommit, TypeOK, EnvelopeInv, worker, model, authority, clients
<1>3. CASE CaptureWorkspace
  <2>1. ModelWorkspace \subseteq Nat
    BY DEF ModelWorkspace, WorkspaceEvents, TypeOK
  <2> QED
    BY <1>3, <2>1 DEF CaptureWorkspace, TypeOK, EnvelopeInv, durable, worker, model, clients
<1>4. CASE Take
  <2>1. SnapshotSequence \in Nat
    BY SnapshotIsNatural DEF TypeOK
  <2>2. Head(queue) \in Envelope /\ Tail(queue) \in Seq(Envelope)
    BY <1>4 DEF Take, TypeOK
  <2>3. NothingPrepared \in [count : 0 .. MaxBatch, workspace : BOOLEAN]
    BY DEF NothingPrepared
  <2>4. NoBatch \in [from : Nat, through : Nat]
    BY DEF NoBatch
  <2> QED
    BY <1>4, <2>1, <2>2, <2>3, <2>4
    DEF Take, TypeOK, EnvelopeInv, durable, model, authority
<1>5. CASE AnswerFromReceipt
  <2>1. envelope \in Envelope /\ envelope.command \in Commands
    BY <1>5 DEF AnswerFromReceipt, EnvelopeInv, Busy, Envelope
  <2>2. receipts[envelope.command].sequence \in Nat
    BY <2>1 DEF TypeOK, Receipt
  <2>3. /\ answers' \subseteq Answer
        /\ waiting' \in [Callers -> Commands \cup {NoCommand}]
        /\ envelope' = NoEnvelope
        /\ pc' = "idle"
        /\ queue' = queue
        /\ dispatches' = dispatches
    BY <1>5, <2>1, <2>2, AnsweredTypes DEF AnswerFromReceipt
  <2> QED
    BY <1>5, <2>3 DEF AnswerFromReceipt, TypeOK, EnvelopeInv, Busy, durable, model, authority
<1>6. CASE LookupMisses
  BY <1>6 DEF LookupMisses, TypeOK, EnvelopeInv, Busy, durable, model, authority, clients
<1>7. CASE LookupFails
  BY <1>7 DEF LookupFails, Fail, TypeOK, EnvelopeInv, Busy, durable, authority, clients
<1>8. ASSUME NEW kind \in {"retryable", "rejected"}, Refuse(kind)
      PROVE  TypeInv'
  BY <1>8 DEF Refuse, Fail, TypeOK, EnvelopeInv, Busy, durable, authority, clients
<1>9. ASSUME NEW kind \in {"retryable", "rejected"}, Rollback(kind)
      PROVE  TypeInv'
  BY <1>9 DEF Rollback, Fail, TypeOK, EnvelopeInv, Busy, durable, authority, clients
<1>10. ASSUME NEW n \in 0 .. MaxBatch, NEW w \in BOOLEAN, Prepare(n, w)
       PROVE  TypeInv'
  BY <1>10 DEF Prepare, TypeOK, EnvelopeInv, Busy, durable, model, clients
<1>11. CASE Commit
  <2>1. envelope \in Envelope
    BY <1>11 DEF Commit, MayCommit, EnvelopeInv, Busy
  <2>2. log' \in Seq(Event) /\ receipts' \in [Commands -> Receipt]
    BY <1>11, <2>1, TransactionItems DEF Commit
  <2>3. batch' \in [from : Nat, through : Nat]
    BY <1>11 DEF Commit, TypeOK
  <2> QED
    BY <1>11, <2>1, <2>2, <2>3 DEF Commit, TypeOK, EnvelopeInv, Busy, model, authority, clients
<1>12. CASE CommitUnacknowledged
  <2>1. envelope \in Envelope
    BY <1>12 DEF CommitUnacknowledged, MayCommit, EnvelopeInv, Busy
  <2>2. log' \in Seq(Event) /\ receipts' \in [Commands -> Receipt]
    BY <1>12, <2>1, TransactionItems DEF CommitUnacknowledged
  <2> QED
    BY <1>12, <2>1, <2>2
    DEF CommitUnacknowledged, Fail, TypeOK, EnvelopeInv, Busy, authority, clients
<1>13. CASE Install
  <2>1. applied' \in Seq(Nat)
    BY <1>13, IntervalType DEF Install, TypeOK
  <2> QED
    BY <1>13, <2>1 DEF Install, TypeOK, EnvelopeInv, Busy, durable, clients
<1>14. CASE Publish
  <2>1. envelope \in Envelope /\ envelope.command \in Commands
    BY <1>14 DEF Publish, EnvelopeInv, Busy, Envelope
  <2>2. receipts[envelope.command].sequence \in Nat
    BY <2>1 DEF TypeOK, Receipt
  <2>3. /\ answers' \subseteq Answer
        /\ waiting' \in [Callers -> Commands \cup {NoCommand}]
        /\ envelope' = NoEnvelope
        /\ pc' = "idle"
        /\ queue' = queue
        /\ dispatches' = dispatches
    BY <1>14, <2>1, <2>2, AnsweredTypes DEF Publish
  <2>4. lastPublishedSequence' \in Nat
    BY <1>14 DEF Publish, PublishBatch, Larger, TypeOK
  <2> QED
    BY <1>14, <2>3, <2>4 DEF Publish, TypeOK, EnvelopeInv, Busy, durable, authority
<1>15. CASE ReconcileNothing
  BY <1>15 DEF ReconcileNothing, TypeOK, EnvelopeInv, Busy, durable, model, clients
<1>16. CASE ReconcileModel
  <2>1. Unreconciled \in Nat
    BY DEF Unreconciled, Smaller, TypeOK
  <2>2. applied' \in Seq(Nat)
    BY <1>16, <2>1, IntervalType DEF ReconcileModel, TypeOK
  <2> QED
    BY <1>16, <2>1, <2>2 DEF ReconcileModel, TypeOK, EnvelopeInv, Busy, durable, clients
<1>17. CASE ReconcileFails
  BY <1>17 DEF ReconcileFails, TypeOK, EnvelopeInv, Busy, durable, model, clients
<1>18. CASE Republish
  <2>1. lastPublishedSequence' \in Nat
    BY <1>18 DEF Republish, PublishBatch, Larger, TypeOK
  <2> QED
    BY <1>18, <2>1 DEF Republish, TypeOK, EnvelopeInv, Busy, durable, authority, clients
<1>19. ASSUME NEW written \in BOOLEAN, Settle(written)
       PROVE  TypeInv'
  <2>1. envelope \in Envelope /\ envelope.command \in Commands
    BY <1>19 DEF Settle, EnvelopeInv, Busy, Envelope
  <2>2. SnapshotSequence \in Nat
    BY SnapshotIsNatural DEF TypeOK
  <2>3. Answered("rejected", 0) \/ Answered("failed", 0)
    BY <1>19 DEF Settle
  <2>4. /\ answers' \subseteq Answer
        /\ waiting' \in [Callers -> Commands \cup {NoCommand}]
        /\ envelope' = NoEnvelope
        /\ pc' = "idle"
        /\ queue' = queue
        /\ dispatches' = dispatches
    BY <2>1, <2>3, AnsweredTypes
  <2>5. receipts' \in [Commands -> Receipt]
    <3>1. [status |-> "rejected", sequence |-> SnapshotSequence] \in Receipt
      BY <2>2 DEF Receipt
    <3> QED
      BY <1>19, <2>1, <3>1 DEF Settle, TypeOK
  <2> QED
    BY <1>19, <2>4, <2>5 DEF Settle, TypeOK, EnvelopeInv, Busy, model, authority
<1>20. CASE Crash
  <2>1. /\ NothingPrepared \in [count : 0 .. MaxBatch, workspace : BOOLEAN]
        /\ NoBatch \in [from : Nat, through : Nat]
        /\ NoCapture \in [taken : BOOLEAN, revision : Nat, seen : SUBSET Nat]
        /\ [revision |-> 0, available |-> TRUE] \in [revision : Nat, available : BOOLEAN]
    BY DEF NothingPrepared, NoBatch, NoCapture
  <2>2. <<>> \in Seq(Nat) /\ <<>> \in Seq(Envelope)
    OBVIOUS
  <2>3. waiting' \in [Callers -> Commands \cup {NoCommand}]
    BY <1>20 DEF Crash
  <2> HIDE DEF TypeInv
  <2>4. TypeOK
    BY DEF TypeInv
  <2>5. TypeOK'
    BY <1>20, <2>1, <2>2, <2>3, <2>4 DEF Crash, TypeOK, durable
  <2> QED
    BY <1>20, <2>5 DEF Crash, TypeInv, EnvelopeInv, Busy, durable
<1>21. CASE BootLoad
  <2>1. applied' \in Seq(Nat)
    BY <1>21, IntervalType DEF BootLoad, TypeOK
  <2> QED
    BY <1>21, <2>1 DEF BootLoad, TypeOK, EnvelopeInv, Busy, durable, authority, clients
<1>22. CASE BootReady
  BY <1>22 DEF BootReady, TypeOK, EnvelopeInv, Busy, durable, authority, clients
<1>23. CASE UNCHANGED vars
  BY <1>23
  DEF vars, TypeOK, EnvelopeInv, Busy, durable, worker, model, authority, clients
<1> QED
  BY <1>1, <1>2, <1>3, <1>4, <1>5, <1>6, <1>7, <1>8, <1>9, <1>10, <1>11, <1>12, <1>13,
     <1>14, <1>15, <1>16, <1>17, <1>18, <1>19, <1>20, <1>21, <1>22, <1>23
  DEF Next, WorkerStep, Boot

(***************************************************************************)
(* Receipts and effects                                                    *)
(***************************************************************************)

(* Where the receipts, the log and the answers stay, so do their relations. *)
LEMMA ReceiptsUntouched ==
  ASSUME ReceiptInv, UNCHANGED <<log, receipts, answers>>
  PROVE  AppliedAtMostOnce' /\ ReceiptMatchesLog' /\ AnswersAgree'
<1>1. \A c \in Commands : EventsOf(c)' = EventsOf(c)
  BY DEF EventsOf
<1>2. AppliedAtMostOnce'
  BY <1>1 DEF ReceiptInv, AppliedAtMostOnce
<1>3. ReceiptMatchesLog'
  BY <1>1 DEF ReceiptInv, ReceiptMatchesLog
<1>4. AnswersAgree'
  BY DEF ReceiptInv, AnswersAgree
<1> QED
  BY <1>2, <1>3, <1>4

(* A command without a receipt has no events and no accepted answer.        *)
LEMMA NoReceiptNoEffect ==
  ASSUME ReceiptInv, NEW c \in Commands, receipts[c].status = "none"
  PROVE  /\ EventsOf(c) = {}
         /\ \A a \in answers : a.outcome = "accepted" => a.command # c
BY DEF ReceiptInv, ReceiptMatchesLog, AnswersAgree

(* The transaction gives a command that had no events its events, the next  *)
(* ones of the store, and no other command any.                             *)
LEMMA TransactionEvents ==
  ASSUME TypeInv, ReceiptInv, MayCommit, Transact
  PROVE  /\ \A d \in Commands : d = envelope.command =>
              /\ EventsOf(d) = {}
              /\ EventsOf(d)' = (Len(log) + 1) .. (Len(log) + prepared.count)
         /\ \A d \in Commands : d # envelope.command =>
              /\ EventsOf(d)' = EventsOf(d)
              /\ \A n \in EventsOf(d) : log'[n] = log[n]
         /\ \A n \in (Len(log) + 1) .. (Len(log) + prepared.count) :
              log'[n].part = n - Len(log)
<1>0. envelope \in Envelope /\ envelope.command \in Commands
  BY DEF TypeInv, EnvelopeInv, Busy, MayCommit, Envelope
<1> PICK c \in Commands : c = envelope.command
  BY <1>0
<1> PICK k \in 0 .. MaxBatch : k = prepared.count
  BY DEF TypeInv, TypeOK
<1> PICK L \in Nat : L = Len(log)
  BY DEF TypeInv, TypeOK
<1>1. envelope \in Envelope /\ c \in Commands
  BY <1>0
<1>2. /\ log' \in Seq(Event)
      /\ k \in 0 .. MaxBatch
      /\ Len(log') = L + k
      /\ \A n \in 1 .. L : log'[n] = log[n]
      /\ \A i \in 1 .. k : log'[L + i] = [command |-> c, part |-> i,
                                          workspace |-> prepared.workspace, readable |-> TRUE]
      /\ ResultSequence \in Nat
      /\ receipts' = [receipts EXCEPT ![c] =
                        [status |-> "accepted", sequence |-> ResultSequence]]
      /\ receipts' \in [Commands -> Receipt]
  BY <1>1, TransactionItems DEF TypeInv
<1>3. log \in Seq(Event) /\ L \in Nat /\ k \in Nat /\ receipts \in [Commands -> Receipt]
  BY <1>2, EngineAssumption DEF TypeInv, TypeOK
<1>4. EventsOf(c) = {}
  BY <1>1, NoReceiptNoEffect DEF ReceiptInv, WorkerReceiptInv, MayCommit
<1>5. \A n \in 1 .. L : log[n].command # c
  BY <1>3, <1>4 DEF EventsOf
<1>6. \A n \in 1 .. (L + k) : n > L => log'[n].command = c /\ log'[n].part = n - L
  <2> SUFFICES ASSUME NEW n \in 1 .. (L + k), n > L
               PROVE  log'[n].command = c /\ log'[n].part = n - L
    OBVIOUS
  <2>1. n - L \in 1 .. k /\ n = L + (n - L)
    BY <1>3
  <2>2. log'[n] = [command |-> c, part |-> n - L,
                   workspace |-> prepared.workspace, readable |-> TRUE]
    BY <1>2, <2>1
  <2> QED
    BY <2>2
<1>7. EventsOf(c)' = (L + 1) .. (L + k)
  <2>1. \A n \in 1 .. (L + k) : log'[n].command = c <=> n > L
    BY <1>2, <1>3, <1>5, <1>6
  <2>2. DOMAIN log' = 1 .. (L + k)
    BY <1>2
  <2>3. EventsOf(c)' = {n \in 1 .. (L + k) : log'[n].command = c}
    BY <2>2 DEF EventsOf
  <2> QED
    BY <1>3, <2>1, <2>3
<1>8. \A d \in Commands : d # c =>
        /\ EventsOf(d)' = EventsOf(d)
        /\ \A n \in EventsOf(d) : log'[n] = log[n]
  <2> SUFFICES ASSUME NEW d \in Commands, d # c
               PROVE  /\ EventsOf(d)' = EventsOf(d)
                      /\ \A n \in EventsOf(d) : log'[n] = log[n]
    OBVIOUS
  <2>1. DOMAIN log' = 1 .. (L + k) /\ DOMAIN log = 1 .. L
    BY <1>2, <1>3
  <2>2. \A n \in 1 .. (L + k) : log'[n].command = d <=> (n \in 1 .. L /\ log[n].command = d)
    <3> SUFFICES ASSUME NEW n \in 1 .. (L + k)
                 PROVE  log'[n].command = d <=> (n \in 1 .. L /\ log[n].command = d)
      OBVIOUS
    <3>1. CASE n <= L
      BY <1>2, <3>1
    <3>2. CASE n > L
      BY <1>6, <3>2
    <3> QED
      BY <3>1, <3>2
  <2>3. EventsOf(d)' = {n \in 1 .. (L + k) : log'[n].command = d}
    BY <2>1 DEF EventsOf
  <2>4. EventsOf(d) = {n \in 1 .. L : log[n].command = d}
    BY <2>1 DEF EventsOf
  <2>5. EventsOf(d)' = EventsOf(d)
    BY <1>3, <2>2, <2>3, <2>4
  <2> QED
    BY <1>2, <2>4, <2>5
<1>9. \A n \in (L + 1) .. (L + k) : log'[n].part = n - L
  BY <1>3, <1>6
<1> QED
  BY <1>4, <1>7, <1>8, <1>9

(* The transaction gives a command that had no effect its effect.           *)
LEMMA TransactionKeepsReceipts ==
  ASSUME TypeInv, ReceiptInv, MayCommit, Transact, UNCHANGED answers
  PROVE  /\ AppliedAtMostOnce' /\ ReceiptMatchesLog' /\ AnswersAgree'
         /\ receipts'[envelope.command].status = "accepted"
<1> PICK c \in Commands : c = envelope.command
  BY DEF TypeInv, EnvelopeInv, Busy, MayCommit, Envelope
<1> PICK k \in 0 .. MaxBatch : k = prepared.count
  BY DEF TypeInv, TypeOK
<1> PICK L \in Nat : L = Len(log)
  BY DEF TypeInv, TypeOK
<1>1. envelope \in Envelope
  BY DEF TypeInv, EnvelopeInv, Busy, MayCommit
<1>2. /\ ResultSequence \in Nat
      /\ receipts' = [receipts EXCEPT ![c] =
                        [status |-> "accepted", sequence |-> ResultSequence]]
  BY <1>1, TransactionItems DEF TypeInv
<1>3. L \in Nat /\ k \in Nat /\ receipts \in [Commands -> Receipt]
  BY EngineAssumption DEF TypeInv, TypeOK
<1>4. \A a \in answers : a.outcome = "accepted" => a.command # c
  BY NoReceiptNoEffect DEF ReceiptInv, WorkerReceiptInv, MayCommit
<1>6. \A n \in (L + 1) .. (L + k) : log'[n].part = n - L
  BY TransactionEvents
<1>7. EventsOf(c)' = (L + 1) .. (L + k)
  BY TransactionEvents
<1>8. \A d \in Commands : d # c =>
        /\ EventsOf(d)' = EventsOf(d)
        /\ \A n \in EventsOf(d) : log'[n] = log[n]
  BY TransactionEvents
<1>9. /\ receipts'[c].status = "accepted"
      /\ receipts'[c].sequence = ResultSequence
      /\ \A d \in Commands : d # c => receipts'[d] = receipts[d]
  BY <1>2, <1>3
<1>10. AppliedAtMostOnce'
  <2> SUFFICES ASSUME NEW d \in Commands, NEW m \in EventsOf(d)', NEW n \in EventsOf(d)',
                      log'[m].part = log'[n].part
               PROVE  m = n
    BY DEF AppliedAtMostOnce
  <2>1. CASE d = c
    <3>1. m \in (L + 1) .. (L + k) /\ n \in (L + 1) .. (L + k)
      BY <1>7, <2>1
    <3>2. log'[m].part = m - L /\ log'[n].part = n - L
      BY <1>3, <1>6, <3>1
    <3>3. m - L = n - L
      BY <3>2
    <3>4. m \in Int /\ n \in Int
      BY <3>1
    <3> QED
      BY <3>3, <3>4
  <2>2. CASE d # c
    <3>1. m \in EventsOf(d) /\ n \in EventsOf(d) /\ log[m].part = log[n].part
      BY <1>8, <2>2
    <3> QED
      BY <3>1 DEF ReceiptInv, AppliedAtMostOnce
  <2> QED
    BY <2>1, <2>2
<1>11. ReceiptMatchesLog'
  <2> SUFFICES ASSUME NEW d \in Commands
               PROVE  /\ EventsOf(d)' # {} =>
                           /\ receipts'[d].status = "accepted"
                           /\ receipts'[d].sequence \in EventsOf(d)'
                           /\ \A n \in EventsOf(d)' : n <= receipts'[d].sequence
                      /\ receipts'[d].status = "accepted" /\ EventsOf(d)' = {} =>
                           d \in QueueCommands
    BY DEF ReceiptMatchesLog
  <2>1. CASE d = c
    <3>1. CASE k = 0
      <4>1. EventsOf(d)' = {}
        BY <1>3, <1>7, <2>1, <3>1
      <4>2. c \in QueueCommands
        BY <3>1 DEF MayCommit
      <4> QED
        BY <2>1, <4>1, <4>2
    <3>2. CASE k # 0
      <4>1. ResultSequence = L + k
        BY <3>2 DEF ResultSequence
      <4>2. EventsOf(d)' = (L + 1) .. (L + k)
        BY <1>7, <2>1
      <4>3. receipts'[d].status = "accepted" /\ receipts'[d].sequence = L + k
        BY <1>9, <2>1, <4>1
      <4>4. L + k \in (L + 1) .. (L + k) /\ \A n \in (L + 1) .. (L + k) : n <= L + k
        BY <1>3, <3>2
      <4>5. EventsOf(d)' # {}
        BY <4>2, <4>4
      <4> QED
        BY <4>2, <4>3, <4>4, <4>5
    <3> QED
      BY <3>1, <3>2
  <2>2. CASE d # c
    <3>1. EventsOf(d)' = EventsOf(d) /\ receipts'[d] = receipts[d]
      BY <1>8, <1>9, <2>2
    <3> QED
      BY <3>1 DEF ReceiptInv, ReceiptMatchesLog
  <2> QED
    BY <2>1, <2>2
<1>12. AnswersAgree'
  <2> SUFFICES ASSUME NEW a \in answers, a.outcome = "accepted"
               PROVE  receipts'[a.command].status = "accepted"
                      /\ receipts'[a.command].sequence = a.sequence
    BY DEF AnswersAgree
  <2>1. a.command \in Commands /\ a.command # c
    BY <1>4 DEF TypeInv, TypeOK, Answer
  <2>2. receipts'[a.command] = receipts[a.command]
    BY <1>9, <2>1
  <2> QED
    BY <2>2 DEF ReceiptInv, AnswersAgree
<1> QED
  BY <1>9, <1>10, <1>11, <1>12

(* An event of another process is no command's.                             *)
LEMMA ForeignEvents ==
  ASSUME TypeInv, NEW w, NEW r, ForeignCommit(w, r)
  PROVE  \A c \in Commands : /\ EventsOf(c)' = EventsOf(c)
                             /\ \A n \in EventsOf(c) : log'[n] = log[n]
<1>1. /\ log \in Seq(Event)
      /\ log' = Append(log, [command |-> Foreign, part |-> 1, workspace |-> w, readable |-> r])
  BY DEF ForeignCommit, TypeInv, TypeOK
<1>2. /\ DOMAIN log' = 1 .. (Len(log) + 1)
      /\ DOMAIN log = 1 .. Len(log)
      /\ Len(log) \in Nat
      /\ \A n \in 1 .. Len(log) : log'[n] = log[n]
      /\ log'[Len(log) + 1].command = Foreign
  BY <1>1
<1> SUFFICES ASSUME NEW c \in Commands
             PROVE  EventsOf(c)' = EventsOf(c) /\ \A n \in EventsOf(c) : log'[n] = log[n]
  OBVIOUS
<1>3. c # Foreign
  BY EngineAssumption
<1>4. EventsOf(c)' = {n \in 1 .. (Len(log) + 1) : log'[n].command = c}
  BY <1>2 DEF EventsOf
<1>5. EventsOf(c) = {n \in 1 .. Len(log) : log[n].command = c}
  BY <1>2 DEF EventsOf
<1> QED
  BY <1>2, <1>3, <1>4, <1>5

(* It changes nothing about any command.                                    *)
LEMMA ForeignKeepsReceipts ==
  ASSUME TypeInv, ReceiptInv, NEW w, NEW r, ForeignCommit(w, r)
  PROVE  AppliedAtMostOnce' /\ ReceiptMatchesLog' /\ AnswersAgree'
<1>1. UNCHANGED <<receipts, answers>>
  BY DEF ForeignCommit, clients
<1>3. \A c \in Commands : EventsOf(c)' = EventsOf(c)
                          /\ \A n \in EventsOf(c) : log'[n] = log[n]
  BY ForeignEvents
<1>4. AppliedAtMostOnce'
  BY <1>3 DEF ReceiptInv, AppliedAtMostOnce
<1>5. ReceiptMatchesLog'
  BY <1>1, <1>3 DEF ReceiptInv, ReceiptMatchesLog
<1>6. AnswersAgree'
  BY <1>1 DEF ReceiptInv, AnswersAgree
<1> QED
  BY <1>4, <1>5, <1>6

(* An answer that is not an acceptance, or is its receipt's, agrees.        *)
LEMMA AnswerAgrees ==
  ASSUME TypeInv, ReceiptInv, envelope.command \in Commands, UNCHANGED <<log, receipts>>,
         NEW outcome, NEW sequence, Answered(outcome, sequence),
         outcome = "accepted" =>
           /\ receipts[envelope.command].status = "accepted"
           /\ receipts[envelope.command].sequence = sequence
  PROVE  ReceiptInv'
<1>1. \A c \in Commands : EventsOf(c)' = EventsOf(c)
  BY DEF EventsOf
<1>2. AppliedAtMostOnce'
  BY <1>1 DEF ReceiptInv, AppliedAtMostOnce
<1>3. ReceiptMatchesLog'
  BY <1>1 DEF ReceiptInv, ReceiptMatchesLog
<1>4. AnswersAgree'
  BY DEF ReceiptInv, AnswersAgree, Answered
<1>5. WorkerReceiptInv'
  BY DEF WorkerReceiptInv, Answered
<1> QED
  BY <1>2, <1>3, <1>4, <1>5 DEF ReceiptInv

(* A rejection writes a receipt for a command that had none, if it does.    *)
LEMMA SettleKeepsReceipts ==
  ASSUME TypeInv, ReceiptInv, NEW written \in BOOLEAN, Settle(written)
  PROVE  ReceiptInv'
<1>1. envelope.command \in Commands
  BY DEF TypeInv, EnvelopeInv, Busy, Settle, Envelope
<1>2. CASE UNCHANGED receipts
  BY <1>1, <1>2, AnswerAgrees DEF Settle
<1>3. CASE ~UNCHANGED receipts
  <2> PICK c \in Commands : c = envelope.command
    BY <1>1
  <2>1. /\ failure = "rejected" /\ pc = "settle"
        /\ Answered("rejected", 0)
        /\ receipts' = [receipts EXCEPT ![c] =
                          [status |-> "rejected", sequence |-> SnapshotSequence]]
        /\ log' = log
    BY <1>3 DEF Settle
  <2>2. /\ receipts'[c].status = "rejected"
        /\ \A d \in Commands : d # c => receipts'[d] = receipts[d]
    BY <2>1 DEF TypeInv, TypeOK
  <2>3. EventsOf(c) = {} /\ \A a \in answers : a.outcome = "accepted" => a.command # c
    BY <2>1, NoReceiptNoEffect DEF ReceiptInv, WorkerReceiptInv
  <2>4. \A d \in Commands : EventsOf(d)' = EventsOf(d)
    BY <2>1 DEF EventsOf
  <2>5. AppliedAtMostOnce'
    BY <2>1, <2>4 DEF ReceiptInv, AppliedAtMostOnce
  <2>6. ReceiptMatchesLog'
    BY <2>2, <2>3, <2>4 DEF ReceiptInv, ReceiptMatchesLog
  <2>7. AnswersAgree'
    <3> SUFFICES ASSUME NEW a \in answers', a.outcome = "accepted"
                 PROVE  receipts'[a.command].status = "accepted"
                        /\ receipts'[a.command].sequence = a.sequence
      BY DEF AnswersAgree
    <3>1. a \in answers
      BY <2>1 DEF Answered
    <3>2. a.command \in Commands /\ a.command # c
      BY <2>3, <3>1 DEF TypeInv, TypeOK, Answer
    <3> QED
      BY <2>2, <3>1, <3>2 DEF ReceiptInv, AnswersAgree
  <2>8. WorkerReceiptInv'
    BY <2>1 DEF WorkerReceiptInv, Answered
  <2> QED
    BY <2>5, <2>6, <2>7, <2>8 DEF ReceiptInv
<1> QED
  BY <1>2, <1>3

(* Every step keeps the relations of log, receipts and answers.             *)
LEMMA ReceiptStep ==
  ASSUME TypeInv, ReceiptInv, [Next]_vars
  PROVE  ReceiptInv'
<1> USE DEF WorkerReceiptInv
<1>1. ASSUME NEW k \in Callers, NEW c \in Commands, Dispatch(k, c)
      PROVE  ReceiptInv'
  BY <1>1, ReceiptsUntouched DEF Dispatch, ReceiptInv, durable, worker
<1>2. ASSUME NEW w \in BOOLEAN, NEW r \in BOOLEAN, ForeignCommit(w, r)
      PROVE  ReceiptInv'
  BY <1>2, ForeignKeepsReceipts DEF ForeignCommit, ReceiptInv, worker
<1>3. CASE CaptureWorkspace
  BY <1>3, ReceiptsUntouched DEF CaptureWorkspace, ReceiptInv, durable, worker, clients
<1>4. CASE Take
  BY <1>4, ReceiptsUntouched DEF Take, ReceiptInv, durable
<1>5. CASE AnswerFromReceipt
  <2>1. envelope.command \in Commands
    BY <1>5 DEF AnswerFromReceipt, TypeInv, EnvelopeInv, Busy, Envelope
  <2> QED
    BY <1>5, <2>1, AnswerAgrees DEF AnswerFromReceipt, durable
<1>6. CASE LookupMisses
  BY <1>6, ReceiptsUntouched DEF LookupMisses, ReceiptInv, durable, clients
<1>7. CASE LookupFails
  BY <1>7, ReceiptsUntouched DEF LookupFails, Fail, ReceiptInv, durable, clients
<1>8. ASSUME NEW kind \in {"retryable", "rejected"}, Refuse(kind)
      PROVE  ReceiptInv'
  BY <1>8, ReceiptsUntouched DEF Refuse, Fail, ReceiptInv, durable, clients
<1>9. ASSUME NEW kind \in {"retryable", "rejected"}, Rollback(kind)
      PROVE  ReceiptInv'
  BY <1>9, ReceiptsUntouched DEF Rollback, Fail, ReceiptInv, durable, clients
<1>10. ASSUME NEW n \in 0 .. MaxBatch, NEW w \in BOOLEAN, Prepare(n, w)
       PROVE  ReceiptInv'
  BY <1>10, ReceiptsUntouched DEF Prepare, ReceiptInv, durable, clients
<1>11. CASE Commit
  BY <1>11, TransactionKeepsReceipts DEF Commit, ReceiptInv, clients
<1>12. CASE CommitUnacknowledged
  BY <1>12, TransactionKeepsReceipts DEF CommitUnacknowledged, Fail, ReceiptInv, clients
<1>13. CASE Install
  BY <1>13, ReceiptsUntouched DEF Install, ReceiptInv, durable, clients
<1>14. CASE Publish
  <2>1. envelope.command \in Commands
    BY <1>14 DEF Publish, TypeInv, EnvelopeInv, Busy, Envelope
  <2>2. receipts[envelope.command].status = "accepted"
    BY <1>14 DEF Publish, ReceiptInv
  <2> QED
    BY <1>14, <2>1, <2>2, AnswerAgrees DEF Publish, durable
<1>15. CASE ReconcileNothing
  BY <1>15, ReceiptsUntouched DEF ReconcileNothing, ReceiptInv, durable, clients
<1>16. CASE ReconcileModel
  BY <1>16, ReceiptsUntouched DEF ReconcileModel, ReceiptInv, durable, clients
<1>17. CASE ReconcileFails
  BY <1>17, ReceiptsUntouched DEF ReconcileFails, ReceiptInv, durable, clients
<1>18. CASE Republish
  BY <1>18, ReceiptsUntouched DEF Republish, ReceiptInv, durable, clients
<1>19. ASSUME NEW written \in BOOLEAN, Settle(written)
       PROVE  ReceiptInv'
  BY <1>19, SettleKeepsReceipts
<1>20. CASE Crash
  BY <1>20, ReceiptsUntouched DEF Crash, ReceiptInv, durable
<1>21. CASE BootLoad
  BY <1>21, ReceiptsUntouched DEF BootLoad, ReceiptInv, durable, clients
<1>22. CASE BootReady
  BY <1>22, ReceiptsUntouched DEF BootReady, ReceiptInv, durable, clients
<1>23. CASE UNCHANGED vars
  BY <1>23, ReceiptsUntouched DEF vars, ReceiptInv, durable, worker, clients
<1> QED
  BY <1>1, <1>2, <1>3, <1>4, <1>5, <1>6, <1>7, <1>8, <1>9, <1>10, <1>11, <1>12, <1>13,
     <1>14, <1>15, <1>16, <1>17, <1>18, <1>19, <1>20, <1>21, <1>22, <1>23
  DEF Next, WorkerStep, Boot

(***************************************************************************)
(* The command read model                                                  *)
(***************************************************************************)

(* The last projected event is the newest one. *)
LEMMA SnapshotIsNewest ==
  ASSUME TypeOK, OrderInv
  PROVE  /\ SnapshotSequence \in Nat
         /\ SnapshotSequence <= Len(log)
         /\ \A i \in DOMAIN applied : applied[i] <= SnapshotSequence
         /\ \A n \in Nat : Projected(n) => n <= SnapshotSequence
<1>1. applied \in Seq(Nat) /\ log \in Seq(Event)
  BY DEF TypeOK
<1>2. CASE applied = <<>>
  BY <1>1, <1>2 DEF SnapshotSequence, Projected
<1>3. CASE applied # <<>>
  <2>1. Len(applied) \in DOMAIN applied /\ SnapshotSequence = applied[Len(applied)]
    BY <1>1, <1>3 DEF SnapshotSequence
  <2>2. SnapshotSequence \in 1 .. Len(log)
    BY <2>1 DEF OrderInv
  <2>3. \A i \in DOMAIN applied : applied[i] <= SnapshotSequence
    <3> SUFFICES ASSUME NEW i \in DOMAIN applied
                 PROVE  applied[i] <= SnapshotSequence
      OBVIOUS
    <3>1. i \in 1 .. Len(applied) /\ applied[i] \in Nat
      BY <1>1
    <3>2. CASE i = Len(applied)
      BY <2>1, <3>1, <3>2
    <3>3. CASE i < Len(applied)
      BY <2>1, <3>1, <3>3 DEF OrderInv, ProjectedInOrder
    <3> QED
      BY <1>1, <3>1, <3>2, <3>3
  <2> QED
    BY <1>1, <2>2, <2>3 DEF Projected
<1> QED
  BY <1>2, <1>3

LEMMA SnapshotKept ==
  ASSUME UNCHANGED applied
  PROVE  /\ SnapshotSequence' = SnapshotSequence
         /\ \A n \in Nat : Projected(n)' <=> Projected(n)
         /\ ProjectedInOrder => ProjectedInOrder'
BY DEF SnapshotSequence, Projected, ProjectedInOrder

(* t is s, and then the numbers of (a, b]. *)
CountsOn(s, L, t, M, a, b, top) ==
  /\ L \in Nat /\ M \in Nat /\ a \in Nat /\ b \in Nat /\ top \in Nat
  /\ s \in [1 .. L -> Nat] /\ t \in [1 .. M -> Nat]
  /\ M = L + (b - a) /\ a <= b /\ b <= top
  /\ \A i \in 1 .. L : t[i] = s[i]
  /\ \A k \in 1 .. (b - a) : t[L + k] = a + k
  /\ \A i \in 1 .. L : s[i] \in 1 .. top /\ s[i] <= a
  /\ \A i, j \in 1 .. L : i < j => s[i] < s[j]

(* t rises, stays within 1 .. top and has every number of (a, b]. *)
Rising(t, M, a, b, top) ==
  /\ \A i \in 1 .. M : t[i] \in 1 .. top
  /\ \A i, j \in 1 .. M : i < j => t[i] < t[j]
  /\ \A n \in (a + 1) .. b : \E i \in 1 .. M : t[i] = n

(* Ordered numbers stay ordered when newer ones are counted on.             *)
LEMMA CountedOn ==
  ASSUME NEW s, NEW L, NEW t, NEW M, NEW a, NEW b, NEW top, CountsOn(s, L, t, M, a, b, top)
  PROVE  Rising(t, M, a, b, top)
<1> USE DEF CountsOn
<1>1. ASSUME NEW i \in 1 .. M, i > L
      PROVE  t[i] = a + (i - L) /\ t[i] \in 1 .. top /\ t[i] > a
  <2>1. PICK k \in 1 .. (b - a) : i = L + k
    <3>1. i - L \in 1 .. (b - a)
      BY <1>1
    <3>2. i = L + (i - L)
      BY <1>1
    <3> QED
      BY <3>1, <3>2
  <2>2. t[i] = a + k
    BY <2>1
  <2> QED
    BY <2>1, <2>2
<1>2. ASSUME NEW i \in 1 .. M, i <= L
      PROVE  i \in 1 .. L /\ t[i] = s[i] /\ t[i] \in 1 .. top /\ t[i] <= a
  <2>1. i \in 1 .. L
    BY <1>2
  <2> QED
    BY <2>1
<1>3. ASSUME NEW i \in 1 .. M
      PROVE  t[i] \in 1 .. top
  <2>1. i <= L \/ i > L
    OBVIOUS
  <2> QED
    BY <2>1, <1>1, <1>2
<1>4. ASSUME NEW i \in 1 .. M, NEW j \in 1 .. M, i < j
      PROVE  t[i] < t[j]
  <2>1. CASE j <= L
    <3>1. i <= L
      BY <1>4, <2>1
    <3>2. i \in 1 .. L /\ j \in 1 .. L /\ t[i] = s[i] /\ t[j] = s[j]
      BY <1>2, <2>1, <3>1
    <3> QED
      BY <1>4, <3>2
  <2>2. CASE i <= L /\ j > L
    <3>1. t[i] <= a /\ t[j] > a
      BY <1>1, <1>2, <2>2
    <3> QED
      BY <3>1
  <2>3. CASE i > L
    <3>1. j > L
      BY <1>4, <2>3
    <3>2. t[i] = a + (i - L) /\ t[j] = a + (j - L)
      BY <1>1, <2>3, <3>1
    <3> QED
      BY <1>4, <3>2
  <2>4. j <= L \/ (i <= L /\ j > L) \/ i > L
    OBVIOUS
  <2> QED
    BY <2>1, <2>2, <2>3, <2>4
<1>5. ASSUME NEW n \in (a + 1) .. b
      PROVE  \E i \in 1 .. M : t[i] = n
  <2>1. PICK k \in 1 .. (b - a) : a + k = n
    <3>1. n - a \in 1 .. (b - a) /\ a + (n - a) = n
      OBVIOUS
    <3> QED
      BY <3>1
  <2>2. t[L + k] = n
    BY <2>1
  <2>3. L + k \in 1 .. M
    OBVIOUS
  <2> QED
    BY <2>2, <2>3
<1> QED
  BY <1>3, <1>4, <1>5 DEF Rising

(* The step projects the events (a, b] onto the model. *)
Projects(a, b) == applied' = applied \o Interval(a, b)

(* Projecting the events after the newest one keeps the order and adds them.*)
LEMMA ProjectionGrows ==
  ASSUME TypeOK, OrderInv, NEW a \in Nat, NEW b \in Nat,
         SnapshotSequence <= a, a <= b, b <= Len(log),
         log' = log, Projects(a, b)
  PROVE  /\ \A i \in DOMAIN applied' : applied'[i] \in 1 .. Len(log')
         /\ ProjectedInOrder'
         /\ \A n \in Nat : Projected(n) => Projected(n)'
         /\ \A n \in Nat : a < n /\ n <= b => Projected(n)'
<1>1. /\ b - a \in Nat
      /\ Interval(a, b) \in [1 .. (b - a) -> Nat]
      /\ \A i \in 1 .. (b - a) : Interval(a, b)[i] = a + i
  BY IntervalIsSequence
<1>2. applied \in Seq(Nat) /\ Len(log) \in Nat
  BY DEF TypeOK
<1> PICK L \in Nat : L = Len(applied)
  BY <1>2
<1>3. /\ applied' \in Seq(Nat)
      /\ Len(applied') = L + (b - a)
      /\ \A i \in 1 .. L : applied'[i] = applied[i]
      /\ \A i \in 1 .. (b - a) : applied'[L + i] = Interval(a, b)[i]
  <2>1. /\ applied \o Interval(a, b) \in Seq(Nat)
        /\ Len(applied \o Interval(a, b)) = Len(applied) + (b - a)
        /\ \A i \in 1 .. Len(applied) : (applied \o Interval(a, b))[i] = applied[i]
        /\ \A i \in 1 .. (b - a) :
             (applied \o Interval(a, b))[Len(applied) + i] = Interval(a, b)[i]
    <3> DEFINE f == Interval(a, b)
               k == b - a
    <3>1. f \in [1 .. k -> Nat] /\ k \in Nat
      BY <1>1
    <3> HIDE DEF f, k
    <3>2. /\ applied \o f \in Seq(Nat)
          /\ Len(applied \o f) = Len(applied) + k
          /\ \A i \in 1 .. Len(applied) : (applied \o f)[i] = applied[i]
          /\ \A i \in 1 .. k : (applied \o f)[Len(applied) + i] = f[i]
      BY <1>2, <3>1, Appended
    <3> QED
      BY <3>2 DEF f, k
  <2> QED
    BY <2>1 DEF Projects
<1>4. \A i \in 1 .. (b - a) : applied'[L + i] = a + i
  BY <1>1, <1>3
<1>5. DOMAIN applied' = 1 .. Len(applied') /\ DOMAIN applied = 1 .. L /\ DOMAIN log = 1 .. Len(log)
  BY <1>2, <1>3 DEF TypeOK
<1>6. \A i \in 1 .. L : applied[i] <= a /\ applied[i] \in 1 .. Len(log)
  <2>1. \A i \in 1 .. L : applied[i] <= SnapshotSequence
    BY <1>5, SnapshotIsNewest
  <2>2. \A i \in 1 .. L : applied[i] \in 1 .. Len(log)
    BY <1>5 DEF OrderInv
  <2>3. SnapshotSequence \in Nat
    BY SnapshotIsNewest
  <2>4. ASSUME NEW i \in 1 .. L
        PROVE  applied[i] <= a
    <3> PICK n \in Nat, m \in Nat : n = applied[i] /\ m = SnapshotSequence
      BY <1>2, <2>2, <2>3
    <3>1. n <= m /\ m <= a
      BY <2>1
    <3> QED
      BY <3>1
  <2> QED
    BY <2>2, <2>4
<1>7. \A i, j \in 1 .. L : i < j => applied[i] < applied[j]
  BY <1>5 DEF OrderInv, ProjectedInOrder
<1>8. /\ \A i \in 1 .. Len(applied') : applied'[i] \in 1 .. Len(log)
      /\ \A i, j \in 1 .. Len(applied') : i < j => applied'[i] < applied'[j]
      /\ \A n \in (a + 1) .. b : \E i \in 1 .. Len(applied') : applied'[i] = n
  <2> PICK top \in Nat : top = Len(log)
    BY <1>2
  <2> PICK width \in Nat : width = b - a
    BY <1>1
  <2>0. L + width \in Nat
    OBVIOUS
  <2> PICK M \in Nat : M = L + width
    BY <2>0
  <2>1. /\ applied \in [1 .. L -> Nat]
        /\ Len(applied') = M
        /\ applied' \in [1 .. M -> Nat]
    <3>1. applied \in [1 .. L -> Nat]
      BY <1>2
    <3>2. Len(applied') = M
      BY <1>3
    <3>3. applied' \in Seq(Nat)
      BY <1>3
    <3>4. applied' \in [1 .. Len(applied') -> Nat]
      BY <3>3, SequenceIsFunction
    <3>5. applied' \in [1 .. M -> Nat]
      BY <3>2, <3>4
    <3> QED
      BY <3>1, <3>2, <3>5
  <2>2. /\ b <= top
        /\ \A i \in 1 .. L : applied'[i] = applied[i]
        /\ \A k \in 1 .. (b - a) : applied'[L + k] = a + k
        /\ \A i \in 1 .. L : applied[i] \in 1 .. top /\ applied[i] <= a
    BY <1>3, <1>4, <1>6
  <2>3. PICK s \in [1 .. L -> Nat], t \in [1 .. M -> Nat] : s = applied /\ t = applied'
    BY <2>1
  <2>4. M = L + (b - a) /\ a <= b /\ b <= top
    BY <2>2
  <2>5. /\ \A i \in 1 .. L : t[i] = s[i]
        /\ \A k \in 1 .. (b - a) : t[L + k] = a + k
        /\ \A i \in 1 .. L : s[i] \in 1 .. top /\ s[i] <= a
        /\ \A i, j \in 1 .. L : i < j => s[i] < s[j]
    BY <1>7, <2>2, <2>3
  <2>. CountsOn(s, L, t, M, a, b, top)
    BY <2>4, <2>5 DEF CountsOn
  <2>6. Rising(t, M, a, b, top)
    BY CountedOn, Zenon
  <2> QED
    BY <2>1, <2>3, <2>6 DEF Rising
<1>9. ProjectedInOrder'
  BY <1>5, <1>8 DEF ProjectedInOrder
<1>10. \A n \in Nat : Projected(n) => Projected(n)'
  <2> SUFFICES ASSUME NEW n \in Nat, NEW i \in DOMAIN applied, applied[i] = n
               PROVE  Projected(n)'
    BY DEF Projected
  <2>1. i \in DOMAIN applied' /\ applied'[i] = n
    BY <1>1, <1>3, <1>5
  <2> QED
    BY <2>1 DEF Projected
<1>11. \A n \in Nat : a < n /\ n <= b => Projected(n)'
  <2> SUFFICES ASSUME NEW n \in Nat, a < n, n <= b
               PROVE  Projected(n)'
    OBVIOUS
  <2>1. n \in (a + 1) .. b
    OBVIOUS
  <2> QED
    BY <1>5, <1>8, <2>1 DEF Projected
<1> QED
  BY <1>5, <1>8, <1>9, <1>10, <1>11

(* The model loaded at boot holds every event of the store.                 *)
LEMMA LoadedModel ==
  ASSUME TypeOK, log' = log, applied' = Interval(0, Len(log))
  PROVE  /\ \A i \in DOMAIN applied' : applied'[i] \in 1 .. Len(log')
         /\ ProjectedInOrder'
         /\ \A n \in DOMAIN log' : Projected(n)'
<1>1. log \in Seq(Event) /\ Len(log) \in Nat /\ 0 <= Len(log)
  BY DEF TypeOK
<1>2. /\ Interval(0, Len(log)) \in Seq(Nat)
      /\ Len(Interval(0, Len(log))) = Len(log)
      /\ \A i \in 1 .. Len(log) : Interval(0, Len(log))[i] = i
  <2> PICK k \in Nat : k = Len(log)
    BY <1>1
  <2>0. 0 \in Nat /\ 0 <= k
    OBVIOUS
  <2>1. /\ Interval(0, k) \in Seq(Nat)
        /\ Len(Interval(0, k)) = k - 0
        /\ \A i \in 1 .. (k - 0) : Interval(0, k)[i] = 0 + i
    BY <2>0, IntervalIsSequence, Zenon
  <2>2. k - 0 = k /\ \A i \in 1 .. k : 0 + i = i
    OBVIOUS
  <2> QED
    BY <2>1, <2>2
<1>3. /\ DOMAIN applied' = 1 .. Len(log)
      /\ DOMAIN log' = 1 .. Len(log)
      /\ \A i \in 1 .. Len(log) : applied'[i] = i
  BY <1>1, <1>2
<1> QED
  BY <1>1, <1>3 DEF ProjectedInOrder, Projected

(* A step that leaves model, store, publication and fence alone, and after  *)
(* which the worker neither installs nor is about to.                       *)
LEMMA ModelKept ==
  ASSUME TypeInv, ModelInv, UNCHANGED <<log, applied, unacknowledged>>,
         pc # "down", pc # "install", pc' # "install", pc' # "down", pc' # "commit",
         pc' \in {"lookup", "decide", "reconcile"} =>
           dispatchStartSequence' = SnapshotSequence,
         Up' => lastPublishedSequence' <= Len(log),
         pc' \in {"publish", "republish"} =>
           batch'.from <= batch'.through /\ batch'.through <= Len(log)
  PROVE  ModelInv'
<1>1. /\ SnapshotSequence' = SnapshotSequence
      /\ \A n \in Nat : Projected(n)' <=> Projected(n)
      /\ ProjectedInOrder => ProjectedInOrder'
  BY SnapshotKept
<1>2. DOMAIN log \subseteq Nat
  BY DEF TypeInv, TypeOK
<1>3. OrderInv'
  BY <1>1 DEF ModelInv, OrderInv
<1>4. BatchInv'
  BY DEF BatchInv
<1>5. OwnInv'
  BY <1>1, <1>2 DEF ModelInv, OwnInv
<1>6. FenceInv'
  BY DEF FenceInv
<1> QED
  BY <1>3, <1>4, <1>5, <1>6 DEF ModelInv

(* A step that moves neither the worker nor what it works on.               *)
LEMMA WorkerKept ==
  ASSUME TypeInv, ModelInv,
         UNCHANGED <<log, applied, unacknowledged, pc, dispatchStartSequence, batch,
                     prepared, lastPublishedSequence, fence>>
  PROVE  ModelInv'
<1>1. /\ SnapshotSequence' = SnapshotSequence
      /\ \A n \in Nat : Projected(n)' <=> Projected(n)
      /\ ProjectedInOrder => ProjectedInOrder'
  BY SnapshotKept
<1>2. DOMAIN log \subseteq Nat
  BY DEF TypeInv, TypeOK
<1>3. OrderInv'
  BY <1>1 DEF ModelInv, OrderInv
<1>4. BatchInv'
  BY <1>1 DEF ModelInv, BatchInv, Up
<1>5. OwnInv'
  BY <1>1, <1>2 DEF ModelInv, OwnInv
<1>6. FenceInv'
  BY DEF ModelInv, FenceInv
<1> QED
  BY <1>3, <1>4, <1>5, <1>6 DEF ModelInv

(* An event of another process is no event of this one, and newer than any  *)
(* batch.                                                                   *)
LEMMA ForeignKeepsModel ==
  ASSUME TypeInv, ModelInv, NEW w \in BOOLEAN, NEW r \in BOOLEAN, ForeignCommit(w, r)
  PROVE  ModelInv'
<1>1. /\ log' = Append(log, [command |-> Foreign, part |-> 1, workspace |-> w, readable |-> r])
      /\ UNCHANGED <<applied, unacknowledged, pc, dispatchStartSequence, batch, prepared,
                     lastPublishedSequence, fence>>
  BY DEF ForeignCommit, worker, model, authority
<1>2. /\ log \in Seq(Event) /\ applied \in Seq(Nat)
      /\ batch.through \in Nat /\ lastPublishedSequence \in Nat
  BY DEF TypeInv, TypeOK
<1> PICK L \in Nat : L = Len(log)
  BY <1>2
<1>3. /\ Len(log') = L + 1
      /\ DOMAIN log' = 1 .. (L + 1)
      /\ DOMAIN log = 1 .. L
      /\ \A n \in 1 .. L : log'[n] = log[n]
      /\ log'[L + 1].command = Foreign
  BY <1>1, <1>2
<1>4. /\ SnapshotSequence' = SnapshotSequence
      /\ \A n \in Nat : Projected(n)' <=> Projected(n)
      /\ ProjectedInOrder => ProjectedInOrder'
  BY <1>1, SnapshotKept
<1>5. OrderInv'
  <2>1. \A i \in DOMAIN applied : applied[i] \in 1 .. L
    BY DEF ModelInv, OrderInv
  <2>2. \A i \in DOMAIN applied : applied[i] \in 1 .. (L + 1)
    BY <2>1
  <2> QED
    BY <1>1, <1>3, <1>4, <2>2 DEF ModelInv, OrderInv
<1>6. BatchInv'
  <2>1. Up' = Up
    BY <1>1 DEF Up
  <2>2. lastPublishedSequence <= L => lastPublishedSequence <= L + 1
    BY <1>2
  <2>3. batch.through <= L => batch.through <= L + 1
    BY <1>2
  <2> QED
    BY <1>1, <1>3, <1>4, <2>1, <2>2, <2>3 DEF ModelInv, BatchInv
<1>7. OwnInv'
  <2> SUFFICES ASSUME pc # "down", ~unacknowledged, NEW n \in 1 .. (L + 1),
                      log'[n].command # Foreign
               PROVE  Projected(n)' \/ (pc = "install" /\ batch.from < n /\ n <= batch.through)
    BY <1>1, <1>3 DEF OwnInv
  <2>1. n # L + 1
    BY <1>3
  <2>2. n \in 1 .. L
    BY <2>1
  <2> QED
    BY <1>3, <1>4, <2>2 DEF ModelInv, OwnInv
<1>8. FenceInv'
  <2>1. ASSUME pc = "install", NEW n \in 1 .. (L + 1), batch.from < n, n <= batch.through,
               log'[n].workspace
        PROVE  prepared.workspace
    <3>1. batch.through <= L
      BY <2>1 DEF ModelInv, BatchInv
    <3>2. n \in 1 .. L
      BY <1>2, <2>1, <3>1
    <3> QED
      BY <1>3, <2>1, <3>2 DEF ModelInv, FenceInv
  <2> QED
    BY <1>1, <1>3, <2>1 DEF ModelInv, FenceInv
<1> QED
  BY <1>5, <1>6, <1>7, <1>8 DEF ModelInv

(* A commit: the new events are the batch that is to be installed.          *)
LEMMA CommitKeepsModel ==
  ASSUME TypeInv, ModelInv, Commit
  PROVE  ModelInv'
<1>1. envelope \in Envelope /\ pc = "commit"
  BY DEF TypeInv, EnvelopeInv, Busy, Commit, MayCommit
<1> PICK k \in Nat : k = prepared.count
  BY EngineAssumption DEF TypeInv, TypeOK
<1> PICK L \in Nat : L = Len(log)
  BY DEF TypeInv, TypeOK
<1>2. /\ log' \in Seq(Event)
      /\ Len(log') = L + k
      /\ \A n \in 1 .. L : log'[n] = log[n]
      /\ \A i \in 1 .. k :
           log'[L + i] = [command |-> envelope.command, part |-> i,
                          workspace |-> prepared.workspace, readable |-> TRUE]
  BY <1>1, TransactionItems DEF Commit, TypeInv
<1>3. /\ DOMAIN log' = 1 .. (L + k)
      /\ DOMAIN log = 1 .. L
  BY <1>2 DEF TypeInv, TypeOK
<1>4. /\ pc' = "install"
      /\ batch'.from = L /\ batch'.through = L + k
      /\ UNCHANGED <<applied, unacknowledged, dispatchStartSequence, prepared,
                     lastPublishedSequence, fence>>
  BY DEF Commit, model, authority
<1>5. /\ SnapshotSequence' = SnapshotSequence
      /\ \A n \in Nat : Projected(n)' <=> Projected(n)
      /\ ProjectedInOrder => ProjectedInOrder'
  BY <1>4, SnapshotKept
<1>6. OrderInv'
  <2>1. \A i \in DOMAIN applied : applied[i] \in 1 .. L
    BY DEF ModelInv, OrderInv
  <2>2. \A i \in DOMAIN applied : applied[i] \in 1 .. (L + k)
    BY <2>1
  <2> QED
    BY <1>2, <1>4, <1>5, <2>2 DEF ModelInv, OrderInv
<1>7. BatchInv'
  <2>1. SnapshotSequence <= L
    BY SnapshotIsNewest DEF ModelInv, TypeInv
  <2>2. lastPublishedSequence <= L /\ lastPublishedSequence \in Nat
    BY <1>1 DEF ModelInv, BatchInv, Up, TypeInv, TypeOK
  <2>3. lastPublishedSequence <= L + k /\ L <= L + k
    BY <2>2
  <2> QED
    BY <1>2, <1>4, <1>5, <2>1, <2>2, <2>3 DEF BatchInv
<1>8. OwnInv'
  <2> SUFFICES ASSUME ~unacknowledged, NEW n \in 1 .. (L + k), log'[n].command # Foreign
               PROVE  Projected(n)' \/ (L < n /\ n <= L + k)
    BY <1>3, <1>4 DEF OwnInv
  <2>1. CASE n > L
    BY <2>1
  <2>2. CASE n <= L
    <3>1. n \in 1 .. L
      BY <2>2
    <3>2. Projected(n)
      BY <1>1, <1>2, <1>3, <3>1 DEF ModelInv, OwnInv
    <3> QED
      BY <1>5, <3>2
  <2> QED
    BY <2>1, <2>2
<1>9. FenceInv'
  <2>1. ASSUME NEW n \in 1 .. (L + k), L < n, log'[n].workspace
        PROVE  prepared.workspace
    <3>1. PICK i \in 1 .. k : n = L + i
      <4>1. n - L \in 1 .. k /\ n = L + (n - L)
        BY <2>1
      <4> QED
        BY <4>1
    <3>2. log'[n].workspace = prepared.workspace
      <4>1. log'[n] = [command |-> envelope.command, part |-> i,
                       workspace |-> prepared.workspace, readable |-> TRUE]
        BY <1>2, <3>1
      <4> QED
        BY <4>1
    <3> QED
      BY <2>1, <3>2
  <2>2. prepared.workspace => ~fence.available
    BY <1>1 DEF ModelInv, FenceInv
  <2> QED
    BY <1>3, <1>4, <2>1, <2>2 DEF FenceInv
<1> QED
  BY <1>6, <1>7, <1>8, <1>9 DEF ModelInv

(* An unacknowledged commit: whatever was committed, the model awaits a     *)
(* reconcile.                                                               *)
LEMMA UnacknowledgedKeepsModel ==
  ASSUME TypeInv, ModelInv, CommitUnacknowledged
  PROVE  ModelInv'
<1>1. envelope \in Envelope /\ pc = "commit"
  BY DEF TypeInv, EnvelopeInv, Busy, CommitUnacknowledged, MayCommit
<1> PICK k \in Nat : k = prepared.count
  BY EngineAssumption DEF TypeInv, TypeOK
<1> PICK L \in Nat : L = Len(log)
  BY DEF TypeInv, TypeOK
<1>2. Len(log') = L + k
  BY <1>1, TransactionItems DEF CommitUnacknowledged, TypeInv
<1>3. /\ pc' = "reconcile" /\ unacknowledged'
      /\ UNCHANGED <<applied, dispatchStartSequence, lastPublishedSequence>>
  BY DEF CommitUnacknowledged, Fail
<1>4. /\ SnapshotSequence' = SnapshotSequence
      /\ ProjectedInOrder => ProjectedInOrder'
  BY <1>3, SnapshotKept
<1>5. OrderInv'
  <2>1. \A i \in DOMAIN applied : applied[i] \in 1 .. L
    BY DEF ModelInv, OrderInv
  <2>2. \A i \in DOMAIN applied : applied[i] \in 1 .. (L + k)
    BY <2>1
  <2> QED
    BY <1>1, <1>2, <1>3, <1>4, <2>2 DEF ModelInv, OrderInv
<1>6. BatchInv'
  <2>1. lastPublishedSequence <= L /\ lastPublishedSequence \in Nat
    BY <1>1 DEF ModelInv, BatchInv, Up, TypeInv, TypeOK
  <2>2. lastPublishedSequence <= L + k
    BY <2>1
  <2> QED
    BY <1>2, <1>3, <2>2 DEF BatchInv
<1> QED
  BY <1>3, <1>5, <1>6 DEF ModelInv, OwnInv, FenceInv

(* Installing the batch projects all that was missing.                      *)
LEMMA InstallKeepsModel ==
  ASSUME TypeInv, ModelInv, Install
  PROVE  ModelInv'
<1>1. /\ pc = "install" /\ pc' = "publish"
      /\ UNCHANGED <<log, batch, unacknowledged, lastPublishedSequence>>
      /\ Projects(batch.from, batch.through)
  BY DEF Install, durable, Projects
<1>2. /\ batch.from \in Nat /\ batch.through \in Nat
      /\ batch.from <= batch.through /\ batch.through <= Len(log)
      /\ SnapshotSequence <= batch.from
      /\ lastPublishedSequence <= Len(log)
  BY <1>1 DEF TypeInv, TypeOK, ModelInv, BatchInv, Up
<1>3. /\ \A i \in DOMAIN applied' : applied'[i] \in 1 .. Len(log')
      /\ ProjectedInOrder'
      /\ \A n \in Nat : Projected(n) => Projected(n)'
      /\ \A n \in Nat : batch.from < n /\ n <= batch.through => Projected(n)'
  <2> PICK a \in Nat, b \in Nat : a = batch.from /\ b = batch.through
    BY <1>2
  <2>1. SnapshotSequence <= a /\ a <= b /\ b <= Len(log) /\ log' = log /\ Projects(a, b)
    BY <1>1, <1>2
  <2>2. TypeOK /\ OrderInv
    BY DEF TypeInv, ModelInv
  <2> QED
    BY <2>1, <2>2, ProjectionGrows
<1>4. OrderInv'
  BY <1>1, <1>3 DEF OrderInv
<1>5. BatchInv'
  BY <1>1, <1>2 DEF BatchInv
<1>6. OwnInv'
  <2>1. DOMAIN log \subseteq Nat
    BY DEF TypeInv, TypeOK
  <2> QED
    BY <1>1, <1>3, <2>1 DEF ModelInv, OwnInv
<1> QED
  BY <1>1, <1>4, <1>5, <1>6 DEF ModelInv, FenceInv

(* A reconcile projects a prefix of what the store has beyond the model.    *)
LEMMA ReconcileKeepsModel ==
  ASSUME TypeInv, ModelInv, ReconcileModel
  PROVE  ModelInv'
<1>a. /\ dispatchStartSequence \in Nat /\ Len(log) \in Nat
      /\ ReconcileLimit \in Nat /\ ReconcileLimit # 0
      /\ Len(log) > dispatchStartSequence
  BY EngineAssumption DEF TypeInv, TypeOK, ReconcileModel
<1>b. /\ Unreconciled \in Nat
      /\ dispatchStartSequence <= Unreconciled
      /\ Unreconciled <= Len(log)
  BY <1>a, Z3 DEF Unreconciled, Smaller
<1> PICK a \in Nat, b \in Nat : a = dispatchStartSequence /\ b = Unreconciled
  BY <1>a, <1>b
<1>1. /\ pc = "reconcile" /\ pc' = "republish"
      /\ UNCHANGED <<log, unacknowledged, lastPublishedSequence>>
      /\ batch'.from = a /\ batch'.through = b
      /\ Projects(a, b)
  BY DEF ReconcileModel, durable, Projects
<1>2. a = SnapshotSequence
  BY <1>1 DEF ModelInv, OrderInv
<1>3. a <= b /\ b <= Len(log)
  BY <1>b
<1>4. lastPublishedSequence <= Len(log)
  BY <1>1 DEF ModelInv, BatchInv, Up
<1>5. /\ \A i \in DOMAIN applied' : applied'[i] \in 1 .. Len(log')
      /\ ProjectedInOrder'
      /\ \A n \in Nat : Projected(n) => Projected(n)'
  <2>1. SnapshotSequence <= a
    BY <1>2
  <2>2. TypeOK /\ OrderInv /\ log' = log
    BY <1>1 DEF TypeInv, ModelInv
  <2> QED
    BY <1>1, <1>3, <2>1, <2>2, ProjectionGrows
<1>6. OrderInv'
  BY <1>1, <1>5 DEF OrderInv
<1>7. BatchInv'
  BY <1>1, <1>3, <1>4 DEF BatchInv
<1>8. OwnInv'
  <2>1. DOMAIN log \subseteq Nat
    BY DEF TypeInv, TypeOK
  <2> QED
    BY <1>1, <1>5, <2>1 DEF ModelInv, OwnInv
<1> QED
  BY <1>1, <1>6, <1>7, <1>8 DEF ModelInv, FenceInv

(* The model loaded at boot lacks nothing that is committed.                *)
LEMMA BootKeepsModel ==
  ASSUME TypeInv, ModelInv, BootLoad
  PROVE  ModelInv'
<1>1. pc' = "booting" /\ log' = log
  BY DEF BootLoad, durable
<1>2. /\ \A i \in DOMAIN applied' : applied'[i] \in 1 .. Len(log')
      /\ ProjectedInOrder'
      /\ \A n \in DOMAIN log' : Projected(n)'
  BY LoadedModel DEF BootLoad, durable, TypeInv
<1>3. OrderInv'
  BY <1>1, <1>2 DEF OrderInv
<1>4. BatchInv'
  BY <1>1 DEF BatchInv, Up
<1>5. OwnInv'
  BY <1>2 DEF OwnInv
<1> QED
  BY <1>1, <1>3, <1>4, <1>5 DEF ModelInv, FenceInv

(* Every step keeps what the command read model has and lacks.              *)
LEMMA ModelStep ==
  ASSUME TypeInv, ModelInv, [Next]_vars
  PROVE  ModelInv'
<1>0. pc \in {"lookup", "decide", "commit", "reconcile"} =>
        dispatchStartSequence = SnapshotSequence
  BY DEF ModelInv, OrderInv
<1>00. Up => lastPublishedSequence <= Len(log)
  BY DEF ModelInv, BatchInv
<1>1. ASSUME NEW k \in Callers, NEW c \in Commands, Dispatch(k, c)
      PROVE  ModelInv'
  BY <1>1, WorkerKept DEF Dispatch, durable, worker, model, authority
<1>2. ASSUME NEW w \in BOOLEAN, NEW r \in BOOLEAN, ForeignCommit(w, r)
      PROVE  ModelInv'
  BY <1>2, ForeignKeepsModel
<1>3. CASE CaptureWorkspace
  BY <1>3, WorkerKept DEF CaptureWorkspace, durable, worker, model
<1>4. CASE Take
  BY <1>4, <1>00, ModelKept DEF Take, durable, model, Up
<1>5. CASE AnswerFromReceipt
  BY <1>5, <1>00, ModelKept DEF AnswerFromReceipt, Answered, durable, model, Up
<1>6. CASE LookupMisses
  BY <1>6, <1>0, <1>00, ModelKept DEF LookupMisses, durable, model, Up
<1>7. CASE LookupFails
  BY <1>7, <1>0, <1>00, ModelKept DEF LookupFails, Fail, durable, Up
<1>8. ASSUME NEW kind \in {"retryable", "rejected"}, Refuse(kind)
      PROVE  ModelInv'
  BY <1>8, <1>0, <1>00, ModelKept DEF Refuse, Fail, durable, Up
<1>9. ASSUME NEW kind \in {"retryable", "rejected"}, Rollback(kind)
      PROVE  ModelInv'
  BY <1>9, <1>0, <1>00, ModelKept DEF Rollback, Fail, durable, Up
<1>10. ASSUME NEW n \in 0 .. MaxBatch, NEW w \in BOOLEAN, Prepare(n, w)
       PROVE  ModelInv'
  <2>1. /\ SnapshotSequence' = SnapshotSequence
        /\ \A m \in Nat : Projected(m)' <=> Projected(m)
        /\ ProjectedInOrder => ProjectedInOrder'
    BY <1>10, SnapshotKept DEF Prepare, model
  <2>2. DOMAIN log \subseteq Nat
    BY DEF TypeInv, TypeOK
  <2>3. OrderInv'
    BY <1>0, <1>10, <2>1 DEF Prepare, model, durable, ModelInv, OrderInv
  <2>4. BatchInv'
    BY <1>10, <1>00 DEF Prepare, model, durable, BatchInv, Up
  <2>5. OwnInv'
    BY <1>10, <2>1, <2>2 DEF Prepare, model, durable, ModelInv, OwnInv
  <2>6. FenceInv'
    BY <1>10 DEF Prepare, FenceInv
  <2> QED
    BY <2>3, <2>4, <2>5, <2>6 DEF ModelInv
<1>11. CASE Commit
  BY <1>11, CommitKeepsModel
<1>12. CASE CommitUnacknowledged
  BY <1>12, UnacknowledgedKeepsModel
<1>13. CASE Install
  BY <1>13, InstallKeepsModel
<1>14. CASE Publish
  <2>1. lastPublishedSequence' <= Len(log)
    BY <1>14 DEF Publish, PublishBatch, Larger, ModelInv, BatchInv, Up
  <2> QED
    BY <1>14, <2>1, ModelKept DEF Publish, Answered, durable
<1>15. CASE ReconcileNothing
  BY <1>15, <1>00, ModelKept DEF ReconcileNothing, durable, model, Up
<1>16. CASE ReconcileModel
  BY <1>16, ReconcileKeepsModel
<1>17. CASE ReconcileFails
  BY <1>17, <1>00, ModelKept DEF ReconcileFails, durable, model, Up
<1>18. CASE Republish
  <2>1. lastPublishedSequence' <= Len(log)
    BY <1>18 DEF Republish, PublishBatch, Larger, ModelInv, BatchInv, Up
  <2> QED
    BY <1>18, <2>1, ModelKept DEF Republish, durable
<1>19. ASSUME NEW written \in BOOLEAN, Settle(written)
       PROVE  ModelInv'
  BY <1>19, <1>00, ModelKept DEF Settle, Answered, model, Up
<1>20. CASE Crash
  <2>1. pc' = "down" /\ applied' = <<>>
    BY <1>20 DEF Crash
  <2>2. OrderInv'
    BY <2>1 DEF OrderInv, ProjectedInOrder
  <2> QED
    BY <2>1, <2>2 DEF ModelInv, BatchInv, OwnInv, FenceInv, Up
<1>21. CASE BootLoad
  BY <1>21, BootKeepsModel
<1>22. CASE BootReady
  <2>1. lastPublishedSequence' <= Len(log)
    BY <1>22 DEF BootReady, TypeInv, TypeOK
  <2> QED
    BY <1>22, <2>1, ModelKept DEF BootReady, durable
<1>23. CASE UNCHANGED vars
  BY <1>23, WorkerKept DEF vars, durable, worker, model, authority
<1> QED
  BY <1>1, <1>2, <1>3, <1>4, <1>5, <1>6, <1>7, <1>8, <1>9, <1>10, <1>11, <1>12, <1>13,
     <1>14, <1>15, <1>16, <1>17, <1>18, <1>19, <1>20, <1>21, <1>22, <1>23
  DEF Next, WorkerStep, Boot

(***************************************************************************)
(* The theorems                                                            *)
(***************************************************************************)

(* No capture outlives its process. *)
CaptureInv == pc = "down" => ~capture.taken

EngineInv == TypeInv /\ ReceiptInv /\ ModelInv /\ CaptureInv

LEMMA CaptureStep ==
  ASSUME CaptureInv, [Next]_vars
  PROVE  CaptureInv'
<1>1. CASE UNCHANGED capture /\ pc' # "down"
  BY <1>1 DEF CaptureInv
<1>2. CASE UNCHANGED capture /\ UNCHANGED pc
  BY <1>2 DEF CaptureInv
<1>3. CASE CaptureWorkspace
  BY <1>3 DEF CaptureWorkspace, CaptureInv, Up, worker
<1>4. CASE Crash
  BY <1>4 DEF Crash, CaptureInv, NoCapture
<1>5. CASE WorkerStep \/ Boot
  <2>1. UNCHANGED capture /\ pc' # "down"
    BY <1>5
    DEF WorkerStep, Boot, Take, AnswerFromReceipt, LookupMisses, LookupFails, Refuse, Rollback,
        Prepare, Commit, CommitUnacknowledged, Install, Publish, ReconcileNothing,
        ReconcileModel, ReconcileFails, Republish, Settle, BootLoad, BootReady, Fail, Answered,
        authority
  <2> QED
    BY <1>1, <2>1
<1>6. ASSUME NEW k \in Callers, NEW c \in Commands, Dispatch(k, c)
      PROVE  CaptureInv'
  BY <1>2, <1>6 DEF Dispatch, worker, authority
<1>7. ASSUME NEW w \in BOOLEAN, NEW r \in BOOLEAN, ForeignCommit(w, r)
      PROVE  CaptureInv'
  BY <1>2, <1>7 DEF ForeignCommit, worker, authority
<1>8. CASE UNCHANGED vars
  BY <1>2, <1>8 DEF vars, worker, authority
<1> QED
  BY <1>3, <1>4, <1>5, <1>6, <1>7, <1>8 DEF Next

(* Before the first boot nothing is stored, and nothing is in memory.       *)
LEMMA InitInv ==
  ASSUME Init
  PROVE  EngineInv
<1>1. TypeInv
  <2>1. <<>> \in Seq(Event) /\ <<>> \in Seq(Envelope) /\ <<>> \in Seq(Nat)
    OBVIOUS
  <2>2. receipts \in [Commands -> Receipt]
    BY DEF Init, NoReceipt, Receipt
  <2>3. /\ NothingPrepared \in [count : 0 .. MaxBatch, workspace : BOOLEAN]
        /\ NoBatch \in [from : Nat, through : Nat]
        /\ NoCapture \in [taken : BOOLEAN, revision : Nat, seen : SUBSET Nat]
        /\ [revision |-> 0, available |-> TRUE] \in [revision : Nat, available : BOOLEAN]
    BY EngineAssumption DEF NothingPrepared, NoBatch, NoCapture
  <2>4. waiting \in [Callers -> Commands \cup {NoCommand}]
    BY DEF Init
  <2> QED
    BY <2>1, <2>2, <2>3, <2>4 DEF Init, TypeInv, TypeOK, EnvelopeInv, Busy
<1>2. \A c \in Commands : EventsOf(c) = {} /\ receipts[c].status = "none"
  BY DEF Init, EventsOf, NoReceipt
<1>3. ReceiptInv
  BY <1>2 DEF Init, ReceiptInv, WorkerReceiptInv, AppliedAtMostOnce, ReceiptMatchesLog,
              AnswersAgree
<1>4. ModelInv
  BY DEF Init, ModelInv, OrderInv, ProjectedInOrder, BatchInv, OwnInv, FenceInv, Up
<1>5. CaptureInv
  BY DEF Init, CaptureInv, NoCapture
<1> QED
  BY <1>1, <1>3, <1>4, <1>5 DEF EngineInv

(* The inductive invariant of the worker (OrchestrationEngine.ts): types,   *)
(* receipts against the log, the read model against the log, and the fence. *)
THEOREM EngineInvariant == Spec => []EngineInv
<1>1. Init => EngineInv
  BY InitInv
<1>2. EngineInv /\ [Next]_vars => EngineInv'
  <2> SUFFICES ASSUME EngineInv, [Next]_vars
               PROVE  TypeInv' /\ ReceiptInv' /\ ModelInv' /\ CaptureInv'
    BY DEF EngineInv
  <2>1. TypeInv /\ ReceiptInv /\ ModelInv /\ CaptureInv
    BY DEF EngineInv
  <2> QED
    BY <2>1, TypeStep, ReceiptStep, ModelStep, CaptureStep
<1> QED
  BY <1>1, <1>2, PTL DEF Spec

(* The worker's state is well typed in every run. *)
THEOREM EngineTypes == Spec => []TypeOK
<1>1. EngineInv => TypeOK
  BY DEF EngineInv, TypeInv
<1> QED
  BY <1>1, EngineInvariant, PTL

(* However often a command is retried, and wherever the process dies, its   *)
(* events are committed at most once.                                       *)
THEOREM CommandsApplyAtMostOnce == Spec => []AppliedAtMostOnce
<1>1. EngineInv => AppliedAtMostOnce
  BY DEF EngineInv, ReceiptInv
<1> QED
  BY <1>1, EngineInvariant, PTL

(* A command's accepted receipt and its events are in the store together.   *)
THEOREM ReceiptsMatchTheLog == Spec => []ReceiptMatchesLog
<1>1. EngineInv => ReceiptMatchesLog
  BY DEF EngineInv, ReceiptInv
<1> QED
  BY <1>1, EngineInvariant, PTL

(* No caller is told of an acceptance that the store does not hold, and all *)
(* are told the same sequence.                                              *)
THEOREM AnswersAreReceipts == Spec => []AnswersAgree
<1>1. EngineInv => AnswersAgree
  BY DEF EngineInv, ReceiptInv
<1> QED
  BY <1>1, EngineInvariant, PTL

(* The transaction and the rejection write a receipt only where there is    *)
(* none, so a receipt is never replaced.                                    *)
THEOREM ReceiptsAreFinal == Spec => ReceiptsFinal
<1> DEFINE Final == \A c \in Commands : receipts[c].status # "none" => receipts'[c] = receipts[c]
<1>1. ASSUME EngineInv, [Next]_vars
      PROVE  [Final]_vars
  <2> USE <1>1
  <2> SUFFICES ASSUME Next PROVE Final
    OBVIOUS
  <2>1. TypeOK /\ WorkerReceiptInv
    BY DEF EngineInv, TypeInv, ReceiptInv
  <2>2. receipts \in [Commands -> Receipt]
    BY <2>1 DEF TypeOK
  <2>3. ASSUME NEW v, receipts' = [receipts EXCEPT ![envelope.command] = v],
               receipts[envelope.command].status = "none"
        PROVE  Final
    BY <2>2, <2>3
  <2>4. CASE receipts' = receipts
    BY <2>4
  <2>5. CASE Commit \/ CommitUnacknowledged
    <3>1. receipts[envelope.command].status = "none"
      BY <2>1, <2>5 DEF Commit, CommitUnacknowledged, MayCommit, WorkerReceiptInv
    <3>2. receipts' = [receipts EXCEPT ![envelope.command] =
                         [status |-> "accepted", sequence |-> ResultSequence]]
      BY <2>5 DEF Commit, CommitUnacknowledged, Transact
    <3> QED
      BY <2>3, <3>1, <3>2
  <2>6. ASSUME NEW written \in BOOLEAN, Settle(written)
        PROVE  Final
    <3>1. CASE failure = "rejected" /\ written
      <4>1. receipts[envelope.command].status = "none"
        BY <2>1, <2>6, <3>1 DEF Settle, WorkerReceiptInv
      <4>2. receipts' = [receipts EXCEPT ![envelope.command] =
                           [status |-> "rejected", sequence |-> SnapshotSequence]]
        BY <2>6, <3>1 DEF Settle
      <4> QED
        BY <2>3, <4>1, <4>2
    <3>2. CASE ~(failure = "rejected" /\ written)
      BY <2>4, <2>6, <3>2 DEF Settle
    <3> QED
      BY <3>1, <3>2
  <2> HIDE DEF Final
  <2>7. \/ receipts' = receipts
        \/ Commit \/ CommitUnacknowledged
        \/ \E written \in BOOLEAN : Settle(written)
    BY DEF Next, WorkerStep, Boot, Dispatch, ForeignCommit, CaptureWorkspace, Take,
           AnswerFromReceipt, LookupMisses, LookupFails, Refuse, Rollback, Prepare, Install,
           Publish, ReconcileNothing, ReconcileModel, ReconcileFails, Republish, Crash,
           BootLoad, BootReady, durable
  <2> QED
    BY <2>4, <2>5, <2>6, <2>7
<1> QED
  BY <1>1, EngineInvariant, PTL DEF Spec, ReceiptsFinal

(* No event is projected twice onto the command read model, nor one before  *)
(* an earlier one, however commands fail and are reconciled.                *)
THEOREM ModelProjectsInOrder == Spec => []ProjectedInOrder
<1>1. EngineInv => ProjectedInOrder
  BY DEF EngineInv, ModelInv, OrderInv
<1> QED
  BY <1>1, EngineInvariant, PTL

(* What this process committed below the model's sequence is in the model,  *)
(* whatever other processes commit and however commands fail.               *)
THEOREM ModelHasOwnEvents == Spec => []OwnEventsProjected
<1>1. EngineInv => OwnEventsProjected
  <2> SUFFICES ASSUME EngineInv, Up, ~unacknowledged,
                      NEW n \in 1 .. SnapshotSequence, log[n].command # Foreign
               PROVE  Projected(n)
    BY DEF OwnEventsProjected, Projected
  <2>1. SnapshotSequence \in Nat /\ SnapshotSequence <= Len(log)
    BY SnapshotIsNewest DEF EngineInv, TypeInv, ModelInv
  <2>2. log \in Seq(Event) /\ batch.from \in Nat
    BY DEF EngineInv, TypeInv, TypeOK
  <2>3. Len(log) \in Nat /\ DOMAIN log = 1 .. Len(log)
    BY <2>2
  <2>4. n \in DOMAIN log
    BY <2>1, <2>3
  <2>5. Projected(n) \/ (pc = "install" /\ batch.from < n)
    BY <2>4 DEF EngineInv, ModelInv, OwnInv, Up
  <2>6. pc = "install" => n <= batch.from
    BY <2>1, <2>2 DEF EngineInv, ModelInv, BatchInv
  <2> QED
    BY <2>1, <2>2, <2>5, <2>6
<1> QED
  BY <1>1, EngineInvariant, PTL

(* A consumer reacting to a published event of this process finds it in the *)
(* model its own command is decided on.                                     *)
THEOREM ModelHasPublishedEvents == Spec => []PublishedIsProjected
<1>1. EngineInv => PublishedIsProjected
  <2> SUFFICES ASSUME EngineInv, Up, ~unacknowledged,
                      NEW n \in (bootSequence + 1) .. lastPublishedSequence,
                      log[n].command # Foreign
               PROVE  n <= SnapshotSequence
    BY DEF PublishedIsProjected
  <2>1. /\ SnapshotSequence \in Nat
        /\ \A m \in Nat : Projected(m) => m <= SnapshotSequence
    BY SnapshotIsNewest DEF EngineInv, TypeInv, ModelInv
  <2>2. /\ log \in Seq(Event) /\ batch.from \in Nat
        /\ bootSequence \in Nat /\ lastPublishedSequence \in Nat
    BY DEF EngineInv, TypeInv, TypeOK
  <2>3. lastPublishedSequence <= Len(log)
    BY DEF EngineInv, ModelInv, BatchInv
  <2>4. n \in Nat /\ n \in 1 .. Len(log)
    BY <2>2, <2>3
  <2>5. Projected(n) \/ (pc = "install" /\ batch.from < n)
    BY <2>2, <2>4 DEF EngineInv, ModelInv, OwnInv, Up
  <2>6. pc = "install" => n <= batch.from
    BY <2>2, <2>4 DEF EngineInv, ModelInv, BatchInv
  <2> QED
    BY <2>1, <2>2, <2>4, <2>5, <2>6
<1> QED
  BY <1>1, EngineInvariant, PTL

(* A workspace capture that answers valid has seen every move this process  *)
(* has committed: the fence is down from before the commit of a move until  *)
(* the model has it.                                                        *)
THEOREM MovesInvalidateCaptures == Spec => []OwnMovesInvalidateCaptures
<1>1. EngineInv => OwnMovesInvalidateCaptures
  <2> SUFFICES ASSUME EngineInv, CaptureValid, ~unacknowledged,
                      NEW n \in CommittedWorkspace, log[n].command # Foreign
               PROVE  n \in capture.seen
    BY DEF OwnMovesInvalidateCaptures
  <2>1. n \in DOMAIN log /\ log[n].workspace
    BY DEF CommittedWorkspace, WorkspaceEvents
  <2>2. pc # "down"
    BY DEF CaptureValid, EngineInv, CaptureInv
  <2>3. ~(pc = "install" /\ batch.from < n /\ n <= batch.through)
    BY <2>1 DEF CaptureValid, EngineInv, ModelInv, FenceInv
  <2>4. Projected(n)
    BY <2>1, <2>2, <2>3 DEF EngineInv, ModelInv, OwnInv
  <2>5. n \in ModelWorkspace
    BY <2>1, <2>4 DEF ModelWorkspace, WorkspaceEvents, Projected
  <2> QED
    BY <2>5 DEF CaptureValid
<1> QED
  BY <1>1, EngineInvariant, PTL

(***************************************************************************)
(* The promise of dispatch                                                 *)
(***************************************************************************)

(* A caller that awaits a command has exactly one envelope, of that command, *)
(* in the queue or in the worker's hands; no envelope is anybody else's.     *)
CallersInv ==
  /\ \A i \in DOMAIN queue : waiting[queue[i].caller] = queue[i].command
  /\ \A i, j \in DOMAIN queue : queue[i].caller = queue[j].caller => i = j
  /\ pc \in Busy =>
       /\ waiting[envelope.caller] = envelope.command
       /\ \A i \in DOMAIN queue : queue[i].caller # envelope.caller
  /\ \A k \in Callers : waiting[k] # NoCommand =>
       \/ pc \in Busy /\ envelope.caller = k
       \/ \E i \in DOMAIN queue : queue[i].caller = k

(* Dispatching adds the envelope of a caller that had none.                  *)
LEMMA DispatchKeepsCallers ==
  ASSUME TypeInv, CallersInv, NEW k \in Callers, NEW c \in Commands, Dispatch(k, c)
  PROVE  CallersInv'
<1> DEFINE n == Len(queue)
<1>1. /\ queue \in Seq(Envelope) /\ n \in Nat /\ DOMAIN queue = 1 .. n
      /\ waiting \in [Callers -> Commands \cup {NoCommand}]
      /\ NoCommand \notin Commands
  BY EngineAssumption DEF TypeInv, TypeOK
<1>2. /\ waiting[k] = NoCommand
      /\ queue' = Append(queue, [command |-> c, caller |-> k])
      /\ waiting' = [waiting EXCEPT ![k] = c]
      /\ pc' = pc /\ envelope' = envelope
  BY DEF Dispatch, worker
<1>3. /\ DOMAIN queue' = 1 .. (n + 1)
      /\ \A i \in 1 .. n : queue'[i] = queue[i]
      /\ queue'[n + 1].caller = k /\ queue'[n + 1].command = c
  BY <1>1, <1>2
<1>4. waiting'[k] = c /\ \A q \in Callers : q # k => waiting'[q] = waiting[q]
  BY <1>1, <1>2
<1>5. ASSUME NEW i \in 1 .. n PROVE queue[i].caller \in Callers /\ queue[i].caller # k
  <2>1. queue[i] \in Envelope /\ i \in DOMAIN queue
    BY <1>1
  <2>2. queue[i].caller \in Callers /\ queue[i].command \in Commands
    BY <2>1 DEF Envelope
  <2>3. waiting[queue[i].caller] = queue[i].command
    BY <2>1 DEF CallersInv
  <2> QED
    BY <1>1, <1>2, <2>2, <2>3
<1>6. pc \in Busy => envelope.caller \in Callers /\ envelope.caller # k
  <2>1. pc \in Busy => envelope.caller \in Callers /\ envelope.command \in Commands
    BY DEF TypeInv, EnvelopeInv, Envelope
  <2> QED
    BY <1>1, <1>2, <2>1 DEF CallersInv
<1>7. \A i \in 1 .. (n + 1) : i \in 1 .. n \/ i = n + 1
  BY <1>1
<1>8. \A i \in 1 .. n : i \in 1 .. (n + 1)
  BY <1>1
<1>9. n + 1 \in 1 .. (n + 1)
  BY <1>1
<1> HIDE DEF n
<1>10. \A i \in DOMAIN queue' : waiting'[queue'[i].caller] = queue'[i].command
  BY <1>1, <1>3, <1>4, <1>5, <1>7 DEF CallersInv
<1>11. \A i, j \in DOMAIN queue' : queue'[i].caller = queue'[j].caller => i = j
  BY <1>1, <1>3, <1>5, <1>7 DEF CallersInv
<1>12. pc' \in Busy => /\ waiting'[envelope'.caller] = envelope'.command
                       /\ \A i \in DOMAIN queue' : queue'[i].caller # envelope'.caller
  BY <1>1, <1>2, <1>3, <1>4, <1>6, <1>7 DEF CallersInv
<1>13. \A q \in Callers : waiting'[q] # NoCommand =>
         \/ pc' \in Busy /\ envelope'.caller = q
         \/ \E i \in DOMAIN queue' : queue'[i].caller = q
  <2> SUFFICES ASSUME NEW q \in Callers, waiting'[q] # NoCommand,
                      ~(pc' \in Busy /\ envelope'.caller = q)
               PROVE  \E i \in DOMAIN queue' : queue'[i].caller = q
    OBVIOUS
  <2>1. CASE q = k
    BY <1>3, <1>9, <2>1
  <2>2. CASE q # k
    BY <1>1, <1>2, <1>3, <1>4, <1>8, <2>2 DEF CallersInv
  <2> QED
    BY <2>1, <2>2
<1> QED
  BY <1>10, <1>11, <1>12, <1>13 DEF CallersInv

(* The worker takes the first envelope.                                      *)
LEMMA TakeKeepsCallers ==
  ASSUME TypeInv, CallersInv, Take
  PROVE  CallersInv'
<1> DEFINE n == Len(queue)
<1>1. /\ queue \in Seq(Envelope) /\ n \in Nat /\ DOMAIN queue = 1 .. n /\ queue # <<>>
      /\ pc \notin Busy
  BY DEF TypeInv, TypeOK, Take, Busy
<1>2. envelope' = queue[1] /\ queue' = Tail(queue) /\ waiting' = waiting /\ pc' \in Busy
  BY <1>1 DEF Take, Busy
<1>3. /\ n >= 1 /\ DOMAIN queue' = 1 .. (n - 1)
      /\ \A i \in 1 .. (n - 1) : queue'[i] = queue[i + 1]
  BY <1>1, <1>2
<1>4. \A i \in 1 .. (n - 1) : i + 1 \in 1 .. n /\ i + 1 # 1
  BY <1>1
<1>5. \A i, j \in 1 .. (n - 1) : i + 1 = j + 1 => i = j
  BY <1>1
<1>6. 1 \in 1 .. n /\ \A i \in 1 .. n : i = 1 \/ \E j \in 1 .. (n - 1) : i = j + 1
  <2> SUFFICES ASSUME NEW i \in 1 .. n, i # 1 PROVE \E j \in 1 .. (n - 1) : i = j + 1
    BY <1>1, <1>3
  <2>1. i - 1 \in 1 .. (n - 1) /\ i = (i - 1) + 1
    BY <1>1
  <2> QED
    BY <2>1
<1> HIDE DEF n
<1>7. \A i \in DOMAIN queue' : waiting'[queue'[i].caller] = queue'[i].command
  BY <1>1, <1>2, <1>3, <1>4 DEF CallersInv
<1>8. \A i, j \in DOMAIN queue' : queue'[i].caller = queue'[j].caller => i = j
  <2> SUFFICES ASSUME NEW i \in 1 .. (n - 1), NEW j \in 1 .. (n - 1),
                      queue[i + 1].caller = queue[j + 1].caller
               PROVE  i = j
    BY <1>3
  <2>1. i + 1 \in DOMAIN queue /\ j + 1 \in DOMAIN queue
    BY <1>1, <1>4
  <2>2. i + 1 = j + 1
    BY <2>1 DEF CallersInv
  <2> QED
    BY <1>5, <2>2
<1>9. /\ waiting'[envelope'.caller] = envelope'.command
      /\ \A i \in DOMAIN queue' : queue'[i].caller # envelope'.caller
  BY <1>1, <1>2, <1>3, <1>4, <1>6 DEF CallersInv
<1>10. \A k \in Callers : waiting'[k] # NoCommand =>
         envelope'.caller = k \/ \E i \in DOMAIN queue' : queue'[i].caller = k
  <2> SUFFICES ASSUME NEW k \in Callers, waiting[k] # NoCommand, queue[1].caller # k
               PROVE  \E j \in DOMAIN queue' : queue'[j].caller = k
    BY <1>2
  <2>1. PICK i \in 1 .. n : queue[i].caller = k
    BY <1>1 DEF CallersInv
  <2>2. PICK j \in 1 .. (n - 1) : i = j + 1
    BY <1>6, <2>1
  <2>3. j \in DOMAIN queue' /\ queue'[j].caller = k
    BY <1>3, <2>1, <2>2
  <2> QED
    BY <2>3
<1> QED
  BY <1>2, <1>7, <1>8, <1>9, <1>10 DEF CallersInv

(* The caller of the envelope in hand is answered; the others wait on.       *)
LEMMA AnswerKeepsCallers ==
  ASSUME TypeInv, CallersInv, pc \in Busy, NEW outcome, NEW sequence, Answered(outcome, sequence)
  PROVE  CallersInv'
<1>1. /\ waiting \in [Callers -> Commands \cup {NoCommand}] /\ envelope.caller \in Callers
      /\ queue \in Seq(Envelope)
  BY DEF TypeInv, TypeOK, EnvelopeInv, Envelope
<1>2. /\ waiting' = [waiting EXCEPT ![envelope.caller] = NoCommand]
      /\ queue' = queue /\ pc' \notin Busy
  BY DEF Answered, Busy
<1>3. ASSUME NEW i \in DOMAIN queue
      PROVE  queue[i].caller \in Callers /\ queue[i].caller # envelope.caller
  <2>1. queue[i] \in Envelope
    BY <1>1
  <2> QED
    BY <2>1 DEF CallersInv, Envelope
<1>4. /\ waiting'[envelope.caller] = NoCommand
      /\ \A k \in Callers : k # envelope.caller => waiting'[k] = waiting[k]
  BY <1>1, <1>2
<1> QED
  BY <1>2, <1>3, <1>4 DEF CallersInv

LEMMA CallersKept ==
  ASSUME CallersInv, UNCHANGED <<queue, waiting>>, pc' \in Busy <=> pc \in Busy,
         pc \in Busy => envelope' = envelope
  PROVE  CallersInv'
BY DEF CallersInv

LEMMA CallersStep ==
  ASSUME TypeInv, CallersInv, [Next]_vars
  PROVE  CallersInv'
<1>1. ASSUME NEW k \in Callers, NEW c \in Commands, Dispatch(k, c)
      PROVE  CallersInv'
  BY <1>1, DispatchKeepsCallers
<1>2. CASE Take
  BY <1>2, TakeKeepsCallers
<1>3. CASE AnswerFromReceipt \/ Publish \/ \E written \in BOOLEAN : Settle(written)
  <2>1. pc \in Busy
    BY <1>3 DEF AnswerFromReceipt, Publish, Settle, Busy
  <2>2. PICK outcome, sequence : Answered(outcome, sequence)
    BY <1>3 DEF AnswerFromReceipt, Publish, Settle
  <2> QED
    BY <2>1, <2>2, AnswerKeepsCallers
<1>4. CASE Crash
  <2>1. queue' = <<>> /\ pc' \notin Busy /\ waiting' = [k \in Callers |-> NoCommand]
    BY <1>4 DEF Crash, Busy
  <2> QED
    BY <2>1 DEF CallersInv
<1>5. ASSUME NEW w \in BOOLEAN, NEW r \in BOOLEAN, ForeignCommit(w, r)
      PROVE  CallersInv'
  BY <1>5, CallersKept DEF ForeignCommit, worker, clients
<1>6. CASE CaptureWorkspace \/ UNCHANGED vars
  BY <1>6, CallersKept DEF CaptureWorkspace, vars, worker, clients
<1>7. CASE Boot
  BY <1>7, CallersKept DEF Boot, BootLoad, BootReady, clients, Busy
<1>8. ASSUME WorkerStep, ~Take, ~AnswerFromReceipt, ~Publish,
             ~\E written \in BOOLEAN : Settle(written)
      PROVE  CallersInv'
  <2>1. UNCHANGED <<queue, waiting, envelope>> /\ pc \in Busy /\ pc' \in Busy
    BY <1>8 DEF WorkerStep, LookupMisses, LookupFails, Refuse, Rollback, Prepare, Commit,
       CommitUnacknowledged, MayCommit, Install, ReconcileNothing, ReconcileModel,
       ReconcileFails, Republish, Fail, clients, Busy
  <2> QED
    BY <2>1, CallersKept
<1> QED
  BY <1>1, <1>2, <1>3, <1>4, <1>5, <1>6, <1>7, <1>8 DEF Next

(* Whatever is retried, fails or crashes: a caller that waits has its own    *)
(* envelope, and no two envelopes are one caller's (OrchestrationEngine.ts,  *)
(* dispatch: one Deferred for each offer).                                   *)
THEOREM CallersHaveOneEnvelope == Spec => []CallersInv
<1>1. Init => CallersInv
  BY DEF Init, CallersInv, Busy
<1>2. TypeInv /\ CallersInv /\ [Next]_vars => CallersInv'
  BY CallersStep
<1>3. EngineInv => TypeInv
  BY DEF EngineInv
<1> QED
  BY <1>1, <1>2, <1>3, EngineInvariant, PTL DEF Spec

Effects == [c \in Commands |-> EventsOf(c)]

(* What changes neither store nor callers is no step of the service.         *)
LEMMA ServiceRests ==
  ASSUME UNCHANGED <<log, receipts, waiting, answers>>
  PROVE  UNCHANGED Service!vars
BY DEF Service!vars, EventsOf

(* The transaction is the step in which a command takes effect.              *)
LEMMA TransactionIsEffect ==
  ASSUME TypeInv, ReceiptInv, OrderInv, CallersInv, MayCommit, Transact,
         UNCHANGED <<waiting, answers>>
  PROVE  Service!Next
<1>1. /\ envelope \in Envelope /\ envelope.command \in Commands /\ envelope.caller \in Callers
      /\ TypeOK
  BY DEF TypeInv, EnvelopeInv, Busy, MayCommit, Envelope
<1> PICK c \in Commands : c = envelope.command
  BY <1>1
<1> PICK n \in 0 .. MaxBatch : n = prepared.count
  BY <1>1 DEF TypeOK
<1>2. /\ n \in 0 .. MaxBatch /\ Len(log') = Len(log) + n /\ Len(log) \in Nat
      /\ receipts' = [receipts EXCEPT ![c] = [status |-> "accepted", sequence |-> ResultSequence]]
  BY <1>1, TransactionItems DEF TypeOK
<1>3. receipts[c].status = "none" /\ waiting[envelope.caller] = c
  BY DEF MayCommit, ReceiptInv, WorkerReceiptInv, CallersInv, Busy
<1>4. /\ EventsOf(c) = {} /\ EventsOf(c)' = (Len(log) + 1) .. (Len(log) + n)
      /\ \A d \in Commands : d # c => EventsOf(d)' = EventsOf(d)
  BY TransactionEvents
<1>5. n = 0 => c \in QueueCommands
  BY DEF MayCommit
<1>6. ResultSequence \in IF n = 0 THEN 0 .. Len(log) ELSE {Len(log) + n}
  <2>1. SnapshotSequence \in Nat /\ SnapshotSequence <= Len(log)
    BY <1>1, SnapshotIsNewest
  <2> QED
    BY <1>2, <2>1 DEF ResultSequence
<1>7. Effects[c] = {}
  BY <1>1, <1>4 DEF Effects
<1>8. Effects' = [Effects EXCEPT ![c] = (Len(log) + 1) .. (Len(log) + n)]
  BY <1>1, <1>4 DEF Effects
<1>9. Service!TakeEffect(c, n)
  BY <1>1, <1>2, <1>3, <1>5, <1>6, <1>7, <1>8 DEF Service!TakeEffect, Service!Undecided, Effects
<1> QED
  BY <1>1, <1>2, <1>9 DEF Service!Next

(* The worker's answer goes to a caller that awaits its command.             *)
LEMMA AnswerIsTold ==
  ASSUME TypeInv, CallersInv, pc \in Busy, UNCHANGED log,
         NEW outcome, NEW sequence, Answered(outcome, sequence)
  PROVE  /\ envelope.caller \in Service!Waiting
         /\ waiting[envelope.caller] = envelope.command
         /\ Service!Tell(envelope.caller, outcome, sequence)
<1>1. envelope.caller \in Callers /\ envelope.command \in Commands /\ NoCommand \notin Commands
  BY EngineAssumption DEF TypeInv, EnvelopeInv, Envelope
<1>2. waiting[envelope.caller] = envelope.command
  BY DEF CallersInv
<1>3. Len(log)' = Len(log) /\ Effects' = Effects
  BY DEF Effects, EventsOf
<1> QED
  BY <1>1, <1>2, <1>3 DEF Service!Waiting, Service!Tell, Answered, Effects

(* Every step of the engine is one of the service, or leaves it as it is.    *)
LEMMA EngineStepsService ==
  ASSUME EngineInv, CallersInv, [Next]_vars
  PROVE  [Service!Next]_(Service!vars)
<1>t. TypeInv /\ ReceiptInv /\ OrderInv /\ TypeOK
  BY DEF EngineInv, TypeInv, ModelInv
<1>1. ASSUME NEW k \in Callers, NEW c \in Commands, Dispatch(k, c)
      PROVE  Service!Next
  <2>1. Len(log)' = Len(log) /\ Effects' = Effects
    BY <1>1 DEF Dispatch, durable, Effects, EventsOf
  <2>2. Service!Ask(k, c)
    BY <1>1, <2>1 DEF Dispatch, durable, Service!Ask, Effects
  <2> QED
    BY <2>2 DEF Service!Next
<1>2. ASSUME NEW w \in BOOLEAN, NEW r \in BOOLEAN, ForeignCommit(w, r)
      PROVE  Service!Next
  <2>1. Len(log)' = Len(log) + 1
    BY <1>t, <1>2 DEF ForeignCommit, TypeOK
  <2>2. Effects' = Effects
    BY <1>t, <1>2, ForeignEvents DEF Effects
  <2>3. Service!Elsewhere
    BY <1>2, <2>1, <2>2 DEF ForeignCommit, clients, Service!Elsewhere, Effects
  <2> QED
    BY <2>3 DEF Service!Next
<1>3. CASE Commit \/ CommitUnacknowledged
  <2>1. MayCommit /\ Transact /\ UNCHANGED <<waiting, answers>>
    BY <1>3 DEF Commit, CommitUnacknowledged, Fail, clients
  <2> QED
    BY <1>t, <2>1, TransactionIsEffect
<1>4. CASE AnswerFromReceipt \/ Publish
  <2>1. pc \in Busy /\ UNCHANGED <<log, receipts>>
    BY <1>4 DEF AnswerFromReceipt, Publish, Busy, durable
  <2>2. \/ /\ receipts[envelope.command].status = "accepted"
           /\ Answered("accepted", receipts[envelope.command].sequence)
        \/ /\ receipts[envelope.command].status = "rejected"
           /\ Answered("previously rejected", 0)
    <3>1. CASE Publish
      BY <1>t, <3>1 DEF Publish, ReceiptInv, WorkerReceiptInv
    <3>2. CASE AnswerFromReceipt
      <4>1. envelope.command \in Commands
        BY <1>t, <2>1 DEF TypeInv, EnvelopeInv, Envelope
      <4>2. receipts[envelope.command].status \in {"none", "accepted", "rejected"}
        BY <1>t, <4>1 DEF TypeOK, Receipt
      <4> QED
        BY <3>2, <4>2 DEF AnswerFromReceipt
    <3> QED
      BY <1>4, <3>1, <3>2
  <2>3. CASE /\ receipts[envelope.command].status = "accepted"
             /\ Answered("accepted", receipts[envelope.command].sequence)
    <3>1. /\ envelope.caller \in Service!Waiting
          /\ Service!TellAccepted(envelope.caller)
      BY <1>t, <2>1, <2>3, AnswerIsTold DEF Service!TellAccepted
    <3> QED
      BY <3>1 DEF Service!Next
  <2>4. CASE /\ receipts[envelope.command].status = "rejected"
             /\ Answered("previously rejected", 0)
    <3>1. /\ envelope.caller \in Service!Waiting
          /\ Service!TellRejected(envelope.caller)
      BY <1>t, <2>1, <2>4, AnswerIsTold DEF Service!TellRejected
    <3> QED
      BY <3>1 DEF Service!Next
  <2> QED
    BY <2>2, <2>3, <2>4
<1>5. ASSUME NEW written \in BOOLEAN, Settle(written)
      PROVE  Service!Next
  <2>1. pc \in Busy /\ UNCHANGED log
    BY <1>5 DEF Settle, Busy
  <2>2. CASE failure = "rejected"
    <3>1. /\ receipts[envelope.command].status = "none"
          /\ Answered("rejected", 0)
      BY <1>t, <1>5, <2>2 DEF Settle, ReceiptInv, WorkerReceiptInv
    <3>2. /\ envelope.caller \in Service!Waiting
          /\ waiting[envelope.caller] = envelope.command
          /\ Service!Tell(envelope.caller, "rejected", 0)
      BY <1>t, <2>1, <3>1, AnswerIsTold
    <3>3. SnapshotSequence \in 0 .. Len(log)
      <4>1. SnapshotSequence \in Nat /\ SnapshotSequence <= Len(log)
        BY <1>t, SnapshotIsNewest
      <4> QED
        BY <1>t, <4>1 DEF TypeOK
    <3>4. \/ receipts' = [receipts EXCEPT ![envelope.command] =
                            [status |-> "rejected", sequence |-> SnapshotSequence]]
          \/ receipts' = receipts
      BY <1>5, <2>2 DEF Settle
    <3>5. Service!Reject(envelope.caller)
      BY <3>1, <3>2, <3>3, <3>4 DEF Service!Reject, Service!Undecided
    <3> QED
      BY <3>2, <3>5 DEF Service!Next
  <2>3. CASE failure # "rejected"
    <3>1. Answered("failed", 0) /\ receipts' = receipts
      BY <1>5, <2>3 DEF Settle
    <3>2. /\ envelope.caller \in Service!Waiting
          /\ Service!TellFailed(envelope.caller)
      BY <1>t, <2>1, <3>1, AnswerIsTold DEF Service!TellFailed
    <3> QED
      BY <3>2 DEF Service!Next
  <2> QED
    BY <2>2, <2>3
<1>6. CASE Crash
  <2>1. Len(log)' = Len(log) /\ Effects' = Effects
    BY <1>6 DEF Crash, durable, Effects, EventsOf
  <2>2. Service!Abandon
    BY <1>6, <2>1 DEF Crash, durable, Service!Abandon, Effects
  <2> QED
    BY <2>2 DEF Service!Next
<1>7. CASE Take \/ Boot \/ CaptureWorkspace \/ UNCHANGED vars
  BY <1>7, ServiceRests
  DEF Take, Boot, BootLoad, BootReady, CaptureWorkspace, vars, durable, clients
<1>8. CASE \/ LookupMisses \/ LookupFails
           \/ \E kind \in {"retryable", "rejected"} : Refuse(kind) \/ Rollback(kind)
           \/ \E count \in 0 .. MaxBatch, workspace \in BOOLEAN : Prepare(count, workspace)
           \/ Install \/ ReconcileNothing \/ ReconcileModel \/ ReconcileFails \/ Republish
  BY <1>8, ServiceRests
  DEF LookupMisses, LookupFails, Refuse, Rollback, Prepare, Install, ReconcileNothing,
      ReconcileModel, ReconcileFails, Republish, Fail, durable, clients
<1> QED
  BY <1>1, <1>2, <1>3, <1>4, <1>5, <1>6, <1>7, <1>8 DEF Next, WorkerStep

(* The engine implements the promise of dispatch: the events of a command   *)
(* appear in one step, once, while somebody awaits it; what became of it    *)
(* never changes; and each answer is given to one who awaits that command   *)
(* and says what became of it, or that the attempt failed.                  *)
THEOREM EngineImplementsService == Spec => ServiceSpec
<1>1. Init => Service!Init
  BY DEF Init, Service!Init, EventsOf, NoReceipt
<1>2. EngineInv /\ CallersInv /\ [Next]_vars => [Service!Next]_(Service!vars)
  BY EngineStepsService
<1> QED
  BY <1>1, <1>2, EngineInvariant, CallersHaveOneEnvelope, PTL DEF Spec, ServiceSpec, Service!Spec

=============================================================================
