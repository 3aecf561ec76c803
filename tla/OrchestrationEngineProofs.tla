---------------------- MODULE OrchestrationEngineProofs ----------------------
(***************************************************************************)
(* Proofs about OrchestrationEngine: what is proved of the command worker  *)
(* alone holds of it beside the bus, and the worker uses the bus as the    *)
(* bus expects, for any commands, callers, subscribers and bounds.         *)
(***************************************************************************)
EXTENDS OrchestrationEngine, CommandEngineProofs

-----------------------------------------------------------------------------
(* The worker                                                               *)

(* What is installed and published, this process has decoded.               *)
BatchReadable ==
  pc \in {"install", "publish", "republish"} =>
    \A n \in (batch.from + 1) .. batch.through : log[n].readable

SysInv == EngineInv /\ BatchReadable

(* A step of the whole is one of the worker, its callers or other processes, *)
(* or leaves them as they were.                                             *)
LEMMA SysStepsEngine ==
  ASSUME [SysNext]_sysVars
  PROVE  [Next]_vars
BY DEF SysNext, sysVars, PublishToBus, WorkerAlone, SysBoot, SysCrash, Environment, Consume,
   Subscribe, Next, WorkerStep, Boot

(* The events of a transaction are the worker's own, decoded.               *)
LEMMA TransactionIsReadable ==
  ASSUME TypeOK, MayCommit, Transact, envelope \in Envelope
  PROVE  /\ log' \in Seq(Event)
         /\ prepared.count \in 0 .. MaxBatch
         /\ Len(log') = Len(log) + prepared.count
         /\ \A i \in 1 .. Len(log) : log'[i] = log[i]
         /\ \A i \in 1 .. prepared.count : log'[Len(log) + i].readable
<1>1. /\ log' \in Seq(Event) /\ prepared.count \in 0 .. MaxBatch
      /\ Len(log') = Len(log) + prepared.count
      /\ \A i \in 1 .. Len(log) : log'[i] = log[i]
  BY TransactionItems
<1>2. \A i \in 1 .. prepared.count :
        log'[Len(log) + i] = [command |-> envelope.command, part |-> i,
                              workspace |-> prepared.workspace, readable |-> TRUE]
  BY TransactionItems
<1>3. ASSUME NEW i \in 1 .. prepared.count PROVE log'[Len(log) + i].readable
  <2> DEFINE event == [command |-> envelope.command, part |-> i,
                       workspace |-> prepared.workspace, readable |-> TRUE]
  <2>1. log'[Len(log) + i] = event
    BY <1>2
  <2>2. event.readable
    OBVIOUS
  <2> HIDE DEF event
  <2> QED
    BY <2>1, <2>2
<1> QED
  BY <1>1, <1>3, Zenon

LEMMA BatchReadableStep ==
  ASSUME TypeInv, BatchInv, BatchReadable, [Next]_vars
  PROVE  BatchReadable'
<1>t. /\ log \in Seq(Event) /\ batch.from \in Nat /\ batch.through \in Nat
      /\ dispatchStartSequence \in Nat /\ prepared.count \in Nat
  BY EngineAssumption DEF TypeInv, TypeOK
<1>1. CASE UNCHANGED <<log, batch>> /\
           (pc' = pc \/ pc = "install" \/ pc' \notin {"install", "publish", "republish"})
  BY <1>1 DEF BatchReadable
<1>2. CASE Commit
  <2>1. envelope \in Envelope
    BY <1>2 DEF TypeInv, EnvelopeInv, Busy, Commit, MayCommit
  <2>2. TypeOK /\ MayCommit /\ Transact
    BY <1>2 DEF Commit, TypeInv
  <2>3. batch'.from = Len(log) /\ batch'.through = Len(log) + prepared.count
    BY <1>2 DEF Commit
  <2> SUFFICES ASSUME NEW n \in (Len(log) + 1) .. (Len(log) + prepared.count)
               PROVE  log'[n].readable
    BY <2>3, Zenon DEF BatchReadable
  <2>4. \A i \in 1 .. prepared.count : log'[Len(log) + i].readable
    BY <2>1, <2>2, TransactionIsReadable, Zenon
  <2>5. n - Len(log) \in 1 .. prepared.count /\ Len(log) + (n - Len(log)) = n
    BY <1>t
  <2> QED
    BY <2>4, <2>5
<1>3. CASE ReconcileModel
  <2>1. /\ batch'.from = dispatchStartSequence /\ batch'.through = Unreconciled /\ log' = log
        /\ \A n \in (dispatchStartSequence + 1) .. Unreconciled : log[n].readable
    BY <1>3 DEF ReconcileModel, durable
  <2> QED
    BY <2>1 DEF BatchReadable
<1>4. ASSUME NEW w \in BOOLEAN, NEW r \in BOOLEAN, ForeignCommit(w, r) PROVE BatchReadable'
  <2>1. pc' = pc /\ batch' = batch
    BY <1>4 DEF ForeignCommit, worker
  <2>2. \A n \in 1 .. Len(log) : log'[n] = log[n]
    BY <1>4, <1>t DEF ForeignCommit
  <2>3. pc \in {"install", "publish", "republish"} => batch.through <= Len(log)
    BY DEF BatchInv
  <2>4. pc \in {"install", "publish", "republish"} =>
          \A n \in (batch.from + 1) .. batch.through : n \in 1 .. Len(log)
    BY <1>t, <2>3
  <2> QED
    BY <2>1, <2>2, <2>4 DEF BatchReadable
<1>5. ASSUME WorkerStep, ~Commit, ~ReconcileModel PROVE BatchReadable'
  BY <1>1, <1>5 DEF WorkerStep, Take, AnswerFromReceipt, LookupMisses, LookupFails, Refuse,
     Rollback, Prepare, CommitUnacknowledged, Install, Publish, ReconcileNothing, ReconcileFails,
     Republish, Settle, Fail, Answered, durable, BatchReadable
<1>6. CASE Boot \/ Crash
  BY <1>6 DEF Boot, BootLoad, BootReady, Crash, BatchReadable
<1>7. ASSUME NEW k \in Callers, NEW c \in Commands, Dispatch(k, c) PROVE BatchReadable'
  BY <1>1, <1>7 DEF Dispatch, durable, worker
<1>8. CASE CaptureWorkspace \/ UNCHANGED vars
  BY <1>1, <1>8 DEF CaptureWorkspace, vars, durable, worker
<1> QED
  BY <1>2, <1>3, <1>4, <1>5, <1>6, <1>7, <1>8 DEF Next

LEMMA SysInitInv == SysInit => SysInv
BY InitInv DEF SysInit, SysInv, BatchReadable, Init

LEMMA SysInvStep == SysInv /\ [SysNext]_sysVars => SysInv'
<1> SUFFICES ASSUME SysInv, [SysNext]_sysVars PROVE SysInv'
  OBVIOUS
<1>1. [Next]_vars
  BY SysStepsEngine
<1>2. TypeInv /\ ReceiptInv /\ ModelInv /\ CaptureInv /\ BatchReadable
  BY DEF SysInv, EngineInv
<1>3. TypeInv' /\ ReceiptInv' /\ ModelInv' /\ CaptureInv'
  BY <1>1, <1>2, TypeStep, ReceiptStep, ModelStep, CaptureStep
<1>4. BatchReadable'
  BY <1>1, <1>2, BatchReadableStep DEF ModelInv
<1> QED
  BY <1>3, <1>4 DEF SysInv, EngineInv

-----------------------------------------------------------------------------
(* The bus                                                                  *)

Unreadable == {n \in DOMAIN log : ~log[n].readable}

(* A step that changes neither the log nor whether the process is up, nor    *)
(* anything of the bus.                                                      *)
LEMMA BusRests ==
  ASSUME UNCHANGED <<log, lastPublishedSequence, subscriptionVars>>, Up' <=> Up
  PROVE  UNCHANGED Bus!vars
<1>1. Len(log)' = Len(log) /\ Unreadable' = Unreadable
  BY DEF Unreadable
<1>2. Up' = Up
  BY DEF Up
<1> QED
  BY <1>1, <1>2 DEF Bus!vars, Bus!subscriptionVars, subscriptionVars, Unreadable

(* A transaction of the worker adds decoded events.                          *)
LEMMA TransactionCommits ==
  ASSUME TypeInv, MayCommit, Transact, Up' <=> Up,
         UNCHANGED <<lastPublishedSequence, subscriptionVars>>
  PROVE  [Bus!Next]_(Bus!vars)
<1>1. envelope \in Envelope /\ TypeOK
  BY DEF TypeInv, EnvelopeInv, Busy, MayCommit
<1>2. /\ Len(log') = Len(log) + prepared.count /\ prepared.count \in 0 .. MaxBatch
      /\ log' \in Seq(Event)
      /\ \A i \in 1 .. Len(log) : log'[i] = log[i]
      /\ \A i \in 1 .. prepared.count : log'[Len(log) + i].readable
  BY <1>1, TransactionIsReadable, Zenon
<1>3. Len(log) \in Nat /\ prepared.count \in Nat /\ Len(log) + prepared.count <= MaxSequence
  BY <1>1, <1>2, EngineAssumption DEF TypeOK, MayCommit
<1>4. Unreadable' = Unreadable
  <2>1. \A n \in 1 .. Len(log') : n \in 1 .. Len(log) \/ log'[n].readable
    <3> SUFFICES ASSUME NEW n \in 1 .. Len(log'), n \notin 1 .. Len(log) PROVE log'[n].readable
      OBVIOUS
    <3>1. n - Len(log) \in 1 .. prepared.count /\ Len(log) + (n - Len(log)) = n
      BY <1>2, <1>3
    <3> QED
      BY <1>2, <3>1
  <2>2. DOMAIN log = 1 .. Len(log) /\ DOMAIN log' = 1 .. Len(log')
    BY <1>1, <1>2 DEF TypeOK
  <2>3. \A n \in 1 .. Len(log) : n \in 1 .. Len(log')
    BY <1>2, <1>3
  <2> QED
    BY <1>2, <2>1, <2>2, <2>3 DEF Unreadable
<1>5. Up' = Up
  BY DEF Up
<1>6. CASE prepared.count = 0
  <2>1. Len(log)' = Len(log)
    BY <1>2, <1>3, <1>6
  <2> QED
    BY <1>4, <1>5, <2>1 DEF Bus!vars, Bus!subscriptionVars, subscriptionVars, Unreadable
<1>7. CASE prepared.count # 0
  <2>1. prepared.count \in 1 .. MaxSequence
    BY <1>3, <1>7, EngineAssumption
  <2>2. Bus!Commit(prepared.count)
    BY <1>2, <1>3, <1>4, <1>5 DEF Bus!Commit, Bus!subscriptionVars, subscriptionVars, Unreadable
  <2> QED
    BY <2>1, <2>2 DEF Bus!Next
<1> QED
  BY <1>6, <1>7

LEMMA ForeignCommits ==
  ASSUME TypeInv, NEW w \in BOOLEAN, NEW r \in BOOLEAN, ForeignCommit(w, r),
         UNCHANGED subscriptionVars
  PROVE  Bus!Next
<1>1. log \in Seq(Event) /\ Len(log) \in Nat /\ Len(log) < MaxSequence
  BY DEF TypeInv, TypeOK, ForeignCommit
<1>2. /\ log' = Append(log, [command |-> Foreign, part |-> 1, workspace |-> w, readable |-> r])
      /\ UNCHANGED <<pc, lastPublishedSequence>>
  BY DEF ForeignCommit, worker, model
<1>3. /\ Len(log') = Len(log) + 1 /\ DOMAIN log = 1 .. Len(log) /\ DOMAIN log' = 1 .. (Len(log) + 1)
      /\ \A i \in 1 .. Len(log) : log'[i] = log[i]
      /\ log'[Len(log) + 1].readable = r
  BY <1>1, <1>2
<1>4. Up' = Up
  BY <1>2 DEF Up
<1>5. CASE r
  <2>1. Unreadable' = Unreadable
    <3>1. ASSUME NEW n \in 1 .. Len(log) PROVE n \in 1 .. (Len(log) + 1) /\ log'[n] = log[n]
      BY <1>1, <1>3
    <3>2. ASSUME NEW n \in 1 .. (Len(log) + 1), n \notin 1 .. Len(log) PROVE log'[n].readable
      <4>1. n = Len(log) + 1
        BY <1>1, <3>2
      <4> QED
        BY <1>3, <1>5, <4>1
    <3> QED
      BY <1>3, <3>1, <3>2 DEF Unreadable
  <2>2. Bus!Commit(1)
    BY <1>1, <1>2, <1>3, <1>4, <2>1, EngineAssumption
       DEF Bus!Commit, Bus!subscriptionVars, subscriptionVars, Unreadable
  <2>3. 1 \in 1 .. MaxSequence
    BY <1>1, EngineAssumption
  <2> QED
    BY <2>2, <2>3 DEF Bus!Next
<1>6. CASE ~r
  <2>1. Unreadable' = Unreadable \cup {Len(log) + 1}
    BY <1>1, <1>3, <1>6 DEF Unreadable
  <2>2. Bus!CommitUnreadable
    BY <1>1, <1>2, <1>3, <1>4, <2>1
       DEF Bus!CommitUnreadable, Bus!subscriptionVars, subscriptionVars, Unreadable
  <2> QED
    BY <2>2 DEF Bus!Next
<1> QED
  BY <1>5, <1>6

(* A publication of the worker is of committed events it has decoded, or of  *)
(* nothing new.                                                              *)
LEMMA WorkerPublishes ==
  ASSUME SysInv, PublishToBus
  PROVE  [Bus!Next]_(Bus!vars)
<1>1. Bus!Publish(batch.from, batch.through) /\ pc \in {"publish", "republish"}
  BY DEF PublishToBus, Publish, Republish
<1>2. /\ batch.from \in Nat /\ batch.through \in Nat /\ Len(log) \in Nat
      /\ lastPublishedSequence \in Nat /\ log \in Seq(Event)
  BY DEF SysInv, EngineInv, TypeInv, TypeOK
<1>3. batch.from <= batch.through /\ batch.through <= Len(log)
  BY <1>1 DEF SysInv, EngineInv, ModelInv, BatchInv
<1>4. CASE batch.from < batch.through
  <2>1. batch.from \in 0 .. Len(log) /\ batch.through \in 1 .. Len(log)
    BY <1>2, <1>3, <1>4
  <2>2. \A n \in (batch.from + 1) .. batch.through : log[n].readable
    BY <1>1 DEF SysInv, BatchReadable
  <2>3. (batch.from + 1) .. batch.through \cap {n \in DOMAIN log : ~log[n].readable} = {}
    BY <2>2
  <2>4. Bus!PublishCommitted
    BY <1>1, <1>4, <2>1, <2>3 DEF Bus!PublishCommitted
  <2> QED
    BY <2>4 DEF Bus!Next
<1>5. CASE ~(batch.from < batch.through)
  <2> DEFINE low == Bus!Larger(batch.from, lastPublishedSequence)
  <2>1. low \in Nat /\ low >= batch.through
    BY <1>2, <1>3, <1>5 DEF Bus!Larger
  <2>2. 1 .. (batch.through - low) = {}
    BY <1>2, <2>1
  <2>3. Bus!Unpublished(batch.from, batch.through) = [i \in {} |-> low + i]
    BY <2>2 DEF Bus!Unpublished, Bus!Interval
  <2>4. Bus!Unpublished(batch.from, batch.through) = <<>>
    BY <2>3
  <2> QED
    BY <1>1, <2>4 DEF Bus!Publish, Bus!vars, Bus!subscriptionVars
<1> QED
  BY <1>4, <1>5

LEMMA WorkerStepsBus ==
  ASSUME SysInv, WorkerAlone
  PROVE  [Bus!Next]_(Bus!vars)
<1>1. TypeInv /\ UNCHANGED subscriptionVars /\ pc \notin {"publish", "republish"}
  BY DEF SysInv, EngineInv, WorkerAlone
<1>2. CASE Commit \/ CommitUnacknowledged
  <2>1. MayCommit /\ Transact /\ lastPublishedSequence' = lastPublishedSequence
    BY <1>2 DEF Commit, CommitUnacknowledged, Fail, model
  <2>2. Up' <=> Up
    BY <1>2 DEF Commit, CommitUnacknowledged, MayCommit, Fail, Up
  <2> QED
    BY <1>1, <2>1, <2>2, TransactionCommits
<1>3. CASE ~(Commit \/ CommitUnacknowledged)
  <2>1. log' = log /\ lastPublishedSequence' = lastPublishedSequence
    BY <1>1, <1>3 DEF WorkerAlone, WorkerStep, Take, AnswerFromReceipt, LookupMisses, LookupFails,
       Refuse, Rollback, Prepare, Install, Publish, Republish, ReconcileNothing, ReconcileModel,
       ReconcileFails, Settle, Fail, durable, model
  <2>2. pc \notin {"down", "booting"} /\ pc' \notin {"down", "booting"}
    BY <1>1, <1>3 DEF WorkerAlone, WorkerStep, Take, AnswerFromReceipt, LookupMisses, LookupFails,
       Refuse, Rollback, Prepare, Install, Publish, Republish, ReconcileNothing, ReconcileModel,
       ReconcileFails, Settle, Fail, Answered
  <2> QED
    BY <1>1, <2>1, <2>2, BusRests DEF Up
<1> QED
  BY <1>2, <1>3

LEMMA SysStepsBus ==
  ASSUME SysInv, [SysNext]_sysVars
  PROVE  [Bus!Next]_(Bus!vars)
<1>1. CASE PublishToBus
  BY <1>1, WorkerPublishes
<1>2. CASE WorkerAlone
  BY <1>2, WorkerStepsBus
<1>3. CASE SysBoot
  <2>1. CASE BootReady /\ Bus!Boot
    BY <2>1 DEF Bus!Next
  <2>2. CASE BootLoad /\ UNCHANGED subscriptionVars
    <3>1. UNCHANGED <<log, lastPublishedSequence>> /\ ~Up /\ ~Up'
      BY <2>2 DEF BootLoad, durable, Up
    <3> QED
      BY <2>2, <3>1, BusRests
  <2> QED
    BY <1>3, <2>1, <2>2 DEF SysBoot
<1>4. CASE SysCrash
  BY <1>4 DEF SysCrash, Bus!Next
<1>5. CASE Environment
  <2>1. UNCHANGED subscriptionVars /\ TypeInv
    BY <1>5 DEF Environment, SysInv, EngineInv
  <2>2. ASSUME NEW k \in Callers, NEW c \in Commands, Dispatch(k, c) PROVE UNCHANGED Bus!vars
    BY <2>1, <2>2, BusRests DEF Dispatch, durable, worker, model, Up
  <2>3. ASSUME NEW w \in BOOLEAN, NEW r \in BOOLEAN, ForeignCommit(w, r) PROVE Bus!Next
    BY <2>1, <2>3, ForeignCommits
  <2>4. CASE CaptureWorkspace
    BY <2>1, <2>4, BusRests DEF CaptureWorkspace, durable, worker, model, Up
  <2> QED
    BY <1>5, <2>2, <2>3, <2>4 DEF Environment
<1>6. ASSUME NEW s \in Subscribers, Consume(s) PROVE Bus!Next
  BY <1>6 DEF Consume, Bus!Next
<1>7. ASSUME NEW s \in Subscribers, Subscribe(s) PROVE Bus!Next
  BY <1>7 DEF Subscribe, Bus!Next
<1>8. CASE UNCHANGED sysVars
  BY <1>8, BusRests DEF sysVars, vars, durable, worker, model, Up
<1> QED
  BY <1>1, <1>2, <1>3, <1>4, <1>5, <1>6, <1>7, <1>8, Zenon DEF SysNext

(* Beside a bus whose window slides and consumers that stop pulling, the     *)
(* worker's invariant still holds: nothing of the bus is read by it.         *)
THEOREM SystemInvariant == WorkerSpec => []SysInv
<1> QED
  BY SysInitInv, SysInvStep, PTL DEF WorkerSpec

(* The worker uses the bus as the bus expects.                               *)
THEOREM EngineUsesBus == WorkerSpec => EngineStepsBus
<1>1. SysInit => Bus!Init
  BY DEF SysInit
<1>2. SysInv /\ [SysNext]_sysVars => [Bus!Next]_(Bus!vars)
  BY SysStepsBus
<1> QED
  BY <1>1, <1>2, SystemInvariant, PTL DEF WorkerSpec, EngineStepsBus

(* So what is proved of the bus for any publisher holds of this one.         *)
BusProofs == INSTANCE DomainEventBusProofs WITH
  head <- Len(log),
  unreadable <- {n \in DOMAIN log : ~log[n].readable},
  running <- Up

(* The two instances of the bus are the same bus.                            *)
LEMMA SameBus ==
  ASSUME [Bus!Next]_(Bus!vars)
  PROVE  [BusProofs!Next]_(BusProofs!vars)
<1>1. \A count \in 1 .. MaxSequence : Bus!Commit(count) <=> BusProofs!Commit(count)
  BY DEF Bus!Commit, BusProofs!Commit, Bus!subscriptionVars, BusProofs!subscriptionVars
<1>2. Bus!CommitUnreadable <=> BusProofs!CommitUnreadable
  BY DEF Bus!CommitUnreadable, BusProofs!CommitUnreadable, Bus!subscriptionVars,
     BusProofs!subscriptionVars
<1>3. Bus!PublishCommitted <=> BusProofs!PublishCommitted
  BY DEF Bus!PublishCommitted, BusProofs!PublishCommitted, Bus!Publish, BusProofs!Publish,
     Bus!Unpublished, BusProofs!Unpublished, Bus!Interval, BusProofs!Interval, Bus!Larger,
     BusProofs!Larger, Bus!Slide, BusProofs!Slide, Bus!Live, BusProofs!Live
<1>4. Bus!Stop <=> BusProofs!Stop
  BY DEF Bus!Stop, BusProofs!Stop, Bus!NoGap, BusProofs!NoGap
<1>5. Bus!Boot <=> BusProofs!Boot
  BY DEF Bus!Boot, BusProofs!Boot, Bus!subscriptionVars, BusProofs!subscriptionVars
<1>6. \A s \in Subscribers : Bus!Subscribe(s) <=> BusProofs!Subscribe(s)
  BY DEF Bus!Subscribe, BusProofs!Subscribe, Bus!Live, BusProofs!Live, Bus!NoGap, BusProofs!NoGap
<1>7. \A s \in Subscribers : Bus!Unsubscribe(s) <=> BusProofs!Unsubscribe(s)
  BY DEF Bus!Unsubscribe, BusProofs!Unsubscribe, Bus!Live, BusProofs!Live, Bus!NoGap,
     BusProofs!NoGap
<1>8. \A s \in Subscribers : Bus!Pull(s) <=> BusProofs!Pull(s)
  BY DEF Bus!Pull, BusProofs!Pull, Bus!Live, BusProofs!Live, Bus!NoGap, BusProofs!NoGap
<1>9. \A s \in Subscribers : Bus!Keep(s) <=> BusProofs!Keep(s)
  BY DEF Bus!Keep, BusProofs!Keep, Bus!AtItem, BusProofs!AtItem, Bus!Live, BusProofs!Live,
     Bus!NoGap, BusProofs!NoGap, Bus!Larger, BusProofs!Larger
<1>10. \A s \in Subscribers : Bus!OpenGap(s) <=> BusProofs!OpenGap(s)
  BY DEF Bus!OpenGap, BusProofs!OpenGap, Bus!AtItem, BusProofs!AtItem, Bus!Live, BusProofs!Live,
     Bus!NoGap, BusProofs!NoGap
<1>11. \A s \in Subscribers : Bus!ReadGapPage(s) <=> BusProofs!ReadGapPage(s)
  BY DEF Bus!ReadGapPage, BusProofs!ReadGapPage, Bus!ReadingGap, BusProofs!ReadingGap,
     Bus!PageEnd, BusProofs!PageEnd, Bus!Smaller, BusProofs!Smaller, Bus!Interval,
     BusProofs!Interval, Bus!Live, BusProofs!Live, Bus!NoGap, BusProofs!NoGap
<1>12. \A s \in Subscribers : Bus!DieInGap(s) <=> BusProofs!DieInGap(s)
  BY DEF Bus!DieInGap, BusProofs!DieInGap, Bus!ReadingGap, BusProofs!ReadingGap, Bus!PageEnd,
     BusProofs!PageEnd, Bus!Smaller, BusProofs!Smaller, Bus!Live, BusProofs!Live, Bus!NoGap,
     BusProofs!NoGap
<1>13. \A s \in Subscribers : Bus!CloseGap(s) <=> BusProofs!CloseGap(s)
  BY DEF Bus!CloseGap, BusProofs!CloseGap, Bus!Live, BusProofs!Live, Bus!NoGap, BusProofs!NoGap,
     Bus!Larger, BusProofs!Larger
<1>14. \A s \in Subscribers : Bus!Advance(s) <=> BusProofs!Advance(s)
  BY <1>8, <1>9, <1>10, <1>11, <1>12, <1>13 DEF Bus!Advance, BusProofs!Advance
<1>15. Bus!Next <=> BusProofs!Next
  BY <1>1, <1>2, <1>3, <1>4, <1>5, <1>6, <1>7, <1>14, Zenon DEF Bus!Next, BusProofs!Next
<1>16. Bus!vars = BusProofs!vars /\ Bus!vars' = BusProofs!vars'
  BY DEF Bus!vars, BusProofs!vars, Bus!subscriptionVars, BusProofs!subscriptionVars
<1> QED
  BY <1>15, <1>16

LEMMA SystemStartsBus ==
  ASSUME SysInit
  PROVE  BusProofs!IndInv
<1>1. BusProofs!Init
  BY DEF SysInit, Bus!Init, BusProofs!Init, Bus!NoGap, BusProofs!NoGap
<1> QED
  BY <1>1, BusProofs!InitInv, EngineAssumption, SystemAssumption DEF BusProofs!BusAssumption

LEMMA SystemKeepsBus ==
  ASSUME SysInv, BusProofs!IndInv, [SysNext]_sysVars
  PROVE  BusProofs!IndInv'
<1>1. [BusProofs!Next]_(BusProofs!vars)
  BY SysStepsBus, SameBus
<1> QED
  BY <1>1, BusProofs!NextInv, EngineAssumption, SystemAssumption DEF BusProofs!BusAssumption

(* A subscription of the engine's own bus is given the events after its      *)
(* start, once each and in order, whatever the worker commits, fails to      *)
(* commit, reconciles or publishes twice.                                    *)
THEOREM EngineDeliversExactly == WorkerSpec => []Bus!DeliveredExactly
<1>1. BusProofs!IndInv => Bus!DeliveredExactly
  <2>1. BusProofs!IndInv => BusProofs!DeliveredExactly
    BY BusProofs!IndInvImplies, EngineAssumption, SystemAssumption DEF BusProofs!BusAssumption
  <2> QED
    BY <2>1 DEF Bus!DeliveredExactly, BusProofs!DeliveredExactly, Bus!Interval, BusProofs!Interval
<1>2. SysInit => BusProofs!IndInv
  BY SystemStartsBus
<1>3. SysInv /\ BusProofs!IndInv /\ [SysNext]_sysVars => BusProofs!IndInv'
  BY SystemKeepsBus
<1> QED
  BY <1>1, <1>2, <1>3, SystemInvariant, PTL DEF WorkerSpec

(* And none that the worker published is lost to it.                         *)
THEOREM EngineLosesNothing == WorkerSpec => []Bus!NothingLost
<1>1. BusProofs!IndInv => Bus!NothingLost
  <2>1. BusProofs!IndInv => BusProofs!NothingLost
    BY BusProofs!IndInvImplies, EngineAssumption, SystemAssumption DEF BusProofs!BusAssumption
  <2> QED
    BY <2>1 DEF Bus!NothingLost, BusProofs!NothingLost, Bus!OnItsWay, BusProofs!OnItsWay,
       Bus!Live, BusProofs!Live
<1>2. SysInit => BusProofs!IndInv
  BY SystemStartsBus
<1>3. SysInv /\ BusProofs!IndInv /\ [SysNext]_sysVars => BusProofs!IndInv'
  BY SystemKeepsBus
<1> QED
  BY <1>1, <1>2, <1>3, SystemInvariant, PTL DEF WorkerSpec

-----------------------------------------------------------------------------
(* Callers and consumers                                                    *)

(* Beside the bus too, the engine keeps the promise of dispatch.             *)
THEOREM SystemImplementsService == WorkerSpec => ServiceSpec
<1>1. SysInit => Service!Init /\ CallersInv
  BY DEF SysInit, Init, Service!Init, EventsOf, NoReceipt, CallersInv, Busy
<1>2. SysInv /\ CallersInv /\ [SysNext]_sysVars =>
        CallersInv' /\ [Service!Next]_(Service!vars)
  BY SysStepsEngine, CallersStep, EngineStepsService DEF SysInv, EngineInv
<1> QED
  BY <1>1, <1>2, SystemInvariant, PTL DEF WorkerSpec, ServiceSpec, Service!Spec

(* The events of a command lie side by side in the store, its parts in       *)
(* order.                                                                    *)
InOnePiece ==
  \A c \in Commands : \A m, n \in EventsOf(c) :
    m < n => \A x \in m .. n : x \in EventsOf(c) /\ log[x].part = log[m].part + (x - m)

LEMMA InOnePieceStep ==
  ASSUME TypeInv, ReceiptInv, InOnePiece, [Next]_vars
  PROVE  InOnePiece'
<1>t. log \in Seq(Event)
  BY DEF TypeInv, TypeOK
<1>1. CASE UNCHANGED log
  BY <1>1 DEF InOnePiece, EventsOf
<1>2. CASE MayCommit /\ Transact
  <2> PICK own \in Commands : own = envelope.command
    BY <1>2 DEF MayCommit, TypeInv, EnvelopeInv, Busy, Envelope
  <2> PICK L \in Nat : L = Len(log)
    BY <1>t
  <2> PICK k \in Nat : k = prepared.count
    BY EngineAssumption DEF TypeInv, TypeOK
  <2>1. /\ EventsOf(own)' = (L + 1) .. (L + k)
        /\ \A n \in (L + 1) .. (L + k) : log'[n].part = n - L
        /\ \A d \in Commands : d # own =>
             EventsOf(d)' = EventsOf(d) /\ \A n \in EventsOf(d) : log'[n] = log[n]
    BY <1>2, TransactionEvents
  <2> SUFFICES ASSUME NEW c \in Commands, NEW m \in EventsOf(c)', NEW n \in EventsOf(c)', m < n,
                      NEW x \in m .. n
               PROVE  x \in EventsOf(c)' /\ log'[x].part = log'[m].part + (x - m)
    BY DEF InOnePiece
  <2>3. CASE c = own
    <3>1. m \in (L + 1) .. (L + k) /\ n \in (L + 1) .. (L + k)
      BY <2>1, <2>3
    <3>2. x \in (L + 1) .. (L + k)
      BY <3>1
    <3>3. log'[x].part = x - L /\ log'[m].part = m - L
      BY <2>1, <3>1, <3>2
    <3>4. x - L = (m - L) + (x - m)
      BY <3>1, <3>2
    <3> QED
      BY <2>1, <2>3, <3>2, <3>3, <3>4
  <2>4. CASE c # own
    <3>1. EventsOf(c)' = EventsOf(c) /\ \A i \in EventsOf(c) : log'[i] = log[i]
      BY <2>1, <2>4
    <3>2. x \in EventsOf(c) /\ log[x].part = log[m].part + (x - m)
      BY <3>1 DEF InOnePiece
    <3> QED
      BY <3>1, <3>2
  <2> QED
    BY <2>3, <2>4
<1>3. ASSUME NEW w \in BOOLEAN, NEW r \in BOOLEAN, ForeignCommit(w, r)
      PROVE  InOnePiece'
  <2>1. \A c \in Commands : EventsOf(c)' = EventsOf(c) /\ \A n \in EventsOf(c) : log'[n] = log[n]
    BY <1>3, ForeignEvents
  <2> QED
    BY <2>1 DEF InOnePiece
<1>4. CASE Commit \/ CommitUnacknowledged
  BY <1>2, <1>4 DEF Commit, CommitUnacknowledged
<1>5. ASSUME WorkerStep, ~Commit, ~CommitUnacknowledged PROVE UNCHANGED log
  BY <1>5 DEF WorkerStep, Take, AnswerFromReceipt, LookupMisses, LookupFails, Refuse, Rollback,
     Prepare, Install, Publish, ReconcileNothing, ReconcileModel, ReconcileFails, Republish,
     Settle, durable
<1>6. CASE Boot \/ Crash \/ CaptureWorkspace \/ UNCHANGED vars
  BY <1>1, <1>6 DEF Boot, BootLoad, BootReady, Crash, CaptureWorkspace, vars, durable
<1>7. ASSUME NEW k \in Callers, NEW c \in Commands, Dispatch(k, c) PROVE UNCHANGED log
  BY <1>7 DEF Dispatch, durable
<1> QED
  BY <1>1, <1>3, <1>4, <1>5, <1>6, <1>7 DEF Next

(* A consumer is given what a command did once and in one piece: the         *)
(* transaction, the receipt and the bus's order and gap reads together.      *)
THEOREM ConsumersSeeCommandsOnce == WorkerSpec => []CommandsArriveWhole
<1>1. SysInit => InOnePiece /\ BusProofs!IndInv
  <2>1. SysInit => \A c \in Commands : EventsOf(c) = {}
    BY DEF SysInit, Init, EventsOf
  <2> QED
    BY <2>1, SystemStartsBus DEF InOnePiece
<1>2. SysInv /\ InOnePiece /\ BusProofs!IndInv /\ [SysNext]_sysVars =>
        InOnePiece' /\ BusProofs!IndInv'
  BY SysStepsEngine, InOnePieceStep, SystemKeepsBus DEF SysInv, EngineInv
<1>3. SysInv /\ InOnePiece /\ BusProofs!IndInv => CommandsArriveWhole
  <2> SUFFICES ASSUME SysInv, InOnePiece, BusProofs!IndInv, NEW s \in Subscribers,
                      NEW i \in DOMAIN delivered[s], NEW j \in DOMAIN delivered[s], i < j,
                      log[delivered[s][i]].command = log[delivered[s][j]].command,
                      log[delivered[s][i]].command # Foreign,
                      NEW x \in i .. j
               PROVE  /\ log[delivered[s][x]].command = log[delivered[s][i]].command
                      /\ log[delivered[s][x]].part = log[delivered[s][i]].part + (x - i)
    BY DEF CommandsArriveWhole
  <2>1. BusProofs!DeliveredExactly /\ BusProofs!NothingAhead
    BY BusProofs!IndInvImplies, EngineAssumption, SystemAssumption DEF BusProofs!BusAssumption
  <2>2. /\ start[s] \in Nat /\ cursor[s] \in Nat /\ Len(log) \in Nat
        /\ cursor[s] <= Len(log) /\ log \in Seq(Event)
    <3>1. /\ start[s] \in Nat /\ cursor[s] \in Nat /\ lastPublishedSequence \in Nat
      BY DEF BusProofs!IndInv, BusProofs!TypeOK
    <3>2. cursor[s] <= lastPublishedSequence /\ lastPublishedSequence <= Len(log)
      BY <2>1 DEF BusProofs!NothingAhead
    <3>3. log \in Seq(Event)
      BY DEF SysInv, EngineInv, TypeInv, TypeOK
    <3> QED
      BY <3>1, <3>2, <3>3
  <2>3. delivered[s] = [y \in 1 .. (cursor[s] - start[s]) |-> start[s] + y]
    BY <2>1 DEF BusProofs!DeliveredExactly, BusProofs!Interval
  <2>4. /\ i \in 1 .. (cursor[s] - start[s]) /\ j \in 1 .. (cursor[s] - start[s])
        /\ x \in 1 .. (cursor[s] - start[s])
    BY <2>2, <2>3
  <2>5. delivered[s][i] = start[s] + i /\ delivered[s][j] = start[s] + j
        /\ delivered[s][x] = start[s] + x
    BY <2>3, <2>4
  <2> DEFINE m == start[s] + i
             n == start[s] + j
             c == log[m].command
  <2>6. m \in 1 .. Len(log) /\ n \in 1 .. Len(log) /\ m < n
    BY <2>2, <2>4
  <2>7. c \in Commands
    <3>1. log[m] \in Event /\ c # Foreign
      BY <2>2, <2>5, <2>6
    <3> QED
      BY <3>1 DEF Event
  <2>8. m \in EventsOf(c) /\ n \in EventsOf(c)
    BY <2>2, <2>5, <2>6 DEF EventsOf
  <2>9. start[s] + x \in m .. n /\ (start[s] + x) - m = x - i
    BY <2>2, <2>4
  <2> HIDE DEF m, n
  <2>10. /\ start[s] + x \in EventsOf(c)
         /\ log[start[s] + x].part = log[m].part + ((start[s] + x) - m)
    BY <2>6, <2>7, <2>8, <2>9 DEF InOnePiece
  <2>11. delivered[s][i] = m
    BY <2>5 DEF m
  <2> QED
    BY <2>5, <2>9, <2>10, <2>11 DEF EventsOf
<1> QED
  BY <1>1, <1>2, <1>3, SystemInvariant, PTL DEF WorkerSpec
=============================================================================
