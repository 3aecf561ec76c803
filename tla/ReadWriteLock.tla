----------------------------- MODULE ReadWriteLock -----------------------------
(***************************************************************************)
(* The fair read/write lock of storage/readWriteLock.ts: the storage       *)
(* lifecycle lock that the command worker holds shared for every command   *)
(* and that removals, migrations and cleanups hold alone.                  *)
(*                                                                         *)
(* A fiber's request is one run of withShared or withPermit.  The array of *)
(* waiters is represented by what its order means: for every waiter, the   *)
(* set of fibers that wait ahead of it.                                    *)
(***************************************************************************)
EXTENDS Integers, FiniteSets

CONSTANT Fibers

ASSUME LockAssumption == IsFiniteSet(Fibers)

VARIABLES
  sharedHolders,  \* how many shared grants are out
  exclusiveHeld,  \* the exclusive grant is out
  phase,          \* [Fibers -> Phase]
  mode,           \* [Fibers -> LockMode] of the fiber's last request
  ahead           \* [Fibers -> the waiters ahead of it in the queue]

vars == <<sharedHolders, exclusiveHeld, phase, mode, ahead>>

LockMode == {"shared", "exclusive"}

(* granted: admitted by another fiber's release, its own effect not started. *)
Phase == {"outside", "queued", "granted", "running"}

Queue == {f \in Fibers : phase[f] = "queued"}
Holders(m) == {f \in Fibers : phase[f] \in {"granted", "running"} /\ mode[f] = m}

TypeOK ==
  /\ sharedHolders \in Nat
  /\ exclusiveHeld \in BOOLEAN
  /\ phase \in [Fibers -> Phase]
  /\ mode \in [Fibers -> LockMode]
  /\ ahead \in [Fibers -> SUBSET Fibers]

Init ==
  /\ sharedHolders = 0
  /\ exclusiveHeld = FALSE
  /\ phase = [f \in Fibers |-> "outside"]
  /\ mode = [f \in Fibers |-> "shared"]
  /\ ahead = [f \in Fibers |-> {}]

-----------------------------------------------------------------------------
(* Variant with a fault: an exclusive request ignores shared grants. *)
AdmissibleBesideShared(m, shared, exclusive) == ~exclusive

(* A request of mode m fits beside shared and exclusive grants.             *)
Admissible(m, shared, exclusive) ==
  ~exclusive /\ (m = "exclusive" => shared = 0)

(* The waiters of queue that admit lets in beside those grants: the head,   *)
(* and while the head is shared every shared waiter with none but shared    *)
(* ones ahead of it.                                                        *)
Admitted(queue, shared, exclusive) ==
  {f \in queue :
     /\ Admissible(mode[f], shared, exclusive)
     /\ IF mode[f] = "exclusive"
        THEN ahead[f] \cap queue = {}
        ELSE \A g \in ahead[f] \cap queue : mode[g] = "shared"}

(* admit, with queue waiting and those grants out, run by a fiber whose own *)
(* phase becomes outside.                                                   *)
Admit(fiber, queue, shared, exclusive) ==
  LET admitted == Admitted(queue, shared, exclusive) IN
    /\ phase' = [f \in Fibers |-> IF f = fiber THEN "outside"
                                  ELSE IF f \in admitted THEN "granted" ELSE phase[f]]
    /\ ahead' = [f \in Fibers |->
                   IF f \in queue \ admitted THEN (ahead[f] \cap queue) \ admitted ELSE {}]
    /\ sharedHolders' = shared + Cardinality({f \in admitted : mode[f] = "shared"})
    /\ exclusiveHeld' = (exclusive \/ \E f \in admitted : mode[f] = "exclusive")
    /\ UNCHANGED mode

(* Variants with a fault: a release admits nobody; it counts the wrong mode. *)
ReleaseQuietly(fiber) ==
  /\ phase' = [phase EXCEPT ![fiber] = "outside"]
  /\ sharedHolders' = IF mode[fiber] = "shared" THEN sharedHolders - 1 ELSE sharedHolders
  /\ exclusiveHeld' = (exclusiveHeld /\ mode[fiber] = "shared")
  /\ UNCHANGED <<mode, ahead>>

ReleaseShared(fiber) == Admit(fiber, Queue, sharedHolders - 1, FALSE)

(* Release of a grant of the fiber's mode, then admit.                      *)
Release(fiber) ==
  IF mode[fiber] = "shared"
  THEN Admit(fiber, Queue, sharedHolders - 1, exclusiveHeld)
  ELSE Admit(fiber, Queue, sharedHolders, FALSE)

-----------------------------------------------------------------------------
(* Variant with a fault: the fast path does not look at the queue. *)
RequestBarging(f, m) ==
  /\ phase[f] = "outside"
  /\ Admissible(m, sharedHolders, exclusiveHeld)
  /\ mode' = [mode EXCEPT ![f] = m]
  /\ phase' = [phase EXCEPT ![f] = "running"]
  /\ sharedHolders' = IF m = "shared" THEN sharedHolders + 1 ELSE sharedHolders
  /\ exclusiveHeld' = (exclusiveHeld \/ m = "exclusive")
  /\ UNCHANGED ahead

(* The fast path, only when nobody waits.                                   *)
RequestFast(f, m) ==
  /\ phase[f] = "outside"
  /\ Queue = {}
  /\ Admissible(m, sharedHolders, exclusiveHeld)
  /\ mode' = [mode EXCEPT ![f] = m]
  /\ phase' = [phase EXCEPT ![f] = "running"]
  /\ sharedHolders' = IF m = "shared" THEN sharedHolders + 1 ELSE sharedHolders
  /\ exclusiveHeld' = (exclusiveHeld \/ m = "exclusive")
  /\ UNCHANGED ahead

RequestQueued(f, m) ==
  /\ phase[f] = "outside"
  /\ Queue # {} \/ ~Admissible(m, sharedHolders, exclusiveHeld)
  /\ mode' = [mode EXCEPT ![f] = m]
  /\ phase' = [phase EXCEPT ![f] = "queued"]
  /\ ahead' = [ahead EXCEPT ![f] = Queue]
  /\ UNCHANGED <<sharedHolders, exclusiveHeld>>

(* An admitted waiter's fiber resumes and starts its effect.                *)
Resume(f) ==
  /\ phase[f] = "granted"
  /\ phase' = [phase EXCEPT ![f] = "running"]
  /\ UNCHANGED <<sharedHolders, exclusiveHeld, mode, ahead>>

(* The effect ends: it returns, fails or is interrupted.                    *)
Finish(f) ==
  /\ phase[f] = "running"
  /\ Release(f)

(* abandon, of a waiter interrupted after it was admitted.                  *)
AbandonGrant(f) ==
  /\ phase[f] = "granted"
  /\ Release(f)

(* Variant with a fault: a waiter that leaves the queue wakes nobody. *)
AbandonQueueQuietly(f) ==
  /\ phase[f] = "queued"
  /\ phase' = [phase EXCEPT ![f] = "outside"]
  /\ ahead' = [g \in Fibers |-> IF g = f THEN {} ELSE ahead[g] \ {f}]
  /\ UNCHANGED <<sharedHolders, exclusiveHeld, mode>>

(* abandon, of a waiter interrupted in the queue: it may have been holding  *)
(* back the waiters behind it.                                              *)
AbandonQueue(f) ==
  /\ phase[f] = "queued"
  /\ Admit(f, Queue \ {f}, sharedHolders, exclusiveHeld)

Request(f) == \E m \in LockMode : RequestFast(f, m) \/ RequestQueued(f, m)
Abandon(f) == AbandonGrant(f) \/ AbandonQueue(f)

Next == \E f \in Fibers : Request(f) \/ Resume(f) \/ Finish(f) \/ Abandon(f)

(* Every admitted fiber runs, and what it does with the lock ends.          *)
Fairness == \A f \in Fibers : WF_vars(Resume(f)) /\ WF_vars(Finish(f))

Spec == Init /\ [][Next]_vars /\ Fairness
-----------------------------------------------------------------------------
(* An exclusive grant is the only grant out, however waiters are            *)
(* interrupted, and the lock's counters are the grants that are out: an     *)
(* interrupted waiter neither leaks nor returns one twice.                  *)
Exclusion ==
  /\ sharedHolders = Cardinality(Holders("shared"))
  /\ exclusiveHeld <=> Holders("exclusive") # {}
  /\ \A f, g \in Holders("exclusive") : f = g
  /\ exclusiveHeld => Holders("shared") = {}

(* No wake-up is lost: the waiter at the head of the queue does not fit     *)
(* beside the grants that are out.  Nobody needs to act for it but a holder.*)
NoWakeUpLost ==
  \A f \in Queue : ahead[f] = {} => ~Admissible(mode[f], sharedHolders, exclusiveHeld)

(* First come, first served: a fiber gets the lock only when every waiter   *)
(* that was ahead of it got it or left, and a newcomer only when nobody     *)
(* waited.  So neither mode starves the other.                              *)
NoOvertaking ==
  [][\A f \in Fibers :
       (phase[f] \in {"outside", "queued"} /\ phase'[f] \in {"granted", "running"}) =>
          \A g \in (IF f \in Queue THEN ahead[f] ELSE Queue) : phase'[g] # "queued"]_vars

(* Every waiter gets the lock or gives up.                                  *)
EveryWaiterIsAdmitted == \A f \in Fibers : f \in Queue ~> f \notin Queue
=============================================================================
