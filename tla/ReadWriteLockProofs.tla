-------------------------- MODULE ReadWriteLockProofs --------------------------
(***************************************************************************)
(* Proofs about ReadWriteLock: exclusion, first come first served, and no  *)
(* lost wake-up, for any finite set of fibers.                             *)
(***************************************************************************)
EXTENDS ReadWriteLock, FiniteSetTheorems, TLAPS

(* The sets of waiters ahead describe one queue: nobody waits on a fiber    *)
(* that does not wait, and of two waiters one is ahead of the other.        *)
OneQueue ==
  \A f \in Fibers :
    /\ ahead[f] \subseteq Queue \ {f}
    /\ f \notin Queue => ahead[f] = {}
    /\ f \in Queue => \A g \in Queue \ {f} : f \in ahead[g] <=> g \notin ahead[f]
    /\ \A g \in ahead[f] : ahead[g] \subseteq ahead[f]

(* The invariants of the runs are inductive together with it. *)
IndInv == TypeOK /\ Exclusion /\ NoWakeUpLost /\ OneQueue

(* Sets of fibers are finite, and their sizes count. *)
LEMMA FiberSets ==
  ASSUME NEW S \in SUBSET Fibers
  PROVE  /\ IsFiniteSet(S)
         /\ Cardinality(S) \in Nat
         /\ Cardinality(S) = 0 <=> S = {}
<1>1. IsFiniteSet(S)
  BY LockAssumption, FS_Subset
<1> QED
  BY <1>1, FS_CardinalityType, FS_EmptySet

(* The sizes of disjoint sets of fibers add up. *)
LEMMA DisjointSizes ==
  ASSUME NEW S \in SUBSET Fibers, NEW T \in SUBSET Fibers, S \cap T = {}
  PROVE  Cardinality(S \cup T) = Cardinality(S) + Cardinality(T)
<1>1. /\ IsFiniteSet(S) /\ IsFiniteSet(T)
      /\ Cardinality(S) \in Nat /\ Cardinality(T) \in Nat
  BY FiberSets
<1>2. Cardinality({}) = 0
  BY FS_EmptySet
<1>3. Cardinality(S \cup T) = Cardinality(S) + Cardinality(T) - Cardinality(S \cap T)
  BY <1>1, FS_Union
<1>4. Cardinality(S \cap T) = 0
  BY <1>2
<1> QED
  BY <1>1, <1>3, <1>4

(* Adding and removing a fiber moves a size by one. *)
LEMMA OneFiber ==
  ASSUME NEW S \in SUBSET Fibers, NEW f \in Fibers
  PROVE  /\ f \notin S => Cardinality(S \cup {f}) = Cardinality(S) + 1
         /\ f \in S => Cardinality(S \ {f}) = Cardinality(S) - 1
<1>1. IsFiniteSet(S)
  BY FiberSets
<1> QED
  BY <1>1, FS_AddElement, FS_RemoveElement

(* admit in general: the fiber is out, the queue and the grants are those   *)
(* of the others, and the lock is in order again.                           *)
LEMMA AdmitInv ==
  ASSUME IndInv, NEW fiber \in Fibers, NEW shared \in Nat, NEW exclusive \in BOOLEAN,
         Admit(fiber, Queue \ {fiber}, shared, exclusive),
         shared = Cardinality(Holders("shared") \ {fiber}),
         exclusive <=> Holders("exclusive") \ {fiber} # {}
  PROVE  IndInv'
<1> DEFINE queue == Queue \ {fiber}
           admitted == Admitted(queue, shared, exclusive)
           admittedIn(m) == {f \in admitted : mode[f] = m}
<1>1. /\ queue \subseteq Fibers /\ admitted \subseteq queue
      /\ mode \in [Fibers -> LockMode] /\ ahead \in [Fibers -> SUBSET Fibers]
      /\ phase \in [Fibers -> Phase]
  BY DEF IndInv, TypeOK, Queue, Admitted
<1>2. /\ mode' = mode
      /\ \A f \in Fibers : phase'[f] = IF f = fiber THEN "outside"
                                       ELSE IF f \in admitted THEN "granted" ELSE phase[f]
      /\ \A f \in Fibers : ahead'[f] = IF f \in queue \ admitted
                                       THEN (ahead[f] \cap queue) \ admitted ELSE {}
      /\ sharedHolders' = shared + Cardinality(admittedIn("shared"))
      /\ exclusiveHeld' = (exclusive \/ admittedIn("exclusive") # {})
  BY DEF Admit
<1>3. /\ DOMAIN phase' = Fibers /\ DOMAIN ahead' = Fibers
      /\ phase' = [f \in Fibers |-> phase'[f]] /\ ahead' = [f \in Fibers |-> ahead'[f]]
  BY DEF Admit
<1>4. Queue' = queue \ admitted
  BY <1>1, <1>2 DEF Queue
<1>5. \A m \in LockMode : Holders(m)' = (Holders(m) \ {fiber}) \cup admittedIn(m)
  BY <1>1, <1>2 DEF Holders, Queue, LockMode
<1>15. /\ \A f \in Fibers : ahead[f] \subseteq Queue /\ f \notin ahead[f]
       /\ \A f, g \in Queue : f # g => (f \in ahead[g] <=> g \notin ahead[f])
       /\ \A f \in Fibers : \A g \in ahead[f] : ahead[g] \subseteq ahead[f]
  <2>1. OneQueue /\ Queue \subseteq Fibers
    BY DEF IndInv, Queue
  <2>2. \A f \in Fibers : ahead[f] \subseteq Queue /\ f \notin ahead[f]
    BY <2>1 DEF OneQueue
  <2>3. \A f, g \in Queue : f # g => (f \in ahead[g] <=> g \notin ahead[f])
    BY <2>1 DEF OneQueue
  <2>4. \A f \in Fibers : \A g \in ahead[f] : ahead[g] \subseteq ahead[f]
    BY <2>1 DEF OneQueue
  <2> QED
    BY <2>2, <2>3, <2>4
<1>6. \A f, g \in queue : f = g \/ f \in ahead[g] \/ g \in ahead[f]
  BY <1>15
<1>7. \A f \in admittedIn("exclusive") : ahead[f] \cap queue = {} /\ shared = 0 /\ ~exclusive
  BY DEF Admitted, Admissible
<1>8. \A f \in admittedIn("shared") :
        /\ ~exclusive
        /\ \A g \in ahead[f] \cap queue : mode[g] = "shared"
  BY DEF Admitted, Admissible
<1>9. \A f \in admittedIn("exclusive") : admitted = {f}
  <2> SUFFICES ASSUME NEW f \in admittedIn("exclusive"), NEW g \in admitted, g # f
               PROVE  FALSE
    OBVIOUS
  <2>1. f \in ahead[g] /\ f \in queue
    BY <1>1, <1>6, <1>7
  <2>2. CASE mode[g] = "exclusive"
    BY <2>1, <2>2, <1>7
  <2>3. CASE mode[g] = "shared"
    BY <2>1, <2>3, <1>8
  <2> QED
    BY <2>2, <2>3, <1>1 DEF LockMode
<1>10. Cardinality(admittedIn("shared")) \in Nat
  BY <1>1, FiberSets
<1>11. TypeOK'
  <2>1. phase' \in [Fibers -> Phase]
    BY <1>1, <1>2, <1>3 DEF Phase
  <2>2. ahead' \in [Fibers -> SUBSET Fibers]
    BY <1>1, <1>2, <1>3
  <2>3. sharedHolders' \in Nat
    BY <1>2, <1>10
  <2> QED
    BY <2>1, <2>2, <2>3, <1>1, <1>2 DEF TypeOK
<1>12. Exclusion'
  <2>1. sharedHolders' = Cardinality(Holders("shared"))'
    <3>1. Holders("shared") \ {fiber} \subseteq Fibers /\ admittedIn("shared") \subseteq Fibers
      BY <1>1 DEF Holders
    <3>2. (Holders("shared") \ {fiber}) \cap admittedIn("shared") = {}
      BY <1>1 DEF Holders, Queue
    <3>3. Cardinality((Holders("shared") \ {fiber}) \cup admittedIn("shared"))
            = shared + Cardinality(admittedIn("shared"))
      BY <3>1, <3>2, DisjointSizes
    <3> QED
      BY <3>3, <1>2, <1>5 DEF LockMode
  <2>2. exclusiveHeld' <=> Holders("exclusive")' # {}
    BY <1>2, <1>5 DEF LockMode
  <2>3. \A f, g \in Holders("exclusive")' : f = g
    <3>1. CASE admittedIn("exclusive") = {}
      BY <3>1, <1>5 DEF IndInv, Exclusion, LockMode
    <3>2. CASE admittedIn("exclusive") # {}
      <4>1. ~exclusive /\ \A f, g \in admittedIn("exclusive") : f = g
        BY <3>2, <1>7, <1>9
      <4>2. Holders("exclusive") \ {fiber} = {}
        BY <4>1
      <4> QED
        BY <4>1, <4>2, <1>5 DEF LockMode
    <3> QED
      BY <3>1, <3>2
  <2>4. exclusiveHeld' => Holders("shared")' = {}
    <3>1. CASE exclusive
      <4>1. Holders("exclusive") # {}
        BY <3>1
      <4>2. Holders("shared") = {}
        BY <4>1 DEF IndInv, Exclusion
      <4>3. admittedIn("shared") = {}
        BY <3>1, <1>8
      <4> QED
        BY <4>2, <4>3, <1>5 DEF LockMode
    <3>2. CASE admittedIn("exclusive") # {}
      <4>1. shared = 0 /\ admittedIn("shared") = {}
        BY <3>2, <1>7, <1>9
      <4>2. Holders("shared") \ {fiber} = {}
        <5>1. Holders("shared") \ {fiber} \in SUBSET Fibers
          BY DEF Holders
        <5> QED
          BY <5>1, <4>1, FiberSets
      <4> QED
        BY <4>1, <4>2, <1>5 DEF LockMode
    <3> QED
      BY <3>1, <3>2, <1>2
  <2> QED
    BY <2>1, <2>2, <2>3, <2>4 DEF Exclusion
<1>13. NoWakeUpLost'
  <2> SUFFICES ASSUME NEW f \in queue \ admitted, (ahead[f] \cap queue) \ admitted = {},
                      ~exclusiveHeld', mode[f] = "exclusive" => sharedHolders' = 0
               PROVE  FALSE
    BY <1>1, <1>2, <1>4 DEF NoWakeUpLost, Admissible
  <2>1. ~exclusive /\ admittedIn("exclusive") = {}
    BY <1>2
  <2>2. CASE mode[f] = "shared"
    <3>1. PICK g \in ahead[f] \cap queue : mode[g] # "shared"
      BY <2>1, <2>2 DEF Admitted, Admissible
    <3>2. g \in admittedIn("exclusive")
      BY <3>1, <1>1 DEF LockMode
    <3> QED
      BY <3>2, <2>1
  <2>3. CASE mode[f] = "exclusive"
    <3>1. shared = 0 /\ Cardinality(admittedIn("shared")) = 0
      <4>1. sharedHolders' = shared + Cardinality(admittedIn("shared")) /\ sharedHolders' = 0
        BY <2>3, <1>2
      <4> HIDE DEF admittedIn
      <4> QED
        BY <4>1, <1>10
    <3>2. admittedIn("shared") = {}
      <4>1. admittedIn("shared") \in SUBSET Fibers
        BY <1>1
      <4> QED
        BY <4>1, <3>1, FiberSets
    <3>3. admitted = {}
      BY <3>2, <2>1, <1>1 DEF LockMode
    <3>4. f \in admitted
      BY <3>1, <3>3, <2>1, <2>3 DEF Admitted, Admissible
    <3> QED
      BY <3>3, <3>4
  <2> QED
    BY <2>2, <2>3, <1>1 DEF LockMode
<1>14. OneQueue'
  <2> DEFINE rest == queue \ admitted
  <2>1. /\ rest \subseteq Queue /\ Queue' = rest /\ rest \subseteq Fibers
        /\ \A f \in rest : \A g : g \in ahead'[f] <=> g \in ahead[f] /\ g \in rest
        /\ \A f \in Fibers : f \notin rest => ahead'[f] = {}
    <3>1. rest \subseteq Queue /\ Queue' = rest /\ rest \subseteq Fibers
      BY <1>1, <1>4
    <3>2. \A f \in Fibers : f \notin rest => ahead'[f] = {}
      BY <1>2
    <3>3. \A f \in rest : ahead'[f] = (ahead[f] \cap queue) \ admitted
      BY <3>1, <1>2
    <3>4. ASSUME NEW f \in rest, NEW g
          PROVE  g \in ahead'[f] <=> g \in ahead[f] /\ g \in rest
      BY <3>3
    <3> HIDE DEF rest
    <3> QED
      BY <3>1, <3>2, <3>4
  <2> HIDE DEF rest
  <2>2. ASSUME NEW f \in Fibers
        PROVE  ahead'[f] \subseteq Queue' \ {f}
    BY <2>1, <1>15
  <2>3. ASSUME NEW f \in rest, NEW g \in rest, f # g
        PROVE  f \in ahead'[g] <=> g \notin ahead'[f]
    BY <2>1, <2>3, <1>15
  <2>4. ASSUME NEW f \in Fibers, NEW g \in ahead'[f], NEW h \in ahead'[g]
        PROVE  h \in ahead'[f]
    <3>1. f \in rest /\ g \in rest /\ g \in ahead[f] /\ h \in rest /\ h \in ahead[g]
      BY <2>1, <2>4
    <3>2. h \in ahead[f]
      BY <3>1, <2>1, <1>15
    <3> QED
      BY <3>1, <3>2, <2>1
  <2>5. \A f \in Fibers : f \notin Queue' => ahead'[f] = {}
    BY <2>1
  <2>6. \A f \in Fibers : f \in Queue' =>
          \A g \in Queue' \ {f} : f \in ahead'[g] <=> g \notin ahead'[f]
    BY <2>1, <2>3
  <2>7. \A f \in Fibers : \A g \in ahead'[f] : ahead'[g] \subseteq ahead'[f]
    BY <2>4
  <2> QED
    BY <2>2, <2>5, <2>6, <2>7 DEF OneQueue
<1> QED
  BY <1>11, <1>12, <1>13, <1>14 DEF IndInv

(* A grant that goes back is counted off once. *)
LEMMA ReleaseInv ==
  ASSUME IndInv, NEW f \in Fibers, phase[f] \in {"granted", "running"}, Release(f)
  PROVE  IndInv'
<1>1. Queue = Queue \ {f}
  BY DEF Queue
<1>2. /\ sharedHolders = Cardinality(Holders("shared")) /\ sharedHolders \in Nat
      /\ exclusiveHeld \in BOOLEAN /\ mode[f] \in LockMode
  BY DEF IndInv, TypeOK, Exclusion
<1>3. f \in Holders(mode[f]) /\ \A m \in LockMode : m # mode[f] => f \notin Holders(m)
  BY DEF Holders
<1>4. Holders("shared") \in SUBSET Fibers
  BY DEF Holders
<1>5. CASE mode[f] = "shared"
  <2>1. Cardinality(Holders("shared") \ {f}) = sharedHolders - 1
    BY <1>2, <1>3, <1>4, <1>5, OneFiber
  <2>2. Cardinality(Holders("shared") \ {f}) \in Nat
    BY <1>4, FiberSets
  <2>3. exclusiveHeld <=> Holders("exclusive") \ {f} # {}
    <3>1. f \notin Holders("exclusive")
      BY <1>3, <1>5 DEF LockMode
    <3> QED
      BY <3>1 DEF IndInv, Exclusion
  <2>4. Admit(f, Queue \ {f}, sharedHolders - 1, exclusiveHeld)
    BY <1>1, <1>5 DEF Release
  <2> QED
    BY <2>1, <2>2, <2>3, <2>4, <1>2, AdmitInv
<1>6. CASE mode[f] = "exclusive"
  <2>1. Holders("shared") \ {f} = Holders("shared")
    BY <1>3, <1>6 DEF LockMode
  <2>2. Holders("exclusive") \ {f} = {}
    BY <1>3, <1>6 DEF IndInv, Exclusion
  <2>3. Admit(f, Queue \ {f}, sharedHolders, FALSE)
    BY <1>1, <1>6 DEF Release
  <2> QED
    BY <2>1, <2>2, <2>3, <1>2, AdmitInv
<1> QED
  BY <1>2, <1>5, <1>6 DEF LockMode

(* A waiter that leaves the queue takes no grant with it. *)
LEMMA AbandonQueueInv ==
  ASSUME IndInv, NEW f \in Fibers, AbandonQueue(f)
  PROVE  IndInv'
<1>1. f \notin Holders("shared") /\ f \notin Holders("exclusive")
  BY DEF AbandonQueue, Holders
<1>2. /\ Holders("shared") \ {f} = Holders("shared")
      /\ Holders("exclusive") \ {f} = Holders("exclusive")
  BY <1>1
<1>3. /\ sharedHolders = Cardinality(Holders("shared")) /\ sharedHolders \in Nat
      /\ exclusiveHeld \in BOOLEAN
      /\ exclusiveHeld <=> Holders("exclusive") # {}
  BY DEF IndInv, TypeOK, Exclusion
<1>4. Admit(f, Queue \ {f}, sharedHolders, exclusiveHeld)
  BY DEF AbandonQueue
<1> QED
  BY <1>2, <1>3, <1>4, AdmitInv

(* The fast path runs beside grants it fits beside, with nobody waiting.    *)
LEMMA RequestFastInv ==
  ASSUME IndInv, NEW f \in Fibers, NEW m \in LockMode, RequestFast(f, m)
  PROVE  IndInv'
<1>1. /\ phase \in [Fibers -> Phase] /\ mode \in [Fibers -> LockMode]
      /\ ahead \in [Fibers -> SUBSET Fibers]
      /\ sharedHolders \in Nat /\ exclusiveHeld \in BOOLEAN
  BY DEF IndInv, TypeOK
<1>2. /\ phase' = [phase EXCEPT ![f] = "running"] /\ mode' = [mode EXCEPT ![f] = m]
      /\ ahead' = ahead /\ Queue = {} /\ phase[f] = "outside"
      /\ ~exclusiveHeld /\ (m = "exclusive" => sharedHolders = 0)
  BY DEF RequestFast, Admissible
<1>3. Queue' = {}
  BY <1>1, <1>2 DEF Queue
<1>4. /\ Holders(m)' = Holders(m) \cup {f} /\ f \notin Holders(m)
      /\ \A k \in LockMode \ {m} : Holders(k)' = Holders(k)
  BY <1>1, <1>2 DEF Holders
<1>5. /\ sharedHolders = Cardinality(Holders("shared")) /\ Holders("exclusive") = {}
      /\ Holders("shared") \in SUBSET Fibers
  BY <1>2 DEF IndInv, Exclusion, Holders
<1>6. CASE m = "shared"
  <2>1. sharedHolders' = sharedHolders + 1 /\ exclusiveHeld' = FALSE
    BY <1>1, <1>2, <1>6 DEF RequestFast
  <2>2. Holders("shared")' = Holders("shared") \cup {f} /\ Holders("exclusive")' = {}
    BY <1>4, <1>5, <1>6 DEF LockMode
  <2>3. Cardinality(Holders("shared") \cup {f}) = sharedHolders + 1
    BY <1>4, <1>5, <1>6, OneFiber
  <2>4. Exclusion'
    BY <2>1, <2>2, <2>3 DEF Exclusion
  <2>5. TypeOK'
    <3>1. phase' \in [Fibers -> Phase] /\ mode' \in [Fibers -> LockMode]
      BY <1>1, <1>2 DEF Phase
    <3>2. sharedHolders' \in Nat
      <4>1. sharedHolders' = sharedHolders + 1 /\ sharedHolders \in Nat
        BY <2>1, <1>1
      <4> QED
        BY <4>1
    <3>3. exclusiveHeld' \in BOOLEAN
      BY <2>1
    <3> QED
      BY <3>1, <3>2, <3>3, <1>1, <1>2 DEF TypeOK
  <2> QED
    BY <2>4, <2>5, <1>2, <1>3 DEF IndInv, NoWakeUpLost, OneQueue
<1>7. CASE m = "exclusive"
  <2>1. sharedHolders' = sharedHolders /\ exclusiveHeld' = TRUE /\ sharedHolders = 0
    BY <1>1, <1>2, <1>7 DEF RequestFast
  <2>2. Holders("shared") = {}
    BY <2>1, <1>5, FiberSets
  <2>3. Holders("shared")' = Holders("shared") /\ Holders("exclusive")' = {f}
    BY <1>4, <1>5, <1>7 DEF LockMode
  <2>4. Exclusion'
    BY <2>1, <2>2, <2>3, <1>5 DEF Exclusion
  <2>5. TypeOK'
    BY <2>1, <1>1, <1>2 DEF TypeOK, Phase
  <2> QED
    BY <2>4, <2>5, <1>2, <1>3 DEF IndInv, NoWakeUpLost, OneQueue
<1> QED
  BY <1>6, <1>7 DEF LockMode

(* A request that does not fit, or finds others waiting, joins the queue's  *)
(* end.                                                                     *)
LEMMA RequestQueuedInv ==
  ASSUME IndInv, NEW f \in Fibers, NEW m \in LockMode, RequestQueued(f, m)
  PROVE  IndInv'
<1>1. /\ phase \in [Fibers -> Phase] /\ mode \in [Fibers -> LockMode]
      /\ ahead \in [Fibers -> SUBSET Fibers]
  BY DEF IndInv, TypeOK
<1>2. /\ phase' = [phase EXCEPT ![f] = "queued"] /\ mode' = [mode EXCEPT ![f] = m]
      /\ ahead' = [ahead EXCEPT ![f] = Queue] /\ phase[f] = "outside"
      /\ UNCHANGED <<sharedHolders, exclusiveHeld>>
      /\ Queue # {} \/ ~Admissible(m, sharedHolders, exclusiveHeld)
  BY DEF RequestQueued
<1>3. Queue' = Queue \cup {f} /\ f \notin Queue /\ Queue \subseteq Fibers
  BY <1>1, <1>2 DEF Queue
<1>4. \A k \in LockMode : Holders(k)' = Holders(k)
  BY <1>1, <1>2 DEF Holders
<1>5. TypeOK'
  BY <1>1, <1>2, <1>3 DEF IndInv, TypeOK, Phase
<1>6. Exclusion'
  <2>1. Holders("shared")' = Holders("shared") /\ Holders("exclusive")' = Holders("exclusive")
    BY <1>4 DEF LockMode
  <2> QED
    BY <2>1, <1>2 DEF IndInv, Exclusion
<1>7. NoWakeUpLost'
  <2> SUFFICES ASSUME NEW g \in Queue', ahead'[g] = {}
               PROVE  ~Admissible(mode'[g], sharedHolders, exclusiveHeld)
    BY <1>2 DEF NoWakeUpLost, Admissible
  <2>1. CASE g = f
    BY <2>1, <1>1, <1>2
  <2>2. CASE g # f
    <3>1. g \in Queue /\ g \in Fibers /\ ahead[g] = {} /\ mode'[g] = mode[g]
      BY <2>2, <1>1, <1>2, <1>3
    <3> QED
      BY <3>1 DEF IndInv, NoWakeUpLost
  <2> QED
    BY <2>1, <2>2
<1>8. OneQueue'
  <2>1. OneQueue
    BY DEF IndInv
  <2>2. /\ ahead'[f] = Queue /\ ahead[f] = {}
        /\ \A g \in Fibers \ {f} : ahead'[g] = ahead[g]
    BY <2>1, <1>1, <1>2, <1>3 DEF OneQueue
  <2>3. \A g \in Fibers : ahead[g] \subseteq Queue \ {g} /\ f \notin ahead[g]
    BY <2>1, <1>3 DEF OneQueue
  <2>4. \A g \in Fibers : ahead'[g] \subseteq Queue' \ {g}
    BY <2>2, <2>3, <1>3
  <2>5. \A g \in Fibers : g \notin Queue' => ahead'[g] = {}
    BY <2>1, <2>2, <1>3 DEF OneQueue
  <2>6. ASSUME NEW g \in Queue', NEW h \in Queue' \ {g}
        PROVE  g \in ahead'[h] <=> h \notin ahead'[g]
    <3>1. CASE g = f
      BY <3>1, <2>2, <2>3, <1>3
    <3>2. CASE h = f
      BY <3>2, <2>2, <2>3, <1>3
    <3>3. CASE g # f /\ h # f
      <4>1. g \in Queue /\ h \in Queue \ {g} /\ g \in Fibers /\ h \in Fibers
        BY <3>3, <1>3
      <4>2. g \in ahead[h] <=> h \notin ahead[g]
        BY <4>1, <2>1 DEF OneQueue
      <4> QED
        BY <4>1, <4>2, <3>3, <2>2
    <3> QED
      BY <3>1, <3>2, <3>3
  <2>7. ASSUME NEW g \in Fibers, NEW h \in ahead'[g]
        PROVE  ahead'[h] \subseteq ahead'[g]
    <3>1. h \in Queue /\ h # f /\ h \in Fibers
      BY <2>2, <2>3, <1>3
    <3>2. ahead'[h] = ahead[h] /\ ahead[h] \subseteq Queue
      BY <3>1, <2>2, <2>3
    <3>3. CASE g = f
      BY <3>2, <3>3, <2>2
    <3>4. CASE g # f
      <4>1. h \in ahead[g] /\ ahead'[g] = ahead[g]
        BY <3>4, <2>2
      <4>2. ahead[h] \subseteq ahead[g]
        BY <4>1, <2>1 DEF OneQueue
      <4> QED
        BY <3>2, <4>1, <4>2
    <3> QED
      BY <3>3, <3>4
  <2> QED
    BY <2>4, <2>5, <2>6, <2>7, <1>3 DEF OneQueue
<1> QED
  BY <1>5, <1>6, <1>7, <1>8 DEF IndInv

(* A fiber that starts its effect keeps the grant it was given.             *)
LEMMA ResumeInv ==
  ASSUME IndInv, NEW f \in Fibers, Resume(f)
  PROVE  IndInv'
<1>1. /\ phase \in [Fibers -> Phase] /\ phase' = [phase EXCEPT ![f] = "running"]
      /\ phase[f] = "granted" /\ UNCHANGED <<sharedHolders, exclusiveHeld, mode, ahead>>
  BY DEF Resume, IndInv, TypeOK
<1>2. Queue' = Queue
  BY <1>1 DEF Queue
<1>3. Holders("shared")' = Holders("shared") /\ Holders("exclusive")' = Holders("exclusive")
  BY <1>1 DEF Holders
<1>4. TypeOK'
  BY <1>1 DEF IndInv, TypeOK, Phase
<1>5. Exclusion'
  BY <1>1, <1>3 DEF IndInv, Exclusion
<1>6. NoWakeUpLost' /\ OneQueue'
  BY <1>1, <1>2 DEF IndInv, NoWakeUpLost, OneQueue, Admissible
<1> QED
  BY <1>4, <1>5, <1>6 DEF IndInv

(* Every step of the lock preserves the inductive invariant.                *)
LEMMA NextInv == IndInv /\ [Next]_vars => IndInv'
<1> SUFFICES ASSUME IndInv, [Next]_vars
             PROVE  IndInv'
  OBVIOUS
<1>1. ASSUME NEW f \in Fibers, Request(f)
      PROVE  IndInv'
  BY <1>1, RequestFastInv, RequestQueuedInv DEF Request
<1>2. ASSUME NEW f \in Fibers, Resume(f)
      PROVE  IndInv'
  BY <1>2, ResumeInv
<1>3. ASSUME NEW f \in Fibers, Finish(f)
      PROVE  IndInv'
  BY <1>3, ReleaseInv DEF Finish
<1>4. ASSUME NEW f \in Fibers, Abandon(f)
      PROVE  IndInv'
  BY <1>4, ReleaseInv, AbandonQueueInv DEF Abandon, AbandonGrant
<1>5. CASE UNCHANGED vars
  BY <1>5 DEF vars, IndInv, TypeOK, Exclusion, NoWakeUpLost, OneQueue, Queue, Holders,
              Admissible
<1> QED
  BY <1>1, <1>2, <1>3, <1>4, <1>5 DEF Next

(* A lock nobody has asked for.                                             *)
LEMMA InitInv == Init => IndInv
<1> SUFFICES ASSUME Init
             PROVE  IndInv
  OBVIOUS
<1>1. Queue = {} /\ Holders("shared") = {} /\ Holders("exclusive") = {}
  BY DEF Init, Queue, Holders
<1>2. TypeOK
  BY DEF Init, TypeOK, Phase, LockMode
<1>3. Exclusion
  BY <1>1, FS_EmptySet DEF Init, Exclusion
<1> QED
  BY <1>1, <1>2, <1>3 DEF Init, IndInv, NoWakeUpLost, OneQueue

-----------------------------------------------------------------------------
(* The inductive invariant holds of every state of the lock.                *)
THEOREM LockInvariant == Spec => []IndInv
<1>1. Init => IndInv
  BY InitInv
<1>2. IndInv /\ [Next]_vars => IndInv'
  BY NextInv
<1> QED
  BY <1>1, <1>2, PTL DEF Spec

(* The counters keep their types: in particular no release leaves a negative *)
(* number of shared holders.                                                 *)
THEOREM LockTypes == Spec => []TypeOK
<1>1. IndInv => TypeOK
  BY DEF IndInv
<1> QED
  BY <1>1, LockInvariant, PTL

(* withPermit runs alone and every grant is counted once, whoever waits and *)
(* whoever is interrupted, for any number of fibers.                        *)
THEOREM LockExclusion == Spec => []Exclusion
<1>1. IndInv => Exclusion
  BY DEF IndInv
<1> QED
  BY <1>1, LockInvariant, PTL

(* The head of the queue never fits beside the grants that are out: no      *)
(* release and no interruption forgets to admit it.                         *)
THEOREM LockNoWakeUpLost == Spec => [](NoWakeUpLost /\ OneQueue)
<1>1. IndInv => NoWakeUpLost /\ OneQueue
  BY DEF IndInv
<1> QED
  BY <1>1, LockInvariant, PTL

(* What admit lets in goes no further than the queue's order allows.        *)
LEMMA AdmitInOrder ==
  ASSUME IndInv, NEW fiber \in Fibers, NEW shared, NEW exclusive,
         Admit(fiber, Queue \ {fiber}, shared, exclusive),
         NEW f \in Fibers, phase'[f] \in {"granted", "running"},
         phase[f] \in {"outside", "queued"}
  PROVE  f \in Queue /\ \A g \in ahead[f] : phase'[g] # "queued"
<1> DEFINE queue == Queue \ {fiber}
           admitted == Admitted(queue, shared, exclusive)
<1>1. \A g \in Fibers : phase'[g] = IF g = fiber THEN "outside"
                                    ELSE IF g \in admitted THEN "granted" ELSE phase[g]
  BY DEF Admit
<1>2. f \in admitted /\ f \in queue /\ f \in Queue
  BY <1>1 DEF Admitted
<1>3. OneQueue /\ mode \in [Fibers -> LockMode] /\ Queue \subseteq Fibers
  BY DEF IndInv, TypeOK, Queue
<1>4. ahead[f] \subseteq Queue /\ \A g \in ahead[f] : ahead[g] \subseteq ahead[f]
  BY <1>3 DEF OneQueue
<1>5. ASSUME NEW g \in ahead[f], phase'[g] = "queued"
      PROVE  FALSE
  <2>1. g \in Fibers /\ g \in Queue /\ g # fiber /\ g \in queue /\ g \notin admitted
    BY <1>1, <1>3, <1>4, <1>5
  <2>2. /\ mode[f] = "shared" /\ mode[g] = "shared"
        /\ \A h \in ahead[f] \cap queue : mode[h] = "shared"
    BY <1>2, <1>3, <2>1 DEF Admitted, LockMode
  <2>3. \A h \in ahead[g] \cap queue : mode[h] = "shared"
    BY <1>4, <1>5, <2>2
  <2>4. Admissible(mode[g], shared, exclusive)
    BY <1>2, <2>2 DEF Admitted
  <2>5. g \in admitted
    BY <2>1, <2>2, <2>3, <2>4 DEF Admitted
  <2> QED
    BY <2>1, <2>5
<1> QED
  BY <1>2, <1>5

(* First come, first served, for any number of fibers: nobody is let in     *)
(* while a waiter that was ahead of it still waits.                         *)
THEOREM LockFirstComeFirstServed == Spec => NoOvertaking
<1> DEFINE InTurn == \A f \in Fibers :
             (phase[f] \in {"outside", "queued"} /\ phase'[f] \in {"granted", "running"}) =>
               \A g \in (IF f \in Queue THEN ahead[f] ELSE Queue) : phase'[g] # "queued"
<1>1. ASSUME IndInv, [Next]_vars
      PROVE  [InTurn]_vars
  <2> USE <1>1
  <2> SUFFICES ASSUME Next, NEW f \in Fibers, phase[f] \in {"outside", "queued"},
                      phase'[f] \in {"granted", "running"}
               PROVE  \A g \in (IF f \in Queue THEN ahead[f] ELSE Queue) : phase'[g] # "queued"
    OBVIOUS
  <2>1. phase \in [Fibers -> Phase]
    BY DEF IndInv, TypeOK
  <2>2. ASSUME NEW h \in Fibers, Request(h)
        PROVE  Queue = {} /\ f \notin Queue
    BY <2>1, <2>2 DEF Request, RequestFast, RequestQueued, Queue
  <2>3. ASSUME NEW h \in Fibers, Resume(h)
        PROVE  FALSE
    BY <2>1, <2>3 DEF Resume
  <2>4. ASSUME NEW h \in Fibers, Finish(h) \/ Abandon(h)
        PROVE  f \in Queue /\ \A g \in ahead[f] : phase'[g] # "queued"
    <3>1. CASE AbandonQueue(h)
      BY <3>1, AdmitInOrder DEF AbandonQueue
    <3>2. CASE Finish(h) \/ AbandonGrant(h)
      <4>1. Queue = Queue \ {h} /\ Release(h)
        BY <3>2 DEF Finish, AbandonGrant, Queue
      <4>2. \/ Admit(h, Queue \ {h}, sharedHolders - 1, exclusiveHeld)
            \/ Admit(h, Queue \ {h}, sharedHolders, FALSE)
        BY <4>1 DEF Release
      <4>3. CASE Admit(h, Queue \ {h}, sharedHolders - 1, exclusiveHeld)
        BY <4>3, AdmitInOrder
      <4>4. CASE Admit(h, Queue \ {h}, sharedHolders, FALSE)
        BY <4>4, AdmitInOrder
      <4> QED
        BY <4>2, <4>3, <4>4
    <3> QED
      BY <2>4, <3>1, <3>2 DEF Abandon
  <2> QED
    BY <2>2, <2>3, <2>4 DEF Next
<1> QED
  BY <1>1, LockInvariant, PTL DEF Spec, NoOvertaking
=============================================================================
