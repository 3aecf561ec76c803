------------------------- MODULE DomainEventBusProofs -------------------------
(***************************************************************************)
(* The safety half of the bus's promise, for every number of subscribers,  *)
(* every window, every page size and every history of commits: each        *)
(* subscription is given exactly the events after its starting cursor, and *)
(* none that was published is lost to it.                                  *)
(***************************************************************************)
EXTENDS DomainEventBus, TLAPS

(***************************************************************************)
(* Sequences                                                               *)
(***************************************************************************)

(* Sequences with the same length and the same items are equal. *)
LEMMA SameItems ==
  ASSUME NEW s \in Seq(Nat), NEW t \in Seq(Nat),
         Len(s) = Len(t), \A i \in 1 .. Len(s) : s[i] = t[i]
  PROVE  s = t
OBVIOUS

(* A sequence is a concatenation when it has the items of both parts. *)
LEMMA ConcatenationItems ==
  ASSUME NEW s \in Seq(Nat), NEW t \in Seq(Nat), NEW u \in Seq(Nat),
         Len(u) = Len(s) + Len(t),
         \A i \in 1 .. Len(s) : u[i] = s[i],
         \A i \in 1 .. Len(t) : u[Len(s) + i] = t[i]
  PROVE  s \o t = u
<1>1. s \o t \in Seq(Nat) /\ Len(s \o t) = Len(u)
  OBVIOUS
<1>2. ASSUME NEW i \in 1 .. Len(u) PROVE (s \o t)[i] = u[i]
  <2>1. CASE i <= Len(s)
    BY <2>1
  <2>2. CASE i > Len(s)
    <3> DEFINE k == i - Len(s)
    <3>1. k \in 1 .. Len(t) /\ i = Len(s) + k
      BY <2>2
    <3>2. u[Len(s) + k] = t[k]
      BY <3>1
    <3>3. (s \o t)[i] = t[k]
      BY <2>2
    <3> QED
      BY <3>1, <3>2, <3>3
  <2> QED
    BY <2>1, <2>2
<1> QED
  BY <1>1, <1>2, SameItems

(* The same for one appended item. *)
LEMMA AppendItems ==
  ASSUME NEW s \in Seq(Nat), NEW x \in Nat, NEW u \in Seq(Nat),
         Len(u) = Len(s) + 1,
         \A i \in 1 .. Len(s) : u[i] = s[i],
         u[Len(s) + 1] = x
  PROVE  Append(s, x) = u
<1>1. Append(s, x) \in Seq(Nat) /\ Len(Append(s, x)) = Len(u)
  OBVIOUS
<1>2. \A i \in 1 .. Len(u) : Append(s, x)[i] = u[i]
  OBVIOUS
<1> QED
  BY <1>1, <1>2, SameItems

(* An interval is a sequence of naturals as long as it is wide. *)
LEMMA IntervalIsSequence ==
  ASSUME NEW a \in Nat, NEW b \in Nat, a <= b
  PROVE  /\ Interval(a, b) \in Seq(Nat)
         /\ Len(Interval(a, b)) = b - a
         /\ \A i \in 1 .. (b - a) : Interval(a, b)[i] = a + i
<1>1. b - a \in Nat
  OBVIOUS
<1>2. \A i \in 1 .. (b - a) : a + i \in Nat
  OBVIOUS
<1> QED
  BY <1>1, <1>2 DEF Interval

(* Adjacent intervals join. *)
LEMMA IntervalsJoin ==
  ASSUME NEW a \in Nat, NEW b \in Nat, NEW c \in Nat, a <= b, b <= c
  PROVE  Interval(a, b) \o Interval(b, c) = Interval(a, c)
<1>0. a <= c
  OBVIOUS
<1>1. /\ Interval(a, b) \in Seq(Nat)
      /\ Len(Interval(a, b)) = b - a
      /\ \A i \in 1 .. (b - a) : Interval(a, b)[i] = a + i
  BY IntervalIsSequence
<1>2. /\ Interval(b, c) \in Seq(Nat)
      /\ Len(Interval(b, c)) = c - b
      /\ \A i \in 1 .. (c - b) : Interval(b, c)[i] = b + i
  BY IntervalIsSequence
<1>3. /\ Interval(a, c) \in Seq(Nat)
      /\ Len(Interval(a, c)) = c - a
      /\ \A i \in 1 .. (c - a) : Interval(a, c)[i] = a + i
  BY <1>0, IntervalIsSequence
<1>4. /\ Len(Interval(a, c)) = Len(Interval(a, b)) + Len(Interval(b, c))
      /\ \A i \in 1 .. Len(Interval(a, b)) : Interval(a, c)[i] = Interval(a, b)[i]
  BY <1>1, <1>2, <1>3
<1>5. \A i \in 1 .. Len(Interval(b, c)) :
        Interval(a, c)[Len(Interval(a, b)) + i] = Interval(b, c)[i]
  <2> SUFFICES ASSUME NEW i \in 1 .. (c - b)
               PROVE  Interval(a, c)[(b - a) + i] = Interval(b, c)[i]
    BY <1>1, <1>2
  <2>1. (b - a) + i \in 1 .. (c - a)
    OBVIOUS
  <2> QED
    BY <2>1, <1>2, <1>3
<1> QED
  BY <1>1, <1>2, <1>3, <1>4, <1>5, ConcatenationItems

(* Emitting the next sequence extends an interval. *)
LEMMA IntervalExtends ==
  ASSUME NEW a \in Nat, NEW b \in Nat, a <= b
  PROVE  Append(Interval(a, b), b + 1) = Interval(a, b + 1)
<1>1. /\ Interval(a, b) \in Seq(Nat)
      /\ Len(Interval(a, b)) = b - a
      /\ \A i \in 1 .. (b - a) : Interval(a, b)[i] = a + i
  BY IntervalIsSequence
<1>2. b + 1 \in Nat /\ a <= b + 1
  OBVIOUS
<1>3. /\ Interval(a, b + 1) \in Seq(Nat)
      /\ Len(Interval(a, b + 1)) = (b + 1) - a
      /\ \A i \in 1 .. ((b + 1) - a) : Interval(a, b + 1)[i] = a + i
  BY <1>2, IntervalIsSequence
<1>4. \A i \in 1 .. (b - a) : Interval(a, b + 1)[i] = Interval(a, b)[i]
  BY <1>1, <1>3
<1>5. Interval(a, b + 1)[(b - a) + 1] = b + 1
  BY <1>3
<1>6. Len(Interval(a, b + 1)) = Len(Interval(a, b)) + 1
  BY <1>1, <1>3
<1>7. /\ \A i \in 1 .. Len(Interval(a, b)) : Interval(a, b + 1)[i] = Interval(a, b)[i]
      /\ Interval(a, b + 1)[Len(Interval(a, b)) + 1] = b + 1
  BY <1>1, <1>4, <1>5
<1> QED
  BY <1>1, <1>2, <1>3, <1>6, <1>7, AppendItems

(* Sliding keeps the last item, and keeps nothing that was not there. *)
LEMMA SlideKeepsNewest ==
  ASSUME NEW items \in Seq(Nat), items # <<>>
  PROVE  /\ Slide(items) \in Seq(Nat)
         /\ Slide(items) # <<>>
         /\ Slide(items)[Len(Slide(items))] = items[Len(items)]
         /\ \A i \in 1 .. Len(Slide(items)) :
              \E j \in 1 .. Len(items) : Slide(items)[i] = items[j]
<1>1. CASE Len(items) <= BusCapacity
  BY <1>1 DEF Slide
<1>2. CASE ~(Len(items) <= BusCapacity)
  <2> DEFINE first == Len(items) - BusCapacity + 1
  <2>1. BusCapacity \in Nat /\ BusCapacity >= 1
    BY BusAssumption
  <2>2. first \in 1 .. Len(items)
    BY <1>2, <2>1
  <2>3. Slide(items) = SubSeq(items, first, Len(items))
    BY <1>2 DEF Slide
  <2>4. /\ Slide(items) \in Seq(Nat)
        /\ Len(Slide(items)) = BusCapacity
    BY <2>1, <2>2, <2>3
  <2>5. \A i \in 1 .. BusCapacity : Slide(items)[i] = items[first + i - 1]
    BY <2>1, <2>2, <2>3
  <2>6. \A i \in 1 .. BusCapacity : first + i - 1 \in 1 .. Len(items)
    BY <2>1, <2>2
  <2>7. Slide(items) # <<>>
    BY <2>1, <2>4
  <2>8. Slide(items)[Len(Slide(items))] = items[Len(items)]
    BY <2>1, <2>4, <2>5
  <2>9. \A i \in 1 .. Len(Slide(items)) :
          \E j \in 1 .. Len(items) : Slide(items)[i] = items[j]
    BY <2>4, <2>5, <2>6
  <2> QED
    BY <2>4, <2>7, <2>8, <2>9
<1> QED
  BY <1>1, <1>2

(***************************************************************************)
(* The inductive invariant                                                 *)
(***************************************************************************)

(* What holds of one subscription between any two steps. *)
SubscriptionInv(s) ==
  /\ start[s] <= cursor[s]
  /\ cursor[s] <= lastPublishedSequence
  /\ delivered[s] = Interval(start[s], cursor[s])
  /\ \A i \in 1 .. Len(held[s]) : held[s][i] <= lastPublishedSequence
  /\ \A i \in 1 .. Len(inbox[s]) : inbox[s][i] <= lastPublishedSequence
  /\ gapThrough[s] # NoGap =>
       /\ held[s] # <<>>
       /\ gapThrough[s] = Head(held[s]) - 1
       /\ cursor[s] <= gapThrough[s]
  /\ Live(s) =>
       /\ inbox[s] # <<>> => inbox[s][Len(inbox[s])] = lastPublishedSequence
       /\ inbox[s] = <<>> /\ held[s] # <<>> =>
            held[s][Len(held[s])] = lastPublishedSequence
       /\ inbox[s] = <<>> /\ held[s] = <<>> => cursor[s] = lastPublishedSequence

IndInv ==
  /\ TypeOK
  /\ lastPublishedSequence <= head
  /\ ~running => \A s \in Subscribers : ~Live(s)
  /\ \A s \in Subscribers : SubscriptionInv(s)

(* The last item on its way is the last item of the inbox, or of the array  *)
(* when the inbox is empty.                                                 *)
LEMMA LastOnItsWay ==
  ASSUME NEW h \in Seq(Nat), NEW b \in Seq(Nat)
  PROVE  /\ (h \o b = <<>>) <=> (h = <<>> /\ b = <<>>)
         /\ b # <<>> => (h \o b)[Len(h \o b)] = b[Len(b)]
         /\ b = <<>> => h \o b = h
<1>1. h \o b \in Seq(Nat) /\ Len(h \o b) = Len(h) + Len(b)
  OBVIOUS
<1>2. (h \o b = <<>>) <=> (h = <<>> /\ b = <<>>)
  <2>1. (h \o b = <<>>) <=> (Len(h \o b) = 0)
    BY <1>1
  <2>2. (h = <<>> <=> Len(h) = 0) /\ (b = <<>> <=> Len(b) = 0)
    OBVIOUS
  <2>3. Len(h) \in Nat /\ Len(b) \in Nat
    OBVIOUS
  <2> QED
    BY <1>1, <2>1, <2>2, <2>3
<1>3. ASSUME b # <<>>
      PROVE  (h \o b)[Len(h \o b)] = b[Len(b)]
  <2>1. Len(b) >= 1 /\ Len(h) \in Nat
    BY <1>3
  <2> QED
    BY <1>1, <2>1
<1>4. ASSUME b = <<>>
      PROVE  h \o b = h
  <2>1. Len(h \o b) = Len(h)
    BY <1>1, <1>4
  <2>2. \A i \in 1 .. Len(h) : h[i] = h[i]
    OBVIOUS
  <2>3. Len(b) = 0
    BY <1>4
  <2> QED
    BY <2>1, <2>2, <2>3, ConcatenationItems
<1> QED
  BY <1>2, <1>3, <1>4

(* The inductive invariant implies the invariants that runs check. *)
LEMMA IndInvImplies ==
  IndInv => DeliveredExactly /\ NothingLost /\ GapEndsBeforeHeldItem /\ NothingAhead
<1> SUFFICES ASSUME IndInv
             PROVE  DeliveredExactly /\ NothingLost /\ GapEndsBeforeHeldItem /\ NothingAhead
  OBVIOUS
<1>1. DeliveredExactly
  BY DEF IndInv, SubscriptionInv, DeliveredExactly
<1>2. NothingLost
  <2> SUFFICES ASSUME NEW s \in Subscribers, Live(s)
               PROVE  IF OnItsWay(s) = <<>>
                      THEN cursor[s] = lastPublishedSequence
                      ELSE OnItsWay(s)[Len(OnItsWay(s))] = lastPublishedSequence
    BY DEF NothingLost
  <2>1. held[s] \in Seq(Nat) /\ inbox[s] \in Seq(Nat)
    BY DEF IndInv, TypeOK
  <2>2. /\ (OnItsWay(s) = <<>>) <=> (held[s] = <<>> /\ inbox[s] = <<>>)
        /\ inbox[s] # <<>> => OnItsWay(s)[Len(OnItsWay(s))] = inbox[s][Len(inbox[s])]
        /\ inbox[s] = <<>> => OnItsWay(s) = held[s]
    BY <2>1, LastOnItsWay DEF OnItsWay
  <2>3. SubscriptionInv(s)
    BY DEF IndInv
  <2> QED
    BY <2>2, <2>3 DEF SubscriptionInv
<1>3. GapEndsBeforeHeldItem
  <2> SUFFICES ASSUME NEW s \in Subscribers, gapThrough[s] # NoGap
               PROVE  /\ held[s] # <<>>
                      /\ gapThrough[s] = Head(held[s]) - 1
                      /\ cursor[s] <= gapThrough[s]
                      /\ gapThrough[s] < head
    BY DEF GapEndsBeforeHeldItem
  <2>1. SubscriptionInv(s) /\ held[s] \in Seq(Nat)
    BY DEF IndInv, TypeOK
  <2>2. held[s] # <<>> /\ Head(held[s]) = held[s][1] /\ 1 \in 1 .. Len(held[s])
    BY <2>1 DEF SubscriptionInv
  <2>3. held[s][1] <= lastPublishedSequence /\ held[s][1] \in Nat
    BY <2>1, <2>2 DEF SubscriptionInv
  <2>4. lastPublishedSequence <= head /\ lastPublishedSequence \in Nat /\ head \in Nat
    BY DEF IndInv, TypeOK
  <2> QED
    BY <2>1, <2>2, <2>3, <2>4 DEF SubscriptionInv
<1>4. NothingAhead
  BY DEF IndInv, SubscriptionInv, NothingAhead
<1> QED
  BY <1>1, <1>2, <1>3, <1>4


(* A step that leaves a subscription alone keeps what holds of it. *)
LEMMA SubscriptionFrame ==
  ASSUME NEW t \in Subscribers, SubscriptionInv(t),
         lastPublishedSequence' = lastPublishedSequence,
         status'[t] = status[t], start'[t] = start[t], cursor'[t] = cursor[t],
         inbox'[t] = inbox[t], held'[t] = held[t], gapThrough'[t] = gapThrough[t],
         delivered'[t] = delivered[t]
  PROVE  SubscriptionInv(t)'
BY DEF SubscriptionInv, Live

(* A bus that has just been created, or that finds its store at rest. *)
LEMMA InitInv == Init => IndInv
<1> SUFFICES ASSUME Init
             PROVE  IndInv
  OBVIOUS
<1>1. TypeOK
  BY BusAssumption DEF Init, TypeOK, Status, NoGap
<1>2. ASSUME NEW s \in Subscribers
      PROVE  SubscriptionInv(s)
  <2>1. Interval(0, 0) = <<>>
    <3>1. Interval(0, 0) \in Seq(Nat) /\ Len(Interval(0, 0)) = 0
      BY IntervalIsSequence
    <3> QED
      BY <3>1
  <2>2. head \in Nat
    BY <1>1 DEF TypeOK
  <2> QED
    BY <2>1, <2>2 DEF Init, SubscriptionInv, Live, NoGap
<1> QED
  BY <1>1, <1>2 DEF Init, IndInv, TypeOK, Live

(* Commits move only the store's head. *)
LEMMA CommitInv ==
  ASSUME IndInv, NEW count \in 1 .. MaxSequence, Commit(count) \/ CommitUnreadable
  PROVE  IndInv'
<1>1. TypeOK'
  <2>1. TypeOK /\ MaxSequence \in Nat
    BY BusAssumption DEF IndInv
  <2>2. head' \in Nat /\ unreadable' \subseteq 1 .. head'
    <3>1. CASE Commit(count)
      BY <3>1, <2>1 DEF TypeOK, Commit
    <3>2. CASE CommitUnreadable
      BY <3>2, <2>1 DEF TypeOK, CommitUnreadable
    <3> QED
      BY <3>1, <3>2
  <2>3. UNCHANGED <<running, lastPublishedSequence, subscriptionVars>>
    BY DEF Commit, CommitUnreadable
  <2> QED
    BY <2>1, <2>2, <2>3 DEF TypeOK, subscriptionVars
<1>2. lastPublishedSequence' = lastPublishedSequence /\ running' = running
  BY DEF Commit, CommitUnreadable
<1>3. UNCHANGED subscriptionVars
  BY DEF Commit, CommitUnreadable
<1>4. head' >= head
  BY BusAssumption DEF IndInv, TypeOK, Commit, CommitUnreadable
<1>5. ASSUME NEW t \in Subscribers
      PROVE  SubscriptionInv(t)'
  <2>1. SubscriptionInv(t)
    BY DEF IndInv
  <2> QED
    BY <2>1, <1>2, <1>3, SubscriptionFrame DEF subscriptionVars
<1> QED
  BY <1>1, <1>2, <1>3, <1>4, <1>5 DEF IndInv, TypeOK, Live, subscriptionVars

(* A publication appends to every live inbox, sliding, and the last item of *)
(* each is then the last published one.                                     *)
LEMMA PublishInv ==
  ASSUME IndInv, PublishCommitted
  PROVE  IndInv'
<1>1. PICK from \in 0 .. head, through \in 1 .. head : from < through /\ Publish(from, through)
  BY DEF PublishCommitted
<1>2. head \in Nat /\ lastPublishedSequence \in Nat /\ from \in Nat /\ through \in Nat
  BY <1>1 DEF IndInv, TypeOK
<1> DEFINE low == Larger(from, lastPublishedSequence)
           new == Unpublished(from, through)
<1>3. low \in Nat /\ low >= lastPublishedSequence
  BY <1>2 DEF Larger
<1>4. CASE new = <<>>
  <2>1. UNCHANGED vars
    BY <1>1, <1>4 DEF Publish, vars, subscriptionVars
  <2> QED
    BY <2>1 DEF IndInv, TypeOK, SubscriptionInv, Live, vars, subscriptionVars
<1>5. CASE new # <<>>
  <2>1. new = Interval(low, through)
    BY DEF Unpublished
  <2>2. low < through
    <3>1. SUFFICES ASSUME ~(low < through) PROVE FALSE
      OBVIOUS
    <3>2. 1 .. (through - low) = {}
      BY <3>1, <1>2, <1>3
    <3>3. new = [i \in {} |-> low + i]
      BY <3>2, <2>1 DEF Interval
    <3>4. new = <<>>
      BY <3>3
    <3> QED
      BY <3>4, <1>5
  <2>3. /\ new \in Seq(Nat)
        /\ Len(new) = through - low
        /\ \A i \in 1 .. (through - low) : new[i] = low + i
    <3>1. low <= through
      BY <2>2, <1>2, <1>3
    <3> HIDE DEF low
    <3> QED
      BY <2>1, <3>1, <1>2, <1>3, IntervalIsSequence
  <2>4. /\ Len(new) >= 1
        /\ new[Len(new)] = through
        /\ \A i \in 1 .. Len(new) : new[i] <= through
    BY <2>2, <2>3, <1>2, <1>3
  <2>5a. lastPublishedSequence <= through
    BY <2>2, <1>2, <1>3
  <2>5b. /\ Publish(from, through)
         /\ Unpublished(from, through) # <<>>
    BY <1>1, <1>5
  <2> HIDE DEF new, low
  <2>5. /\ lastPublishedSequence' = through
        /\ lastPublishedSequence <= through
        /\ UNCHANGED <<head, unreadable, running, status, start, cursor, held, gapThrough,
                       delivered>>
        /\ inbox' = [s \in Subscribers |->
                       IF Live(s) THEN Slide(inbox[s] \o new) ELSE inbox[s]]
    BY <2>5a, <2>5b DEF Publish, new
  <2>6. ASSUME NEW s \in Subscribers, Live(s)
        PROVE  /\ inbox'[s] \in Seq(Nat)
               /\ inbox'[s] # <<>>
               /\ inbox'[s][Len(inbox'[s])] = through
               /\ \A i \in 1 .. Len(inbox'[s]) : inbox'[s][i] <= through
    <3> DEFINE items == inbox[s] \o new
    <3>1. inbox[s] \in Seq(Nat)
      BY DEF IndInv, TypeOK
    <3>2. items \in Seq(Nat) /\ Len(items) = Len(inbox[s]) + Len(new)
      <4>1. new \in Seq(Nat)
        BY <2>3
      <4> QED
        BY <3>1, <4>1
    <3>3. items # <<>> /\ items[Len(items)] = through
      <4>1. new # <<>>
        BY <1>5
      <4>2. (items = <<>>) <=> (inbox[s] = <<>> /\ new = <<>>)
        BY <3>1, <2>3, LastOnItsWay
      <4>3. items[Len(items)] = new[Len(new)]
        BY <4>1, <3>1, <2>3, LastOnItsWay
      <4> QED
        BY <4>1, <4>2, <4>3, <2>4
    <3>4. \A i \in 1 .. Len(items) : items[i] <= through
      <4> SUFFICES ASSUME NEW i \in 1 .. Len(items)
                   PROVE  items[i] <= through
        OBVIOUS
      <4>1. CASE i <= Len(inbox[s])
        <5>1. i \in 1 .. Len(inbox[s]) /\ items[i] = inbox[s][i]
          BY <4>1, <3>1, <3>2, <2>3
        <5>2. inbox[s][i] <= lastPublishedSequence /\ inbox[s][i] \in Nat
          BY <5>1, <3>1 DEF IndInv, SubscriptionInv
        <5> QED
          BY <5>1, <5>2, <2>5, <1>2
      <4>2. CASE i > Len(inbox[s])
        <5> DEFINE k == i - Len(inbox[s])
        <5>1. k \in 1 .. Len(new)
          BY <4>2, <3>1, <3>2, <2>3
        <5>2. items[i] = new[k]
          BY <4>2, <3>1, <3>2, <2>3
        <5> QED
          BY <5>1, <5>2, <2>4
      <4> QED
        BY <4>1, <4>2, <3>1, <3>2
    <3>5. inbox'[s] = Slide(items)
      BY <2>5, <2>6
    <3> HIDE DEF items
    <3>6. /\ Slide(items) \in Seq(Nat)
          /\ Slide(items) # <<>>
          /\ Slide(items)[Len(Slide(items))] = items[Len(items)]
          /\ \A i \in 1 .. Len(Slide(items)) :
               \E j \in 1 .. Len(items) : Slide(items)[i] = items[j]
      BY <3>2, <3>3, SlideKeepsNewest
    <3> QED
      BY <3>3, <3>4, <3>5, <3>6
  <2>7. inbox' \in [Subscribers -> Seq(Nat)]
    <3>1. ASSUME NEW s \in Subscribers
          PROVE  inbox'[s] \in Seq(Nat)
      <4>1. CASE Live(s)
        BY <4>1, <2>6
      <4>2. CASE ~Live(s)
        BY <4>2, <2>5 DEF IndInv, TypeOK
      <4> QED
        BY <4>1, <4>2
    <3>2. inbox' = [s \in Subscribers |-> inbox'[s]]
      BY <2>5
    <3> QED
      BY <3>1, <3>2
  <2>8. TypeOK'
    BY <2>5, <2>7, <1>2 DEF IndInv, TypeOK
  <2>9. ASSUME NEW s \in Subscribers
        PROVE  SubscriptionInv(s)'
    <3>1. /\ SubscriptionInv(s)
          /\ held[s] \in Seq(Nat)
          /\ inbox[s] \in Seq(Nat)
          /\ cursor[s] \in Nat
      BY DEF IndInv, TypeOK
    <3>2. \A i \in 1 .. Len(held[s]) : held[s][i] <= through
      <4> SUFFICES ASSUME NEW i \in 1 .. Len(held[s])
                   PROVE  held[s][i] <= through
        OBVIOUS
      <4>1. held[s][i] \in Nat /\ held[s][i] <= lastPublishedSequence
        BY <3>1 DEF SubscriptionInv
      <4> QED
        BY <4>1, <2>5, <1>2
    <3>3. \A i \in 1 .. Len(inbox'[s]) : inbox'[s][i] <= through
      <4>1. CASE Live(s)
        BY <4>1, <2>6
      <4>2. CASE ~Live(s)
        <5>1. inbox'[s] = inbox[s]
          BY <4>2, <2>5
        <5> SUFFICES ASSUME NEW i \in 1 .. Len(inbox[s])
                     PROVE  inbox[s][i] <= through
          BY <5>1
        <5>2. inbox[s][i] \in Nat /\ inbox[s][i] <= lastPublishedSequence
          BY <3>1 DEF SubscriptionInv
        <5> QED
          BY <5>2, <2>5, <1>2
      <4> QED
        BY <4>1, <4>2
    <3>4. Live(s)' => /\ inbox'[s] # <<>>
                      /\ inbox'[s][Len(inbox'[s])] = through
      BY <2>5, <2>6 DEF Live
    <3>5. cursor[s] <= through
      BY <3>1, <2>5, <1>2 DEF SubscriptionInv
    <3> QED
      BY <3>1, <3>2, <3>3, <3>4, <3>5, <2>5 DEF SubscriptionInv
  <2>10. through <= head
    BY <1>1, <1>2
  <2> QED
    BY <2>5, <2>8, <2>9, <2>10 DEF IndInv, Live
<1> QED
  BY <1>4, <1>5


(* What every subscription step leaves to show: the types and its own part. *)
LEMMA OwnStep ==
  ASSUME IndInv, NEW s \in Subscribers,
         TypeOK', SubscriptionInv(s)',
         UNCHANGED <<head, unreadable, running, lastPublishedSequence>>,
         Live(s)' => running,
         \A t \in Subscribers \ {s} :
           /\ status'[t] = status[t] /\ start'[t] = start[t] /\ cursor'[t] = cursor[t]
           /\ inbox'[t] = inbox[t] /\ held'[t] = held[t]
           /\ gapThrough'[t] = gapThrough[t] /\ delivered'[t] = delivered[t]
  PROVE  IndInv'
<1>1. \A t \in Subscribers \ {s} : SubscriptionInv(t)'
  BY SubscriptionFrame DEF IndInv
<1>2. \A t \in Subscribers : SubscriptionInv(t)'
  BY <1>1
<1>3. running \in BOOLEAN
  BY DEF IndInv, TypeOK
<1>4. ~running' => \A t \in Subscribers : ~Live(t)'
  <2> SUFFICES ASSUME ~running, NEW t \in Subscribers
               PROVE  ~Live(t)'
    OBVIOUS
  <2>1. CASE t = s
    BY <2>1
  <2>2. CASE t # s
    BY <2>2 DEF IndInv, Live
  <2> QED
    BY <2>1, <2>2
<1> QED
  BY <1>2, <1>4 DEF IndInv

(* A new subscription starts at the last published event, with nothing due. *)
LEMMA SubscribeInv ==
  ASSUME IndInv, NEW s \in Subscribers, Subscribe(s)
  PROVE  IndInv'
<1>1. TypeOK'
  BY DEF IndInv, TypeOK, Subscribe, Status, NoGap
<1>2. /\ UNCHANGED <<head, unreadable, running, lastPublishedSequence>>
      /\ \A t \in Subscribers \ {s} :
           /\ status'[t] = status[t] /\ start'[t] = start[t] /\ cursor'[t] = cursor[t]
           /\ inbox'[t] = inbox[t] /\ held'[t] = held[t]
           /\ gapThrough'[t] = gapThrough[t] /\ delivered'[t] = delivered[t]
  BY DEF IndInv, TypeOK, Subscribe
<1>3. SubscriptionInv(s)'
  <2>1. Interval(lastPublishedSequence, lastPublishedSequence) = <<>>
    <3>1. lastPublishedSequence \in Nat
      BY DEF IndInv, TypeOK
    <3>2. /\ Interval(lastPublishedSequence, lastPublishedSequence) \in Seq(Nat)
          /\ Len(Interval(lastPublishedSequence, lastPublishedSequence)) = 0
      BY <3>1, IntervalIsSequence
    <3> QED
      BY <3>2
  <2>2. /\ start'[s] = lastPublishedSequence /\ cursor'[s] = lastPublishedSequence
        /\ inbox'[s] = <<>> /\ held'[s] = <<>> /\ gapThrough'[s] = NoGap
        /\ delivered'[s] = <<>> /\ lastPublishedSequence' = lastPublishedSequence
        /\ lastPublishedSequence \in Nat
    BY DEF Subscribe, IndInv, TypeOK
  <2> QED
    BY <2>1, <2>2 DEF SubscriptionInv
<1>4. Live(s)' => running
  BY DEF Subscribe
<1> QED
  BY <1>1, <1>2, <1>3, <1>4, OwnStep

(* A closed subscription keeps what it was given and holds nothing. *)
LEMMA UnsubscribeInv ==
  ASSUME IndInv, NEW s \in Subscribers, Unsubscribe(s)
  PROVE  IndInv'
<1>1. TypeOK'
  BY DEF IndInv, TypeOK, Unsubscribe, Status, NoGap
<1>2. /\ UNCHANGED <<head, unreadable, running, lastPublishedSequence>>
      /\ \A t \in Subscribers \ {s} :
           /\ status'[t] = status[t] /\ start'[t] = start[t] /\ cursor'[t] = cursor[t]
           /\ inbox'[t] = inbox[t] /\ held'[t] = held[t]
           /\ gapThrough'[t] = gapThrough[t] /\ delivered'[t] = delivered[t]
  BY DEF IndInv, TypeOK, Unsubscribe
<1>3. SubscriptionInv(s)'
  <2>1. SubscriptionInv(s)
    BY DEF IndInv
  <2>2. /\ start'[s] = start[s] /\ cursor'[s] = cursor[s] /\ delivered'[s] = delivered[s]
        /\ inbox'[s] = <<>> /\ held'[s] = <<>> /\ gapThrough'[s] = NoGap
        /\ lastPublishedSequence' = lastPublishedSequence /\ ~Live(s)'
    BY DEF Unsubscribe, IndInv, TypeOK, Live
  <2> QED
    BY <2>1, <2>2 DEF SubscriptionInv
<1>4. Live(s)' => running
  BY DEF Unsubscribe, IndInv, TypeOK, Live
<1> QED
  BY <1>1, <1>2, <1>3, <1>4, OwnStep

(* So does one that died. *)
LEMMA DieInGapInv ==
  ASSUME IndInv, NEW s \in Subscribers, DieInGap(s)
  PROVE  IndInv'
<1>1. TypeOK'
  BY DEF IndInv, TypeOK, DieInGap, Status, NoGap
<1>2. /\ UNCHANGED <<head, unreadable, running, lastPublishedSequence>>
      /\ \A t \in Subscribers \ {s} :
           /\ status'[t] = status[t] /\ start'[t] = start[t] /\ cursor'[t] = cursor[t]
           /\ inbox'[t] = inbox[t] /\ held'[t] = held[t]
           /\ gapThrough'[t] = gapThrough[t] /\ delivered'[t] = delivered[t]
  BY DEF IndInv, TypeOK, DieInGap
<1>3. SubscriptionInv(s)'
  <2>1. SubscriptionInv(s)
    BY DEF IndInv
  <2>2. /\ start'[s] = start[s] /\ cursor'[s] = cursor[s] /\ delivered'[s] = delivered[s]
        /\ inbox'[s] = <<>> /\ held'[s] = <<>> /\ gapThrough'[s] = NoGap
        /\ lastPublishedSequence' = lastPublishedSequence /\ ~Live(s)'
    BY DEF DieInGap, IndInv, TypeOK, Live
  <2> QED
    BY <2>1, <2>2 DEF SubscriptionInv
<1>4. Live(s)' => running
  BY DEF DieInGap, IndInv, TypeOK, Live
<1> QED
  BY <1>1, <1>2, <1>3, <1>4, OwnStep

(* The inbox becomes the array in hand. *)
LEMMA PullInv ==
  ASSUME IndInv, NEW s \in Subscribers, Pull(s)
  PROVE  IndInv'
<1>1. TypeOK'
  BY DEF IndInv, TypeOK, Pull, Status, NoGap
<1>2. /\ UNCHANGED <<head, unreadable, running, lastPublishedSequence>>
      /\ \A t \in Subscribers \ {s} :
           /\ status'[t] = status[t] /\ start'[t] = start[t] /\ cursor'[t] = cursor[t]
           /\ inbox'[t] = inbox[t] /\ held'[t] = held[t]
           /\ gapThrough'[t] = gapThrough[t] /\ delivered'[t] = delivered[t]
  BY DEF IndInv, TypeOK, Pull
<1>3. SubscriptionInv(s)'
  <2>1. SubscriptionInv(s) /\ Live(s)
    BY DEF IndInv, Pull
  <2>2. /\ start'[s] = start[s] /\ cursor'[s] = cursor[s] /\ delivered'[s] = delivered[s]
        /\ inbox'[s] = <<>> /\ held'[s] = inbox[s] /\ gapThrough'[s] = NoGap
        /\ inbox[s] # <<>> /\ lastPublishedSequence' = lastPublishedSequence
    BY DEF Pull, IndInv, TypeOK
  <2> QED
    BY <2>1, <2>2 DEF SubscriptionInv
<1>4. Live(s)' => running
  BY DEF Pull, IndInv, Live
<1> QED
  BY <1>1, <1>2, <1>3, <1>4, OwnStep

(* The next item extends what was delivered by one. *)
LEMMA KeepInv ==
  ASSUME IndInv, NEW s \in Subscribers, Keep(s)
  PROVE  IndInv'
<1>1. /\ UNCHANGED <<head, unreadable, running, lastPublishedSequence>>
      /\ \A t \in Subscribers \ {s} :
           /\ status'[t] = status[t] /\ start'[t] = start[t] /\ cursor'[t] = cursor[t]
           /\ inbox'[t] = inbox[t] /\ held'[t] = held[t]
           /\ gapThrough'[t] = gapThrough[t] /\ delivered'[t] = delivered[t]
  BY DEF IndInv, TypeOK, Keep
<1>2. /\ SubscriptionInv(s) /\ Live(s)
      /\ held[s] \in Seq(Nat) /\ inbox[s] \in Seq(Nat) /\ delivered[s] \in Seq(Nat)
      /\ start[s] \in Nat /\ cursor[s] \in Nat /\ gapThrough[s] \in Nat
      /\ lastPublishedSequence \in Nat
  BY DEF IndInv, TypeOK, Keep, AtItem, ReadingGap
<1>3. held[s] # <<>> /\ Head(held[s]) = held[s][1] /\ held[s][1] \in Nat
  BY <1>2 DEF Keep, AtItem
<1>4. /\ held[s][1] <= lastPublishedSequence
      /\ held[s][1] <= cursor[s] + 1
      /\ 1 \in 1 .. Len(held[s])
  <2>1. Len(held[s]) \in Nat /\ Len(held[s]) # 0
    <3>1. \A q \in Seq(Nat) : Len(q) = 0 => q = <<>>
      OBVIOUS
    <3> QED
      BY <1>2, <1>3, <3>1
  <2>2. 1 \in 1 .. Len(held[s])
    BY <2>1
  <2>3. held[s][1] <= lastPublishedSequence
    BY <1>2, <2>2 DEF SubscriptionInv
  <2>4. held[s][1] <= cursor[s] + 1
    BY <1>3 DEF Keep
  <2> QED
    BY <2>2, <2>3, <2>4
<1>5. /\ held'[s] = Tail(held[s])
      /\ cursor'[s] = IF held[s][1] > cursor[s] THEN cursor[s] + 1 ELSE cursor[s]
      /\ delivered'[s] = IF held[s][1] > cursor[s]
                         THEN Append(delivered[s], cursor[s] + 1) ELSE delivered[s]
      /\ start'[s] = start[s] /\ inbox'[s] = inbox[s] /\ gapThrough'[s] = NoGap
      /\ gapThrough[s] = NoGap
      /\ lastPublishedSequence' = lastPublishedSequence /\ Live(s)'
  <2>1. cursor'[s] = Larger(cursor[s], held[s][1])
    BY <1>3 DEF Keep, IndInv, TypeOK
  <2>2. delivered'[s] = IF held[s][1] > cursor[s]
                        THEN Append(delivered[s], held[s][1]) ELSE delivered[s]
    BY <1>3 DEF Keep, IndInv, TypeOK
  <2>3. held[s][1] > cursor[s] => held[s][1] = cursor[s] + 1
    BY <1>2, <1>3, <1>4
  <2>4. cursor'[s] = IF held[s][1] > cursor[s] THEN cursor[s] + 1 ELSE cursor[s]
    BY <1>2, <1>3, <2>1, <2>3 DEF Larger
  <2>5. delivered'[s] = IF held[s][1] > cursor[s]
                        THEN Append(delivered[s], cursor[s] + 1) ELSE delivered[s]
    BY <2>2, <2>3
  <2>6. held'[s] = Tail(held[s])
    BY DEF Keep, IndInv, TypeOK
  <2>7. /\ start'[s] = start[s] /\ inbox'[s] = inbox[s] /\ gapThrough'[s] = NoGap
        /\ gapThrough[s] = NoGap
        /\ lastPublishedSequence' = lastPublishedSequence /\ Live(s)'
    BY <1>2 DEF Keep, AtItem, Live
  <2> QED
    BY <2>4, <2>5, <2>6, <2>7
<1>6. TypeOK'
  <2>1. /\ held' = [held EXCEPT ![s] = held'[s]]
        /\ cursor' = [cursor EXCEPT ![s] = cursor'[s]]
        /\ delivered' = [delivered EXCEPT ![s] = delivered'[s]]
    BY DEF Keep, IndInv, TypeOK
  <2>2. held'[s] \in Seq(Nat) /\ cursor'[s] \in Nat /\ delivered'[s] \in Seq(Nat)
    BY <1>2, <1>3, <1>5
  <2> QED
    BY <2>1, <2>2 DEF Keep, IndInv, TypeOK
<1>7. SubscriptionInv(s)'
  <2>1. start[s] <= cursor[s] /\ cursor[s] <= lastPublishedSequence
    BY <1>2 DEF SubscriptionInv
  <2>2. start'[s] <= cursor'[s] /\ cursor'[s] <= lastPublishedSequence
    BY <2>1, <1>2, <1>3, <1>4, <1>5
  <2>3. delivered'[s] = Interval(start[s], cursor'[s])
    BY <2>1, <1>2, <1>5, IntervalExtends DEF SubscriptionInv
  <2>4. /\ Len(Tail(held[s])) = Len(held[s]) - 1
        /\ \A i \in 1 .. Len(Tail(held[s])) :
             i + 1 \in 1 .. Len(held[s]) /\ Tail(held[s])[i] = held[s][i + 1]
    BY <1>2, <1>3
  <2>5. \A i \in 1 .. Len(held'[s]) : held'[s][i] <= lastPublishedSequence
    BY <2>4, <1>2, <1>5 DEF SubscriptionInv
  <2>6. ASSUME inbox'[s] = <<>>, held'[s] # <<>>
        PROVE  held'[s][Len(held'[s])] = lastPublishedSequence
    <3>1. held[s][Len(held[s])] = lastPublishedSequence
      BY <2>6, <1>2, <1>3, <1>5 DEF SubscriptionInv
    <3>2. Len(Tail(held[s])) >= 1
      BY <2>6, <1>2, <1>3, <1>5
    <3>3. Tail(held[s])[Len(Tail(held[s]))] = held[s][Len(held[s])]
      BY <3>2, <2>4, <1>2
    <3> QED
      BY <3>1, <3>3, <1>5
  <2>7. ASSUME inbox'[s] = <<>>, held'[s] = <<>>
        PROVE  cursor'[s] = lastPublishedSequence
    <3>1. Len(held[s]) = 1
      <4>1. Tail(held[s]) = <<>>
        BY <2>7, <1>5
      <4>2. Len(Tail(held[s])) = 0
        <5>1. \A q \in Seq(Nat) : q = <<>> => Len(q) = 0
          OBVIOUS
        <5>2. Tail(held[s]) \in Seq(Nat)
          BY <1>2, <1>3
        <5> QED
          BY <4>1, <5>1, <5>2
      <4> QED
        BY <4>2, <2>4, <1>2
    <3>2. held[s][1] = lastPublishedSequence
      BY <2>7, <3>1, <1>2, <1>3, <1>5 DEF SubscriptionInv
    <3> QED
      BY <3>2, <2>1, <1>2, <1>3, <1>4, <1>5
  <2> QED
    BY <2>2, <2>3, <2>5, <2>6, <2>7, <1>2, <1>5 DEF SubscriptionInv, NoGap
<1>8. Live(s)' => running
  BY <1>2 DEF Keep, IndInv, Live
<1> QED
  BY <1>1, <1>6, <1>7, <1>8, OwnStep

(* A gap is opened up to the item in hand. *)
LEMMA OpenGapInv ==
  ASSUME IndInv, NEW s \in Subscribers, OpenGap(s)
  PROVE  IndInv'
<1>1. /\ UNCHANGED <<head, unreadable, running, lastPublishedSequence>>
      /\ \A t \in Subscribers \ {s} :
           /\ status'[t] = status[t] /\ start'[t] = start[t] /\ cursor'[t] = cursor[t]
           /\ inbox'[t] = inbox[t] /\ held'[t] = held[t]
           /\ gapThrough'[t] = gapThrough[t] /\ delivered'[t] = delivered[t]
  BY DEF IndInv, TypeOK, OpenGap
<1>2. /\ SubscriptionInv(s) /\ Live(s)
      /\ held[s] \in Seq(Nat) /\ inbox[s] \in Seq(Nat) /\ delivered[s] \in Seq(Nat)
      /\ start[s] \in Nat /\ cursor[s] \in Nat /\ gapThrough[s] \in Nat
      /\ lastPublishedSequence \in Nat
  BY DEF IndInv, TypeOK, OpenGap, AtItem, ReadingGap
<1>3. held[s] # <<>> /\ Head(held[s]) = held[s][1] /\ held[s][1] \in Nat
  BY <1>2 DEF OpenGap, AtItem
<1>4. /\ gapThrough'[s] = Head(held[s]) - 1
      /\ Head(held[s]) > cursor[s] + 1
      /\ start'[s] = start[s] /\ cursor'[s] = cursor[s] /\ delivered'[s] = delivered[s]
      /\ held'[s] = held[s] /\ inbox'[s] = inbox[s]
      /\ lastPublishedSequence' = lastPublishedSequence
  BY DEF OpenGap, IndInv, TypeOK
<1>6. TypeOK'
  <2>1. gapThrough' = [gapThrough EXCEPT ![s] = held[s][1] - 1]
    BY <1>3 DEF OpenGap
  <2>2. held[s][1] - 1 \in Nat
    BY <1>2, <1>3, <1>4
  <2> QED
    BY <2>1, <2>2 DEF OpenGap, IndInv, TypeOK
<1>7. SubscriptionInv(s)'
  <2>1. cursor'[s] <= gapThrough'[s]
    BY <1>2, <1>3, <1>4
  <2>2. Live(s)
    BY <1>2
  <2> QED
    BY <2>1, <2>2, <1>2, <1>3, <1>4 DEF SubscriptionInv
<1>8. Live(s)' => running
  BY <1>2 DEF OpenGap, IndInv, Live
<1> QED
  BY <1>1, <1>6, <1>7, <1>8, OwnStep

(* A page of a gap read extends what was delivered, up to the gap's end. *)
LEMMA ReadGapPageInv ==
  ASSUME IndInv, NEW s \in Subscribers, ReadGapPage(s)
  PROVE  IndInv'
<1>1. /\ UNCHANGED <<head, unreadable, running, lastPublishedSequence>>
      /\ \A t \in Subscribers \ {s} :
           /\ status'[t] = status[t] /\ start'[t] = start[t] /\ cursor'[t] = cursor[t]
           /\ inbox'[t] = inbox[t] /\ held'[t] = held[t]
           /\ gapThrough'[t] = gapThrough[t] /\ delivered'[t] = delivered[t]
  BY DEF IndInv, TypeOK, ReadGapPage
<1>2. /\ SubscriptionInv(s) /\ Live(s)
      /\ held[s] \in Seq(Nat) /\ inbox[s] \in Seq(Nat) /\ delivered[s] \in Seq(Nat)
      /\ start[s] \in Nat /\ cursor[s] \in Nat /\ gapThrough[s] \in Nat
      /\ lastPublishedSequence \in Nat
  BY DEF IndInv, TypeOK, ReadGapPage, AtItem, ReadingGap
<1>3. /\ gapThrough[s] # NoGap /\ cursor[s] < gapThrough[s]
      /\ held[s] # <<>> /\ gapThrough[s] = Head(held[s]) - 1
  BY <1>2 DEF ReadGapPage, ReadingGap, SubscriptionInv
<1>4. /\ PageEnd(s) \in Nat /\ cursor[s] <= PageEnd(s) /\ PageEnd(s) <= gapThrough[s]
  BY <1>2, <1>3, BusAssumption DEF PageEnd, Smaller
<1>5. /\ cursor'[s] = PageEnd(s)
      /\ delivered'[s] = delivered[s] \o Interval(cursor[s], PageEnd(s))
      /\ start'[s] = start[s] /\ held'[s] = held[s] /\ inbox'[s] = inbox[s]
      /\ gapThrough'[s] = gapThrough[s]
      /\ lastPublishedSequence' = lastPublishedSequence
  BY DEF ReadGapPage, IndInv, TypeOK
<1>9. delivered'[s] = Interval(start[s], PageEnd(s)) /\ delivered'[s] \in Seq(Nat)
  <2>1. start[s] <= cursor[s] /\ delivered[s] = Interval(start[s], cursor[s])
    BY <1>2 DEF SubscriptionInv
  <2>2. start[s] <= PageEnd(s)
    BY <2>1, <1>2, <1>4
  <2> QED
    <3>1. Interval(start[s], cursor[s]) \o Interval(cursor[s], PageEnd(s))
            = Interval(start[s], PageEnd(s))
      BY <2>1, <1>2, <1>4, IntervalsJoin
    <3>2. Interval(start[s], PageEnd(s)) \in Seq(Nat)
      BY <2>2, <1>2, <1>4, IntervalIsSequence
    <3> QED
      BY <3>1, <3>2, <2>1, <1>5
<1>6. TypeOK'
  <2>1. /\ cursor' = [cursor EXCEPT ![s] = cursor'[s]]
        /\ delivered' = [delivered EXCEPT ![s] = delivered'[s]]
    BY DEF ReadGapPage, IndInv, TypeOK
  <2> QED
    BY <2>1, <1>4, <1>5, <1>9 DEF ReadGapPage, IndInv, TypeOK
<1>7. SubscriptionInv(s)'
  <2>1. held[s][1] <= lastPublishedSequence /\ Head(held[s]) = held[s][1]
    <3>1. 1 \in 1 .. Len(held[s]) /\ Head(held[s]) = held[s][1]
      BY <1>2, <1>3
    <3> QED
      BY <3>1, <1>2 DEF SubscriptionInv
  <2>2. held[s][1] \in Nat
    BY <1>2, <1>3
  <2>3. cursor'[s] <= lastPublishedSequence /\ start'[s] <= cursor'[s]
    <3>1. gapThrough[s] = held[s][1] - 1
      BY <2>1, <1>3
    <3>2. PageEnd(s) <= lastPublishedSequence
      BY <3>1, <2>1, <2>2, <1>2, <1>4
    <3>3. start[s] <= cursor[s]
      BY <1>2 DEF SubscriptionInv
    <3> QED
      BY <3>2, <3>3, <1>2, <1>4, <1>5
  <2> QED
    BY <2>3, <1>2, <1>3, <1>4, <1>5, <1>9 DEF SubscriptionInv, Live
<1>8. Live(s)' => running
  BY <1>2 DEF ReadGapPage, IndInv, Live
<1> QED
  BY <1>1, <1>6, <1>7, <1>8, OwnStep

(* At a gap's end the cursor is its upper bound: nothing else moves. *)
LEMMA CloseGapInv ==
  ASSUME IndInv, NEW s \in Subscribers, CloseGap(s)
  PROVE  IndInv'
<1>1. /\ UNCHANGED <<head, unreadable, running, lastPublishedSequence>>
      /\ \A t \in Subscribers \ {s} :
           /\ status'[t] = status[t] /\ start'[t] = start[t] /\ cursor'[t] = cursor[t]
           /\ inbox'[t] = inbox[t] /\ held'[t] = held[t]
           /\ gapThrough'[t] = gapThrough[t] /\ delivered'[t] = delivered[t]
  BY DEF IndInv, TypeOK, CloseGap
<1>2. /\ SubscriptionInv(s) /\ Live(s)
      /\ held[s] \in Seq(Nat) /\ inbox[s] \in Seq(Nat) /\ delivered[s] \in Seq(Nat)
      /\ start[s] \in Nat /\ cursor[s] \in Nat /\ gapThrough[s] \in Nat
      /\ lastPublishedSequence \in Nat
  BY DEF IndInv, TypeOK, CloseGap, AtItem, ReadingGap
<1>3. cursor[s] = gapThrough[s] /\ gapThrough[s] # NoGap
  BY <1>2 DEF CloseGap, SubscriptionInv
<1>4. /\ cursor'[s] = cursor[s] /\ cursor' = cursor
  <2>1. cursor' = [cursor EXCEPT ![s] = Larger(cursor[s], gapThrough[s])]
    BY DEF CloseGap
  <2>2. Larger(cursor[s], gapThrough[s]) = cursor[s]
    BY <1>2, <1>3 DEF Larger
  <2> QED
    BY <2>1, <2>2 DEF IndInv, TypeOK
<1>5. /\ start'[s] = start[s] /\ held'[s] = held[s] /\ inbox'[s] = inbox[s]
      /\ gapThrough'[s] = NoGap /\ delivered'[s] = delivered[s]
      /\ lastPublishedSequence' = lastPublishedSequence
  BY DEF CloseGap, IndInv, TypeOK
<1>6. TypeOK'
  BY <1>4 DEF CloseGap, IndInv, TypeOK, NoGap
<1>7. SubscriptionInv(s)'
  BY <1>2, <1>3, <1>4, <1>5 DEF SubscriptionInv, CloseGap, Live
<1>8. Live(s)' => running
  BY <1>2 DEF CloseGap, IndInv, Live
<1> QED
  BY <1>1, <1>6, <1>7, <1>8, OwnStep

(* A stopped process has no subscription. *)
LEMMA StopInv ==
  ASSUME IndInv, Stop
  PROVE  IndInv'
<1>1. TypeOK'
  <2>1. <<>> \in Seq(Nat)
    OBVIOUS
  <2>2. /\ inbox' \in [Subscribers -> Seq(Nat)]
        /\ held' \in [Subscribers -> Seq(Nat)]
    BY <2>1 DEF Stop
  <2>3. status' \in [Subscribers -> Status] /\ gapThrough' \in [Subscribers -> Nat]
    BY DEF Stop, Status, NoGap
  <2> QED
    BY <2>2, <2>3 DEF IndInv, TypeOK, Stop
<1>2. ASSUME NEW s \in Subscribers
      PROVE  SubscriptionInv(s)' /\ ~Live(s)'
  <2>1. SubscriptionInv(s)
    BY DEF IndInv
  <2>2. /\ start'[s] = start[s] /\ cursor'[s] = cursor[s] /\ delivered'[s] = delivered[s]
        /\ inbox'[s] = <<>> /\ held'[s] = <<>> /\ gapThrough'[s] = NoGap
        /\ lastPublishedSequence' = lastPublishedSequence /\ ~Live(s)'
    BY DEF Stop, Live
  <2> QED
    BY <2>1, <2>2 DEF SubscriptionInv
<1> QED
  BY <1>1, <1>2 DEF IndInv, Stop

(* Publication resumes at the head, where no subscription can have been. *)
LEMMA BootInv ==
  ASSUME IndInv, Boot
  PROVE  IndInv'
<1>1. TypeOK'
  BY DEF IndInv, TypeOK, Boot, subscriptionVars
<1>2. /\ lastPublishedSequence' = head /\ lastPublishedSequence <= head
      /\ head \in Nat /\ lastPublishedSequence \in Nat
      /\ head' = head /\ UNCHANGED subscriptionVars
  BY DEF IndInv, TypeOK, Boot
<1>3. ASSUME NEW s \in Subscribers
      PROVE  SubscriptionInv(s)'
  <2>1. /\ SubscriptionInv(s) /\ ~Live(s)
        /\ cursor[s] \in Nat /\ held[s] \in Seq(Nat) /\ inbox[s] \in Seq(Nat)
    BY DEF IndInv, Boot, TypeOK
  <2>2. \A i \in 1 .. Len(held[s]) : held[s][i] <= head
    <3> SUFFICES ASSUME NEW i \in 1 .. Len(held[s])
                 PROVE  held[s][i] <= head
      OBVIOUS
    <3>1. held[s][i] \in Nat /\ held[s][i] <= lastPublishedSequence
      BY <2>1 DEF SubscriptionInv
    <3> QED
      BY <3>1, <1>2
  <2>3. \A i \in 1 .. Len(inbox[s]) : inbox[s][i] <= head
    <3> SUFFICES ASSUME NEW i \in 1 .. Len(inbox[s])
                 PROVE  inbox[s][i] <= head
      OBVIOUS
    <3>1. inbox[s][i] \in Nat
      BY <2>1
    <3>2. inbox[s][i] <= lastPublishedSequence
      BY <2>1 DEF SubscriptionInv
    <3> QED
      BY <3>1, <3>2, <1>2
  <2>4. cursor[s] <= head
    BY <1>2, <2>1 DEF SubscriptionInv
  <2> QED
    BY <1>2, <2>1, <2>2, <2>3, <2>4 DEF SubscriptionInv, Live, subscriptionVars
<1>4. running'
  BY DEF Boot
<1> QED
  BY <1>1, <1>2, <1>3, <1>4 DEF IndInv

(* Every step of the bus preserves the inductive invariant. *)
LEMMA NextInv == IndInv /\ [Next]_vars => IndInv'
<1> SUFFICES ASSUME IndInv, [Next]_vars
             PROVE  IndInv'
  OBVIOUS
<1>1. CASE \E count \in 1 .. MaxSequence : Commit(count)
  BY <1>1, CommitInv
<1>2. CASE CommitUnreadable
  <2>1. 1 \in 1 .. MaxSequence
    BY <1>2, BusAssumption DEF CommitUnreadable, IndInv, TypeOK
  <2> QED
    BY <1>2, <2>1, CommitInv
<1>3. CASE PublishCommitted
  BY <1>3, PublishInv
<1>4. CASE Stop
  BY <1>4, StopInv
<1>5. CASE Boot
  BY <1>5, BootInv
<1>6. ASSUME NEW s \in Subscribers, Subscribe(s) \/ Unsubscribe(s)
      PROVE  IndInv'
  BY <1>6, SubscribeInv, UnsubscribeInv
<1>7. ASSUME NEW s \in Subscribers, Advance(s)
      PROVE  IndInv'
  BY <1>7, PullInv, KeepInv, OpenGapInv, ReadGapPageInv, DieInGapInv, CloseGapInv DEF Advance
<1>8. CASE UNCHANGED vars
  BY <1>8 DEF IndInv, TypeOK, SubscriptionInv, Live, vars, subscriptionVars
<1> QED
  BY <1>1, <1>2, <1>3, <1>4, <1>5, <1>6, <1>7, <1>8 DEF Next

(***************************************************************************)
(* The theorems                                                            *)
(***************************************************************************)

(* The inductive invariant holds of every state of the bus. *)
THEOREM BusInvariant == Spec => []IndInv
<1>1. Init => IndInv
  BY InitInv
<1>2. IndInv /\ [Next]_vars => IndInv'
  BY NextInv
<1> QED
  BY <1>1, <1>2, PTL DEF Spec

(* Every variable of the bus keeps its type. *)
THEOREM BusTypes == Spec => []TypeOK
<1>1. IndInv => TypeOK
  BY DEF IndInv
<1> QED
  BY <1>1, BusInvariant, PTL

(* subscribeDomainEvents: each subscription has been given exactly the      *)
(* committed events after its starting cursor, once each and in order,      *)
(* for any window the bus keeps and any events other processes commit.      *)
THEOREM ExactDelivery == Spec => []DeliveredExactly
<1>1. IndInv => DeliveredExactly
  BY IndInvImplies
<1> QED
  BY <1>1, BusInvariant, PTL

(* A sliding bus loses no published event to a live subscription: what      *)
(* slid out of the window is behind a gap the subscription will read.       *)
THEOREM NoPublishedEventLost == Spec => []NothingLost
<1>1. IndInv => NothingLost
  BY IndInvImplies
<1> QED
  BY <1>1, BusInvariant, PTL

(* A gap read ends before the item that jumped, so the item is emitted once, *)
(* and reads only what the store holds.                                      *)
THEOREM GapsBounded == Spec => []GapEndsBeforeHeldItem
<1>1. IndInv => GapEndsBeforeHeldItem
  BY IndInvImplies
<1> QED
  BY <1>1, BusInvariant, PTL

(* No cursor and nothing on its way passes what is published, nor that the   *)
(* store's head, and no subscription outlives its process.                   *)
THEOREM CursorsBounded == Spec => []NothingAhead
<1>1. IndInv => NothingAhead
  BY IndInvImplies
<1> QED
  BY <1>1, BusInvariant, PTL

(***************************************************************************)
(* The bus implements EventDelivery                                        *)
(***************************************************************************)

(* How far a subscription has come is its cursor. *)
LEMMA ReachedIsCursor ==
  ASSUME IndInv, NEW s \in Subscribers
  PROVE  Delivery!Reached(s) = cursor[s]
<1>1. start[s] \in Nat /\ cursor[s] \in Nat /\ start[s] <= cursor[s]
  BY DEF IndInv, TypeOK, SubscriptionInv
<1>2. delivered[s] = Interval(start[s], cursor[s])
  BY DEF IndInv, SubscriptionInv
<1>3. Len(Interval(start[s], cursor[s])) = cursor[s] - start[s]
  BY <1>1, IntervalIsSequence
<1> QED
  BY <1>1, <1>2, <1>3 DEF Delivery!Reached

(* A step that hands a subscription the events after its cursor, up to a    *)
(* published one, delivers.                                                 *)
LEMMA HandingOnDelivers ==
  ASSUME IndInv, NEW s \in Subscribers, Live(s), NEW through \in Nat,
         cursor[s] < through, through <= lastPublishedSequence,
         delivered' = [delivered EXCEPT ![s] = @ \o Interval(cursor[s], through)],
         UNCHANGED <<head, lastPublishedSequence, status, start>>
  PROVE  Delivery!Next
<1>1. Delivery!Reached(s) = cursor[s]
  BY ReachedIsCursor
<1>2. cursor[s] \in Nat /\ lastPublishedSequence \in Nat
  BY DEF IndInv, TypeOK
<1>3. through \in (cursor[s] + 1) .. lastPublishedSequence
  BY <1>2
<1>4. Delivery!Interval(cursor[s], through) = Interval(cursor[s], through)
  BY DEF Delivery!Interval, Interval
<1>5. Delivery!Deliver(s)
  <2>1. [t \in Subscribers |-> Live(t)][s]
    OBVIOUS
  <2>2. [t \in Subscribers |-> Live(t)]' = [t \in Subscribers |-> Live(t)]
    BY DEF Live
  <2>3. delivered' = [delivered EXCEPT ![s] = @ \o Delivery!Interval(Delivery!Reached(s), through)]
    BY <1>1, <1>4
  <2> QED
    BY <1>1, <1>3, <2>1, <2>2, <2>3 DEF Delivery!Deliver
<1> QED
  BY <1>5 DEF Delivery!Next

(* A step that moves neither the log, nor what is published, nor what a     *)
(* subscription is or was given, is none of the promise's.                  *)
LEMMA PrivateSteps ==
  ASSUME UNCHANGED <<head, lastPublishedSequence, status, start, delivered>>
  PROVE  UNCHANGED Delivery!vars
<1>1. [t \in Subscribers |-> Live(t)]' = [t \in Subscribers |-> Live(t)]
  BY DEF Live
<1> QED
  BY <1>1 DEF Delivery!vars

(* A subscription that ends. *)
LEMMA EndingEnds ==
  ASSUME IndInv, NEW ended \in SUBSET Subscribers,
         \A t \in Subscribers : Live(t)' <=> (Live(t) /\ t \notin ended),
         UNCHANGED <<head, lastPublishedSequence, start, delivered>>
  PROVE  Delivery!Next
<1>1. [t \in Subscribers |-> Live(t)]' =
        [t \in Subscribers |-> [u \in Subscribers |-> Live(u)][t] /\ t \notin ended]
  BY DEF Live
<1>2. Delivery!End(ended)
  BY <1>1 DEF Delivery!End
<1> QED
  BY <1>2 DEF Delivery!Next

LEMMA StepsDeliver ==
  ASSUME IndInv, [Next]_vars
  PROVE  [Delivery!Next]_(Delivery!vars)
<1>t. /\ head \in Nat /\ lastPublishedSequence \in Nat /\ status \in [Subscribers -> Status]
      /\ cursor \in [Subscribers -> Nat] /\ delivered \in [Subscribers -> Seq(Nat)]
      /\ held \in [Subscribers -> Seq(Nat)] /\ start \in [Subscribers -> Nat]
  BY DEF IndInv, TypeOK
<1>1. ASSUME NEW count \in 1 .. MaxSequence, Commit(count) PROVE Delivery!Next
  <2>1. head' \in (head + 1) .. MaxSequence
    BY <1>1, <1>t, BusAssumption DEF Commit
  <2>2. [t \in Subscribers |-> Live(t)]' = [t \in Subscribers |-> Live(t)]
    BY <1>1 DEF Commit, subscriptionVars, Live
  <2>3. Delivery!Commit
    BY <1>1, <2>1, <2>2 DEF Commit, subscriptionVars, Delivery!Commit
  <2> QED
    BY <2>3 DEF Delivery!Next
<1>2. CASE CommitUnreadable
  <2>1. head' \in (head + 1) .. MaxSequence
    BY <1>2, <1>t, BusAssumption DEF CommitUnreadable
  <2>2. [t \in Subscribers |-> Live(t)]' = [t \in Subscribers |-> Live(t)]
    BY <1>2 DEF CommitUnreadable, subscriptionVars, Live
  <2>3. Delivery!Commit
    BY <1>2, <2>1, <2>2 DEF CommitUnreadable, subscriptionVars, Delivery!Commit
  <2> QED
    BY <2>3 DEF Delivery!Next
<1>3. CASE PublishCommitted
  <2>1. PICK from \in 0 .. head, through \in 1 .. head : from < through /\ Publish(from, through)
    BY <1>3 DEF PublishCommitted
  <2>2. CASE lastPublishedSequence' = lastPublishedSequence
    BY <2>1, <2>2, PrivateSteps DEF Publish
  <2>3. CASE lastPublishedSequence' # lastPublishedSequence
    <3>1. lastPublishedSequence' = through /\ Unpublished(from, through) # <<>>
      BY <2>1, <2>3 DEF Publish
    <3>2. lastPublishedSequence < through
      <4> SUFFICES ASSUME ~(lastPublishedSequence < through) PROVE FALSE
        OBVIOUS
      <4> DEFINE low == Larger(from, lastPublishedSequence)
      <4>1. low \in Nat /\ low >= lastPublishedSequence
        BY <1>t DEF Larger
      <4>2. 1 .. (through - low) = {}
        BY <1>t, <4>1
      <4>3. Unpublished(from, through) = [i \in {} |-> low + i]
        BY <4>2 DEF Unpublished, Interval
      <4> QED
        BY <3>1, <4>3
    <3>3. lastPublishedSequence' \in (lastPublishedSequence + 1) .. head
      BY <1>t, <3>1, <3>2
    <3>4. [t \in Subscribers |-> Live(t)]' = [t \in Subscribers |-> Live(t)]
      BY <2>1 DEF Publish, Live
    <3>5. Delivery!Publish
      BY <2>1, <3>3, <3>4 DEF Publish, Delivery!Publish
    <3> QED
      BY <3>5 DEF Delivery!Next
  <2> QED
    BY <2>2, <2>3
<1>4. CASE Stop
  <2>1. \A t \in Subscribers : Live(t)' <=> (Live(t) /\ t \notin Subscribers)
    BY <1>4 DEF Stop, Live
  <2> QED
    BY <1>4, <2>1, EndingEnds DEF Stop
<1>5. CASE Boot
  <2>1. \A t \in Subscribers : ~[u \in Subscribers |-> Live(u)][t]
    BY <1>5 DEF Boot, IndInv
  <2>2. [t \in Subscribers |-> Live(t)]' = [t \in Subscribers |-> Live(t)]
    BY <1>5 DEF Boot, subscriptionVars, Live
  <2>3. Delivery!Restart
    BY <1>5, <2>1, <2>2 DEF Boot, subscriptionVars, Delivery!Restart
  <2> QED
    BY <2>3 DEF Delivery!Next
<1>6. ASSUME NEW s \in Subscribers, Subscribe(s) PROVE Delivery!Next
  <2>1. ~[t \in Subscribers |-> Live(t)][s]
    BY <1>6 DEF Subscribe
  <2>2. [t \in Subscribers |-> Live(t)]' = [[t \in Subscribers |-> Live(t)] EXCEPT ![s] = TRUE]
    BY <1>6, <1>t DEF Subscribe, Live
  <2>3. Delivery!Subscribe(s)
    BY <1>6, <2>1, <2>2 DEF Subscribe, Delivery!Subscribe
  <2> QED
    BY <2>3 DEF Delivery!Next
<1>7. ASSUME NEW s \in Subscribers, Unsubscribe(s) \/ DieInGap(s) PROVE Delivery!Next
  <2>1. status' \in {[status EXCEPT ![s] = "closed"], [status EXCEPT ![s] = "died"]}
    BY <1>7 DEF Unsubscribe, DieInGap
  <2>2. \A t \in Subscribers : Live(t)' <=> (Live(t) /\ t \notin {s})
    BY <1>t, <2>1 DEF Live
  <2>3. UNCHANGED <<head, lastPublishedSequence, start, delivered>>
    BY <1>7 DEF Unsubscribe, DieInGap
  <2> QED
    BY <2>2, <2>3, EndingEnds
<1>8. ASSUME NEW s \in Subscribers, Pull(s) \/ OpenGap(s) \/ CloseGap(s)
      PROVE  UNCHANGED Delivery!vars
  BY <1>8, PrivateSteps DEF Pull, OpenGap, CloseGap
<1>9. ASSUME NEW s \in Subscribers, Keep(s) PROVE [Delivery!Next]_(Delivery!vars)
  <2>1. /\ Live(s) /\ held[s] # <<>> /\ Head(held[s]) <= cursor[s] + 1
        /\ UNCHANGED <<head, lastPublishedSequence, status, start>>
        /\ delivered' = [delivered EXCEPT ![s] =
              IF Head(held[s]) > cursor[s] THEN Append(@, Head(held[s])) ELSE @]
    BY <1>9 DEF Keep, AtItem
  <2>2. Head(held[s]) = held[s][1] /\ held[s][1] \in Nat /\ 1 \in 1 .. Len(held[s])
    BY <1>t, <2>1
  <2>3. SubscriptionInv(s)
    BY DEF IndInv
  <2>4. held[s][1] <= lastPublishedSequence
    BY <2>2, <2>3 DEF SubscriptionInv
  <2>5. CASE ~(Head(held[s]) > cursor[s])
    <3>1. delivered' = delivered
      BY <1>t, <2>1, <2>5
    <3> QED
      BY <2>1, <3>1, PrivateSteps
  <2>6. CASE Head(held[s]) > cursor[s]
    <3>1. Head(held[s]) = cursor[s] + 1 /\ cursor[s] \in Nat /\ start[s] \in Nat
      BY <1>t, <2>1, <2>2, <2>6
    <3>2. delivered[s] = Interval(start[s], cursor[s]) /\ start[s] <= cursor[s]
      BY <2>3 DEF SubscriptionInv
    <3>3. Append(delivered[s], cursor[s] + 1) = Interval(start[s], cursor[s] + 1)
      BY <3>1, <3>2, IntervalExtends
    <3>4. Interval(start[s], cursor[s]) \o Interval(cursor[s], cursor[s] + 1)
            = Interval(start[s], cursor[s] + 1)
      <4>1. cursor[s] + 1 \in Nat /\ cursor[s] <= cursor[s] + 1
        BY <3>1
      <4> QED
        BY <3>1, <3>2, <4>1, IntervalsJoin
    <3>5. delivered' = [delivered EXCEPT ![s] = @ \o Interval(cursor[s], cursor[s] + 1)]
      <4>1. delivered' = [delivered EXCEPT ![s] = Append(delivered[s], cursor[s] + 1)]
        BY <2>1, <2>6, <3>1
      <4>2. Append(delivered[s], cursor[s] + 1)
              = delivered[s] \o Interval(cursor[s], cursor[s] + 1)
        BY <3>2, <3>3, <3>4
      <4> QED
        BY <4>1, <4>2
    <3>6. cursor[s] + 1 \in Nat /\ cursor[s] < cursor[s] + 1 /\ cursor[s] + 1 <= lastPublishedSequence
      BY <1>t, <2>2, <2>4, <3>1
    <3> QED
      BY <2>1, <3>5, <3>6, HandingOnDelivers
  <2> QED
    BY <2>5, <2>6
<1>10. ASSUME NEW s \in Subscribers, ReadGapPage(s) PROVE Delivery!Next
  <2>1. /\ Live(s) /\ gapThrough[s] # NoGap /\ cursor[s] < gapThrough[s]
        /\ UNCHANGED <<head, lastPublishedSequence, status, start>>
        /\ delivered' = [delivered EXCEPT ![s] = @ \o Interval(cursor[s], PageEnd(s))]
    BY <1>10 DEF ReadGapPage, ReadingGap
  <2>2. SubscriptionInv(s) /\ gapThrough[s] \in Nat
    BY DEF IndInv, TypeOK
  <2>3. held[s] # <<>> /\ gapThrough[s] = Head(held[s]) - 1
    BY <2>1, <2>2 DEF SubscriptionInv
  <2>4. Head(held[s]) = held[s][1] /\ held[s][1] \in Nat /\ 1 \in 1 .. Len(held[s])
    BY <1>t, <2>3
  <2>5. held[s][1] <= lastPublishedSequence
    BY <2>2, <2>4 DEF SubscriptionInv
  <2>6. PageEnd(s) \in Nat /\ cursor[s] < PageEnd(s) /\ PageEnd(s) <= gapThrough[s]
    BY <1>t, <2>1, <2>2, BusAssumption DEF PageEnd, Smaller
  <2>7. PageEnd(s) <= lastPublishedSequence
    BY <1>t, <2>2, <2>3, <2>4, <2>5, <2>6
  <2> QED
    BY <2>1, <2>6, <2>7, HandingOnDelivers
<1>11. CASE UNCHANGED vars
  BY <1>11, PrivateSteps DEF vars, subscriptionVars
<1> QED
  BY <1>1, <1>2, <1>3, <1>4, <1>5, <1>6, <1>7, <1>8, <1>9, <1>10, <1>11, Zenon DEF Next, Advance

(* Every run of the bus is, but for what nobody can see of it, a run of the *)
(* promise of subscribeDomainEvents: its start is one, and each of its      *)
(* steps is one of the promise's or changes nothing the promise speaks of.  *)
(* That Deliver is fair there is left to TLC.                               *)
THEOREM BusImplementsDelivery ==
  Spec => Delivery!Init /\ [][Delivery!Next]_(Delivery!vars)
<1>1. Init => Delivery!Init
  <2> SUFFICES ASSUME Init PROVE Delivery!Init
    OBVIOUS
  <2>1. [s \in Subscribers |-> Live(s)] = [s \in Subscribers |-> FALSE]
    BY DEF Init, Live
  <2> QED
    BY <2>1 DEF Init, Delivery!Init
<1>2. IndInv /\ [Next]_vars => [Delivery!Next]_(Delivery!vars)
  BY StepsDeliver
<1> QED
  BY <1>1, <1>2, BusInvariant, PTL DEF Spec
=============================================================================
