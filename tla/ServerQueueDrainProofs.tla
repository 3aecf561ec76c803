------------------------ MODULE ServerQueueDrainProofs ------------------------
(***************************************************************************)
(* Proofs about the follow-up queue and the fiber that drains it, for any  *)
(* messages and bounds: what is sent is queued no more, a restart's queue  *)
(* waits for a Resume, a failed start holds the rest, and no message is    *)
(* sent past the newest one's start or again while it may have been taken. *)
(***************************************************************************)
EXTENDS ServerQueueDrain, SequenceTheorems, TLAPS

-----------------------------------------------------------------------------
(* Sequences without repetition                                             *)

Elements(s) == {s[i] : i \in DOMAIN s}
Distinct(s) == \A i, j \in DOMAIN s : s[i] = s[j] => i = j

LEMMA ConcatElements ==
  ASSUME NEW S, NEW s \in Seq(S), NEW t \in Seq(S)
  PROVE  /\ s \o t \in Seq(S)
         /\ Elements(s \o t) = Elements(s) \cup Elements(t)
         /\ Distinct(s) /\ Distinct(t) /\ Elements(s) \cap Elements(t) = {}
              => Distinct(s \o t)
<1>a. s \o t \in Seq(S)
  BY ConcatProperties
<1>b. Len(s \o t) = Len(s) + Len(t)
  BY ConcatProperties
<1>c. \A i \in 1 .. Len(s) + Len(t) : (s \o t)[i] = IF i <= Len(s) THEN s[i] ELSE t[i - Len(s)]
  BY ConcatProperties
<1>d. PICK r \in Seq(S) : r = s \o t
  BY <1>a
<1>1. /\ r = s \o t
      /\ Len(r) = Len(s) + Len(t)
      /\ \A i \in 1 .. Len(s) + Len(t) : r[i] = IF i <= Len(s) THEN s[i] ELSE t[i - Len(s)]
  BY <1>b, <1>c, <1>d, Zenon
<1>2. Len(s) \in Nat /\ Len(t) \in Nat
  OBVIOUS
<1>3. DOMAIN r = 1 .. Len(r)
  OBVIOUS
<1>4. \A k \in 1 .. Len(s) : r[k] = s[k]
  BY <1>1, <1>2
<1>5. \A k \in 1 .. Len(t) : r[Len(s) + k] = t[k]
  <2>1. SUFFICES ASSUME NEW k \in 1 .. Len(t) PROVE r[Len(s) + k] = t[k]
    OBVIOUS
  <2>2. /\ Len(s) + k \in 1 .. Len(s) + Len(t)
        /\ ~(Len(s) + k <= Len(s))
        /\ (Len(s) + k) - Len(s) = k
    BY <1>2
  <2> QED
    BY <1>1, <2>2
<1> DEFINE P(rr) == /\ Elements(rr) = Elements(s) \cup Elements(t)
                    /\ Distinct(s) /\ Distinct(t) /\ Elements(s) \cap Elements(t) = {} => Distinct(rr)
<1>6. P(r)
  <2>1. /\ DOMAIN r = 1 .. Len(s) + Len(t)
        /\ \A k \in 1 .. Len(s) : r[k] = s[k]
        /\ \A k \in 1 .. Len(t) : r[Len(s) + k] = t[k]
    BY <1>1, <1>2, <1>3, <1>4, <1>5, Zenon
  <2>a. /\ DOMAIN s = 1 .. Len(s) /\ DOMAIN t = 1 .. Len(t)
        /\ Len(s) \in Nat /\ Len(t) \in Nat
    OBVIOUS
  <2>2. ASSUME NEW k \in DOMAIN r
        PROVE  k \in DOMAIN s \/ \E n \in DOMAIN t : k = Len(s) + n
    <3>1. CASE k <= Len(s)
      BY <2>1, <2>a, <3>1
    <3>2. CASE ~(k <= Len(s))
      <4>0. k \in Int
        BY <2>1, <2>a
      <4>1. PICK n \in Int : n = k - Len(s)
        BY <2>1, <2>a, <4>0
      <4>2. n \in 1 .. Len(t) /\ k = Len(s) + n
        BY <2>1, <2>a, <3>2, <4>0, <4>1
      <4> QED
        BY <2>1, <2>a, <4>2
    <3> QED
      BY <3>1, <3>2
  <2>3. \A k \in DOMAIN s : k \in DOMAIN r /\ r[k] = s[k]
    BY <2>1, <2>a
  <2>4. \A n \in DOMAIN t : Len(s) + n \in DOMAIN r /\ r[Len(s) + n] = t[n]
    BY <2>1, <2>a
  <2>5. Elements(r) = Elements(s) \cup Elements(t)
    BY <2>2, <2>3, <2>4 DEF Elements
  <2>6. ASSUME Distinct(s), Distinct(t), Elements(s) \cap Elements(t) = {},
               NEW j \in DOMAIN r, NEW k \in DOMAIN r, r[j] = r[k]
        PROVE  j = k
    <3>1. CASE j \in DOMAIN s /\ k \in DOMAIN s
      BY <2>3, <2>6, <3>1 DEF Distinct
    <3>2. CASE j \in DOMAIN s /\ \E n \in DOMAIN t : k = Len(s) + n
      BY <2>3, <2>4, <2>6, <3>2 DEF Elements
    <3>3. CASE k \in DOMAIN s /\ \E n \in DOMAIN t : j = Len(s) + n
      BY <2>3, <2>4, <2>6, <3>3 DEF Elements
    <3>4. CASE (\E n \in DOMAIN t : k = Len(s) + n) /\ \E n \in DOMAIN t : j = Len(s) + n
      BY <2>4, <2>6, <3>4 DEF Distinct
    <3> QED
      BY <2>2, <3>1, <3>2, <3>3, <3>4
  <2> QED
    BY <2>5, <2>6 DEF Distinct
<1> QED
  BY <1>1, <1>6, Zenon

LEMMA SubSeqElements ==
  ASSUME NEW S, NEW s \in Seq(S), NEW a \in 1 .. Len(s) + 1, NEW b \in 0 .. Len(s)
  PROVE  /\ SubSeq(s, a, b) \in Seq(S)
         /\ Elements(SubSeq(s, a, b)) = {s[k] : k \in a .. b}
         /\ Distinct(s) => Distinct(SubSeq(s, a, b))
<1>0. \A i \in a .. b : s[i] \in S
  OBVIOUS
<1>a. SubSeq(s, a, b) \in Seq(S)
  BY <1>0, SubSeqProperties
<1>b. Len(SubSeq(s, a, b)) = IF a <= b THEN b - a + 1 ELSE 0
  BY <1>0, SubSeqProperties
<1>c. \A i \in 1 .. b - a + 1 : SubSeq(s, a, b)[i] = s[a + i - 1]
  BY <1>0, SubSeqProperties
<1>d. PICK r \in Seq(S) : r = SubSeq(s, a, b)
  BY <1>a
<1>1. /\ r = SubSeq(s, a, b)
      /\ Len(r) = IF a <= b THEN b - a + 1 ELSE 0
      /\ \A i \in 1 .. b - a + 1 : r[i] = s[a + i - 1]
  BY <1>b, <1>c, <1>d, Zenon
<1>2. /\ Len(s) \in Nat /\ a \in Nat /\ b \in Nat /\ DOMAIN s = 1 .. Len(s)
      /\ DOMAIN r = 1 .. Len(r)
  OBVIOUS
<1>3. Len(r) = IF a <= b THEN b - a + 1 ELSE 0
  BY <1>1
<1>4. \A k \in 1 .. b - a + 1 : r[k] = s[a + k - 1]
  BY <1>1
<1> HIDE <1>1
<1>5. \A k \in DOMAIN r : a + k - 1 \in a .. b /\ a + k - 1 \in DOMAIN s /\ r[k] = s[a + k - 1]
  BY <1>2, <1>3, <1>4
<1>6. \A n \in a .. b : \E k \in DOMAIN r : n = a + k - 1
  <2>1. SUFFICES ASSUME NEW n \in a .. b PROVE \E k \in DOMAIN r : n = a + k - 1
    OBVIOUS
  <2>2. PICK k \in Int : k = n - a + 1
    BY <1>2
  <2>3. k \in DOMAIN r /\ n = a + k - 1
    BY <1>2, <1>3, <2>2
  <2> QED
    BY <2>3
<1>7. Elements(r) = {s[k] : k \in a .. b}
  BY <1>5, <1>6 DEF Elements
<1>8. ASSUME Distinct(s) PROVE Distinct(r)
  BY <1>2, <1>5, <1>8 DEF Distinct
<1> QED
  BY <1>1, <1>7, <1>8, Zenon

LEMMA OneElement ==
  ASSUME NEW S, NEW x \in S
  PROVE  <<x>> \in Seq(S) /\ Elements(<<x>>) = {x} /\ Distinct(<<x>>)
<1>1. <<x>> \in Seq(S)
  OBVIOUS
<1>2. Elements(<<x>>) = {x}
  BY DEF Elements
<1>3. Distinct(<<x>>)
  BY DEF Distinct
<1> QED
  BY <1>1, <1>2, <1>3

(* An item put in at a place, or taken out of it.                           *)
Inserted(s, x, i) == SubSeq(s, 1, i - 1) \o <<x>> \o SubSeq(s, i, Len(s))

LEMMA InsertedElements ==
  ASSUME NEW S, NEW s \in Seq(S), NEW x \in S, NEW i \in 1 .. Len(s) + 1
  PROVE  /\ Inserted(s, x, i) \in Seq(S)
         /\ Elements(Inserted(s, x, i)) = Elements(s) \cup {x}
         /\ x \notin Elements(s) /\ Distinct(s) => Distinct(Inserted(s, x, i))
<1>r. PICK r : r = Inserted(s, x, i)
  OBVIOUS
<1>0. /\ Len(s) \in Nat /\ DOMAIN s = 1 .. Len(s)
      /\ 1 \in 1 .. Len(s) + 1 /\ i - 1 \in 0 .. Len(s) /\ Len(s) \in 0 .. Len(s)
  OBVIOUS
<1>1. /\ SubSeq(s, 1, i - 1) \in Seq(S)
      /\ Elements(SubSeq(s, 1, i - 1)) = {s[k] : k \in 1 .. i - 1}
      /\ Distinct(s) => Distinct(SubSeq(s, 1, i - 1))
  BY <1>0, SubSeqElements, Zenon
<1>2. /\ SubSeq(s, i, Len(s)) \in Seq(S)
      /\ Elements(SubSeq(s, i, Len(s))) = {s[k] : k \in i .. Len(s)}
      /\ Distinct(s) => Distinct(SubSeq(s, i, Len(s)))
  BY <1>0, SubSeqElements, Zenon
<1>3. PICK a \in Seq(S) : a = SubSeq(s, 1, i - 1)
  BY <1>1, Zenon
<1>4. PICK c \in Seq(S) : c = SubSeq(s, i, Len(s))
  BY <1>2, Zenon
<1>5. PICK o \in Seq(S) : o = <<x>>
  BY OneElement, Zenon
<1>6. PICK b \in Seq(S) : b = a \o o
  BY ConcatElements, Zenon
<1>7. r = b \o c
  BY <1>r, <1>3, <1>4, <1>5, <1>6, Zenon DEF Inserted
<1>8. /\ Elements(a) = {s[k] : k \in 1 .. i - 1}
      /\ Elements(c) = {s[k] : k \in i .. Len(s)}
      /\ Distinct(s) => Distinct(a) /\ Distinct(c)
  BY <1>1, <1>2, <1>3, <1>4, Zenon
<1>9. Elements(o) = {x} /\ Distinct(o)
  BY <1>5, OneElement, Zenon
<1>10. /\ Elements(b) = Elements(a) \cup {x}
       /\ Distinct(a) /\ x \notin Elements(a) => Distinct(b)
  BY <1>6, <1>9, ConcatElements
<1>11. /\ r \in Seq(S) /\ Elements(r) = Elements(b) \cup Elements(c)
       /\ Distinct(b) /\ Distinct(c) /\ Elements(b) \cap Elements(c) = {} => Distinct(r)
  <2>1. /\ b \o c \in Seq(S) /\ Elements(b \o c) = Elements(b) \cup Elements(c)
        /\ Distinct(b) /\ Distinct(c) /\ Elements(b) \cap Elements(c) = {} => Distinct(b \o c)
    BY ConcatElements
  <2> QED
    BY <1>7, <2>1, Zenon
<1>12. \A k : k \in DOMAIN s <=> k \in 1 .. i - 1 \/ k \in i .. Len(s)
  BY <1>0
<1>13. \A j \in 1 .. i - 1, k \in i .. Len(s) : j # k
  BY <1>0
<1>14. Elements(a) \cup Elements(c) = Elements(s)
  <2>1. ASSUME NEW e \in Elements(a) \cup Elements(c) PROVE e \in Elements(s)
    <3>1. (\E k \in 1 .. i - 1 : e = s[k]) \/ \E k \in i .. Len(s) : e = s[k]
      BY <1>8, Zenon
    <3> QED
      BY <1>12, <3>1, Zenon DEF Elements
  <2>2. ASSUME NEW k \in DOMAIN s PROVE s[k] \in Elements(a) \cup Elements(c)
    BY <1>8, <1>12, Zenon
  <2> QED
    BY <2>1, <2>2, Zenon DEF Elements
<1>15. Distinct(s) => Elements(a) \cap Elements(c) = {}
  <2>1. SUFFICES ASSUME Distinct(s), NEW j \in 1 .. i - 1, NEW k \in i .. Len(s), s[j] = s[k]
                 PROVE  FALSE
    BY <1>8, Zenon
  <2> QED
    BY <1>12, <1>13, <2>1, Zenon DEF Distinct
<1>16. x \notin Elements(s) => x \notin Elements(a) /\ x \notin Elements(c)
  BY <1>14, Zenon
<1>17. x \notin Elements(s) /\ Distinct(s) => Elements(b) \cap Elements(c) = {}
  BY <1>10, <1>15, <1>16
<1>18. x \notin Elements(s) /\ Distinct(s) => Distinct(r)
  <2>1. SUFFICES ASSUME x \notin Elements(s), Distinct(s) PROVE Distinct(r)
    OBVIOUS
  <2>2. Distinct(a) /\ Distinct(c) /\ x \notin Elements(a) /\ Elements(b) \cap Elements(c) = {}
    BY <1>8, <1>16, <1>17, <2>1, Zenon
  <2> QED
    BY <1>10, <1>11, <2>2, Zenon
<1>19. Elements(r) = Elements(s) \cup {x}
  BY <1>10, <1>11, <1>14
<1> QED
  BY <1>r, <1>11, <1>18, <1>19, Zenon

LEMMA RemovedElements ==
  ASSUME NEW S, NEW s \in Seq(S), Distinct(s), NEW i \in 1 .. Len(s), NEW r,
         r = SubSeq(s, 1, i - 1) \o SubSeq(s, i + 1, Len(s))
  PROVE  /\ r \in Seq(S)
         /\ Elements(r) = Elements(s) \ {s[i]}
         /\ Distinct(r)
<1>0. /\ Len(s) \in Nat /\ DOMAIN s = 1 .. Len(s)
      /\ 1 \in 1 .. Len(s) + 1 /\ i - 1 \in 0 .. Len(s) /\ Len(s) \in 0 .. Len(s)
      /\ i + 1 \in 1 .. Len(s) + 1
  OBVIOUS
<1>1. /\ SubSeq(s, 1, i - 1) \in Seq(S)
      /\ Elements(SubSeq(s, 1, i - 1)) = {s[k] : k \in 1 .. i - 1}
      /\ Distinct(SubSeq(s, 1, i - 1))
  BY <1>0, SubSeqElements, Zenon
<1>2. /\ SubSeq(s, i + 1, Len(s)) \in Seq(S)
      /\ Elements(SubSeq(s, i + 1, Len(s))) = {s[k] : k \in i + 1 .. Len(s)}
      /\ Distinct(SubSeq(s, i + 1, Len(s)))
  BY <1>0, SubSeqElements, Zenon
<1>3. PICK a \in Seq(S) : a = SubSeq(s, 1, i - 1)
  BY <1>1, Zenon
<1>4. PICK c \in Seq(S) : c = SubSeq(s, i + 1, Len(s))
  BY <1>2, Zenon
<1>5. r = a \o c
  BY <1>3, <1>4, Zenon
<1>6. /\ Elements(a) = {s[k] : k \in 1 .. i - 1} /\ Distinct(a)
      /\ Elements(c) = {s[k] : k \in i + 1 .. Len(s)} /\ Distinct(c)
  BY <1>1, <1>2, <1>3, <1>4, Zenon
<1>7. /\ r \in Seq(S) /\ Elements(r) = Elements(a) \cup Elements(c)
      /\ Elements(a) \cap Elements(c) = {} => Distinct(r)
  <2>1. /\ a \o c \in Seq(S) /\ Elements(a \o c) = Elements(a) \cup Elements(c)
        /\ Distinct(a) /\ Distinct(c) /\ Elements(a) \cap Elements(c) = {} => Distinct(a \o c)
    BY ConcatElements
  <2> QED
    BY <1>5, <1>6, <2>1, Zenon
<1>a. \A k : k \in DOMAIN s <=> k \in 1 .. i - 1 \/ k = i \/ k \in i + 1 .. Len(s)
  BY <1>0
<1>b. /\ \A j \in 1 .. i - 1, k \in i + 1 .. Len(s) : j # k
      /\ i \notin 1 .. i - 1 /\ i \notin i + 1 .. Len(s)
  BY <1>0
<1>c. \A j, k \in DOMAIN s : s[j] = s[k] => j = k
  BY DEF Distinct
<1>8. Elements(a) \cap Elements(c) = {}
  <2>1. SUFFICES ASSUME NEW j \in 1 .. i - 1, NEW k \in i + 1 .. Len(s), s[j] = s[k]
                 PROVE  FALSE
    BY <1>6
  <2> QED
    BY <1>a, <1>b, <1>c, <2>1, Zenon
<1>9. Elements(a) \cup Elements(c) = Elements(s) \ {s[i]}
  <2>1. ASSUME NEW k \in DOMAIN s, s[k] # s[i] PROVE s[k] \in Elements(a) \cup Elements(c)
    BY <1>6, <1>a, <2>1, Zenon
  <2>2. ASSUME NEW k \in 1 .. i - 1 PROVE s[k] \in Elements(s) \ {s[i]}
    BY <1>a, <1>b, <1>c, Zenon DEF Elements
  <2>3. ASSUME NEW k \in i + 1 .. Len(s) PROVE s[k] \in Elements(s) \ {s[i]}
    BY <1>a, <1>b, <1>c, Zenon DEF Elements
  <2> QED
    BY <1>6, <2>1, <2>2, <2>3, Zenon DEF Elements
<1> QED
  BY <1>7, <1>8, <1>9, Zenon

LEMMA EmptyElements ==
  ASSUME NEW S, NEW s \in Seq(S)
  PROVE  s = <<>> <=> Elements(s) = {}
BY DEF Elements

LEMMA AppendedElements ==
  ASSUME NEW S, NEW s \in Seq(S), NEW x \in S
  PROVE  /\ Append(s, x) \in Seq(S)
         /\ Elements(Append(s, x)) = Elements(s) \cup {x}
         /\ x \notin Elements(s) /\ Distinct(s) => Distinct(Append(s, x))
<1>1. /\ Append(s, x) \in Seq(S) /\ Len(Append(s, x)) = Len(s) + 1 /\ Len(s) \in Nat
      /\ \A i \in 1 .. Len(s) : Append(s, x)[i] = s[i]
      /\ Append(s, x)[Len(s) + 1] = x
  OBVIOUS
<1>2. PICK r \in Seq(S) : r = Append(s, x)
  BY <1>1
<1>3. DOMAIN s = 1 .. Len(s) /\ DOMAIN r = 1 .. Len(s) + 1
  BY <1>1, <1>2
<1>4. Elements(r) = Elements(s) \cup {x}
  BY <1>1, <1>2, <1>3 DEF Elements
<1>5. ASSUME x \notin Elements(s), Distinct(s) PROVE Distinct(r)
  BY <1>1, <1>2, <1>3, <1>5 DEF Elements, Distinct
<1> QED
  BY <1>1, <1>2, <1>4, <1>5

LEMMA TailElements ==
  ASSUME NEW S, NEW s \in Seq(S), s # <<>>
  PROVE  /\ Head(s) \in Elements(s) /\ Head(s) \in S
         /\ Tail(s) \in Seq(S)
         /\ Elements(Tail(s)) \subseteq Elements(s)
         /\ Distinct(s) => Distinct(Tail(s)) /\ Head(s) \notin Elements(Tail(s))
         /\ Tail(s) # s
<1>1. /\ Tail(s) \in Seq(S) /\ Len(Tail(s)) = Len(s) - 1 /\ Len(s) \in Nat /\ Len(s) >= 1
      /\ \A i \in 1 .. Len(s) - 1 : Tail(s)[i] = s[i + 1]
      /\ Head(s) = s[1] /\ Head(s) \in S
  OBVIOUS
<1>2. PICK r \in Seq(S) : r = Tail(s)
  BY <1>1
<1>3. DOMAIN s = 1 .. Len(s) /\ DOMAIN r = 1 .. Len(s) - 1
  BY <1>1, <1>2
<1>4. Head(s) \in Elements(s)
  BY <1>1, <1>3 DEF Elements
<1>5. \A k \in DOMAIN r : r[k] = s[k + 1] /\ k + 1 \in DOMAIN s /\ k + 1 # 1
  BY <1>1, <1>2, <1>3
<1>6. Elements(r) \subseteq Elements(s)
  BY <1>5 DEF Elements
<1>7. ASSUME Distinct(s) PROVE Distinct(r) /\ Head(s) \notin Elements(r)
  <2>1. Distinct(r)
    BY <1>3, <1>5, <1>7 DEF Distinct
  <2>2. \A k \in DOMAIN r : r[k] # s[1]
    BY <1>1, <1>3, <1>5, <1>7 DEF Distinct
  <2>3. Head(s) \notin Elements(r)
    BY <1>1, <2>2, Zenon DEF Elements
  <2> QED
    BY <2>1, <2>3
<1>8. Tail(s) # s
  <2>1. PICK n \in Nat : n = Len(s)
    BY <1>1
  <2>2. n - 1 # n
    OBVIOUS
  <2>3. Len(Tail(s)) = n - 1
    BY <1>1, <2>1, Zenon
  <2> QED
    BY <2>1, <2>2, <2>3, Zenon
<1> QED
  BY <1>1, <1>2, <1>4, <1>6, <1>7, <1>8, Zenon

-----------------------------------------------------------------------------
(* The queue without a message, and with one moved                          *)

LEMMA WithoutFacts ==
  ASSUME order \in Seq(Messages), Distinct(order), NEW m \in Messages
  PROVE  /\ Without(m) \in Seq(Messages)
         /\ Elements(Without(m)) = Elements(order) \ {m}
         /\ Distinct(Without(m))
<1>1. CASE m \notin Elements(order)
  <2>1. Without(m) = order
    BY <1>1 DEF Without, Queued, Elements
  <2> QED
    BY <1>1, <2>1
<1>2. CASE m \in Elements(order)
  <2>1. \E i \in DOMAIN order : order[i] = m
    BY <1>2 DEF Elements
  <2>2. Position(m) \in DOMAIN order /\ order[Position(m)] = m
    BY <2>1, Zenon DEF Position
  <2>3. DOMAIN order = 1 .. Len(order)
    OBVIOUS
  <2>4. PICK i \in 1 .. Len(order) : i = Position(m) /\ order[i] = m
    BY <2>2, <2>3, Zenon
  <2>5. Without(m) = SubSeq(order, 1, i - 1) \o SubSeq(order, i + 1, Len(order))
    BY <1>2, <2>4, Zenon DEF Without, Queued, Elements
  <2>6. PICK r : r = Without(m)
    OBVIOUS
  <2>7. /\ r \in Seq(Messages)
        /\ Elements(r) = Elements(order) \ {order[i]}
        /\ Distinct(r)
    BY <2>5, <2>6, RemovedElements, Zenon
  <2> QED
    BY <2>4, <2>6, <2>7, Zenon
<1> QED
  BY <1>1, <1>2

LEMMA MovedFacts ==
  ASSUME order \in Seq(Messages), Distinct(order), NEW m \in Messages, NEW before \in Messages,
         MoveBefore(m, before) \/ MoveToEnd(m)
  PROVE  /\ order' \in Seq(Messages)
         /\ Elements(order') = Elements(order)
         /\ Distinct(order')
<1>1. PICK rest \in Seq(Messages) : rest = Without(m)
  BY WithoutFacts, Zenon
<1>2. Elements(rest) = Elements(order) \ {m} /\ Distinct(rest)
  BY <1>1, WithoutFacts, Zenon
<1>3. m \in Elements(order)
  BY DEF MoveBefore, MoveToEnd, Queued, Elements
<1>4. CASE MoveToEnd(m)
  <2>1. order' = Append(rest, m)
    BY <1>1, <1>4, Zenon DEF MoveToEnd
  <2>2. /\ Append(rest, m) \in Seq(Messages)
        /\ Elements(Append(rest, m)) = Elements(rest) \cup {m}
        /\ m \notin Elements(rest) /\ Distinct(rest) => Distinct(Append(rest, m))
    BY AppendedElements, Zenon
  <2>3. Elements(rest) \cup {m} = Elements(order)
    BY <1>2, <1>3
  <2> QED
    BY <1>2, <2>1, <2>2, <2>3, Zenon
<1>5. CASE MoveBefore(m, before)
  <2>1. before \in Elements(rest)
    BY <1>2, <1>5 DEF MoveBefore, Queued, Elements
  <2>2. PICK i : i = CHOOSE k \in DOMAIN rest : rest[k] = before
    OBVIOUS
  <2>3. i \in DOMAIN rest
    BY <2>1, <2>2, Zenon DEF Elements
  <2>4. i \in 1 .. Len(rest) + 1
    BY <2>3
  <2>5. order' = SubSeq(rest, 1, i - 1) \o <<m>> \o SubSeq(rest, i, Len(rest))
    BY <1>1, <1>5, <2>2, Zenon DEF MoveBefore
  <2>6. PICK r : r = order'
    OBVIOUS
  <2>7. r = Inserted(rest, m, i)
    BY <2>5, <2>6, Zenon DEF Inserted
  <2>a. /\ Inserted(rest, m, i) \in Seq(Messages)
        /\ Elements(Inserted(rest, m, i)) = Elements(rest) \cup {m}
        /\ m \notin Elements(rest) /\ Distinct(rest) => Distinct(Inserted(rest, m, i))
    BY <2>4, InsertedElements
  <2>8. /\ r \in Seq(Messages)
        /\ Elements(r) = Elements(rest) \cup {m}
        /\ m \notin Elements(rest) /\ Distinct(rest) => Distinct(r)
    BY <2>7, <2>a, Zenon
  <2>9. Elements(rest) \cup {m} = Elements(order) /\ m \notin Elements(rest)
    BY <1>2, <1>3
  <2> QED
    BY <1>2, <2>6, <2>8, <2>9, Zenon
<1> QED
  BY <1>4, <1>5

-----------------------------------------------------------------------------
(* What a step does to the thread                                           *)

(* A process loss, as far as the thread is concerned.                       *)
LoseThread ==
  /\ inFlight' = {} /\ lost' = lost \cup inFlight
  /\ running' = FALSE
  /\ steer' = [m \in Messages |-> AfterLoss(steer[m])] /\ missed' = {}
  /\ UNCHANGED <<queueVars, thread, sent, latest, pending, bound, ended, stopped, given, bounds>>

(* A pass sends the head of the queue.                                      *)
SendHead(m) ==
  /\ m \in Elements(order) /\ thread = "live"
  /\ SendTurn(m)
  /\ UNCHANGED bounds

ProviderActs(m) ==
  \/ TurnStarts(m) \/ MarkSteer(m) \/ TakeSteer(m) \/ RejectSteer(m) \/ AcceptSteer(m)
  \/ StartEnds(m) \/ RecoverSteer(m)

ThreadStep ==
  \/ UNCHANGED <<threadVars, bounds>>
  \/ PersonsCommand
  \/ \E m \in Messages : ProviderActs(m)
  \/ TurnEnds
  \/ \E cause \in Causes : RecordHold(cause)
  \/ \E m \in Messages : SendHead(m)
  \/ LoseThread

LEMMA HeadOfQueue ==
  ASSUME TypeOK, order # <<>>
  PROVE  Head(order) \in Elements(order) /\ Head(order) \in Messages
<1>1. order \in Seq(Messages)
  BY DEF TypeOK, QueueTypeOK
<1> QED
  BY <1>1, TailElements

LEMMA StepsAreThreadSteps ==
  ASSUME TypeOK, Steps
  PROVE  ThreadStep
<1>1. CASE Person
  BY <1>1 DEF Person, ThreadStep
<1>2. CASE Provider
  BY <1>2 DEF Provider, ProviderActs, ThreadStep
<1>3. CASE TurnIsOver
  BY <1>3 DEF TurnIsOver, ThreadStep
<1>4. CASE StartIsOver
  BY <1>4 DEF StartIsOver, ProviderActs, ThreadStep
<1>5. CASE Boot
  <2>1. CASE UNCHANGED bounds
    BY <1>5, <2>1 DEF Boot, ThreadStep
  <2>2. CASE Fault
    <3>1. RecordHold("restart")
      BY <1>5, <2>2 DEF Boot, RecordHold, threadVars, queueVars
    <3> QED
      BY <3>1 DEF ThreadStep, Causes
  <2> QED
    BY <1>5, <2>1, <2>2 DEF Boot
<1>6. CASE Recover
  BY <1>6 DEF Recover, ProviderActs, ThreadStep
<1>7. CASE AdmitCommands
  BY <1>7 DEF AdmitCommands, ThreadStep
<1>8. CASE HoldQueuedAtBoot
  BY <1>8 DEF HoldQueuedAtBoot, ThreadStep, Causes
<1>9. CASE Crash
  BY <1>9 DEF Crash, LoseThread, ThreadStep
<1>10. CASE BeginPass
  BY <1>10 DEF BeginPass, ThreadStep
<1>11. CASE OnStartEnded
  BY <1>11 DEF OnStartEnded, ThreadStep, Causes
<1>12. CASE PreviousIsOver
  BY <1>12 DEF PreviousIsOver, ThreadStep
<1>13. CASE PreviousPending
  BY <1>13 DEF PreviousPending, ThreadStep, Causes
<1>14. CASE ReadShell \/ Pin \/ CheckIdle \/ Note
  BY <1>14 DEF ReadShell, Pin, CheckIdle, Note, ThreadStep
<1>15. CASE Send
  <2>1. pass.head.message = Head(order) /\ order # <<>> /\ thread = "live"
    BY <1>15 DEF Send, Sendable, HeadKey, KeyOf
  <2>2. SendHead(pass.head.message)
    BY <1>15, <2>1, HeadOfQueue DEF Send, SendHead
  <2> QED
    BY <2>1, <2>2, HeadOfQueue DEF ThreadStep
<1>16. CASE Refused
  BY <1>16 DEF Refused, ThreadStep, Causes
<1> QED
  BY <1>1, <1>2, <1>3, <1>4, <1>5, <1>6, <1>7, <1>8, <1>9, <1>10, <1>11, <1>12, <1>13, <1>14,
     <1>15, <1>16 DEF Steps, Startup, PassStep

(* The queue itself changes in one of four ways.                            *)
SameMessages == Elements(order') = Elements(order) /\ sent' = sent
OneAdded ==
  \E m \in Messages \ sent : Elements(order') = Elements(order) \cup {m} /\ sent' = sent
OneLeft ==
  \E m \in Messages :
    Elements(order') = Elements(order) \ {m} /\ (sent' = sent \/ sent' = sent \cup {m})
AllLeft == Elements(order') = {} /\ sent' = sent

OrderOK == order \in Seq(Messages) /\ Distinct(order)

LEMMA AddedFacts ==
  ASSUME OrderOK, NEW m \in Messages, NEW atHead \in BOOLEAN, NEW carried \in {{}, {"stop"}},
         Add(m, atHead, carried)
  PROVE  OrderOK' /\ Elements(order') = Elements(order) \cup {m} /\ m \notin sent
<1>1. order \in Seq(Messages) /\ Distinct(order)
  BY DEF OrderOK
<1>2. m \notin Elements(order) /\ m \notin sent
  BY DEF Add, Queued, Elements
<1>3. CASE atHead
  <2>1. order' = <<m>> \o order
    BY <1>3 DEF Add
  <2>2. <<m>> \in Seq(Messages) /\ Elements(<<m>>) = {m} /\ Distinct(<<m>>)
    BY OneElement, Zenon
  <2>3. PICK o \in Seq(Messages) : o = <<m>>
    BY <2>2, Zenon
  <2>4. Elements(o) = {m} /\ Distinct(o)
    BY <2>2, <2>3, Zenon
  <2>5. /\ o \o order \in Seq(Messages)
        /\ Elements(o \o order) = Elements(o) \cup Elements(order)
        /\ Distinct(o) /\ Distinct(order) /\ Elements(o) \cap Elements(order) = {}
             => Distinct(o \o order)
    BY <1>1, ConcatElements
  <2>6. order' = o \o order
    BY <2>1, <2>3, Zenon
  <2>7. Elements(o) \cap Elements(order) = {} /\ Elements(o) \cup Elements(order) = Elements(order) \cup {m}
    BY <1>2, <2>4
  <2>8. Elements(order') = Elements(order) \cup {m} /\ order' \in Seq(Messages) /\ Distinct(order')
    BY <1>1, <2>4, <2>5, <2>6, <2>7, Zenon
  <2> QED
    BY <1>2, <2>8, Zenon DEF OrderOK
<1>4. CASE ~atHead
  <2>1. order' = Append(order, m)
    BY <1>4 DEF Add
  <2>2. /\ Append(order, m) \in Seq(Messages)
        /\ Elements(Append(order, m)) = Elements(order) \cup {m}
        /\ m \notin Elements(order) /\ Distinct(order) => Distinct(Append(order, m))
    BY <1>1, AppendedElements, Zenon
  <2>3. Elements(order') = Elements(order) \cup {m} /\ order' \in Seq(Messages) /\ Distinct(order')
    BY <1>1, <1>2, <2>1, <2>2, Zenon
  <2> QED
    BY <1>2, <2>3, Zenon DEF OrderOK
<1> QED
  BY <1>3, <1>4

LEMMA LeaveFacts ==
  ASSUME OrderOK, NEW m \in Messages, LeaveQueue(m)
  PROVE  OrderOK' /\ Elements(order') = Elements(order) \ {m}
<1>1. order' = Without(m)
  BY DEF LeaveQueue
<1>2. /\ Without(m) \in Seq(Messages)
      /\ Elements(Without(m)) = Elements(order) \ {m}
      /\ Distinct(Without(m))
  BY WithoutFacts, Zenon DEF OrderOK
<1>3. order' \in Seq(Messages) /\ Elements(order') = Elements(order) \ {m} /\ Distinct(order')
  BY <1>1, <1>2, Zenon
<1> QED
  BY <1>3, Zenon DEF OrderOK

LEMMA RequeueFacts ==
  ASSUME OrderOK, NEW m \in Messages, Requeue(m)
  PROVE  OrderOK' /\ Elements(order') = Elements(order)
<1>1. CASE order' = order
  BY <1>1, Zenon DEF OrderOK
<1>2. CASE order' # order
  <2>1. m \in Elements(order) /\ order' = <<m>> \o Without(m)
    BY <1>2 DEF Requeue, Queued, Elements
  <2>2. PICK rest \in Seq(Messages) : rest = Without(m)
    BY WithoutFacts, Zenon DEF OrderOK
  <2>3. Elements(rest) = Elements(order) \ {m} /\ Distinct(rest)
    BY <2>2, WithoutFacts, Zenon DEF OrderOK
  <2>4. PICK o \in Seq(Messages) : o = <<m>>
    BY OneElement, Zenon
  <2>5. Elements(o) = {m} /\ Distinct(o)
    BY <2>4, OneElement, Zenon
  <2>6. /\ o \o rest \in Seq(Messages)
        /\ Elements(o \o rest) = Elements(o) \cup Elements(rest)
        /\ Distinct(o) /\ Distinct(rest) /\ Elements(o) \cap Elements(rest) = {}
             => Distinct(o \o rest)
    BY ConcatElements
  <2>7. order' = o \o rest
    BY <2>1, <2>2, <2>4, Zenon
  <2>8. Elements(o) \cap Elements(rest) = {} /\ Elements(o) \cup Elements(rest) = Elements(order)
    BY <2>1, <2>3, <2>5
  <2>9. Elements(order') = Elements(order) /\ order' \in Seq(Messages) /\ Distinct(order')
    BY <2>3, <2>5, <2>6, <2>7, <2>8, Zenon
  <2> QED
    BY <2>9, Zenon DEF OrderOK
<1> QED
  BY <1>1, <1>2

LEMMA OrderSteps ==
  ASSUME OrderOK, ThreadStep
  PROVE  OrderOK' /\ (SameMessages \/ OneAdded \/ OneLeft \/ AllLeft)
<1> DEFINE Goal == OrderOK' /\ (SameMessages \/ OneAdded \/ OneLeft \/ AllLeft)
<1>1. ASSUME UNCHANGED <<order, sent>> PROVE Goal
  BY <1>1, Zenon DEF OrderOK, SameMessages
<1>2. CASE UNCHANGED <<threadVars, bounds>>
  BY <1>1, <1>2 DEF threadVars, queueVars
<1>3. CASE PersonsCommand
  <2>1. ASSUME NEW m \in Messages, NEW atHead \in BOOLEAN, NEW carried \in {{}, {"stop"}},
               Add(m, atHead, carried)
        PROVE  Goal
    <3>1. sent' = sent
      BY <2>1 DEF Add
    <3>2. OneAdded
      BY <2>1, <3>1, AddedFacts, Zenon DEF OneAdded
    <3> QED
      BY <2>1, <3>2, AddedFacts, Zenon
  <2>2. ASSUME NEW m \in Messages, Edit(m) \/ Steer(m) \/ Retry(m) PROVE Goal
    BY <1>1, <2>2 DEF Edit, Steer, Retry
  <2>3. ASSUME NEW m \in Messages, Remove(m) PROVE Goal
    <3>1. LeaveQueue(m) /\ sent' = sent
      BY <2>3 DEF Remove
    <3>2. OneLeft
      BY <3>1, LeaveFacts, Zenon DEF OneLeft
    <3> QED
      BY <3>1, <3>2, LeaveFacts, Zenon
  <2>4. ASSUME NEW m \in Messages, SendDirectly(m) PROVE Goal
    <3>1. LeaveQueue(m) /\ sent' = sent \cup {m}
      BY <2>4 DEF SendDirectly, SendTurn, BecomeMessage
    <3>2. OneLeft
      BY <3>1, LeaveFacts, Zenon DEF OneLeft
    <3> QED
      BY <3>1, <3>2, LeaveFacts, Zenon
  <2>5. ASSUME NEW m \in Messages, NEW before \in Messages, MoveBefore(m, before) \/ MoveToEnd(m)
        PROVE  Goal
    <3>1. sent' = sent
      BY <2>5 DEF MoveBefore, MoveToEnd
    <3>2. OrderOK' /\ Elements(order') = Elements(order)
      BY <2>5, MovedFacts, Zenon DEF OrderOK
    <3> QED
      BY <3>1, <3>2, Zenon DEF SameMessages
  <2>6. CASE Hold \/ Stop \/ Trash \/ Restore
    BY <1>1, <2>6 DEF Hold, Stop, Trash, Restore, queueVars
  <2>7. CASE \E acknowledged \in SUBSET hold : Resume(acknowledged)
    BY <1>1, <2>7 DEF Resume
  <2>8. CASE Delete
    <3>1. order' = <<>> /\ sent' = sent
      BY <2>8 DEF Delete
    <3>2. order' \in Seq(Messages) /\ Elements(order') = {} /\ Distinct(order')
      BY <3>1 DEF Elements, Distinct
    <3> QED
      BY <3>1, <3>2, Zenon DEF OrderOK, AllLeft
  <2> QED
    BY <1>3, <2>1, <2>2, <2>3, <2>4, <2>5, <2>6, <2>7, <2>8, Zenon DEF PersonsCommand
<1>4. ASSUME NEW m \in Messages, ProviderActs(m) PROVE Goal
  <2>1. CASE TurnStarts(m) \/ MarkSteer(m) \/ TakeSteer(m) \/ StartEnds(m)
    BY <1>1, <2>1 DEF TurnStarts, MarkSteer, TakeSteer, StartEnds, queueVars
  <2>2. CASE AcceptSteer(m)
    <3>1. LeaveQueue(m) /\ sent' = sent \cup {m}
      BY <2>2 DEF AcceptSteer, BecomeMessage
    <3>2. OneLeft
      BY <3>1, LeaveFacts, Zenon DEF OneLeft
    <3> QED
      BY <3>1, <3>2, LeaveFacts, Zenon
  <2>3. ASSUME Requeue(m), sent' = sent PROVE Goal
    BY <2>3, RequeueFacts, Zenon DEF SameMessages
  <2>4. CASE RejectSteer(m)
    BY <2>3, <2>4, Zenon DEF RejectSteer
  <2>5. CASE RecoverSteer(m)
    BY <1>1, <2>3, <2>5 DEF RecoverSteer
  <2> QED
    BY <1>4, <2>1, <2>2, <2>4, <2>5 DEF ProviderActs
<1>5. CASE TurnEnds
  BY <1>1, <1>5 DEF TurnEnds
<1>6. CASE \E cause \in Causes : RecordHold(cause)
  BY <1>1, <1>6 DEF RecordHold
<1>7. ASSUME NEW m \in Messages, SendHead(m) PROVE Goal
  <2>1. LeaveQueue(m) /\ sent' = sent \cup {m}
    BY <1>7 DEF SendHead, SendTurn, BecomeMessage
  <2>2. OneLeft
    BY <2>1, LeaveFacts, Zenon DEF OneLeft
  <2> QED
    BY <2>1, <2>2, LeaveFacts, Zenon
<1>8. CASE LoseThread
  BY <1>1, <1>8 DEF LoseThread, queueVars
<1> QED
  BY <1>2, <1>3, <1>4, <1>5, <1>6, <1>7, <1>8, Zenon DEF ThreadStep

LEMMA SentStaysOut ==
  ASSUME QueueTypeOK, OrderOK, ThreadStep, NothingSentStaysQueued
  PROVE  NothingSentStaysQueued'
<1>1. Elements(order) \cap sent = {}
  BY DEF NothingSentStaysQueued, Queued, Elements
<1>2. Elements(order') \cap sent' = {}
  BY <1>1, OrderSteps DEF SameMessages, OneAdded, OneLeft, AllLeft
<1> QED
  BY <1>2 DEF NothingSentStaysQueued, Queued, Elements

-----------------------------------------------------------------------------
(* The inductive invariant                                                  *)

(* A queue without entries is not held, a deleted thread has none, and one  *)
(* in Trash is held while it has some.                                      *)
HoldInv ==
  /\ Elements(order) = {} => hold = {}
  /\ thread = "deleted" => Elements(order) = {}
  /\ thread = "trashed" /\ Elements(order) # {} => hold # {}

(* What is on its way was sent.                                             *)
FlightInv ==
  /\ inFlight \cup lost \subseteq sent
  /\ latest \in sent \cup {NoMessage}

(* The end of a start is told once.                                         *)
NewsInv ==
  /\ Distinct(news)
  /\ Elements(news) \subseteq sent
  /\ Elements(news) \cap (inFlight \cup lost) = {}

(* A message on its way as a steer, or taken as one, waits in the queue     *)
(* until it is known what became of it.                                     *)
Steered(m) ==
  /\ steer[m] # "none" => m \in Elements(order) /\ entry[m].status = "steering"
  /\ given[m] # 0 =>
       /\ m \in Elements(order)
       /\ \/ steer[m] \in {"given", "uncertain"} /\ entry[m].status = "steering"
          \/ steer[m] = "none" /\ entry[m].status = "failed"
SteerInv == \A m \in Messages : m \in sent \/ m \in excused \/ Steered(m)

(* What an earlier process left is held, or will be, until it is resumed.   *)
LeftoverInv ==
  /\ phase # "down" => leftover \subseteq Elements(order)
  /\ phase \in {"booting", "ready"} => leftover = {} \/ queuedAtBoot \/ unheld
  /\ phase = "serving" => leftover = {} \/ hold # {} \/ unheld

(* A pass that has compared the start that waits with the one it has seen   *)
(* lets another one pass only if it is not the pinned message's.            *)
PassInv ==
  /\ pass.at # "idle" => phase = "serving" /\ pass.head.message \in Messages
  /\ pass.at \in {"fence", "dispatch"} => pass.pin \in sent \cup {NoMessage}
  /\ pass.at = "dispatch" => pending \in {NoMessage, seen} \/ pending # pass.pin

(* The news of what this process sent will find it watched, unless its row  *)
(* was bound after all or the pass has not noted it yet.                    *)
Untold == inFlight \cup lost \cup Elements(news)
Noted(m) == m \in watched \/ m \in bound \/ (pass.at = "note" /\ pass.head.message = m)
DrainedInv ==
  /\ drained \subseteq sent
  /\ phase \in {"booting", "ready"} => drained = {}
  /\ phase = "serving" => \A m \in drained \cap Untold : Noted(m)

IndInv ==
  /\ TypeOK /\ OrderOK /\ NothingSentStaysQueued /\ HoldInv /\ FlightInv /\ NewsInv
  /\ SteerInv /\ LeftoverInv /\ PassInv /\ DrainedInv

-----------------------------------------------------------------------------
(* Each part of it is kept                                                  *)

LEMMA HoldKept ==
  ASSUME OrderOK, HoldInv, ThreadStep
  PROVE  HoldInv'
<1>0. order = <<>> <=> Elements(order) = {}
  BY EmptyElements DEF OrderOK
<1>1. ASSUME UNCHANGED <<order, hold, thread>> PROVE HoldInv'
  BY <1>1, Zenon DEF HoldInv
<1>2. CASE UNCHANGED <<threadVars, bounds>>
  BY <1>1, <1>2 DEF threadVars, queueVars
<1>3. ASSUME NEW cause, HoldFor(cause), UNCHANGED <<order, thread>> PROVE HoldInv'
  <2>1. Elements(order') = Elements(order)
    BY <1>3
  <2> QED
    BY <1>0, <1>3, <2>1 DEF HoldInv, HoldFor
<1>4. ASSUME NEW m \in Messages, LeaveQueue(m), thread' = thread PROVE HoldInv'
  <2>1. OrderOK' /\ Elements(order') = Elements(order) \ {m}
    BY <1>4, LeaveFacts
  <2>2. order' = <<>> <=> Elements(order') = {}
    <3>1. PICK r \in Seq(Messages) : r = order'
      BY <2>1 DEF OrderOK
    <3>2. r = <<>> <=> Elements(r) = {}
      BY EmptyElements
    <3> QED
      BY <3>1, <3>2, Zenon
  <2>3. hold' = IF order' = <<>> THEN {} ELSE hold
    BY <1>4, Zenon DEF LeaveQueue
  <2> QED
    BY <1>4, <2>1, <2>2, <2>3 DEF HoldInv
<1>5. CASE PersonsCommand
  <2>1. ASSUME NEW m \in Messages, NEW atHead \in BOOLEAN, NEW carried \in {{}, {"stop"}},
               Add(m, atHead, carried)
        PROVE  HoldInv'
    <3>1. m \in Elements(order')
      BY <2>1, AddedFacts
    <3>2. thread = "live" /\ thread' = thread
      BY <2>1 DEF Add
    <3> QED
      BY <3>1, <3>2 DEF HoldInv
  <2>2. ASSUME NEW m \in Messages, Edit(m) \/ Steer(m) \/ Retry(m) PROVE HoldInv'
    BY <1>1, <2>2 DEF Edit, Steer, Retry
  <2>3. ASSUME NEW m \in Messages, Remove(m) \/ SendDirectly(m) PROVE HoldInv'
    BY <1>4, <2>3 DEF Remove, SendDirectly, SendTurn
  <2>4. ASSUME NEW m \in Messages, NEW before \in Messages, MoveBefore(m, before) \/ MoveToEnd(m)
        PROVE  HoldInv'
    <3>1. Elements(order') = Elements(order)
      BY <2>4, MovedFacts, Zenon DEF OrderOK
    <3>2. UNCHANGED <<hold, thread>>
      BY <2>4 DEF MoveBefore, MoveToEnd
    <3> QED
      BY <3>1, <3>2 DEF HoldInv
  <2>5. CASE Hold \/ Stop
    BY <1>3, <2>5 DEF Hold, Stop
  <2>6. CASE Trash
    <3>1. Elements(order') = Elements(order)
      BY <2>6 DEF Trash
    <3> QED
      BY <1>0, <2>6, <3>1 DEF Trash, HoldFor, HoldInv
  <2>7. CASE Restore
    <3>1. Elements(order') = Elements(order)
      BY <2>7 DEF Restore, queueVars
    <3> QED
      BY <2>7, <3>1 DEF Restore, queueVars, HoldInv
  <2>8. CASE Delete
    <3>1. Elements(order') = {}
      BY <2>8 DEF Delete, Elements
    <3> QED
      BY <2>8, <3>1 DEF Delete, HoldInv
  <2>9. ASSUME NEW acknowledged \in SUBSET hold, Resume(acknowledged) PROVE HoldInv'
    <3>1. Elements(order') = Elements(order)
      BY <2>9 DEF Resume
    <3> QED
      BY <2>9, <3>1 DEF Resume, HoldInv
  <2> QED
    BY <1>5, <2>1, <2>2, <2>3, <2>4, <2>5, <2>6, <2>7, <2>8, <2>9, Zenon DEF PersonsCommand
<1>6. ASSUME NEW m \in Messages, ProviderActs(m) PROVE HoldInv'
  <2>1. CASE TurnStarts(m) \/ MarkSteer(m) \/ TakeSteer(m) \/ StartEnds(m)
    BY <1>1, <2>1 DEF TurnStarts, MarkSteer, TakeSteer, StartEnds, queueVars
  <2>2. CASE AcceptSteer(m)
    BY <1>4, <2>2 DEF AcceptSteer
  <2>3. CASE RejectSteer(m) \/ RecoverSteer(m)
    <3>1. Requeue(m) \/ order' = order
      BY <2>3 DEF RejectSteer, RecoverSteer
    <3>2. Elements(order') = Elements(order)
      BY <3>1, RequeueFacts, Zenon
    <3> QED
      BY <2>3, <3>2 DEF RejectSteer, RecoverSteer, HoldInv
  <2> QED
    BY <1>6, <2>1, <2>2, <2>3 DEF ProviderActs
<1>7. CASE TurnEnds
  BY <1>1, <1>3, <1>7 DEF TurnEnds
<1>8. ASSUME NEW cause \in Causes, RecordHold(cause) PROVE HoldInv'
  BY <1>1, <1>3, <1>8 DEF RecordHold
<1>9. ASSUME NEW m \in Messages, SendHead(m) PROVE HoldInv'
  BY <1>4, <1>9 DEF SendHead, SendTurn
<1>10. CASE LoseThread
  BY <1>1, <1>10 DEF LoseThread, queueVars
<1> QED
  BY <1>2, <1>5, <1>6, <1>7, <1>8, <1>9, <1>10, Zenon DEF ThreadStep

(* A start that begins to wait is of a message that was not sent before.    *)
LEMMA FlightSteps ==
  ASSUME QueueTypeOK, OrderOK, NothingSentStaysQueued, FlightInv, ThreadStep
  PROVE  /\ FlightInv'
         /\ sent \subseteq sent' /\ bound \subseteq bound'
         /\ inFlight' \cup lost' \subseteq inFlight \cup lost \cup (Messages \ sent)
         /\ pending' \in {pending, NoMessage} \cup (Messages \ sent)
<1> DEFINE Goal == /\ FlightInv'
                   /\ sent \subseteq sent' /\ bound \subseteq bound'
                   /\ inFlight' \cup lost' \subseteq inFlight \cup lost \cup (Messages \ sent)
                   /\ pending' \in {pending, NoMessage} \cup (Messages \ sent)
<1>1. ASSUME UNCHANGED <<sent, latest, pending, bound, inFlight, lost>> PROVE Goal
  BY <1>1 DEF FlightInv
<1>2. CASE UNCHANGED <<threadVars, bounds>>
  BY <1>1, <1>2 DEF threadVars, startVars
<1>3. ASSUME NEW m \in Messages, BecomeMessage(m)
      PROVE  latest' \in sent' \cup {NoMessage} /\ sent' = sent \cup {m}
  BY <1>3 DEF BecomeMessage, FlightInv
<1>4. ASSUME NEW m \in Messages \ sent, SendTurn(m) PROVE Goal
  BY <1>3, <1>4 DEF SendTurn, FlightInv
<1>5. CASE PersonsCommand
  <2>1. ASSUME NEW m \in Messages, SendDirectly(m) PROVE Goal
    BY <1>4, <2>1 DEF SendDirectly
  <2>2. ASSUME NEW m \in Messages, NEW atHead \in BOOLEAN, NEW carried \in {{}, {"stop"}},
               Add(m, atHead, carried)
        PROVE  Goal
    BY <1>1, <2>2 DEF Add, startVars
  <2>3. ASSUME NEW m \in Messages, Edit(m) \/ Remove(m) \/ Steer(m) \/ Retry(m) \/ MoveToEnd(m)
        PROVE  Goal
    BY <1>1, <2>3 DEF Edit, Remove, Steer, Retry, MoveToEnd, startVars
  <2>4. ASSUME NEW m \in Messages, NEW before \in Messages, MoveBefore(m, before) PROVE Goal
    BY <1>1, <2>4 DEF MoveBefore, startVars
  <2>5. CASE Hold \/ Stop \/ Trash \/ Restore \/ Delete
    BY <1>1, <2>5 DEF Hold, Stop, Trash, Restore, Delete, startVars
  <2>6. ASSUME NEW acknowledged \in SUBSET hold, Resume(acknowledged) PROVE Goal
    BY <1>1, <2>6 DEF Resume, startVars
  <2> QED
    BY <1>5, <2>1, <2>2, <2>3, <2>4, <2>5, <2>6, Zenon DEF PersonsCommand
<1>6. ASSUME NEW m \in Messages, ProviderActs(m) PROVE Goal
  <2>1. CASE MarkSteer(m) \/ TakeSteer(m) \/ RejectSteer(m) \/ RecoverSteer(m)
    BY <1>1, <2>1 DEF MarkSteer, TakeSteer, RejectSteer, RecoverSteer, startVars
  <2>2. CASE AcceptSteer(m)
    BY <1>3, <2>2 DEF AcceptSteer, startVars, FlightInv
  <2>3. CASE TurnStarts(m)
    BY <2>3 DEF TurnStarts, FlightInv
  <2>4. CASE StartEnds(m)
    BY <2>4 DEF StartEnds, FlightInv
  <2> QED
    BY <1>6, <2>1, <2>2, <2>3, <2>4 DEF ProviderActs
<1>7. CASE TurnEnds
  BY <1>1, <1>7 DEF TurnEnds
<1>8. ASSUME NEW cause \in Causes, RecordHold(cause) PROVE Goal
  BY <1>1, <1>8 DEF RecordHold, startVars
<1>9. ASSUME NEW m \in Messages, SendHead(m) PROVE Goal
  BY <1>4, <1>9 DEF SendHead, NothingSentStaysQueued, Queued, Elements
<1>10. CASE LoseThread
  BY <1>10 DEF LoseThread, FlightInv
<1> QED
  BY <1>2, <1>5, <1>6, <1>7, <1>8, <1>9, <1>10, Zenon DEF ThreadStep

(* A message may go past the steer that is in doubt only as Track says.     *)
NewlyExcused ==
  {m \in Messages :
     \/ steer[m] = "given" /\ faults' # faults
     \/ m \in Elements(order) /\ entry[m].status = "failed" /\ entry'[m].status = "queued"
     \/ m \in Elements(order) /\ entry[m].status = "steering" /\ m \notin Elements(order')}

LEMMA SteersKept ==
  ASSUME QueueTypeOK, OrderOK, FlightInv, SteerInv, ThreadStep, sent \subseteq sent',
         excused' = excused \cup NewlyExcused
  PROVE  SteerInv'
<1> SUFFICES ASSUME NEW k \in Messages, k \notin sent', k \notin excused'
             PROVE  Steered(k)'
  BY DEF SteerInv
<1>1. k \notin sent /\ k \notin excused /\ k \notin NewlyExcused
  OBVIOUS
<1>2. Steered(k)
  BY <1>1 DEF SteerInv
<1>3. /\ ~(steer[k] = "given" /\ faults' # faults)
      /\ ~(k \in Elements(order) /\ entry[k].status = "failed" /\ entry'[k].status = "queued")
      /\ ~(k \in Elements(order) /\ entry[k].status = "steering" /\ k \notin Elements(order'))
  BY <1>1 DEF NewlyExcused
<1>4. ASSUME steer'[k] = steer[k], given'[k] = given[k], entry'[k].status = entry[k].status,
             k \in Elements(order) => k \in Elements(order')
      PROVE  Steered(k)'
  BY <1>2, <1>4 DEF Steered
<1>5. ASSUME UNCHANGED <<order, entry, steer, given>> PROVE Steered(k)'
  BY <1>4, <1>5
<1>6. /\ entry \in [Messages -> Entry] /\ steer \in [Messages -> SteerStates]
      /\ given \in [Messages -> Nat] /\ faults \in Nat
  BY DEF QueueTypeOK
<1>7. ASSUME NEW m \in Messages, m # k, LeaveQueue(m), given' = given,
             steer' = steer \/ steer' = [steer EXCEPT ![m] = "none"]
      PROVE  Steered(k)'
  <2>1. Elements(order') = Elements(order) \ {m}
    BY <1>7, LeaveFacts
  <2>2. entry'[k] = entry[k] /\ steer'[k] = steer[k]
    BY <1>6, <1>7 DEF LeaveQueue
  <2> QED
    BY <1>4, <1>7, <2>1, <2>2
<1>8. CASE UNCHANGED <<threadVars, bounds>>
  BY <1>5, <1>8 DEF threadVars, queueVars, steerVars
<1>9. CASE PersonsCommand
  <2>1. ASSUME NEW m \in Messages, NEW atHead \in BOOLEAN, NEW carried \in {{}, {"stop"}},
               Add(m, atHead, carried)
        PROVE  Steered(k)'
    <3>1. /\ Elements(order') = Elements(order) \cup {m} /\ m \notin Elements(order)
          /\ UNCHANGED <<steer, given>>
      BY <2>1, AddedFacts DEF Add, steerVars, Queued, Elements
    <3>2. CASE m = k
      BY <1>2, <3>1, <3>2 DEF Steered
    <3>3. CASE m # k
      <4>1. entry'[k] = entry[k]
        BY <1>6, <2>1, <3>3 DEF Add
      <4> QED
        BY <1>4, <3>1, <4>1
    <3> QED
      BY <3>2, <3>3
  <2>2. ASSUME NEW m \in Messages, Edit(m) PROVE Steered(k)'
    <3>1. entry'[k].status = entry[k].status
      BY <1>6, <2>2 DEF Edit, Become, Entry
    <3> QED
      BY <1>4, <2>2, <3>1 DEF Edit, steerVars
  <2>3. ASSUME NEW m \in Messages, Remove(m) PROVE Steered(k)'
    <3>1. LeaveQueue(m) /\ UNCHANGED <<steer, given>>
      BY <2>3 DEF Remove, steerVars
    <3>2. CASE m = k
      <4>1. m \notin Elements(order')
        BY <3>1, LeaveFacts
      <4>2. entry'[k].status = "queued"
        BY <1>6, <3>1, <3>2 DEF LeaveQueue, NoEntry
      <4> QED
        BY <1>2, <1>3, <3>1, <3>2, <4>1, <4>2 DEF Steered
    <3> QED
      BY <1>7, <3>1, <3>2
  <2>4. ASSUME NEW m \in Messages, Steer(m) PROVE Steered(k)'
    <3>1. /\ m \in Elements(order) /\ entry[m].status = "queued"
          /\ order' = order /\ given' = given /\ steer' = [steer EXCEPT ![m] = "requested"]
          /\ entry' = [entry EXCEPT ![m] = [revision |-> @.revision + 1, status |-> "steering"]]
      BY <2>4 DEF Steer, Become, Queued, Elements
    <3>2. CASE m = k
      <4>1. given[k] = 0
        BY <1>2, <3>1, <3>2 DEF Steered
      <4>2. entry'[k].status = "steering" /\ Elements(order') = Elements(order)
        BY <1>6, <3>1, <3>2
      <4> QED
        BY <3>1, <3>2, <4>1, <4>2 DEF Steered
    <3>3. CASE m # k
      <4>1. entry'[k] = entry[k] /\ steer'[k] = steer[k]
        BY <1>6, <3>1, <3>3
      <4> QED
        BY <1>4, <3>1, <4>1
    <3> QED
      BY <3>2, <3>3
  <2>5. ASSUME NEW m \in Messages, Retry(m) PROVE Steered(k)'
    <3>1. /\ m \in Elements(order) /\ entry[m].status = "failed"
          /\ order' = order /\ given' = given /\ steer' = steer
          /\ entry' = [entry EXCEPT ![m] = [revision |-> @.revision + 1, status |-> "queued"]]
      BY <2>5 DEF Retry, Become, Queued, Elements, steerVars
    <3>2. CASE m = k
      <4>1. entry'[k].status = "queued"
        BY <1>6, <3>1, <3>2
      <4> QED
        BY <1>3, <3>1, <3>2, <4>1
    <3>3. CASE m # k
      <4>1. entry'[k] = entry[k]
        BY <1>6, <3>1, <3>3
      <4> QED
        BY <1>4, <3>1, <4>1
    <3> QED
      BY <3>2, <3>3
  <2>6. ASSUME NEW m \in Messages, SendDirectly(m) PROVE Steered(k)'
    <3>1. LeaveQueue(m) /\ given' = given /\ steer' = steer /\ m \in sent'
      BY <2>6 DEF SendDirectly, SendTurn, BecomeMessage, steerVars
    <3> QED
      BY <1>7, <3>1
  <2>7. ASSUME NEW m \in Messages, NEW before \in Messages, MoveBefore(m, before) \/ MoveToEnd(m)
        PROVE  Steered(k)'
    <3>1. Elements(order') = Elements(order)
      BY <2>7, MovedFacts, Zenon DEF OrderOK
    <3>2. UNCHANGED <<entry, steer, given>>
      BY <2>7 DEF MoveBefore, MoveToEnd, steerVars
    <3> QED
      BY <1>4, <3>1, <3>2
  <2>8. CASE Hold \/ Stop \/ Trash \/ Restore
    BY <1>5, <2>8 DEF Hold, Stop, Trash, Restore, queueVars, steerVars
  <2>9. CASE Delete
    <3>1. Elements(order') = {} /\ entry'[k].status = "queued" /\ UNCHANGED <<steer, given>>
      BY <2>9 DEF Delete, Elements, NoEntry, steerVars
    <3> QED
      BY <1>2, <1>3, <3>1 DEF Steered
  <2>10. ASSUME NEW acknowledged \in SUBSET hold, Resume(acknowledged) PROVE Steered(k)'
    BY <1>5, <2>10 DEF Resume, steerVars
  <2> QED
    BY <1>9, <2>1, <2>2, <2>3, <2>4, <2>5, <2>6, <2>7, <2>8, <2>9, <2>10, Zenon
       DEF PersonsCommand
<1>10. ASSUME NEW m \in Messages, ProviderActs(m) PROVE Steered(k)'
  <2>1. CASE TurnStarts(m)
    <3>1. m # k
      BY <1>1, <2>1 DEF TurnStarts, FlightInv
    <3>2. given'[k] = given[k] /\ UNCHANGED <<order, entry, steer>>
      BY <1>6, <2>1, <3>1 DEF TurnStarts, queueVars
    <3> QED
      BY <1>4, <3>2
  <2>2. CASE MarkSteer(m)
    <3>1. UNCHANGED <<order, entry, given>> /\ steer[m] = "requested"
          /\ steer' = [steer EXCEPT ![m] = "dispatched"]
      BY <2>2 DEF MarkSteer, queueVars
    <3>2. Elements(order') = Elements(order)
      BY <3>1
    <3>3. steer'[k] = IF m = k THEN "dispatched" ELSE steer[k]
      BY <1>6, <3>1
    <3> QED
      BY <1>2, <3>1, <3>2, <3>3 DEF Steered
  <2>3. CASE TakeSteer(m)
    <3>1. UNCHANGED <<order, entry>> /\ steer[m] = "dispatched"
          /\ steer' = [steer EXCEPT ![m] = "given"] /\ given' = [given EXCEPT ![m] = @ + 1]
      BY <2>3 DEF TakeSteer, queueVars
    <3>2. Elements(order') = Elements(order)
      BY <3>1
    <3>3. /\ steer'[k] = IF m = k THEN "given" ELSE steer[k]
          /\ m # k => given'[k] = given[k]
      BY <1>6, <3>1
    <3> QED
      BY <1>2, <3>1, <3>2, <3>3 DEF Steered
  <2>4. CASE AcceptSteer(m)
    <3>1. LeaveQueue(m) /\ given' = given /\ steer' = [steer EXCEPT ![m] = "none"] /\ m \in sent'
      BY <2>4 DEF AcceptSteer, BecomeMessage
    <3> QED
      BY <1>7, <3>1
  <2>5. ASSUME Requeue(m), steer' = [steer EXCEPT ![m] = "none"], given' = given,
               m = k => given[k] = 0
        PROVE  Steered(k)'
    <3>1. Elements(order') = Elements(order)
      BY <2>5, RequeueFacts, Zenon
    <3>2. CASE m = k
      BY <1>6, <2>5, <3>1, <3>2 DEF Steered
    <3>3. CASE m # k
      <4>1. entry'[k] = entry[k] /\ steer'[k] = steer[k]
        BY <1>6, <2>5, <3>3 DEF Requeue, Become
      <4> QED
        BY <1>4, <2>5, <3>1, <4>1
    <3> QED
      BY <3>2, <3>3
  <2>6. CASE RejectSteer(m)
    <3>1. steer[m] \in {"requested", "dispatched"} \/ (steer[m] = "given" /\ faults' # faults)
      BY <1>6, <2>6 DEF RejectSteer, Fault
    <3>2. m = k => given[k] = 0
      BY <1>2, <1>3, <3>1 DEF Steered
    <3>3. Requeue(m) /\ steer' = [steer EXCEPT ![m] = "none"] /\ given' = given
      BY <2>6 DEF RejectSteer
    <3> QED
      BY <2>5, <3>2, <3>3
  <2>7. CASE RecoverSteer(m)
    <3>1. CASE steer[m] = "unsent"
      <4>1. m = k => given[k] = 0
        BY <1>2, <3>1 DEF Steered
      <4>2. Requeue(m) /\ steer' = [steer EXCEPT ![m] = "none"] /\ given' = given
        BY <2>7, <3>1 DEF RecoverSteer
      <4> QED
        BY <2>5, <4>1, <4>2
    <3>2. CASE steer[m] = "uncertain"
      <4>1. order' = order /\ steer' = [steer EXCEPT ![m] = "none"] /\ given' = given
        BY <2>7, <3>2 DEF RecoverSteer
      <4>2. Elements(order') = Elements(order)
        BY <4>1
      <4>3. CASE m = k
        <5>1. k \in Elements(order) /\ entry[k].status = "steering"
          BY <1>2, <3>2, <4>3 DEF Steered
        <5>2. Become(m, "failed")
          BY <2>7, <3>2, <4>3, <5>1 DEF RecoverSteer, Queued, Elements
        <5>3. entry'[k].status = "failed" /\ steer'[k] = "none"
          BY <1>6, <4>1, <4>3, <5>2 DEF Become
        <5> QED
          BY <4>2, <5>1, <5>3 DEF Steered
      <4>4. CASE m # k
        <5>1. Become(m, "failed") \/ entry' = entry
          BY <2>7, <3>2 DEF RecoverSteer
        <5>2. entry'[k] = entry[k] /\ steer'[k] = steer[k]
          BY <1>6, <4>1, <4>4, <5>1 DEF Become
        <5> QED
          BY <1>4, <4>1, <4>2, <5>2
      <4> QED
        BY <4>3, <4>4
    <3> QED
      BY <2>7, <3>1, <3>2 DEF RecoverSteer
  <2>8. CASE StartEnds(m)
    BY <1>5, <2>8 DEF StartEnds, queueVars, steerVars
  <2> QED
    BY <1>10, <2>1, <2>2, <2>3, <2>4, <2>6, <2>7, <2>8, Zenon DEF ProviderActs
<1>11. CASE TurnEnds
  BY <1>5, <1>11 DEF TurnEnds
<1>12. ASSUME NEW cause \in Causes, RecordHold(cause) PROVE Steered(k)'
  BY <1>5, <1>12 DEF RecordHold, steerVars
<1>13. ASSUME NEW m \in Messages, SendHead(m) PROVE Steered(k)'
  <2>1. LeaveQueue(m) /\ given' = given /\ steer' = steer /\ m \in sent'
    BY <1>13 DEF SendHead, SendTurn, BecomeMessage, steerVars
  <2> QED
    BY <1>7, <2>1
<1>14. CASE LoseThread
  <2>1. UNCHANGED <<order, entry, given>> /\ steer'[k] = AfterLoss(steer[k])
    BY <1>14 DEF LoseThread, queueVars
  <2>2. Elements(order') = Elements(order)
    BY <2>1
  <2> QED
    BY <1>2, <2>1, <2>2 DEF Steered, AfterLoss
<1> QED
  BY <1>8, <1>9, <1>10, <1>11, <1>12, <1>13, <1>14, Zenon DEF ThreadStep

LEMMA QueueTypesKept ==
  ASSUME QueueTypeOK, OrderOK, ThreadStep
  PROVE  QueueTypeOK'
<1>1. order' \in Seq(Messages)
  BY OrderSteps DEF OrderOK
<1> USE QueueAssumption
<1>e. \A m \in Messages : entry[m].revision \in Nat /\ entry[m].status \in {"queued", "steering", "failed"}
  BY DEF QueueTypeOK, Entry
<1>b. ASSUME NEW m \in Messages, NEW status \in {"queued", "steering", "failed"}, Become(m, status)
      PROVE  entry' \in [Messages -> Entry]
  <2>1. [revision |-> entry[m].revision + 1, status |-> status] \in Entry
    BY <1>e DEF Entry
  <2> QED
    BY <1>b, <2>1 DEF Become, QueueTypeOK
<1>n. NoEntry \in Entry /\ [revision |-> 1, status |-> "queued"] \in Entry
  BY DEF NoEntry, Entry
<1>l. ASSUME NEW m \in Messages, LeaveQueue(m)
      PROVE  entry' \in [Messages -> Entry] /\ hold' \subseteq Causes
  BY <1>l, <1>n DEF LeaveQueue, QueueTypeOK
<1>h. ASSUME NEW cause \in Causes, HoldFor(cause) PROVE hold' \subseteq Causes
  BY <1>h DEF HoldFor, QueueTypeOK
<1>m. ASSUME NEW m \in Messages, BecomeMessage(m)
      PROVE  sent' \subseteq Messages /\ latest' \in Messages \cup {NoMessage}
  BY <1>m DEF BecomeMessage, QueueTypeOK
<1>s. ASSUME NEW m \in Messages, NEW state \in SteerStates, steer' = [steer EXCEPT ![m] = state]
      PROVE  steer' \in [Messages -> SteerStates]
  BY <1>s DEF QueueTypeOK
<1>r. {"requested", "dispatched", "given", "none"} \subseteq SteerStates
  BY DEF SteerStates
<1>q. ASSUME NEW m \in Messages, Requeue(m) PROVE entry' \in [Messages -> Entry]
  <2>1. Become(m, "queued") \/ entry' = entry
    BY <1>q DEF Requeue
  <2> QED
    BY <1>b, <2>1 DEF QueueTypeOK
<1>c. Command => commands' \in Nat /\ faults' = faults
  BY DEF Command, QueueTypeOK
<1>f. Fault => faults' \in Nat /\ commands' = commands
  BY DEF Fault, QueueTypeOK
<1>2. CASE UNCHANGED <<threadVars, bounds>>
  BY <1>2 DEF QueueTypeOK, threadVars, queueVars, startVars, steerVars, bounds
<1>3. ASSUME NEW m \in Messages, SendTurn(m), commands' \in Nat, faults' \in Nat
      PROVE  QueueTypeOK'
  <2>1. LeaveQueue(m) /\ BecomeMessage(m)
    BY <1>3 DEF SendTurn
  <2> QED
    BY <1>1, <1>3, <1>l, <1>m, <2>1 DEF SendTurn, QueueTypeOK, steerVars
<1>4. CASE PersonsCommand
  <2>1. ASSUME NEW m \in Messages, NEW atHead \in BOOLEAN, NEW carried \in {{}, {"stop"}},
               Add(m, atHead, carried)
        PROVE  QueueTypeOK'
    <3>1. hold' \subseteq Causes
      BY <2>1 DEF Add, QueueTypeOK, Causes
    <3>2. entry' \in [Messages -> Entry]
      BY <1>n, <2>1 DEF Add, QueueTypeOK
    <3>3. /\ commands' \in Nat /\ faults' = faults
          /\ UNCHANGED <<thread, sent, latest, startVars, steerVars>>
      BY <1>c, <2>1 DEF Add
    <3> QED
      BY <1>1, <3>1, <3>2, <3>3 DEF QueueTypeOK, startVars, steerVars
  <2>2. ASSUME NEW m \in Messages, Edit(m) \/ Retry(m) PROVE QueueTypeOK'
    <3>1. entry' \in [Messages -> Entry]
      BY <1>b, <1>e, <2>2 DEF Edit, Retry
    <3>2. /\ commands' \in Nat /\ faults' = faults
          /\ UNCHANGED <<hold, thread, sent, latest, startVars, steerVars>>
      BY <1>c, <2>2 DEF Edit, Retry
    <3> QED
      BY <1>1, <3>1, <3>2 DEF QueueTypeOK, startVars, steerVars
  <2>3. ASSUME NEW m \in Messages, Remove(m) PROVE QueueTypeOK'
    <3>1. /\ LeaveQueue(m) /\ commands' \in Nat /\ faults' = faults
          /\ UNCHANGED <<thread, sent, latest, startVars, steerVars>>
      BY <1>c, <2>3 DEF Remove
    <3> QED
      BY <1>1, <1>l, <3>1 DEF QueueTypeOK, startVars, steerVars
  <2>4. ASSUME NEW m \in Messages, Steer(m) PROVE QueueTypeOK'
    <3>1. entry' \in [Messages -> Entry] /\ steer' \in [Messages -> SteerStates]
      BY <1>b, <1>s, <1>r, <2>4 DEF Steer
    <3>2. /\ commands' \in Nat /\ faults' = faults
          /\ UNCHANGED <<hold, thread, sent, latest, startVars, missed, given>>
      BY <1>c, <2>4 DEF Steer
    <3> QED
      BY <1>1, <3>1, <3>2 DEF QueueTypeOK, startVars
  <2>5. ASSUME NEW m \in Messages, SendDirectly(m) PROVE QueueTypeOK'
    BY <1>3, <1>c, <2>5 DEF SendDirectly, QueueTypeOK
  <2>6. ASSUME NEW m \in Messages, NEW before \in Messages, MoveBefore(m, before) \/ MoveToEnd(m)
        PROVE  QueueTypeOK'
    <3>1. /\ commands' \in Nat /\ faults' = faults
          /\ UNCHANGED <<entry, hold, thread, sent, latest, startVars, steerVars>>
      BY <1>c, <2>6 DEF MoveBefore, MoveToEnd
    <3> QED
      BY <1>1, <3>1 DEF QueueTypeOK, startVars, steerVars
  <2>7. CASE Hold \/ Trash
    <3>1. hold' \subseteq Causes
      BY <1>h, <2>7 DEF Hold, Trash, Causes
    <3>2. /\ commands' \in Nat /\ faults' = faults /\ thread' \in {thread, "trashed"}
          /\ UNCHANGED <<entry, sent, latest, startVars, steerVars>>
      BY <1>c, <2>7 DEF Hold, Trash
    <3> QED
      BY <1>1, <3>1, <3>2 DEF QueueTypeOK, startVars, steerVars
  <2>8. CASE Stop
    <3>1. hold' \subseteq Causes
      BY <1>h, <2>8 DEF Stop, Causes
    <3>2. commands' \in Nat /\ faults' = faults
      BY <1>c, <2>8 DEF Stop
    <3> QED
      BY <1>1, <2>8, <3>1, <3>2 DEF Stop, QueueTypeOK, steerVars
  <2>9. CASE Restore
    <3>1. commands' \in Nat /\ faults' = faults
      BY <1>c, <2>9 DEF Restore
    <3> QED
      BY <1>1, <2>9, <3>1 DEF Restore, QueueTypeOK, queueVars, startVars, steerVars
  <2>10. CASE Delete
    <3>1. commands' \in Nat /\ faults' = faults /\ entry' \in [Messages -> Entry] /\ hold' = {}
      BY <1>c, <1>n, <2>10 DEF Delete
    <3> QED
      BY <1>1, <2>10, <3>1 DEF Delete, QueueTypeOK, startVars, steerVars
  <2>11. ASSUME NEW acknowledged \in SUBSET hold, Resume(acknowledged) PROVE QueueTypeOK'
    <3>1. commands' \in Nat /\ faults' = faults
      BY <1>c, <2>11 DEF Resume
    <3> QED
      BY <1>1, <2>11, <3>1 DEF Resume, QueueTypeOK, startVars, steerVars
  <2> QED
    BY <1>4, <2>1, <2>2, <2>3, <2>4, <2>5, <2>6, <2>7, <2>8, <2>9, <2>10, <2>11, Zenon
       DEF PersonsCommand
<1>5. ASSUME NEW m \in Messages, ProviderActs(m) PROVE QueueTypeOK'
  <2>g. ASSUME given' = [given EXCEPT ![m] = @ + 1] PROVE given' \in [Messages -> Nat]
    BY <2>g DEF QueueTypeOK
  <2>1. CASE TurnStarts(m)
    <3>1. given' \in [Messages -> Nat]
      BY <2>1, <2>g DEF TurnStarts
    <3> QED
      BY <1>1, <2>1, <3>1 DEF TurnStarts, QueueTypeOK, queueVars, bounds
  <2>2. CASE MarkSteer(m)
    <3>1. steer' \in [Messages -> SteerStates]
      BY <1>s, <1>r, <2>2 DEF MarkSteer
    <3> QED
      BY <1>1, <2>2, <3>1 DEF MarkSteer, QueueTypeOK, queueVars, startVars, bounds
  <2>3. CASE TakeSteer(m)
    <3>1. steer' \in [Messages -> SteerStates] /\ given' \in [Messages -> Nat]
      BY <1>s, <1>r, <2>3, <2>g DEF TakeSteer
    <3> QED
      BY <1>1, <2>3, <3>1 DEF TakeSteer, QueueTypeOK, queueVars, startVars, bounds
  <2>4. CASE AcceptSteer(m)
    <3>1. /\ steer' \in [Messages -> SteerStates]
          /\ entry' \in [Messages -> Entry] /\ hold' \subseteq Causes
          /\ sent' \subseteq Messages /\ latest' \in Messages \cup {NoMessage}
      BY <1>s, <1>r, <1>l, <1>m, <2>4 DEF AcceptSteer
    <3> QED
      BY <1>1, <2>4, <3>1 DEF AcceptSteer, QueueTypeOK, startVars, bounds
  <2>5. CASE RejectSteer(m)
    <3>1. steer' \in [Messages -> SteerStates] /\ entry' \in [Messages -> Entry]
      BY <1>s, <1>r, <1>q, <2>5 DEF RejectSteer
    <3>2. commands' \in Nat /\ faults' \in Nat
      BY <1>f, <2>5 DEF RejectSteer, QueueTypeOK, bounds
    <3> QED
      BY <1>1, <2>5, <3>1, <3>2 DEF RejectSteer, QueueTypeOK, startVars
  <2>6. CASE RecoverSteer(m)
    <3>1. steer' \in [Messages -> SteerStates]
      BY <1>s, <1>r, <2>6 DEF RecoverSteer
    <3>2. Requeue(m) \/ Become(m, "failed") \/ entry' = entry
      BY <2>6 DEF RecoverSteer
    <3>3. entry' \in [Messages -> Entry]
      BY <1>b, <1>q, <3>2 DEF QueueTypeOK
    <3> QED
      BY <1>1, <2>6, <3>1, <3>3 DEF RecoverSteer, QueueTypeOK, startVars, bounds
  <2>7. CASE StartEnds(m)
    BY <1>1, <2>7 DEF StartEnds, QueueTypeOK, queueVars, steerVars, bounds
  <2> QED
    BY <1>5, <2>1, <2>2, <2>3, <2>4, <2>5, <2>6, <2>7 DEF ProviderActs
<1>6. CASE TurnEnds
  <2>1. hold' \subseteq Causes
    BY <1>6, <1>h DEF TurnEnds, Causes, QueueTypeOK
  <2> QED
    BY <1>1, <1>6, <2>1 DEF TurnEnds, QueueTypeOK, bounds
<1>7. ASSUME NEW cause \in Causes, RecordHold(cause) PROVE QueueTypeOK'
  <2>1. hold' \subseteq Causes
    BY <1>7, <1>h DEF RecordHold, QueueTypeOK
  <2>2. commands' \in Nat /\ faults' \in Nat
    BY <1>7, <1>f DEF RecordHold, QueueTypeOK, bounds
  <2> QED
    BY <1>1, <1>7, <2>1, <2>2 DEF RecordHold, QueueTypeOK, startVars, steerVars
<1>8. ASSUME NEW m \in Messages, SendHead(m) PROVE QueueTypeOK'
  BY <1>3, <1>8 DEF SendHead, QueueTypeOK, bounds
<1>9. CASE LoseThread
  <2>1. \A state \in SteerStates : AfterLoss(state) \in SteerStates
    BY DEF AfterLoss, SteerStates
  <2>2. steer' \in [Messages -> SteerStates]
    BY <1>9, <2>1 DEF LoseThread, QueueTypeOK
  <2> QED
    BY <1>1, <1>9, <2>2 DEF LoseThread, QueueTypeOK, queueVars, bounds
<1> QED
  BY <1>2, <1>4, <1>5, <1>6, <1>7, <1>8, <1>9, Zenon DEF ThreadStep

LEMMA TypesKept ==
  ASSUME TypeOK, OrderOK, PassInv, Next
  PROVE  TypeOK'
<1> USE DrainAssumption
<1> DEFINE Refusals == [key : Key, count : 0 .. MaxAttempts - 1]
<1>q. QueueTypeOK'
  BY StepsAreThreadSteps, QueueTypesKept DEF Next, TypeOK
<1>p. pass \in Pass /\ refusals \in Refusals
  BY DEF TypeOK
<1>h. /\ pass.at \in Places /\ pass.head \in Key /\ pass.ready \in BOOLEAN
      /\ pass.pin \in Messages \cup {NoMessage}
      /\ pass.at # "idle" => pass.head.message \in Messages
  BY <1>p DEF Pass, PassInv
<1>t. leftover' \subseteq Messages /\ drained' \subseteq Messages /\ excused' \subseteq Messages
  <2>1. Queued \subseteq Messages
    BY DEF OrderOK, Queued
  <2>2. leftover' \subseteq Messages
    BY <2>1 DEF Next, Track, TypeOK
  <2>3. drained' \subseteq Messages
    BY <1>h DEF Next, Track, TypeOK
  <2> QED
    BY <2>2, <2>3 DEF Next, Track, TypeOK
<1>n. NoKey \in Key /\ NoPass \in Pass
  BY DEF NoKey, Key, NoPass, Pass, Places
<1>r. [key |-> NoKey, count |-> 0] \in Refusals
  BY <1>n
<1>u. /\ phase \in {"down", "booting", "ready", "serving"} /\ queuedAtBoot \in BOOLEAN
      /\ news \in Seq(Messages)
      /\ awaiting \in Messages \cup {NoMessage} /\ watched \subseteq Messages
      /\ seen \in Messages \cup {NoMessage} /\ pending \in Messages \cup {NoMessage}
      /\ unheld \in BOOLEAN /\ crashes \in Nat /\ running \in BOOLEAN
      /\ latest \in Messages \cup {NoMessage}
  BY DEF TypeOK, QueueTypeOK
<1>i. \A count \in 0 .. MaxAttempts - 1 : [key |-> pass.head, count |-> count] \in Refusals
  BY <1>h
<1>c. refusals.count \in 0 .. MaxAttempts - 1 /\ 0 \in 0 .. MaxAttempts - 1
  BY <1>p
<1> HIDE DEF Refusals
<1>g. ASSUME NEW place \in Places, GoOn(place) PROVE pass' \in Pass
  BY <1>g, <1>p DEF GoOn, Pass
<1> DEFINE Goal ==
      /\ phase' \in {"down", "booting", "ready", "serving"} /\ queuedAtBoot' \in BOOLEAN
      /\ news' \in Seq(Messages)
      /\ awaiting' \in Messages \cup {NoMessage} /\ watched' \subseteq Messages
      /\ refusals' \in Refusals
      /\ pass' \in Pass /\ seen' \in Messages \cup {NoMessage}
      /\ unheld' \in BOOLEAN /\ crashes' \in Nat
<1> SUFFICES Goal
  BY <1>q, <1>t DEF TypeOK, Refusals
<1>1. CASE UNCHANGED drainVars
  BY <1>p, <1>u, <1>1 DEF drainVars, memory
<1>2. CASE StartIsOver
  <2>1. PICK m \in Messages : news' = IF Serving THEN Append(news, m) ELSE news
    BY <1>2 DEF StartIsOver
  <2>2. news' \in Seq(Messages)
    BY <1>u, <2>1
  <2> QED
    BY <1>p, <1>u, <1>2, <2>2 DEF StartIsOver, memory
<1>3. CASE Startup
  <2>1. CASE Boot
    BY <1>p, <1>u, <2>1 DEF Boot, memory
  <2>2. CASE Recover
    BY <1>p, <1>u, <1>1, <2>2 DEF Recover
  <2>3. CASE AdmitCommands
    BY <1>p, <1>u, <2>3 DEF AdmitCommands, memory
  <2>4. CASE HoldQueuedAtBoot
    BY <1>p, <1>u, <2>4 DEF HoldQueuedAtBoot, memory
  <2> QED
    BY <1>p, <1>u, <1>3, <2>1, <2>2, <2>3, <2>4 DEF Startup
<1>4. CASE Crash
  <2>1. news' \in Seq(Messages)
    BY <1>4 DEF Crash
  <2>2. /\ phase' = "down" /\ queuedAtBoot' = FALSE /\ awaiting' = NoMessage /\ watched' = {}
        /\ refusals' = [key |-> NoKey, count |-> 0] /\ seen' = NoMessage /\ pass' = NoPass
        /\ unheld' = FALSE
    BY <1>4 DEF Crash
  <2>3. crashes' \in Nat
    BY <1>u, <1>4 DEF Crash
  <2> QED
    BY <1>n, <1>r, <2>1, <2>2, <2>3
<1>5. CASE BeginPass
  <2>1. HeadKey \in Key
    <3>1. order # <<>>
      BY <1>5 DEF BeginPass
    <3>2. Head(order) \in Messages
      BY <3>1, HeadOfQueue
    <3>3. entry[Head(order)].revision \in Nat
      BY <3>2 DEF TypeOK, QueueTypeOK, Entry
    <3> QED
      BY <3>1, <3>2, <3>3 DEF HeadKey, KeyOf, Key
  <2>2. pass' \in Pass
    BY <1>5, <1>n, <2>1 DEF BeginPass, NoPass, Pass, Places
  <2>3. refusals' \in Refusals
    BY <1>p, <1>5, <1>r DEF BeginPass
  <2> QED
    BY <1>p, <1>u, <1>5, <2>2, <2>3 DEF BeginPass
<1>6. CASE OnStartEnded
  <2>1. news' \in Seq(Messages)
    BY <1>u, <1>6, TailElements DEF OnStartEnded
  <2>2. awaiting' \in {awaiting, NoMessage} /\ watched' \subseteq watched
    BY <1>6 DEF OnStartEnded
  <2> QED
    BY <1>p, <1>u, <1>6, <2>1, <2>2 DEF OnStartEnded
<1>7. CASE PreviousIsOver
  BY <1>p, <1>u, <1>7, <1>g DEF PreviousIsOver, Places
<1>8. CASE PreviousPending
  <2>1. awaiting' \in {awaiting, NoMessage}
    BY <1>8 DEF PreviousPending
  <2> QED
    BY <1>p, <1>u, <1>8, <1>n, <2>1 DEF PreviousPending, EndPass
<1>9. CASE ReadShell
  <2>1. pass' \in Pass
    BY <1>u, <1>9, <1>p DEF ReadShell, Pass, Places
  <2> QED
    BY <1>p, <1>u, <1>9, <2>1 DEF ReadShell, memory
<1>10. CASE Pin
  <2>1. pass' \in Pass
    BY <1>u, <1>10, <1>p DEF Pin, Pass, Places
  <2> QED
    BY <1>p, <1>u, <1>10, <2>1 DEF Pin, memory
<1>11. CASE CheckIdle
  <2>1. pass' \in Pass
    BY <1>11, <1>n, <1>g DEF CheckIdle, EndPass, Places
  <2> QED
    BY <1>p, <1>u, <1>11, <2>1 DEF CheckIdle
<1>12. CASE Send
  <2>1. pass' \in Pass
    BY <1>12, <1>g DEF Send, Places
  <2> QED
    BY <1>p, <1>u, <1>12, <2>1 DEF Send, memory
<1>13. CASE Refused
  <2>2. PICK count \in 0 .. MaxAttempts - 1 :
          count = IF refusals.key = pass.head THEN refusals.count ELSE 0
    BY <1>c
  <2>3. \/ count + 1 < MaxAttempts /\ refusals' = [key |-> pass.head, count |-> count + 1]
        \/ refusals' = [key |-> NoKey, count |-> 0]
    BY <1>13, <2>2 DEF Refused
  <2>4. refusals' \in Refusals
    BY <1>i, <1>r, <2>2, <2>3
  <2> QED
    BY <1>p, <1>u, <1>13, <1>n, <2>4 DEF Refused, EndPass
<1>14. CASE Note
  <2>1. pass.head.message \in Messages
    BY <1>14, <1>h DEF Note, PassAt
  <2> QED
    BY <1>p, <1>u, <1>14, <1>n, <1>r, <2>1 DEF Note, EndPass
<1>15. CASE Person \/ Provider \/ TurnIsOver
  BY <1>p, <1>u, <1>1, <1>15 DEF Person, Provider, TurnIsOver
<1> QED
  BY <1>2, <1>3, <1>4, <1>5, <1>6, <1>7, <1>8, <1>9, <1>10, <1>11, <1>12, <1>13, <1>14, <1>15,
     Zenon DEF Next, Steps, PassStep

(* The news grows by a start that is over and shrinks from its head.        *)
LEMMA NewsSteps ==
  ASSUME TypeOK, Steps
  PROVE  \/ news' = news
         \/ \E m \in Messages : StartEnds(m) /\ news' = Append(news, m)
         \/ LaneIsFree /\ news # <<>> /\ news' = Tail(news) /\ OnStartEnded
         \/ Crash /\ news' = <<>>
<1>1. CASE UNCHANGED drainVars
  BY <1>1 DEF drainVars
<1>2. CASE Person \/ Provider \/ TurnIsOver \/ Recover
  BY <1>1, <1>2 DEF Person, Provider, TurnIsOver, Recover
<1>3. CASE StartIsOver
  BY <1>3 DEF StartIsOver
<1>4. CASE Boot \/ AdmitCommands \/ HoldQueuedAtBoot
  BY <1>4 DEF Boot, AdmitCommands, HoldQueuedAtBoot
<1>5. CASE Crash
  BY <1>5 DEF Crash
<1>6. CASE BeginPass
  BY <1>6 DEF BeginPass
<1>7. CASE OnStartEnded
  BY <1>7 DEF OnStartEnded
<1>8. CASE PreviousIsOver \/ PreviousPending \/ ReadShell \/ Pin \/ CheckIdle
  BY <1>8 DEF PreviousIsOver, PreviousPending, ReadShell, Pin, CheckIdle
<1>9. CASE Send \/ Refused \/ Note
  BY <1>9 DEF Send, Refused, Note
<1> QED
  BY <1>2, <1>3, <1>4, <1>5, <1>6, <1>7, <1>8, <1>9 DEF Steps, Startup, PassStep

LEMMA NewsKept ==
  ASSUME TypeOK, OrderOK, NothingSentStaysQueued, FlightInv, NewsInv, Steps
  PROVE  NewsInv'
<1>1. /\ FlightInv' /\ sent \subseteq sent' /\ sent' \subseteq Messages
      /\ inFlight' \cup lost' \subseteq inFlight \cup lost \cup (Messages \ sent)
  BY FlightSteps, StepsAreThreadSteps, QueueTypesKept DEF TypeOK, QueueTypeOK
<1>2. CASE news' = news
  <2>1. Elements(news') = Elements(news) /\ Distinct(news') = Distinct(news)
    BY <1>2
  <2> QED
    BY <1>1, <2>1 DEF NewsInv
<1>3. ASSUME NEW m \in Messages, StartEnds(m), news' = Append(news, m) PROVE NewsInv'
  <2>1. /\ m \in inFlight \cup lost /\ inFlight' = inFlight \ {m} /\ lost' = lost \ {m}
        /\ sent' = sent
    BY <1>3 DEF StartEnds
  <2>2. m \notin Elements(news) /\ m \in sent
    BY <2>1 DEF NewsInv, FlightInv
  <2>3. /\ Append(news, m) \in Seq(Messages)
        /\ Elements(Append(news, m)) = Elements(news) \cup {m}
        /\ m \notin Elements(news) /\ Distinct(news) => Distinct(Append(news, m))
    <3>1. news \in Seq(Messages)
      BY DEF TypeOK
    <3> QED
      BY <3>1, AppendedElements, Zenon
  <2>4. Elements(news') = Elements(news) \cup {m} /\ Distinct(news')
    BY <1>3, <2>2, <2>3, Zenon DEF NewsInv
  <2> QED
    BY <2>1, <2>2, <2>4 DEF NewsInv
<1>4. CASE news # <<>> /\ news' = Tail(news)
  <2>1. Elements(Tail(news)) \subseteq Elements(news) /\ (Distinct(news) => Distinct(Tail(news)))
    BY <1>4, TailElements, Zenon DEF TypeOK
  <2>2. Elements(news') \subseteq Elements(news) /\ Distinct(news')
    BY <1>4, <2>1, Zenon DEF NewsInv
  <2> QED
    BY <1>1, <2>2 DEF NewsInv
<1>5. CASE news' = <<>>
  <2>1. Elements(news') = {} /\ Distinct(news')
    BY <1>5 DEF Elements, Distinct
  <2> QED
    BY <2>1 DEF NewsInv
<1> QED
  BY <1>2, <1>3, <1>4, <1>5, NewsSteps, Zenon

(* Only the start of a process and its loss change what it does.            *)
LEMMA PhaseSteps ==
  ASSUME Steps
  PROVE  \/ phase # "down" /\ UNCHANGED <<phase, queuedAtBoot, unheld>>
         \/ Boot \/ AdmitCommands \/ HoldQueuedAtBoot \/ Crash
<1>1. CASE Person \/ Provider \/ TurnIsOver \/ StartIsOver \/ Recover
  BY <1>1 DEF Person, Provider, TurnIsOver, StartIsOver, Recover, drainVars, Up
<1>2. CASE BeginPass \/ OnStartEnded
  BY <1>2 DEF BeginPass, OnStartEnded, LaneIsFree, Serving
<1>3. CASE PreviousIsOver \/ PreviousPending \/ ReadShell \/ Pin \/ CheckIdle
  BY <1>3 DEF PreviousIsOver, PreviousPending, ReadShell, Pin, CheckIdle, PassAt, Serving
<1>4. CASE Send \/ Refused \/ Note
  BY <1>4 DEF Send, Refused, Note, PassAt, Serving
<1> QED
  BY <1>1, <1>2, <1>3, <1>4 DEF Steps, Startup, PassStep

LEMMA LeftoverKept ==
  ASSUME TypeOK, OrderOK, HoldInv, LeftoverInv, Next
  PROVE  LeftoverInv'
<1>0. order = <<>> <=> Elements(order) = {}
  BY EmptyElements DEF OrderOK
<1>1. CASE Boot
  <2>1. leftover' = Elements(order) /\ phase' = "booting"
    BY <1>1 DEF Boot, Next, Track, Queued, Elements
  <2>2. Elements(order') = Elements(order)
    BY <1>1 DEF Boot, threadVars, queueVars
  <2>3. queuedAtBoot' = (order # <<>>) \/ unheld' = TRUE
    BY <1>1 DEF Boot
  <2> QED
    BY <1>0, <2>1, <2>2, <2>3 DEF LeftoverInv
<1>2. CASE Crash
  BY <1>2 DEF Crash, LeftoverInv
<1>3. ASSUME phase # "down"
      PROVE  leftover' \subseteq leftover /\ leftover' \subseteq Elements(order')
  BY <1>3 DEF Next, Track, Elements
<1>4. CASE AdmitCommands
  BY <1>3, <1>4 DEF AdmitCommands, LeftoverInv
<1>5. CASE HoldQueuedAtBoot
  <2>1. phase = "ready" /\ phase' = "serving"
    BY <1>5 DEF HoldQueuedAtBoot
  <2>2. unheld' = (unheld \/ faults' # faults)
    BY <1>5 DEF HoldQueuedAtBoot
  <2>3. CASE ~queuedAtBoot
    BY <1>3, <2>1, <2>2, <2>3 DEF LeftoverInv
  <2>4. CASE queuedAtBoot
    <3>1. RecordHold("restart")
      BY <1>5, <2>4 DEF HoldQueuedAtBoot
    <3>2. Elements(order') = Elements(order)
      BY <3>1 DEF RecordHold
    <3>3. CASE Fault
      <4>1. faults' # faults
        BY <3>3 DEF Fault, TypeOK, QueueTypeOK
      <4> QED
        BY <1>3, <2>1, <2>2, <4>1 DEF LeftoverInv
    <3>4. CASE thread = "live" /\ HoldFor("restart")
      BY <1>0, <1>3, <2>1, <3>2, <3>4 DEF HoldFor, LeftoverInv
    <3>5. CASE thread # "live" /\ hold' = hold
      <4>1. thread \in {"trashed", "deleted"}
        BY <3>5 DEF TypeOK, QueueTypeOK
      <4>2. Elements(order) = {} \/ hold # {}
        BY <4>1 DEF HoldInv
      <4> QED
        BY <1>3, <2>1, <3>2, <3>5, <4>2 DEF LeftoverInv
    <3> QED
      BY <3>1, <3>3, <3>4, <3>5 DEF RecordHold
  <2> QED
    BY <2>3, <2>4
<1>6. CASE phase # "down" /\ UNCHANGED <<phase, queuedAtBoot, unheld>>
  <2>1. hold # {} /\ hold' = {} => leftover' = {}
    BY <1>6 DEF Next, Track
  <2> QED
    BY <1>3, <1>6, <2>1 DEF LeftoverInv
<1> QED
  BY <1>1, <1>2, <1>4, <1>5, <1>6, PhaseSteps DEF Next

LEMMA PassKept ==
  ASSUME TypeOK, OrderOK, NothingSentStaysQueued, FlightInv, PassInv, Steps
  PROVE  PassInv'
<1>1. /\ sent \subseteq sent'
      /\ pending' \in {pending, NoMessage} \cup (Messages \ sent)
  BY FlightSteps, StepsAreThreadSteps DEF TypeOK
<1>2. ASSUME UNCHANGED <<pass, seen>>, phase' = phase \/ phase # "serving" PROVE PassInv'
  BY <1>1, <1>2, QueueAssumption DEF PassInv
<1>3. ASSUME pass' = NoPass PROVE PassInv'
  BY <1>3 DEF NoPass, PassInv
<1>p. pass \in [at : Places, head : Key, ready : BOOLEAN, pin : Messages \cup {NoMessage}]
  BY DEF TypeOK, Pass
<1>4. CASE Person \/ Provider \/ TurnIsOver \/ StartIsOver \/ Recover
  BY <1>2, <1>4 DEF Person, Provider, TurnIsOver, StartIsOver, Recover, drainVars, memory
<1>5. CASE Boot \/ AdmitCommands \/ HoldQueuedAtBoot
  BY <1>2, <1>5 DEF Boot, AdmitCommands, HoldQueuedAtBoot, memory
<1>6. CASE OnStartEnded
  BY <1>2, <1>6 DEF OnStartEnded
<1>7. CASE Crash \/ PreviousPending \/ Refused \/ Note
  BY <1>3, <1>7 DEF Crash, PreviousPending, Refused, Note, EndPass
<1>8. CASE BeginPass
  <2>1. CASE pass' = [NoPass EXCEPT !.at = "previous", !.head = HeadKey]
    <3>1. Head(order) \in Messages /\ HeadKey.message = Head(order)
      BY <1>8, HeadOfQueue DEF BeginPass, HeadKey, KeyOf
    <3>2. pass'.at = "previous" /\ pass'.head = HeadKey
      BY <2>1 DEF NoPass
    <3>3. phase' = "serving"
      BY <1>8 DEF BeginPass, LaneIsFree, Serving
    <3> QED
      BY <3>1, <3>2, <3>3 DEF PassInv
  <2> QED
    BY <1>3, <1>8, <2>1 DEF BeginPass
<1>9. CASE PreviousIsOver \/ ReadShell \/ Send
  <2>1. pass'.at \in {"shell", "pin", "note"} /\ pass'.head = pass.head
    BY <1>9, <1>p DEF PreviousIsOver, ReadShell, Send, GoOn
  <2>2. phase = "serving" /\ phase' = phase /\ pass.at # "idle"
    BY <1>9 DEF PreviousIsOver, ReadShell, Send, PassAt, Serving
  <2> QED
    BY <2>1, <2>2 DEF PassInv
<1>10. CASE Pin
  <2>1. pass'.at = "fence" /\ pass'.head = pass.head /\ pass'.pin = latest
    BY <1>10, <1>p DEF Pin
  <2>2. phase = "serving" /\ phase' = phase /\ pass.at # "idle"
    BY <1>10 DEF Pin, PassAt, Serving
  <2> QED
    BY <1>1, <2>1, <2>2 DEF PassInv, FlightInv
<1>11. CASE CheckIdle
  <2>1. phase = "serving" /\ phase' = phase /\ pass.at = "fence"
    BY <1>11 DEF CheckIdle, PassAt, Serving
  <2>2. seen' = pending /\ pending' = pending
    BY <1>11 DEF CheckIdle, threadVars, startVars
  <2>3. CASE GoOn("dispatch")
    <3>1. pass'.at = "dispatch" /\ pass'.head = pass.head /\ pass'.pin = pass.pin
      BY <1>p, <2>3 DEF GoOn
    <3> QED
      BY <1>1, <2>1, <2>2, <3>1 DEF PassInv
  <2> QED
    BY <1>3, <1>11, <2>3 DEF CheckIdle, EndPass
<1> QED
  BY <1>4, <1>5, <1>6, <1>7, <1>8, <1>9, <1>10, <1>11 DEF Steps, Startup, PassStep

LEMMA DrainedKept ==
  ASSUME TypeOK, OrderOK, NothingSentStaysQueued, FlightInv, NewsInv, PassInv, DrainedInv, Next
  PROVE  DrainedInv'
<1>1. /\ sent \subseteq sent' /\ bound \subseteq bound'
      /\ inFlight' \cup lost' \subseteq inFlight \cup lost \cup (Messages \ sent)
  BY FlightSteps, StepsAreThreadSteps DEF TypeOK, Next
<1>2. drained \subseteq sent
  BY DEF DrainedInv
<1>3. Elements(news') \subseteq Elements(news) \cup inFlight \cup lost
  <2>1. CASE news' = news
    <3>1. Elements(news') = Elements(news)
      BY <2>1
    <3> QED
      BY <3>1
  <2>2. ASSUME NEW m \in Messages, StartEnds(m), news' = Append(news, m)
        PROVE  Elements(news') \subseteq Elements(news) \cup inFlight \cup lost
    <3>1. /\ Append(news, m) \in Seq(Messages)
          /\ Elements(Append(news, m)) = Elements(news) \cup {m}
          /\ m \notin Elements(news) /\ Distinct(news) => Distinct(Append(news, m))
      BY AppendedElements, Zenon DEF TypeOK
    <3>2. Elements(news') = Elements(news) \cup {m}
      BY <2>2, <3>1, Zenon
    <3> QED
      BY <2>2, <3>2 DEF StartEnds
  <2>3. CASE news # <<>> /\ news' = Tail(news)
    <3>1. Elements(Tail(news)) \subseteq Elements(news)
      BY <2>3, TailElements, Zenon DEF TypeOK
    <3>2. Elements(news') \subseteq Elements(news)
      BY <2>3, <3>1, Zenon
    <3> QED
      BY <3>2
  <2>4. CASE news' = <<>>
    BY <2>4 DEF Elements
  <2> QED
    BY <2>1, <2>2, <2>3, <2>4, NewsSteps, Zenon DEF Next
<1>4. \A m \in drained : m \in Untold' => m \in Untold
  BY <1>1, <1>2, <1>3 DEF Untold
<1>5. ASSUME drained' \subseteq drained, phase' = phase \/ phase' = "down",
             phase = "serving" => \A m \in drained \cap Untold' : Noted(m) => Noted(m)'
      PROVE  DrainedInv'
  <2>1. drained' \subseteq sent'
    BY <1>1, <1>2, <1>5
  <2>2. phase' = "serving" => \A m \in drained' \cap Untold' : Noted(m)'
    BY <1>4, <1>5 DEF DrainedInv
  <2> QED
    BY <1>5, <2>1, <2>2 DEF DrainedInv
<1>6. ASSUME UNCHANGED pass PROVE drained' \subseteq drained
  BY <1>6 DEF Next, Track
<1>7. ASSUME UNCHANGED <<phase, pass, watched>> PROVE DrainedInv'
  BY <1>1, <1>5, <1>6, <1>7 DEF Noted
<1>8. CASE Person \/ Provider \/ TurnIsOver \/ StartIsOver \/ Recover
  BY <1>7, <1>8 DEF Person, Provider, TurnIsOver, StartIsOver, Recover, drainVars, memory
<1>9. CASE Boot \/ AdmitCommands \/ HoldQueuedAtBoot
  <2>1. phase \in {"down", "booting", "ready"} /\ UNCHANGED pass
    BY <1>9 DEF Boot, AdmitCommands, HoldQueuedAtBoot
  <2>2. drained' = {}
    BY <1>6, <2>1 DEF Next, Track, Up, DrainedInv
  <2> QED
    BY <2>2 DEF DrainedInv
<1>10. CASE Crash
  <2>1. phase' = "down" /\ pass' = NoPass /\ phase # "down"
    BY <1>10 DEF Crash, Up
  <2>2. drained' \subseteq drained
    BY <2>1 DEF Next, Track, NoPass, Up
  <2> QED
    BY <1>1, <1>2, <2>1, <2>2 DEF DrainedInv
<1>11. CASE OnStartEnded
  <2>1. /\ phase' = phase /\ UNCHANGED pass /\ pass.at = "idle"
        /\ news # <<>> /\ news' = Tail(news)
        /\ watched \ {Head(news)} \subseteq watched'
    BY <1>11 DEF OnStartEnded, LaneIsFree
  <2>2. UNCHANGED <<inFlight, lost>>
    BY <1>11 DEF OnStartEnded, RecordHold, threadVars, startVars
  <2>3. /\ Head(news) \in Elements(news)
        /\ Distinct(news) => Head(news) \notin Elements(Tail(news))
    BY <2>1, TailElements DEF TypeOK
  <2>4. Head(news) \notin Elements(news') \cup inFlight \cup lost
    BY <2>1, <2>3, Zenon DEF NewsInv
  <2>5. PICK h : h = Head(news)
    OBVIOUS
  <2>6. h \notin Untold' /\ watched \ {h} \subseteq watched'
    BY <2>1, <2>2, <2>4, <2>5, Zenon DEF Untold
  <2> QED
    BY <1>1, <1>5, <1>6, <2>1, <2>6 DEF Noted
<1>12. CASE BeginPass
  <2>1. pass.at = "idle" /\ phase' = phase /\ watched' = watched
    BY <1>12 DEF BeginPass, LaneIsFree
  <2>2. drained' \subseteq drained
    BY <2>1 DEF Next, Track
  <2> QED
    BY <1>1, <1>5, <2>1, <2>2 DEF Noted
<1>13. CASE PreviousIsOver \/ PreviousPending \/ ReadShell \/ Pin \/ CheckIdle \/ Refused
  <2>1. /\ phase' = phase /\ watched \subseteq watched' \cup bound /\ pass.at # "note"
    BY <1>13 DEF PreviousIsOver, PreviousPending, ReadShell, Pin, CheckIdle, Refused, PassAt,
       memory
  <2>2. ~(pass.at = "dispatch" /\ pass'.at = "note")
    BY <1>13 DEF PreviousIsOver, PreviousPending, ReadShell, Pin, CheckIdle, Refused, PassAt,
       EndPass, NoPass, GoOn, TypeOK, Pass
  <2>3. drained' \subseteq drained
    BY <2>2 DEF Next, Track
  <2> QED
    BY <1>1, <1>5, <2>1, <2>3 DEF Noted
<1>14. CASE Send
  <2>1. /\ pass.at = "dispatch" /\ phase = "serving" /\ phase' = phase /\ watched' = watched
        /\ pass.head.message \in sent'
    BY <1>14 DEF Send, PassAt, Serving, memory, SendTurn, BecomeMessage
  <2>2. pass'.at = "note" /\ pass'.head = pass.head
    BY <1>14 DEF Send, GoOn, TypeOK, Pass
  <2>3. drained' = drained \cup {pass.head.message}
    BY <2>1, <2>2 DEF Next, Track, Up
  <2>4. drained' \subseteq sent'
    BY <1>1, <1>2, <2>1, <2>3
  <2>5. \A m \in drained' \cap Untold' : Noted(m)'
    <3>1. \A m \in drained \cap Untold' : m \in watched \/ m \in bound
      BY <1>4, <2>1 DEF DrainedInv, Noted
    <3> QED
      BY <1>1, <2>1, <2>2, <2>3, <3>1 DEF Noted
  <2> QED
    BY <2>1, <2>4, <2>5 DEF DrainedInv
<1>15. CASE Note
  <2>1. phase' = phase /\ watched' = watched \cup {pass.head.message} /\ pass.at = "note"
    BY <1>15 DEF Note, PassAt
  <2>2. drained' \subseteq drained
    BY <2>1 DEF Next, Track
  <2> QED
    BY <1>1, <1>5, <2>1, <2>2 DEF Noted
<1> QED
  BY <1>8, <1>9, <1>10, <1>11, <1>12, <1>13, <1>14, <1>15 DEF Next, Steps, Startup, PassStep

-----------------------------------------------------------------------------
(* The invariant holds                                                      *)

LEMMA InitInv ==
  ASSUME Init
  PROVE  IndInv
<1>1. order = <<>> /\ news = <<>> /\ sent = {} /\ hold = {}
  BY DEF Init, QueueInit
<1>2. /\ Elements(order) = {} /\ Elements(news) = {} /\ Distinct(order) /\ Distinct(news)
      /\ order \in Seq(Messages) /\ news \in Seq(Messages)
  BY <1>1 DEF Elements, Distinct
<1>3. QueueTypeOK
  <2>1. entry \in [Messages -> Entry]
    BY DEF Init, QueueInit, Entry, NoEntry
  <2>2. steer \in [Messages -> SteerStates] /\ given \in [Messages -> Nat]
    BY DEF Init, QueueInit, SteerStates
  <2> QED
    BY <1>2, <2>1, <2>2 DEF Init, QueueInit, QueueTypeOK
<1>4. TypeOK
  <2>1. NoKey \in Key /\ NoPass \in Pass
    BY DEF NoKey, Key, NoPass, Pass, Places
  <2>2. refusals \in [key : Key, count : 0 .. MaxAttempts - 1]
    BY <2>1, DrainAssumption DEF Init
  <2> QED
    BY <1>2, <1>3, <2>1, <2>2 DEF Init, TypeOK
<1>5. OrderOK /\ NothingSentStaysQueued /\ HoldInv /\ NewsInv
  BY <1>1, <1>2 DEF Init, QueueInit, OrderOK, NothingSentStaysQueued, HoldInv, NewsInv
<1>6. FlightInv /\ SteerInv
  BY <1>1 DEF Init, QueueInit, FlightInv, SteerInv, Steered
<1>7. LeftoverInv /\ PassInv /\ DrainedInv
  BY <1>1 DEF Init, LeftoverInv, PassInv, NoPass, DrainedInv
<1> QED
  BY <1>4, <1>5, <1>6, <1>7 DEF IndInv

LEMMA StutterKeeps ==
  ASSUME IndInv, UNCHANGED vars
  PROVE  IndInv'
<1>u. /\ UNCHANGED <<threadVars, bounds>>
      /\ UNCHANGED <<order, entry, sent, hold, inFlight, lost, bound, pending, steer, given>>
      /\ UNCHANGED <<phase, queuedAtBoot, news, awaiting, watched, refusals, pass, seen,
                     leftover, drained, excused, unheld, crashes>>
  BY DEF vars, threadVars, queueVars, startVars, steerVars, drainVars, memory
<1>t. ThreadStep
  BY <1>u DEF ThreadStep
<1>e. Elements(order') = Elements(order) /\ Elements(news') = Elements(news)
  BY <1>u
<1>1. QueueTypeOK' /\ OrderOK' /\ NothingSentStaysQueued'
  BY <1>t, QueueTypesKept, OrderSteps, SentStaysOut, Zenon DEF IndInv, TypeOK
<1>2. TypeOK'
  BY <1>u, <1>1 DEF IndInv, TypeOK
<1>3. HoldInv' /\ FlightInv'
  BY <1>t, HoldKept, FlightSteps, Zenon DEF IndInv, TypeOK
<1>4. NewsInv'
  <2>1. Distinct(news') = Distinct(news)
    BY <1>u
  <2> QED
    BY <1>u, <1>e, <2>1 DEF IndInv, NewsInv
<1>5. SteerInv'
  BY <1>u, <1>e DEF IndInv, SteerInv, Steered
<1>6. LeftoverInv' /\ PassInv'
  BY <1>u, <1>e DEF IndInv, LeftoverInv, PassInv
<1>7. DrainedInv'
  BY <1>u, <1>e DEF IndInv, DrainedInv, Untold, Noted
<1> QED
  BY <1>1, <1>2, <1>3, <1>4, <1>5, <1>6, <1>7, Zenon DEF IndInv

LEMMA NextKeeps ==
  ASSUME IndInv, Next
  PROVE  IndInv'
<1>0. /\ TypeOK /\ QueueTypeOK /\ OrderOK /\ NothingSentStaysQueued /\ HoldInv /\ FlightInv
      /\ NewsInv /\ SteerInv /\ LeftoverInv /\ PassInv /\ DrainedInv
      /\ Steps /\ Track
  BY DEF IndInv, TypeOK, Next
<1>t. ThreadStep
  BY <1>0, StepsAreThreadSteps
<1>1. TypeOK'
  BY <1>0, TypesKept
<1>2. OrderOK' /\ NothingSentStaysQueued' /\ HoldInv'
  BY <1>0, <1>t, OrderSteps, SentStaysOut, HoldKept, Zenon
<1>3. FlightInv' /\ sent \subseteq sent'
  BY <1>0, <1>t, FlightSteps, Zenon
<1>4. NewsInv'
  BY <1>0, NewsKept
<1>5. SteerInv'
  <2>1. excused' = excused \cup NewlyExcused
    BY <1>0 DEF Track, NewlyExcused, Queued, Elements
  <2> QED
    BY <1>0, <1>t, <1>3, <2>1, SteersKept, Zenon
<1>6. LeftoverInv' /\ PassInv' /\ DrainedInv'
  BY <1>0, LeftoverKept, PassKept, DrainedKept, Zenon
<1> QED
  BY <1>1, <1>2, <1>3, <1>4, <1>5, <1>6, Zenon DEF IndInv

(* What the other theorems use.                                             *)
THEOREM DrainInvariant == Spec => []IndInv
<1>1. Init => IndInv
  BY InitInv
<1>2. IndInv /\ [Next]_vars => IndInv'
  BY NextKeeps, StutterKeeps
<1> QED
  BY <1>1, <1>2, PTL DEF Spec

(* The variables keep their types, the refusals of a head their limit.      *)
THEOREM TypesOK == Spec => []TypeOK
<1>1. IndInv => TypeOK
  BY DEF IndInv
<1> QED
  BY <1>1, DrainInvariant, PTL

(* What is sent, by whoever sent it, is never still queued.                 *)
THEOREM SentIsNotQueued == Spec => []NothingSentStaysQueued
<1>1. IndInv => NothingSentStaysQueued
  BY DEF IndInv
<1> QED
  BY <1>1, DrainInvariant, PTL

(* The hold goes with the last entry it held.                               *)
THEOREM HoldNeedsAnEntry == Spec => []EmptyQueueIsNotHeld
<1>1. IndInv => EmptyQueueIsNotHeld
  BY EmptyElements DEF IndInv, OrderOK, HoldInv, EmptyQueueIsNotHeld
<1> QED
  BY <1>1, DrainInvariant, PTL

-----------------------------------------------------------------------------
(* What a pass may send                                                     *)

LEMMA SentByTheQueue ==
  ASSUME IndInv, [Next]_vars, NEW m \in Messages, Sends(m)
  PROVE  Send /\ m = pass.head.message
<1>1. pass.at = "dispatch" /\ pass'.at = "note" /\ m \notin sent /\ m \in sent'
  BY DEF Sends
<1>2. Steps
  BY <1>1 DEF Next, vars, drainVars
<1>3. ~(UNCHANGED pass) /\ pass' # NoPass
  BY <1>1 DEF NoPass
<1>4. ~(Person \/ Provider \/ TurnIsOver \/ StartIsOver \/ Startup \/ OnStartEnded)
  BY <1>3 DEF Person, Provider, TurnIsOver, StartIsOver, Startup, Boot, Recover, AdmitCommands,
     HoldQueuedAtBoot, OnStartEnded, drainVars
<1>5. ~(Crash \/ PreviousPending \/ Refused \/ Note)
  BY <1>3 DEF Crash, PreviousPending, Refused, Note, EndPass
<1>6. ~(BeginPass \/ PreviousIsOver \/ ReadShell \/ Pin \/ CheckIdle)
  BY <1>1 DEF BeginPass, PreviousIsOver, ReadShell, Pin, CheckIdle, LaneIsFree, PassAt
<1>7. Send
  BY <1>2, <1>4, <1>5, <1>6 DEF Steps, PassStep
<1>8. sent' = sent \cup {pass.head.message}
  BY <1>7 DEF Send, SendTurn, BecomeMessage
<1> QED
  BY <1>1, <1>7, <1>8

(* A queue an earlier process left waits for a Resume.                      *)
THEOREM RestartWaitsForResume == Spec => RestartNeedsResume
<1>1. ASSUME IndInv, [Next]_vars, NEW m \in leftover, Sends(m)
      PROVE  unheld
  <2>1. m \in Messages
    BY <1>1 DEF IndInv, TypeOK
  <2>2. Send
    BY <1>1, <2>1, SentByTheQueue
  <2>3. hold = {} /\ phase = "serving"
    BY <2>2 DEF Send, Sendable, PassAt, Serving
  <2> QED
    BY <1>1, <2>3 DEF IndInv, LeftoverInv
<1>2. IndInv /\ [Next]_vars => [\A m \in leftover : Sends(m) => unheld]_vars
  BY <1>1
<1> QED
  BY <1>2, DrainInvariant, PTL DEF Spec, RestartNeedsResume

(* The failed start of what the queue sent holds the rest of it, however    *)
(* soon after the commit it failed.                                         *)
THEOREM FailedStartHolds == Spec => FailedStartHoldsRest
<1> DEFINE A == \A m \in drained :
                  /\ news # <<>> /\ news' = Tail(news) /\ Head(news) = m /\ phase' = phase
                  /\ m \notin stopped /\ m \notin bound
                  /\ order # <<>> /\ thread = "live"
                  => hold' # {} \/ faults' # faults
<1>1. ASSUME IndInv, [Next]_vars, NEW m \in drained,
             news # <<>>, news' = Tail(news), Head(news) = m, phase' = phase,
             m \notin stopped, m \notin bound, order # <<>>, thread = "live"
      PROVE  hold' # {} \/ faults' # faults
  <2>1. TypeOK /\ DrainedInv /\ news \in Seq(Messages) /\ faults \in Nat
    BY <1>1 DEF IndInv, TypeOK, QueueTypeOK
  <2>2. Tail(news) # news /\ Head(news) \in Elements(news)
    BY <1>1, <2>1, TailElements
  <2>3. Steps
    BY <1>1, <2>2 DEF Next, vars, drainVars
  <2>4. ASSUME NEW k \in Messages, news' = Append(news, k) PROVE FALSE
    <3>1. Len(Append(news, k)) = Len(news) + 1 /\ Len(Tail(news)) = Len(news) - 1 /\ Len(news) \in Nat
      BY <1>1, <2>1
    <3>2. Append(news, k) = Tail(news)
      BY <1>1, <2>4
    <3> QED
      BY <3>1, <3>2
  <2>5. ~Crash
    BY <1>1 DEF Crash, Up
  <2>6. LaneIsFree /\ OnStartEnded
    BY <1>1, <2>1, <2>2, <2>3, <2>4, <2>5, NewsSteps, Zenon
  <2>7. m \in watched
    BY <1>1, <2>1, <2>2, <2>6 DEF DrainedInv, Untold, Noted, LaneIsFree, Serving
  <2>8. RecordHold("start-failed")
    BY <1>1, <2>6, <2>7 DEF OnStartEnded
  <2>9. HoldFor("start-failed") => hold' # {}
    BY <1>1 DEF HoldFor
  <2>10. Fault => faults' # faults
    BY <2>1 DEF Fault
  <2> QED
    BY <1>1, <2>8, <2>9, <2>10 DEF RecordHold
<1>2. IndInv /\ [Next]_vars => [A]_vars
  BY <1>1, Zenon
<1> QED
  BY <1>2, DrainInvariant, PTL DEF Spec, FailedStartHoldsRest

(* The queue never sends past the newest message's start.                   *)
THEOREM NewestStartIsWaitedFor == Spec => NeverSendsPastNewestStart
<1>1. ASSUME IndInv, [Next]_vars, NEW m \in Messages, Sends(m)
      PROVE  pending \in {NoMessage, seen} \/ pending # latest
  <2>1. Send
    BY <1>1, SentByTheQueue
  <2>2. pass.at = "dispatch" /\ latest = pass.pin
    BY <2>1 DEF Send, Sendable, PassAt
  <2> QED
    BY <1>1, <2>2 DEF IndInv, PassInv
<1>2. IndInv /\ [Next]_vars
        => [(\E m \in Messages : Sends(m)) => pending \in {NoMessage, seen} \/ pending # latest]_vars
  BY <1>1
<1> QED
  BY <1>2, DrainInvariant, PTL DEF Spec, NeverSendsPastNewestStart

(* A message the provider may have taken as a steer waits for a person.     *)
THEOREM UncertainSteersWait == Spec => UncertainSteerWaits
<1>1. ASSUME IndInv, [Next]_vars, NEW m \in Messages, Sends(m)
      PROVE  given[m] = 0 \/ m \in excused
  <2>1. Send /\ m = pass.head.message
    BY <1>1, SentByTheQueue
  <2>2. entry[m].status = "queued" /\ m \notin sent
    BY <1>1, <2>1 DEF Send, Sendable, Sends
  <2> QED
    BY <1>1, <2>2 DEF IndInv, SteerInv, Steered
<1>2. IndInv /\ [Next]_vars
        => [\A m \in Messages : Sends(m) => given[m] = 0 \/ m \in excused]_vars
  BY <1>1
<1> QED
  BY <1>2, DrainInvariant, PTL DEF Spec, UncertainSteerWaits
=============================================================================
