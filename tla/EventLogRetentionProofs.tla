------------------------ MODULE EventLogRetentionProofs ------------------------
(***************************************************************************)
(* Proofs about EventLogRetention, for any threads, any length of the log  *)
(* and any sizes of batches and pages: no event that is needed is removed, *)
(* a resumed feed has no gap, and usage is counted once.                   *)
(***************************************************************************)
EXTENDS EventLogRetention, FiniteSetTheorems, TLAPS

(* Between a deletion and a later creation, turn or deletion of its thread  *)
(* is the id's creation; a sample may come before it.                       *)
StreamInv ==
  \A t \in Threads : \A d, e \in StreamOf(t) :
    log[d].kind = "deleted" /\ d < e /\ log[e].kind # "sample" => CreatedBetween(d, e, t)

(* What a job of a pass may still rely on, however old the selection is.    *)
DeletedJob(j) ==
  /\ j.head \in StreamOf(j.thread) /\ log[j.head].kind = "deleted"
  /\ j.rolled => \E r \in rollups : r.thread = j.thread /\ r.head = j.head

LiveJob(j) ==
  /\ 1 <= j.head /\ j.head - 1 <= pass.upper
  /\ \E latest \in StreamOf(j.thread) : log[latest].kind = "turn" /\ j.head <= latest

PassRecords == [at : PassPlaces, upper : Nat, todo : SUBSET Job, job : SUBSET Job]

(* The bounds a pass read stay bounds: the readers only move forward.       *)
PassInv ==
  /\ pass \in PassRecords
  /\ pass.at # "idle" => pass.upper <= projected /\ \A i \in intents : pass.upper < i
  /\ pass.at \in {"idle", "select"} => pass.todo = {}
  /\ pass.at \in {"deleted", "removing"} => \A j \in pass.todo \cup pass.job : DeletedJob(j)
  /\ pass.at \in {"live", "trimming"} => \A j \in pass.todo \cup pass.job : LiveJob(j)

(* Below a removed row, in its stream, is a later deletion or turn; above it *)
(* are the floors of its stream and of the log, and every reader's position. *)
GoneInv ==
  \A s \in gone :
    /\ s <= projected /\ \A i \in intents : s < i
    /\ s <= floor[log[s].thread] /\ s <= floor[Log]
    /\ \E r \in StreamOf(log[s].thread) : s < r /\ log[r].kind \in {"deleted", "turn"}

(* A sample is in one rollup from the deletion on, and in the log before.   *)
UsageInv ==
  /\ \A r \in rollups :
       /\ r.head \in StreamOf(r.thread) /\ log[r.head].kind = "deleted"
       /\ \A s \in r.usage : s \in StreamOf(r.thread) /\ s <= r.head
  /\ \A s \in Sequences : log[s].kind = "sample" =>
       IF RolledUp(s)
       THEN \E r \in rollups : s \in r.usage /\ \A q \in rollups : s \in q.usage => q = r
       ELSE s \notin gone

FeedRecords ==
  [at : FeedPlaces, of : Feeds, from : Nat, cursor : Nat, page : SUBSET Nat, sent : SUBSET Nat]
InFeed(f, s) == s \in Sequences /\ (f = Log \/ log[s].thread = f)

(* A page has every row that was there, up to its last; what it lacks was   *)
(* removed before it was read.                                              *)
FeedInv ==
  /\ feed \in FeedRecords
  /\ feed.at # "off" =>
       /\ feed.cursor \in Sequences
       /\ \A s \in Sequences :
            feed.from < s /\ s <= feed.cursor /\ InFeed(feed.of, s) => s \in feed.sent
  /\ feed.at = "page" =>
       /\ feed.page \subseteq Sequences
       /\ \A s \in feed.page : feed.cursor < s
       /\ \A s \in Sequences, p \in feed.page :
            InFeed(feed.of, s) /\ feed.cursor < s /\ s <= p => s \in feed.page \/ s \in gone

IndInv == TypeOK /\ StreamInv /\ PassInv /\ GoneInv /\ UsageInv /\ FeedInv

-----------------------------------------------------------------------------
(* The events of a log are its sequences, and each has a thread and a kind. *)
LEMMA LogEvents ==
  ASSUME TypeOK
  PROVE  /\ Len(log) \in Nat /\ Sequences = 1 .. Len(log)
         /\ \A s \in Sequences : s \in Nat /\ log[s].thread \in Threads /\ log[s].kind \in Kinds
<1>1. log \in Seq(Event)
  BY DEF TypeOK
<1>2. Len(log) \in Nat /\ Sequences = 1 .. Len(log)
  BY <1>1 DEF Sequences
<1>3. \A s \in Sequences : log[s] \in Event
  BY <1>1 DEF Sequences
<1> QED
  BY <1>2, <1>3 DEF Event

(* What a commit adds to the log, and what it leaves.                       *)
LEMMA Committed ==
  ASSUME TypeOK, NEW t \in Threads, NEW kind \in Kinds, Commit(t, kind)
  PROVE  /\ log' \in Seq(Event)
         /\ Sequences' = Sequences \cup {Len(log) + 1}
         /\ Len(log') = Len(log) + 1
         /\ Len(log) + 1 \notin Sequences
         /\ \A s \in Sequences : log'[s] = log[s] /\ s < Len(log) + 1
         /\ log'[Len(log) + 1].thread = t /\ log'[Len(log) + 1].kind = kind
<1>1. [thread |-> t, kind |-> kind] \in Event
  BY DEF Event
<1>2. log \in Seq(Event) /\ log' = Append(log, [thread |-> t, kind |-> kind])
  BY DEF TypeOK, Commit
<1>3. log'[Len(log) + 1] = [thread |-> t, kind |-> kind]
  BY <1>1, <1>2
<1>4. log'[Len(log) + 1].thread = t /\ log'[Len(log) + 1].kind = kind
  BY <1>3
<1> QED
  BY <1>1, <1>2, <1>4 DEF Sequences

(* Streams only grow.                                                       *)
LEMMA StreamsGrow ==
  ASSUME TypeOK, NEW t \in Threads, NEW kind \in Kinds, Commit(t, kind)
  PROVE  /\ \A u \in Threads : StreamOf(u) \subseteq StreamOf(u)'
         /\ \A u \in Threads : u # t => StreamOf(u)' = StreamOf(u)
         /\ StreamOf(t)' = StreamOf(t) \cup {Len(log) + 1}
<1>1. Sequences' = Sequences \cup {Len(log) + 1} /\ Len(log) + 1 \notin Sequences
  BY Committed
<1>2. \A s \in Sequences : log'[s].thread = log[s].thread
  BY Committed
<1>3. log'[Len(log) + 1].thread = t
  BY Committed
<1>4. \A u \in Threads : StreamOf(u)' = {s \in Sequences' : log'[s].thread = u}
  BY DEF StreamOf
<1>5. \A u \in Threads : StreamOf(u)' = {s \in Sequences \cup {Len(log) + 1} : log'[s].thread = u}
  BY <1>1, <1>4
<1> QED
  BY <1>1, <1>2, <1>3, <1>5 DEF StreamOf

-----------------------------------------------------------------------------
(* The invariant holds at the start.                                        *)
LEMMA InitInv == Init => IndInv
<1> SUFFICES ASSUME Init PROVE IndInv
  OBVIOUS
<1>1. Sequences = {} /\ Len(log) = 0 /\ log \in Seq(Event)
  BY DEF Init, Sequences
<1>2. Log \in Feeds /\ pass = NoPass /\ feed = NoFeed
  BY DEF Init, Feeds
<1>3. TypeOK
  BY <1>1, <1>2 DEF TypeOK, Init, NoPass, NoFeed, PassPlaces, FeedPlaces
<1>4. StreamInv
  BY <1>1 DEF StreamInv, StreamOf
<1>5. PassInv
  BY <1>2 DEF PassInv, PassRecords, NoPass, PassPlaces
<1>6. GoneInv /\ UsageInv
  BY <1>1 DEF Init, GoneInv, UsageInv
<1>7. FeedInv
  BY <1>2 DEF FeedInv, FeedRecords, NoFeed, FeedPlaces
<1> QED
  BY <1>3, <1>4, <1>5, <1>6, <1>7 DEF IndInv

-----------------------------------------------------------------------------
(* Whatever does not commit leaves the streams as they are.                 *)
LEMMA LogKept ==
  ASSUME Next
  PROVE  \/ log' = log
         \/ \E t \in Threads, kind \in Kinds : Commit(t, kind)
BY DEF Next, SettleIntent, Project, BeginPass, EndPass, SelectDeleted, NextDeleted, NextLive,
  NextJob, RemoveBatch, SelectLive, TrimBatch, SkipThread, Resume, ReadPage, SendPage, EndFeed

LEMMA StreamsKept ==
  ASSUME IndInv, Next
  PROVE  StreamInv'
<1>1. CASE log' = log
  BY <1>1 DEF IndInv, StreamInv, StreamOf, Sequences, CreatedBetween
<1>2. ASSUME NEW t \in Threads, NEW kind \in Kinds, Commit(t, kind)
      PROVE  StreamInv'
  <2>1. TypeOK /\ StreamInv
    BY DEF IndInv
  <2>2. Len(log) \in Nat /\ Sequences = 1 .. Len(log)
    BY <2>1, LogEvents
  <2>3. SUFFICES ASSUME NEW u \in Threads, NEW d \in StreamOf(u)', NEW e \in StreamOf(u)',
                        log'[d].kind = "deleted", d < e, log'[e].kind # "sample"
                 PROVE  CreatedBetween(d, e, u)'
    BY DEF StreamInv
  <2>4. d \in StreamOf(u) /\ log[d].kind = "deleted" /\ d \in Sequences
    BY <1>2, <2>1, <2>2, <2>3, Committed, StreamsGrow DEF StreamOf
  <2>5. CASE e # Len(log) + 1
    <3>1. e \in StreamOf(u) /\ log[e].kind # "sample"
      BY <1>2, <2>1, <2>2, <2>3, <2>5, Committed, StreamsGrow DEF StreamOf
    <3>2. CreatedBetween(d, e, u)
      BY <2>1, <2>3, <2>4, <3>1 DEF StreamInv
    <3> QED
      BY <1>2, <2>1, <3>2, Committed, StreamsGrow DEF CreatedBetween, StreamOf
  <2>6. CASE e = Len(log) + 1
    <3>1. u = t /\ log'[e].kind = kind
      BY <1>2, <2>1, <2>2, <2>3, <2>6, Committed DEF StreamOf
    <3>2. CASE kind = "created"
      BY <2>2, <2>3, <2>6, <3>1, <3>2 DEF CreatedBetween
    <3>3. CASE kind \in {"turn", "deleted"}
      <4>1. ~NoThread(t)
        BY <1>2, <3>3 DEF Commit
      <4>2. PICK c \in StreamOf(t) :
              log[c].kind = "created" /\ \A x \in StreamOf(t) : ~(c < x /\ log[x].kind = "deleted")
        BY <4>1 DEF NoThread
      <4>3. ~(c < d) /\ c # d /\ c \in Sequences
        BY <2>4, <3>1, <4>2 DEF StreamOf
      <4>4. d < c /\ c <= e
        BY <2>2, <2>4, <2>6, <4>3
      <4>5. c \in StreamOf(u)' /\ log'[c].kind = "created"
        BY <1>2, <2>1, <3>1, <4>2, <4>3, Committed, StreamsGrow
      <4> QED
        BY <4>4, <4>5 DEF CreatedBetween
    <3> QED
      BY <2>3, <3>1, <3>2, <3>3 DEF Kinds
  <2> QED
    BY <2>5, <2>6
<1> QED
  BY <1>1, <1>2, LogKept

(* The variables of the log and of its readers keep their types.            *)
LogTypes ==
  /\ log \in Seq(Event) /\ gone \subseteq Sequences
  /\ floor \in [Feeds -> Nat] /\ intents \subseteq Sequences
  /\ projected \in 0 .. Len(log) /\ rollups \subseteq Rollup

(* A bound that raises floors is a natural number.                          *)
LEMMA FloorsRise ==
  ASSUME TypeOK, NEW t \in Threads, NEW bound \in Nat, RaiseFloors(t, bound)
  PROVE  /\ floor' \in [Feeds -> Nat]
         /\ \A f \in Feeds : floor[f] <= floor'[f]
         /\ bound <= floor'[t] /\ bound <= floor'[Log]
<1>1. floor \in [Feeds -> Nat] /\ t \in Feeds /\ Log \in Feeds
  BY DEF TypeOK, Feeds
<1> QED
  BY <1>1 DEF RaiseFloors, AtLeast

LEMMA JobFacts ==
  ASSUME IndInv, NEW j \in pass.job
  PROVE  /\ j.thread \in Threads /\ j.head \in Nat /\ j.rolled \in BOOLEAN
         /\ pass.upper \in Nat
         /\ pass.at = "removing" => DeletedJob(j) /\ j.head \in Sequences
         /\ pass.at = "trimming" => LiveJob(j)
         /\ pass.at # "idle" => pass.upper <= projected /\ pass.upper \in 1 .. Len(log)
<1>1. j \in Job /\ pass.upper \in Nat
  BY DEF IndInv, PassInv, PassRecords
<1>2. j.thread \in Threads /\ j.head \in Nat /\ j.rolled \in BOOLEAN
  BY <1>1 DEF Job
<1> QED
  BY <1>1, <1>2 DEF IndInv, PassInv, TypeOK, DeletedJob, StreamOf

LEMMA LogTypesKept ==
  ASSUME IndInv, Next
  PROVE  LogTypes'
<1>1. LogTypes
  BY DEF IndInv, TypeOK, LogTypes
<1>2. ASSUME NEW t \in Threads, NEW kind \in Kinds, Commit(t, kind)
      PROVE  LogTypes'
  <2>1. TypeOK
    BY DEF IndInv
  <2>2. /\ log' \in Seq(Event) /\ Sequences' = Sequences \cup {Len(log) + 1}
        /\ Len(log') = Len(log) + 1 /\ Len(log) \in Nat
    BY <1>2, <2>1, Committed, LogEvents
  <2> QED
    BY <1>1, <1>2, <2>2 DEF LogTypes, Commit
<1>3. CASE SettleIntent \/ Project
  <2>1. UNCHANGED <<log, gone, floor, rollups>> /\ intents' \subseteq Sequences
    BY <1>1, <1>3 DEF SettleIntent, Project, LogTypes
  <2>2. projected' \in 0 .. Len(log)
    BY <1>1, <1>3, LogEvents DEF SettleIntent, Project, LogTypes, IndInv
  <2> QED
    BY <1>1, <2>1, <2>2 DEF LogTypes, Sequences
<1>6. CASE UNCHANGED <<log, gone, floor, intents, projected, rollups>>
  BY <1>1, <1>6 DEF LogTypes, Sequences
<1>4. CASE RemoveBatch
  <2>1. PICK j \in pass.job :
          /\ TakeRollup(j)
          /\ RaiseFloors(j.thread, AtMost(j.head - 1, pass.upper))
          /\ RemoveRows({s \in RowsOf(j.thread) : s <= AtMost(j.head - 1, pass.upper)}, "deleted")
    BY <1>4 DEF RemoveBatch
  <2>2. j.thread \in Threads /\ j.head \in Nat /\ pass.upper \in Nat /\ j.head \in Sequences
    BY <1>4, JobFacts DEF RemoveBatch
  <2>3. AtMost(j.head - 1, pass.upper) \in Nat
    BY <1>1, <2>2 DEF AtMost, Sequences, LogTypes
  <2>4. floor' \in [Feeds -> Nat]
    BY <2>1, <2>2, <2>3, FloorsRise DEF IndInv
  <2>5. gone' \subseteq Sequences
    <3>1. \A t \in Threads : RowsOf(t) \subseteq Sequences
      BY DEF RowsOf, StreamOf, Rows
    <3> QED
      BY <1>1, <2>1, <2>2, <3>1 DEF RemoveRows, LogTypes
  <2>6. rollups' \subseteq Rollup
    <3>1. SamplesOf(j.thread) \in SUBSET Nat
      BY <1>1, <2>2, LogEvents DEF IndInv, SamplesOf, ActivityRows, RowsOf, StreamOf, Rows
    <3>2. [thread |-> j.thread, head |-> j.head, usage |-> SamplesOf(j.thread)] \in Rollup
      BY <2>2, <3>1 DEF Rollup
    <3> QED
      BY <1>1, <2>1, <3>2 DEF TakeRollup, LogTypes
  <2>7. UNCHANGED <<log, intents, projected>>
    BY <1>4 DEF RemoveBatch
  <2> QED
    BY <1>1, <2>4, <2>5, <2>6, <2>7 DEF LogTypes, Sequences
<1>5. CASE TrimBatch
  <2>1. PICK j \in pass.job :
          /\ RaiseFloors(j.thread, j.head - 1)
          /\ RemoveRows(Trimmable(j.thread, j.head - 1), "live")
    BY <1>5 DEF TrimBatch
  <2>2. j.thread \in Threads /\ j.head - 1 \in Nat
    BY <1>5, JobFacts DEF TrimBatch, LiveJob
  <2>4. floor' \in [Feeds -> Nat]
    BY <2>1, <2>2, FloorsRise DEF IndInv
  <2>5. gone' \subseteq Sequences
    <3>1. \A t \in Threads : RowsOf(t) \subseteq Sequences
      BY DEF RowsOf, StreamOf, Rows
    <3>2. Trimmable(j.thread, j.head - 1) \subseteq Sequences
      BY <2>2, <3>1 DEF Trimmable
    <3> QED
      BY <1>1, <2>1, <2>2, <3>2 DEF RemoveRows, LogTypes
  <2>7. UNCHANGED <<log, intents, projected, rollups>>
    BY <1>5 DEF TrimBatch
  <2> QED
    BY <1>1, <2>4, <2>5, <2>7 DEF LogTypes, Sequences
<1> QED
  BY <1>2, <1>3, <1>4, <1>5, <1>6 DEF Next, BeginPass, EndPass, SelectDeleted, NextDeleted,
    NextLive, NextJob, SelectLive, SkipThread, Resume, ReadPage, SendPage, EndFeed

PassTypes ==
  /\ pass.at # "idle" => pass.upper \in 1 .. Len(log)
  /\ pass.at \in {"removing", "trimming"} <=> pass.job # {}

(* No step shortens the log, changes an event of it or takes a rollup back. *)
LEMMA HistoryGrows ==
  ASSUME IndInv, Next
  PROVE  /\ Len(log) <= Len(log') /\ Len(log) \in Nat /\ Len(log') \in Nat
         /\ Sequences \subseteq Sequences'
         /\ \A s \in Sequences : log'[s] = log[s]
         /\ \A t \in Threads : StreamOf(t) \subseteq StreamOf(t)'
         /\ projected <= projected'
         /\ \A i \in intents' : i \in intents \/ i = Len(log) + 1
         /\ rollups \subseteq rollups'
<1>1. TypeOK
  BY DEF IndInv
<1>2. Len(log) \in Nat /\ projected \in 0 .. Len(log)
  BY <1>1, LogEvents DEF TypeOK
<1>3. CASE log' = log
  <2>1. /\ Sequences' = Sequences /\ \A t \in Threads : StreamOf(t)' = StreamOf(t)
    BY <1>3 DEF Sequences, StreamOf
  <2>2. projected <= projected' /\ \A i \in intents' : i \in intents \/ i = Len(log) + 1
    <3>1. \/ UNCHANGED <<intents, projected>>
          \/ SettleIntent \/ Project
          \/ \E t \in Threads, kind \in Kinds : Commit(t, kind)
      BY DEF Next, BeginPass, EndPass, SelectDeleted, NextDeleted, NextLive, NextJob, RemoveBatch,
        SelectLive, TrimBatch, SkipThread, Resume, ReadPage, SendPage, EndFeed
    <3>2. CASE SettleIntent
      BY <1>2, <3>2 DEF SettleIntent
    <3>3. CASE Project
      BY <1>2, <3>3 DEF Project
    <3>4. CASE \E t \in Threads, kind \in Kinds : Commit(t, kind)
      BY <1>2, <3>4 DEF Commit
    <3> QED
      BY <1>2, <3>1, <3>2, <3>3, <3>4
  <2>3. rollups \subseteq rollups'
    BY DEF Next, Commit, SettleIntent, Project, BeginPass, EndPass, SelectDeleted,
      NextDeleted, NextLive, NextJob, RemoveBatch, SelectLive, TrimBatch, SkipThread, Resume,
      ReadPage, SendPage, EndFeed, TakeRollup
  <2> QED
    BY <1>2, <1>3, <2>1, <2>2, <2>3
<1>4. ASSUME NEW t \in Threads, NEW kind \in Kinds, Commit(t, kind)
      PROVE  /\ Len(log) <= Len(log') /\ Len(log') \in Nat
             /\ Sequences \subseteq Sequences'
             /\ \A s \in Sequences : log'[s] = log[s]
             /\ \A u \in Threads : StreamOf(u) \subseteq StreamOf(u)'
             /\ projected <= projected'
             /\ \A i \in intents' : i \in intents \/ i = Len(log) + 1
             /\ rollups \subseteq rollups'
  <2>1. /\ Len(log) <= Len(log') /\ Len(log') \in Nat
        /\ Sequences \subseteq Sequences'
        /\ \A s \in Sequences : log'[s] = log[s]
    BY <1>1, <1>2, <1>4, Committed
  <2>2. \A u \in Threads : StreamOf(u) \subseteq StreamOf(u)'
    BY <1>1, <1>4, StreamsGrow
  <2>3. /\ projected <= projected' /\ rollups \subseteq rollups'
        /\ \A i \in intents' : i \in intents \/ i = Len(log) + 1
    BY <1>2, <1>4 DEF Commit
  <2> QED
    BY <2>1, <2>2, <2>3
<1> QED
  BY <1>2, <1>3, <1>4, LogKept

(* So what a job relies on stays true.                                      *)
LEMMA JobsStay ==
  ASSUME IndInv, Next, NEW j \in Job
  PROVE  /\ DeletedJob(j) => DeletedJob(j)'
         /\ LiveJob(j) /\ pass'.upper = pass.upper => LiveJob(j)'
<1>1. j.thread \in Threads
  BY DEF Job
<1>2. \A s \in StreamOf(j.thread) : s \in StreamOf(j.thread)' /\ log'[s] = log[s]
  BY <1>1, HistoryGrows DEF StreamOf
<1>3. rollups \subseteq rollups'
  BY HistoryGrows
<1> QED
  BY <1>2, <1>3 DEF DeletedJob, LiveJob

(* A pass keeps its bound and its jobs, and gets new ones only from a       *)
(* selection.                                                               *)
LEMMA PassGoesOn ==
  ASSUME IndInv, Next, pass' \in PassRecords, PassTypes',
         pass.at # "idle", pass'.at # "idle", pass'.upper = pass.upper,
         pass'.at = "select" => pass'.todo = {},
         pass'.at \in {"deleted", "removing"} =>
           \A j \in pass'.todo \cup pass'.job : DeletedJob(j),
         pass'.at \in {"live", "trimming"} =>
           \A j \in pass'.todo \cup pass'.job : LiveJob(j)
  PROVE  PassInv' /\ PassTypes'
<1>1. \A j \in pass'.todo \cup pass'.job : j \in Job
  BY DEF PassRecords
<1>2. pass'.upper <= projected'
  <2>1. pass.upper <= projected /\ pass.upper \in Nat /\ projected \in 0 .. Len(log) /\ projected' \in 0 .. Len(log')
    BY LogTypesKept DEF IndInv, PassInv, PassRecords, TypeOK, LogTypes
  <2> QED
    BY <2>1, HistoryGrows
<1>3. \A i \in intents' : pass'.upper < i
  <2>1. pass.upper \in 1 .. Len(log) /\ \A i \in intents : pass.upper < i
    BY DEF IndInv, PassInv, TypeOK
  <2>2. Len(log) \in Nat
    BY HistoryGrows
  <2> QED
    BY <2>1, <2>2, HistoryGrows
<1>4. pass'.at \in {"deleted", "removing"} =>
        \A j \in pass'.todo \cup pass'.job : DeletedJob(j)'
  BY <1>1, JobsStay
<1>5. pass'.at \in {"live", "trimming"} =>
        \A j \in pass'.todo \cup pass'.job : LiveJob(j)'
  BY <1>1, JobsStay
<1> QED
  BY <1>2, <1>3, <1>4, <1>5 DEF PassInv

LEMMA PassKept ==
  ASSUME IndInv, Next
  PROVE  PassInv' /\ PassTypes'
<1>1. PassInv /\ PassTypes /\ TypeOK
  BY DEF IndInv, TypeOK, PassTypes
<1>2. pass \in PassRecords
  BY <1>1 DEF PassInv
<1>3. Len(log) \in Nat /\ Sequences = 1 .. Len(log)
  BY <1>1, LogEvents
<1>4. CASE BeginPass
  <2>1. PICK upper \in 1 .. Len(log) :
          IsUpperBound(upper) /\ pass' = [NoPass EXCEPT !.at = "select", !.upper = upper]
    BY <1>4 DEF BeginPass
  <2>2. pass' = [at |-> "select", upper |-> upper, todo |-> {}, job |-> {}]
    BY <2>1 DEF NoPass
  <2>3. UNCHANGED <<log, intents, projected>>
    BY <1>4 DEF BeginPass
  <2>4. pass' \in PassRecords
    <3>1. upper \in Nat
      BY <1>3
    <3> QED
      BY <2>2, <3>1 DEF PassRecords, PassPlaces
  <2>5. PassTypes'
    <3>1. pass'.at = "select" /\ pass'.upper = upper /\ pass'.job = {}
      BY <2>2
    <3> QED
      BY <2>3, <3>1 DEF PassTypes
  <2>6. pass'.upper <= projected' /\ \A i \in intents' : pass'.upper < i
    BY <2>1, <2>2, <2>3 DEF IsUpperBound
  <2>7. pass'.at = "select" /\ pass'.todo = {}
    BY <2>2
  <2> QED
    BY <2>4, <2>5, <2>6, <2>7 DEF PassInv
<1>5. CASE EndPass
  BY <1>5 DEF EndPass, NoPass, PassInv, PassTypes, PassRecords, PassPlaces
<1>6. CASE SelectDeleted
  <2>1. /\ pass.at = "select" /\ UNCHANGED log
        /\ pass' = [pass EXCEPT !.at = "deleted", !.todo = pass'.todo]
        /\ pass'.todo \subseteq DeletedJobs
    BY <1>2, <1>6 DEF SelectDeleted, PassRecords
  <2>2. pass.job = {}
    BY <1>1, <2>1 DEF PassTypes
  <2>3. \A j \in DeletedJobs : j \in Job /\ DeletedJob(j)
    <3>1. SUFFICES ASSUME NEW j \in DeletedJobs PROVE j \in Job /\ DeletedJob(j)
      OBVIOUS
    <3>2. /\ j \in [thread : Threads, head : Sequences, rolled : BOOLEAN]
          /\ IF j.rolled THEN \E r \in rollups : r.thread = j.thread /\ r.head = j.head
             ELSE IsNewest(j.head, j.thread) /\ log[j.head].kind = "deleted"
      BY DEF DeletedJobs
    <3>3. j \in Job
      BY <1>3, <3>2 DEF Job
    <3>4. CASE j.rolled
      <4>1. PICK r \in rollups : r.thread = j.thread /\ r.head = j.head
        BY <3>2, <3>4
      <4>2. r.head \in StreamOf(r.thread) /\ log[r.head].kind = "deleted"
        BY DEF IndInv, UsageInv
      <4> QED
        BY <3>3, <4>1, <4>2 DEF DeletedJob
    <3>5. CASE ~j.rolled
      BY <3>2, <3>3, <3>5 DEF DeletedJob, IsNewest
    <3> QED
      BY <3>4, <3>5
  <2>4. pass' \in PassRecords
    BY <1>2, <2>1, <2>3 DEF PassRecords, PassPlaces
  <2>5. pass'.at = "deleted" /\ pass'.job = {} /\ pass'.upper = pass.upper
    BY <1>2, <2>1, <2>2 DEF PassRecords
  <2>6. PassTypes'
    BY <1>1, <2>1, <2>5 DEF PassTypes
  <2> QED
    BY <2>1, <2>3, <2>4, <2>5, <2>6, PassGoesOn
<1>7. CASE SelectLive
  <2>1. PICK window \in 1 .. pass.upper :
          pass' = [pass EXCEPT !.at = "live", !.todo = LiveJobs(window)]
    BY <1>7 DEF SelectLive
  <2>2. pass.at = "deleted" /\ UNCHANGED log /\ pass.job = {}
    BY <1>1, <1>7 DEF SelectLive, PassTypes
  <2>3. \A j \in LiveJobs(window) : j \in Job /\ LiveJob(j)
    <3>1. SUFFICES ASSUME NEW j \in LiveJobs(window) PROVE j \in Job /\ LiveJob(j)
      OBVIOUS
    <3>2. /\ j \in [thread : Threads, head : 1 .. Len(log) + 1, rolled : {FALSE}]
          /\ \E latest \in RowsOf(j.thread) :
               log[latest].kind = "turn" /\ j.head = AtMost(window + 1, latest)
      BY DEF LiveJobs
    <3>3. PICK latest \in RowsOf(j.thread) :
            log[latest].kind = "turn" /\ j.head = AtMost(window + 1, latest)
      BY <3>2
    <3>4. j \in Job /\ j.thread \in Threads
      <4>1. 1 .. Len(log) + 1 \subseteq Nat /\ {FALSE} \subseteq BOOLEAN
        BY <1>3
      <4> QED
        BY <3>2, <4>1, Zenon DEF Job
    <3>5. RowsOf(j.thread) = StreamOf(j.thread) \ gone
      BY <3>4, RetentionAssumption DEF RowsOf
    <3>6. latest \in Nat /\ latest \in StreamOf(j.thread)
      BY <1>3, <3>3, <3>5 DEF StreamOf
    <3>8. window <= pass.upper /\ pass.upper \in Nat /\ window \in Nat
      BY <1>2 DEF PassRecords
    <3>9. j.head \in Nat /\ 1 <= j.head
      <4>1. j.head \in 1 .. Len(log) + 1
        BY <3>2
      <4> QED
        BY <1>3, <4>1
    <3>7. j.head <= latest /\ j.head - 1 <= window
      BY <3>3, <3>6, <3>8, <3>9 DEF AtMost
    <3>10. j.head - 1 <= pass.upper
      BY <3>7, <3>8, <3>9
    <3> QED
      BY <3>3, <3>6, <3>7, <3>9, <3>10, <3>4 DEF LiveJob
  <2>4. pass' \in PassRecords
    BY <1>2, <2>1, <2>3 DEF PassRecords, PassPlaces
  <2>5. pass'.at = "live" /\ pass'.job = {} /\ pass'.upper = pass.upper /\ pass'.todo = LiveJobs(window)
    BY <1>2, <2>1, <2>2 DEF PassRecords
  <2>6. PassTypes'
    BY <1>1, <2>2, <2>5 DEF PassTypes
  <2> QED
    BY <2>2, <2>3, <2>4, <2>5, <2>6, PassGoesOn
<1>8. ASSUME NEW from, NEW to, NextJob(from, to),
             <<from, to>> \in {<<"deleted", "removing">>, <<"live", "trimming">>}
      PROVE  PassInv' /\ PassTypes'
  <2>1. /\ pass.at = from /\ pass'.upper = pass.upper /\ UNCHANGED log
        /\ pass' \in PassRecords
        /\ \/ pass'.at = to /\ pass'.job # {}
           \/ pass'.at = from /\ pass'.job = pass.job
        /\ pass'.todo \cup pass'.job \subseteq pass.todo \cup pass.job
    <3>1. PICK j \in pass.todo :
            LET rest == {k \in pass.todo : k.thread # j.thread}
            IN \/ pass' = [pass EXCEPT !.at = to, !.todo = rest, !.job = {j}]
               \/ pass' = [pass EXCEPT !.todo = rest]
      BY <1>8 DEF NextJob
    <3>2. j \in Job /\ pass.at = from /\ UNCHANGED log /\ to \in PassPlaces
      BY <1>2, <1>8 DEF NextJob, PassRecords, PassPlaces
    <3> DEFINE rest == {k \in pass.todo : k.thread # j.thread}
    <3>3. CASE pass' = [pass EXCEPT !.at = to, !.todo = rest, !.job = {j}]
      BY <1>2, <3>2, <3>3 DEF PassRecords
    <3>4. CASE pass' = [pass EXCEPT !.todo = rest]
      BY <1>2, <3>2, <3>4 DEF PassRecords
    <3> QED
      BY <3>1, <3>3, <3>4
  <2>2. PassTypes'
    BY <1>1, <1>8, <2>1 DEF PassTypes
  <2>3. CASE from = "deleted"
    <3>1. \A j \in pass'.todo \cup pass'.job : DeletedJob(j)
      BY <1>1, <2>1, <2>3 DEF PassInv
    <3> QED
      BY <1>8, <2>1, <2>2, <2>3, <3>1, PassGoesOn
  <2>4. CASE from = "live"
    <3>1. \A j \in pass'.todo \cup pass'.job : LiveJob(j)
      BY <1>1, <2>1, <2>4 DEF PassInv
    <3> QED
      BY <1>8, <2>1, <2>2, <2>4, <3>1, PassGoesOn
  <2> QED
    BY <1>8, <2>3, <2>4
<1>9. CASE SkipThread \/ RemoveBatch \/ TrimBatch
  <2>1. /\ pass.at \in {"removing", "trimming"} /\ UNCHANGED log
        /\ \/ pass' = pass
           \/ pass' = [pass EXCEPT !.at = IF pass.at = "removing" THEN "deleted" ELSE "live",
                                   !.job = {}]
    BY <1>9 DEF SkipThread, RemoveBatch, TrimBatch, RemoveRows
  <2>2. /\ pass' \in PassRecords /\ pass'.upper = pass.upper /\ pass'.todo = pass.todo
        /\ pass'.job \subseteq pass.job
        /\ \/ pass'.at = pass.at /\ pass'.job = pass.job
           \/ /\ pass'.at = IF pass.at = "removing" THEN "deleted" ELSE "live"
              /\ pass'.job = {}
    BY <1>2, <2>1 DEF PassRecords, PassPlaces
  <2>3. PassTypes'
    BY <1>1, <2>1, <2>2 DEF PassTypes
  <2>4. CASE pass.at = "removing"
    <3>1. \A j \in pass'.todo \cup pass'.job : DeletedJob(j)
      BY <1>1, <2>2, <2>4 DEF PassInv
    <3> QED
      BY <2>2, <2>3, <2>4, <3>1, PassGoesOn
  <2>5. CASE pass.at = "trimming"
    <3>1. \A j \in pass'.todo \cup pass'.job : LiveJob(j)
      BY <1>1, <2>2, <2>5 DEF PassInv
    <3> QED
      BY <2>2, <2>3, <2>5, <3>1, PassGoesOn
  <2> QED
    BY <2>1, <2>4, <2>5
<1>10. CASE pass' = pass
  <2>1. Len(log) <= Len(log') /\ Len(log') \in Nat
    BY HistoryGrows
  <2>2. PassTypes'
    BY <1>1, <1>3, <1>10, <2>1 DEF PassTypes
  <2>3. CASE pass.at = "idle"
    BY <1>1, <1>10, <2>2, <2>3 DEF PassInv
  <2>4. CASE pass.at # "idle"
    BY <1>1, <1>10, <2>2, <2>4, PassGoesOn DEF PassInv
  <2> QED
    BY <2>3, <2>4
<1>11. NextDeleted \/ NextLive => PassInv' /\ PassTypes'
  BY <1>8 DEF NextDeleted, NextLive
<1> QED
  BY <1>4, <1>5, <1>6, <1>7, <1>9, <1>10, <1>11 DEF Next, Commit, SettleIntent, Project, Resume,
    ReadPage, SendPage, EndFeed

-----------------------------------------------------------------------------
(* Why a removed row is not needed, stated of one row.                      *)
Spare(s) ==
  /\ s <= projected /\ \A i \in intents : s < i
  /\ \E r \in StreamOf(log[s].thread) : s < r /\ log[r].kind \in {"deleted", "turn"}

(* It stays so whatever is committed.                                       *)
LEMMA SpareStays ==
  ASSUME IndInv, Next, NEW s \in Sequences, Spare(s)
  PROVE  Spare(s)'
<1>1. TypeOK /\ LogTypes'
  BY LogTypesKept DEF IndInv
<1>2. s \in Nat /\ s <= Len(log) /\ log[s].thread \in Threads /\ Len(log) \in Nat
  BY <1>1, LogEvents
<1>3. log'[s] = log[s]
  BY HistoryGrows
<1>4. s <= projected'
  <2>1. projected \in Nat /\ projected' \in Nat
    BY <1>1, HistoryGrows DEF TypeOK, LogTypes
  <2> QED
    BY <1>2, <2>1, HistoryGrows DEF Spare
<1>5. \A i \in intents' : s < i
  BY <1>2, HistoryGrows DEF Spare
<1>6. \E r \in StreamOf(log[s].thread)' : s < r /\ log'[r].kind \in {"deleted", "turn"}
  <2>1. PICK r \in StreamOf(log[s].thread) : s < r /\ log[r].kind \in {"deleted", "turn"}
    BY DEF Spare
  <2>2. r \in StreamOf(log[s].thread)' /\ log'[r] = log[r]
    BY <1>2, <2>1, HistoryGrows DEF StreamOf
  <2> QED
    BY <2>1, <2>2
<1> QED
  BY <1>3, <1>4, <1>5, <1>6 DEF Spare

(* Floors only rise.                                                        *)
LEMMA FloorsKept ==
  ASSUME IndInv, Next, NEW f \in Feeds
  PROVE  floor[f] \in Nat /\ floor'[f] \in Nat /\ floor[f] <= floor'[f]
<1>1. floor[f] \in Nat /\ floor'[f] \in Nat
  BY LogTypesKept DEF IndInv, TypeOK, LogTypes
<1>2. CASE RemoveBatch
  <2>1. PICK j \in pass.job : RaiseFloors(j.thread, AtMost(j.head - 1, pass.upper))
    BY <1>2 DEF RemoveBatch
  <2>2. j.thread \in Threads /\ j.head \in 1 .. Len(log) /\ pass.upper \in Nat /\ Len(log) \in Nat
    BY <1>2, <2>1, JobFacts, LogEvents DEF RemoveBatch, IndInv
  <2>3. AtMost(j.head - 1, pass.upper) \in Nat
    BY <2>2 DEF AtMost
  <2> QED
    BY <1>1, <2>1, <2>2, <2>3, FloorsRise DEF IndInv
<1>3. CASE TrimBatch
  <2>1. PICK j \in pass.job : RaiseFloors(j.thread, j.head - 1)
    BY <1>3 DEF TrimBatch
  <2>2. j.thread \in Threads /\ j.head - 1 \in Nat
    BY <1>3, <2>1, JobFacts DEF TrimBatch, LiveJob
  <2> QED
    BY <1>1, <2>1, <2>2, FloorsRise DEF IndInv
<1>4. CASE floor' = floor
  BY <1>1, <1>4
<1> QED
  BY <1>2, <1>3, <1>4 DEF Next, Commit, SettleIntent, Project, BeginPass, EndPass, SelectDeleted,
    NextDeleted, NextLive, NextJob, SelectLive, SkipThread, Resume, ReadPage, SendPage, EndFeed

(* What a step removes is spare and below the floors.                       *)
LEMMA RemovedIsSpare ==
  ASSUME IndInv, Next, NEW s \in gone', s \notin gone
  PROVE  /\ s \in Sequences /\ Spare(s)
         /\ s <= floor'[log[s].thread] /\ s <= floor'[Log]
<1>1. TypeOK /\ Len(log) \in Nat /\ Sequences = 1 .. Len(log)
  BY LogEvents DEF IndInv
<1>2. CASE RemoveBatch
  <2>1. PICK j \in pass.job :
          /\ RaiseFloors(j.thread, AtMost(j.head - 1, pass.upper))
          /\ RemoveRows({r \in RowsOf(j.thread) : r <= AtMost(j.head - 1, pass.upper)}, "deleted")
    BY <1>2 DEF RemoveBatch
  <2>2. /\ pass.at = "removing" /\ j.thread \in Threads /\ j.head \in Sequences
        /\ pass.upper \in Nat /\ pass.upper <= projected /\ DeletedJob(j)
    BY <1>2, JobFacts DEF RemoveBatch
  <2>3. \A i \in intents : pass.upper < i /\ i \in Nat
    BY <1>1, <2>2 DEF IndInv, PassInv, TypeOK
  <2>4. s \in StreamOf(j.thread) /\ s <= AtMost(j.head - 1, pass.upper)
    BY <2>1, <2>2, RetentionAssumption DEF RemoveRows, RowsOf
  <2>5. s \in Sequences /\ log[s].thread = j.thread
    BY <2>4 DEF StreamOf
  <2>6. AtMost(j.head - 1, pass.upper) \in Nat /\ s < j.head /\ s <= pass.upper
    BY <1>1, <2>2, <2>4, <2>5 DEF AtMost
  <2>7. s <= floor'[j.thread] /\ s <= floor'[Log]
    <3>1. /\ AtMost(j.head - 1, pass.upper) <= floor'[j.thread]
          /\ AtMost(j.head - 1, pass.upper) <= floor'[Log]
          /\ floor' \in [Feeds -> Nat]
      BY <1>1, <2>1, <2>2, <2>6, FloorsRise
    <3>2. floor'[j.thread] \in Nat /\ floor'[Log] \in Nat /\ s \in Nat
      BY <1>1, <2>2, <2>5, <3>1 DEF Feeds
    <3> QED
      BY <2>4, <2>6, <3>1, <3>2
  <2>8. s <= projected /\ \A i \in intents : s < i
    BY <1>1, <2>2, <2>3, <2>5, <2>6 DEF TypeOK
  <2>9. \E r \in StreamOf(log[s].thread) : s < r /\ log[r].kind \in {"deleted", "turn"}
    BY <2>2, <2>5, <2>6 DEF DeletedJob
  <2> QED
    BY <2>5, <2>7, <2>8, <2>9 DEF Spare
<1>3. CASE TrimBatch
  <2>1. PICK j \in pass.job :
          /\ RaiseFloors(j.thread, j.head - 1)
          /\ RemoveRows(Trimmable(j.thread, j.head - 1), "live")
    BY <1>3 DEF TrimBatch
  <2>2. /\ pass.at = "trimming" /\ j.thread \in Threads /\ j.head \in Nat
        /\ pass.upper \in Nat /\ pass.upper <= projected /\ LiveJob(j)
    BY <1>3, JobFacts DEF TrimBatch
  <2>3. \A i \in intents : pass.upper < i /\ i \in Nat
    BY <1>1, <2>2 DEF IndInv, PassInv, TypeOK
  <2>4. s \in StreamOf(j.thread) /\ s <= j.head - 1
    BY <2>1, <2>2, RetentionAssumption DEF RemoveRows, RowsOf, Trimmable
  <2>5. s \in Sequences /\ log[s].thread = j.thread /\ s \in Nat
    BY <1>1, <2>4 DEF StreamOf
  <2>6. j.head - 1 \in Nat /\ s <= pass.upper
    BY <2>2, <2>4, <2>5 DEF LiveJob
  <2>7. s <= floor'[j.thread] /\ s <= floor'[Log]
    <3>1. /\ j.head - 1 <= floor'[j.thread] /\ j.head - 1 <= floor'[Log]
          /\ floor' \in [Feeds -> Nat]
      BY <1>1, <2>1, <2>2, <2>6, FloorsRise
    <3>2. floor'[j.thread] \in Nat /\ floor'[Log] \in Nat
      BY <2>2, <3>1 DEF Feeds
    <3> QED
      BY <2>2, <2>4, <2>5, <2>6, <3>1, <3>2
  <2>8. s <= projected /\ \A i \in intents : s < i
    BY <1>1, <2>2, <2>3, <2>5, <2>6 DEF TypeOK
  <2>9. \E r \in StreamOf(log[s].thread) : s < r /\ log[r].kind \in {"deleted", "turn"}
    <3>1. PICK latest \in StreamOf(j.thread) : log[latest].kind = "turn" /\ j.head <= latest
      BY <2>2 DEF LiveJob
    <3>2. latest \in Nat
      BY <1>1, <3>1 DEF StreamOf
    <3> QED
      BY <2>2, <2>4, <2>5, <3>1, <3>2
  <2> QED
    BY <2>5, <2>7, <2>8, <2>9 DEF Spare
<1>4. CASE gone' = gone
  BY <1>4
<1> QED
  BY <1>2, <1>3, <1>4 DEF Next, Commit, SettleIntent, Project, BeginPass, EndPass, SelectDeleted,
    NextDeleted, NextLive, NextJob, SelectLive, SkipThread, Resume, ReadPage, SendPage, EndFeed

LEMMA GoneKept ==
  ASSUME IndInv, Next
  PROVE  GoneInv'
<1>1. SUFFICES ASSUME NEW s \in gone'
               PROVE  /\ s \in Sequences /\ Spare(s)'
                      /\ s <= floor'[log'[s].thread] /\ s <= floor'[Log]
  BY DEF GoneInv, Spare
<1>2. CASE s \in gone
  <2>1. s \in Sequences /\ Spare(s) /\ s <= floor[log[s].thread] /\ s <= floor[Log]
    BY <1>2 DEF IndInv, TypeOK, GoneInv, Spare
  <2>2. log[s].thread \in Feeds /\ Log \in Feeds /\ log'[s] = log[s] /\ s \in Nat
    BY <2>1, LogEvents, HistoryGrows DEF Feeds, IndInv
  <2>3. /\ floor[log[s].thread] <= floor'[log[s].thread] /\ floor[log[s].thread] \in Nat
        /\ floor'[log[s].thread] \in Nat
    BY <2>2, FloorsKept
  <2>4. floor[Log] <= floor'[Log] /\ floor[Log] \in Nat /\ floor'[Log] \in Nat
    BY <2>2, FloorsKept
  <2> QED
    BY <2>1, <2>2, <2>3, <2>4, SpareStays
<1>3. CASE s \notin gone
  <2>1. /\ s \in Sequences /\ Spare(s)
        /\ s <= floor'[log[s].thread] /\ s <= floor'[Log]
    BY <1>3, RemovedIsSpare
  <2>2. log'[s] = log[s]
    BY <2>1, HistoryGrows
  <2> QED
    BY <2>1, <2>2, SpareStays
<1> QED
  BY <1>2, <1>3

-----------------------------------------------------------------------------
(* The usage of a sample, as UsageInv states it.                            *)
UsedOnce(s) ==
  log[s].kind = "sample" =>
    IF RolledUp(s)
    THEN \E r \in rollups : s \in r.usage /\ \A q \in rollups : s \in q.usage => q = r
    ELSE s \notin gone

RollupsInv ==
  \A r \in rollups :
    /\ r.head \in StreamOf(r.thread) /\ log[r.head].kind = "deleted"
    /\ \A s \in r.usage : s \in StreamOf(r.thread) /\ s <= r.head

LEMMA UsageParts == UsageInv <=> RollupsInv /\ \A s \in Sequences : UsedOnce(s)
BY DEF UsageInv, RollupsInv, UsedOnce

(* A rollup is of a thread, and what it covers stays where it was.          *)
LEMMA RollupsStay ==
  ASSUME IndInv, Next, NEW r \in rollups
  PROVE  /\ r.head \in StreamOf(r.thread)' /\ log'[r.head].kind = "deleted"
         /\ \A s \in r.usage : s \in StreamOf(r.thread)' /\ s <= r.head
<1>1. r.thread \in Threads
  BY DEF IndInv, TypeOK, Rollup
<1>2. r.head \in StreamOf(r.thread) /\ log[r.head].kind = "deleted"
      /\ \A s \in r.usage : s \in StreamOf(r.thread) /\ s <= r.head
  BY DEF IndInv, UsageInv
<1>3. log'[r.head] = log[r.head]
  BY <1>2, HistoryGrows DEF StreamOf
<1> QED
  BY <1>1, <1>2, <1>3, HistoryGrows

(* A creation drops the rows of the samples before it.                      *)
LEMMA RowsDropped ==
  ASSUME TypeOK, NEW t \in Threads, NEW d \in Sequences, NEW e \in Sequences,
         CreatedBetween(d, e, t), NEW s \in Sequences, s <= d
  PROVE  s \notin ActivityRows(t)
<1>1. PICK c \in StreamOf(t) : d < c /\ c <= e /\ log[c].kind = "created"
  BY DEF CreatedBetween
<1>2. Len(log) \in Nat /\ Sequences = 1 .. Len(log) /\ c \in Sequences
  BY LogEvents DEF StreamOf
<1>3. s < c /\ c <= Len(log)
  BY <1>1, <1>2
<1> QED
  BY <1>1, <1>3 DEF ActivityRows, CreatedBetween

LEMMA UsageKept ==
  ASSUME IndInv, Next
  PROVE  UsageInv'
<1>0. UsageInv' <=> RollupsInv' /\ \A s \in Sequences' : UsedOnce(s)'
  BY DEF UsageInv, RollupsInv, UsedOnce
<1>1. TypeOK /\ RollupsInv /\ \A s \in Sequences : UsedOnce(s)
  BY UsageParts DEF IndInv
<1>2. Len(log) \in Nat /\ Sequences = 1 .. Len(log)
  BY <1>1, LogEvents
<1>3. CASE rollups' = rollups
  <2>1. RollupsInv'
    BY <1>3, RollupsStay DEF RollupsInv
  <2>2. \A s \in Sequences : RolledUp(s)' <=> RolledUp(s)
    BY <1>3, HistoryGrows DEF RolledUp
  <2>3. ASSUME NEW s \in Sequences, log[s].kind = "sample", ~RolledUp(s)
        PROVE  s \notin gone'
    <3>1. SUFFICES ASSUME s \in gone' PROVE FALSE
      OBVIOUS
    <3>2. s \notin gone
      BY <1>1, <2>3 DEF UsedOnce
    <3>3. CASE TrimBatch
      BY <2>3, <3>1, <3>2, <3>3 DEF TrimBatch, RemoveRows, Trimmable
    <3>4. CASE RemoveBatch
      <4>1. PICK j \in pass.job :
              /\ TakeRollup(j)
              /\ RemoveRows({r \in RowsOf(j.thread) : r <= AtMost(j.head - 1, pass.upper)}, "deleted")
        BY <3>4 DEF RemoveBatch
      <4>2. /\ j.thread \in Threads /\ j.head \in Sequences /\ pass.upper \in Nat /\ DeletedJob(j)
        BY <3>4, <4>1, JobFacts DEF RemoveBatch
      <4>3. s \in StreamOf(j.thread) /\ s <= AtMost(j.head - 1, pass.upper)
        BY <3>1, <3>2, <4>1, <4>2, RetentionAssumption DEF RemoveRows, RowsOf
      <4>4. s <= j.head /\ log[s].thread = j.thread
        BY <1>2, <4>2, <4>3 DEF AtMost, StreamOf
      <4>5. \E r \in rollups : r.thread = j.thread /\ r.head = j.head
        <5>1. CASE j.rolled \/ \E r \in rollups : r.thread = j.thread /\ r.head = j.head
          BY <4>2, <5>1 DEF DeletedJob
        <5>2. CASE ~(j.rolled \/ \E r \in rollups : r.thread = j.thread /\ r.head = j.head)
          <6>1. [thread |-> j.thread, head |-> j.head, usage |-> SamplesOf(j.thread)] \in rollups
            BY <1>3, <4>1, <5>2 DEF TakeRollup
          <6> QED
            BY <6>1
        <5> QED
          BY <5>1, <5>2
      <4> QED
        BY <2>3, <4>4, <4>5 DEF RolledUp
    <3>5. CASE gone' = gone
      BY <3>1, <3>2, <3>5
    <3> QED
      BY <3>3, <3>4, <3>5 DEF Next, Commit, SettleIntent, Project, BeginPass, EndPass,
        SelectDeleted, NextDeleted, NextLive, NextJob, SelectLive, SkipThread, Resume, ReadPage,
        SendPage, EndFeed
  <2>4. ASSUME NEW s \in Sequences PROVE UsedOnce(s)'
    BY <1>1, <1>3, <2>2, <2>3, HistoryGrows DEF UsedOnce
  <2>5. ASSUME NEW s \in Sequences', s \notin Sequences PROVE UsedOnce(s)'
    <3>1. s = Len(log) + 1 /\ gone' = gone
      <4>1. PICK t \in Threads, kind \in Kinds : Commit(t, kind)
        BY <2>5, LogKept DEF Sequences
      <4> QED
        BY <1>1, <2>5, <4>1, Committed DEF Commit
    <3>2. \A r \in rollups : r.head <= Len(log) /\ r.head \in Nat
      BY <1>1, <1>2 DEF RollupsInv, StreamOf
    <3>3. ~RolledUp(s)'
      BY <1>2, <1>3, <3>1, <3>2 DEF RolledUp
    <3>4. s \notin gone'
      BY <1>1, <2>5, <3>1 DEF TypeOK
    <3> QED
      BY <3>3, <3>4 DEF UsedOnce
  <2> QED
    BY <1>0, <2>1, <2>4, <2>5
<1>4. CASE rollups' # rollups
  <2>1. RemoveBatch
    BY <1>4 DEF Next, Commit, SettleIntent, Project, BeginPass, EndPass, SelectDeleted,
      NextDeleted, NextLive, NextJob, SelectLive, SkipThread, TrimBatch, Resume, ReadPage, SendPage,
      EndFeed
  <2>2. PICK j \in pass.job :
          /\ StillDeleted(j) /\ TakeRollup(j)
          /\ RemoveRows({r \in RowsOf(j.thread) : r <= AtMost(j.head - 1, pass.upper)}, "deleted")
    BY <2>1 DEF RemoveBatch
  <2>3. PICK new : new = [thread |-> j.thread, head |-> j.head, usage |-> SamplesOf(j.thread)]
    OBVIOUS
  <2>4. /\ j.thread \in Threads /\ j.head \in Sequences /\ pass.upper \in Nat /\ DeletedJob(j)
        /\ UNCHANGED log
    BY <2>1, <2>2, JobFacts DEF RemoveBatch
  <2>5. rollups' = rollups \cup {new} /\ IsNewest(j.head, j.thread)
    BY <1>4, <2>2, <2>3 DEF TakeRollup, StillDeleted
  <2>6. new.thread = j.thread /\ new.head = j.head /\ new.usage = SamplesOf(j.thread)
    BY <2>3
  <2>7. Sequences' = Sequences /\ \A t \in Threads : StreamOf(t)' = StreamOf(t)
    BY <2>4 DEF Sequences, StreamOf
  <2>8. RowsOf(j.thread) = StreamOf(j.thread) \ gone
    BY <2>4, RetentionAssumption DEF RowsOf
  <2>9. \A s \in StreamOf(j.thread) : s <= j.head
    BY <2>5 DEF IsNewest
  <2>15. SamplesOf(j.thread) \subseteq StreamOf(j.thread)
    BY <2>8 DEF SamplesOf, ActivityRows
  <2>10. RollupsInv'
    <3>1. /\ new.head \in StreamOf(new.thread)' /\ log'[new.head].kind = "deleted"
          /\ \A s \in new.usage : s \in StreamOf(new.thread)' /\ s <= new.head
      BY <2>4, <2>6, <2>7, <2>9, <2>15 DEF DeletedJob
    <3> QED
      BY <2>5, <3>1, RollupsStay DEF RollupsInv
  <2>11. ASSUME NEW s \in Sequences, log[s].kind = "sample" PROVE UsedOnce(s)'
    <3>1. CASE log[s].thread # j.thread
      <4>1. RolledUp(s)' <=> RolledUp(s)
        BY <2>4, <2>5, <2>6, <3>1 DEF RolledUp
      <4>2. s \notin new.usage
        BY <2>6, <2>15, <3>1 DEF StreamOf
      <4>3. s \in gone' => s \in gone
        BY <2>2, <2>8, <3>1 DEF RemoveRows, StreamOf
      <4> QED
        BY <1>1, <2>4, <2>5, <2>11, <4>1, <4>2, <4>3 DEF UsedOnce
    <3>2. CASE log[s].thread = j.thread
      <4>1. s \in StreamOf(j.thread) /\ s <= j.head
        BY <2>9, <3>2 DEF StreamOf
      <4>2. RolledUp(s)'
        BY <2>4, <2>5, <2>6, <3>2, <4>1 DEF RolledUp
      <4>3. CASE RolledUp(s)
        <5>1. PICK r \in rollups : s \in r.usage /\ \A q \in rollups : s \in q.usage => q = r
          BY <1>1, <2>11, <4>3 DEF UsedOnce
        <5>2. s \notin new.usage
          <6>1. PICK q \in rollups : q.thread = j.thread /\ s <= q.head
            BY <3>2, <4>3 DEF RolledUp
          <6>2. q.head \in StreamOf(j.thread) /\ log[q.head].kind = "deleted" /\ q.head # j.head
            BY <1>1, <1>4, <2>2, <6>1 DEF RollupsInv, TakeRollup
          <6>3. q.head \in Sequences /\ q.head < j.head
            BY <1>2, <2>4, <2>9, <6>2 DEF StreamOf
          <6>4. CreatedBetween(q.head, j.head, j.thread)
            BY <2>4, <6>2, <6>3 DEF IndInv, StreamInv, DeletedJob
          <6>5. s \notin ActivityRows(j.thread)
            BY <1>1, <2>4, <6>1, <6>3, <6>4, RowsDropped
          <6> QED
            BY <2>6, <4>3, <6>5 DEF SamplesOf
        <5> QED
          BY <2>5, <4>2, <5>1, <5>2 DEF UsedOnce
      <4>4. CASE ~RolledUp(s)
        <5>1. s \notin gone
          BY <1>1, <2>11, <4>4 DEF UsedOnce
        <5>2. s \in new.usage
          BY <2>6, <2>8, <2>11, <4>1, <4>4, <5>1 DEF SamplesOf
        <5>3. \A q \in rollups : s \notin q.usage
          BY <1>1, <4>4 DEF RollupsInv, RolledUp, StreamOf
        <5> QED
          BY <2>5, <4>2, <5>2, <5>3 DEF UsedOnce
      <4> QED
        BY <4>3, <4>4
    <3> QED
      BY <3>1, <3>2
  <2>12. \A s \in Sequences : log[s].kind # "sample" => UsedOnce(s)'
    BY <2>4 DEF UsedOnce
  <2> QED
    BY <1>0, <2>7, <2>10, <2>11, <2>12
<1> QED
  BY <1>3, <1>4

-----------------------------------------------------------------------------
LEMMA FeedKept ==
  ASSUME IndInv, Next
  PROVE  FeedInv'
<1>1. TypeOK /\ FeedInv /\ Len(log) \in Nat /\ Sequences = 1 .. Len(log)
  BY LogEvents DEF IndInv
<1>2. feed \in FeedRecords
  BY <1>1 DEF FeedInv
<1>3. CASE feed' = feed
  <2>1. \A s \in Sequences' : s \in Sequences \/ \A r \in Sequences : r < s
    <3>1. CASE log' = log
      BY <3>1 DEF Sequences
    <3>2. ASSUME NEW t \in Threads, NEW kind \in Kinds, Commit(t, kind)
          PROVE  \A s \in Sequences' : s \in Sequences \/ \A r \in Sequences : r < s
      BY <1>1, <3>2, Committed
    <3> QED
      BY <3>1, <3>2, LogKept
  <2>2. \A s \in Sequences : s \in Nat /\ s \in Sequences' /\ (InFeed(feed.of, s)' => InFeed(feed.of, s))
    BY <1>1, <1>3, HistoryGrows DEF InFeed
  <2>3. gone \subseteq gone'
    BY DEF Next, Commit, SettleIntent, Project, BeginPass, EndPass, SelectDeleted, NextDeleted,
      NextLive, NextJob, RemoveBatch, SelectLive, TrimBatch, SkipThread, Resume, ReadPage, SendPage,
      EndFeed, RemoveRows
  <2>4. ASSUME feed.at # "off"
        PROVE  /\ feed.cursor \in Sequences'
               /\ \A s \in Sequences' :
                    feed.from < s /\ s <= feed.cursor /\ InFeed(feed.of, s)' => s \in feed.sent
    <3>1. feed.cursor \in Sequences /\ feed.cursor \in Sequences' /\ feed.cursor \in Nat
      BY <1>1, <2>2, <2>4 DEF FeedInv
    <3>2. \A s \in Sequences' : s <= feed.cursor => s \in Sequences
      <4>1. SUFFICES ASSUME NEW s \in Sequences', s <= feed.cursor, s \notin Sequences PROVE FALSE
        OBVIOUS
      <4>2. s \in Nat
        BY LogTypesKept DEF LogTypes, Sequences
      <4> QED
        BY <2>1, <3>1, <4>1, <4>2
    <3> QED
      BY <1>1, <2>2, <2>4, <3>1, <3>2 DEF FeedInv
  <2>5. ASSUME feed.at = "page"
        PROVE  /\ feed.page \subseteq Sequences'
               /\ \A s \in feed.page : feed.cursor < s
               /\ \A s \in Sequences', p \in feed.page :
                    InFeed(feed.of, s)' /\ feed.cursor < s /\ s <= p => s \in feed.page \/ s \in gone'
    <3>1. feed.page \subseteq Sequences
      BY <1>1, <2>5 DEF FeedInv
    <3>2. \A s \in Sequences', p \in feed.page : s <= p => s \in Sequences
      <4>1. SUFFICES ASSUME NEW s \in Sequences', NEW p \in feed.page, s <= p, s \notin Sequences
                     PROVE FALSE
        OBVIOUS
      <4>2. s \in Nat /\ p \in Nat /\ p < s
        <5>1. s \in Nat
          BY LogTypesKept DEF LogTypes, Sequences
        <5> QED
          BY <2>1, <2>2, <3>1, <4>1, <5>1
      <4> QED
        BY <4>1, <4>2
    <3> QED
      BY <1>1, <2>2, <2>3, <2>5, <3>1, <3>2 DEF FeedInv
  <2> QED
    BY <1>2, <1>3, <2>4, <2>5 DEF FeedInv
<1>4. CASE Resume
  <2>1. PICK f \in Feeds, from \in Sequences :
          feed' = [NoFeed EXCEPT !.at = "reading", !.of = f, !.from = from, !.cursor = from]
    BY <1>4 DEF Resume
  <2>2. feed' = [at |-> "reading", of |-> f, from |-> from, cursor |-> from, page |-> {}, sent |-> {}]
    BY <2>1 DEF NoFeed
  <2>3. from \in Nat /\ Sequences' = Sequences
    BY <1>1, <1>4 DEF Resume, Sequences
  <2>4. feed' \in FeedRecords
    BY <2>2, <2>3 DEF FeedRecords, FeedPlaces
  <2>5. /\ feed'.at = "reading" /\ feed'.from = from /\ feed'.cursor = from
    BY <2>2
  <2>6. \A s \in Sequences : ~(from < s /\ s <= from)
    BY <1>1, <2>3
  <2> QED
    BY <2>3, <2>4, <2>5, <2>6 DEF FeedInv
<1>5. CASE ReadPage
  <2> DEFINE ahead == {s \in RowsOf(feed.of) : s > feed.cursor}
  <2>1. PICK page \in SUBSET ahead :
          /\ \A s \in page, r \in ahead \ page : s < r
          /\ feed' = [feed EXCEPT !.at = "page", !.page = page]
    BY <1>5 DEF ReadPage
  <2>2. /\ UNCHANGED <<log, gone>> /\ Sequences' = Sequences /\ feed.at = "reading"
    BY <1>5 DEF ReadPage, Sequences
  <2>3. \A s : s \in RowsOf(feed.of) <=> InFeed(feed.of, s) /\ s \notin gone
    <3>1. CASE feed.of = Log
      BY <3>1 DEF RowsOf, Rows, InFeed
    <3>2. CASE feed.of # Log
      BY <3>2 DEF RowsOf, StreamOf, InFeed
    <3> QED
      BY <3>1, <3>2
  <2>4. page \subseteq Sequences /\ page \subseteq Nat
    BY <1>1, <2>3 DEF InFeed
  <2>5. /\ feed' \in FeedRecords /\ feed'.at = "page" /\ feed'.page = page /\ feed'.of = feed.of
        /\ feed'.from = feed.from /\ feed'.cursor = feed.cursor /\ feed'.sent = feed.sent
    BY <1>2, <2>1, <2>4 DEF FeedRecords, FeedPlaces
  <2>6. \A s : InFeed(feed.of, s)' <=> InFeed(feed.of, s)
    BY <2>2, <2>5 DEF InFeed
  <2>7. \A s \in page : feed.cursor < s
    BY <1>2, <2>4 DEF FeedRecords
  <2>8. \A s \in Sequences, p \in page :
          InFeed(feed.of, s) /\ feed.cursor < s /\ s <= p => s \in page \/ s \in gone
    <3>1. SUFFICES ASSUME NEW s \in Sequences, NEW p \in page, InFeed(feed.of, s),
                          feed.cursor < s, s <= p, s \notin page, s \notin gone
                   PROVE  FALSE
      OBVIOUS
    <3>2. s \in ahead /\ s \in Nat /\ p \in Nat
      BY <1>1, <1>2, <2>3, <2>4, <3>1 DEF FeedRecords
    <3>3. p < s
      BY <2>1, <3>1, <3>2
    <3> QED
      BY <3>1, <3>2, <3>3
  <2>9. \A s \in Sequences :
          feed.from < s /\ s <= feed.cursor /\ InFeed(feed.of, s) => s \in feed.sent
    BY <1>1, <2>2 DEF FeedInv
  <2>10. feed.cursor \in Sequences
    BY <1>1, <2>2 DEF FeedInv
  <2> QED
    BY <2>2, <2>4, <2>5, <2>6, <2>7, <2>8, <2>9, <2>10 DEF FeedInv
<1>6. CASE SendPage
  <2>1. PICK last \in feed.page \cup {feed.cursor} :
          /\ \A s \in feed.page : s <= last
          /\ feed' = [feed EXCEPT !.at = "reading", !.cursor = last, !.sent = @ \cup feed.page,
                                 !.page = {}]
    BY <1>6 DEF SendPage, PageSent
  <2>2. /\ UNCHANGED <<log, gone>> /\ Sequences' = Sequences
        /\ feed.at = "page" /\ floor[feed.of] <= feed.from
    BY <1>6 DEF SendPage, Sequences
  <2>3. feed.page \subseteq Sequences /\ feed.cursor \in Sequences /\ last \in Sequences
    BY <1>1, <2>1, <2>2 DEF FeedInv
  <2>4. /\ feed' \in FeedRecords /\ feed'.at = "reading" /\ feed'.of = feed.of
        /\ feed'.from = feed.from /\ feed'.cursor = last /\ feed'.sent = feed.sent \cup feed.page
    <3>1. last \in Nat /\ feed.page \subseteq Nat
      BY <1>1, <2>3
    <3> QED
      BY <1>2, <2>1, <3>1 DEF FeedRecords, FeedPlaces
  <2>5. \A s : InFeed(feed.of, s)' <=> InFeed(feed.of, s)
    BY <2>2, <2>4 DEF InFeed
  <2>6. ASSUME NEW s \in Sequences, feed.from < s, s <= last, InFeed(feed.of, s)
        PROVE  s \in feed.sent \cup feed.page
    <3>1. s \in Nat /\ feed.cursor \in Nat /\ last \in Nat /\ feed.from \in Nat
      BY <1>1, <1>2, <2>3 DEF FeedRecords
    <3>2. CASE s <= feed.cursor
      BY <1>1, <2>2, <2>6, <3>2 DEF FeedInv
    <3>3. CASE feed.cursor < s
      <4>1. last \in feed.page
        BY <2>1, <2>6, <3>1, <3>3
      <4>2. s \in feed.page \/ s \in gone
        BY <1>1, <2>2, <2>6, <3>3, <4>1 DEF FeedInv
      <4>3. ASSUME s \in gone PROVE FALSE
        <5>1. s <= floor[log[s].thread] /\ s <= floor[Log]
          BY <4>3 DEF IndInv, GoneInv
        <5>2. s <= floor[feed.of]
          BY <2>6, <5>1 DEF InFeed
        <5>3. floor[feed.of] \in Nat
          BY <1>1, <1>2 DEF TypeOK, FeedRecords
        <5> QED
          BY <2>2, <2>6, <3>1, <5>2, <5>3
      <4> QED
        BY <4>2, <4>3
    <3> QED
      BY <3>1, <3>2, <3>3
  <2> QED
    BY <2>2, <2>3, <2>4, <2>5, <2>6 DEF FeedInv
<1>7. CASE EndFeed
  <2>1. feed' = [at |-> "off", of |-> Log, from |-> 0, cursor |-> 0, page |-> {}, sent |-> {}]
    BY <1>7 DEF EndFeed, NoFeed
  <2> QED
    BY <2>1 DEF FeedInv, FeedRecords, FeedPlaces, Feeds
<1> QED
  BY <1>3, <1>4, <1>5, <1>6, <1>7 DEF Next, Commit, SettleIntent, Project, BeginPass, EndPass,
    SelectDeleted, NextDeleted, NextLive, NextJob, RemoveBatch, SelectLive, TrimBatch, SkipThread

-----------------------------------------------------------------------------
LEMMA TypesKept ==
  ASSUME IndInv, Next
  PROVE  TypeOK'
BY LogTypesKept, PassKept, FeedKept
  DEF LogTypes, PassInv, PassRecords, PassTypes, FeedInv, FeedRecords, TypeOK

LEMMA StutterInv ==
  ASSUME IndInv, UNCHANGED vars
  PROVE  IndInv'
BY DEF IndInv, vars, TypeOK, StreamInv, PassInv, GoneInv, UsageInv, FeedInv, Sequences, StreamOf,
  CreatedBetween, DeletedJob, LiveJob, RolledUp, InFeed

(* The inductive invariant holds in every state.                            *)
THEOREM RetentionInvariant == Spec => []IndInv
<1>1. ASSUME IndInv, [Next]_vars PROVE IndInv'
  BY <1>1, TypesKept, StreamsKept, PassKept, GoneKept, UsageKept, FeedKept, StutterInv DEF IndInv
<1> QED
  BY <1>1, InitInv, PTL DEF Spec

(* Every variable keeps its type.                                           *)
THEOREM RetentionTypes == Spec => []TypeOK
<1>1. IndInv => TypeOK
  BY DEF IndInv
<1> QED
  BY <1>1, RetentionInvariant, PTL

(* No event an intent, a projector or a later read of its thread needs is   *)
(* removed, whatever is committed while a pass runs and wherever it stops.  *)
THEOREM NeededEventsStay == Spec => []NothingNeededIsGone
<1>1. IndInv => NothingNeededIsGone
  <2> SUFFICES ASSUME IndInv PROVE NothingNeededIsGone
    OBVIOUS
  <2>1. TypeOK /\ \A s \in gone : s \in Sequences /\ s \in Nat /\ log[s].thread \in Threads
    BY LogEvents DEF IndInv, TypeOK
  <2>2. ASSUME NEW s \in gone
        PROVE  \E r \in StreamOf(log[s].thread) :
                 s < r /\ r \in Nat /\ log[r].kind \in {"deleted", "turn"}
    BY <2>1, LogEvents DEF IndInv, GoneInv, StreamOf
  <2>3. ASSUME NEW s \in gone PROVE ~IsNewest(s, log[s].thread)
    BY <2>1, <2>2 DEF IsNewest
  <2>4. ASSUME NEW t \in Threads, ~NoThread(t), NEW s \in StreamOf(t) \cap gone
        PROVE  \/ \E r \in StreamOf(t) : r > s /\ log[r].kind = "created"
               \/ \E r \in StreamOf(t) : r > s /\ log[r].kind = "turn"
    <3>1. log[s].thread = t
      BY DEF StreamOf
    <3>2. PICK r \in StreamOf(t) : s < r /\ r \in Nat /\ log[r].kind \in {"deleted", "turn"}
      BY <2>2, <3>1
    <3>3. CASE log[r].kind = "turn"
      BY <2>1, <3>2, <3>3
    <3>4. CASE log[r].kind = "deleted"
      <4>1. PICK c \in StreamOf(t) :
              log[c].kind = "created" /\ \A d \in StreamOf(t) : ~(c < d /\ log[d].kind = "deleted")
        BY <2>4 DEF NoThread
      <4>2. ~(c < r) /\ c # r
        BY <3>2, <3>4, <4>1
      <4>3. c \in Nat /\ s \in Nat
        BY <2>1, LogEvents DEF StreamOf
      <4> QED
        BY <3>2, <4>1, <4>2, <4>3
    <3> QED
      BY <3>2, <3>3, <3>4
  <2> QED
    BY <2>3, <2>4 DEF NothingNeededIsGone, IndInv, GoneInv
<1> QED
  BY <1>1, RetentionInvariant, PTL

(* A resumed feed is sent every event of it that the client lacked, up to    *)
(* the last one it was sent.                                                *)
THEOREM ResumedFeedsAreWhole == Spec => []ReplayHasNoGap
<1>1. IndInv => ReplayHasNoGap
  <2> SUFFICES ASSUME IndInv, feed.at # "off", NEW s \in feed.from + 1 .. feed.cursor,
                      feed.of = Log \/ s \in StreamOf(feed.of)
               PROVE  s \in feed.sent
    BY DEF ReplayHasNoGap
  <2>1. feed.cursor \in Sequences /\ feed.from \in Nat /\ feed.cursor \in Nat
    BY DEF IndInv, FeedInv, TypeOK
  <2>2. Sequences = 1 .. Len(log) /\ Len(log) \in Nat
    BY LogEvents DEF IndInv
  <2>3. s \in Sequences /\ feed.from < s /\ s <= feed.cursor
    BY <2>1, <2>2
  <2>4. InFeed(feed.of, s)
    BY <2>3 DEF InFeed, StreamOf
  <2> QED
    BY <2>3, <2>4 DEF IndInv, FeedInv
<1> QED
  BY <1>1, RetentionInvariant, PTL

(* Statistics counts every sample, and once: in a rollup, in the log or as a *)
(* row that outlives its event; of a thread that an event was taken of when  *)
(* it was deleted perhaps twice, but never less.                             *)
THEOREM UsageIsCountedOnce == Spec => []UsageCountedOnce
<1>1. IndInv => UsageCountedOnce
  <2> SUFFICES ASSUME IndInv, NEW t \in Threads, NEW s \in StreamOf(t), log[s].kind = "sample"
               PROVE  /\ s \in Counted(t) \/ \E r \in rollups : s \in r.usage
                      /\ Cardinality({r \in rollups : s \in r.usage}) <= 1
                      /\ ~TakenWhenDeleted(t) =>
                           s \notin Counted(t) \/ \A r \in rollups : s \notin r.usage
    BY DEF UsageCountedOnce
  <2>1. s \in Sequences /\ log[s].thread = t /\ TypeOK
    BY DEF StreamOf, IndInv
  <2>2. RowsOf(t) = StreamOf(t) \ gone
    BY RetentionAssumption DEF RowsOf
  <2>3. ASSUME NEW r \in rollups, s \in r.usage
        PROVE  r.thread = t /\ s <= r.head /\ r.head \in StreamOf(t) /\ log[r.head].kind = "deleted"
    BY <2>1, <2>3 DEF IndInv, UsageInv, StreamOf
  <2>4. CASE RolledUp(s)
    <3>1. PICK r \in rollups : s \in r.usage /\ \A q \in rollups : s \in q.usage => q = r
      BY <2>1, <2>4 DEF IndInv, UsageInv
    <3>2. {q \in rollups : s \in q.usage} = {r}
      BY <3>1
    <3>3. Cardinality({r}) = 1
      BY FS_Singleton
    <3>4. ASSUME ~TakenWhenDeleted(t), s \in Counted(t) PROVE FALSE
      <4>1. ~Frozen(t) /\ s \in SamplesOf(t)
        BY <3>4 DEF Counted
      <4>2. PICK e \in RowsOf(t) : ~(e <= r.head)
        BY <2>3, <3>1, <4>1 DEF Frozen
      <4>3. /\ e \in StreamOf(t) /\ e \in Sequences /\ r.head \in Sequences /\ r.head \in StreamOf(t)
            /\ log[r.head].kind = "deleted" /\ s <= r.head
        BY <2>2, <2>3, <3>1, <4>2 DEF StreamOf
      <4>4. r.head < e
        BY <2>1, <4>2, <4>3, LogEvents
      <4>5. CreatedBetween(r.head, e, t)
        BY <3>4, <4>3, <4>4 DEF TakenWhenDeleted
      <4>6. s \notin ActivityRows(t)
        BY <2>1, <4>3, <4>5, RowsDropped
      <4> QED
        BY <2>4, <4>1, <4>6 DEF SamplesOf
    <3> QED
      BY <3>1, <3>2, <3>3, <3>4
  <2>5. CASE ~RolledUp(s)
    <3>1. s \in RowsOf(t) /\ s \in SamplesOf(t)
      BY <2>1, <2>2, <2>5 DEF IndInv, UsageInv, SamplesOf
    <3>2. s \in Counted(t)
      BY <2>1, <2>5, <3>1 DEF Counted, Frozen, RolledUp
    <3>3. \A r \in rollups : s \notin r.usage
      BY <2>1, <2>3, <2>5 DEF RolledUp
    <3>4. {r \in rollups : s \in r.usage} = {} /\ Cardinality({}) = 0
      BY <3>3, FS_EmptySet
    <3> QED
      BY <3>2, <3>3, <3>4
  <2> QED
    BY <2>4, <2>5
<1> QED
  BY <1>1, RetentionInvariant, PTL
=============================================================================
