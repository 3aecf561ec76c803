--------------------------- MODULE EventLogRetention ---------------------------
(***************************************************************************)
(* Removal of old events from the log (EventLogRetention.ts) beside the    *)
(* readers that could still need them: the provider effect intents, the    *)
(* projectors, Statistics, and a client that resumes a feed from the       *)
(* sequence it last applied (probeResume and makeBoundedReplayStream).     *)
(*                                                                         *)
(* A pass reads its bounds once and then removes event by event in short   *)
(* transactions, between which anything may be committed: new turns, a     *)
(* deletion, a deleted id created again.  It may stop after any of them,   *)
(* for its budget or with its process, and keeps nothing in memory.        *)
(*                                                                         *)
(* Statistics reads a thread's usage from the log, from the activity rows  *)
(* that outlive it and from the rollups a removal leaves behind.           *)
(*                                                                         *)
(* Compaction's own removals are left out, as are events of projects,      *)
(* reverts (which drop activity rows whose events stay), what forks        *)
(* inherit, and the limits on how much a resume replays.  How old events   *)
(* are, and whether a completion return or a restart continuation holds a  *)
(* thread, is each pass's choice.                                          *)
(***************************************************************************)
EXTENDS Integers, Sequences, FiniteSets

CONSTANTS
  Threads,
  Log,          \* the feed of the whole log
  MaxEvents,    \* bound: events committed
  MaxBatch,     \* events one transaction removes
  PageSize      \* events a replay reads at once

ASSUME RetentionAssumption ==
  /\ Log \notin Threads
  /\ MaxEvents \in Nat
  /\ MaxBatch \in Nat \ {0}
  /\ PageSize \in Nat \ {0}

VARIABLES
  log,        \* every event ever committed, in order
  gone,       \* the sequences whose row was removed
  floor,      \* orchestration_stream_floors: of each thread and of the log
  intents,    \* sequences of the open provider effect intents
  projected,  \* the lowest projector cursor
  rollups,    \* statistics_usage_rollups
  pass,       \* the pass in progress
  feed        \* a client's resumed feed

vars == <<log, gone, floor, intents, projected, rollups, pass, feed>>

(* A turn is its thread.turn-start-requested; a sample of the context window *)
(* is what Statistics reads.                                                 *)
Kinds == {"created", "turn", "sample", "deleted"}
Event == [thread : Threads, kind : Kinds]
Feeds == Threads \cup {Log}

Sequences == DOMAIN log
Rows == Sequences \ gone
StreamOf(t) == {s \in Sequences : log[s].thread = t}
RowsOf(f) == IF f = Log THEN Rows ELSE StreamOf(f) \ gone
IsNewest(s, t) == s \in StreamOf(t) /\ \A r \in StreamOf(t) : r <= s
CreatedBetween(x, y, t) == \E c \in StreamOf(t) : x < c /\ c <= y /\ log[c].kind = "created"
NoThread(t) ==
  \A c \in StreamOf(t) : log[c].kind = "created" =>
    \E d \in StreamOf(t) : c < d /\ log[d].kind = "deleted"
AtMost(x, y) == IF x <= y THEN x ELSE y
AtLeast(x, y) == IF x >= y THEN x ELSE y

Rollup == [thread : Threads, head : Nat, usage : SUBSET Nat]
(* A rollup covers every sample of its thread up to the deletion.            *)
RolledUp(s) == \E r \in rollups : r.thread = log[s].thread /\ s <= r.head

(* projection_thread_activities is written in the transaction that appends   *)
(* the event: a creation drops the rows of the id's earlier life, a removal  *)
(* of events leaves them.                                                    *)
ActivityRows(t) ==
  {s \in StreamOf(t) : log[s].kind = "sample" /\ ~CreatedBetween(s, Len(log), t)}

(* The samples of the log no rollup covers, and the rows without an event.   *)
SamplesOf(t) ==
  {s \in RowsOf(t) : log[s].kind = "sample" /\ ~RolledUp(s)} \cup (ActivityRows(t) \cap gone)

(* Nothing came after the deletion the latest rollup was taken at.           *)
Frozen(t) == \E r \in rollups : r.thread = t /\ \A s \in RowsOf(t) : s <= r.head

\* Variant with a fault: rows that outlive their events count beside their rollup.
CountedThawed(t) == SamplesOf(t)

(* What Statistics counts of a thread beside its rollups.                    *)
Counted(t) == IF Frozen(t) THEN {} ELSE SamplesOf(t)

Job == [thread : Threads, head : Nat, rolled : BOOLEAN]
PassPlaces == {"idle", "select", "deleted", "removing", "live", "trimming"}
NoPass == [at |-> "idle", upper |-> 0, todo |-> {}, job |-> {}]
FeedPlaces == {"off", "reading", "page"}
NoFeed == [at |-> "off", of |-> Log, from |-> 0, cursor |-> 0, page |-> {}, sent |-> {}]

TypeOK ==
  /\ log \in Seq(Event)
  /\ gone \subseteq Sequences
  /\ floor \in [Feeds -> Nat]
  /\ intents \subseteq Sequences
  /\ projected \in 0 .. Len(log)
  /\ rollups \subseteq Rollup
  /\ pass.at \in PassPlaces
  /\ pass.at # "idle" => pass.upper \in 1 .. Len(log)
  /\ pass.todo \subseteq Job /\ pass.job \subseteq Job
  /\ pass.at \in {"removing", "trimming"} <=> pass.job # {}
  /\ feed.at \in FeedPlaces
  /\ feed.of \in Feeds
  /\ feed.from \in Nat /\ feed.cursor \in Nat
  /\ feed.page \subseteq Nat /\ feed.sent \subseteq Nat

Init ==
  /\ log = <<>>
  /\ gone = {}
  /\ floor = [f \in Feeds |-> 0]
  /\ intents = {}
  /\ projected = 0
  /\ rollups = {}
  /\ pass = NoPass
  /\ feed = NoFeed

-----------------------------------------------------------------------------
(* What else happens in the database                                         *)

(* An event commits; a turn start opens an intent in the same transaction.   *)
(* A sample is taken even of a thread that is deleted.                       *)
Commit(t, kind) ==
  /\ Len(log) < MaxEvents
  /\ kind = "created" => NoThread(t)
  /\ kind \in {"turn", "deleted"} => ~NoThread(t)
  /\ kind = "sample" => StreamOf(t) # {}
  /\ log' = Append(log, [thread |-> t, kind |-> kind])
  /\ intents' = IF kind = "turn" THEN intents \cup {Len(log) + 1} ELSE intents
  /\ UNCHANGED <<gone, floor, projected, rollups, pass, feed>>

SettleIntent ==
  /\ \E i \in intents : intents' = intents \ {i}
  /\ UNCHANGED <<log, gone, floor, projected, rollups, pass, feed>>

Project ==
  /\ projected < Len(log)
  /\ projected' = Len(log)
  /\ UNCHANGED <<log, gone, floor, intents, rollups, pass, feed>>

-----------------------------------------------------------------------------
(* A pass over the threads (runRetentionPass)                                *)

\* Variant with a fault: the oldest intent's own event is within the bound.
ReachesIntent(upper) == upper <= projected /\ \A i \in intents : upper <= i

(* globalUpperBound, read once: the readers' own progress moves it.  The     *)
(* compaction's cursor, which this pass just moved, may lower it to anything.*)
IsUpperBound(upper) == upper <= projected /\ \A i \in intents : upper < i

BeginPass ==
  /\ pass.at = "idle"
  /\ \E upper \in 1 .. Len(log) :
       /\ IsUpperBound(upper)
       /\ pass' = [NoPass EXCEPT !.at = "select", !.upper = upper]
  /\ UNCHANGED <<log, gone, floor, intents, projected, rollups, feed>>

(* It is over: done, out of budget, failed, or its process is.               *)
EndPass ==
  /\ pass.at # "idle"
  /\ pass' = NoPass
  /\ UNCHANGED <<log, gone, floor, intents, projected, rollups, feed>>

Removable(t, head) == \E s \in RowsOf(t) : s < head /\ s <= pass.upper

(* Threads whose newest event is their deletion, and those whose rollup is   *)
(* there but not all of what it covers removed; of both, the earlier.        *)
DeletedJobs ==
  {j \in [thread : Threads, head : Sequences, rolled : BOOLEAN] :
     /\ Removable(j.thread, j.head)
     /\ IF j.rolled
        THEN /\ \E r \in rollups : r.thread = j.thread /\ r.head = j.head
             /\ \A r \in rollups : r.thread = j.thread => r.head <= j.head
        ELSE /\ IsNewest(j.head, j.thread) /\ log[j.head].kind = "deleted"
             /\ j.head <= projected}

SelectDeleted ==
  /\ pass.at = "select"
  /\ pass' = [pass EXCEPT !.at = "deleted",
                !.todo = {j \in DeletedJobs :
                            \A k \in DeletedJobs : k.thread = j.thread => j.head <= k.head}]
  /\ UNCHANGED <<log, gone, floor, intents, projected, rollups, feed>>

(* The next thread of the selection; one that is held is passed over.        *)
NextJob(from, to) ==
  /\ pass.at = from
  /\ \E j \in pass.todo :
       /\ \A k \in pass.todo : j.head <= k.head
       /\ LET rest == {k \in pass.todo : k.thread # j.thread}
          IN \/ pass' = [pass EXCEPT !.at = to, !.todo = rest, !.job = {j}]
             \/ pass' = [pass EXCEPT !.todo = rest]
  /\ UNCHANGED <<log, gone, floor, intents, projected, rollups, feed>>

NextDeleted == NextJob("deleted", "removing")

(* The floors rise in the transaction that removes the rows.                 *)
RaiseFloors(t, bound) ==
  floor' = [f \in Feeds |-> IF f \in {t, Log} THEN AtLeast(floor[f], bound) ELSE floor[f]]

(* Up to a batch of the lowest rows; a short batch was the last.             *)
RemoveRows(matching, back) ==
  \E rows \in SUBSET matching :
    /\ Cardinality(rows) = AtMost(MaxBatch, Cardinality(matching))
    /\ \A s \in rows, r \in matching \ rows : s < r
    /\ gone' = gone \cup rows
    /\ pass' = IF Cardinality(rows) < MaxBatch THEN [pass EXCEPT !.at = back, !.job = {}] ELSE pass

(* removeStreamEvents of a deleted thread.  Its usage is rolled up in the    *)
(* first transaction, before which the deletion must still be the newest     *)
(* event of the stream.                                                      *)
TakeRollup(j) ==
  rollups' = IF j.rolled \/ \E r \in rollups : r.thread = j.thread /\ r.head = j.head
             THEN rollups
             ELSE rollups \cup {[thread |-> j.thread, head |-> j.head, usage |-> SamplesOf(j.thread)]}

StillDeleted(j) == j.rolled \/ IsNewest(j.head, j.thread)

RemoveBatch ==
  /\ pass.at = "removing"
  /\ \E j \in pass.job :
       /\ StillDeleted(j)
       /\ TakeRollup(j)
       /\ RaiseFloors(j.thread, AtMost(j.head - 1, pass.upper))
       /\ RemoveRows({s \in RowsOf(j.thread) : s <= AtMost(j.head - 1, pass.upper)}, "deleted")
  /\ UNCHANGED <<log, intents, projected, feed>>

(* Created again since, or the transaction failed: the pass goes on.         *)
SkipThread ==
  /\ pass.at \in {"removing", "trimming"}
  /\ pass' = [pass EXCEPT !.at = IF pass.at = "removing" THEN "deleted" ELSE "live", !.job = {}]
  /\ UNCHANGED <<log, gone, floor, intents, projected, rollups, feed>>

(* A thread the projections show as not deleted.                             *)
ShownLive(t) ==
  \E s \in StreamOf(t) :
    /\ log[s].kind = "created" /\ s <= projected
    /\ \A r \in StreamOf(t) : log[r].kind \in {"created", "deleted"} /\ r <= projected => r <= s

Trimmable(t, bound) == {s \in RowsOf(t) : s <= bound /\ log[s].kind = "turn"}

(* The events before the latest turn, up to the window; a head of h stands   *)
(* for the bound h - 1.                                                      *)
LiveJobs(window) ==
  {j \in [thread : Threads, head : 1 .. Len(log) + 1, rolled : {FALSE}] :
     /\ ShownLive(j.thread)
     /\ \E latest \in RowsOf(j.thread) :
          /\ log[latest].kind = "turn"
          /\ \A r \in RowsOf(j.thread) : log[r].kind = "turn" => r <= latest
          /\ j.head = AtMost(window + 1, latest)
     /\ floor[j.thread] < j.head - 1
     /\ \E s \in Trimmable(j.thread, j.head - 1) : s > floor[j.thread]}

SelectLive ==
  /\ pass.at = "deleted" /\ pass.todo = {}
  /\ \E window \in 1 .. pass.upper : pass' = [pass EXCEPT !.at = "live", !.todo = LiveJobs(window)]
  /\ UNCHANGED <<log, gone, floor, intents, projected, rollups, feed>>

NextLive == NextJob("live", "trimming")

TrimBatch ==
  /\ pass.at = "trimming"
  /\ \E j \in pass.job :
       /\ RaiseFloors(j.thread, j.head - 1)
       /\ RemoveRows(Trimmable(j.thread, j.head - 1), "live")
  /\ UNCHANGED <<log, intents, projected, rollups, feed>>

-----------------------------------------------------------------------------
(* A feed resumed from the sequence its client last applied                  *)

(* probeResume: within the log, and at or above the feed's floor.            *)
Anchored(f, from) ==
  /\ \E s \in Rows : s <= from
  /\ \E s \in Rows : from <= s
  /\ from >= floor[f]

(* What commits from here on also arrives live.                              *)
Resume ==
  /\ feed.at = "off"
  /\ \E f \in Feeds, from \in Sequences :
       /\ Anchored(f, from)
       /\ feed' = [NoFeed EXCEPT !.at = "reading", !.of = f, !.from = from, !.cursor = from]
  /\ UNCHANGED <<log, gone, floor, intents, projected, rollups, pass>>

ReadPage ==
  /\ feed.at = "reading"
  /\ LET ahead == {s \in RowsOf(feed.of) : s > feed.cursor}
     IN \E page \in SUBSET ahead :
          /\ Cardinality(page) = AtMost(PageSize, Cardinality(ahead))
          /\ \A s \in page, r \in ahead \ page : s < r
          /\ feed' = [feed EXCEPT !.at = "page", !.page = page]
  /\ UNCHANGED <<log, gone, floor, intents, projected, rollups, pass>>

PageSent ==
  \E last \in feed.page \cup {feed.cursor} :
    /\ \A s \in feed.page : s <= last
    /\ feed' = [feed EXCEPT !.at = "reading", !.cursor = last, !.sent = @ \cup feed.page,
                           !.page = {}]

\* Variant with a fault: the floor is only checked when the feed is resumed.
SendPageUnchecked ==
  /\ feed.at = "page"
  /\ PageSent
  /\ UNCHANGED <<log, gone, floor, intents, projected, rollups, pass>>

(* The floor is checked after the page is read and before it is sent.        *)
SendPage ==
  /\ feed.at = "page"
  /\ floor[feed.of] <= feed.from
  /\ PageSent
  /\ UNCHANGED <<log, gone, floor, intents, projected, rollups, pass>>

(* The replay ends, fails for its floor, or its client leaves.               *)
EndFeed ==
  /\ feed.at # "off"
  /\ feed' = NoFeed
  /\ UNCHANGED <<log, gone, floor, intents, projected, rollups, pass>>

-----------------------------------------------------------------------------
Next ==
  \/ \E t \in Threads, kind \in Kinds : Commit(t, kind)
  \/ SettleIntent \/ Project
  \/ BeginPass \/ EndPass
  \/ SelectDeleted \/ NextDeleted \/ RemoveBatch
  \/ SelectLive \/ NextLive \/ TrimBatch \/ SkipThread
  \/ Resume \/ ReadPage \/ SendPage \/ EndFeed

Spec == Init /\ [][Next]_vars

-----------------------------------------------------------------------------
(* Properties                                                                *)

(* No reader needs a removed event: each is below every open intent's and at *)
(* or below every projector's cursor; a stream keeps its newest event, and a *)
(* thread that lives everything since its latest turn began; whatever was    *)
(* committed since the pass read its bounds.                                 *)
NothingNeededIsGone ==
  /\ \A s \in gone : s <= projected /\ \A i \in intents : s < i
  /\ \A s \in gone : ~IsNewest(s, log[s].thread)
  /\ \A t \in Threads : ~NoThread(t) =>
       \A s \in StreamOf(t) \cap gone :
         \/ \E r \in StreamOf(t) : r > s /\ log[r].kind = "created"
         \/ \E r \in StreamOf(t) : r > s /\ log[r].kind = "turn"

(* A resumed feed has no gap: between the sequence its client had applied    *)
(* and the last it was sent no event of it is missing, though removals run   *)
(* between its pages and from before them.                                   *)
ReplayHasNoGap ==
  feed.at # "off" =>
    \A s \in feed.from + 1 .. feed.cursor :
      feed.of = Log \/ s \in StreamOf(feed.of) => s \in feed.sent

(* An event was taken of a thread after its deletion and before its id was   *)
(* created again: it makes its rollup look like that of an earlier life.     *)
TakenWhenDeleted(t) ==
  \E d, e \in StreamOf(t) : d < e /\ log[d].kind = "deleted" /\ ~CreatedBetween(d, e, t)

(* Statistics counts every sample, and counts it once: in a rollup, or among *)
(* the rows it reads beside them, in the log or outliving their event;       *)
(* though removals stop halfway, ids are created again, and the selection of *)
(* a pass is old.  Excused by name: it may count samples of a thread twice   *)
(* that an event was taken of when it was deleted.                           *)
UsageCountedOnce ==
  \A t \in Threads : \A s \in StreamOf(t) : log[s].kind = "sample" =>
    /\ s \in Counted(t) \/ \E r \in rollups : s \in r.usage
    /\ Cardinality({r \in rollups : s \in r.usage}) <= 1
    /\ ~TakenWhenDeleted(t) => s \notin Counted(t) \/ \A r \in rollups : s \notin r.usage
=============================================================================
