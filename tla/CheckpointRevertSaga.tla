-------------------------- MODULE CheckpointRevertSaga --------------------------
(***************************************************************************)
(* One thread's checkpoint reverts (checkpointRevertSaga.ts): the agent    *)
(* forgets turns, git rewrites the checkout and the history is shortened,  *)
(* in steps that no transaction holds together.  A journal row says how    *)
(* far a revert got, and startup recovery ends what a process loss left.   *)
(*                                                                         *)
(* Trees of files are numbers: turn t leaves tree t, 0 is the tree before  *)
(* the first turn, a larger number an edit of a person, Torn a checkout    *)
(* git was rewriting.  A thread without a workspace, head commits in place *)
(* of checkpoint 0 and turns the provider starts by itself are left out.   *)
(***************************************************************************)
EXTENDS Integers, Sequences, FiniteSets

CONSTANTS
  Reverts,      \* requests: 1, 2, ...
  StartTurns,   \* turns of the thread at the start
  MaxTurns,     \* bound: turns in all
  MaxEdits,     \* bound: edits of the checkout by persons
  MaxCrashes,   \* bound: process losses
  MaxFaults     \* bound: calls of git and commits that fail

ASSUME RevertAssumption ==
  /\ Reverts \subseteq Nat \ {0}
  /\ StartTurns \in Nat /\ MaxTurns \in Nat /\ StartTurns <= MaxTurns
  /\ MaxEdits \in Nat /\ MaxCrashes \in Nat /\ MaxFaults \in Nat

None == -2
Torn == -1
Turns == 1 .. MaxTurns
Trees == {Torn} \cup 0 .. MaxTurns + MaxEdits

Scopes == {"all", "conversation", "files"}
Pending == {"requested", "rolling-back", "restoring-files"}
Ended == {"completed", "files-not-restored", "failed", "interrupted"}
Snapshots == {"revert", "recovery"}

VARIABLES
  history,     \* the turns of the projected conversation, oldest first
  agent,       \* the turns the agent's conversation holds
  start,       \* an accepted turn start the reactor has not begun: counted by the policy or not
  running,     \* the turn in progress, or None
  turns,       \* turns begun so far
  files,       \* the tree in the checkout
  edits,
  refs,        \* the tree in each turn's checkpoint ref, or None
  rescue,      \* the trees in a revert's rescue refs, or None
  row,         \* the journal row of each revert
  says,        \* what the row of an ended revert says of agent, history, files
  newest,      \* the row written last, or None
  phase,       \* how far the process has started
  queue,       \* revert requests the lane has not taken yet
  pc,          \* where the saga is
  cur,         \* the revert it works on
  dropped,     \* the turns that revert drops
  saving,      \* the rescue ref this attempt saves the checkout in
  result,      \* what became of the files
  todo,        \* rescue refs still to be deleted
  did,         \* history: what each revert has done so far
  first,       \* history: the tree before the first write of each revert
  excused,     \* history: reverts whose end a named failure made untrue
  unrecorded,  \* history: reverts left pending: no end journaled, or not listed at startup
  overdue,     \* history: a revert was in the lane for ten minutes
  overlooked,  \* history: the turn in progress is from a start the policy did not count
  crashes, faults

conversation == <<history, agent, start, running, turns>>
checkout == <<files, edits, refs, rescue>>
journal == <<row, says, newest>>
saga == <<pc, cur, dropped, saving, result, todo>>
ghosts == <<did, first, excused, unrecorded, overdue, overlooked>>
vars == <<conversation, checkout, journal, phase, queue, saga, ghosts, crashes, faults>>

\* What an ended row tells the user of the agent's memory, the history and the files, and the
\* snapshots it names.
Saying(a, h, f, named) == [agent |-> a, history |-> h, files |-> f, named |-> named]
Unsaid == Saying("unsaid", "unsaid", "unsaid", {})
NothingChanged == Saying("kept", "kept", "kept", {})

NoResult == [files |-> "unsaid", named |-> {}]
Places == {"idle", "check", "fail", "journal", "rewind", "announce", "restore", "write",
           "writing", "putback", "drop", "prune", "project", "report", "recover", "unread"}

Rows == [status : Pending \cup Ended \cup {"none"}, scope : Scopes, target : 0 .. MaxTurns,
         from : Nat \cup {None}, old : BOOLEAN, moved : BOOLEAN]
Sayings == [agent : {"unsaid", "kept", "maybe", "forgot"}, history : {"unsaid", "kept", "done"},
            files : {"unsaid", "kept", "maybe", "done"}, named : SUBSET Snapshots]
Results == [files : {"unsaid", "kept", "maybe", "done"}, named : SUBSET Snapshots]
Deeds == {"rewound", "miscounted", "reverted", "wrote", "restored"}

ThreadTypes ==
  /\ history \in Seq(Turns) /\ agent \subseteq Turns
  /\ start \in {"none", "counted", "lapsed"}
  /\ running \in Turns \cup {None} /\ turns \in 0 .. MaxTurns

CheckoutTypes ==
  /\ files \in Trees /\ edits \in 0 .. MaxEdits
  /\ refs \in [0 .. MaxTurns -> Trees \cup {None}]
  /\ rescue \in [Reverts -> [Snapshots -> Trees \cup {None}]]

JournalTypes ==
  /\ row \in [Reverts -> Rows]
  /\ says \in [Reverts -> Sayings]
  /\ newest \in Reverts \cup {None}

SagaTypes ==
  /\ phase \in {"down", "recovering", "serving"}
  /\ queue \in Seq(Reverts)
  /\ pc \in Places /\ cur \in Reverts \cup {None}
  /\ dropped \subseteq Turns /\ saving \in Snapshots /\ todo \subseteq Snapshots
  /\ result \in Results

GhostTypes ==
  /\ did \in [Reverts -> SUBSET Deeds]
  /\ first \in [Reverts -> Trees \cup {None}]
  /\ excused \subseteq Reverts /\ unrecorded \subseteq Reverts
  /\ overdue \in BOOLEAN /\ overlooked \in BOOLEAN
  /\ crashes \in 0 .. MaxCrashes /\ faults \in 0 .. MaxFaults

TypeOK == ThreadTypes /\ CheckoutTypes /\ JournalTypes /\ SagaTypes /\ GhostTypes

Init ==
  /\ history = [t \in 1 .. StartTurns |-> t] /\ agent = 1 .. StartTurns
  /\ start = "none" /\ running = None /\ turns = StartTurns
  /\ files = StartTurns /\ edits = 0
  /\ refs = [t \in 0 .. MaxTurns |-> IF t <= StartTurns THEN t ELSE None]
  /\ rescue = [r \in Reverts |-> [s \in Snapshots |-> None]]
  /\ row = [r \in Reverts |-> [status |-> "none", scope |-> "all", target |-> 0, from |-> None,
                               old |-> FALSE, moved |-> FALSE]]
  /\ says = [r \in Reverts |-> Unsaid]
  /\ newest = None
  /\ phase = "serving"
  /\ queue = <<>>
  /\ pc = "idle" /\ cur = None
  /\ dropped = {} /\ saving = "revert" /\ result = NoResult /\ todo = {}
  /\ did = [r \in Reverts |-> {}]
  /\ first = [r \in Reverts |-> None]
  /\ excused = {} /\ unrecorded = {} /\ overdue = FALSE /\ overlooked = FALSE
  /\ crashes = 0 /\ faults = 0

Fault == faults < MaxFaults /\ faults' = faults + 1
NoFault == UNCHANGED faults

TurnAt(k) == IF k = 0 THEN 0 ELSE history[k]
TurnsAfter(k) == {history[i] : i \in k + 1 .. Len(history)}
IsPending(r) == row[r].status \in Pending
Recovering == phase = "recovering"

\* Whether the newest row blocks turns and further reverts: pending for less than ten minutes.
Blocked == newest # None /\ IsPending(newest) /\ ~row[newest].old

\* Variant with a fault: only a turn in progress keeps a revert out.
BusyInTurn == running # None

\* Whether the policy keeps a revert out: a turn runs, or an accepted start still counts.
Busy == running # None \/ start = "counted"

-----------------------------------------------------------------------------
(* Around the saga: requests, turns, persons, time.                        *)

\* The decider admits a revert of an idle thread and journals it as requested.
Request(r, scope, k) ==
  /\ phase = "serving"
  /\ row[r].status = "none" /\ \A q \in Reverts : q < r => row[q].status # "none"
  /\ ~Busy /\ ~Blocked
  /\ row' = [row EXCEPT ![r].status = "requested", ![r].scope = scope, ![r].target = k]
  /\ newest' = r
  /\ queue' = Append(queue, r)
  /\ UNCHANGED <<conversation, checkout, says, phase, saga, ghosts, crashes, faults>>

\* The thread changes after its newest row was written; of no other row is that ever asked.
Touched == IF newest = None THEN row ELSE [row EXCEPT ![newest].moved = IsPending(newest)]

\* The decider accepts a turn start unless a revert is pending; the reactor has yet to begin it.
AcceptStart ==
  /\ phase = "serving"
  /\ start = "none" /\ turns < MaxTurns
  /\ ~Blocked
  /\ start' = "counted"
  /\ row' = Touched
  /\ UNCHANGED <<history, agent, running, turns, checkout, says, newest, phase, queue, saga, ghosts,
                 crashes, faults>>

\* The policy stops counting the start: the session or the latest turn is in error, two minutes
\* passed, or a client's clock put the message before the latest turn's request.
LapseStart ==
  /\ start = "counted"
  /\ start' = "lapsed"
  /\ UNCHANGED <<history, agent, running, turns, checkout, journal, phase, queue, saga, ghosts,
                 crashes, faults>>

\* The reactor rejects the start, a Stop cancels it, or its session does not start.
DropStart ==
  /\ start # "none"
  /\ start' = "none"
  /\ UNCHANGED <<history, agent, running, turns, checkout, journal, phase, queue, saga, ghosts,
                 crashes, faults>>

\* The reactor begins the turn.  It looks for another turn, never for a revert.
BeginTurn ==
  /\ start # "none" /\ running = None
  /\ start' = "none" /\ turns' = turns + 1 /\ running' = turns + 1
  /\ overlooked' = (start = "lapsed")
  /\ row' = Touched
  /\ UNCHANGED <<history, agent, checkout, says, newest, phase, queue, saga, did, first, excused,
                 unrecorded, overdue, crashes, faults>>

\* The lane makes sure that the newest checkpoint has a ref.  The reactor waits for it a while.
EnsureBaseline ==
  /\ pc = "idle" /\ (start # "none" \/ running # None)
  /\ LET last == TurnAt(Len(history))
     IN refs[last] = None /\ refs' = [refs EXCEPT ![last] = files]
  /\ UNCHANGED <<conversation, files, edits, rescue, journal, phase, queue, saga, ghosts, crashes,
                 faults>>

\* The turn ends and the lane captures its checkpoint.
EndTurn ==
  /\ running # None /\ pc = "idle"
  /\ history' = Append(history, running) /\ agent' = agent \cup {running}
  /\ files' = running /\ refs' = [refs EXCEPT ![running] = running]
  /\ row' = Touched
  /\ running' = None /\ overlooked' = FALSE
  /\ UNCHANGED <<start, turns, edits, rescue, says, newest, phase, queue, saga, did, first, excused,
                 unrecorded, overdue, crashes, faults>>

\* A person edits the checkout, or an agent does whose turn runs beside the saga.
Edit ==
  /\ edits < MaxEdits
  /\ edits' = edits + 1 /\ files' = MaxTurns + edits + 1
  /\ UNCHANGED <<conversation, refs, rescue, journal, phase, queue, saga, ghosts, crashes, faults>>

\* Ten minutes pass since the newest row was written; of no other row is that ever asked.
Age ==
  /\ Blocked
  /\ row' = [row EXCEPT ![newest].old = TRUE]
  /\ overdue' = (overdue \/ pc # "idle" \/ queue # <<>>)
  /\ UNCHANGED <<conversation, checkout, says, newest, phase, queue, saga, did, first, excused,
                 unrecorded, overlooked, crashes, faults>>

-----------------------------------------------------------------------------
(* The journal.                                                            *)

\* One phase of the current revert, with the number of turns it started from.
Record(status, n) ==
  /\ row' = [row EXCEPT ![cur] = [@ EXCEPT !.status = status, !.from = n,
                                           !.old = FALSE, !.moved = FALSE]]
  /\ newest' = cur

Rest ==
  /\ pc' = "idle" /\ cur' = None
  /\ dropped' = {} /\ saving' = "revert" /\ result' = NoResult /\ todo' = {}
  /\ phase' = "serving"

\* The revert ends, and the lane or recovery is done with it.  The update is best effort.
End(status, saying) ==
  /\ Rest
  /\ \/ /\ NoFault
        /\ Record(status, row[cur].from)
        /\ says' = [says EXCEPT ![cur] = saying]
        /\ UNCHANGED unrecorded
     \/ /\ Fault
        /\ unrecorded' = unrecorded \cup {cur}
        /\ UNCHANGED journal
  /\ UNCHANGED <<history, files, refs, rescue, first, excused>>

GoTo(place) == pc' = place /\ UNCHANGED <<cur, phase, unrecorded>>

Plan == UNCHANGED <<dropped, saving, result, todo>>
World == UNCHANGED <<history, agent, files, refs, rescue, did>>
Outside == UNCHANGED <<start, running, turns, edits, queue, overdue, overlooked, crashes>>

-----------------------------------------------------------------------------
(* The live revert.                                                        *)

Take ==
  /\ phase = "serving" /\ pc = "idle" /\ queue # <<>>
  /\ cur' = Head(queue) /\ queue' = Tail(queue) /\ pc' = "check"
  /\ UNCHANGED <<conversation, checkout, journal, phase, dropped, saving, result, todo, ghosts,
                 crashes, faults>>

\* The thread is busy, the target or its files are missing, a handoff or another thread's work
\* is in the way, or a read fails.
Refuse ==
  /\ pc = "check" /\ GoTo("fail")
  /\ Plan /\ World /\ Outside /\ UNCHANGED <<journal, first, excused, faults>>

\* Variant with a fault: the agent or the files are changed before the journal says so.
AdmitUnjournaled ==
  /\ pc = "check"
  /\ ~Busy /\ row[cur].target <= Len(history)
  /\ row[cur].scope # "conversation" => refs[TurnAt(row[cur].target)] # None
  /\ dropped' = IF row[cur].scope = "files" THEN {} ELSE TurnsAfter(row[cur].target)
  /\ GoTo(IF row[cur].scope = "files" THEN "restore"
          ELSE IF dropped' = {} THEN "announce" ELSE "rewind")
  /\ World /\ Outside /\ UNCHANGED <<journal, saving, result, todo, first, excused, faults>>

Admit ==
  /\ pc = "check"
  /\ ~Busy /\ row[cur].target <= Len(history)
  /\ row[cur].scope # "conversation" => refs[TurnAt(row[cur].target)] # None
  /\ dropped' = IF row[cur].scope = "files" THEN {} ELSE TurnsAfter(row[cur].target)
  /\ GoTo(IF row[cur].scope # "files" /\ dropped' = {} THEN "announce" ELSE "journal")
  /\ World /\ Outside /\ UNCHANGED <<journal, saving, result, todo, first, excused, faults>>

Fail ==
  /\ pc = "fail"
  /\ End("failed", NothingChanged)
  /\ Outside /\ UNCHANGED <<agent, did>>

\* Nothing is changed before the journal says what is about to be.
JournalFirst ==
  /\ pc = "journal"
  /\ \/ /\ NoFault
        /\ Record(IF row[cur].scope = "files" THEN "restoring-files" ELSE "rolling-back",
                  Len(history))
        /\ UNCHANGED says
        /\ GoTo(IF row[cur].scope = "files" THEN "restore" ELSE "rewind")
     \/ Fault /\ GoTo("fail") /\ UNCHANGED journal
  /\ Plan /\ World /\ Outside /\ UNCHANGED <<first, excused>>

\* The agent's conversation loses some turns.
Forget(lost) ==
  /\ agent' = agent \ lost
  /\ did' = IF lost = {} THEN did ELSE [did EXCEPT ![cur] = @ \cup {"rewound"}]

Rewind ==
  /\ pc = "rewind" /\ GoTo("announce")
  /\ Forget(dropped)
  /\ Plan /\ Outside
  /\ UNCHANGED <<history, files, refs, rescue, journal, first, excused, faults>>

\* An agent that is told only how many turns to forget counts a turn in progress as well, and
\* still knows the oldest of those it should forget.
RewindMiscounts ==
  /\ pc = "rewind" /\ running # None /\ GoTo("announce")
  /\ agent' = agent \ TurnsAfter(row[cur].target + 1)
  /\ did' = [did EXCEPT ![cur] = @ \cup {"rewound", "miscounted"}]
  /\ excused' = excused \cup {cur}
  /\ Plan /\ Outside
  /\ UNCHANGED <<history, files, refs, rescue, journal, first, faults>>

\* The provider cannot rewind or the call fails, perhaps after the agent has forgotten turns.
RewindFails ==
  /\ pc = "rewind" /\ GoTo("fail")
  /\ \E lost \in SUBSET dropped :
       Forget(lost) /\ excused' = IF lost = {} THEN excused ELSE excused \cup {cur}
  /\ Plan /\ Outside
  /\ UNCHANGED <<history, files, refs, rescue, journal, first, faults>>

RewindInDoubt == Saying("maybe", "kept", "kept", {})

\* Nobody waits for the agent's answer any longer; it may have forgotten turns.
RewindTimesOut ==
  /\ pc = "rewind"
  /\ \E lost \in SUBSET dropped : Forget(lost)
  /\ End("interrupted", RewindInDoubt)
  /\ Outside

\* Variant with a fault: the files are restored whatever was asked for.
AfterRewindRestore == "restore"

AfterRewind == IF row[cur].scope = "conversation" THEN "prune" ELSE "restore"

\* Best effort: recovery of a revert whose update is lost goes by the row before.
Announce ==
  /\ pc = "announce" /\ GoTo(AfterRewind)
  /\ \/ NoFault /\ Record("restoring-files", Len(history)) /\ UNCHANGED <<says, excused>>
     \/ Fault /\ excused' = excused \cup {cur} /\ UNCHANGED journal
  /\ Plan /\ World /\ Outside /\ UNCHANGED first

-----------------------------------------------------------------------------
(* The files: restoreCheckpointFiles, live and recovering.                 *)

TargetTree == refs[TurnAt(row[cur].target)]
Resumed == Recovering /\ rescue[cur]["revert"] # None
Untouched(resumed) ==
  IF resumed THEN [files |-> "maybe", named |-> {"revert"}] ELSE [files |-> "kept", named |-> {}]
Saved == IF saving = "recovery" THEN Snapshots ELSE {"revert"}

AfterFiles(f) ==
  IF row[cur].scope = "files" \/ (dropped = {} /\ f # "done") THEN "report" ELSE "prune"

\* The target's files are gone, another thread would lose work, or the save fails.
LeaveAsFound ==
  /\ pc = "restore"
  /\ result' = Untouched(Resumed) /\ GoTo(AfterFiles(result'.files))
  /\ World /\ Outside /\ UNCHANGED <<journal, dropped, saving, todo, first, excused, faults>>

\* The probe for an earlier attempt's snapshot fails: taken for a restore that never began.
ProbeFails ==
  /\ pc = "restore" /\ Recovering /\ Fault
  /\ result' = Untouched(FALSE) /\ GoTo(AfterFiles("kept"))
  /\ excused' = excused \cup {cur}
  /\ World /\ Outside /\ UNCHANGED <<journal, dropped, saving, todo, first>>

\* Variant with a fault: a second attempt saves the checkout over the first one's snapshot.
SaveOver ==
  /\ pc = "restore" /\ TargetTree # None
  /\ saving' = "revert"
  /\ rescue' = [rescue EXCEPT ![cur]["revert"] = files]
  /\ first' = IF Resumed \/ "wrote" \in did[cur] THEN first ELSE [first EXCEPT ![cur] = files]
  /\ IF files = TargetTree
       THEN /\ result' = [files |-> "done", named |-> {}]
            /\ did' = [did EXCEPT ![cur] = @ \cup {"restored"}]
            /\ todo' = {"revert"}
            /\ GoTo("drop")
       ELSE GoTo("write") /\ UNCHANGED <<result, did, todo>>
  /\ Outside /\ UNCHANGED <<history, agent, files, refs, journal, dropped, excused, faults>>

\* The checkout is saved; a checkout that already holds the target's files is left alone.
Save ==
  /\ pc = "restore" /\ TargetTree # None
  /\ saving' = IF Resumed THEN "recovery" ELSE "revert"
  /\ rescue' = [rescue EXCEPT ![cur][saving'] = files]
  /\ first' = IF Resumed \/ "wrote" \in did[cur] THEN first ELSE [first EXCEPT ![cur] = files]
  /\ IF files = TargetTree
       THEN /\ result' = [files |-> "done", named |-> {}]
            /\ did' = [did EXCEPT ![cur] = @ \cup {"restored"}]
            /\ todo' = IF Resumed THEN Snapshots ELSE {"revert"}
            /\ GoTo("drop")
       ELSE GoTo("write") /\ UNCHANGED <<result, did, todo>>
  /\ Outside /\ UNCHANGED <<history, agent, files, refs, journal, dropped, excused, faults>>

WriteBegins ==
  /\ pc = "write" /\ GoTo("writing")
  /\ files' = Torn
  /\ did' = [did EXCEPT ![cur] = @ \cup {"wrote"}]
  /\ Plan /\ Outside
  /\ UNCHANGED <<history, agent, refs, rescue, journal, first, excused, faults>>

WriteEnds ==
  /\ pc = "writing" /\ GoTo("drop")
  /\ files' = TargetTree
  /\ did' = [did EXCEPT ![cur] = @ \cup {"restored"}]
  /\ result' = [files |-> "done", named |-> {}] /\ todo' = Saved
  /\ Outside
  /\ UNCHANGED <<history, agent, refs, rescue, journal, dropped, saving, first, excused, faults>>

\* The target no longer resolves: no file has changed.
WriteUnresolved ==
  /\ pc = "write" /\ Fault /\ GoTo("drop")
  /\ result' = Untouched(saving = "recovery") /\ todo' = {saving}
  /\ World /\ Outside /\ UNCHANGED <<journal, dropped, saving, first, excused>>

WriteFails ==
  /\ pc \in {"write", "writing"} /\ Fault /\ GoTo("putback")
  /\ Plan /\ World /\ Outside /\ UNCHANGED <<journal, first, excused>>

PutBack ==
  /\ pc = "putback" /\ GoTo("drop")
  /\ files' = rescue[cur][saving]
  /\ did' = IF saving = "revert" THEN [did EXCEPT ![cur] = @ \ {"wrote"}] ELSE did
  /\ result' = Untouched(saving = "recovery") /\ todo' = {saving}
  /\ Outside
  /\ UNCHANGED <<history, agent, refs, rescue, journal, dropped, saving, first, excused, faults>>

PutBackFails ==
  /\ pc = "putback" /\ Fault
  /\ result' = [files |-> "maybe", named |-> Saved] /\ GoTo(AfterFiles("maybe"))
  /\ World /\ Outside /\ UNCHANGED <<journal, dropped, saving, todo, first, excused>>

\* One snapshot is deleted, the oldest first; a failed delete is logged.
Discard(s) ==
  /\ pc = "drop" /\ s \in todo /\ (s = "recovery" => "revert" \notin todo)
  /\ todo' = todo \ {s}
  /\ \/ NoFault /\ rescue' = [rescue EXCEPT ![cur][s] = None]
     \/ Fault /\ UNCHANGED rescue
  /\ GoTo(IF todo' = {} THEN AfterFiles(result.files) ELSE "drop")
  /\ Outside /\ UNCHANGED <<history, agent, files, refs, did, journal, dropped, saving, result,
                            first, excused>>

-----------------------------------------------------------------------------
(* The end: finishRevert and finishFilesRevert.                            *)

Prune ==
  /\ pc = "prune" /\ GoTo("project")
  /\ \/ NoFault /\ refs' = [t \in DOMAIN refs |-> IF t \in dropped THEN None ELSE refs[t]]
     \/ Fault /\ UNCHANGED refs
  /\ Plan /\ Outside
  /\ UNCHANGED <<history, agent, files, rescue, did, journal, first, excused>>

Project ==
  /\ pc = "project" /\ NoFault /\ GoTo("report")
  /\ history' = SubSeq(history, 1, row[cur].target)
  /\ did' = IF history' = history THEN did ELSE [did EXCEPT ![cur] = @ \cup {"reverted"}]
  /\ Plan /\ Outside /\ UNCHANGED <<agent, files, refs, rescue, journal, first, excused>>

\* The row stays pending: a restart or ten minutes end it.
ProjectFails ==
  /\ pc = "project" /\ Fault
  /\ Rest /\ unrecorded' = unrecorded \cup {cur}
  /\ World /\ Outside /\ UNCHANGED <<journal, first, excused>>

Report ==
  /\ pc = "report"
  /\ CASE row[cur].scope = "conversation" ->
            End("completed", Saying("forgot", "done", "kept", {}))
       [] row[cur].scope = "all" /\ result.files = "done" ->
            End("completed", Saying("forgot", "done", "done", {}))
       [] row[cur].scope = "all" /\ result.files # "done" /\ dropped # {} ->
            End("files-not-restored", Saying("forgot", "done", result.files, result.named))
       [] row[cur].scope = "files" /\ result.files = "done" ->
            End("completed", Saying("kept", "kept", "done", {}))
       [] OTHER ->
            End("failed", Saying("kept", "kept", result.files, result.named))
  /\ Outside /\ UNCHANGED <<agent, did>>

-----------------------------------------------------------------------------
(* Process loss and startup recovery, which runs before commands are       *)
(* accepted and ends the reverts whose newest row is pending.              *)

Crash ==
  /\ phase # "down" /\ crashes < MaxCrashes
  /\ crashes' = crashes + 1
  /\ phase' = "down" /\ queue' = <<>>
  /\ pc' = "idle" /\ cur' = None
  /\ dropped' = {} /\ saving' = "revert" /\ result' = NoResult /\ todo' = {}
  /\ start' = "none" /\ running' = None /\ overlooked' = FALSE
  /\ files' \in {files} \cup ({running} \ {None})
  /\ excused' = excused \cup {r \in Reverts : IsPending(r) /\ "restored" \in did[r]}
  /\ UNCHANGED <<history, agent, turns, edits, refs, rescue, journal, did, first, unrecorded,
                 overdue, faults>>

\* The pending reverts cannot be listed: they stay pending.
Unlisted ==
  /\ Fault /\ phase' = "serving"
  /\ unrecorded' = unrecorded \cup {newest}
  /\ UNCHANGED <<pc, cur>>

\* Variant with a fault: startup leaves the reverts of an earlier process as they are.
BootUnrecovered ==
  /\ phase = "down" /\ phase' = "serving"
  /\ Plan
  /\ UNCHANGED <<pc, cur, conversation, checkout, journal, queue, ghosts, crashes, faults>>

Boot ==
  /\ phase = "down"
  /\ IF newest # None /\ IsPending(newest)
       THEN \/ /\ phase' = "recovering" /\ pc' = "recover" /\ cur' = newest
               /\ UNCHANGED <<unrecorded, faults>>
            \/ Unlisted
       ELSE phase' = "serving" /\ UNCHANGED <<pc, cur, unrecorded, faults>>
  /\ Plan
  /\ UNCHANGED <<conversation, checkout, journal, queue, did, first, excused, overdue, overlooked,
                 crashes>>

At(status) == pc = "recover" /\ row[cur].status = status
KeepsFiles == row[cur].scope = "conversation"
Present == {s \in Snapshots : rescue[cur][s] # None}
LeftAt == row[cur].from

\* Variant with a fault: turns after the revert was admitted are not looked for.
ThreadMovedUnasked == LeftAt = None

ThreadMoved == LeftAt # Len(history) \/ row[cur].moved

RecoverRequested ==
  /\ At("requested")
  /\ End("failed", NothingChanged)
  /\ Outside /\ UNCHANGED <<agent, did>>

RecoverRollingBack ==
  /\ At("rolling-back")
  /\ End("interrupted", RewindInDoubt)
  /\ Outside /\ UNCHANGED <<agent, did>>

\* A files-only revert is finished only while the thread and the checkout are as it left them.
RecoverFilesMoved ==
  /\ At("restoring-files") /\ row[cur].scope = "files" /\ (ThreadMoved \/ row[cur].old)
  /\ End("interrupted", Saying("kept", "kept", "maybe", Present))
  /\ Outside /\ UNCHANGED <<agent, did>>

RecoverFilesAgain ==
  /\ At("restoring-files") /\ row[cur].scope = "files" /\ ~ThreadMoved /\ ~row[cur].old
  /\ GoTo("restore")
  /\ Plan /\ World /\ Outside /\ UNCHANGED <<journal, first, excused, faults>>

\* The history was shortened already; only the last update is missing.
AlreadyReverted == LeftAt # None /\ LeftAt > row[cur].target /\ Len(history) = row[cur].target

RecoverReverted ==
  /\ At("restoring-files") /\ row[cur].scope # "files" /\ AlreadyReverted
  /\ IF KeepsFiles THEN End("completed", Saying("forgot", "done", "kept", {}))
                   ELSE End("interrupted", Saying("unsaid", "done", "maybe", Present))
  /\ Outside /\ UNCHANGED <<agent, did>>

RecoverMoved ==
  /\ At("restoring-files") /\ row[cur].scope # "files" /\ ~AlreadyReverted /\ ThreadMoved
  /\ End("interrupted", IF KeepsFiles THEN RewindInDoubt ELSE Saying("maybe", "kept", "maybe", Present))
  /\ Outside /\ UNCHANGED <<agent, did>>

\* The thread is where the revert left it.  A checkout ten minutes old is not touched again.
RecoverUnmoved ==
  /\ At("restoring-files") /\ row[cur].scope # "files" /\ ~AlreadyReverted /\ ~ThreadMoved
  /\ dropped' = TurnsAfter(row[cur].target)
  /\ IF row[cur].old /\ ~KeepsFiles
       THEN /\ result' = [files |-> "maybe", named |-> Present]
            /\ GoTo(IF dropped' = {} THEN "report" ELSE "prune")
       ELSE GoTo(AfterRewind) /\ UNCHANGED result
  /\ World /\ Outside /\ UNCHANGED <<journal, saving, todo, first, excused, faults>>

\* The thread cannot be read: the revert ends, and is not tried again at the next start.
RecoverUnread ==
  /\ At("restoring-files") /\ Fault /\ GoTo("unread")
  /\ excused' = excused \cup {cur}
  /\ Plan /\ World /\ Outside /\ UNCHANGED <<journal, first>>

GiveUp ==
  /\ pc = "unread"
  /\ End("interrupted",
         CASE row[cur].scope = "files"        -> Saying("kept", "kept", "maybe", {})
           [] row[cur].scope = "conversation" -> Saying("maybe", "unsaid", "unsaid", {})
           [] row[cur].scope = "all"          -> Saying("maybe", "unsaid", "maybe", {}))
  /\ Outside /\ UNCHANGED <<agent, did>>

-----------------------------------------------------------------------------
StartStep == AcceptStart \/ LapseStart \/ DropStart \/ BeginTurn

LiveStep ==
  \/ Refuse \/ Admit \/ Fail \/ JournalFirst
  \/ Rewind \/ RewindMiscounts \/ RewindFails \/ RewindTimesOut \/ Announce

FilesStep ==
  \/ LeaveAsFound \/ ProbeFails \/ Save
  \/ WriteBegins \/ WriteEnds \/ WriteUnresolved \/ WriteFails
  \/ PutBack \/ PutBackFails \/ \E s \in Snapshots : Discard(s)

FinishStep == Prune \/ Project \/ ProjectFails \/ Report

RecoveryStep ==
  \/ RecoverRequested \/ RecoverRollingBack \/ RecoverFilesMoved \/ RecoverFilesAgain
  \/ RecoverReverted \/ RecoverMoved \/ RecoverUnmoved \/ RecoverUnread \/ GiveUp

SagaStep == LiveStep \/ FilesStep \/ FinishStep \/ RecoveryStep

Next ==
  \/ \E r \in Reverts, scope \in Scopes, k \in 0 .. Len(history) : Request(r, scope, k)
  \/ StartStep \/ EnsureBaseline \/ EndTurn \/ Edit \/ Age
  \/ Take \/ SagaStep
  \/ Crash \/ Boot

\* The lane and recovery are fibers whose steps are calls that return or run into a deadline; a
\* turn that was begun before the revert ends; a stopped server is started again.
Spec ==
  /\ Init /\ [][Next]_vars
  /\ WF_vars(Take \/ SagaStep \/ Boot)

-----------------------------------------------------------------------------
(* Correctness.                                                            *)

\* What the row of an ended revert says is true: a turn, a conversation or a file it calls
\* unchanged was not changed by that revert, and what it calls done was done.  Excused by name:
\* reverts whose rewind failed after the agent had forgotten turns ("Nothing was changed" is then
\* said and false) or miscounted beside a turn in progress; whose end or "restoring-files" update
\* was lost; whose snapshots could not be probed or thread read in recovery; and those a process
\* loss met with their files already restored.
EndsAreTrue ==
  \A r \in Reverts \ (excused \cup unrecorded) :
    /\ says[r].agent = "kept" => "rewound" \notin did[r]
    /\ says[r].agent = "forgot" => row[r].from = row[r].target \/ "rewound" \in did[r]
    /\ says[r].history = "kept" => "reverted" \notin did[r]
    /\ says[r].history = "done" => row[r].from = row[r].target \/ "reverted" \in did[r]
    /\ says[r].files = "kept" => "wrote" \notin did[r]
    /\ says[r].files = "done" => "restored" \in did[r]

\* From the first file git rewrites until the target's files are in the checkout, the revert's
\* own snapshot holds the files from before, also across a restart and a second attempt; and a
\* row that says files may be partly restored names that snapshot.
FilesFromBeforeAreKept ==
  \A r \in Reverts :
    "wrote" \in did[r] /\ "restored" \notin did[r] =>
      /\ rescue[r]["revert"] = first[r]
      /\ says[r].files = "maybe" /\ r \notin excused => "revert" \in says[r].named

\* The history loses only turns the agent has forgotten: none that it still knows, and so none
\* that came after the revert was admitted, whatever restart came between.  Excused by name: an
\* agent that miscounted the turns beside one in progress.
AgentForgotFirst ==
  [][(\A r \in Reverts : "miscounted" \notin did[r]) =>
       \A t \in Turns : (\E i \in DOMAIN history : history[i] = t) /\ t \in agent
         => \E i \in DOMAIN history' : history'[i] = t]_vars

\* No turn runs while the saga rewinds, restores or shortens: not one in progress when the revert
\* was admitted, one whose start waited then, nor one accepted later.  Excused by name: a revert
\* in the lane for ten minutes, and a turn whose start the policy had stopped counting (after an
\* error, two minutes, or a client's clock), which the reactor begins beside the saga.
NoTurnUnderRevert ==
  running # None /\ ~overlooked /\ ~overdue => pc \in {"idle", "check", "fail"}

\* A files-only revert never touches agent or history, and a conversation-only one never touches
\* files, whichever of them recovery finishes.
ScopeIsKept ==
  \A r \in Reverts :
    /\ row[r].scope = "files" => did[r] \cap {"rewound", "reverted"} = {}
    /\ row[r].scope = "conversation" => did[r] \cap {"wrote", "restored"} = {}

\* The revert a thread waits for ends, across process losses and whatever fails, unless just the
\* update that says so, the commit of the shorter history or startup's list of reverts was lost.
NewestRevertEnds ==
  LET Waiting == newest # None /\ IsPending(newest)
  IN Waiting ~> (~Waiting \/ newest \in unrecorded)
=============================================================================
