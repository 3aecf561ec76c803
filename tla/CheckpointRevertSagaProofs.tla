----------------------- MODULE CheckpointRevertSagaProofs -----------------------
(***************************************************************************)
(* Proofs about CheckpointRevertSaga, for any requests, turns and bounds.  *)
(***************************************************************************)
EXTENDS CheckpointRevertSaga, TLAPS

Fresh == {"check", "fail", "journal", "rewind"}
Writing == {"write", "writing", "putback"}
InFiles == Writing \cup {"restore", "drop"}
Rewound == InFiles \cup {"announce", "prune", "project"}

\* Who is where: the revert in hand and those in the queue are pending and distinct, and recovery
\* runs alone.
LaneInv ==
  /\ pc = "idle" <=> cur = None
  /\ phase = "down" => pc = "idle"
  /\ phase # "serving" => running = None /\ start = "none" /\ queue = <<>>
  /\ pc \in Fresh \cup {"announce"} => phase = "serving"
  /\ pc \in {"recover", "unread"} => phase = "recovering"
  /\ pc = "recover" => cur = newest
  /\ cur # None => IsPending(cur)
  /\ \A i \in DOMAIN queue : IsPending(queue[i]) /\ queue[i] # cur
  /\ \A i, j \in DOMAIN queue : queue[i] = queue[j] => i = j
  /\ \A r \in Reverts : says[r] # Unsaid => row[r].status \in Ended

\* A revert that has not reached the agent has done nothing; one that failed there is excused.
FreshInv ==
  /\ pc \in Fresh => did[cur] = {} \/ (pc = "fail" /\ cur \in excused)
  /\ \A i \in DOMAIN queue : did[queue[i]] = {}
  /\ \A r \in Reverts : row[r].status = "none" => did[r] = {} /\ ~row[r].old
  /\ pc \in InFiles => row[cur].scope # "conversation"
  /\ pc \in {"rewind", "announce", "prune", "project"} => row[cur].scope # "files"

\* While a live revert is in the lane, its young row is the thread's newest, and the only start
\* or turn there may be is one that the policy overlooked when it was admitted.
TurnInv ==
  phase = "serving" /\ ~overdue =>
    /\ cur # None => newest = cur /\ ~row[cur].old /\ queue = <<>>
    /\ queue # <<>> => Len(queue) = 1 /\ newest = queue[1] /\ ~row[newest].old
    /\ cur # None \/ queue # <<>> => start # "counted" /\ (running = None \/ overlooked)

\* The first snapshot of a revert stands until its files are restored.
SnapshotInv ==
  /\ \A r \in Reverts : "restored" \notin did[r] =>
       /\ rescue[r]["revert"] # None => rescue[r]["revert"] = first[r]
       /\ "wrote" \in did[r] => rescue[r]["revert"] # None
  /\ pc \in Writing => rescue[cur]["revert"] # None /\ rescue[cur][saving] # None
  /\ pc \in Writing => TargetTree # None
  /\ pc \in {"announce", "restore"} /\ ~Recovering => "wrote" \notin did[cur]
  /\ pc = "write" /\ saving = "revert" /\ "wrote" \in did[cur] => "restored" \in did[cur]
  /\ pc = "drop" /\ "revert" \in todo /\ "wrote" \in did[cur] => "restored" \in did[cur]

\* What is about to be said names that snapshot.
NamedInv ==
  /\ cur # None /\ result.files = "maybe" /\ "wrote" \in did[cur] /\ "restored" \notin did[cur]
       => "revert" \in result.named
  /\ pc \notin {"drop", "prune", "project", "report"} => result.files = "unsaid"
  /\ pc = "unread" => cur \in excused

\* The history fits the turns begun so far, and a start that waits fits the bound.
HistoryInv ==
  /\ Len(history) <= turns /\ (running # None => Len(history) < turns)
  /\ start # "none" => turns < MaxTurns

AgentLacks(k) == \A i \in DOMAIN history : i > k => history[i] \notin agent

\* No agent has miscounted the turns it was to forget.
Counted == \A r \in Reverts : "miscounted" \notin did[r]

\* Once a revert is past an agent that counted right, the agent lacks every turn the history is to
\* lose; a row that says so stays true until the thread moves.
AgentInv ==
  /\ \A r \in Reverts : row[r].status \in {"rolling-back", "restoring-files"}
       => row[r].from # None /\ row[r].target <= row[r].from
  /\ pc \in Rewound \cup {"journal", "rewind"} => row[cur].target <= Len(history)
  /\ pc \in {"journal", "rewind"} /\ row[cur].scope # "files"
       => dropped = TurnsAfter(row[cur].target)
  /\ Counted /\ pc \in Rewound /\ row[cur].scope # "files" => AgentLacks(row[cur].target)
  /\ Counted /\ newest # None /\ row[newest].status = "restoring-files"
       /\ row[newest].scope # "files" /\ ~row[newest].moved => AgentLacks(row[newest].target)

IndInv ==
  TypeOK /\ LaneInv /\ FreshInv /\ TurnInv /\ ScopeIsKept
    /\ SnapshotInv /\ NamedInv /\ FilesFromBeforeAreKept /\ HistoryInv /\ AgentInv

-----------------------------------------------------------------------------
(* The journal and the lane.                                               *)

\* The saga works on some revert whenever it is not idle.
LEMMA InHand ==
  ASSUME TypeOK, LaneInv PROVE pc # "idle" => cur \in Reverts
  BY DEF TypeOK, SagaTypes, LaneInv

\* Changing the flags or the status of a row leaves its other fields alone.
LEMMA RowUpdates ==
  ASSUME NEW w \in Rows
  PROVE  /\ [w EXCEPT !.moved = TRUE] \in Rows /\ [w EXCEPT !.moved = FALSE] \in Rows
         /\ [w EXCEPT !.old = TRUE] \in Rows
         /\ \A sc \in Scopes, k \in 0 .. MaxTurns :
              [w EXCEPT !.status = "requested", !.scope = sc, !.target = k] \in Rows
         /\ \A st \in Pending \cup Ended, n \in Nat \cup {None} :
              [w EXCEPT !.status = st, !.from = n, !.old = FALSE, !.moved = FALSE] \in Rows
  BY DEF Rows, Pending

\* What a write of the journal changes.
LEMMA RecordEffect ==
  ASSUME JournalTypes, cur \in Reverts, NEW st \in Pending \cup Ended, NEW n \in Nat \cup {None},
         Record(st, n)
  PROVE  /\ row' \in [Reverts -> Rows] /\ newest' = cur
         /\ \A r \in Reverts \ {cur} : row'[r] = row[r]
         /\ row'[cur].status = st /\ row'[cur].from = n
         /\ ~row'[cur].old /\ ~row'[cur].moved
         /\ row'[cur].scope = row[cur].scope /\ row'[cur].target = row[cur].target
<1> DEFINE new == [row[cur] EXCEPT !.status = st, !.from = n, !.old = FALSE, !.moved = FALSE]
<1>1. row[cur] \in Rows /\ row \in [Reverts -> Rows]
  BY DEF JournalTypes
<1>2. new \in Rows
  BY <1>1, RowUpdates
<1>3. row' = [row EXCEPT ![cur] = new] /\ newest' = cur
  BY DEF Record
<1>4. row'[cur] = new
  BY <1>1, <1>3
<1>5. /\ new.status = st /\ new.from = n /\ ~new.old /\ ~new.moved
      /\ new.scope = row[cur].scope /\ new.target = row[cur].target
  BY <1>1 DEF Rows
<1> QED
  BY <1>1, <1>2, <1>3, <1>4, <1>5

\* What the end of a revert changes: its row and what it says, or nothing but the record that
\* its update is lost.
LEMMA EndEffect ==
  ASSUME JournalTypes, cur \in Reverts, NEW st \in Ended, NEW sg \in Sayings, End(st, sg)
  PROVE  /\ JournalTypes'
         /\ \A r \in Reverts \ {cur} : row'[r] = row[r] /\ says'[r] = says[r]
         /\ row'[cur].scope = row[cur].scope /\ row'[cur].target = row[cur].target
         /\ row'[cur].from = row[cur].from
         /\ \/ /\ newest' = cur /\ row'[cur].status = st /\ says'[cur] = sg
               /\ ~row'[cur].moved /\ unrecorded' = unrecorded
            \/ /\ UNCHANGED <<row, says, newest>>
               /\ unrecorded' = unrecorded \cup {cur}
         /\ says'[cur] \in {says[cur], sg}
         /\ Rest /\ (NoFault \/ Fault)
         /\ unrecorded' \in {unrecorded, unrecorded \cup {cur}}
         /\ UNCHANGED <<history, files, refs, rescue, first, excused>>
<1>1. row[cur].from \in Nat \cup {None} /\ says \in [Reverts -> Sayings]
  BY DEF JournalTypes, Rows
<1>2. CASE Record(st, row[cur].from) /\ says' = [says EXCEPT ![cur] = sg] /\ UNCHANGED unrecorded
  BY <1>1, <1>2, RecordEffect DEF JournalTypes, End
<1>3. CASE UNCHANGED journal /\ unrecorded' = unrecorded \cup {cur}
  BY <1>1, <1>3 DEF JournalTypes, End, journal
<1> QED
  BY <1>2, <1>3 DEF End

\* What the agent forgets is all that changes with it.
LEMMA ForgetEffect ==
  ASSUME TypeOK, cur \in Reverts, NEW lost, Forget(lost)
  PROVE  /\ agent' = agent \ lost
         /\ did' \in [Reverts -> SUBSET Deeds]
         /\ \A r \in Reverts \ {cur} : did'[r] = did[r]
         /\ IF lost = {} THEN did'[cur] = did[cur] ELSE did'[cur] = did[cur] \cup {"rewound"}
  BY DEF Forget, TypeOK, GhostTypes, Deeds

RewindStep == Rewind \/ RewindMiscounts \/ RewindFails

\* Whatever the agent answers, only the agent, the deeds and the excuses of the revert in hand
\* change, and a revert that is not excused did what its next step takes it for.
LEMMA RewindEffect ==
  ASSUME TypeOK, LaneInv, RewindStep
  PROVE  /\ pc = "rewind" /\ cur \in Reverts
         /\ UNCHANGED <<history, start, running, turns, files, edits, refs, rescue, row, says, newest,
                        phase, queue, cur, dropped, saving, result, todo, first, unrecorded,
                        overdue, overlooked, crashes, faults>>
         /\ agent' \subseteq agent
         /\ did' \in [Reverts -> SUBSET Deeds]
         /\ \A r \in Reverts \ {cur} : did'[r] = did[r]
         /\ did'[cur] \in {did[cur], did[cur] \cup {"rewound"},
                          did[cur] \cup {"rewound", "miscounted"}}
         /\ excused' \in {excused, excused \cup {cur}}
         /\ \/ /\ pc' = "announce" /\ agent' = agent \ dropped
               /\ excused' = excused
               /\ did'[cur] = IF dropped = {} THEN did[cur] ELSE did[cur] \cup {"rewound"}
            \/ pc' = "announce" /\ "miscounted" \in did'[cur] /\ cur \in excused'
            \/ pc' = "fail" /\ (did'[cur] = did[cur] \/ cur \in excused')
<1>1. pc = "rewind" /\ cur \in Reverts
  BY InHand DEF RewindStep, Rewind, RewindMiscounts, RewindFails
<1>2. CASE Rewind
  BY <1>1, <1>2, ForgetEffect DEF Rewind, GoTo, Plan, Outside, journal
<1>3. CASE RewindMiscounts
  BY <1>1, <1>3 DEF RewindMiscounts, GoTo, Plan, Outside, journal, TypeOK, GhostTypes, Deeds
<1>4. CASE RewindFails
  <2>1. PICK lost \in SUBSET dropped :
          Forget(lost) /\ excused' = IF lost = {} THEN excused ELSE excused \cup {cur}
    BY <1>4 DEF RewindFails
  <2> QED
    BY <1>1, <1>4, <2>1, ForgetEffect DEF RewindFails, GoTo, Plan, Outside, journal
<1> QED
  BY <1>2, <1>3, <1>4 DEF RewindStep

\* A change of the thread marks at most the newest row.
LEMMA TouchedTypes ==
  ASSUME JournalTypes
  PROVE  /\ Touched \in [Reverts -> Rows]
         /\ \A r \in Reverts : /\ Touched[r].status = row[r].status /\ Touched[r].scope = row[r].scope
                              /\ Touched[r].target = row[r].target /\ Touched[r].from = row[r].from
                              /\ Touched[r].old = row[r].old
                              /\ Touched[r].moved = IF r = newest THEN IsPending(r) ELSE row[r].moved
<1>1. CASE newest = None
  BY <1>1, RevertAssumption DEF Touched, JournalTypes, None, RevertAssumption
<1>2. CASE newest \in Reverts
  <2> DEFINE new == [row[newest] EXCEPT !.moved = IsPending(newest)]
  <2>1. row[newest] \in Rows /\ IsPending(newest) \in BOOLEAN
    BY <1>2 DEF JournalTypes, IsPending
  <2>2. new \in Rows /\ new.moved = IsPending(newest)
    BY <2>1 DEF Rows
  <2>3. Touched = [row EXCEPT ![newest] = new]
    BY <1>2, RevertAssumption DEF Touched, None, RevertAssumption
  <2>4. /\ new.status = row[newest].status /\ new.scope = row[newest].scope
        /\ new.target = row[newest].target /\ new.from = row[newest].from
        /\ new.old = row[newest].old
    BY <2>1 DEF Rows
  <2> QED
    BY <1>2, <2>2, <2>3, <2>4 DEF JournalTypes
<1> QED
  BY <1>1, <1>2 DEF JournalTypes

\* A start that is accepted, overlooked, dropped or begun leaves all else alone, but for the mark
\* on the newest row.
LEMMA StartEffect ==
  ASSUME TypeOK, StartStep
  PROVE  /\ UNCHANGED <<history, agent, files, edits, refs, rescue, says, newest, phase, queue, pc,
                        cur, dropped, saving, result, todo, did, first, excused, unrecorded,
                        overdue, crashes, faults>>
         /\ row' \in [Reverts -> Rows]
         /\ \A r \in Reverts : /\ row'[r].status = row[r].status /\ row'[r].scope = row[r].scope
                              /\ row'[r].target = row[r].target /\ row'[r].from = row[r].from
                              /\ row'[r].old = row[r].old
                              /\ \/ row'[r].moved = row[r].moved
                                 \/ r = newest /\ row'[r].moved = IsPending(r)
<1>1. UNCHANGED <<history, agent, files, edits, refs, rescue, says, newest, phase, queue, pc, cur,
                  dropped, saving, result, todo, did, first, excused, unrecorded, overdue,
                  crashes, faults>>
  BY DEF StartStep, AcceptStart, LapseStart, DropStart, BeginTurn, checkout, journal, saga, ghosts
<1>2. row' = row \/ row' = Touched
  BY DEF StartStep, AcceptStart, LapseStart, DropStart, BeginTurn, journal
<1>3. CASE row' = row
  BY <1>1, <1>3 DEF TypeOK, JournalTypes
<1>4. CASE row' = Touched
  BY <1>1, <1>4, TouchedTypes DEF TypeOK
<1> QED
  BY <1>2, <1>3, <1>4

\* The baseline of a turn is a ref of a checkpoint, and is made only while the saga rests.
LEMMA BaselineEffect ==
  ASSUME EnsureBaseline
  PROVE  /\ pc = "idle"
         /\ UNCHANGED <<history, agent, start, running, turns, files, edits, rescue, row, says,
                        newest, phase, queue, pc, cur, dropped, saving, result, todo, did, first,
                        excused, unrecorded, overdue, overlooked, crashes, faults>>
  BY DEF EnsureBaseline, conversation, journal, saga, ghosts

EndStep ==
  \/ Fail \/ RewindTimesOut \/ Report \/ RecoverRequested \/ RecoverRollingBack
  \/ RecoverFilesMoved \/ RecoverReverted \/ RecoverMoved \/ GiveUp

\* Every action that ends a revert ends it with some status and some saying.
LEMMA EndingsEnd ==
  ASSUME TypeOK, LaneInv, EndStep
  PROVE  /\ cur \in Reverts /\ pc # "idle"
         /\ \E st \in Ended, sg \in Sayings : End(st, sg)
         /\ Outside
         /\ \/ UNCHANGED <<agent, did>>
            \/ pc = "rewind" /\ \E lost \in SUBSET dropped : Forget(lost)
<1>1. pc # "idle" /\ cur \in Reverts
  BY InHand DEF EndStep, Fail, RewindTimesOut, Report, RecoverRequested, RecoverRollingBack,
    RecoverFilesMoved, RecoverReverted, RecoverMoved, GiveUp, At
<1>2. result \in Results /\ row[cur] \in Rows /\ Present \subseteq Snapshots
  BY <1>1 DEF TypeOK, SagaTypes, JournalTypes, Present
<1>3. CASE Fail
  BY <1>1, <1>3 DEF Fail, NothingChanged, Saying, Sayings, Ended
<1>4. CASE RewindTimesOut
  BY <1>1, <1>4 DEF RewindTimesOut, RewindInDoubt, Saying, Sayings, Ended
<1>5. CASE Report
  BY <1>1, <1>2, <1>5 DEF Report, Saying, Sayings, Ended, Results
<1>6. CASE RecoverRequested
  BY <1>1, <1>6 DEF RecoverRequested, NothingChanged, Saying, Sayings, Ended
<1>7. CASE RecoverRollingBack
  BY <1>1, <1>7 DEF RecoverRollingBack, RewindInDoubt, Saying, Sayings, Ended
<1>8. CASE RecoverFilesMoved
  BY <1>1, <1>2, <1>8 DEF RecoverFilesMoved, Saying, Sayings, Ended
<1>9. CASE RecoverReverted
  BY <1>1, <1>2, <1>9 DEF RecoverReverted, Saying, Sayings, Ended
<1>10. CASE RecoverMoved
  BY <1>1, <1>2, <1>10 DEF RecoverMoved, RewindInDoubt, Saying, Sayings, Ended
<1>11. CASE GiveUp
  BY <1>1, <1>2, <1>11 DEF GiveUp, Saying, Sayings, Ended, Rows, Scopes
<1> QED
  BY <1>3, <1>4, <1>5, <1>6, <1>7, <1>8, <1>9, <1>10, <1>11 DEF EndStep

\* So every ending changes the same things.
LEMMA EndStepEffect ==
  ASSUME TypeOK, LaneInv, EndStep
  PROVE  /\ cur \in Reverts /\ pc # "idle"
         /\ JournalTypes'
         /\ \A r \in Reverts \ {cur} : row'[r] = row[r] /\ says'[r] = says[r]
         /\ row'[cur].scope = row[cur].scope /\ row'[cur].target = row[cur].target
         /\ row'[cur].from = row[cur].from
         /\ \/ newest' = cur /\ row'[cur].status \in Ended
            \/ UNCHANGED <<row, says, newest>>
         /\ Rest /\ Outside /\ (NoFault \/ Fault)
         /\ unrecorded' \in {unrecorded, unrecorded \cup {cur}}
         /\ UNCHANGED <<history, files, refs, rescue, first, excused>>
         /\ agent' \subseteq agent
         /\ did' \in [Reverts -> SUBSET Deeds]
         /\ \A r \in Reverts \ {cur} : did'[r] = did[r]
         /\ did'[cur] = did[cur] \/ (pc = "rewind" /\ did'[cur] = did[cur] \cup {"rewound"})
<1>1. PICK st \in Ended, sg \in Sayings : End(st, sg)
  BY EndingsEnd
<1>2. /\ agent' \subseteq agent
      /\ did' \in [Reverts -> SUBSET Deeds]
      /\ \A r \in Reverts \ {cur} : did'[r] = did[r]
      /\ did'[cur] = did[cur] \/ (pc = "rewind" /\ did'[cur] = did[cur] \cup {"rewound"})
  <2>1. CASE UNCHANGED <<agent, did>>
    BY <2>1 DEF TypeOK, GhostTypes
  <2>2. CASE pc = "rewind" /\ \E lost \in SUBSET dropped : Forget(lost)
    BY <2>2, EndingsEnd, ForgetEffect
  <2> QED
    BY <2>1, <2>2, EndingsEnd
<1> QED
  BY <1>1, <1>2, EndingsEnd, EndEffect DEF TypeOK

-----------------------------------------------------------------------------
(* Types.                                                                  *)

\* A place in the history is a place in any thread of the bounds.
LEMMA HistoryFits ==
  ASSUME TypeOK, HistoryInv PROVE Len(history) \in 0 .. MaxTurns
  BY RevertAssumption DEF TypeOK, ThreadTypes, HistoryInv, RevertAssumption

\* The turns after a place are turns.
LEMMA TurnsAfterTypes ==
  ASSUME TypeOK, cur \in Reverts PROVE TurnsAfter(row[cur].target) \subseteq Turns
<1>1. history \in Seq(Turns) /\ row[cur].target \in Nat
  BY DEF TypeOK, ThreadTypes, JournalTypes, Rows
<1>2. \A i \in row[cur].target + 1 .. Len(history) : history[i] \in Turns
  BY <1>1
<1> QED
  BY <1>2 DEF TurnsAfter

\* The faults stay within their bound.
LEMMA FaultTypes ==
  ASSUME TypeOK, NoFault \/ Fault PROVE faults' \in 0 .. MaxFaults
  BY RevertAssumption DEF NoFault, Fault, TypeOK, GhostTypes, RevertAssumption

\* The history stays a sequence of turns.
LEMMA ThreadTypesStep ==
  ASSUME TypeOK, LaneInv, HistoryInv, AgentInv, Next
  PROVE  ThreadTypes'
<1>1. CASE \E r \in Reverts, scope \in Scopes, k \in 0 .. Len(history) : Request(r, scope, k)
  BY <1>1, RevertAssumption, InHand
     DEF Request, conversation, checkout, saga, ghosts, Blocked, RevertAssumption, TypeOK,
       ThreadTypes, SagaTypes
<1>2. CASE StartStep
  <2>1. history' = history /\ agent' = agent
    BY <1>2, StartEffect
  <2>2. /\ start' \in {"none", "counted", "lapsed"}
        /\ \/ running' = running /\ turns' = turns
           \/ start # "none" /\ running' = turns + 1 /\ turns' = turns + 1
    BY <1>2 DEF StartStep, AcceptStart, LapseStart, DropStart, BeginTurn
  <2>3. start # "none" => turns < MaxTurns
    BY DEF HistoryInv
  <2> QED
    BY <2>1, <2>2, <2>3, RevertAssumption DEF TypeOK, ThreadTypes, Turns, RevertAssumption
<1>3. CASE EnsureBaseline
  BY <1>3, BaselineEffect, RevertAssumption
     DEF RevertAssumption, TypeOK, ThreadTypes, SagaTypes
<1>4. CASE EndTurn
  BY <1>4, RevertAssumption, InHand
     DEF EndTurn, saga, ghosts, Touched, RevertAssumption, TypeOK, ThreadTypes, SagaTypes
<1>5. CASE Edit
  BY <1>5, RevertAssumption, InHand
     DEF Edit, conversation, journal, saga, ghosts, RevertAssumption, TypeOK, ThreadTypes,
       SagaTypes
<1>6. CASE Age
  BY <1>6, RevertAssumption, InHand
     DEF Age, conversation, checkout, saga, Blocked, RevertAssumption, TypeOK, ThreadTypes,
       SagaTypes
<1>7. CASE Take
  BY <1>7, RevertAssumption, InHand
     DEF Take, conversation, checkout, journal, ghosts, RevertAssumption, TypeOK, ThreadTypes,
       SagaTypes
<1>8. CASE Refuse
  BY <1>8, RevertAssumption, InHand
     DEF Refuse, GoTo, Plan, World, Outside, journal, RevertAssumption, TypeOK, ThreadTypes,
       SagaTypes
<1>9. CASE Admit
  BY <1>9, RevertAssumption, InHand
     DEF Admit, GoTo, World, Outside, journal, TurnsAfter, TurnAt, RevertAssumption, TypeOK,
       ThreadTypes, SagaTypes
<1>10. CASE JournalFirst
  BY <1>10, RevertAssumption, InHand
     DEF JournalFirst, GoTo, Plan, World, Outside, journal, Record, Fault, NoFault,
       RevertAssumption, TypeOK, ThreadTypes, SagaTypes
<1>11. CASE RewindStep
  BY <1>11, RewindEffect, RevertAssumption
     DEF RevertAssumption, TypeOK, ThreadTypes, SagaTypes
<1>12. CASE Announce
  BY <1>12, RevertAssumption, InHand
     DEF Announce, GoTo, Plan, World, Outside, journal, Record, Fault, NoFault, AfterRewind,
       RevertAssumption, TypeOK, ThreadTypes, SagaTypes
<1>13. CASE LeaveAsFound
  BY <1>13, RevertAssumption, InHand
     DEF LeaveAsFound, GoTo, World, Outside, journal, Untouched, AfterFiles, RevertAssumption,
       TypeOK, ThreadTypes, SagaTypes
<1>14. CASE ProbeFails
  BY <1>14, RevertAssumption, InHand
     DEF ProbeFails, GoTo, World, Outside, journal, Untouched, AfterFiles, Fault,
       RevertAssumption, TypeOK, ThreadTypes, SagaTypes
<1>15. CASE Save
  BY <1>15, RevertAssumption, InHand
     DEF Save, GoTo, Outside, journal, RevertAssumption, TypeOK, ThreadTypes, SagaTypes
<1>16. CASE WriteBegins
  BY <1>16, RevertAssumption, InHand
     DEF WriteBegins, GoTo, Plan, Outside, journal, RevertAssumption, TypeOK, ThreadTypes,
       SagaTypes
<1>17. CASE WriteEnds
  BY <1>17, RevertAssumption, InHand
     DEF WriteEnds, GoTo, Outside, journal, Saved, RevertAssumption, TypeOK, ThreadTypes,
       SagaTypes
<1>18. CASE WriteUnresolved
  BY <1>18, RevertAssumption, InHand
     DEF WriteUnresolved, GoTo, World, Outside, journal, Untouched, Fault, RevertAssumption,
       TypeOK, ThreadTypes, SagaTypes
<1>19. CASE WriteFails
  BY <1>19, RevertAssumption, InHand
     DEF WriteFails, GoTo, Plan, World, Outside, journal, Fault, RevertAssumption, TypeOK,
       ThreadTypes, SagaTypes
<1>20. CASE PutBack
  BY <1>20, RevertAssumption, InHand
     DEF PutBack, GoTo, Outside, journal, Untouched, RevertAssumption, TypeOK, ThreadTypes,
       SagaTypes
<1>21. CASE PutBackFails
  BY <1>21, RevertAssumption, InHand
     DEF PutBackFails, GoTo, World, Outside, journal, Saved, AfterFiles, Fault,
       RevertAssumption, TypeOK, ThreadTypes, SagaTypes
<1>22. CASE \E s \in Snapshots : Discard(s)
  BY <1>22, RevertAssumption, InHand
     DEF Discard, GoTo, Outside, journal, AfterFiles, Fault, NoFault, RevertAssumption, TypeOK,
       ThreadTypes, SagaTypes
<1>23. CASE Prune
  BY <1>23, RevertAssumption, InHand
     DEF Prune, GoTo, Plan, Outside, journal, Fault, NoFault, RevertAssumption, TypeOK,
       ThreadTypes, SagaTypes
<1>24. CASE Project
  <2>1. cur \in Reverts /\ row[cur].target \in 0 .. Len(history)
    BY <1>24, InHand DEF Project, TypeOK, JournalTypes, Rows, AgentInv, Rewound
  <2>2. SubSeq(history, 1, row[cur].target) \in Seq(Turns)
    BY <2>1 DEF TypeOK, ThreadTypes
  <2> QED
    BY <1>24, <2>2 DEF Project, Outside, TypeOK, ThreadTypes
<1>25. CASE ProjectFails
  BY <1>25, RevertAssumption, InHand
     DEF ProjectFails, Rest, World, Outside, journal, Fault, RevertAssumption, TypeOK,
       ThreadTypes, SagaTypes
<1>26. CASE RecoverFilesAgain
  BY <1>26, RevertAssumption, InHand
     DEF RecoverFilesAgain, At, GoTo, Plan, World, Outside, journal, RevertAssumption, TypeOK,
       ThreadTypes, SagaTypes
<1>27. CASE RecoverUnmoved
  BY <1>27, RevertAssumption, InHand
     DEF RecoverUnmoved, At, GoTo, World, Outside, journal, AfterRewind, KeepsFiles, TurnsAfter,
       RevertAssumption, TypeOK, ThreadTypes, SagaTypes
<1>28. CASE RecoverUnread
  BY <1>28, RevertAssumption, InHand
     DEF RecoverUnread, At, GoTo, Plan, World, Outside, journal, Fault, RevertAssumption,
       TypeOK, ThreadTypes, SagaTypes
<1>29. CASE EndStep
  BY <1>29, RevertAssumption, InHand, EndStepEffect
     DEF Rest, Outside, Forget, NoFault, Fault, RevertAssumption, TypeOK, ThreadTypes, SagaTypes
<1>30. CASE Crash
  BY <1>30, RevertAssumption, InHand
     DEF Crash, journal, RevertAssumption, TypeOK, ThreadTypes, SagaTypes
<1>31. CASE Boot
  BY <1>31, RevertAssumption, InHand
     DEF Boot, Unlisted, Plan, conversation, checkout, journal, ghosts, RevertAssumption, TypeOK,
       ThreadTypes, SagaTypes
<1> QED
  BY <1>1, <1>2, <1>3, <1>4, <1>5, <1>6, <1>7, <1>8, <1>9, <1>10, <1>11, <1>12, <1>13, <1>14, <1>15, <1>16, <1>17, <1>18, <1>19, <1>20, <1>21, <1>22, <1>23, <1>24, <1>25, <1>26, <1>27, <1>28, <1>29, <1>30, <1>31 DEF Next, SagaStep, LiveStep, RewindStep,
    FilesStep, FinishStep, RecoveryStep, EndStep

\* The history variables keep their types.
LEMMA GhostTypesStep ==
  ASSUME TypeOK, LaneInv, Next
  PROVE  GhostTypes'
<1>1. CASE \E r \in Reverts, scope \in Scopes, k \in 0 .. Len(history) : Request(r, scope, k)
  BY <1>1, RevertAssumption, InHand
     DEF Request, conversation, checkout, saga, ghosts, Blocked, RevertAssumption, TypeOK,
       GhostTypes, SagaTypes, Deeds
<1>2. CASE StartStep
  <2>1. overlooked' \in BOOLEAN
    BY <1>2 DEF StartStep, AcceptStart, LapseStart, DropStart, BeginTurn, ghosts, TypeOK, GhostTypes
  <2> QED
    BY <1>2, <2>1, StartEffect DEF TypeOK, GhostTypes
<1>3. CASE EnsureBaseline
  BY <1>3, BaselineEffect, RevertAssumption
     DEF RevertAssumption, TypeOK, GhostTypes, SagaTypes, Deeds
<1>4. CASE EndTurn
  BY <1>4, RevertAssumption, InHand
     DEF EndTurn, saga, ghosts, Touched, RevertAssumption, TypeOK, GhostTypes, SagaTypes, Deeds
<1>5. CASE Edit
  BY <1>5, RevertAssumption, InHand
     DEF Edit, conversation, journal, saga, ghosts, RevertAssumption, TypeOK, GhostTypes,
       SagaTypes, Deeds
<1>6. CASE Age
  BY <1>6, RevertAssumption, InHand
     DEF Age, conversation, checkout, saga, Blocked, RevertAssumption, TypeOK, GhostTypes,
       SagaTypes, Deeds
<1>7. CASE Take
  BY <1>7, RevertAssumption, InHand
     DEF Take, conversation, checkout, journal, ghosts, RevertAssumption, TypeOK, GhostTypes,
       SagaTypes, Deeds
<1>8. CASE Refuse
  BY <1>8, RevertAssumption, InHand
     DEF Refuse, GoTo, Plan, World, Outside, journal, RevertAssumption, TypeOK, GhostTypes,
       SagaTypes, Deeds
<1>9. CASE Admit
  BY <1>9, RevertAssumption, InHand
     DEF Admit, GoTo, World, Outside, journal, TurnsAfter, TurnAt, RevertAssumption, TypeOK,
       GhostTypes, SagaTypes, Deeds
<1>10. CASE JournalFirst
  <2>1. NoFault \/ Fault
    BY <1>10 DEF JournalFirst
  <2>2. faults' \in 0 .. MaxFaults
    BY <2>1, FaultTypes
  <2> QED
    BY <1>10, <2>2 DEF JournalFirst, GoTo, World, Outside, TypeOK, GhostTypes
<1>11. CASE RewindStep
  BY <1>11, RewindEffect, RevertAssumption
     DEF RevertAssumption, TypeOK, GhostTypes, SagaTypes, Deeds
<1>12. CASE Announce
  <2>1. NoFault \/ Fault
    BY <1>12 DEF Announce
  <2>2. faults' \in 0 .. MaxFaults
    BY <2>1, FaultTypes
  <2> QED
    BY <1>12, <2>2, InHand DEF Announce, GoTo, World, Outside, TypeOK, GhostTypes
<1>13. CASE LeaveAsFound
  BY <1>13, RevertAssumption, InHand
     DEF LeaveAsFound, GoTo, World, Outside, journal, Untouched, AfterFiles, RevertAssumption,
       TypeOK, GhostTypes, SagaTypes, Deeds
<1>14. CASE ProbeFails
  BY <1>14, RevertAssumption, InHand
     DEF ProbeFails, GoTo, World, Outside, journal, Untouched, AfterFiles, Fault,
       RevertAssumption, TypeOK, GhostTypes, SagaTypes, Deeds
<1>15. CASE Save
  <2>1. cur \in Reverts /\ files \in Trees
    BY <1>15, InHand DEF Save, TypeOK, CheckoutTypes
  <2>2. first' \in [Reverts -> Trees \cup {None}]
    BY <1>15, <2>1 DEF Save, TypeOK, GhostTypes
  <2>3. did' \in [Reverts -> SUBSET Deeds]
    BY <1>15, <2>1 DEF Save, TypeOK, GhostTypes, Deeds
  <2> QED
    BY <1>15, <2>2, <2>3 DEF Save, GoTo, Outside, TypeOK, GhostTypes
<1>16. CASE WriteBegins
  BY <1>16, RevertAssumption, InHand
     DEF WriteBegins, GoTo, Plan, Outside, journal, RevertAssumption, TypeOK, GhostTypes,
       SagaTypes, Deeds
<1>17. CASE WriteEnds
  BY <1>17, RevertAssumption, InHand
     DEF WriteEnds, GoTo, Outside, journal, Saved, RevertAssumption, TypeOK, GhostTypes,
       SagaTypes, Deeds
<1>18. CASE WriteUnresolved
  BY <1>18, RevertAssumption, InHand
     DEF WriteUnresolved, GoTo, World, Outside, journal, Untouched, Fault, RevertAssumption,
       TypeOK, GhostTypes, SagaTypes, Deeds
<1>19. CASE WriteFails
  BY <1>19, RevertAssumption, InHand
     DEF WriteFails, GoTo, Plan, World, Outside, journal, Fault, RevertAssumption, TypeOK,
       GhostTypes, SagaTypes, Deeds
<1>20. CASE PutBack
  BY <1>20, RevertAssumption, InHand
     DEF PutBack, GoTo, Outside, journal, Untouched, RevertAssumption, TypeOK, GhostTypes,
       SagaTypes, Deeds
<1>21. CASE PutBackFails
  BY <1>21, RevertAssumption, InHand
     DEF PutBackFails, GoTo, World, Outside, journal, Saved, AfterFiles, Fault,
       RevertAssumption, TypeOK, GhostTypes, SagaTypes, Deeds
<1>22. CASE \E s \in Snapshots : Discard(s)
  BY <1>22, RevertAssumption, InHand
     DEF Discard, GoTo, Outside, journal, AfterFiles, Fault, NoFault, RevertAssumption, TypeOK,
       GhostTypes, SagaTypes, Deeds
<1>23. CASE Prune
  BY <1>23, RevertAssumption, InHand
     DEF Prune, GoTo, Plan, Outside, journal, Fault, NoFault, RevertAssumption, TypeOK,
       GhostTypes, SagaTypes, Deeds
<1>24. CASE Project
  BY <1>24, RevertAssumption, InHand
     DEF Project, GoTo, Plan, Outside, journal, NoFault, RevertAssumption, TypeOK, GhostTypes,
       SagaTypes, Deeds
<1>25. CASE ProjectFails
  BY <1>25, RevertAssumption, InHand
     DEF ProjectFails, Rest, World, Outside, journal, Fault, RevertAssumption, TypeOK,
       GhostTypes, SagaTypes, Deeds
<1>26. CASE RecoverFilesAgain
  BY <1>26, RevertAssumption, InHand
     DEF RecoverFilesAgain, At, GoTo, Plan, World, Outside, journal, RevertAssumption, TypeOK,
       GhostTypes, SagaTypes, Deeds
<1>27. CASE RecoverUnmoved
  BY <1>27, RevertAssumption, InHand
     DEF RecoverUnmoved, At, GoTo, World, Outside, journal, AfterRewind, KeepsFiles, TurnsAfter,
       RevertAssumption, TypeOK, GhostTypes, SagaTypes, Deeds
<1>28. CASE RecoverUnread
  <2>1. Fault
    BY <1>28 DEF RecoverUnread
  <2>2. faults' \in 0 .. MaxFaults
    BY <2>1, FaultTypes
  <2> QED
    BY <1>28, <2>2, InHand DEF RecoverUnread, At, GoTo, World, Outside, TypeOK, GhostTypes
<1>29. CASE EndStep
  <2>1. cur \in Reverts
    BY <1>29, EndStepEffect
  <2>2. did' \in [Reverts -> SUBSET Deeds]
    BY <1>29, <2>1, EndStepEffect DEF Forget, TypeOK, GhostTypes, Deeds
  <2>3. faults' \in 0 .. MaxFaults
    BY <1>29, EndStepEffect, FaultTypes
  <2>4. first' = first /\ excused' = excused /\ unrecorded' \subseteq Reverts
    BY <1>29, <2>1, EndStepEffect DEF TypeOK, GhostTypes
  <2>5. UNCHANGED <<overdue, overlooked, crashes>>
    BY <1>29, EndStepEffect DEF Outside
  <2> QED
    BY <2>2, <2>3, <2>4, <2>5 DEF TypeOK, GhostTypes
<1>30. CASE Crash
  <2>1. excused' \subseteq Reverts
    BY <1>30 DEF Crash, TypeOK, GhostTypes
  <2>2. crashes' \in 0 .. MaxCrashes
    BY <1>30, RevertAssumption DEF Crash, TypeOK, GhostTypes, RevertAssumption
  <2>3. UNCHANGED <<did, first, unrecorded, overdue, faults>> /\ overlooked' = FALSE
    BY <1>30 DEF Crash
  <2> QED
    BY <2>1, <2>2, <2>3 DEF TypeOK, GhostTypes
<1>31. CASE Boot
  <2>1. faults' \in 0 .. MaxFaults
    BY <1>31, FaultTypes DEF Boot, Unlisted, NoFault
  <2>2. unrecorded' \subseteq Reverts
    <3>1. CASE unrecorded' = unrecorded
      BY <3>1 DEF TypeOK, GhostTypes
    <3>2. CASE newest # None /\ unrecorded' = unrecorded \cup {newest}
      BY <3>2 DEF TypeOK, GhostTypes, JournalTypes
    <3> QED
      BY <1>31, <3>1, <3>2 DEF Boot, Unlisted
  <2>3. UNCHANGED <<did, first, excused, overdue, overlooked, crashes>>
    BY <1>31 DEF Boot
  <2> QED
    BY <2>1, <2>2, <2>3 DEF TypeOK, GhostTypes
<1> QED
  BY <1>1, <1>2, <1>3, <1>4, <1>5, <1>6, <1>7, <1>8, <1>9, <1>10, <1>11, <1>12, <1>13, <1>14, <1>15, <1>16, <1>17, <1>18, <1>19, <1>20, <1>21, <1>22, <1>23, <1>24, <1>25, <1>26, <1>27, <1>28, <1>29, <1>30, <1>31 DEF Next, SagaStep, LiveStep, RewindStep,
    FilesStep, FinishStep, RecoveryStep, EndStep

\* The checkout, the checkpoint refs and the rescue refs hold trees.
LEMMA CheckoutTypesStep ==
  ASSUME TypeOK, LaneInv, SnapshotInv, AgentInv, Next
  PROVE  CheckoutTypes'
<1>1. CASE \E r \in Reverts, scope \in Scopes, k \in 0 .. Len(history) : Request(r, scope, k)
  BY <1>1, RevertAssumption, InHand
     DEF Request, conversation, checkout, saga, ghosts, Blocked, RevertAssumption, TypeOK,
       CheckoutTypes, SagaTypes, ThreadTypes, Trees, Turns, None, Torn
<1>2. CASE StartStep
  BY <1>2, StartEffect, RevertAssumption, InHand
     DEF RevertAssumption, TypeOK, CheckoutTypes, SagaTypes, ThreadTypes, Trees, Turns, None, Torn
<1>3. CASE EnsureBaseline
  <2>1. TurnAt(Len(history)) \in 0 .. MaxTurns
    <3>1. history \in Seq(Turns) /\ Len(history) \in Nat /\ MaxTurns \in Nat
      BY RevertAssumption DEF TypeOK, ThreadTypes, RevertAssumption
    <3>2. Len(history) # 0 => history[Len(history)] \in 1 .. MaxTurns
      BY <3>1 DEF Turns
    <3> QED
      BY <3>1, <3>2 DEF TurnAt
  <2>2. refs' \in [0 .. MaxTurns -> Trees \cup {None}]
    BY <1>3, <2>1 DEF EnsureBaseline, TypeOK, CheckoutTypes
  <2> QED
    BY <1>3, <2>2, BaselineEffect DEF TypeOK, CheckoutTypes
<1>4. CASE EndTurn
  BY <1>4, RevertAssumption, InHand
     DEF EndTurn, saga, ghosts, Touched, RevertAssumption, TypeOK, CheckoutTypes, SagaTypes,
       ThreadTypes, Trees, Turns, None, Torn
<1>5. CASE Edit
  BY <1>5, RevertAssumption, InHand
     DEF Edit, conversation, journal, saga, ghosts, RevertAssumption, TypeOK, CheckoutTypes,
       SagaTypes, ThreadTypes, Trees, Turns, None, Torn
<1>6. CASE Age
  BY <1>6, RevertAssumption, InHand
     DEF Age, conversation, checkout, saga, Blocked, RevertAssumption, TypeOK, CheckoutTypes,
       SagaTypes, ThreadTypes, Trees, Turns, None, Torn
<1>7. CASE Take
  BY <1>7, RevertAssumption, InHand
     DEF Take, conversation, checkout, journal, ghosts, RevertAssumption, TypeOK, CheckoutTypes,
       SagaTypes, ThreadTypes, Trees, Turns, None, Torn
<1>8. CASE Refuse
  BY <1>8, RevertAssumption, InHand
     DEF Refuse, GoTo, Plan, World, Outside, journal, RevertAssumption, TypeOK, CheckoutTypes,
       SagaTypes, ThreadTypes, Trees, Turns, None, Torn
<1>9. CASE Admit
  BY <1>9, RevertAssumption, InHand
     DEF Admit, GoTo, World, Outside, journal, TurnsAfter, TurnAt, RevertAssumption, TypeOK,
       CheckoutTypes, SagaTypes, ThreadTypes, Trees, Turns, None, Torn
<1>10. CASE JournalFirst
  BY <1>10, RevertAssumption, InHand
     DEF JournalFirst, GoTo, Plan, World, Outside, journal, Record, Fault, NoFault,
       RevertAssumption, TypeOK, CheckoutTypes, SagaTypes, ThreadTypes, Trees, Turns, None, Torn
<1>11. CASE RewindStep
  BY <1>11, RewindEffect, RevertAssumption
     DEF RevertAssumption, TypeOK, CheckoutTypes, SagaTypes, ThreadTypes, Trees, Turns, None, Torn
<1>12. CASE Announce
  BY <1>12, RevertAssumption, InHand
     DEF Announce, GoTo, Plan, World, Outside, journal, Record, Fault, NoFault, AfterRewind,
       RevertAssumption, TypeOK, CheckoutTypes, SagaTypes, ThreadTypes, Trees, Turns, None, Torn
<1>13. CASE LeaveAsFound
  BY <1>13, RevertAssumption, InHand
     DEF LeaveAsFound, GoTo, World, Outside, journal, Untouched, AfterFiles, RevertAssumption,
       TypeOK, CheckoutTypes, SagaTypes, ThreadTypes, Trees, Turns, None, Torn
<1>14. CASE ProbeFails
  BY <1>14, RevertAssumption, InHand
     DEF ProbeFails, GoTo, World, Outside, journal, Untouched, AfterFiles, Fault,
       RevertAssumption, TypeOK, CheckoutTypes, SagaTypes, ThreadTypes, Trees, Turns, None, Torn
<1>15. CASE Save
  BY <1>15, RevertAssumption, InHand
     DEF Save, GoTo, Outside, journal, RevertAssumption, TypeOK, CheckoutTypes, SagaTypes,
       ThreadTypes, Trees, Turns, None, Torn, Snapshots
<1>16. CASE WriteBegins
  BY <1>16, RevertAssumption, InHand
     DEF WriteBegins, GoTo, Plan, Outside, journal, RevertAssumption, TypeOK, CheckoutTypes,
       SagaTypes, ThreadTypes, Trees, Turns, None, Torn
<1>17. CASE WriteEnds
  <2>1. cur \in Reverts /\ TargetTree # None
    BY <1>17, InHand DEF WriteEnds, SnapshotInv, Writing
  <2>2. TurnAt(row[cur].target) \in DOMAIN refs => TargetTree \in Trees
    BY <2>1 DEF TargetTree, TypeOK, CheckoutTypes
  <2>3. TurnAt(row[cur].target) \in DOMAIN refs
    BY <1>17, <2>1, RevertAssumption
    DEF WriteEnds, AgentInv, Rewound, InFiles, Writing, TurnAt, TypeOK, ThreadTypes, JournalTypes, Rows, CheckoutTypes,
      Turns, RevertAssumption
  <2> QED
    BY <1>17, <2>2, <2>3 DEF WriteEnds, GoTo, Outside, TypeOK, CheckoutTypes
<1>18. CASE WriteUnresolved
  BY <1>18, RevertAssumption, InHand
     DEF WriteUnresolved, GoTo, World, Outside, journal, Untouched, Fault, RevertAssumption,
       TypeOK, CheckoutTypes, SagaTypes, ThreadTypes, Trees, Turns, None, Torn
<1>19. CASE WriteFails
  BY <1>19, RevertAssumption, InHand
     DEF WriteFails, GoTo, Plan, World, Outside, journal, Fault, RevertAssumption, TypeOK,
       CheckoutTypes, SagaTypes, ThreadTypes, Trees, Turns, None, Torn
<1>20. CASE PutBack
  <2>1. cur \in Reverts /\ rescue[cur][saving] # None
    BY <1>20, InHand DEF PutBack, SnapshotInv, Writing
  <2>2. rescue[cur][saving] \in Trees
    BY <2>1 DEF TypeOK, CheckoutTypes, SagaTypes
  <2> QED
    BY <1>20, <2>2 DEF PutBack, GoTo, Outside, TypeOK, CheckoutTypes
<1>21. CASE PutBackFails
  BY <1>21, RevertAssumption, InHand
     DEF PutBackFails, GoTo, World, Outside, journal, Saved, AfterFiles, Fault,
       RevertAssumption, TypeOK, CheckoutTypes, SagaTypes, ThreadTypes, Trees, Turns, None, Torn
<1>22. CASE \E s \in Snapshots : Discard(s)
  <2>1. cur \in Reverts
    BY <1>22, InHand DEF Discard
  <2>2. rescue' \in [Reverts -> [Snapshots -> Trees \cup {None}]]
    BY <1>22, <2>1 DEF Discard, TypeOK, CheckoutTypes
  <2> QED
    BY <1>22, <2>2 DEF Discard, Outside, TypeOK, CheckoutTypes
<1>23. CASE Prune
  BY <1>23, RevertAssumption, InHand
     DEF Prune, GoTo, Plan, Outside, journal, Fault, NoFault, RevertAssumption, TypeOK,
       CheckoutTypes, SagaTypes, ThreadTypes, Trees, Turns, None, Torn
<1>24. CASE Project
  BY <1>24, RevertAssumption, InHand
     DEF Project, GoTo, Plan, Outside, journal, NoFault, RevertAssumption, TypeOK,
       CheckoutTypes, SagaTypes, ThreadTypes, Trees, Turns, None, Torn
<1>25. CASE ProjectFails
  BY <1>25, RevertAssumption, InHand
     DEF ProjectFails, Rest, World, Outside, journal, Fault, RevertAssumption, TypeOK,
       CheckoutTypes, SagaTypes, ThreadTypes, Trees, Turns, None, Torn
<1>26. CASE RecoverFilesAgain
  BY <1>26, RevertAssumption, InHand
     DEF RecoverFilesAgain, At, GoTo, Plan, World, Outside, journal, RevertAssumption, TypeOK,
       CheckoutTypes, SagaTypes, ThreadTypes, Trees, Turns, None, Torn
<1>27. CASE RecoverUnmoved
  BY <1>27, RevertAssumption, InHand
     DEF RecoverUnmoved, At, GoTo, World, Outside, journal, AfterRewind, KeepsFiles, TurnsAfter,
       RevertAssumption, TypeOK, CheckoutTypes, SagaTypes, ThreadTypes, Trees, Turns, None, Torn
<1>28. CASE RecoverUnread
  BY <1>28, RevertAssumption, InHand
     DEF RecoverUnread, At, GoTo, Plan, World, Outside, journal, Fault, RevertAssumption,
       TypeOK, CheckoutTypes, SagaTypes, ThreadTypes, Trees, Turns, None, Torn
<1>29. CASE EndStep
  BY <1>29, RevertAssumption, InHand, EndStepEffect
     DEF Rest, Outside, RevertAssumption, TypeOK, CheckoutTypes, SagaTypes, ThreadTypes, Trees,
       Turns, None, Torn
<1>30. CASE Crash
  BY <1>30, RevertAssumption, InHand
     DEF Crash, journal, RevertAssumption, TypeOK, CheckoutTypes, SagaTypes, ThreadTypes, Trees,
       Turns, None, Torn
<1>31. CASE Boot
  BY <1>31, RevertAssumption, InHand
     DEF Boot, Unlisted, Plan, conversation, checkout, journal, ghosts, RevertAssumption, TypeOK,
       CheckoutTypes, SagaTypes, ThreadTypes, Trees, Turns, None, Torn
<1> QED
  BY <1>1, <1>2, <1>3, <1>4, <1>5, <1>6, <1>7, <1>8, <1>9, <1>10, <1>11, <1>12, <1>13, <1>14, <1>15, <1>16, <1>17, <1>18, <1>19, <1>20, <1>21, <1>22, <1>23, <1>24, <1>25, <1>26, <1>27, <1>28, <1>29, <1>30, <1>31 DEF Next, SagaStep, LiveStep, RewindStep,
    FilesStep, FinishStep, RecoveryStep, EndStep

\* The saga stays at one of its places.
LEMMA SagaTypesStep ==
  ASSUME TypeOK, LaneInv, Next
  PROVE  SagaTypes'
<1>1. CASE \E r \in Reverts, scope \in Scopes, k \in 0 .. Len(history) : Request(r, scope, k)
  BY <1>1, RevertAssumption, InHand
     DEF Request, conversation, checkout, saga, ghosts, Blocked, TypeOK, SagaTypes, Places,
       Snapshots, Results, NoResult
<1>2. CASE StartStep
  BY <1>2, StartEffect, RevertAssumption, InHand
     DEF TypeOK, SagaTypes, Places, Snapshots, Results, NoResult
<1>3. CASE EnsureBaseline
  BY <1>3, BaselineEffect, RevertAssumption
     DEF TypeOK, SagaTypes, Places, Snapshots, Results, NoResult
<1>4. CASE EndTurn
  BY <1>4, RevertAssumption, InHand
     DEF EndTurn, saga, ghosts, Touched, TypeOK, SagaTypes, Places, Snapshots, Results, NoResult
<1>5. CASE Edit
  BY <1>5, RevertAssumption, InHand
     DEF Edit, conversation, journal, saga, ghosts, TypeOK, SagaTypes, Places, Snapshots,
       Results, NoResult
<1>6. CASE Age
  BY <1>6, RevertAssumption, InHand
     DEF Age, conversation, checkout, saga, Blocked, TypeOK, SagaTypes, Places, Snapshots,
       Results, NoResult
<1>7. CASE Take
  BY <1>7, RevertAssumption, InHand
     DEF Take, conversation, checkout, journal, ghosts, TypeOK, SagaTypes, Places, Snapshots,
       Results, NoResult
<1>8. CASE Refuse
  BY <1>8, RevertAssumption, InHand
     DEF Refuse, GoTo, Plan, World, Outside, journal, TypeOK, SagaTypes, Places, Snapshots,
       Results, NoResult
<1>9. CASE Admit
  <2>1. cur \in Reverts
    BY <1>9, InHand DEF Admit
  <2>2. dropped' \subseteq Turns
    BY <1>9, <2>1, TurnsAfterTypes DEF Admit
  <2> QED
    BY <1>9, <2>2 DEF Admit, GoTo, Outside, TypeOK, SagaTypes, Places
<1>10. CASE JournalFirst
  BY <1>10, RevertAssumption, InHand
     DEF JournalFirst, GoTo, Plan, World, Outside, journal, Record, Fault, NoFault, TypeOK,
       SagaTypes, Places, Snapshots, Results, NoResult
<1>11. CASE RewindStep
  BY <1>11, RewindEffect, RevertAssumption
     DEF TypeOK, SagaTypes, Places, Snapshots, Results, NoResult
<1>12. CASE Announce
  BY <1>12, RevertAssumption, InHand
     DEF Announce, GoTo, Plan, World, Outside, journal, Record, Fault, NoFault, AfterRewind,
       TypeOK, SagaTypes, Places, Snapshots, Results, NoResult
<1>13. CASE LeaveAsFound
  BY <1>13, RevertAssumption, InHand
     DEF LeaveAsFound, GoTo, World, Outside, journal, Untouched, AfterFiles, TypeOK, SagaTypes,
       Places, Snapshots, Results, NoResult
<1>14. CASE ProbeFails
  BY <1>14, RevertAssumption, InHand
     DEF ProbeFails, GoTo, World, Outside, journal, Untouched, AfterFiles, Fault, TypeOK,
       SagaTypes, Places, Snapshots, Results, NoResult
<1>15. CASE Save
  <2>1. saving' \in Snapshots /\ todo' \subseteq Snapshots /\ result' \in Results
    BY <1>15 DEF Save, TypeOK, SagaTypes, Snapshots, Results
  <2> QED
    BY <1>15, <2>1 DEF Save, GoTo, Outside, TypeOK, SagaTypes, Places
<1>16. CASE WriteBegins
  BY <1>16, RevertAssumption, InHand
     DEF WriteBegins, GoTo, Plan, Outside, journal, TypeOK, SagaTypes, Places, Snapshots,
       Results, NoResult
<1>17. CASE WriteEnds
  BY <1>17, RevertAssumption, InHand
     DEF WriteEnds, GoTo, Outside, journal, Saved, TypeOK, SagaTypes, Places, Snapshots,
       Results, NoResult
<1>18. CASE WriteUnresolved
  BY <1>18, RevertAssumption, InHand
     DEF WriteUnresolved, GoTo, World, Outside, journal, Untouched, Fault, TypeOK, SagaTypes,
       Places, Snapshots, Results, NoResult
<1>19. CASE WriteFails
  BY <1>19, RevertAssumption, InHand
     DEF WriteFails, GoTo, Plan, World, Outside, journal, Fault, TypeOK, SagaTypes, Places,
       Snapshots, Results, NoResult
<1>20. CASE PutBack
  BY <1>20, RevertAssumption, InHand
     DEF PutBack, GoTo, Outside, journal, Untouched, TypeOK, SagaTypes, Places, Snapshots,
       Results, NoResult
<1>21. CASE PutBackFails
  BY <1>21, RevertAssumption, InHand
     DEF PutBackFails, GoTo, World, Outside, journal, Saved, AfterFiles, Fault, TypeOK,
       SagaTypes, Places, Snapshots, Results, NoResult
<1>22. CASE \E s \in Snapshots : Discard(s)
  BY <1>22, RevertAssumption, InHand
     DEF Discard, GoTo, Outside, journal, AfterFiles, Fault, NoFault, TypeOK, SagaTypes, Places,
       Snapshots, Results, NoResult
<1>23. CASE Prune
  BY <1>23, RevertAssumption, InHand
     DEF Prune, GoTo, Plan, Outside, journal, Fault, NoFault, TypeOK, SagaTypes, Places,
       Snapshots, Results, NoResult
<1>24. CASE Project
  BY <1>24, RevertAssumption, InHand
     DEF Project, GoTo, Plan, Outside, journal, NoFault, TypeOK, SagaTypes, Places, Snapshots,
       Results, NoResult
<1>25. CASE ProjectFails
  BY <1>25, RevertAssumption, InHand
     DEF ProjectFails, Rest, World, Outside, journal, Fault, TypeOK, SagaTypes, Places,
       Snapshots, Results, NoResult
<1>26. CASE RecoverFilesAgain
  BY <1>26, RevertAssumption, InHand
     DEF RecoverFilesAgain, At, GoTo, Plan, World, Outside, journal, TypeOK, SagaTypes, Places,
       Snapshots, Results, NoResult
<1>27. CASE RecoverUnmoved
  <2>1. dropped' \subseteq Turns /\ Present \subseteq Snapshots
    BY <1>27, InHand, TurnsAfterTypes DEF RecoverUnmoved, At, Present
  <2>2. result' \in Results
    BY <1>27, <2>1 DEF RecoverUnmoved, Results, TypeOK, SagaTypes
  <2> QED
    BY <1>27, <2>1, <2>2 DEF RecoverUnmoved, GoTo, AfterRewind, Outside, TypeOK, SagaTypes, Places
<1>28. CASE RecoverUnread
  BY <1>28, RevertAssumption, InHand
     DEF RecoverUnread, At, GoTo, Plan, World, Outside, journal, Fault, TypeOK, SagaTypes,
       Places, Snapshots, Results, NoResult
<1>29. CASE EndStep
  BY <1>29, RevertAssumption, InHand, EndStepEffect
     DEF Rest, Outside, Forget, NoFault, Fault, TypeOK, SagaTypes, Places, Snapshots, Results,
       NoResult
<1>30. CASE Crash
  BY <1>30, RevertAssumption, InHand
     DEF Crash, journal, TypeOK, SagaTypes, Places, Snapshots, Results, NoResult
<1>31. CASE Boot
  <2>1. cur' \in Reverts \cup {None} /\ pc' \in Places /\ phase' \in {"down", "recovering", "serving"}
    BY <1>31 DEF Boot, Unlisted, TypeOK, SagaTypes, JournalTypes, Places
  <2> QED
    BY <1>31, <2>1 DEF Boot, Unlisted, Plan, TypeOK, SagaTypes
<1> QED
  BY <1>1, <1>2, <1>3, <1>4, <1>5, <1>6, <1>7, <1>8, <1>9, <1>10, <1>11, <1>12, <1>13, <1>14, <1>15, <1>16, <1>17, <1>18, <1>19, <1>20, <1>21, <1>22, <1>23, <1>24, <1>25, <1>26, <1>27, <1>28, <1>29, <1>30, <1>31 DEF Next, SagaStep, LiveStep, RewindStep,
    FilesStep, FinishStep, RecoveryStep, EndStep

\* Rows and what they say stay well formed.
LEMMA JournalTypesStep ==
  ASSUME TypeOK, LaneInv, HistoryInv, Next
  PROVE  JournalTypes'
<1>1. CASE \E r \in Reverts, scope \in Scopes, k \in 0 .. Len(history) : Request(r, scope, k)
  <2>1. PICK r \in Reverts, scope \in Scopes, k \in 0 .. Len(history) : Request(r, scope, k)
    BY <1>1
  <2>2. k \in 0 .. MaxTurns /\ row[r] \in Rows
    BY HistoryFits, RevertAssumption DEF TypeOK, JournalTypes, RevertAssumption
  <2>3. row' = [row EXCEPT ![r] = [row[r] EXCEPT !.status = "requested", !.scope = scope, !.target = k]]
    BY <2>1, <2>2 DEF Request, TypeOK, JournalTypes
  <2>4. [row[r] EXCEPT !.status = "requested", !.scope = scope, !.target = k] \in Rows
    BY <2>2, RowUpdates
  <2> QED
    BY <2>1, <2>3, <2>4 DEF Request, TypeOK, JournalTypes
<1>2. CASE StartStep
  BY <1>2, StartEffect, RevertAssumption, InHand
     DEF TypeOK, JournalTypes
<1>3. CASE EnsureBaseline
  BY <1>3, BaselineEffect, RevertAssumption
     DEF TypeOK, JournalTypes
<1>4. CASE EndTurn
  BY <1>4, RevertAssumption, InHand, TouchedTypes
     DEF EndTurn, saga, ghosts, TypeOK, JournalTypes
<1>5. CASE Edit
  BY <1>5, RevertAssumption, InHand
     DEF Edit, conversation, journal, saga, ghosts, TypeOK, JournalTypes
<1>6. CASE Age
  <2>1. newest \in Reverts /\ row[newest] \in Rows
    BY <1>6 DEF Age, Blocked, TypeOK, JournalTypes
  <2>2. [row[newest] EXCEPT !.old = TRUE] \in Rows
    BY <2>1, RowUpdates
  <2> QED
    BY <1>6, <2>1, <2>2 DEF Age, TypeOK, JournalTypes
<1>7. CASE Take
  BY <1>7, RevertAssumption, InHand
     DEF Take, conversation, checkout, journal, ghosts, TypeOK, JournalTypes
<1>8. CASE Refuse
  BY <1>8, RevertAssumption, InHand
     DEF Refuse, GoTo, Plan, World, Outside, journal, TypeOK, JournalTypes
<1>9. CASE Admit
  BY <1>9, RevertAssumption, InHand
     DEF Admit, GoTo, World, Outside, journal, TurnsAfter, TurnAt, TypeOK, JournalTypes
<1>10. CASE JournalFirst
  <2>1. cur \in Reverts /\ Len(history) \in Nat
    BY <1>10, InHand DEF JournalFirst, TypeOK, ThreadTypes
  <2> QED
    BY <1>10, <2>1, RecordEffect DEF JournalFirst, journal, TypeOK, JournalTypes, Pending
<1>11. CASE RewindStep
  BY <1>11, RewindEffect, RevertAssumption
     DEF TypeOK, JournalTypes
<1>12. CASE Announce
  <2>1. cur \in Reverts /\ Len(history) \in Nat
    BY <1>12, InHand DEF Announce, TypeOK, ThreadTypes
  <2> QED
    BY <1>12, <2>1, RecordEffect DEF Announce, journal, TypeOK, JournalTypes, Pending
<1>13. CASE LeaveAsFound
  BY <1>13, RevertAssumption, InHand
     DEF LeaveAsFound, GoTo, World, Outside, journal, Untouched, AfterFiles, TypeOK,
       JournalTypes
<1>14. CASE ProbeFails
  BY <1>14, RevertAssumption, InHand
     DEF ProbeFails, GoTo, World, Outside, journal, Untouched, AfterFiles, Fault, TypeOK,
       JournalTypes
<1>15. CASE Save
  BY <1>15, RevertAssumption, InHand
     DEF Save, GoTo, Outside, journal, TypeOK, JournalTypes
<1>16. CASE WriteBegins
  BY <1>16, RevertAssumption, InHand
     DEF WriteBegins, GoTo, Plan, Outside, journal, TypeOK, JournalTypes
<1>17. CASE WriteEnds
  BY <1>17, RevertAssumption, InHand
     DEF WriteEnds, GoTo, Outside, journal, Saved, TypeOK, JournalTypes
<1>18. CASE WriteUnresolved
  BY <1>18, RevertAssumption, InHand
     DEF WriteUnresolved, GoTo, World, Outside, journal, Untouched, Fault, TypeOK, JournalTypes
<1>19. CASE WriteFails
  BY <1>19, RevertAssumption, InHand
     DEF WriteFails, GoTo, Plan, World, Outside, journal, Fault, TypeOK, JournalTypes
<1>20. CASE PutBack
  BY <1>20, RevertAssumption, InHand
     DEF PutBack, GoTo, Outside, journal, Untouched, TypeOK, JournalTypes
<1>21. CASE PutBackFails
  BY <1>21, RevertAssumption, InHand
     DEF PutBackFails, GoTo, World, Outside, journal, Saved, AfterFiles, Fault, TypeOK,
       JournalTypes
<1>22. CASE \E s \in Snapshots : Discard(s)
  BY <1>22, RevertAssumption, InHand
     DEF Discard, GoTo, Outside, journal, AfterFiles, Fault, NoFault, TypeOK, JournalTypes
<1>23. CASE Prune
  BY <1>23, RevertAssumption, InHand
     DEF Prune, GoTo, Plan, Outside, journal, Fault, NoFault, TypeOK, JournalTypes
<1>24. CASE Project
  BY <1>24, RevertAssumption, InHand
     DEF Project, GoTo, Plan, Outside, journal, NoFault, TypeOK, JournalTypes
<1>25. CASE ProjectFails
  BY <1>25, RevertAssumption, InHand
     DEF ProjectFails, Rest, World, Outside, journal, Fault, TypeOK, JournalTypes
<1>26. CASE RecoverFilesAgain
  BY <1>26, RevertAssumption, InHand
     DEF RecoverFilesAgain, At, GoTo, Plan, World, Outside, journal, TypeOK, JournalTypes
<1>27. CASE RecoverUnmoved
  BY <1>27, RevertAssumption, InHand
     DEF RecoverUnmoved, At, GoTo, World, Outside, journal, AfterRewind, KeepsFiles, TurnsAfter,
       TypeOK, JournalTypes
<1>28. CASE RecoverUnread
  BY <1>28, RevertAssumption, InHand
     DEF RecoverUnread, At, GoTo, Plan, World, Outside, journal, Fault, TypeOK, JournalTypes
<1>29. CASE EndStep
  BY <1>29, RevertAssumption, InHand, EndStepEffect
     DEF Rest, Outside, Forget, NoFault, Fault, TypeOK, JournalTypes
<1>30. CASE Crash
  BY <1>30, RevertAssumption, InHand
     DEF Crash, journal, TypeOK, JournalTypes
<1>31. CASE Boot
  BY <1>31, RevertAssumption, InHand
     DEF Boot, Unlisted, Plan, conversation, checkout, journal, ghosts, TypeOK, JournalTypes
<1> QED
  BY <1>1, <1>2, <1>3, <1>4, <1>5, <1>6, <1>7, <1>8, <1>9, <1>10, <1>11, <1>12, <1>13, <1>14, <1>15, <1>16, <1>17, <1>18, <1>19, <1>20, <1>21, <1>22, <1>23, <1>24, <1>25, <1>26, <1>27, <1>28, <1>29, <1>30, <1>31 DEF Next, SagaStep, LiveStep, RewindStep,
    FilesStep, FinishStep, RecoveryStep, EndStep

-----------------------------------------------------------------------------
(* What happens to the rows.                                               *)

\* A request journals one row, the newest.
LEMMA RequestEffect ==
  ASSUME TypeOK, NEW r \in Reverts, NEW scope \in Scopes, NEW k \in Nat, Request(r, scope, k)
  PROVE  /\ row[r].status = "none" /\ newest' = r
         /\ \A q \in Reverts \ {r} : row'[q] = row[q]
         /\ row'[r].status = "requested" /\ row'[r].scope = scope /\ row'[r].target = k
         /\ row'[r].from = row[r].from /\ row'[r].old = row[r].old /\ row'[r].moved = row[r].moved
<1> DEFINE new == [row[r] EXCEPT !.status = "requested", !.scope = scope, !.target = k]
<1>1. row[r] \in Rows /\ row \in [Reverts -> Rows]
  BY DEF TypeOK, JournalTypes
<1>2. row' = [row EXCEPT ![r] = new]
  BY <1>1 DEF Request
<1>3. row'[r] = new /\ \A q \in Reverts \ {r} : row'[q] = row[q]
  BY <1>1, <1>2
<1>4. /\ new.status = "requested" /\ new.scope = scope /\ new.target = k
      /\ new.from = row[r].from /\ new.old = row[r].old /\ new.moved = row[r].moved
  BY <1>1 DEF Rows
<1> QED
  BY <1>3, <1>4 DEF Request

\* Time makes the newest row old.
LEMMA AgeEffect ==
  ASSUME TypeOK, Age
  PROVE  /\ newest \in Reverts /\ IsPending(newest)
         /\ \A r \in Reverts : /\ row'[r].status = row[r].status /\ row'[r].scope = row[r].scope
                              /\ row'[r].target = row[r].target /\ row'[r].from = row[r].from
                              /\ row'[r].moved = row[r].moved
         /\ \A r \in Reverts \ {newest} : row'[r] = row[r]
<1> DEFINE new == [row[newest] EXCEPT !.old = TRUE]
<1>1. newest \in Reverts /\ IsPending(newest) /\ row[newest] \in Rows /\ row \in [Reverts -> Rows]
  BY DEF Age, Blocked, TypeOK, JournalTypes
<1>2. row' = [row EXCEPT ![newest] = new]
  BY <1>1 DEF Age
<1>3. row'[newest] = new /\ \A r \in Reverts \ {newest} : row'[r] = row[r]
  BY <1>1, <1>2
<1>4. /\ new.status = row[newest].status /\ new.scope = row[newest].scope
      /\ new.target = row[newest].target /\ new.from = row[newest].from
      /\ new.moved = row[newest].moved
  BY <1>1 DEF Rows
<1> QED
  BY <1>1, <1>3, <1>4

\* A phase of the live revert is journaled, young and with the turns it starts from; or it is not.
LEMMA PhaseEffect ==
  ASSUME TypeOK, LaneInv, JournalFirst \/ Announce
  PROVE  /\ cur \in Reverts
         /\ \A r \in Reverts \ {cur} : row'[r] = row[r]
         /\ row'[cur].scope = row[cur].scope /\ row'[cur].target = row[cur].target
         /\ \/ /\ newest' = cur /\ row'[cur].from = Len(history)
               /\ row'[cur].status \in {"rolling-back", "restoring-files"}
               /\ JournalFirst /\ row[cur].scope # "files" => row'[cur].status = "rolling-back"
               /\ ~row'[cur].old /\ ~row'[cur].moved
               /\ JournalFirst => pc' \in {"restore", "rewind"}
            \/ /\ UNCHANGED <<row, newest>>
               /\ JournalFirst => pc' = "fail"
         /\ says' = says
<1>1. cur \in Reverts /\ Len(history) \in Nat \cup {None} /\ JournalTypes
  BY InHand DEF JournalFirst, Announce, TypeOK, ThreadTypes
<1> DEFINE phases == {"rolling-back", "restoring-files"}
<1>2. \A st \in phases : Record(st, Len(history)) =>
        /\ \A r \in Reverts \ {cur} : row'[r] = row[r]
        /\ row'[cur].scope = row[cur].scope /\ row'[cur].target = row[cur].target
        /\ newest' = cur /\ row'[cur].from = Len(history) /\ row'[cur].status = st
        /\ ~row'[cur].old /\ ~row'[cur].moved
  BY <1>1, RecordEffect DEF Pending
<1>3. CASE JournalFirst
  <2>1. /\ says' = says
        /\ \/ UNCHANGED journal /\ pc' = "fail"
           \/ \E st \in phases :
                /\ Record(st, Len(history)) /\ pc' \in {"restore", "rewind"}
                /\ row[cur].scope # "files" => st = "rolling-back"
    BY <1>3 DEF JournalFirst, GoTo, journal
  <2>2. CASE UNCHANGED journal /\ pc' = "fail"
    BY <1>1, <1>3, <2>1, <2>2 DEF journal
  <2>3. CASE \E st \in phases :
                 /\ Record(st, Len(history)) /\ pc' \in {"restore", "rewind"}
                 /\ row[cur].scope # "files" => st = "rolling-back"
    <3>1. PICK st \in phases : /\ Record(st, Len(history)) /\ pc' \in {"restore", "rewind"}
                               /\ row[cur].scope # "files" => st = "rolling-back"
      BY <2>3
    <3>2. /\ \A r \in Reverts \ {cur} : row'[r] = row[r]
          /\ row'[cur].scope = row[cur].scope /\ row'[cur].target = row[cur].target
          /\ newest' = cur /\ row'[cur].from = Len(history) /\ row'[cur].status = st
          /\ ~row'[cur].old /\ ~row'[cur].moved
      BY <1>2, <3>1
    <3> QED
      BY <1>1, <2>1, <3>1, <3>2
  <2> QED
    BY <2>1, <2>2, <2>3
<1>4. CASE Announce
  <2>1. says' = says /\ (UNCHANGED journal \/ \E st \in phases : Record(st, Len(history)))
    BY <1>4 DEF Announce, journal
  <2>2. ~JournalFirst
    BY <1>4 DEF Announce, JournalFirst
  <2> QED
    BY <1>1, <1>2, <2>1, <2>2 DEF journal
<1> QED
  BY <1>3, <1>4

-----------------------------------------------------------------------------
(* The lane.                                                               *)

\* One more element at the end of a sequence.
LEMMA AppendEffect ==
  ASSUME NEW S, NEW q \in Seq(S), NEW e \in S
  PROVE  /\ DOMAIN Append(q, e) = DOMAIN q \cup {Len(q) + 1} /\ Append(q, e)[Len(q) + 1] = e
         /\ \A i \in DOMAIN q : Append(q, e)[i] = q[i] /\ i # Len(q) + 1
         /\ Len(Append(q, e)) = Len(q) + 1
  OBVIOUS

\* Every step keeps the order of the lane.
LEMMA LaneStep ==
  ASSUME TypeOK, LaneInv, HistoryInv, Next
  PROVE  LaneInv'
<1>1. CASE \E r \in Reverts, scope \in Scopes, k \in 0 .. Len(history) : Request(r, scope, k)
  <2>1. PICK r \in Reverts, scope \in Scopes, k \in 0 .. Len(history) : Request(r, scope, k)
    BY <1>1
  <2>2. /\ row[r].status = "none" /\ newest' = r /\ row'[r].status = "requested"
        /\ \A q \in Reverts \ {r} : row'[q] = row[q]
    BY <2>1, RequestEffect DEF TypeOK, ThreadTypes
  <2>3. /\ UNCHANGED <<cur, phase, says, running, pc>> /\ phase = "serving"
        /\ queue' = Append(queue, r)
    BY <2>1 DEF Request, saga, conversation
  <2>4. cur # r /\ \A i \in DOMAIN queue : queue[i] \in Reverts /\ queue[i] # r
    BY <2>2, RevertAssumption DEF LaneInv, IsPending, Pending, TypeOK, SagaTypes, None, RevertAssumption
  <2>5. says[r] = Unsaid
    BY <2>2 DEF LaneInv, Ended
  <2>6. /\ DOMAIN queue' = DOMAIN queue \cup {Len(queue) + 1} /\ queue'[Len(queue) + 1] = r
        /\ \A i \in DOMAIN queue : queue'[i] = queue[i]
    BY <2>3, AppendEffect DEF TypeOK, SagaTypes
  <2>7. \A i \in DOMAIN queue' : row'[queue'[i]].status \in Pending /\ queue'[i] # cur'
    BY <2>2, <2>3, <2>4, <2>6 DEF LaneInv, IsPending, Pending
  <2>8. \A i, j \in DOMAIN queue' : queue'[i] = queue'[j] => i = j
    BY <2>4, <2>6 DEF LaneInv
  <2>9. cur' # None => row'[cur].status \in Pending
    BY <2>2, <2>3, <2>4 DEF LaneInv, IsPending, TypeOK, SagaTypes
  <2>10. \A q \in Reverts : says'[q] # Unsaid => row'[q].status \in Ended
    BY <2>2, <2>3, <2>5 DEF LaneInv
  <2> QED
    BY <2>3, <2>7, <2>8, <2>9, <2>10 DEF LaneInv, Fresh, IsPending
<1>2. CASE StartStep
  <2>1. phase # "serving" => running' = running /\ start' = start
    BY <1>2 DEF StartStep, AcceptStart, LapseStart, DropStart, BeginTurn, LaneInv
  <2>2. cur \in Reverts \cup {None} /\ \A i \in DOMAIN queue : queue[i] \in Reverts
    BY DEF TypeOK, SagaTypes
  <2> QED
    BY <1>2, <2>1, <2>2, StartEffect DEF LaneInv, IsPending
<1>3. CASE EnsureBaseline
  BY <1>3, BaselineEffect, RevertAssumption
     DEF LaneInv, IsPending, Pending, Ended, Fresh, None, TypeOK, JournalTypes, SagaTypes,
       RevertAssumption
<1>4. CASE EndTurn
  <2>1. \A r \in Reverts : row'[r].status = row[r].status
    BY <1>4, TouchedTypes DEF EndTurn, TypeOK
  <2>2. /\ UNCHANGED <<start, cur, queue, phase, says, newest, pc>>
        /\ running' = None
    BY <1>4 DEF EndTurn, saga
  <2>3. cur \in Reverts \cup {None} /\ \A i \in DOMAIN queue : queue[i] \in Reverts
    BY DEF TypeOK, SagaTypes
  <2> QED
    BY <2>1, <2>2, <2>3 DEF LaneInv, IsPending
<1>5. CASE Edit
  BY <1>5, RevertAssumption, InHand
     DEF Edit, conversation, journal, saga, ghosts, LaneInv, IsPending, Pending, Ended, Fresh,
       None, TypeOK, JournalTypes, SagaTypes, RevertAssumption
<1>6. CASE Age
  BY <1>6, RevertAssumption, InHand, AgeEffect
     DEF Age, conversation, checkout, saga, Blocked, LaneInv, IsPending, Pending, Ended, Fresh,
       None, TypeOK, JournalTypes, SagaTypes, RevertAssumption
<1>7. CASE Take
  BY <1>7, RevertAssumption, InHand
     DEF Take, conversation, checkout, journal, ghosts, LaneInv, IsPending, Pending, Ended,
       Fresh, None, TypeOK, JournalTypes, SagaTypes, RevertAssumption
<1>8. CASE Refuse
  BY <1>8, RevertAssumption, InHand
     DEF Refuse, GoTo, Plan, World, Outside, journal, LaneInv, IsPending, Pending, Ended, Fresh,
       None, TypeOK, JournalTypes, SagaTypes, RevertAssumption
<1>9. CASE Admit
  BY <1>9, RevertAssumption, InHand
     DEF Admit, GoTo, World, Outside, journal, TurnsAfter, TurnAt, LaneInv, IsPending, Pending,
       Ended, Fresh, None, TypeOK, JournalTypes, SagaTypes, RevertAssumption
<1>10. CASE JournalFirst
  <2>1. \A r \in Reverts : /\ row'[r].status \in Pending <=> row[r].status \in Pending
                           /\ row'[r].status \in Ended <=> row[r].status \in Ended
    BY <1>10, PhaseEffect, RevertAssumption
    DEF LaneInv, IsPending, Pending, Ended, None, RevertAssumption
  <2>2. /\ pc' \notin {"idle", "recover", "unread"} /\ UNCHANGED <<cur, queue, phase, start, running, says>>
        /\ pc' \in Fresh \cup {"announce"} => pc \in Fresh \cup {"announce"}
    BY <1>10 DEF JournalFirst, GoTo, World, Outside, AfterRewind, Fresh, journal
  <2>3. cur \in Reverts /\ pc # "idle" /\ \A i \in DOMAIN queue : queue[i] \in Reverts
    BY <1>10, PhaseEffect DEF JournalFirst, TypeOK, SagaTypes
  <2> QED
    BY <2>1, <2>2, <2>3 DEF LaneInv, IsPending, Fresh
<1>11. CASE RewindStep
  BY <1>11, RewindEffect, RevertAssumption
     DEF LaneInv, IsPending, Pending, Ended, Fresh, None, TypeOK, JournalTypes, SagaTypes,
       RevertAssumption
<1>12. CASE Announce
  <2>1. \A r \in Reverts : /\ row'[r].status \in Pending <=> row[r].status \in Pending
                           /\ row'[r].status \in Ended <=> row[r].status \in Ended
    BY <1>12, PhaseEffect, RevertAssumption
    DEF LaneInv, IsPending, Pending, Ended, None, RevertAssumption
  <2>2. /\ pc' \notin {"idle", "recover", "unread"} /\ UNCHANGED <<cur, queue, phase, start, running, says>>
        /\ pc' \in Fresh \cup {"announce"} => pc \in Fresh \cup {"announce"}
    BY <1>12 DEF Announce, GoTo, World, Outside, AfterRewind, Fresh, journal
  <2>3. cur \in Reverts /\ pc # "idle" /\ \A i \in DOMAIN queue : queue[i] \in Reverts
    BY <1>12, PhaseEffect DEF Announce, TypeOK, SagaTypes
  <2> QED
    BY <2>1, <2>2, <2>3 DEF LaneInv, IsPending, Fresh
<1>13. CASE LeaveAsFound
  BY <1>13, RevertAssumption, InHand
     DEF LeaveAsFound, GoTo, World, Outside, journal, Untouched, AfterFiles, LaneInv, IsPending,
       Pending, Ended, Fresh, None, TypeOK, JournalTypes, SagaTypes, RevertAssumption
<1>14. CASE ProbeFails
  BY <1>14, RevertAssumption, InHand
     DEF ProbeFails, GoTo, World, Outside, journal, Untouched, AfterFiles, Fault, LaneInv,
       IsPending, Pending, Ended, Fresh, None, TypeOK, JournalTypes, SagaTypes, RevertAssumption
<1>15. CASE Save
  BY <1>15, RevertAssumption, InHand
     DEF Save, GoTo, Outside, journal, LaneInv, IsPending, Pending, Ended, Fresh, None, TypeOK,
       JournalTypes, SagaTypes, RevertAssumption
<1>16. CASE WriteBegins
  BY <1>16, RevertAssumption, InHand
     DEF WriteBegins, GoTo, Plan, Outside, journal, LaneInv, IsPending, Pending, Ended, Fresh,
       None, TypeOK, JournalTypes, SagaTypes, RevertAssumption
<1>17. CASE WriteEnds
  BY <1>17, RevertAssumption, InHand
     DEF WriteEnds, GoTo, Outside, journal, Saved, LaneInv, IsPending, Pending, Ended, Fresh,
       None, TypeOK, JournalTypes, SagaTypes, RevertAssumption
<1>18. CASE WriteUnresolved
  BY <1>18, RevertAssumption, InHand
     DEF WriteUnresolved, GoTo, World, Outside, journal, Untouched, Fault, LaneInv, IsPending,
       Pending, Ended, Fresh, None, TypeOK, JournalTypes, SagaTypes, RevertAssumption
<1>19. CASE WriteFails
  BY <1>19, RevertAssumption, InHand
     DEF WriteFails, GoTo, Plan, World, Outside, journal, Fault, LaneInv, IsPending, Pending,
       Ended, Fresh, None, TypeOK, JournalTypes, SagaTypes, RevertAssumption
<1>20. CASE PutBack
  BY <1>20, RevertAssumption, InHand
     DEF PutBack, GoTo, Outside, journal, Untouched, LaneInv, IsPending, Pending, Ended, Fresh,
       None, TypeOK, JournalTypes, SagaTypes, RevertAssumption
<1>21. CASE PutBackFails
  BY <1>21, RevertAssumption, InHand
     DEF PutBackFails, GoTo, World, Outside, journal, Saved, AfterFiles, Fault, LaneInv,
       IsPending, Pending, Ended, Fresh, None, TypeOK, JournalTypes, SagaTypes, RevertAssumption
<1>22. CASE \E s \in Snapshots : Discard(s)
  BY <1>22, RevertAssumption, InHand
     DEF Discard, GoTo, Outside, journal, AfterFiles, Fault, NoFault, LaneInv, IsPending,
       Pending, Ended, Fresh, None, TypeOK, JournalTypes, SagaTypes, RevertAssumption
<1>23. CASE Prune
  BY <1>23, RevertAssumption, InHand
     DEF Prune, GoTo, Plan, Outside, journal, Fault, NoFault, LaneInv, IsPending, Pending,
       Ended, Fresh, None, TypeOK, JournalTypes, SagaTypes, RevertAssumption
<1>24. CASE Project
  BY <1>24, RevertAssumption, InHand
     DEF Project, GoTo, Plan, Outside, journal, NoFault, LaneInv, IsPending, Pending, Ended,
       Fresh, None, TypeOK, JournalTypes, SagaTypes, RevertAssumption
<1>25. CASE ProjectFails
  BY <1>25, RevertAssumption, InHand
     DEF ProjectFails, Rest, World, Outside, journal, Fault, LaneInv, IsPending, Pending, Ended,
       Fresh, None, TypeOK, JournalTypes, SagaTypes, RevertAssumption
<1>26. CASE RecoverFilesAgain
  BY <1>26, RevertAssumption, InHand
     DEF RecoverFilesAgain, At, GoTo, Plan, World, Outside, journal, LaneInv, IsPending,
       Pending, Ended, Fresh, None, TypeOK, JournalTypes, SagaTypes, RevertAssumption
<1>27. CASE RecoverUnmoved
  BY <1>27, RevertAssumption, InHand
     DEF RecoverUnmoved, At, GoTo, World, Outside, journal, AfterRewind, KeepsFiles, TurnsAfter,
       LaneInv, IsPending, Pending, Ended, Fresh, None, TypeOK, JournalTypes, SagaTypes,
       RevertAssumption
<1>28. CASE RecoverUnread
  BY <1>28, RevertAssumption, InHand
     DEF RecoverUnread, At, GoTo, Plan, World, Outside, journal, Fault, LaneInv, IsPending,
       Pending, Ended, Fresh, None, TypeOK, JournalTypes, SagaTypes, RevertAssumption
<1>29. CASE EndStep
  <2>1. /\ cur' = None /\ pc' = "idle" /\ phase' = "serving" /\ queue' = queue
        /\ \A r \in Reverts \ {cur} : row'[r] = row[r] /\ says'[r] = says[r]
        /\ row'[cur].status \in Ended \/ UNCHANGED <<row, says>>
    BY <1>29, EndStepEffect DEF Rest, Outside
  <2>2. \A i \in DOMAIN queue : queue[i] \in Reverts \ {cur}
    BY DEF LaneInv, TypeOK, SagaTypes
  <2>3. \A r \in Reverts : says'[r] # Unsaid => row'[r].status \in Ended
    BY <2>1 DEF LaneInv
  <2>4. \A i \in DOMAIN queue' : row'[queue'[i]].status \in Pending /\ queue'[i] # cur'
    <3>1. \A i \in DOMAIN queue : row[queue[i]].status \in Pending /\ queue[i] # None
      BY <2>2, RevertAssumption DEF LaneInv, IsPending, None, RevertAssumption
    <3>2. \A i \in DOMAIN queue : row'[queue[i]] = row[queue[i]]
      BY <2>1, <2>2
    <3> QED
      BY <2>1, <3>1, <3>2
  <2> QED
    BY <2>1, <2>3, <2>4 DEF LaneInv, Fresh, IsPending
<1>30. CASE Crash
  BY <1>30, RevertAssumption, InHand
     DEF Crash, journal, LaneInv, IsPending, Pending, Ended, Fresh, None, TypeOK, JournalTypes,
       SagaTypes, RevertAssumption
<1>31. CASE Boot
  BY <1>31, RevertAssumption, InHand
     DEF Boot, Unlisted, Plan, conversation, checkout, journal, ghosts, LaneInv, IsPending, Pending,
       Ended, Fresh, None, TypeOK, JournalTypes, SagaTypes, RevertAssumption
<1> QED
  BY <1>1, <1>2, <1>3, <1>4, <1>5, <1>6, <1>7, <1>8, <1>9, <1>10, <1>11, <1>12, <1>13, <1>14, <1>15, <1>16, <1>17, <1>18, <1>19, <1>20, <1>21, <1>22, <1>23, <1>24, <1>25, <1>26, <1>27, <1>28, <1>29, <1>30, <1>31 DEF Next, SagaStep, LiveStep, RewindStep,
    FilesStep, FinishStep, RecoveryStep, EndStep

\* The history never outgrows the turns begun.
LEMMA HistoryStep ==
  ASSUME TypeOK, LaneInv, HistoryInv, AgentInv, Next
  PROVE  HistoryInv'
<1>1. CASE \E r \in Reverts, scope \in Scopes, k \in 0 .. Len(history) : Request(r, scope, k)
  BY <1>1, RevertAssumption, InHand, RequestEffect
     DEF Request, conversation, checkout, saga, ghosts, Blocked, HistoryInv, None,
       RevertAssumption, TypeOK, ThreadTypes, SagaTypes
<1>2. CASE StartStep
  <2>1. CASE start' # "none"
    BY <1>2, <2>1, StartEffect
    DEF StartStep, AcceptStart, LapseStart, DropStart, BeginTurn, HistoryInv
  <2>2. CASE start' = "none"
    BY <1>2, <2>2, StartEffect
    DEF StartStep, AcceptStart, LapseStart, DropStart, BeginTurn, HistoryInv, TypeOK, ThreadTypes
  <2> QED
    BY <2>1, <2>2
<1>3. CASE EnsureBaseline
  BY <1>3, BaselineEffect, RevertAssumption
     DEF HistoryInv, None, RevertAssumption, TypeOK, ThreadTypes, SagaTypes
<1>4. CASE EndTurn
  BY <1>4, RevertAssumption, InHand, TouchedTypes
     DEF EndTurn, saga, ghosts, HistoryInv, None, RevertAssumption, TypeOK, ThreadTypes,
       SagaTypes
<1>5. CASE Edit
  BY <1>5, RevertAssumption, InHand
     DEF Edit, conversation, journal, saga, ghosts, HistoryInv, None, RevertAssumption, TypeOK,
       ThreadTypes, SagaTypes
<1>6. CASE Age
  BY <1>6, RevertAssumption, InHand, AgeEffect
     DEF Age, conversation, checkout, saga, Blocked, HistoryInv, None, RevertAssumption, TypeOK,
       ThreadTypes, SagaTypes
<1>7. CASE Take
  BY <1>7, RevertAssumption, InHand
     DEF Take, conversation, checkout, journal, ghosts, HistoryInv, None, RevertAssumption,
       TypeOK, ThreadTypes, SagaTypes
<1>8. CASE Refuse
  BY <1>8, RevertAssumption, InHand
     DEF Refuse, GoTo, Plan, World, Outside, journal, HistoryInv, None, RevertAssumption,
       TypeOK, ThreadTypes, SagaTypes
<1>9. CASE Admit
  BY <1>9, RevertAssumption, InHand
     DEF Admit, GoTo, World, Outside, journal, TurnsAfter, TurnAt, HistoryInv, None,
       RevertAssumption, TypeOK, ThreadTypes, SagaTypes
<1>10. CASE JournalFirst
  BY <1>10, RevertAssumption, InHand, PhaseEffect
     DEF JournalFirst, GoTo, Plan, World, Outside, journal, Fault, NoFault, HistoryInv, None,
       RevertAssumption, TypeOK, ThreadTypes, SagaTypes
<1>11. CASE RewindStep
  BY <1>11, RewindEffect, RevertAssumption
     DEF HistoryInv, None, RevertAssumption, TypeOK, ThreadTypes, SagaTypes
<1>12. CASE Announce
  BY <1>12, RevertAssumption, InHand, PhaseEffect
     DEF Announce, GoTo, Plan, World, Outside, journal, Fault, NoFault, AfterRewind, HistoryInv,
       None, RevertAssumption, TypeOK, ThreadTypes, SagaTypes
<1>13. CASE LeaveAsFound
  BY <1>13, RevertAssumption, InHand
     DEF LeaveAsFound, GoTo, World, Outside, journal, Untouched, AfterFiles, HistoryInv, None,
       RevertAssumption, TypeOK, ThreadTypes, SagaTypes
<1>14. CASE ProbeFails
  BY <1>14, RevertAssumption, InHand
     DEF ProbeFails, GoTo, World, Outside, journal, Untouched, AfterFiles, Fault, HistoryInv,
       None, RevertAssumption, TypeOK, ThreadTypes, SagaTypes
<1>15. CASE Save
  BY <1>15, RevertAssumption, InHand
     DEF Save, GoTo, Outside, journal, HistoryInv, None, RevertAssumption, TypeOK, ThreadTypes,
       SagaTypes
<1>16. CASE WriteBegins
  BY <1>16, RevertAssumption, InHand
     DEF WriteBegins, GoTo, Plan, Outside, journal, HistoryInv, None, RevertAssumption, TypeOK,
       ThreadTypes, SagaTypes
<1>17. CASE WriteEnds
  BY <1>17, RevertAssumption, InHand
     DEF WriteEnds, GoTo, Outside, journal, Saved, HistoryInv, None, RevertAssumption, TypeOK,
       ThreadTypes, SagaTypes
<1>18. CASE WriteUnresolved
  BY <1>18, RevertAssumption, InHand
     DEF WriteUnresolved, GoTo, World, Outside, journal, Untouched, Fault, HistoryInv, None,
       RevertAssumption, TypeOK, ThreadTypes, SagaTypes
<1>19. CASE WriteFails
  BY <1>19, RevertAssumption, InHand
     DEF WriteFails, GoTo, Plan, World, Outside, journal, Fault, HistoryInv, None,
       RevertAssumption, TypeOK, ThreadTypes, SagaTypes
<1>20. CASE PutBack
  BY <1>20, RevertAssumption, InHand
     DEF PutBack, GoTo, Outside, journal, Untouched, HistoryInv, None, RevertAssumption, TypeOK,
       ThreadTypes, SagaTypes
<1>21. CASE PutBackFails
  BY <1>21, RevertAssumption, InHand
     DEF PutBackFails, GoTo, World, Outside, journal, Saved, AfterFiles, Fault, HistoryInv,
       None, RevertAssumption, TypeOK, ThreadTypes, SagaTypes
<1>22. CASE \E s \in Snapshots : Discard(s)
  BY <1>22, RevertAssumption, InHand
     DEF Discard, GoTo, Outside, journal, AfterFiles, Fault, NoFault, HistoryInv, None,
       RevertAssumption, TypeOK, ThreadTypes, SagaTypes
<1>23. CASE Prune
  BY <1>23, RevertAssumption, InHand
     DEF Prune, GoTo, Plan, Outside, journal, Fault, NoFault, HistoryInv, None,
       RevertAssumption, TypeOK, ThreadTypes, SagaTypes
<1>24. CASE Project
  <2>1. cur \in Reverts /\ row[cur].target \in 0 .. Len(history)
    BY <1>24, InHand DEF Project, TypeOK, JournalTypes, Rows, AgentInv, Rewound
  <2>2. Len(history') <= Len(history) /\ UNCHANGED <<start, running, turns>>
    BY <1>24, <2>1 DEF Project, Outside, TypeOK, ThreadTypes
  <2> QED
    BY <2>1, <2>2 DEF HistoryInv, TypeOK, ThreadTypes
<1>25. CASE ProjectFails
  BY <1>25, RevertAssumption, InHand
     DEF ProjectFails, Rest, World, Outside, journal, Fault, HistoryInv, None, RevertAssumption,
       TypeOK, ThreadTypes, SagaTypes
<1>26. CASE RecoverFilesAgain
  BY <1>26, RevertAssumption, InHand
     DEF RecoverFilesAgain, At, GoTo, Plan, World, Outside, journal, HistoryInv, None,
       RevertAssumption, TypeOK, ThreadTypes, SagaTypes
<1>27. CASE RecoverUnmoved
  BY <1>27, RevertAssumption, InHand
     DEF RecoverUnmoved, At, GoTo, World, Outside, journal, AfterRewind, KeepsFiles, TurnsAfter,
       HistoryInv, None, RevertAssumption, TypeOK, ThreadTypes, SagaTypes
<1>28. CASE RecoverUnread
  BY <1>28, RevertAssumption, InHand
     DEF RecoverUnread, At, GoTo, Plan, World, Outside, journal, Fault, HistoryInv, None,
       RevertAssumption, TypeOK, ThreadTypes, SagaTypes
<1>29. CASE EndStep
  BY <1>29, RevertAssumption, InHand, EndStepEffect
     DEF Rest, Outside, Forget, NoFault, Fault, HistoryInv, None, RevertAssumption, TypeOK,
       ThreadTypes, SagaTypes
<1>30. CASE Crash
  BY <1>30, RevertAssumption, InHand
     DEF Crash, journal, HistoryInv, None, RevertAssumption, TypeOK, ThreadTypes, SagaTypes
<1>31. CASE Boot
  BY <1>31, RevertAssumption, InHand
     DEF Boot, Unlisted, Plan, conversation, checkout, journal, ghosts, HistoryInv, None,
       RevertAssumption, TypeOK, ThreadTypes, SagaTypes
<1> QED
  BY <1>1, <1>2, <1>3, <1>4, <1>5, <1>6, <1>7, <1>8, <1>9, <1>10, <1>11, <1>12, <1>13, <1>14, <1>15, <1>16, <1>17, <1>18, <1>19, <1>20, <1>21, <1>22, <1>23, <1>24, <1>25, <1>26, <1>27, <1>28, <1>29, <1>30, <1>31 DEF Next, SagaStep, LiveStep, RewindStep,
    FilesStep, FinishStep, RecoveryStep, EndStep

\* A revert that has not reached the agent stays without deeds.
LEMMA FreshStep ==
  ASSUME TypeOK, LaneInv, FreshInv, Next
  PROVE  FreshInv'
<1>1. CASE \E r \in Reverts, scope \in Scopes, k \in 0 .. Len(history) : Request(r, scope, k)
  <2>1. PICK r \in Reverts, scope \in Scopes, k \in 0 .. Len(history) : Request(r, scope, k)
    BY <1>1
  <2>2. /\ row[r].status = "none" /\ row'[r].status = "requested"
        /\ \A q \in Reverts \ {r} : row'[q] = row[q]
    BY <2>1, RequestEffect DEF TypeOK, ThreadTypes
  <2>3. UNCHANGED <<cur, pc, did, excused>> /\ queue' = Append(queue, r)
    BY <2>1 DEF Request, saga, ghosts
  <2>4. /\ DOMAIN queue' = DOMAIN queue \cup {Len(queue) + 1} /\ queue'[Len(queue) + 1] = r
        /\ \A i \in DOMAIN queue : queue'[i] = queue[i]
    BY <2>3, AppendEffect DEF TypeOK, SagaTypes
  <2>5. pc # "idle" => cur \in Reverts /\ row'[cur] = row[cur]
    BY <2>2, InHand, RevertAssumption DEF LaneInv, IsPending, Pending, None, RevertAssumption
  <2>6. did[r] = {} /\ \A i \in DOMAIN queue' : did'[queue'[i]] = {}
    BY <2>2, <2>3, <2>4 DEF FreshInv
  <2> QED
    BY <2>2, <2>3, <2>5, <2>6 DEF FreshInv, Fresh, InFiles, Writing
<1>2. CASE StartStep
  <2>1. pc \in Fresh \cup InFiles \cup {"rewind", "announce", "prune", "project"} => cur \in Reverts
    BY InHand DEF Fresh, InFiles, Writing
  <2> QED
    BY <1>2, <2>1, StartEffect DEF FreshInv
<1>3. CASE EnsureBaseline
  BY <1>3, BaselineEffect, RevertAssumption
     DEF FreshInv, LaneInv, InFiles, Writing, Fresh, None, IsPending, Pending, Ended, Recovering,
       TypeOK, JournalTypes, SagaTypes, GhostTypes, RevertAssumption
<1>4. CASE EndTurn
  <2>1. \A r \in Reverts : /\ row'[r].status = row[r].status /\ row'[r].scope = row[r].scope
                           /\ row'[r].old = row[r].old
    BY <1>4, TouchedTypes DEF EndTurn, TypeOK
  <2>2. UNCHANGED <<did, excused, cur, queue, pc>>
    BY <1>4 DEF EndTurn, saga, ghosts
  <2>3. pc \in Fresh \cup InFiles \cup {"rewind", "announce", "prune", "project"} => cur \in Reverts
    BY InHand DEF Fresh, InFiles, Writing
  <2> QED
    BY <2>1, <2>2, <2>3 DEF FreshInv
<1>5. CASE Edit
  BY <1>5, RevertAssumption, InHand
     DEF Edit, conversation, journal, saga, ghosts, FreshInv, LaneInv, InFiles, Writing, Fresh,
       None, IsPending, Pending, Ended, Recovering, TypeOK, JournalTypes, SagaTypes, GhostTypes,
       RevertAssumption
<1>6. CASE Age
  BY <1>6, RevertAssumption, InHand, AgeEffect
     DEF Age, conversation, checkout, saga, Blocked, FreshInv, LaneInv, InFiles, Writing, Fresh,
       None, IsPending, Pending, Ended, Recovering, TypeOK, JournalTypes, SagaTypes, GhostTypes,
       RevertAssumption
<1>7. CASE Take
  BY <1>7, RevertAssumption, InHand
     DEF Take, conversation, checkout, journal, ghosts, FreshInv, LaneInv, InFiles, Writing,
       Fresh, None, IsPending, Pending, Ended, Recovering, TypeOK, JournalTypes, SagaTypes,
       GhostTypes, RevertAssumption
<1>8. CASE Refuse
  BY <1>8, RevertAssumption, InHand
     DEF Refuse, GoTo, Plan, World, Outside, journal, FreshInv, LaneInv, InFiles, Writing,
       Fresh, None, IsPending, Pending, Ended, Recovering, TypeOK, JournalTypes, SagaTypes,
       GhostTypes, RevertAssumption
<1>9. CASE Admit
  BY <1>9, RevertAssumption, InHand
     DEF Admit, GoTo, World, Outside, journal, TurnsAfter, TurnAt, FreshInv, LaneInv, InFiles,
       Writing, Fresh, None, IsPending, Pending, Ended, Recovering, TypeOK, JournalTypes,
       SagaTypes, GhostTypes, RevertAssumption
<1>10. CASE JournalFirst
  <2>1. cur \in Reverts /\ row'[cur].scope = row[cur].scope
    BY <1>10, PhaseEffect
  <2>2. UNCHANGED <<did, cur, queue>>
    BY <1>10 DEF JournalFirst, World, Outside, GoTo
  <2>3. /\ pc' \in Fresh => pc \in Fresh \ {"fail"}
        /\ pc' \in InFiles => row[cur].scope # "conversation"
        /\ pc' \in {"rewind", "announce", "prune", "project"} => row[cur].scope # "files"
    BY <1>10 DEF JournalFirst, GoTo, AfterRewind, Fresh, InFiles, Writing, FreshInv
  <2>4. \A r \in Reverts : /\ row'[r].status = "none" => row[r].status = "none"
                           /\ row'[r].status = "none" => row'[r].old = row[r].old
    <3>1. row[cur].status # "none"
      BY <2>1, RevertAssumption DEF LaneInv, IsPending, Pending, None, RevertAssumption
    <3>2. row'[cur].status # "none"
      BY <1>10, <3>1, PhaseEffect
    <3> QED
      BY <1>10, <3>2, PhaseEffect
  <2> QED
    BY <2>1, <2>2, <2>3, <2>4 DEF FreshInv
<1>11. CASE RewindStep
  <2>1. /\ pc = "rewind" /\ cur \in Reverts /\ pc' \in {"announce", "fail"}
        /\ UNCHANGED <<cur, queue, row>> /\ \A r \in Reverts \ {cur} : did'[r] = did[r]
    BY <1>11, RewindEffect
  <2>2. did[cur] = {} /\ row[cur].scope # "files" /\ row[cur].status # "none"
    BY <2>1, RevertAssumption
    DEF FreshInv, LaneInv, Fresh, IsPending, Pending, None, RevertAssumption
  <2>3. pc' = "fail" => did'[cur] = {} \/ cur \in excused'
    BY <1>11, <2>2, RewindEffect
  <2>4. \A i \in DOMAIN queue : queue[i] \in Reverts \ {cur}
    BY DEF LaneInv, TypeOK, SagaTypes
  <2> QED
    BY <2>1, <2>2, <2>3, <2>4 DEF FreshInv, Fresh, InFiles, Writing
<1>12. CASE Announce
  <2>1. cur \in Reverts /\ row'[cur].scope = row[cur].scope
    BY <1>12, PhaseEffect
  <2>2. UNCHANGED <<did, cur, queue>>
    BY <1>12 DEF Announce, World, Outside, GoTo
  <2>3. /\ pc' \in Fresh => pc \in Fresh \ {"fail"}
        /\ pc' \in InFiles => row[cur].scope # "conversation"
        /\ pc' \in {"rewind", "announce", "prune", "project"} => row[cur].scope # "files"
    BY <1>12 DEF Announce, GoTo, AfterRewind, Fresh, InFiles, Writing, FreshInv
  <2>4. \A r \in Reverts : /\ row'[r].status = "none" => row[r].status = "none"
                           /\ row'[r].status = "none" => row'[r].old = row[r].old
    <3>1. row[cur].status # "none"
      BY <2>1, RevertAssumption DEF LaneInv, IsPending, Pending, None, RevertAssumption
    <3>2. row'[cur].status # "none"
      BY <1>12, <3>1, PhaseEffect
    <3> QED
      BY <1>12, <3>2, PhaseEffect
  <2> QED
    BY <2>1, <2>2, <2>3, <2>4 DEF FreshInv
<1>13. CASE LeaveAsFound
  BY <1>13, RevertAssumption, InHand
     DEF LeaveAsFound, GoTo, World, Outside, journal, Untouched, AfterFiles, FreshInv, LaneInv,
       InFiles, Writing, Fresh, None, IsPending, Pending, Ended, Recovering, TypeOK,
       JournalTypes, SagaTypes, GhostTypes, RevertAssumption
<1>14. CASE ProbeFails
  BY <1>14, RevertAssumption, InHand
     DEF ProbeFails, GoTo, World, Outside, journal, Untouched, AfterFiles, Fault, FreshInv,
       LaneInv, InFiles, Writing, Fresh, None, IsPending, Pending, Ended, Recovering, TypeOK,
       JournalTypes, SagaTypes, GhostTypes, RevertAssumption
<1>15. CASE Save
  <2>1. cur \in Reverts /\ pc' \in {"write", "drop"} /\ UNCHANGED <<row, cur, queue>>
    BY <1>15, InHand DEF Save, GoTo, Outside, journal
  <2>2. \A r \in Reverts \ {cur} : did'[r] = did[r]
    BY <1>15, <2>1 DEF Save, TypeOK, GhostTypes
  <2>3. /\ \A i \in DOMAIN queue : queue[i] \in Reverts \ {cur}
        /\ row[cur].status # "none"
    BY <2>1, RevertAssumption DEF LaneInv, TypeOK, SagaTypes, IsPending, Pending, None, RevertAssumption
  <2>4. row[cur].scope # "conversation"
    BY <1>15 DEF Save, FreshInv, InFiles
  <2> QED
    BY <2>1, <2>2, <2>3, <2>4 DEF FreshInv, Fresh, InFiles, Writing
<1>16. CASE WriteBegins
  BY <1>16, RevertAssumption, InHand
     DEF WriteBegins, GoTo, Plan, Outside, journal, FreshInv, LaneInv, InFiles, Writing, Fresh,
       None, IsPending, Pending, Ended, Recovering, TypeOK, JournalTypes, SagaTypes, GhostTypes,
       RevertAssumption
<1>17. CASE WriteEnds
  BY <1>17, RevertAssumption, InHand
     DEF WriteEnds, GoTo, Outside, journal, Saved, FreshInv, LaneInv, InFiles, Writing, Fresh,
       None, IsPending, Pending, Ended, Recovering, TypeOK, JournalTypes, SagaTypes, GhostTypes,
       RevertAssumption
<1>18. CASE WriteUnresolved
  BY <1>18, RevertAssumption, InHand
     DEF WriteUnresolved, GoTo, World, Outside, journal, Untouched, Fault, FreshInv, LaneInv,
       InFiles, Writing, Fresh, None, IsPending, Pending, Ended, Recovering, TypeOK,
       JournalTypes, SagaTypes, GhostTypes, RevertAssumption
<1>19. CASE WriteFails
  BY <1>19, RevertAssumption, InHand
     DEF WriteFails, GoTo, Plan, World, Outside, journal, Fault, FreshInv, LaneInv, InFiles,
       Writing, Fresh, None, IsPending, Pending, Ended, Recovering, TypeOK, JournalTypes,
       SagaTypes, GhostTypes, RevertAssumption
<1>20. CASE PutBack
  BY <1>20, RevertAssumption, InHand
     DEF PutBack, GoTo, Outside, journal, Untouched, FreshInv, LaneInv, InFiles, Writing, Fresh,
       None, IsPending, Pending, Ended, Recovering, TypeOK, JournalTypes, SagaTypes, GhostTypes,
       RevertAssumption
<1>21. CASE PutBackFails
  BY <1>21, RevertAssumption, InHand
     DEF PutBackFails, GoTo, World, Outside, journal, Saved, AfterFiles, Fault, FreshInv,
       LaneInv, InFiles, Writing, Fresh, None, IsPending, Pending, Ended, Recovering, TypeOK,
       JournalTypes, SagaTypes, GhostTypes, RevertAssumption
<1>22. CASE \E s \in Snapshots : Discard(s)
  BY <1>22, RevertAssumption, InHand
     DEF Discard, GoTo, Outside, journal, AfterFiles, Fault, NoFault, FreshInv, LaneInv,
       InFiles, Writing, Fresh, None, IsPending, Pending, Ended, Recovering, TypeOK,
       JournalTypes, SagaTypes, GhostTypes, RevertAssumption
<1>23. CASE Prune
  BY <1>23, RevertAssumption, InHand
     DEF Prune, GoTo, Plan, Outside, journal, Fault, NoFault, FreshInv, LaneInv, InFiles,
       Writing, Fresh, None, IsPending, Pending, Ended, Recovering, TypeOK, JournalTypes,
       SagaTypes, GhostTypes, RevertAssumption
<1>24. CASE Project
  BY <1>24, RevertAssumption, InHand
     DEF Project, GoTo, Plan, Outside, journal, NoFault, FreshInv, LaneInv, InFiles, Writing,
       Fresh, None, IsPending, Pending, Ended, Recovering, TypeOK, JournalTypes, SagaTypes,
       GhostTypes, RevertAssumption
<1>25. CASE ProjectFails
  BY <1>25, RevertAssumption, InHand
     DEF ProjectFails, Rest, World, Outside, journal, Fault, FreshInv, LaneInv, InFiles,
       Writing, Fresh, None, IsPending, Pending, Ended, Recovering, TypeOK, JournalTypes,
       SagaTypes, GhostTypes, RevertAssumption
<1>26. CASE RecoverFilesAgain
  BY <1>26, RevertAssumption, InHand
     DEF RecoverFilesAgain, At, GoTo, Plan, World, Outside, journal, FreshInv, LaneInv, InFiles,
       Writing, Fresh, None, IsPending, Pending, Ended, Recovering, TypeOK, JournalTypes,
       SagaTypes, GhostTypes, RevertAssumption
<1>27. CASE RecoverUnmoved
  BY <1>27, RevertAssumption, InHand
     DEF RecoverUnmoved, At, GoTo, World, Outside, journal, AfterRewind, KeepsFiles, TurnsAfter,
       FreshInv, LaneInv, InFiles, Writing, Fresh, None, IsPending, Pending, Ended, Recovering,
       TypeOK, JournalTypes, SagaTypes, GhostTypes, RevertAssumption
<1>28. CASE RecoverUnread
  BY <1>28, RevertAssumption, InHand
     DEF RecoverUnread, At, GoTo, Plan, World, Outside, journal, Fault, FreshInv, LaneInv,
       InFiles, Writing, Fresh, None, IsPending, Pending, Ended, Recovering, TypeOK,
       JournalTypes, SagaTypes, GhostTypes, RevertAssumption
<1>29. CASE EndStep
  <2>1. cur \in Reverts /\ pc' = "idle" /\ queue' = queue
    BY <1>29, EndStepEffect DEF Rest, Outside
  <2>2. \A r \in Reverts \ {cur} : row'[r] = row[r] /\ did'[r] = did[r]
    BY <1>29, <2>1, EndStepEffect DEF Forget, TypeOK, GhostTypes
  <2>3. \A i \in DOMAIN queue : queue[i] \in Reverts \ {cur}
    BY DEF LaneInv, TypeOK, SagaTypes
  <2>4. row'[cur].status # "none"
    BY <1>29, <2>1, EndStepEffect, RevertAssumption
    DEF LaneInv, IsPending, Pending, Ended, None, RevertAssumption
  <2> QED
    BY <2>1, <2>2, <2>3, <2>4 DEF FreshInv, Fresh, InFiles, Writing
<1>30. CASE Crash
  BY <1>30, RevertAssumption, InHand
     DEF Crash, journal, FreshInv, LaneInv, InFiles, Writing, Fresh, None, IsPending, Pending,
       Ended, Recovering, TypeOK, JournalTypes, SagaTypes, GhostTypes, RevertAssumption
<1>31. CASE Boot
  BY <1>31, RevertAssumption, InHand
     DEF Boot, Unlisted, Plan, conversation, checkout, journal, ghosts, FreshInv, LaneInv, InFiles,
       Writing, Fresh, None, IsPending, Pending, Ended, Recovering, TypeOK, JournalTypes,
       SagaTypes, GhostTypes, RevertAssumption
<1> QED
  BY <1>1, <1>2, <1>3, <1>4, <1>5, <1>6, <1>7, <1>8, <1>9, <1>10, <1>11, <1>12, <1>13, <1>14, <1>15, <1>16, <1>17, <1>18, <1>19, <1>20, <1>21, <1>22, <1>23, <1>24, <1>25, <1>26, <1>27, <1>28, <1>29, <1>30, <1>31 DEF Next, SagaStep, LiveStep, RewindStep,
    FilesStep, FinishStep, RecoveryStep, EndStep

\* A revert keeps to its scope.
LEMMA ScopeStep ==
  ASSUME TypeOK, LaneInv, FreshInv, ScopeIsKept, Next
  PROVE  ScopeIsKept'
<1>1. CASE \E r \in Reverts, scope \in Scopes, k \in 0 .. Len(history) : Request(r, scope, k)
  <2>1. PICK r \in Reverts, scope \in Scopes, k \in 0 .. Len(history) : Request(r, scope, k)
    BY <1>1
  <2>2. row[r].status = "none" /\ \A q \in Reverts \ {r} : row'[q] = row[q]
    BY <2>1, RequestEffect DEF TypeOK, ThreadTypes
  <2>3. did' = did /\ did[r] = {}
    BY <2>1, <2>2 DEF Request, ghosts, FreshInv
  <2> QED
    BY <2>2, <2>3 DEF ScopeIsKept
<1>2. CASE StartStep
  BY <1>2, StartEffect, RevertAssumption, InHand
     DEF ScopeIsKept, FreshInv, LaneInv, InFiles, Writing, Fresh, None, TypeOK, JournalTypes,
       SagaTypes, GhostTypes, RevertAssumption
<1>3. CASE EnsureBaseline
  BY <1>3, BaselineEffect, RevertAssumption
     DEF ScopeIsKept, FreshInv, LaneInv, InFiles, Writing, Fresh, None, TypeOK, JournalTypes,
       SagaTypes, GhostTypes, RevertAssumption
<1>4. CASE EndTurn
  BY <1>4, RevertAssumption, InHand, TouchedTypes
     DEF EndTurn, saga, ghosts, ScopeIsKept, FreshInv, LaneInv, InFiles, Writing, Fresh, None,
       TypeOK, JournalTypes, SagaTypes, GhostTypes, RevertAssumption
<1>5. CASE Edit
  BY <1>5, RevertAssumption, InHand
     DEF Edit, conversation, journal, saga, ghosts, ScopeIsKept, FreshInv, LaneInv, InFiles,
       Writing, Fresh, None, TypeOK, JournalTypes, SagaTypes, GhostTypes, RevertAssumption
<1>6. CASE Age
  BY <1>6, RevertAssumption, InHand, AgeEffect
     DEF Age, conversation, checkout, saga, Blocked, ScopeIsKept, FreshInv, LaneInv, InFiles,
       Writing, Fresh, None, TypeOK, JournalTypes, SagaTypes, GhostTypes, RevertAssumption
<1>7. CASE Take
  BY <1>7, RevertAssumption, InHand
     DEF Take, conversation, checkout, journal, ghosts, ScopeIsKept, FreshInv, LaneInv, InFiles,
       Writing, Fresh, None, TypeOK, JournalTypes, SagaTypes, GhostTypes, RevertAssumption
<1>8. CASE Refuse
  BY <1>8, RevertAssumption, InHand
     DEF Refuse, GoTo, Plan, World, Outside, journal, ScopeIsKept, FreshInv, LaneInv, InFiles,
       Writing, Fresh, None, TypeOK, JournalTypes, SagaTypes, GhostTypes, RevertAssumption
<1>9. CASE Admit
  BY <1>9, RevertAssumption, InHand
     DEF Admit, GoTo, World, Outside, journal, TurnsAfter, TurnAt, ScopeIsKept, FreshInv,
       LaneInv, InFiles, Writing, Fresh, None, TypeOK, JournalTypes, SagaTypes, GhostTypes,
       RevertAssumption
<1>10. CASE JournalFirst
  BY <1>10, RevertAssumption, InHand, PhaseEffect
     DEF JournalFirst, GoTo, Plan, World, Outside, journal, Fault, NoFault, ScopeIsKept,
       FreshInv, LaneInv, InFiles, Writing, Fresh, None, TypeOK, JournalTypes, SagaTypes,
       GhostTypes, RevertAssumption
<1>11. CASE RewindStep
  BY <1>11, RewindEffect, RevertAssumption
     DEF ScopeIsKept, FreshInv, LaneInv, InFiles, Writing, Fresh, None, TypeOK, JournalTypes,
       SagaTypes, GhostTypes, RevertAssumption
<1>12. CASE Announce
  BY <1>12, RevertAssumption, InHand, PhaseEffect
     DEF Announce, GoTo, Plan, World, Outside, journal, Fault, NoFault, AfterRewind,
       ScopeIsKept, FreshInv, LaneInv, InFiles, Writing, Fresh, None, TypeOK, JournalTypes,
       SagaTypes, GhostTypes, RevertAssumption
<1>13. CASE LeaveAsFound
  BY <1>13, RevertAssumption, InHand
     DEF LeaveAsFound, GoTo, World, Outside, journal, Untouched, AfterFiles, ScopeIsKept,
       FreshInv, LaneInv, InFiles, Writing, Fresh, None, TypeOK, JournalTypes, SagaTypes,
       GhostTypes, RevertAssumption
<1>14. CASE ProbeFails
  BY <1>14, RevertAssumption, InHand
     DEF ProbeFails, GoTo, World, Outside, journal, Untouched, AfterFiles, Fault, ScopeIsKept,
       FreshInv, LaneInv, InFiles, Writing, Fresh, None, TypeOK, JournalTypes, SagaTypes,
       GhostTypes, RevertAssumption
<1>15. CASE Save
  <2>1. cur \in Reverts /\ row' = row
    BY <1>15, InHand DEF Save, journal
  <2>2. row[cur].scope # "conversation"
    BY <1>15 DEF Save, FreshInv, InFiles, Writing
  <2>3. did'[cur] \subseteq did[cur] \cup {"wrote", "restored"}
        /\ \A r \in Reverts \ {cur} : did'[r] = did[r]
    BY <1>15, <2>1 DEF Save, TypeOK, GhostTypes
  <2> QED
    BY <2>1, <2>2, <2>3 DEF ScopeIsKept
<1>16. CASE WriteBegins
  <2>1. cur \in Reverts /\ row' = row
    BY <1>16, InHand DEF WriteBegins, journal
  <2>2. row[cur].scope # "conversation"
    BY <1>16 DEF WriteBegins, FreshInv, InFiles, Writing
  <2>3. did'[cur] \subseteq did[cur] \cup {"wrote", "restored"}
        /\ \A r \in Reverts \ {cur} : did'[r] = did[r]
    BY <1>16, <2>1 DEF WriteBegins, TypeOK, GhostTypes
  <2> QED
    BY <2>1, <2>2, <2>3 DEF ScopeIsKept
<1>17. CASE WriteEnds
  <2>1. cur \in Reverts /\ row' = row
    BY <1>17, InHand DEF WriteEnds, journal
  <2>2. row[cur].scope # "conversation"
    BY <1>17 DEF WriteEnds, FreshInv, InFiles, Writing
  <2>3. did'[cur] \subseteq did[cur] \cup {"wrote", "restored"}
        /\ \A r \in Reverts \ {cur} : did'[r] = did[r]
    BY <1>17, <2>1 DEF WriteEnds, TypeOK, GhostTypes
  <2> QED
    BY <2>1, <2>2, <2>3 DEF ScopeIsKept
<1>18. CASE WriteUnresolved
  BY <1>18, RevertAssumption, InHand
     DEF WriteUnresolved, GoTo, World, Outside, journal, Untouched, Fault, ScopeIsKept,
       FreshInv, LaneInv, InFiles, Writing, Fresh, None, TypeOK, JournalTypes, SagaTypes,
       GhostTypes, RevertAssumption
<1>19. CASE WriteFails
  BY <1>19, RevertAssumption, InHand
     DEF WriteFails, GoTo, Plan, World, Outside, journal, Fault, ScopeIsKept, FreshInv, LaneInv,
       InFiles, Writing, Fresh, None, TypeOK, JournalTypes, SagaTypes, GhostTypes,
       RevertAssumption
<1>20. CASE PutBack
  BY <1>20, RevertAssumption, InHand
     DEF PutBack, GoTo, Outside, journal, Untouched, ScopeIsKept, FreshInv, LaneInv, InFiles,
       Writing, Fresh, None, TypeOK, JournalTypes, SagaTypes, GhostTypes, RevertAssumption
<1>21. CASE PutBackFails
  BY <1>21, RevertAssumption, InHand
     DEF PutBackFails, GoTo, World, Outside, journal, Saved, AfterFiles, Fault, ScopeIsKept,
       FreshInv, LaneInv, InFiles, Writing, Fresh, None, TypeOK, JournalTypes, SagaTypes,
       GhostTypes, RevertAssumption
<1>22. CASE \E s \in Snapshots : Discard(s)
  BY <1>22, RevertAssumption, InHand
     DEF Discard, GoTo, Outside, journal, AfterFiles, Fault, NoFault, ScopeIsKept, FreshInv,
       LaneInv, InFiles, Writing, Fresh, None, TypeOK, JournalTypes, SagaTypes, GhostTypes,
       RevertAssumption
<1>23. CASE Prune
  BY <1>23, RevertAssumption, InHand
     DEF Prune, GoTo, Plan, Outside, journal, Fault, NoFault, ScopeIsKept, FreshInv, LaneInv,
       InFiles, Writing, Fresh, None, TypeOK, JournalTypes, SagaTypes, GhostTypes,
       RevertAssumption
<1>24. CASE Project
  BY <1>24, RevertAssumption, InHand
     DEF Project, GoTo, Plan, Outside, journal, NoFault, ScopeIsKept, FreshInv, LaneInv,
       InFiles, Writing, Fresh, None, TypeOK, JournalTypes, SagaTypes, GhostTypes,
       RevertAssumption
<1>25. CASE ProjectFails
  BY <1>25, RevertAssumption, InHand
     DEF ProjectFails, Rest, World, Outside, journal, Fault, ScopeIsKept, FreshInv, LaneInv,
       InFiles, Writing, Fresh, None, TypeOK, JournalTypes, SagaTypes, GhostTypes,
       RevertAssumption
<1>26. CASE RecoverFilesAgain
  BY <1>26, RevertAssumption, InHand
     DEF RecoverFilesAgain, At, GoTo, Plan, World, Outside, journal, ScopeIsKept, FreshInv,
       LaneInv, InFiles, Writing, Fresh, None, TypeOK, JournalTypes, SagaTypes, GhostTypes,
       RevertAssumption
<1>27. CASE RecoverUnmoved
  BY <1>27, RevertAssumption, InHand
     DEF RecoverUnmoved, At, GoTo, World, Outside, journal, AfterRewind, KeepsFiles, TurnsAfter,
       ScopeIsKept, FreshInv, LaneInv, InFiles, Writing, Fresh, None, TypeOK, JournalTypes,
       SagaTypes, GhostTypes, RevertAssumption
<1>28. CASE RecoverUnread
  BY <1>28, RevertAssumption, InHand
     DEF RecoverUnread, At, GoTo, Plan, World, Outside, journal, Fault, ScopeIsKept, FreshInv,
       LaneInv, InFiles, Writing, Fresh, None, TypeOK, JournalTypes, SagaTypes, GhostTypes,
       RevertAssumption
<1>29. CASE EndStep
  <2>1. /\ cur \in Reverts
        /\ \A r \in Reverts : row'[r].scope = row[r].scope
    BY <1>29, EndStepEffect
  <2>2. \/ did' = did
        \/ pc = "rewind" /\ did'[cur] = did[cur] \cup {"rewound"} /\ \A r \in Reverts \ {cur} : did'[r] = did[r]
    BY <1>29, <2>1, EndStepEffect DEF Forget, TypeOK, GhostTypes
  <2>3. pc = "rewind" => row[cur].scope # "files"
    BY DEF FreshInv
  <2> QED
    BY <2>1, <2>2, <2>3 DEF ScopeIsKept
<1>30. CASE Crash
  BY <1>30, RevertAssumption, InHand
     DEF Crash, journal, ScopeIsKept, FreshInv, LaneInv, InFiles, Writing, Fresh, None, TypeOK,
       JournalTypes, SagaTypes, GhostTypes, RevertAssumption
<1>31. CASE Boot
  BY <1>31, RevertAssumption, InHand
     DEF Boot, Unlisted, Plan, conversation, checkout, journal, ghosts, ScopeIsKept, FreshInv, LaneInv,
       InFiles, Writing, Fresh, None, TypeOK, JournalTypes, SagaTypes, GhostTypes,
       RevertAssumption
<1> QED
  BY <1>1, <1>2, <1>3, <1>4, <1>5, <1>6, <1>7, <1>8, <1>9, <1>10, <1>11, <1>12, <1>13, <1>14, <1>15, <1>16, <1>17, <1>18, <1>19, <1>20, <1>21, <1>22, <1>23, <1>24, <1>25, <1>26, <1>27, <1>28, <1>29, <1>30, <1>31 DEF Next, SagaStep, LiveStep, RewindStep,
    FilesStep, FinishStep, RecoveryStep, EndStep

\* The live revert stays the newest and young, until ten minutes have passed.
LEMMA TurnStep ==
  ASSUME TypeOK, LaneInv, FreshInv, TurnInv, Next
  PROVE  TurnInv'
<1>1. CASE \E r \in Reverts, scope \in Scopes, k \in 0 .. Len(history) : Request(r, scope, k)
  <2>1. PICK r \in Reverts, scope \in Scopes, k \in 0 .. Len(history) : Request(r, scope, k)
    BY <1>1
  <2>2. row[r].status = "none" /\ newest' = r /\ row'[r].old = row[r].old
    BY <2>1, RequestEffect DEF TypeOK, ThreadTypes
  <2>3. ~row[r].old
    BY <2>2 DEF FreshInv
  <2>4. /\ UNCHANGED <<cur, phase, overdue>> /\ phase = "serving" /\ queue' = Append(queue, r)
        /\ ~Blocked /\ start' # "counted" /\ running' = None
    BY <2>1 DEF Request, Busy, conversation, saga, ghosts
  <2>5. ~overdue => cur = None /\ queue = <<>>
    <3>1. ~overdue /\ cur # None => FALSE
      BY <2>4 DEF TurnInv, LaneInv, Blocked, IsPending
    <3>2. ~overdue /\ queue # <<>> => FALSE
      <4>1. queue # <<>> => 1 \in DOMAIN queue /\ queue[1] \in Reverts
        BY DEF TypeOK, SagaTypes
      <4> QED
        BY <2>4, <4>1, RevertAssumption DEF TurnInv, LaneInv, Blocked, IsPending, None, RevertAssumption
    <3> QED
      BY <3>1, <3>2
  <2>6. ~overdue => Len(queue') = 1 /\ queue'[1] = r
    BY <2>4, <2>5
  <2> QED
    BY <2>2, <2>3, <2>4, <2>5, <2>6 DEF TurnInv
<1>2. CASE StartStep
  <2>1. cur \in Reverts \cup {None} /\ (queue # <<>> => 1 \in DOMAIN queue /\ queue[1] \in Reverts)
    BY DEF TypeOK, SagaTypes
  <2>2. ASSUME phase = "serving", ~overdue, cur # None \/ queue # <<>>
        PROVE  Blocked
    BY <2>1, <2>2, RevertAssumption DEF TurnInv, LaneInv, Blocked, IsPending, None, RevertAssumption
  <2>3. ASSUME phase = "serving", ~overdue, cur # None \/ queue # <<>>
        PROVE  start' # "counted" /\ (running' = None \/ overlooked')
    BY <1>2, <2>2, <2>3
    DEF StartStep, AcceptStart, LapseStart, DropStart, BeginTurn, TurnInv, ghosts, TypeOK, ThreadTypes
  <2> QED
    BY <1>2, <2>1, <2>3, StartEffect DEF TurnInv
<1>3. CASE EnsureBaseline
  BY <1>3, BaselineEffect, RevertAssumption
     DEF TurnInv, LaneInv, None, IsPending, Pending, Ended, Fresh, InFiles,
       Writing, Recovering, TypeOK, ThreadTypes, JournalTypes, SagaTypes, RevertAssumption
<1>4. CASE EndTurn
  BY <1>4, RevertAssumption, InHand, TouchedTypes
     DEF EndTurn, saga, ghosts, TurnInv, LaneInv, None, IsPending, Pending,
       Ended, Fresh, InFiles, Writing, Recovering, TypeOK, ThreadTypes, JournalTypes, SagaTypes,
       RevertAssumption
<1>5. CASE Edit
  BY <1>5, RevertAssumption, InHand
     DEF Edit, conversation, journal, saga, ghosts, TurnInv, LaneInv, None,
       IsPending, Pending, Ended, Fresh, InFiles, Writing, Recovering, TypeOK, ThreadTypes,
       JournalTypes, SagaTypes, RevertAssumption
<1>6. CASE Age
  BY <1>6, RevertAssumption, InHand, AgeEffect
     DEF Age, conversation, checkout, saga, Blocked, TurnInv, LaneInv, None,
       IsPending, Pending, Ended, Fresh, InFiles, Writing, Recovering, TypeOK, ThreadTypes,
       JournalTypes, SagaTypes, RevertAssumption
<1>7. CASE Take
  BY <1>7, RevertAssumption, InHand
     DEF Take, conversation, checkout, journal, ghosts, TurnInv, LaneInv,
       None, IsPending, Pending, Ended, Fresh, InFiles, Writing, Recovering, TypeOK,
       ThreadTypes, JournalTypes, SagaTypes, RevertAssumption
<1>8. CASE Refuse
  BY <1>8, RevertAssumption, InHand
     DEF Refuse, GoTo, Plan, World, Outside, journal, TurnInv, LaneInv, None,
       IsPending, Pending, Ended, Fresh, InFiles, Writing, Recovering, TypeOK, ThreadTypes,
       JournalTypes, SagaTypes, RevertAssumption
<1>9. CASE Admit
  BY <1>9, RevertAssumption, InHand
     DEF Admit, GoTo, World, Outside, journal, TurnsAfter, TurnAt, TurnInv,
       LaneInv, None, IsPending, Pending, Ended, Fresh, InFiles, Writing, Recovering, TypeOK,
       ThreadTypes, JournalTypes, SagaTypes, RevertAssumption
<1>10. CASE JournalFirst
  BY <1>10, RevertAssumption, InHand, PhaseEffect
     DEF JournalFirst, GoTo, Plan, World, Outside, journal, Fault, NoFault, TurnInv,
       LaneInv, None, IsPending, Pending, Ended, Fresh, InFiles, Writing,
       Recovering, TypeOK, ThreadTypes, JournalTypes, SagaTypes, RevertAssumption
<1>11. CASE RewindStep
  BY <1>11, RewindEffect, RevertAssumption
     DEF TurnInv, LaneInv, None, IsPending, Pending, Ended, Fresh, InFiles,
       Writing, Recovering, TypeOK, ThreadTypes, JournalTypes, SagaTypes, RevertAssumption
<1>12. CASE Announce
  BY <1>12, RevertAssumption, InHand, PhaseEffect
     DEF Announce, GoTo, Plan, World, Outside, journal, Fault, NoFault, AfterRewind, TurnInv,
       LaneInv, None, IsPending, Pending, Ended, Fresh, InFiles, Writing,
       Recovering, TypeOK, ThreadTypes, JournalTypes, SagaTypes, RevertAssumption
<1>13. CASE LeaveAsFound
  BY <1>13, RevertAssumption, InHand
     DEF LeaveAsFound, GoTo, World, Outside, journal, Untouched, AfterFiles, TurnInv,
       LaneInv, None, IsPending, Pending, Ended, Fresh, InFiles, Writing,
       Recovering, TypeOK, ThreadTypes, JournalTypes, SagaTypes, RevertAssumption
<1>14. CASE ProbeFails
  BY <1>14, RevertAssumption, InHand
     DEF ProbeFails, GoTo, World, Outside, journal, Untouched, AfterFiles, Fault, TurnInv,
       LaneInv, None, IsPending, Pending, Ended, Fresh, InFiles, Writing,
       Recovering, TypeOK, ThreadTypes, JournalTypes, SagaTypes, RevertAssumption
<1>15. CASE Save
  BY <1>15, RevertAssumption, InHand
     DEF Save, GoTo, Outside, journal, TurnInv, LaneInv, None, IsPending,
       Pending, Ended, Fresh, InFiles, Writing, Recovering, TypeOK, ThreadTypes, JournalTypes,
       SagaTypes, RevertAssumption
<1>16. CASE WriteBegins
  BY <1>16, RevertAssumption, InHand
     DEF WriteBegins, GoTo, Plan, Outside, journal, TurnInv, LaneInv, None,
       IsPending, Pending, Ended, Fresh, InFiles, Writing, Recovering, TypeOK, ThreadTypes,
       JournalTypes, SagaTypes, RevertAssumption
<1>17. CASE WriteEnds
  BY <1>17, RevertAssumption, InHand
     DEF WriteEnds, GoTo, Outside, journal, Saved, TurnInv, LaneInv, None,
       IsPending, Pending, Ended, Fresh, InFiles, Writing, Recovering, TypeOK, ThreadTypes,
       JournalTypes, SagaTypes, RevertAssumption
<1>18. CASE WriteUnresolved
  BY <1>18, RevertAssumption, InHand
     DEF WriteUnresolved, GoTo, World, Outside, journal, Untouched, Fault, TurnInv,
       LaneInv, None, IsPending, Pending, Ended, Fresh, InFiles, Writing,
       Recovering, TypeOK, ThreadTypes, JournalTypes, SagaTypes, RevertAssumption
<1>19. CASE WriteFails
  BY <1>19, RevertAssumption, InHand
     DEF WriteFails, GoTo, Plan, World, Outside, journal, Fault, TurnInv,
       LaneInv, None, IsPending, Pending, Ended, Fresh, InFiles, Writing, Recovering, TypeOK,
       ThreadTypes, JournalTypes, SagaTypes, RevertAssumption
<1>20. CASE PutBack
  BY <1>20, RevertAssumption, InHand
     DEF PutBack, GoTo, Outside, journal, Untouched, TurnInv, LaneInv, None,
       IsPending, Pending, Ended, Fresh, InFiles, Writing, Recovering, TypeOK, ThreadTypes,
       JournalTypes, SagaTypes, RevertAssumption
<1>21. CASE PutBackFails
  BY <1>21, RevertAssumption, InHand
     DEF PutBackFails, GoTo, World, Outside, journal, Saved, AfterFiles, Fault, TurnInv,
       LaneInv, None, IsPending, Pending, Ended, Fresh, InFiles, Writing,
       Recovering, TypeOK, ThreadTypes, JournalTypes, SagaTypes, RevertAssumption
<1>22. CASE \E s \in Snapshots : Discard(s)
  BY <1>22, RevertAssumption, InHand
     DEF Discard, GoTo, Outside, journal, AfterFiles, Fault, NoFault, TurnInv,
       LaneInv, None, IsPending, Pending, Ended, Fresh, InFiles, Writing,
       Recovering, TypeOK, ThreadTypes, JournalTypes, SagaTypes, RevertAssumption
<1>23. CASE Prune
  BY <1>23, RevertAssumption, InHand
     DEF Prune, GoTo, Plan, Outside, journal, Fault, NoFault, TurnInv,
       LaneInv, None, IsPending, Pending, Ended, Fresh, InFiles, Writing, Recovering, TypeOK,
       ThreadTypes, JournalTypes, SagaTypes, RevertAssumption
<1>24. CASE Project
  BY <1>24, RevertAssumption, InHand
     DEF Project, GoTo, Plan, Outside, journal, NoFault, TurnInv, LaneInv,
       None, IsPending, Pending, Ended, Fresh, InFiles, Writing, Recovering, TypeOK,
       ThreadTypes, JournalTypes, SagaTypes, RevertAssumption
<1>25. CASE ProjectFails
  BY <1>25, RevertAssumption, InHand
     DEF ProjectFails, Rest, World, Outside, journal, Fault, TurnInv,
       LaneInv, None, IsPending, Pending, Ended, Fresh, InFiles, Writing, Recovering, TypeOK,
       ThreadTypes, JournalTypes, SagaTypes, RevertAssumption
<1>26. CASE RecoverFilesAgain
  BY <1>26, RevertAssumption, InHand
     DEF RecoverFilesAgain, At, GoTo, Plan, World, Outside, journal, TurnInv,
       LaneInv, None, IsPending, Pending, Ended, Fresh, InFiles, Writing, Recovering, TypeOK,
       ThreadTypes, JournalTypes, SagaTypes, RevertAssumption
<1>27. CASE RecoverUnmoved
  BY <1>27, RevertAssumption, InHand
     DEF RecoverUnmoved, At, GoTo, World, Outside, journal, AfterRewind, KeepsFiles, TurnsAfter,
       TurnInv, LaneInv, None, IsPending, Pending, Ended, Fresh, InFiles,
       Writing, Recovering, TypeOK, ThreadTypes, JournalTypes, SagaTypes, RevertAssumption
<1>28. CASE RecoverUnread
  BY <1>28, RevertAssumption, InHand
     DEF RecoverUnread, At, GoTo, Plan, World, Outside, journal, Fault, TurnInv,
       LaneInv, None, IsPending, Pending, Ended, Fresh, InFiles, Writing,
       Recovering, TypeOK, ThreadTypes, JournalTypes, SagaTypes, RevertAssumption
<1>29. CASE EndStep
  BY <1>29, RevertAssumption, InHand, EndStepEffect
     DEF Rest, Outside, Forget, NoFault, Fault, TurnInv, LaneInv, None,
       IsPending, Pending, Ended, Fresh, InFiles, Writing, Recovering, TypeOK, ThreadTypes,
       JournalTypes, SagaTypes, RevertAssumption
<1>30. CASE Crash
  BY <1>30, RevertAssumption, InHand
     DEF Crash, journal, TurnInv, LaneInv, None, IsPending, Pending, Ended,
       Fresh, InFiles, Writing, Recovering, TypeOK, ThreadTypes, JournalTypes, SagaTypes,
       RevertAssumption
<1>31. CASE Boot
  BY <1>31, RevertAssumption, InHand
     DEF Boot, Unlisted, Plan, conversation, checkout, journal, ghosts, TurnInv,
       LaneInv, None, IsPending, Pending, Ended, Fresh, InFiles, Writing, Recovering, TypeOK,
       ThreadTypes, JournalTypes, SagaTypes, RevertAssumption
<1> QED
  BY <1>1, <1>2, <1>3, <1>4, <1>5, <1>6, <1>7, <1>8, <1>9, <1>10, <1>11, <1>12, <1>13, <1>14, <1>15, <1>16, <1>17, <1>18, <1>19, <1>20, <1>21, <1>22, <1>23, <1>24, <1>25, <1>26, <1>27, <1>28, <1>29, <1>30, <1>31 DEF Next, SagaStep, LiveStep, RewindStep,
    FilesStep, FinishStep, RecoveryStep, EndStep

\* The first snapshot of a revert is kept until its files are restored.
LEMMA SnapshotStep ==
  ASSUME TypeOK, LaneInv, FreshInv, SnapshotInv, Next
  PROVE  SnapshotInv'
<1>1. CASE \E r \in Reverts, scope \in Scopes, k \in 0 .. Len(history) : Request(r, scope, k)
  <2>1. PICK r \in Reverts, scope \in Scopes, k \in 0 .. Len(history) : Request(r, scope, k)
    BY <1>1
  <2>2. row[r].status = "none" /\ \A q \in Reverts \ {r} : row'[q] = row[q]
    BY <2>1, RequestEffect DEF TypeOK, ThreadTypes
  <2>3. UNCHANGED <<cur, pc, phase, saving, todo, did, first, rescue, refs, history>>
    BY <2>1 DEF Request, saga, ghosts, checkout, conversation
  <2>4. pc # "idle" => cur \in Reverts /\ row'[cur] = row[cur]
    BY <2>2, InHand, RevertAssumption DEF LaneInv, IsPending, Pending, None, RevertAssumption
  <2> QED
    BY <2>3, <2>4 DEF SnapshotInv, Writing, Recovering, TargetTree, TurnAt
<1>2. CASE StartStep
  <2>1. UNCHANGED <<history, refs, rescue, did, first, phase, pc, cur, saving, todo>>
    BY <1>2, StartEffect
  <2>2. pc # "idle" => cur \in Reverts /\ row'[cur].target = row[cur].target
    BY <1>2, InHand, StartEffect
  <2>3. pc # "idle" => TargetTree' = TargetTree
    BY <2>1, <2>2 DEF TargetTree, TurnAt
  <2> QED
    BY <2>1, <2>3 DEF SnapshotInv, Writing, Recovering
<1>3. CASE EnsureBaseline
  BY <1>3, BaselineEffect, RevertAssumption
     DEF SnapshotInv, LaneInv, FreshInv, None, Fresh, InFiles, Writing, Recovering, Snapshots,
       TargetTree, TurnAt, Resumed, TypeOK, JournalTypes, CheckoutTypes, SagaTypes, GhostTypes,
       RevertAssumption
<1>4. CASE EndTurn
  BY <1>4, RevertAssumption, InHand, TouchedTypes
     DEF EndTurn, saga, ghosts, SnapshotInv, LaneInv, FreshInv, None, Fresh, InFiles, Writing,
       Recovering, Snapshots, TargetTree, TurnAt, Resumed, TypeOK, JournalTypes, CheckoutTypes,
       SagaTypes, GhostTypes, RevertAssumption
<1>5. CASE Edit
  BY <1>5, RevertAssumption, InHand
     DEF Edit, conversation, journal, saga, ghosts, SnapshotInv, LaneInv, FreshInv, None, Fresh,
       InFiles, Writing, Recovering, Snapshots, TargetTree, TurnAt, Resumed, TypeOK,
       JournalTypes, CheckoutTypes, SagaTypes, GhostTypes, RevertAssumption
<1>6. CASE Age
  BY <1>6, RevertAssumption, InHand, AgeEffect
     DEF Age, conversation, checkout, saga, Blocked, SnapshotInv, LaneInv, FreshInv, None,
       Fresh, InFiles, Writing, Recovering, Snapshots, TargetTree, TurnAt, Resumed, TypeOK,
       JournalTypes, CheckoutTypes, SagaTypes, GhostTypes, RevertAssumption
<1>7. CASE Take
  BY <1>7, RevertAssumption, InHand
     DEF Take, conversation, checkout, journal, ghosts, SnapshotInv, LaneInv, FreshInv, None,
       Fresh, InFiles, Writing, Recovering, Snapshots, TargetTree, TurnAt, Resumed, TypeOK,
       JournalTypes, CheckoutTypes, SagaTypes, GhostTypes, RevertAssumption
<1>8. CASE Refuse
  BY <1>8, RevertAssumption, InHand
     DEF Refuse, GoTo, Plan, World, Outside, journal, SnapshotInv, LaneInv, FreshInv, None,
       Fresh, InFiles, Writing, Recovering, Snapshots, TargetTree, TurnAt, Resumed, TypeOK,
       JournalTypes, CheckoutTypes, SagaTypes, GhostTypes, RevertAssumption
<1>9. CASE Admit
  BY <1>9, RevertAssumption, InHand
     DEF Admit, GoTo, World, Outside, journal, TurnsAfter, TurnAt, SnapshotInv, LaneInv,
       FreshInv, None, Fresh, InFiles, Writing, Recovering, Snapshots, TargetTree, Resumed,
       TypeOK, JournalTypes, CheckoutTypes, SagaTypes, GhostTypes, RevertAssumption
<1>10. CASE JournalFirst
  BY <1>10, RevertAssumption, InHand, PhaseEffect
     DEF JournalFirst, GoTo, Plan, World, Outside, journal, Fault, NoFault, SnapshotInv,
       LaneInv, FreshInv, None, Fresh, InFiles, Writing, Recovering, Snapshots, TargetTree,
       TurnAt, Resumed, TypeOK, JournalTypes, CheckoutTypes, SagaTypes, GhostTypes,
       RevertAssumption
<1>11. CASE RewindStep
  BY <1>11, RewindEffect, RevertAssumption
     DEF SnapshotInv, LaneInv, FreshInv, None, Fresh, InFiles, Writing, Recovering, Snapshots,
       TargetTree, TurnAt, Resumed, TypeOK, JournalTypes, CheckoutTypes, SagaTypes, GhostTypes,
       RevertAssumption
<1>12. CASE Announce
  <2>1. cur \in Reverts /\ pc = "announce" /\ pc' \in {"prune", "restore"} /\ ~Recovering
    BY <1>12, InHand DEF Announce, GoTo, AfterRewind, LaneInv, Recovering
  <2>2. UNCHANGED <<cur, phase, saving, todo, did, first, rescue>>
    BY <1>12 DEF Announce, GoTo, World, Plan
  <2> QED
    BY <2>1, <2>2 DEF SnapshotInv, Writing, Recovering
<1>13. CASE LeaveAsFound
  BY <1>13, RevertAssumption, InHand
     DEF LeaveAsFound, GoTo, World, Outside, journal, Untouched, AfterFiles, SnapshotInv,
       LaneInv, FreshInv, None, Fresh, InFiles, Writing, Recovering, Snapshots, TargetTree,
       TurnAt, Resumed, TypeOK, JournalTypes, CheckoutTypes, SagaTypes, GhostTypes,
       RevertAssumption
<1>14. CASE ProbeFails
  BY <1>14, RevertAssumption, InHand
     DEF ProbeFails, GoTo, World, Outside, journal, Untouched, AfterFiles, Fault, SnapshotInv,
       LaneInv, FreshInv, None, Fresh, InFiles, Writing, Recovering, Snapshots, TargetTree,
       TurnAt, Resumed, TypeOK, JournalTypes, CheckoutTypes, SagaTypes, GhostTypes,
       RevertAssumption
<1>15. CASE Save
  <2>1. cur \in Reverts /\ files \in Trees \ {None} /\ saving' \in Snapshots
    BY <1>15, InHand, RevertAssumption DEF Save, TypeOK, CheckoutTypes, Trees, None, Torn, Snapshots, RevertAssumption
  <2>2. /\ \A r \in Reverts \ {cur} : rescue'[r] = rescue[r] /\ first'[r] = first[r] /\ did'[r] = did[r]
        /\ did'[cur] \in {did[cur], did[cur] \cup {"restored"}}
    BY <1>15, <2>1 DEF Save, TypeOK, CheckoutTypes, GhostTypes
  <2>3. UNCHANGED <<cur, phase, row, history, refs>> /\ pc = "restore" /\ TargetTree # None
    BY <1>15 DEF Save, GoTo, journal
  <2>4. \/ pc' = "write" /\ did' = did
        \/ pc' = "drop" /\ "restored" \in did'[cur]
    BY <1>15, <2>1 DEF Save, GoTo, TypeOK, GhostTypes
  <2>5. CASE Resumed
    <3>1. saving' = "recovery" /\ first' = first
      BY <1>15, <2>5 DEF Save
    <3>2. rescue'[cur]["revert"] = rescue[cur]["revert"] /\ rescue'[cur]["recovery"] = files
      BY <1>15, <2>1, <3>1 DEF Save, TypeOK, CheckoutTypes, Snapshots
    <3>3. rescue[cur]["revert"] # None
      BY <2>5 DEF Resumed
    <3> QED
      BY <2>1, <2>2, <2>3, <2>4, <2>5, <3>1, <3>2, <3>3 DEF SnapshotInv, Writing, TargetTree, TurnAt, Resumed, Recovering
  <2>6. CASE ~Resumed
    <3>1. saving' = "revert" /\ rescue'[cur]["revert"] = files
      BY <1>15, <2>1, <2>6 DEF Save, TypeOK, CheckoutTypes, Snapshots
    <3>2. "wrote" \in did[cur] => "restored" \in did[cur]
      BY <2>1, <2>3, <2>6 DEF SnapshotInv, Resumed
    <3>3. "wrote" \notin did[cur] => first'[cur] = files
      BY <1>15, <2>1, <2>6 DEF Save, TypeOK, GhostTypes
    <3> QED
      BY <2>1, <2>2, <2>3, <2>4, <3>1, <3>2, <3>3 DEF SnapshotInv, Writing, TargetTree, TurnAt, Recovering
  <2> QED
    BY <2>5, <2>6
<1>16. CASE WriteBegins
  BY <1>16, RevertAssumption, InHand
     DEF WriteBegins, GoTo, Plan, Outside, journal, SnapshotInv, LaneInv, FreshInv, None, Fresh,
       InFiles, Writing, Recovering, Snapshots, TargetTree, TurnAt, Resumed, TypeOK,
       JournalTypes, CheckoutTypes, SagaTypes, GhostTypes, RevertAssumption
<1>17. CASE WriteEnds
  BY <1>17, RevertAssumption, InHand
     DEF WriteEnds, GoTo, Outside, journal, Saved, SnapshotInv, LaneInv, FreshInv, None, Fresh,
       InFiles, Writing, Recovering, Snapshots, TargetTree, TurnAt, Resumed, TypeOK,
       JournalTypes, CheckoutTypes, SagaTypes, GhostTypes, RevertAssumption
<1>18. CASE WriteUnresolved
  BY <1>18, RevertAssumption, InHand
     DEF WriteUnresolved, GoTo, World, Outside, journal, Untouched, Fault, SnapshotInv, LaneInv,
       FreshInv, None, Fresh, InFiles, Writing, Recovering, Snapshots, TargetTree, TurnAt,
       Resumed, TypeOK, JournalTypes, CheckoutTypes, SagaTypes, GhostTypes, RevertAssumption
<1>19. CASE WriteFails
  BY <1>19, RevertAssumption, InHand
     DEF WriteFails, GoTo, Plan, World, Outside, journal, Fault, SnapshotInv, LaneInv, FreshInv,
       None, Fresh, InFiles, Writing, Recovering, Snapshots, TargetTree, TurnAt, Resumed,
       TypeOK, JournalTypes, CheckoutTypes, SagaTypes, GhostTypes, RevertAssumption
<1>20. CASE PutBack
  BY <1>20, RevertAssumption, InHand
     DEF PutBack, GoTo, Outside, journal, Untouched, SnapshotInv, LaneInv, FreshInv, None,
       Fresh, InFiles, Writing, Recovering, Snapshots, TargetTree, TurnAt, Resumed, TypeOK,
       JournalTypes, CheckoutTypes, SagaTypes, GhostTypes, RevertAssumption
<1>21. CASE PutBackFails
  BY <1>21, RevertAssumption, InHand
     DEF PutBackFails, GoTo, World, Outside, journal, Saved, AfterFiles, Fault, SnapshotInv,
       LaneInv, FreshInv, None, Fresh, InFiles, Writing, Recovering, Snapshots, TargetTree,
       TurnAt, Resumed, TypeOK, JournalTypes, CheckoutTypes, SagaTypes, GhostTypes,
       RevertAssumption
<1>22. CASE \E s \in Snapshots : Discard(s)
  BY <1>22, RevertAssumption, InHand
     DEF Discard, GoTo, Outside, journal, AfterFiles, Fault, NoFault, SnapshotInv, LaneInv,
       FreshInv, None, Fresh, InFiles, Writing, Recovering, Snapshots, TargetTree, TurnAt,
       Resumed, TypeOK, JournalTypes, CheckoutTypes, SagaTypes, GhostTypes, RevertAssumption
<1>23. CASE Prune
  BY <1>23, RevertAssumption, InHand
     DEF Prune, GoTo, Plan, Outside, journal, Fault, NoFault, SnapshotInv, LaneInv, FreshInv,
       None, Fresh, InFiles, Writing, Recovering, Snapshots, TargetTree, TurnAt, Resumed,
       TypeOK, JournalTypes, CheckoutTypes, SagaTypes, GhostTypes, RevertAssumption
<1>24. CASE Project
  BY <1>24, RevertAssumption, InHand
     DEF Project, GoTo, Plan, Outside, journal, NoFault, SnapshotInv, LaneInv, FreshInv, None,
       Fresh, InFiles, Writing, Recovering, Snapshots, TargetTree, TurnAt, Resumed, TypeOK,
       JournalTypes, CheckoutTypes, SagaTypes, GhostTypes, RevertAssumption
<1>25. CASE ProjectFails
  BY <1>25, RevertAssumption, InHand
     DEF ProjectFails, Rest, World, Outside, journal, Fault, SnapshotInv, LaneInv, FreshInv,
       None, Fresh, InFiles, Writing, Recovering, Snapshots, TargetTree, TurnAt, Resumed,
       TypeOK, JournalTypes, CheckoutTypes, SagaTypes, GhostTypes, RevertAssumption
<1>26. CASE RecoverFilesAgain
  BY <1>26, RevertAssumption, InHand
     DEF RecoverFilesAgain, At, GoTo, Plan, World, Outside, journal, SnapshotInv, LaneInv,
       FreshInv, None, Fresh, InFiles, Writing, Recovering, Snapshots, TargetTree, TurnAt,
       Resumed, TypeOK, JournalTypes, CheckoutTypes, SagaTypes, GhostTypes, RevertAssumption
<1>27. CASE RecoverUnmoved
  BY <1>27, RevertAssumption, InHand
     DEF RecoverUnmoved, At, GoTo, World, Outside, journal, AfterRewind, KeepsFiles, TurnsAfter,
       SnapshotInv, LaneInv, FreshInv, None, Fresh, InFiles, Writing, Recovering, Snapshots,
       TargetTree, TurnAt, Resumed, TypeOK, JournalTypes, CheckoutTypes, SagaTypes, GhostTypes,
       RevertAssumption
<1>28. CASE RecoverUnread
  BY <1>28, RevertAssumption, InHand
     DEF RecoverUnread, At, GoTo, Plan, World, Outside, journal, Fault, SnapshotInv, LaneInv,
       FreshInv, None, Fresh, InFiles, Writing, Recovering, Snapshots, TargetTree, TurnAt,
       Resumed, TypeOK, JournalTypes, CheckoutTypes, SagaTypes, GhostTypes, RevertAssumption
<1>29. CASE EndStep
  <2>1. /\ cur \in Reverts /\ pc' = "idle"
        /\ UNCHANGED <<first, rescue>>
    BY <1>29, EndStepEffect DEF Rest
  <2>2. \A r \in Reverts : did'[r] = did[r] \/ did'[r] = did[r] \cup {"rewound"}
    BY <1>29, <2>1, EndStepEffect DEF Forget, TypeOK, GhostTypes
  <2> QED
    BY <2>1, <2>2 DEF SnapshotInv, Writing
<1>30. CASE Crash
  BY <1>30, RevertAssumption, InHand
     DEF Crash, journal, SnapshotInv, LaneInv, FreshInv, None, Fresh, InFiles, Writing,
       Recovering, Snapshots, TargetTree, TurnAt, Resumed, TypeOK, JournalTypes, CheckoutTypes,
       SagaTypes, GhostTypes, RevertAssumption
<1>31. CASE Boot
  BY <1>31, RevertAssumption, InHand
     DEF Boot, Unlisted, Plan, conversation, checkout, journal, ghosts, SnapshotInv, LaneInv, FreshInv,
       None, Fresh, InFiles, Writing, Recovering, Snapshots, TargetTree, TurnAt, Resumed,
       TypeOK, JournalTypes, CheckoutTypes, SagaTypes, GhostTypes, RevertAssumption
<1> QED
  BY <1>1, <1>2, <1>3, <1>4, <1>5, <1>6, <1>7, <1>8, <1>9, <1>10, <1>11, <1>12, <1>13, <1>14, <1>15, <1>16, <1>17, <1>18, <1>19, <1>20, <1>21, <1>22, <1>23, <1>24, <1>25, <1>26, <1>27, <1>28, <1>29, <1>30, <1>31 DEF Next, SagaStep, LiveStep, RewindStep,
    FilesStep, FinishStep, RecoveryStep, EndStep

\* What is about to be said goes on naming the snapshot.
LEMMA NamedStep ==
  ASSUME TypeOK, LaneInv, FreshInv, SnapshotInv, NamedInv, Next
  PROVE  NamedInv'
<1>1. CASE \E r \in Reverts, scope \in Scopes, k \in 0 .. Len(history) : Request(r, scope, k)
  BY <1>1, RevertAssumption, InHand, RequestEffect
     DEF Request, conversation, checkout, saga, ghosts, Blocked, SnapshotInv, NamedInv,
       FreshInv, LaneInv, None, Fresh, InFiles, Writing, Recovering, Snapshots, NoResult,
       Present, TypeOK, CheckoutTypes, SagaTypes, GhostTypes, RevertAssumption
<1>2. CASE StartStep
  BY <1>2, StartEffect, RevertAssumption, InHand
     DEF SnapshotInv, NamedInv, FreshInv, LaneInv, None, Fresh, InFiles, Writing, Recovering,
       Snapshots, NoResult, Present, TypeOK, CheckoutTypes, SagaTypes, GhostTypes,
       RevertAssumption
<1>3. CASE EnsureBaseline
  BY <1>3, BaselineEffect, RevertAssumption
     DEF SnapshotInv, NamedInv, FreshInv, LaneInv, None, Fresh, InFiles, Writing, Recovering,
       Snapshots, NoResult, Present, TypeOK, CheckoutTypes, SagaTypes, GhostTypes,
       RevertAssumption
<1>4. CASE EndTurn
  BY <1>4, RevertAssumption, InHand, TouchedTypes
     DEF EndTurn, saga, ghosts, SnapshotInv, NamedInv, FreshInv, LaneInv, None, Fresh, InFiles,
       Writing, Recovering, Snapshots, NoResult, Present, TypeOK, CheckoutTypes, SagaTypes,
       GhostTypes, RevertAssumption
<1>5. CASE Edit
  BY <1>5, RevertAssumption, InHand
     DEF Edit, conversation, journal, saga, ghosts, SnapshotInv, NamedInv, FreshInv, LaneInv,
       None, Fresh, InFiles, Writing, Recovering, Snapshots, NoResult, Present, TypeOK,
       CheckoutTypes, SagaTypes, GhostTypes, RevertAssumption
<1>6. CASE Age
  BY <1>6, RevertAssumption, InHand, AgeEffect
     DEF Age, conversation, checkout, saga, Blocked, SnapshotInv, NamedInv, FreshInv, LaneInv,
       None, Fresh, InFiles, Writing, Recovering, Snapshots, NoResult, Present, TypeOK,
       CheckoutTypes, SagaTypes, GhostTypes, RevertAssumption
<1>7. CASE Take
  BY <1>7, RevertAssumption, InHand
     DEF Take, conversation, checkout, journal, ghosts, SnapshotInv, NamedInv, FreshInv,
       LaneInv, None, Fresh, InFiles, Writing, Recovering, Snapshots, NoResult, Present, TypeOK,
       CheckoutTypes, SagaTypes, GhostTypes, RevertAssumption
<1>8. CASE Refuse
  BY <1>8, RevertAssumption, InHand
     DEF Refuse, GoTo, Plan, World, Outside, journal, SnapshotInv, NamedInv, FreshInv, LaneInv,
       None, Fresh, InFiles, Writing, Recovering, Snapshots, NoResult, Present, TypeOK,
       CheckoutTypes, SagaTypes, GhostTypes, RevertAssumption
<1>9. CASE Admit
  BY <1>9, RevertAssumption, InHand
     DEF Admit, GoTo, World, Outside, journal, TurnsAfter, TurnAt, SnapshotInv, NamedInv,
       FreshInv, LaneInv, None, Fresh, InFiles, Writing, Recovering, Snapshots, NoResult,
       Present, TypeOK, CheckoutTypes, SagaTypes, GhostTypes, RevertAssumption
<1>10. CASE JournalFirst
  BY <1>10, RevertAssumption, InHand, PhaseEffect
     DEF JournalFirst, GoTo, Plan, World, Outside, journal, Fault, NoFault, SnapshotInv,
       NamedInv, FreshInv, LaneInv, None, Fresh, InFiles, Writing, Recovering, Snapshots,
       NoResult, Present, TypeOK, CheckoutTypes, SagaTypes, GhostTypes, RevertAssumption
<1>11. CASE RewindStep
  BY <1>11, RewindEffect, RevertAssumption
     DEF SnapshotInv, NamedInv, FreshInv, LaneInv, None, Fresh, InFiles, Writing, Recovering,
       Snapshots, NoResult, Present, TypeOK, CheckoutTypes, SagaTypes, GhostTypes,
       RevertAssumption
<1>12. CASE Announce
  BY <1>12, RevertAssumption, InHand, PhaseEffect
     DEF Announce, GoTo, Plan, World, Outside, journal, Fault, NoFault, AfterRewind,
       SnapshotInv, NamedInv, FreshInv, LaneInv, None, Fresh, InFiles, Writing, Recovering,
       Snapshots, NoResult, Present, TypeOK, CheckoutTypes, SagaTypes, GhostTypes,
       RevertAssumption
<1>13. CASE LeaveAsFound
  BY <1>13, RevertAssumption, InHand
     DEF LeaveAsFound, GoTo, World, Outside, journal, Untouched, AfterFiles, SnapshotInv,
       NamedInv, FreshInv, LaneInv, None, Fresh, InFiles, Writing, Recovering, Snapshots,
       NoResult, Present, TypeOK, CheckoutTypes, SagaTypes, GhostTypes, RevertAssumption
<1>14. CASE ProbeFails
  BY <1>14, RevertAssumption, InHand
     DEF ProbeFails, GoTo, World, Outside, journal, Untouched, AfterFiles, Fault, SnapshotInv,
       NamedInv, FreshInv, LaneInv, None, Fresh, InFiles, Writing, Recovering, Snapshots,
       NoResult, Present, TypeOK, CheckoutTypes, SagaTypes, GhostTypes, RevertAssumption
<1>15. CASE Save
  BY <1>15, RevertAssumption, InHand
     DEF Save, GoTo, Outside, journal, SnapshotInv, NamedInv, FreshInv, LaneInv, None, Fresh,
       InFiles, Writing, Recovering, Snapshots, NoResult, Present, TypeOK, CheckoutTypes,
       SagaTypes, GhostTypes, RevertAssumption
<1>16. CASE WriteBegins
  BY <1>16, RevertAssumption, InHand
     DEF WriteBegins, GoTo, Plan, Outside, journal, SnapshotInv, NamedInv, FreshInv, LaneInv,
       None, Fresh, InFiles, Writing, Recovering, Snapshots, NoResult, Present, TypeOK,
       CheckoutTypes, SagaTypes, GhostTypes, RevertAssumption
<1>17. CASE WriteEnds
  BY <1>17, RevertAssumption, InHand
     DEF WriteEnds, GoTo, Outside, journal, Saved, SnapshotInv, NamedInv, FreshInv, LaneInv,
       None, Fresh, InFiles, Writing, Recovering, Snapshots, NoResult, Present, TypeOK,
       CheckoutTypes, SagaTypes, GhostTypes, RevertAssumption
<1>18. CASE WriteUnresolved
  BY <1>18, RevertAssumption, InHand
     DEF WriteUnresolved, GoTo, World, Outside, journal, Untouched, Fault, SnapshotInv,
       NamedInv, FreshInv, LaneInv, None, Fresh, InFiles, Writing, Recovering, Snapshots,
       NoResult, Present, TypeOK, CheckoutTypes, SagaTypes, GhostTypes, RevertAssumption
<1>19. CASE WriteFails
  BY <1>19, RevertAssumption, InHand
     DEF WriteFails, GoTo, Plan, World, Outside, journal, Fault, SnapshotInv, NamedInv,
       FreshInv, LaneInv, None, Fresh, InFiles, Writing, Recovering, Snapshots, NoResult,
       Present, TypeOK, CheckoutTypes, SagaTypes, GhostTypes, RevertAssumption
<1>20. CASE PutBack
  BY <1>20, RevertAssumption, InHand
     DEF PutBack, GoTo, Outside, journal, Untouched, SnapshotInv, NamedInv, FreshInv, LaneInv,
       None, Fresh, InFiles, Writing, Recovering, Snapshots, NoResult, Present, TypeOK,
       CheckoutTypes, SagaTypes, GhostTypes, RevertAssumption
<1>21. CASE PutBackFails
  BY <1>21, RevertAssumption, InHand
     DEF PutBackFails, GoTo, World, Outside, journal, Saved, AfterFiles, Fault, SnapshotInv,
       NamedInv, FreshInv, LaneInv, None, Fresh, InFiles, Writing, Recovering, Snapshots,
       NoResult, Present, TypeOK, CheckoutTypes, SagaTypes, GhostTypes, RevertAssumption
<1>22. CASE \E s \in Snapshots : Discard(s)
  BY <1>22, RevertAssumption, InHand
     DEF Discard, GoTo, Outside, journal, AfterFiles, Fault, NoFault, SnapshotInv, NamedInv,
       FreshInv, LaneInv, None, Fresh, InFiles, Writing, Recovering, Snapshots, NoResult,
       Present, TypeOK, CheckoutTypes, SagaTypes, GhostTypes, RevertAssumption
<1>23. CASE Prune
  BY <1>23, RevertAssumption, InHand
     DEF Prune, GoTo, Plan, Outside, journal, Fault, NoFault, SnapshotInv, NamedInv, FreshInv,
       LaneInv, None, Fresh, InFiles, Writing, Recovering, Snapshots, NoResult, Present, TypeOK,
       CheckoutTypes, SagaTypes, GhostTypes, RevertAssumption
<1>24. CASE Project
  BY <1>24, RevertAssumption, InHand
     DEF Project, GoTo, Plan, Outside, journal, NoFault, SnapshotInv, NamedInv, FreshInv,
       LaneInv, None, Fresh, InFiles, Writing, Recovering, Snapshots, NoResult, Present, TypeOK,
       CheckoutTypes, SagaTypes, GhostTypes, RevertAssumption
<1>25. CASE ProjectFails
  BY <1>25, RevertAssumption, InHand
     DEF ProjectFails, Rest, World, Outside, journal, Fault, SnapshotInv, NamedInv, FreshInv,
       LaneInv, None, Fresh, InFiles, Writing, Recovering, Snapshots, NoResult, Present, TypeOK,
       CheckoutTypes, SagaTypes, GhostTypes, RevertAssumption
<1>26. CASE RecoverFilesAgain
  BY <1>26, RevertAssumption, InHand
     DEF RecoverFilesAgain, At, GoTo, Plan, World, Outside, journal, SnapshotInv, NamedInv,
       FreshInv, LaneInv, None, Fresh, InFiles, Writing, Recovering, Snapshots, NoResult,
       Present, TypeOK, CheckoutTypes, SagaTypes, GhostTypes, RevertAssumption
<1>27. CASE RecoverUnmoved
  <2>1. cur \in Reverts /\ pc' # "unread" /\ UNCHANGED <<cur, did, excused>>
    BY <1>27, InHand DEF RecoverUnmoved, At, GoTo, AfterRewind, World
  <2>2. "wrote" \in did[cur] /\ "restored" \notin did[cur] => "revert" \in Present
    BY <2>1 DEF SnapshotInv, Present, Snapshots
  <2>3. \/ result' = [files |-> "maybe", named |-> Present] /\ pc' \in {"report", "prune"}
        \/ result' = result
    BY <1>27 DEF RecoverUnmoved, GoTo
  <2>4. result.files = "unsaid"
    BY <1>27 DEF RecoverUnmoved, At, NamedInv
  <2> QED
    BY <2>1, <2>2, <2>3, <2>4 DEF NamedInv
<1>28. CASE RecoverUnread
  BY <1>28, RevertAssumption, InHand
     DEF RecoverUnread, At, GoTo, Plan, World, Outside, journal, Fault, SnapshotInv, NamedInv,
       FreshInv, LaneInv, None, Fresh, InFiles, Writing, Recovering, Snapshots, NoResult,
       Present, TypeOK, CheckoutTypes, SagaTypes, GhostTypes, RevertAssumption
<1>29. CASE EndStep
  BY <1>29, RevertAssumption, InHand, EndStepEffect
     DEF Rest, Outside, Forget, NoFault, Fault, SnapshotInv, NamedInv, FreshInv, LaneInv, None,
       Fresh, InFiles, Writing, Recovering, Snapshots, NoResult, Present, TypeOK, CheckoutTypes,
       SagaTypes, GhostTypes, RevertAssumption
<1>30. CASE Crash
  BY <1>30, RevertAssumption, InHand
     DEF Crash, journal, SnapshotInv, NamedInv, FreshInv, LaneInv, None, Fresh, InFiles,
       Writing, Recovering, Snapshots, NoResult, Present, TypeOK, CheckoutTypes, SagaTypes,
       GhostTypes, RevertAssumption
<1>31. CASE Boot
  BY <1>31, RevertAssumption, InHand
     DEF Boot, Unlisted, Plan, conversation, checkout, journal, ghosts, SnapshotInv, NamedInv, FreshInv,
       LaneInv, None, Fresh, InFiles, Writing, Recovering, Snapshots, NoResult, Present, TypeOK,
       CheckoutTypes, SagaTypes, GhostTypes, RevertAssumption
<1> QED
  BY <1>1, <1>2, <1>3, <1>4, <1>5, <1>6, <1>7, <1>8, <1>9, <1>10, <1>11, <1>12, <1>13, <1>14, <1>15, <1>16, <1>17, <1>18, <1>19, <1>20, <1>21, <1>22, <1>23, <1>24, <1>25, <1>26, <1>27, <1>28, <1>29, <1>30, <1>31 DEF Next, SagaStep, LiveStep, RewindStep,
    FilesStep, FinishStep, RecoveryStep, EndStep

\* Nothing is said of the revert in hand.
LEMMA UnsaidInHand ==
  ASSUME TypeOK, LaneInv, cur \in Reverts PROVE says[cur].files = "unsaid"
<1>1. row[cur].status \notin Ended
  BY RevertAssumption DEF LaneInv, IsPending, Pending, Ended, None, RevertAssumption
<1> QED
  BY <1>1 DEF LaneInv, Unsaid, Saying

\* A revert that ends with its files in doubt names the snapshot they are saved in.
LEMMA EndingsName ==
  ASSUME TypeOK, LaneInv, SnapshotInv, NamedInv, EndStep,
         "wrote" \in did[cur], "restored" \notin did[cur], cur \notin excused
  PROVE  says'[cur].files = "maybe" => "revert" \in says'[cur].named
<1> DEFINE Names(sg) == sg \in Sayings /\ (sg.files = "maybe" => "revert" \in sg.named)
<1>1. cur \in Reverts /\ pc # "idle" /\ cur # None
  BY EndingsEnd, RevertAssumption DEF None, RevertAssumption
<1>2. ASSUME NEW st \in Ended, NEW sg, Names(sg), End(st, sg)
      PROVE  says'[cur].files = "maybe" => "revert" \in says'[cur].named
  <2>1. says'[cur] \in {says[cur], sg}
    BY <1>1, <1>2, EndEffect DEF TypeOK
  <2> QED
    BY <1>1, <1>2, <2>1, UnsaidInHand
<1>3. "revert" \in Present /\ Present \subseteq Snapshots
  BY <1>1 DEF SnapshotInv, Present, Snapshots
<1>4. result \in Results /\ (result.files = "maybe" => "revert" \in result.named)
  BY <1>1 DEF NamedInv, TypeOK, SagaTypes
<1> HIDE DEF Names
<1>5. /\ Names(NothingChanged) /\ Names(RewindInDoubt)
      /\ \A a \in {"unsaid", "kept", "maybe", "forgot"}, h \in {"unsaid", "kept", "done"} :
           /\ \A f \in {"unsaid", "kept", "done"} : Names(Saying(a, h, f, {}))
           /\ Names(Saying(a, h, "maybe", Present))
           /\ Names(Saying(a, h, result.files, result.named))
  BY <1>3, <1>4 DEF Names, NothingChanged, RewindInDoubt, Saying, Sayings, Results
<1>6. CASE Fail
  BY <1>2, <1>5, <1>6 DEF Fail, Ended
<1>7. CASE RewindTimesOut
  BY <1>2, <1>5, <1>7 DEF RewindTimesOut, Ended
<1>8. CASE Report
  BY <1>2, <1>5, <1>8 DEF Report, Ended
<1>9. CASE RecoverRequested
  BY <1>2, <1>5, <1>9 DEF RecoverRequested, Ended
<1>10. CASE RecoverRollingBack
  BY <1>2, <1>5, <1>10 DEF RecoverRollingBack, Ended
<1>11. CASE RecoverFilesMoved
  BY <1>2, <1>5, <1>11 DEF RecoverFilesMoved, Ended
<1>12. CASE RecoverReverted
  BY <1>2, <1>5, <1>12 DEF RecoverReverted, Ended
<1>13. CASE RecoverMoved
  BY <1>2, <1>5, <1>13 DEF RecoverMoved, Ended
<1>14. CASE GiveUp
  BY <1>14 DEF GiveUp, NamedInv
<1> QED
  BY <1>6, <1>7, <1>8, <1>9, <1>10, <1>11, <1>12, <1>13, <1>14 DEF EndStep

\* The files from before stay saved, and named.
LEMMA BeforeStep ==
  ASSUME TypeOK, LaneInv, FreshInv, SnapshotInv, NamedInv, FilesFromBeforeAreKept, Next
  PROVE  FilesFromBeforeAreKept'
<1>1. CASE \E r \in Reverts, scope \in Scopes, k \in 0 .. Len(history) : Request(r, scope, k)
  BY <1>1 DEF Request, ghosts, checkout, FilesFromBeforeAreKept
<1>2. CASE StartStep
  BY <1>2, StartEffect, RevertAssumption, InHand
     DEF FilesFromBeforeAreKept, SnapshotInv, FreshInv, NamedInv, LaneInv, None, Fresh, InFiles,
       Writing, Recovering, Snapshots, TypeOK, CheckoutTypes, SagaTypes, GhostTypes,
       RevertAssumption
<1>3. CASE EnsureBaseline
  BY <1>3, BaselineEffect, RevertAssumption
     DEF FilesFromBeforeAreKept, SnapshotInv, FreshInv, NamedInv, LaneInv, None, Fresh, InFiles,
       Writing, Recovering, Snapshots, TypeOK, CheckoutTypes, SagaTypes, GhostTypes,
       RevertAssumption
<1>4. CASE EndTurn
  BY <1>4, RevertAssumption, InHand, TouchedTypes
     DEF EndTurn, saga, ghosts, FilesFromBeforeAreKept, SnapshotInv, FreshInv, NamedInv,
       LaneInv, None, Fresh, InFiles, Writing, Recovering, Snapshots, TypeOK, CheckoutTypes,
       SagaTypes, GhostTypes, RevertAssumption
<1>5. CASE Edit
  BY <1>5, RevertAssumption, InHand
     DEF Edit, conversation, journal, saga, ghosts, FilesFromBeforeAreKept, SnapshotInv,
       FreshInv, NamedInv, LaneInv, None, Fresh, InFiles, Writing, Recovering, Snapshots,
       TypeOK, CheckoutTypes, SagaTypes, GhostTypes, RevertAssumption
<1>6. CASE Age
  BY <1>6, RevertAssumption, InHand, AgeEffect
     DEF Age, conversation, checkout, saga, Blocked, FilesFromBeforeAreKept, SnapshotInv,
       FreshInv, NamedInv, LaneInv, None, Fresh, InFiles, Writing, Recovering, Snapshots,
       TypeOK, CheckoutTypes, SagaTypes, GhostTypes, RevertAssumption
<1>7. CASE Take
  BY <1>7, RevertAssumption, InHand
     DEF Take, conversation, checkout, journal, ghosts, FilesFromBeforeAreKept, SnapshotInv,
       FreshInv, NamedInv, LaneInv, None, Fresh, InFiles, Writing, Recovering, Snapshots,
       TypeOK, CheckoutTypes, SagaTypes, GhostTypes, RevertAssumption
<1>8. CASE Refuse
  BY <1>8, RevertAssumption, InHand
     DEF Refuse, GoTo, Plan, World, Outside, journal, FilesFromBeforeAreKept, SnapshotInv,
       FreshInv, NamedInv, LaneInv, None, Fresh, InFiles, Writing, Recovering, Snapshots,
       TypeOK, CheckoutTypes, SagaTypes, GhostTypes, RevertAssumption
<1>9. CASE Admit
  BY <1>9, RevertAssumption, InHand
     DEF Admit, GoTo, World, Outside, journal, TurnsAfter, TurnAt, FilesFromBeforeAreKept,
       SnapshotInv, FreshInv, NamedInv, LaneInv, None, Fresh, InFiles, Writing, Recovering,
       Snapshots, TypeOK, CheckoutTypes, SagaTypes, GhostTypes, RevertAssumption
<1>10. CASE JournalFirst
  BY <1>10, RevertAssumption, InHand, PhaseEffect
     DEF JournalFirst, GoTo, Plan, World, Outside, journal, Fault, NoFault,
       FilesFromBeforeAreKept, SnapshotInv, FreshInv, NamedInv, LaneInv, None, Fresh, InFiles,
       Writing, Recovering, Snapshots, TypeOK, CheckoutTypes, SagaTypes, GhostTypes,
       RevertAssumption
<1>11. CASE RewindStep
  BY <1>11, RewindEffect, RevertAssumption
     DEF FilesFromBeforeAreKept, SnapshotInv, FreshInv, NamedInv, LaneInv, None, Fresh, InFiles,
       Writing, Recovering, Snapshots, TypeOK, CheckoutTypes, SagaTypes, GhostTypes,
       RevertAssumption
<1>12. CASE Announce
  BY <1>12, RevertAssumption, InHand, PhaseEffect
     DEF Announce, GoTo, Plan, World, Outside, journal, Fault, NoFault, AfterRewind,
       FilesFromBeforeAreKept, SnapshotInv, FreshInv, NamedInv, LaneInv, None, Fresh, InFiles,
       Writing, Recovering, Snapshots, TypeOK, CheckoutTypes, SagaTypes, GhostTypes,
       RevertAssumption
<1>13. CASE LeaveAsFound
  BY <1>13, RevertAssumption, InHand
     DEF LeaveAsFound, GoTo, World, Outside, journal, Untouched, AfterFiles,
       FilesFromBeforeAreKept, SnapshotInv, FreshInv, NamedInv, LaneInv, None, Fresh, InFiles,
       Writing, Recovering, Snapshots, TypeOK, CheckoutTypes, SagaTypes, GhostTypes,
       RevertAssumption
<1>14. CASE ProbeFails
  BY <1>14, RevertAssumption, InHand
     DEF ProbeFails, GoTo, World, Outside, journal, Untouched, AfterFiles, Fault,
       FilesFromBeforeAreKept, SnapshotInv, FreshInv, NamedInv, LaneInv, None, Fresh, InFiles,
       Writing, Recovering, Snapshots, TypeOK, CheckoutTypes, SagaTypes, GhostTypes,
       RevertAssumption
<1>15. CASE Save
  <2>1. cur \in Reverts /\ UNCHANGED <<says, excused>>
    BY <1>15, InHand DEF Save, journal
  <2>2. says[cur].files # "maybe"
    BY <2>1, UnsaidInHand
  <2>3. \A r \in Reverts \ {cur} : did'[r] = did[r]
    BY <1>15, <2>1 DEF Save, TypeOK, GhostTypes
  <2>4. \A r \in Reverts : "wrote" \in did'[r] /\ "restored" \notin did'[r] => rescue'[r]["revert"] = first'[r]
    BY SnapshotStep DEF SnapshotInv
  <2> QED
    BY <2>1, <2>2, <2>3, <2>4 DEF FilesFromBeforeAreKept
<1>16. CASE WriteBegins
  <2>1. cur \in Reverts /\ UNCHANGED <<says, excused>>
    BY <1>16, InHand DEF WriteBegins, journal
  <2>2. says[cur].files # "maybe"
    BY <2>1, UnsaidInHand
  <2>3. \A r \in Reverts \ {cur} : did'[r] = did[r]
    BY <1>16, <2>1 DEF WriteBegins, TypeOK, GhostTypes
  <2>4. \A r \in Reverts : "wrote" \in did'[r] /\ "restored" \notin did'[r] => rescue'[r]["revert"] = first'[r]
    BY SnapshotStep DEF SnapshotInv
  <2> QED
    BY <2>1, <2>2, <2>3, <2>4 DEF FilesFromBeforeAreKept
<1>17. CASE WriteEnds
  BY <1>17, RevertAssumption, InHand
     DEF WriteEnds, GoTo, Outside, journal, Saved, FilesFromBeforeAreKept, SnapshotInv,
       FreshInv, NamedInv, LaneInv, None, Fresh, InFiles, Writing, Recovering, Snapshots,
       TypeOK, CheckoutTypes, SagaTypes, GhostTypes, RevertAssumption
<1>18. CASE WriteUnresolved
  BY <1>18, RevertAssumption, InHand
     DEF WriteUnresolved, GoTo, World, Outside, journal, Untouched, Fault,
       FilesFromBeforeAreKept, SnapshotInv, FreshInv, NamedInv, LaneInv, None, Fresh, InFiles,
       Writing, Recovering, Snapshots, TypeOK, CheckoutTypes, SagaTypes, GhostTypes,
       RevertAssumption
<1>19. CASE WriteFails
  BY <1>19, RevertAssumption, InHand
     DEF WriteFails, GoTo, Plan, World, Outside, journal, Fault, FilesFromBeforeAreKept,
       SnapshotInv, FreshInv, NamedInv, LaneInv, None, Fresh, InFiles, Writing, Recovering,
       Snapshots, TypeOK, CheckoutTypes, SagaTypes, GhostTypes, RevertAssumption
<1>20. CASE PutBack
  BY <1>20, RevertAssumption, InHand
     DEF PutBack, GoTo, Outside, journal, Untouched, FilesFromBeforeAreKept, SnapshotInv,
       FreshInv, NamedInv, LaneInv, None, Fresh, InFiles, Writing, Recovering, Snapshots,
       TypeOK, CheckoutTypes, SagaTypes, GhostTypes, RevertAssumption
<1>21. CASE PutBackFails
  BY <1>21, RevertAssumption, InHand
     DEF PutBackFails, GoTo, World, Outside, journal, Saved, AfterFiles, Fault,
       FilesFromBeforeAreKept, SnapshotInv, FreshInv, NamedInv, LaneInv, None, Fresh, InFiles,
       Writing, Recovering, Snapshots, TypeOK, CheckoutTypes, SagaTypes, GhostTypes,
       RevertAssumption
<1>22. CASE \E s \in Snapshots : Discard(s)
  <2>1. cur \in Reverts /\ UNCHANGED <<says, excused>>
    BY <1>22, InHand DEF Discard, journal
  <2>2. says[cur].files # "maybe"
    BY <2>1, UnsaidInHand
  <2>3. \A r \in Reverts \ {cur} : did'[r] = did[r]
    BY <1>22, <2>1 DEF Discard, TypeOK, GhostTypes
  <2>4. \A r \in Reverts : "wrote" \in did'[r] /\ "restored" \notin did'[r] => rescue'[r]["revert"] = first'[r]
    BY SnapshotStep DEF SnapshotInv
  <2> QED
    BY <2>1, <2>2, <2>3, <2>4 DEF FilesFromBeforeAreKept
<1>23. CASE Prune
  BY <1>23, RevertAssumption, InHand
     DEF Prune, GoTo, Plan, Outside, journal, Fault, NoFault, FilesFromBeforeAreKept,
       SnapshotInv, FreshInv, NamedInv, LaneInv, None, Fresh, InFiles, Writing, Recovering,
       Snapshots, TypeOK, CheckoutTypes, SagaTypes, GhostTypes, RevertAssumption
<1>24. CASE Project
  BY <1>24, RevertAssumption, InHand
     DEF Project, GoTo, Plan, Outside, journal, NoFault, FilesFromBeforeAreKept, SnapshotInv,
       FreshInv, NamedInv, LaneInv, None, Fresh, InFiles, Writing, Recovering, Snapshots,
       TypeOK, CheckoutTypes, SagaTypes, GhostTypes, RevertAssumption
<1>25. CASE ProjectFails
  BY <1>25, RevertAssumption, InHand
     DEF ProjectFails, Rest, World, Outside, journal, Fault, FilesFromBeforeAreKept,
       SnapshotInv, FreshInv, NamedInv, LaneInv, None, Fresh, InFiles, Writing, Recovering,
       Snapshots, TypeOK, CheckoutTypes, SagaTypes, GhostTypes, RevertAssumption
<1>26. CASE RecoverFilesAgain
  BY <1>26, RevertAssumption, InHand
     DEF RecoverFilesAgain, At, GoTo, Plan, World, Outside, journal, FilesFromBeforeAreKept,
       SnapshotInv, FreshInv, NamedInv, LaneInv, None, Fresh, InFiles, Writing, Recovering,
       Snapshots, TypeOK, CheckoutTypes, SagaTypes, GhostTypes, RevertAssumption
<1>27. CASE RecoverUnmoved
  BY <1>27, RevertAssumption, InHand
     DEF RecoverUnmoved, At, GoTo, World, Outside, journal, AfterRewind, KeepsFiles, TurnsAfter,
       FilesFromBeforeAreKept, SnapshotInv, FreshInv, NamedInv, LaneInv, None, Fresh, InFiles,
       Writing, Recovering, Snapshots, TypeOK, CheckoutTypes, SagaTypes, GhostTypes,
       RevertAssumption
<1>28. CASE RecoverUnread
  BY <1>28, RevertAssumption, InHand
     DEF RecoverUnread, At, GoTo, Plan, World, Outside, journal, Fault, FilesFromBeforeAreKept,
       SnapshotInv, FreshInv, NamedInv, LaneInv, None, Fresh, InFiles, Writing, Recovering,
       Snapshots, TypeOK, CheckoutTypes, SagaTypes, GhostTypes, RevertAssumption
<1>29. CASE EndStep
  <2>1. /\ cur \in Reverts
        /\ \A r \in Reverts \ {cur} : says'[r] = says[r]
        /\ UNCHANGED <<rescue, first, excused>>
    BY <1>29, EndStepEffect
  <2>2. \A r \in Reverts : did'[r] = did[r] \/ did'[r] = did[r] \cup {"rewound"}
    BY <1>29, <2>1, EndStepEffect DEF Forget, TypeOK, GhostTypes
  <2>3. "wrote" \in did[cur] /\ "restored" \notin did[cur] /\ cur \notin excused
          => (says'[cur].files = "maybe" => "revert" \in says'[cur].named)
    BY <1>29, EndingsName
  <2> QED
    BY <2>1, <2>2, <2>3 DEF FilesFromBeforeAreKept
<1>30. CASE Crash
  BY <1>30, RevertAssumption, InHand
     DEF Crash, journal, FilesFromBeforeAreKept, SnapshotInv, FreshInv, NamedInv, LaneInv, None,
       Fresh, InFiles, Writing, Recovering, Snapshots, TypeOK, CheckoutTypes, SagaTypes,
       GhostTypes, RevertAssumption
<1>31. CASE Boot
  BY <1>31, RevertAssumption, InHand
     DEF Boot, Unlisted, Plan, conversation, checkout, journal, ghosts, FilesFromBeforeAreKept,
       SnapshotInv, FreshInv, NamedInv, LaneInv, None, Fresh, InFiles, Writing, Recovering,
       Snapshots, TypeOK, CheckoutTypes, SagaTypes, GhostTypes, RevertAssumption
<1> QED
  BY <1>1, <1>2, <1>3, <1>4, <1>5, <1>6, <1>7, <1>8, <1>9, <1>10, <1>11, <1>12, <1>13, <1>14, <1>15, <1>16, <1>17, <1>18, <1>19, <1>20, <1>21, <1>22, <1>23, <1>24, <1>25, <1>26, <1>27, <1>28, <1>29, <1>30, <1>31 DEF Next, SagaStep, LiveStep, RewindStep,
    FilesStep, FinishStep, RecoveryStep, EndStep

\* A history that loses nothing loses nothing the agent knows.
LEMMA AgentLacksThem ==
  ASSUME TypeOK, cur \in Reverts, TurnsAfter(row[cur].target) = {}
  PROVE  AgentLacks(row[cur].target)
<1>1. history \in Seq(Turns) /\ row[cur].target \in Nat
  BY DEF TypeOK, ThreadTypes, JournalTypes, Rows
<1>2. \A i \in row[cur].target + 1 .. Len(history) : history[i] \in TurnsAfter(row[cur].target)
  BY DEF TurnsAfter
<1> QED
  BY <1>1, <1>2 DEF AgentLacks

\* An agent that has miscounted has done so for good.
LEMMA CountedBefore ==
  ASSUME TypeOK, LaneInv, Next PROVE Counted' => Counted
<1> SUFFICES ASSUME NEW r \in Reverts PROVE "miscounted" \in did[r] => "miscounted" \in did'[r]
  BY DEF Counted
<1>1. did \in [Reverts -> SUBSET Deeds]
  BY DEF TypeOK, GhostTypes
<1>2. CASE RewindStep
  BY <1>2, RewindEffect
<1>3. CASE EndStep
  BY <1>3, EndStepEffect
<1>4. CASE Save \/ WriteBegins \/ WriteEnds \/ PutBack \/ Project
  <2>1. cur \in Reverts
    BY <1>4, InHand DEF Save, WriteBegins, WriteEnds, PutBack, Project
  <2>2. \/ did' = did \/ did' = [did EXCEPT ![cur] = @ \ {"wrote"}]
        \/ \E deed \in Deeds : did' = [did EXCEPT ![cur] = @ \cup {deed}]
    BY <1>4 DEF Save, WriteBegins, WriteEnds, PutBack, Project, Deeds
  <2> QED
    BY <1>1, <2>1, <2>2
<1>5. CASE \/ \E q \in Reverts, scope \in Scopes, k \in 0 .. Len(history) : Request(q, scope, k)
           \/ StartStep \/ EnsureBaseline \/ EndTurn \/ Edit \/ Age \/ Take \/ Crash \/ Boot
  BY <1>5, StartEffect, BaselineEffect DEF Request, EndTurn, Edit, Age, Take, Crash, Boot, ghosts
<1>6. CASE Refuse \/ Admit \/ JournalFirst \/ Announce
  BY <1>6 DEF Refuse, Admit, JournalFirst, Announce, World
<1>7. CASE \/ LeaveAsFound \/ ProbeFails \/ WriteUnresolved \/ WriteFails \/ PutBackFails
           \/ \E s \in Snapshots : Discard(s)
  BY <1>7 DEF LeaveAsFound, ProbeFails, WriteUnresolved, WriteFails, PutBackFails, Discard, World
<1>8. CASE Prune \/ ProjectFails \/ RecoverFilesAgain \/ RecoverUnmoved \/ RecoverUnread
  BY <1>8 DEF Prune, ProjectFails, RecoverFilesAgain, RecoverUnmoved, RecoverUnread, World
<1> QED
  BY <1>2, <1>3, <1>4, <1>5, <1>6, <1>7, <1>8
  DEF Next, SagaStep, LiveStep, RewindStep, FilesStep, FinishStep, RecoveryStep, EndStep

\* The agent goes on lacking the turns that the history is to lose.
LEMMA AgentStep ==
  ASSUME TypeOK, LaneInv, FreshInv, AgentInv, Next
  PROVE  AgentInv'
<1>0. Counted' => Counted
  BY CountedBefore
<1>1. CASE \E r \in Reverts, scope \in Scopes, k \in 0 .. Len(history) : Request(r, scope, k)
  <2>1. PICK r \in Reverts, scope \in Scopes, k \in 0 .. Len(history) : Request(r, scope, k)
    BY <1>1
  <2>2. /\ row[r].status = "none" /\ row'[r].status = "requested" /\ newest' = r
        /\ \A q \in Reverts \ {r} : row'[q] = row[q]
    BY <2>1, RequestEffect DEF TypeOK, ThreadTypes
  <2>3. UNCHANGED <<history, agent, pc, cur, dropped>>
    BY <2>1 DEF Request, saga, conversation
  <2>4. pc # "idle" => cur \in Reverts /\ row'[cur] = row[cur]
    BY <2>2, InHand, RevertAssumption DEF LaneInv, IsPending, Pending, None, RevertAssumption
  <2> QED
    BY <1>0, <2>2, <2>3, <2>4 DEF AgentInv, AgentLacks, TurnsAfter, Rewound, InFiles, Writing
<1>2. CASE StartStep
  <2>1. \A r \in Reverts : r # newest => row'[r].moved = row[r].moved
    BY <1>2, StartEffect
  <2>2. newest \in Reverts /\ row[newest].status \in Pending /\ ~row'[newest].moved => ~row[newest].moved
    BY <1>2, StartEffect DEF IsPending
  <2>3. pc # "idle" => cur \in Reverts
    BY InHand
  <2>4. newest \in Reverts \cup {None}
    BY DEF TypeOK, JournalTypes
  <2> QED
    BY <1>2, <1>0, <2>1, <2>2, <2>3, <2>4, StartEffect
    DEF AgentInv, AgentLacks, TurnsAfter, Rewound, InFiles, Writing, Pending
<1>3. CASE EnsureBaseline
  BY <1>3, <1>0, BaselineEffect, RevertAssumption
     DEF AgentInv, AgentLacks, LaneInv, FreshInv, Rewound, Fresh, InFiles, Writing, None,
       IsPending, Pending, Ended, TurnAt, TurnsAfter, Rows, Turns, TypeOK, ThreadTypes,
       JournalTypes, SagaTypes, RevertAssumption
<1>4. CASE EndTurn
  BY <1>4, <1>0, RevertAssumption, InHand, TouchedTypes
     DEF EndTurn, saga, ghosts, AgentInv, AgentLacks, LaneInv, FreshInv, Rewound, Fresh,
       InFiles, Writing, None, IsPending, Pending, Ended, TurnAt, TurnsAfter, Rows, Turns,
       TypeOK, ThreadTypes, JournalTypes, SagaTypes, RevertAssumption
<1>5. CASE Edit
  BY <1>5, <1>0, RevertAssumption, InHand
     DEF Edit, conversation, journal, saga, ghosts, AgentInv, AgentLacks, LaneInv, FreshInv,
       Rewound, Fresh, InFiles, Writing, None, IsPending, Pending, Ended, TurnAt, TurnsAfter,
       Rows, Turns, TypeOK, ThreadTypes, JournalTypes, SagaTypes, RevertAssumption
<1>6. CASE Age
  <2>1. \A r \in Reverts : /\ row'[r].status = row[r].status /\ row'[r].scope = row[r].scope
                           /\ row'[r].target = row[r].target /\ row'[r].from = row[r].from
                           /\ row'[r].moved = row[r].moved
    BY <1>6, AgeEffect DEF Age, TypeOK
  <2>2. UNCHANGED <<history, agent, newest, pc, cur, dropped>>
    BY <1>6 DEF Age, saga, journal, conversation
  <2>3. pc # "idle" => cur \in Reverts
    BY InHand
  <2>4. newest \in Reverts \cup {None}
    BY DEF TypeOK, JournalTypes
  <2> QED
    BY <1>0, <2>1, <2>2, <2>3, <2>4
    DEF AgentInv, AgentLacks, TurnsAfter, Rewound, InFiles, Writing, IsPending, Pending
<1>7. CASE Take
  BY <1>7, <1>0, RevertAssumption, InHand
     DEF Take, conversation, checkout, journal, ghosts, AgentInv, AgentLacks, LaneInv, FreshInv,
       Rewound, Fresh, InFiles, Writing, None, IsPending, Pending, Ended, TurnAt, TurnsAfter,
       Rows, Turns, TypeOK, ThreadTypes, JournalTypes, SagaTypes, RevertAssumption
<1>8. CASE Refuse
  BY <1>8, <1>0, RevertAssumption, InHand
     DEF Refuse, GoTo, Plan, World, Outside, journal, AgentInv, AgentLacks, LaneInv, FreshInv,
       Rewound, Fresh, InFiles, Writing, None, IsPending, Pending, Ended, TurnAt, TurnsAfter,
       Rows, Turns, TypeOK, ThreadTypes, JournalTypes, SagaTypes, RevertAssumption
<1>9. CASE Admit
  <2>1. /\ cur \in Reverts /\ UNCHANGED <<history, agent, row, newest, cur>>
        /\ row[cur].target <= Len(history) /\ pc' \in {"announce", "journal"}
    BY <1>9, InHand DEF Admit, GoTo, World, Outside, journal
  <2>2. row[cur].scope # "files" => dropped' = TurnsAfter(row[cur].target)
    BY <1>9 DEF Admit
  <2>3. pc' = "announce" => TurnsAfter(row[cur].target) = {}
    BY <1>9 DEF Admit, GoTo
  <2>4. TurnsAfter(row[cur].target) = {} => AgentLacks(row[cur].target)
    BY <2>1, AgentLacksThem
  <2> QED
    BY <1>0, <2>1, <2>2, <2>3, <2>4 DEF AgentInv, AgentLacks, TurnsAfter, Rewound, InFiles, Writing
<1>10. CASE JournalFirst
  <2>1. /\ cur \in Reverts /\ UNCHANGED <<history, agent, cur, dropped>> /\ pc = "journal"
        /\ pc' \in {"restore", "rewind", "fail"} /\ (pc' = "restore" => row[cur].scope = "files")
    BY <1>10, InHand DEF JournalFirst, GoTo, World, Plan
  <2>2. row[cur].target <= Len(history) /\ Len(history) \in Nat
    BY <2>1 DEF AgentInv, TypeOK, ThreadTypes
  <2>3. /\ \A r \in Reverts \ {cur} : row'[r] = row[r]
        /\ row'[cur].scope = row[cur].scope /\ row'[cur].target = row[cur].target
        /\ \/ newest' = cur /\ row'[cur].from = Len(history)
              /\ (row[cur].scope # "files" => row'[cur].status = "rolling-back")
           \/ UNCHANGED <<row, newest>>
    BY <1>10, PhaseEffect
  <2>4. \A r \in Reverts : row'[r].status \in {"rolling-back", "restoring-files"}
          => row'[r].from # None /\ row'[r].target <= row'[r].from
    BY <2>1, <2>2, <2>3 DEF AgentInv, None
  <2>5. newest \in Reverts \cup {None}
    BY DEF TypeOK, JournalTypes
  <2> QED
    BY <1>0, <2>1, <2>2, <2>3, <2>4, <2>5 DEF AgentInv, AgentLacks, TurnsAfter, Rewound, InFiles, Writing
<1>11. CASE RewindStep
  <2>1. /\ cur \in Reverts /\ pc = "rewind" /\ UNCHANGED <<history, row, newest, cur, dropped>>
        /\ agent' \subseteq agent
    BY <1>11, RewindEffect
  <2>2. row[cur].scope # "files" /\ dropped = TurnsAfter(row[cur].target)
    BY <2>1 DEF AgentInv, FreshInv
  <2>3. CASE pc' = "announce" /\ agent' = agent \ dropped
    <3>1. AgentLacks(row[cur].target)'
      BY <2>1, <2>2, <2>3 DEF AgentLacks, TurnsAfter, TypeOK, ThreadTypes, JournalTypes, Rows
    <3> QED
      BY <1>0, <2>1, <2>3, <3>1 DEF AgentInv, AgentLacks, Rewound, InFiles, Writing
  <2>4. CASE pc' = "announce" /\ "miscounted" \in did'[cur]
    <3>1. ~Counted'
      BY <2>1, <2>4 DEF Counted
    <3> QED
      BY <2>1, <2>4, <3>1 DEF AgentInv, Rewound, InFiles, Writing
  <2>5. CASE pc' = "fail"
    BY <1>0, <2>1, <2>5 DEF AgentInv, AgentLacks, Rewound, InFiles, Writing
  <2> QED
    BY <1>11, <2>3, <2>4, <2>5, RewindEffect
<1>12. CASE Announce
  <2>1. /\ cur \in Reverts /\ UNCHANGED <<history, agent, cur, dropped>>
        /\ pc = "announce" /\ pc' \in {"prune", "restore"}
    BY <1>12, InHand DEF Announce, GoTo, World, Plan, AfterRewind
  <2>2. /\ row[cur].target <= Len(history) /\ Len(history) \in Nat
        /\ Counted /\ row[cur].scope # "files" => AgentLacks(row[cur].target)
    BY <2>1 DEF AgentInv, Rewound, TypeOK, ThreadTypes
  <2>3. /\ \A r \in Reverts \ {cur} : row'[r] = row[r]
        /\ row'[cur].scope = row[cur].scope /\ row'[cur].target = row[cur].target
        /\ (newest' = cur /\ row'[cur].from = Len(history)) \/ UNCHANGED <<row, newest>>
    BY <1>12, PhaseEffect
  <2>4. \A r \in Reverts : row'[r].status \in {"rolling-back", "restoring-files"}
          => row'[r].from # None /\ row'[r].target <= row'[r].from
    BY <2>1, <2>2, <2>3 DEF AgentInv, None
  <2>5. newest \in Reverts \cup {None}
    BY DEF TypeOK, JournalTypes
  <2> QED
    BY <1>0, <2>1, <2>2, <2>3, <2>4, <2>5 DEF AgentInv, AgentLacks, Rewound, InFiles, Writing
<1>13. CASE LeaveAsFound
  BY <1>13, <1>0, RevertAssumption, InHand
     DEF LeaveAsFound, GoTo, World, Outside, journal, Untouched, AfterFiles, AgentInv,
       AgentLacks, LaneInv, FreshInv, Rewound, Fresh, InFiles, Writing, None, IsPending,
       Pending, Ended, TurnAt, TurnsAfter, Rows, Turns, TypeOK, ThreadTypes, JournalTypes,
       SagaTypes, RevertAssumption
<1>14. CASE ProbeFails
  BY <1>14, <1>0, RevertAssumption, InHand
     DEF ProbeFails, GoTo, World, Outside, journal, Untouched, AfterFiles, Fault, AgentInv,
       AgentLacks, LaneInv, FreshInv, Rewound, Fresh, InFiles, Writing, None, IsPending,
       Pending, Ended, TurnAt, TurnsAfter, Rows, Turns, TypeOK, ThreadTypes, JournalTypes,
       SagaTypes, RevertAssumption
<1>15. CASE Save
  BY <1>15, <1>0, RevertAssumption, InHand
     DEF Save, GoTo, Outside, journal, AgentInv, AgentLacks, LaneInv, FreshInv, Rewound, Fresh,
       InFiles, Writing, None, IsPending, Pending, Ended, TurnAt, TurnsAfter, Rows, Turns,
       TypeOK, ThreadTypes, JournalTypes, SagaTypes, RevertAssumption
<1>16. CASE WriteBegins
  BY <1>16, <1>0, RevertAssumption, InHand
     DEF WriteBegins, GoTo, Plan, Outside, journal, AgentInv, AgentLacks, LaneInv, FreshInv,
       Rewound, Fresh, InFiles, Writing, None, IsPending, Pending, Ended, TurnAt, TurnsAfter,
       Rows, Turns, TypeOK, ThreadTypes, JournalTypes, SagaTypes, RevertAssumption
<1>17. CASE WriteEnds
  BY <1>17, <1>0, RevertAssumption, InHand
     DEF WriteEnds, GoTo, Outside, journal, Saved, AgentInv, AgentLacks, LaneInv, FreshInv,
       Rewound, Fresh, InFiles, Writing, None, IsPending, Pending, Ended, TurnAt, TurnsAfter,
       Rows, Turns, TypeOK, ThreadTypes, JournalTypes, SagaTypes, RevertAssumption
<1>18. CASE WriteUnresolved
  BY <1>18, <1>0, RevertAssumption, InHand
     DEF WriteUnresolved, GoTo, World, Outside, journal, Untouched, Fault, AgentInv, AgentLacks,
       LaneInv, FreshInv, Rewound, Fresh, InFiles, Writing, None, IsPending, Pending, Ended,
       TurnAt, TurnsAfter, Rows, Turns, TypeOK, ThreadTypes, JournalTypes, SagaTypes,
       RevertAssumption
<1>19. CASE WriteFails
  BY <1>19, <1>0, RevertAssumption, InHand
     DEF WriteFails, GoTo, Plan, World, Outside, journal, Fault, AgentInv, AgentLacks, LaneInv,
       FreshInv, Rewound, Fresh, InFiles, Writing, None, IsPending, Pending, Ended, TurnAt,
       TurnsAfter, Rows, Turns, TypeOK, ThreadTypes, JournalTypes, SagaTypes, RevertAssumption
<1>20. CASE PutBack
  BY <1>20, <1>0, RevertAssumption, InHand
     DEF PutBack, GoTo, Outside, journal, Untouched, AgentInv, AgentLacks, LaneInv, FreshInv,
       Rewound, Fresh, InFiles, Writing, None, IsPending, Pending, Ended, TurnAt, TurnsAfter,
       Rows, Turns, TypeOK, ThreadTypes, JournalTypes, SagaTypes, RevertAssumption
<1>21. CASE PutBackFails
  BY <1>21, <1>0, RevertAssumption, InHand
     DEF PutBackFails, GoTo, World, Outside, journal, Saved, AfterFiles, Fault, AgentInv,
       AgentLacks, LaneInv, FreshInv, Rewound, Fresh, InFiles, Writing, None, IsPending,
       Pending, Ended, TurnAt, TurnsAfter, Rows, Turns, TypeOK, ThreadTypes, JournalTypes,
       SagaTypes, RevertAssumption
<1>22. CASE \E s \in Snapshots : Discard(s)
  BY <1>22, <1>0, RevertAssumption, InHand
     DEF Discard, GoTo, Outside, journal, AfterFiles, Fault, NoFault, AgentInv, AgentLacks,
       LaneInv, FreshInv, Rewound, Fresh, InFiles, Writing, None, IsPending, Pending, Ended,
       TurnAt, TurnsAfter, Rows, Turns, TypeOK, ThreadTypes, JournalTypes, SagaTypes,
       RevertAssumption
<1>23. CASE Prune
  BY <1>23, <1>0, RevertAssumption, InHand
     DEF Prune, GoTo, Plan, Outside, journal, Fault, NoFault, AgentInv, AgentLacks, LaneInv,
       FreshInv, Rewound, Fresh, InFiles, Writing, None, IsPending, Pending, Ended, TurnAt,
       TurnsAfter, Rows, Turns, TypeOK, ThreadTypes, JournalTypes, SagaTypes, RevertAssumption
<1>24. CASE Project
  BY <1>24, <1>0, RevertAssumption, InHand
     DEF Project, GoTo, Plan, Outside, journal, NoFault, AgentInv, AgentLacks, LaneInv,
       FreshInv, Rewound, Fresh, InFiles, Writing, None, IsPending, Pending, Ended, TurnAt,
       TurnsAfter, Rows, Turns, TypeOK, ThreadTypes, JournalTypes, SagaTypes, RevertAssumption
<1>25. CASE ProjectFails
  BY <1>25, <1>0, RevertAssumption, InHand
     DEF ProjectFails, Rest, World, Outside, journal, Fault, AgentInv, AgentLacks, LaneInv,
       FreshInv, Rewound, Fresh, InFiles, Writing, None, IsPending, Pending, Ended, TurnAt,
       TurnsAfter, Rows, Turns, TypeOK, ThreadTypes, JournalTypes, SagaTypes, RevertAssumption
<1>26. CASE RecoverFilesAgain
  <2>1. /\ cur \in Reverts /\ UNCHANGED <<history, agent, row, newest, cur, dropped>>
        /\ row[cur].scope = "files" /\ row[cur].status = "restoring-files"
        /\ row[cur].from = Len(history) /\ pc' = "restore"
    BY <1>26, InHand DEF RecoverFilesAgain, At, ThreadMoved, LeftAt, GoTo, Plan, World, journal
  <2>2. row[cur].target <= Len(history)
    BY <2>1 DEF AgentInv
  <2> QED
    BY <1>0, <2>1, <2>2 DEF AgentInv, AgentLacks, Rewound, InFiles, Writing
<1>27. CASE RecoverUnmoved
  <2>1. /\ cur \in Reverts /\ UNCHANGED <<history, agent, row, newest, cur>> /\ pc = "recover"
        /\ row[cur].scope # "files" /\ row[cur].status = "restoring-files"
        /\ row[cur].from = Len(history) /\ ~row[cur].moved
        /\ pc' \in {"prune", "restore", "report"}
    BY <1>27, InHand DEF RecoverUnmoved, At, ThreadMoved, LeftAt, GoTo, AfterRewind, World, journal
  <2>2. row[cur].target <= Len(history) /\ newest = cur /\ newest # None
    BY <2>1, RevertAssumption DEF AgentInv, LaneInv, None, RevertAssumption
  <2>3. Counted => AgentLacks(row[cur].target)
    BY <2>1, <2>2 DEF AgentInv
  <2> QED
    BY <1>0, <2>1, <2>2, <2>3 DEF AgentInv, AgentLacks, Rewound, InFiles, Writing
<1>28. CASE RecoverUnread
  BY <1>28, <1>0, RevertAssumption, InHand
     DEF RecoverUnread, At, GoTo, Plan, World, Outside, journal, Fault, AgentInv, AgentLacks,
       LaneInv, FreshInv, Rewound, Fresh, InFiles, Writing, None, IsPending, Pending, Ended,
       TurnAt, TurnsAfter, Rows, Turns, TypeOK, ThreadTypes, JournalTypes, SagaTypes,
       RevertAssumption
<1>29. CASE EndStep
  <2>1. /\ cur \in Reverts /\ pc' = "idle" /\ history' = history
        /\ agent' \subseteq agent
        /\ \A r \in Reverts \ {cur} : row'[r] = row[r]
        /\ (newest' = cur /\ row'[cur].status \in Ended) \/ UNCHANGED <<row, newest>>
    BY <1>29, EndStepEffect DEF Rest, Outside, Forget
  <2>2. newest \in Reverts \cup {None}
    BY DEF TypeOK, JournalTypes
  <2> QED
    BY <1>0, <2>1, <2>2 DEF AgentInv, AgentLacks, Rewound, InFiles, Writing, Ended
<1>30. CASE Crash
  BY <1>30, <1>0, RevertAssumption, InHand
     DEF Crash, journal, AgentInv, AgentLacks, LaneInv, FreshInv, Rewound, Fresh, InFiles,
       Writing, None, IsPending, Pending, Ended, TurnAt, TurnsAfter, Rows, Turns, TypeOK,
       ThreadTypes, JournalTypes, SagaTypes, RevertAssumption
<1>31. CASE Boot
  BY <1>31, <1>0, RevertAssumption, InHand
     DEF Boot, Unlisted, Plan, conversation, checkout, journal, ghosts, AgentInv, AgentLacks, LaneInv,
       FreshInv, Rewound, Fresh, InFiles, Writing, None, IsPending, Pending, Ended, TurnAt,
       TurnsAfter, Rows, Turns, TypeOK, ThreadTypes, JournalTypes, SagaTypes, RevertAssumption
<1> QED
  BY <1>1, <1>2, <1>3, <1>4, <1>5, <1>6, <1>7, <1>8, <1>9, <1>10, <1>11, <1>12, <1>13, <1>14, <1>15, <1>16, <1>17, <1>18, <1>19, <1>20, <1>21, <1>22, <1>23, <1>24, <1>25, <1>26, <1>27, <1>28, <1>29, <1>30, <1>31 DEF Next, SagaStep, LiveStep, RewindStep,
    FilesStep, FinishStep, RecoveryStep, EndStep

-----------------------------------------------------------------------------
(* The invariant and what follows from it.                                 *)

\* The thread at rest, with no revert yet.
LEMMA InitInv == Init => IndInv
<1> SUFFICES ASSUME Init PROVE IndInv
  OBVIOUS
<1> DEFINE none == [status |-> "none", scope |-> "all", target |-> 0, from |-> None,
                    old |-> FALSE, moved |-> FALSE]
<1>1. history \in Seq(Turns) /\ Len(history) = StartTurns /\ agent \subseteq Turns
  <2>1. \A t \in 1 .. StartTurns : t \in Turns
    BY RevertAssumption DEF RevertAssumption, Turns
  <2> QED
    BY <2>1, RevertAssumption DEF Init, RevertAssumption
<1>2. none \in Rows /\ \A r \in Reverts : row[r] = none
  <2>1. none \in Rows
    BY RevertAssumption DEF Rows, Pending, Ended, Scopes, RevertAssumption
  <2> QED
    BY <2>1 DEF Init
<1>3. ThreadTypes
  BY <1>1, RevertAssumption DEF Init, ThreadTypes, RevertAssumption
<1>4. CheckoutTypes
  <2>1. \A t \in 0 .. MaxTurns : (IF t <= StartTurns THEN t ELSE None) \in Trees \cup {None}
    BY RevertAssumption DEF RevertAssumption, Trees
  <2>2. refs \in [0 .. MaxTurns -> Trees \cup {None}] /\ files \in Trees
    BY <2>1, RevertAssumption DEF Init, RevertAssumption, Trees
  <2>3. rescue \in [Reverts -> [Snapshots -> Trees \cup {None}]]
    BY DEF Init
  <2>4. edits \in 0 .. MaxEdits
    BY RevertAssumption DEF Init, RevertAssumption
  <2> QED
    BY <2>2, <2>3, <2>4 DEF CheckoutTypes
<1>5. JournalTypes
  BY <1>2 DEF Init, JournalTypes, Unsaid, Saying, Sayings, Rows, Pending, Ended, Scopes, None
<1>6. SagaTypes
  BY DEF Init, SagaTypes, Places, Snapshots, Results, NoResult
<1>7. GhostTypes
  <2>1. did \in [Reverts -> SUBSET Deeds] /\ first \in [Reverts -> Trees \cup {None}]
    BY DEF Init
  <2>2. crashes \in 0 .. MaxCrashes /\ faults \in 0 .. MaxFaults
    BY RevertAssumption DEF Init, RevertAssumption
  <2> QED
    BY <2>1, <2>2 DEF Init, GhostTypes
<1>8. LaneInv /\ FreshInv /\ TurnInv
  BY <1>2 DEF Init, LaneInv, FreshInv, TurnInv, Fresh, InFiles, Writing
<1>9. ScopeIsKept /\ SnapshotInv /\ NamedInv /\ FilesFromBeforeAreKept
  BY <1>2 DEF Init, ScopeIsKept, SnapshotInv, NamedInv, FilesFromBeforeAreKept, Fresh, Writing,
    NoResult, Snapshots
<1>10. HistoryInv /\ AgentInv
  BY <1>1, <1>2, RevertAssumption
  DEF Init, HistoryInv, AgentInv, Rewound, InFiles, Writing, None, RevertAssumption
<1> QED
  BY <1>3, <1>4, <1>5, <1>6, <1>7, <1>8, <1>9, <1>10 DEF IndInv, TypeOK

\* Every step keeps the invariant.
LEMMA StepInv == IndInv /\ [Next]_vars => IndInv'
<1>1. ASSUME IndInv, Next PROVE IndInv'
  <2>1. ThreadTypes' /\ CheckoutTypes' /\ JournalTypes' /\ SagaTypes' /\ GhostTypes'
    BY <1>1, ThreadTypesStep, CheckoutTypesStep, JournalTypesStep, SagaTypesStep, GhostTypesStep
    DEF IndInv
  <2>2. LaneInv' /\ FreshInv' /\ TurnInv' /\ ScopeIsKept'
    BY <1>1, LaneStep, FreshStep, TurnStep, ScopeStep DEF IndInv
  <2>3. SnapshotInv' /\ NamedInv' /\ FilesFromBeforeAreKept' /\ HistoryInv' /\ AgentInv'
    BY <1>1, SnapshotStep, NamedStep, BeforeStep, HistoryStep, AgentStep DEF IndInv
  <2> QED
    BY <2>1, <2>2, <2>3 DEF IndInv, TypeOK
<1>2. ASSUME IndInv, UNCHANGED vars PROVE IndInv'
  <2> USE <1>2 DEF IndInv, vars, conversation, checkout, journal, saga, ghosts
  <2>1. TypeOK'
    BY DEF TypeOK, ThreadTypes, CheckoutTypes, JournalTypes, SagaTypes, GhostTypes
  <2>2. LaneInv' /\ FreshInv' /\ TurnInv' /\ ScopeIsKept'
    BY DEF LaneInv, FreshInv, TurnInv, ScopeIsKept, IsPending
  <2>3. SnapshotInv' /\ NamedInv' /\ FilesFromBeforeAreKept'
    BY DEF SnapshotInv, NamedInv, FilesFromBeforeAreKept, TargetTree, TurnAt, Recovering
  <2>4. HistoryInv' /\ AgentInv'
    BY DEF HistoryInv, AgentInv, AgentLacks, TurnsAfter, Counted
  <2> QED
    BY <2>1, <2>2, <2>3, <2>4
<1> QED
  BY <1>1, <1>2

\* The inductive invariant holds, for any requests, turns, edits, process losses and faults.
THEOREM RevertInvariant == Spec => []IndInv
  BY InitInv, StepInv, PTL DEF Spec

\* All variables of the saga keep their types.
THEOREM RevertTypes == Spec => []TypeOK
<1>1. IndInv => TypeOK
  BY DEF IndInv
<1> QED
  BY <1>1, RevertInvariant, PTL

\* A revert never touches what its scope leaves out, live or recovered.
THEOREM ScopeKept == Spec => []ScopeIsKept
<1>1. IndInv => ScopeIsKept
  BY DEF IndInv
<1> QED
  BY <1>1, RevertInvariant, PTL

\* No turn runs while a revert that has been pending for less than ten minutes is at work, but for
\* one whose start the policy did not count when it was admitted.
THEOREM NoTurnRuns == Spec => []NoTurnUnderRevert
<1>1. IndInv => NoTurnUnderRevert
  BY DEF IndInv, NoTurnUnderRevert, LaneInv, TurnInv, TypeOK, SagaTypes
<1> QED
  BY <1>1, RevertInvariant, PTL

\* The files from before a revert stay saved until the target's files are in place, and a row
\* that leaves them in doubt names where.
THEOREM BeforeKept == Spec => []FilesFromBeforeAreKept
<1>1. IndInv => FilesFromBeforeAreKept
  BY DEF IndInv
<1> QED
  BY <1>1, RevertInvariant, PTL

\* The history loses only turns that the agent has forgotten.
LEMMA ForgottenStep ==
  ASSUME TypeOK, LaneInv, FreshInv, AgentInv, Counted, Next,
         NEW t \in agent, NEW i \in DOMAIN history, history[i] = t
  PROVE  \E j \in DOMAIN history' : history'[j] = t
<1>1. CASE \E r \in Reverts, scope \in Scopes, k \in 0 .. Len(history) : Request(r, scope, k)
  BY <1>1 DEF Request, conversation
<1>2. CASE StartStep
  BY <1>2, StartEffect
<1>3. CASE EnsureBaseline
  BY <1>3, BaselineEffect
<1>4. CASE EndTurn
  BY <1>4, AppendEffect DEF EndTurn, TypeOK, ThreadTypes
<1>5. CASE Edit
  BY <1>5 DEF Edit, conversation
<1>6. CASE Age
  BY <1>6 DEF Age, conversation
<1>7. CASE Take
  BY <1>7 DEF Take, conversation
<1>8. CASE Refuse
  BY <1>8 DEF Refuse, Plan, World
<1>9. CASE Admit
  BY <1>9 DEF Admit, World
<1>10. CASE JournalFirst
  BY <1>10 DEF JournalFirst, Plan, World
<1>11. CASE RewindStep
  BY <1>11, RewindEffect
<1>12. CASE Announce
  BY <1>12 DEF Announce, Plan, World
<1>13. CASE LeaveAsFound
  BY <1>13 DEF LeaveAsFound, World
<1>14. CASE ProbeFails
  BY <1>14 DEF ProbeFails, World
<1>15. CASE Save
  BY <1>15 DEF Save
<1>16. CASE WriteBegins
  BY <1>16 DEF WriteBegins, Plan
<1>17. CASE WriteEnds
  BY <1>17 DEF WriteEnds
<1>18. CASE WriteUnresolved
  BY <1>18 DEF WriteUnresolved, World
<1>19. CASE WriteFails
  BY <1>19 DEF WriteFails, Plan, World
<1>20. CASE PutBack
  BY <1>20 DEF PutBack
<1>21. CASE PutBackFails
  BY <1>21 DEF PutBackFails, World
<1>22. CASE \E s \in Snapshots : Discard(s)
  BY <1>22 DEF Discard
<1>23. CASE Prune
  BY <1>23 DEF Prune, Plan
<1>24. CASE Project
  <2>1. cur \in Reverts /\ row[cur].target \in 0 .. Len(history) /\ AgentLacks(row[cur].target)
    BY <1>24, InHand DEF Project, TypeOK, JournalTypes, Rows, AgentInv, FreshInv, Rewound
  <2>2. i <= row[cur].target
    BY <2>1 DEF AgentLacks, TypeOK, ThreadTypes
  <2>3. i \in DOMAIN history' /\ history'[i] = history[i]
    BY <1>24, <2>1, <2>2 DEF Project, TypeOK, ThreadTypes
  <2> QED
    BY <2>3
<1>25. CASE ProjectFails
  BY <1>25 DEF ProjectFails, World
<1>26. CASE RecoverFilesAgain
  BY <1>26 DEF RecoverFilesAgain, Plan, World
<1>27. CASE RecoverUnmoved
  BY <1>27 DEF RecoverUnmoved, World
<1>28. CASE RecoverUnread
  BY <1>28 DEF RecoverUnread, Plan, World
<1>29. CASE EndStep
  BY <1>29, EndStepEffect
<1>30. CASE Crash
  BY <1>30 DEF Crash
<1>31. CASE Boot
  BY <1>31 DEF Boot, Unlisted, Plan, conversation
<1> QED
  BY <1>1, <1>2, <1>3, <1>4, <1>5, <1>6, <1>7, <1>8, <1>9, <1>10, <1>11, <1>12, <1>13, <1>14, <1>15, <1>16, <1>17, <1>18, <1>19, <1>20, <1>21, <1>22, <1>23, <1>24, <1>25, <1>26, <1>27, <1>28, <1>29, <1>30, <1>31 DEF Next, SagaStep, LiveStep, RewindStep,
    FilesStep, FinishStep, RecoveryStep, EndStep

\* A turn the agent still knows stays in the history in every step, live or recovering.
THEOREM ForgottenFirst == Spec => AgentForgotFirst
<1>1. IndInv /\ [Next]_vars =>
        [Counted => \A t \in Turns : (\E i \in DOMAIN history : history[i] = t) /\ t \in agent
           => \E i \in DOMAIN history' : history'[i] = t]_vars
  BY ForgottenStep DEF IndInv
<1> QED
  BY <1>1, RevertInvariant, PTL DEF Spec, AgentForgotFirst, Counted

-----------------------------------------------------------------------------
(* What rows say is true.                                                  *)

\* The reverts of which EndsAreTrue claims something.
Claimed == Reverts \ (excused \cup unrecorded)

Finishing == InFiles \cup {"prune", "project"}

\* What the status of a row tells recovery of what its revert did: nothing yet; at most the agent
\* was asked; the agent has forgotten what is to go, if anything is.
RowTruth ==
  \A r \in Claimed :
    /\ row[r].status = "requested" => did[r] = {}
    /\ row[r].status = "rolling-back" => did[r] \subseteq {"rewound"}
    /\ row[r].status = "restoring-files" /\ row[r].scope # "files" =>
         IF row[r].from = row[r].target THEN did[r] \cap {"rewound", "reverted"} = {}
                                        ELSE "rewound" \in did[r]

\* What the place of the saga tells of the revert in hand: the agent is asked only when turns are
\* to go, and the history is as long as when that was journaled until it is shortened.
PlaceTruth ==
  cur \in Claimed =>
    /\ pc = "rewind" => row[cur].status = "rolling-back"
    /\ pc \in Finishing \cup {"report"} => row[cur].status = "restoring-files"
    /\ pc \in Writing \cup {"restore", "recover"} => "restored" \notin did[cur]
    /\ pc \in {"journal", "rewind"} /\ row[cur].scope # "files" => Len(history) > row[cur].target
    /\ pc = "announce" =>
         IF dropped = {} THEN Len(history) = row[cur].target /\ did[cur] = {}
                         ELSE Len(history) > row[cur].target /\ did[cur] = {"rewound"}
    /\ pc \in Finishing /\ row[cur].scope # "files"
         => row[cur].from = Len(history) /\ "reverted" \notin did[cur]
    /\ pc \in Finishing \cup {"report"} /\ row[cur].scope # "files" /\ dropped = {}
         => row[cur].from = row[cur].target
    /\ pc = "report" /\ row[cur].scope # "files"
         => row[cur].from = row[cur].target \/ "reverted" \in did[cur]
    /\ result.files = "kept" => "wrote" \notin did[cur]
    /\ result.files = "done" => "restored" \in did[cur]

\* What recovery may conclude from the newest row: unless the history was shortened, it is as long
\* as the row says; and the files of a revert that a process loss met are not restored.
NewestTruth ==
  newest \in Claimed /\ row[newest].status = "restoring-files" =>
    /\ IF phase = "down" THEN "restored" \notin did[newest] ELSE cur = newest
    /\ row[newest].scope # "files" =>
         Len(history) = IF "reverted" \in did[newest] THEN row[newest].target ELSE row[newest].from

\* What Claimed leaves out stays out.
LEMMA ClaimedShrinks == ASSUME TypeOK, LaneInv, Next PROVE Claimed' \subseteq Claimed
<1>1. CASE EndStep
  BY <1>1, EndStepEffect DEF Claimed
<1>2. CASE Crash \/ Boot
  BY <1>2 DEF Crash, Boot, Unlisted, Claimed
<1>3. CASE \/ \E r \in Reverts, scope \in Scopes, k \in 0 .. Len(history) : Request(r, scope, k)
           \/ StartStep \/ EnsureBaseline \/ EndTurn \/ Edit \/ Age \/ Take
  BY <1>3, StartEffect, BaselineEffect DEF Request, EndTurn, Edit, Age, Take, ghosts, Claimed
<1>4. CASE \/ Refuse \/ Admit \/ JournalFirst \/ RewindStep \/ Announce
  BY <1>4, RewindEffect DEF Refuse, Admit, JournalFirst, Announce, GoTo, Claimed
<1>5. CASE FilesStep
  BY <1>5 DEF FilesStep, LeaveAsFound, ProbeFails, Save, WriteBegins, WriteEnds, WriteUnresolved,
    WriteFails, PutBack, PutBackFails, Discard, GoTo, Claimed
<1>6. CASE Prune \/ Project \/ ProjectFails
  BY <1>6 DEF Prune, Project, ProjectFails, GoTo, Claimed
<1>7. CASE RecoverFilesAgain \/ RecoverUnmoved \/ RecoverUnread
  BY <1>7 DEF RecoverFilesAgain, RecoverUnmoved, RecoverUnread, GoTo, Claimed
<1> QED
  BY <1>1, <1>2, <1>3, <1>4, <1>5, <1>6, <1>7
  DEF Next, SagaStep, LiveStep, RewindStep, FinishStep, RecoveryStep, EndStep

\* There are turns to drop exactly when the history is longer than the target.
LEMMA TurnsToDrop ==
  ASSUME TypeOK, NEW r \in Reverts
  PROVE  /\ row[r].target \in Nat /\ Len(history) \in Nat
         /\ TurnsAfter(row[r].target) = {} <=> Len(history) <= row[r].target
<1>1. history \in Seq(Turns) /\ row[r].target \in Nat
  BY DEF TypeOK, ThreadTypes, JournalTypes, Rows
<1>2. CASE Len(history) <= row[r].target
  BY <1>1, <1>2 DEF TurnsAfter
<1>3. CASE Len(history) > row[r].target
  <2>1. history[Len(history)] \in TurnsAfter(row[r].target)
    BY <1>1, <1>3 DEF TurnsAfter
  <2> QED
    BY <1>1, <1>3, <2>1
<1> QED
  BY <1>1, <1>2, <1>3

\* Which phase is journaled before which call, and whether it may be missing.
LEMMA PhaseMeant ==
  ASSUME TypeOK, LaneInv, JournalFirst \/ Announce
  PROVE  /\ JournalFirst => \/ pc' = "fail"
                            \/ /\ row[cur].scope = "files" /\ pc' = "restore"
                               /\ row'[cur].status = "restoring-files"
                            \/ /\ row[cur].scope # "files" /\ pc' = "rewind"
                               /\ row'[cur].status = "rolling-back"
         /\ Announce => \/ cur \in excused'
                        \/ row'[cur].status = "restoring-files" /\ row'[cur].from = Len(history)
<1>1. cur \in Reverts /\ Len(history) \in Nat \cup {None} /\ JournalTypes
  BY InHand DEF JournalFirst, Announce, TypeOK, ThreadTypes
<1>2. \A st \in {"rolling-back", "restoring-files"} : Record(st, Len(history)) =>
        row'[cur].status = st /\ row'[cur].from = Len(history)
  BY <1>1, RecordEffect DEF Pending
<1>3. JournalFirst => \/ pc' = "fail"
                      \/ /\ row[cur].scope = "files" /\ pc' = "restore"
                         /\ row'[cur].status = "restoring-files"
                      \/ /\ row[cur].scope # "files" /\ pc' = "rewind"
                         /\ row'[cur].status = "rolling-back"
  BY <1>2 DEF JournalFirst, GoTo
<1>4. Announce => \/ cur \in excused'
                  \/ row'[cur].status = "restoring-files" /\ row'[cur].from = Len(history)
  BY <1>2 DEF Announce
<1> QED
  BY <1>3, <1>4

\* An end whose update is lost is recorded as such.
LEMMA LostEnds ==
  ASSUME TypeOK, LaneInv, EndStep
  PROVE  cur \in Reverts /\ (cur \in unrecorded' \/ row'[cur].status \in Ended)
<1>1. PICK st \in Ended, sg \in Sayings : End(st, sg)
  BY EndingsEnd
<1> QED
  BY <1>1, EndingsEnd, EndEffect DEF TypeOK

\* What a row's status tells of its revert stays true.
LEMMA RowTruthStep ==
  ASSUME TypeOK, LaneInv, FreshInv, RowTruth, PlaceTruth, Next
  PROVE  RowTruth'
<1>1. CASE \E r \in Reverts, scope \in Scopes, k \in 0 .. Len(history) : Request(r, scope, k)
  <2>1. PICK r \in Reverts, scope \in Scopes, k \in 0 .. Len(history) : Request(r, scope, k)
    BY <1>1
  <2>2. /\ row[r].status = "none" /\ row'[r].status = "requested" /\ newest' = r
        /\ \A q \in Reverts \ {r} : row'[q] = row[q]
    BY <2>1, RequestEffect DEF TypeOK, ThreadTypes

  <2>3. did' = did /\ Claimed' = Claimed /\ did[r] = {}
    BY <2>1, <2>2 DEF Request, ghosts, Claimed, FreshInv
  <2>4. Claimed \subseteq Reverts
    BY DEF Claimed
  <2> QED
    BY <2>2, <2>3, <2>4 DEF RowTruth
<1>2. CASE StartStep
  BY <1>2, StartEffect, RevertAssumption, InHand
     DEF RowTruth, PlaceTruth, LaneInv, FreshInv, Claimed, Finishing, InFiles, Writing, Fresh,
       None, IsPending, Pending, Ended, TypeOK, JournalTypes, SagaTypes, GhostTypes,
       RevertAssumption
<1>3. CASE EnsureBaseline
  BY <1>3, BaselineEffect, RevertAssumption
     DEF RowTruth, PlaceTruth, LaneInv, FreshInv, Claimed, Finishing, InFiles, Writing, Fresh,
       None, IsPending, Pending, Ended, TypeOK, JournalTypes, SagaTypes, GhostTypes,
       RevertAssumption
<1>4. CASE EndTurn
  BY <1>4, RevertAssumption, InHand, TouchedTypes
     DEF EndTurn, saga, ghosts, RowTruth, PlaceTruth, LaneInv, FreshInv, Claimed, Finishing,
       InFiles, Writing, Fresh, None, IsPending, Pending, Ended, TypeOK, JournalTypes,
       SagaTypes, GhostTypes, RevertAssumption
<1>5. CASE Edit
  BY <1>5, RevertAssumption, InHand
     DEF Edit, conversation, journal, saga, ghosts, RowTruth, PlaceTruth, LaneInv, FreshInv,
       Claimed, Finishing, InFiles, Writing, Fresh, None, IsPending, Pending, Ended, TypeOK,
       JournalTypes, SagaTypes, GhostTypes, RevertAssumption
<1>6. CASE Age
  BY <1>6, RevertAssumption, InHand, AgeEffect
     DEF Age, conversation, checkout, saga, Blocked, RowTruth, PlaceTruth, LaneInv, FreshInv,
       Claimed, Finishing, InFiles, Writing, Fresh, None, IsPending, Pending, Ended, TypeOK,
       JournalTypes, SagaTypes, GhostTypes, RevertAssumption
<1>7. CASE Take
  BY <1>7, RevertAssumption, InHand
     DEF Take, conversation, checkout, journal, ghosts, RowTruth, PlaceTruth, LaneInv, FreshInv,
       Claimed, Finishing, InFiles, Writing, Fresh, None, IsPending, Pending, Ended, TypeOK,
       JournalTypes, SagaTypes, GhostTypes, RevertAssumption
<1>8. CASE Refuse
  BY <1>8, RevertAssumption, InHand
     DEF Refuse, GoTo, Plan, World, Outside, journal, RowTruth, PlaceTruth, LaneInv, FreshInv,
       Claimed, Finishing, InFiles, Writing, Fresh, None, IsPending, Pending, Ended, TypeOK,
       JournalTypes, SagaTypes, GhostTypes, RevertAssumption
<1>9. CASE Admit
  BY <1>9, RevertAssumption, InHand
     DEF Admit, GoTo, World, Outside, journal, TurnsAfter, TurnAt, RowTruth, PlaceTruth,
       LaneInv, FreshInv, Claimed, Finishing, InFiles, Writing, Fresh, None, IsPending, Pending,
       Ended, TypeOK, JournalTypes, SagaTypes, GhostTypes, RevertAssumption
<1>10. CASE JournalFirst
  BY <1>10, RevertAssumption, InHand, PhaseEffect
     DEF JournalFirst, GoTo, Plan, World, Outside, journal, Fault, NoFault, RowTruth,
       PlaceTruth, LaneInv, FreshInv, Claimed, Finishing, InFiles, Writing, Fresh, None,
       IsPending, Pending, Ended, TypeOK, JournalTypes, SagaTypes, GhostTypes, RevertAssumption
<1>11. CASE RewindStep
  BY <1>11, RewindEffect, RevertAssumption
     DEF RowTruth, PlaceTruth, LaneInv, FreshInv, Claimed, Finishing, InFiles, Writing, Fresh,
       None, IsPending, Pending, Ended, TypeOK, JournalTypes, SagaTypes, GhostTypes,
       RevertAssumption
<1>12. CASE Announce
  BY <1>12, RevertAssumption, InHand, PhaseEffect
     DEF Announce, GoTo, Plan, World, Outside, journal, Fault, NoFault, AfterRewind, RowTruth,
       PlaceTruth, LaneInv, FreshInv, Claimed, Finishing, InFiles, Writing, Fresh, None,
       IsPending, Pending, Ended, TypeOK, JournalTypes, SagaTypes, GhostTypes, RevertAssumption
<1>13. CASE LeaveAsFound
  BY <1>13, RevertAssumption, InHand
     DEF LeaveAsFound, GoTo, World, Outside, journal, Untouched, AfterFiles, RowTruth,
       PlaceTruth, LaneInv, FreshInv, Claimed, Finishing, InFiles, Writing, Fresh, None,
       IsPending, Pending, Ended, TypeOK, JournalTypes, SagaTypes, GhostTypes, RevertAssumption
<1>14. CASE ProbeFails
  BY <1>14, RevertAssumption, InHand
     DEF ProbeFails, GoTo, World, Outside, journal, Untouched, AfterFiles, Fault, RowTruth,
       PlaceTruth, LaneInv, FreshInv, Claimed, Finishing, InFiles, Writing, Fresh, None,
       IsPending, Pending, Ended, TypeOK, JournalTypes, SagaTypes, GhostTypes, RevertAssumption
<1>15. CASE Save
  <2>1. cur \in Reverts /\ pc = "restore" /\ UNCHANGED row
    BY <1>15, InHand DEF Save, journal
  <2>2. /\ \A r \in Reverts \ {cur} : did'[r] = did[r]
        /\ did'[cur] \in {did[cur], did[cur] \cup {"restored"}}
    BY <1>15, <2>1 DEF Save, TypeOK, GhostTypes
  <2>3. cur \in Claimed => row[cur].status = "restoring-files"
    BY <2>1 DEF PlaceTruth, Finishing, InFiles
  <2>4. Claimed' \subseteq Claimed /\ Claimed \subseteq Reverts
    BY <1>15 DEF Save, GoTo, Claimed
  <2> QED
    BY <2>1, <2>2, <2>3, <2>4 DEF RowTruth
<1>16. CASE WriteBegins
  BY <1>16, RevertAssumption, InHand
     DEF WriteBegins, GoTo, Plan, Outside, journal, RowTruth, PlaceTruth, LaneInv, FreshInv,
       Claimed, Finishing, InFiles, Writing, Fresh, None, IsPending, Pending, Ended, TypeOK,
       JournalTypes, SagaTypes, GhostTypes, RevertAssumption
<1>17. CASE WriteEnds
  BY <1>17, RevertAssumption, InHand
     DEF WriteEnds, GoTo, Outside, journal, Saved, RowTruth, PlaceTruth, LaneInv, FreshInv,
       Claimed, Finishing, InFiles, Writing, Fresh, None, IsPending, Pending, Ended, TypeOK,
       JournalTypes, SagaTypes, GhostTypes, RevertAssumption
<1>18. CASE WriteUnresolved
  BY <1>18, RevertAssumption, InHand
     DEF WriteUnresolved, GoTo, World, Outside, journal, Untouched, Fault, RowTruth, PlaceTruth,
       LaneInv, FreshInv, Claimed, Finishing, InFiles, Writing, Fresh, None, IsPending, Pending,
       Ended, TypeOK, JournalTypes, SagaTypes, GhostTypes, RevertAssumption
<1>19. CASE WriteFails
  BY <1>19, RevertAssumption, InHand
     DEF WriteFails, GoTo, Plan, World, Outside, journal, Fault, RowTruth, PlaceTruth, LaneInv,
       FreshInv, Claimed, Finishing, InFiles, Writing, Fresh, None, IsPending, Pending, Ended,
       TypeOK, JournalTypes, SagaTypes, GhostTypes, RevertAssumption
<1>20. CASE PutBack
  BY <1>20, RevertAssumption, InHand
     DEF PutBack, GoTo, Outside, journal, Untouched, RowTruth, PlaceTruth, LaneInv, FreshInv,
       Claimed, Finishing, InFiles, Writing, Fresh, None, IsPending, Pending, Ended, TypeOK,
       JournalTypes, SagaTypes, GhostTypes, RevertAssumption
<1>21. CASE PutBackFails
  BY <1>21, RevertAssumption, InHand
     DEF PutBackFails, GoTo, World, Outside, journal, Saved, AfterFiles, Fault, RowTruth,
       PlaceTruth, LaneInv, FreshInv, Claimed, Finishing, InFiles, Writing, Fresh, None,
       IsPending, Pending, Ended, TypeOK, JournalTypes, SagaTypes, GhostTypes, RevertAssumption
<1>22. CASE \E s \in Snapshots : Discard(s)
  BY <1>22, RevertAssumption, InHand
     DEF Discard, GoTo, Outside, journal, AfterFiles, Fault, NoFault, RowTruth, PlaceTruth,
       LaneInv, FreshInv, Claimed, Finishing, InFiles, Writing, Fresh, None, IsPending, Pending,
       Ended, TypeOK, JournalTypes, SagaTypes, GhostTypes, RevertAssumption
<1>23. CASE Prune
  BY <1>23, RevertAssumption, InHand
     DEF Prune, GoTo, Plan, Outside, journal, Fault, NoFault, RowTruth, PlaceTruth, LaneInv,
       FreshInv, Claimed, Finishing, InFiles, Writing, Fresh, None, IsPending, Pending, Ended,
       TypeOK, JournalTypes, SagaTypes, GhostTypes, RevertAssumption
<1>24. CASE Project
  <2>1. cur \in Reverts /\ pc = "project" /\ UNCHANGED row /\ row[cur].scope # "files"
    BY <1>24, InHand DEF Project, journal, FreshInv
  <2>2. history' = SubSeq(history, 1, row[cur].target) /\ Claimed' \subseteq Claimed /\ Claimed \subseteq Reverts
    BY <1>24 DEF Project, GoTo, Claimed
  <2>3. /\ \A r \in Reverts \ {cur} : did'[r] = did[r]
        /\ did'[cur] = IF history' = history THEN did[cur] ELSE did[cur] \cup {"reverted"}
    BY <1>24, <2>1 DEF Project, TypeOK, GhostTypes
  <2>4. cur \in Claimed => row[cur].status = "restoring-files" /\ row[cur].from = Len(history)
    BY <2>1 DEF PlaceTruth, Finishing
  <2>5. row[cur].target = Len(history) => history' = history
    BY <2>1, <2>2 DEF TypeOK, ThreadTypes
  <2> QED
    BY <2>1, <2>2, <2>3, <2>4, <2>5 DEF RowTruth
<1>25. CASE ProjectFails
  BY <1>25, RevertAssumption, InHand
     DEF ProjectFails, Rest, World, Outside, journal, Fault, RowTruth, PlaceTruth, LaneInv,
       FreshInv, Claimed, Finishing, InFiles, Writing, Fresh, None, IsPending, Pending, Ended,
       TypeOK, JournalTypes, SagaTypes, GhostTypes, RevertAssumption
<1>26. CASE RecoverFilesAgain
  BY <1>26, RevertAssumption, InHand
     DEF RecoverFilesAgain, At, GoTo, Plan, World, Outside, journal, RowTruth, PlaceTruth,
       LaneInv, FreshInv, Claimed, Finishing, InFiles, Writing, Fresh, None, IsPending, Pending,
       Ended, TypeOK, JournalTypes, SagaTypes, GhostTypes, RevertAssumption
<1>27. CASE RecoverUnmoved
  BY <1>27, RevertAssumption, InHand
     DEF RecoverUnmoved, At, GoTo, World, Outside, journal, AfterRewind, KeepsFiles, TurnsAfter,
       RowTruth, PlaceTruth, LaneInv, FreshInv, Claimed, Finishing, InFiles, Writing, Fresh,
       None, IsPending, Pending, Ended, TypeOK, JournalTypes, SagaTypes, GhostTypes,
       RevertAssumption
<1>28. CASE RecoverUnread
  BY <1>28, RevertAssumption, InHand
     DEF RecoverUnread, At, GoTo, Plan, World, Outside, journal, Fault, RowTruth, PlaceTruth,
       LaneInv, FreshInv, Claimed, Finishing, InFiles, Writing, Fresh, None, IsPending, Pending,
       Ended, TypeOK, JournalTypes, SagaTypes, GhostTypes, RevertAssumption
<1>29. CASE EndStep
  BY <1>29, RevertAssumption, InHand, EndStepEffect
     DEF Rest, Outside, Forget, NoFault, Fault, RowTruth, PlaceTruth, LaneInv, FreshInv,
       Claimed, Finishing, InFiles, Writing, Fresh, None, IsPending, Pending, Ended, TypeOK,
       JournalTypes, SagaTypes, GhostTypes, RevertAssumption
<1>30. CASE Crash
  BY <1>30, RevertAssumption, InHand
     DEF Crash, journal, RowTruth, PlaceTruth, LaneInv, FreshInv, Claimed, Finishing, InFiles,
       Writing, Fresh, None, IsPending, Pending, Ended, TypeOK, JournalTypes, SagaTypes,
       GhostTypes, RevertAssumption
<1>31. CASE Boot
  BY <1>31 DEF Boot, Unlisted, Plan, journal, Claimed, RowTruth
<1> QED
  BY <1>1, <1>2, <1>3, <1>4, <1>5, <1>6, <1>7, <1>8, <1>9, <1>10, <1>11, <1>12, <1>13, <1>14, <1>15, <1>16, <1>17, <1>18, <1>19, <1>20, <1>21, <1>22, <1>23, <1>24, <1>25, <1>26, <1>27, <1>28, <1>29, <1>30, <1>31 DEF Next, SagaStep, LiveStep, RewindStep,
    FilesStep, FinishStep, RecoveryStep, EndStep

\* What the saga's place tells of the revert in hand stays true.
LEMMA PlaceTruthStep ==
  ASSUME TypeOK, LaneInv, FreshInv, ScopeIsKept, SnapshotInv, NamedInv, AgentInv, RowTruth, PlaceTruth, NewestTruth, Next
  PROVE  PlaceTruth'
<1>1. CASE \E r \in Reverts, scope \in Scopes, k \in 0 .. Len(history) : Request(r, scope, k)
  <2>1. PICK r \in Reverts, scope \in Scopes, k \in 0 .. Len(history) : Request(r, scope, k)
    BY <1>1
  <2>2. /\ row[r].status = "none" /\ row'[r].status = "requested" /\ newest' = r
        /\ \A q \in Reverts \ {r} : row'[q] = row[q]
    BY <2>1, RequestEffect DEF TypeOK, ThreadTypes

  <2>3. UNCHANGED <<pc, cur, dropped, result, did, history>> /\ Claimed' = Claimed
    BY <2>1 DEF Request, saga, ghosts, conversation, Claimed
  <2>4. cur \in Claimed => row'[cur] = row[cur]
    BY <2>2, RevertAssumption
    DEF LaneInv, IsPending, Pending, None, Claimed, RevertAssumption
  <2> QED
    BY <2>3, <2>4 DEF PlaceTruth
<1>2. CASE StartStep
  <2>1. UNCHANGED <<history, did, excused, unrecorded, pc, cur, dropped, result>>
    BY <1>2, StartEffect
  <2>2. \A r \in Claimed : /\ row'[r].status = row[r].status /\ row'[r].scope = row[r].scope
                           /\ row'[r].target = row[r].target /\ row'[r].from = row[r].from
    BY <1>2, StartEffect DEF Claimed
  <2> QED
    BY <2>1, <2>2 DEF PlaceTruth, Claimed
<1>3. CASE EnsureBaseline
  BY <1>3, BaselineEffect, RevertAssumption
     DEF PlaceTruth, Claimed, Finishing, InFiles, Writing, Fresh, LaneInv, FreshInv, NamedInv,
       None, NoResult, IsPending, Pending, Ended, TypeOK, ThreadTypes, JournalTypes, SagaTypes,
       GhostTypes, RevertAssumption
<1>4. CASE EndTurn
  BY <1>4, RevertAssumption, InHand, TouchedTypes
     DEF EndTurn, saga, ghosts, PlaceTruth, Claimed, Finishing, InFiles, Writing, Fresh,
       LaneInv, FreshInv, NamedInv, None, NoResult, IsPending, Pending, Ended, TypeOK,
       ThreadTypes, JournalTypes, SagaTypes, GhostTypes, RevertAssumption
<1>5. CASE Edit
  BY <1>5, RevertAssumption, InHand
     DEF Edit, conversation, journal, saga, ghosts, PlaceTruth, Claimed, Finishing, InFiles,
       Writing, Fresh, LaneInv, FreshInv, NamedInv, None, NoResult, IsPending, Pending, Ended,
       TypeOK, ThreadTypes, JournalTypes, SagaTypes, GhostTypes, RevertAssumption
<1>6. CASE Age
  BY <1>6, RevertAssumption, InHand, AgeEffect
     DEF Age, conversation, checkout, saga, Blocked, PlaceTruth, Claimed, Finishing, InFiles,
       Writing, Fresh, LaneInv, FreshInv, NamedInv, None, NoResult, IsPending, Pending, Ended,
       TypeOK, ThreadTypes, JournalTypes, SagaTypes, GhostTypes, RevertAssumption
<1>7. CASE Take
  BY <1>7, RevertAssumption, InHand
     DEF Take, conversation, checkout, journal, ghosts, PlaceTruth, Claimed, Finishing, InFiles,
       Writing, Fresh, LaneInv, FreshInv, NamedInv, None, NoResult, IsPending, Pending, Ended,
       TypeOK, ThreadTypes, JournalTypes, SagaTypes, GhostTypes, RevertAssumption
<1>8. CASE Refuse
  BY <1>8, RevertAssumption, InHand
     DEF Refuse, GoTo, Plan, World, Outside, journal, PlaceTruth, Claimed, Finishing, InFiles,
       Writing, Fresh, LaneInv, FreshInv, NamedInv, None, NoResult, IsPending, Pending, Ended,
       TypeOK, ThreadTypes, JournalTypes, SagaTypes, GhostTypes, RevertAssumption
<1>9. CASE Admit
  <2>1. /\ cur \in Reverts /\ UNCHANGED <<history, row, did, cur, result>> /\ Claimed' = Claimed
        /\ pc = "check" /\ row[cur].target <= Len(history)
    BY <1>9, InHand DEF Admit, GoTo, World, Outside, journal, Claimed
  <2>2. did[cur] = {} /\ result.files = "unsaid"
    BY <2>1 DEF FreshInv, Fresh, NamedInv
  <2>3. \/ pc' = "journal" /\ (row[cur].scope # "files" => TurnsAfter(row[cur].target) # {})
        \/ pc' = "announce" /\ dropped' = {} /\ TurnsAfter(row[cur].target) = {}
    BY <1>9 DEF Admit, GoTo
  <2>4. /\ row[cur].target \in Nat /\ Len(history) \in Nat
        /\ TurnsAfter(row[cur].target) = {} <=> Len(history) <= row[cur].target
    BY <2>1, TurnsToDrop
  <2>5. CASE pc' = "journal" /\ (row[cur].scope # "files" => TurnsAfter(row[cur].target) # {})
    BY <2>1, <2>2, <2>4, <2>5 DEF PlaceTruth, Finishing, InFiles, Writing
  <2>6. CASE pc' = "announce" /\ dropped' = {} /\ TurnsAfter(row[cur].target) = {}
    BY <2>1, <2>2, <2>4, <2>6 DEF PlaceTruth, Finishing, InFiles, Writing
  <2> QED
    BY <2>3, <2>5, <2>6
<1>10. CASE JournalFirst
  <2>1. /\ cur \in Reverts /\ UNCHANGED <<history, did, cur, dropped, result>> /\ Claimed' = Claimed
        /\ pc = "journal"
    BY <1>10, InHand DEF JournalFirst, GoTo, World, Plan, Claimed
  <2>2. did[cur] = {} /\ result.files = "unsaid"
    BY <2>1 DEF FreshInv, Fresh, NamedInv
  <2>3. row'[cur].scope = row[cur].scope /\ row'[cur].target = row[cur].target
    BY <1>10, PhaseEffect
  <2>4. \/ pc' = "fail"
        \/ row[cur].scope = "files" /\ pc' = "restore" /\ row'[cur].status = "restoring-files"
        \/ row[cur].scope # "files" /\ pc' = "rewind" /\ row'[cur].status = "rolling-back"
    BY <1>10, PhaseMeant
  <2> QED
    BY <2>1, <2>2, <2>3, <2>4 DEF PlaceTruth, Finishing, InFiles, Writing
<1>11. CASE RewindStep
  <2>1. /\ cur \in Reverts /\ UNCHANGED <<history, row, cur, dropped, result>>
        /\ pc = "rewind" /\ (cur \in Claimed' => cur \in Claimed)
    BY <1>11, RewindEffect DEF Claimed
  <2>2. did[cur] = {} /\ result.files = "unsaid"
    BY <2>1 DEF FreshInv, Fresh, NamedInv
  <2>3. row[cur].scope # "files" /\ dropped = TurnsAfter(row[cur].target)
    BY <2>1 DEF AgentInv, FreshInv
  <2>4. cur \in Claimed => Len(history) > row[cur].target /\ dropped # {}
    BY <2>1, <2>3, TurnsToDrop DEF PlaceTruth
  <2>5. cur \in Claimed' => pc' = "fail" \/ (pc' = "announce" /\ did'[cur] = {"rewound"})
    BY <1>11, <2>1, <2>2, <2>4, RewindEffect DEF Claimed
  <2>6. did'[cur] \subseteq {"rewound", "miscounted"}
    BY <1>11, <2>2, RewindEffect
  <2> QED
    BY <2>1, <2>2, <2>4, <2>5, <2>6 DEF PlaceTruth, Finishing, InFiles, Writing
<1>12. CASE Announce
  <2>1. /\ cur \in Reverts /\ UNCHANGED <<history, did, cur, dropped, result>>
        /\ pc = "announce" /\ pc' \in {"prune", "restore"}
    BY <1>12, InHand DEF Announce, GoTo, World, Plan, AfterRewind
  <2>2. row'[cur].scope = row[cur].scope /\ row'[cur].target = row[cur].target
    BY <1>12, PhaseEffect
  <2>3. cur \in Claimed' =>
          cur \in Claimed /\ row'[cur].status = "restoring-files" /\ row'[cur].from = Len(history)
    BY <1>12, PhaseMeant, ClaimedShrinks DEF Claimed
  <2>4. result.files = "unsaid"
    BY <2>1 DEF NamedInv
  <2> QED
    BY <2>1, <2>2, <2>3, <2>4 DEF PlaceTruth, Finishing, InFiles, Writing
<1>13. CASE LeaveAsFound
  <2>1. /\ cur \in Reverts /\ UNCHANGED <<history, row, did, cur, dropped>> /\ Claimed' = Claimed
        /\ pc = "restore" /\ pc' \in {"report", "prune"}
        /\ pc' = "report" => row[cur].scope = "files" \/ dropped = {}
    BY <1>13, InHand DEF LeaveAsFound, GoTo, World, AfterFiles, journal, Claimed
  <2>2. /\ result'.files # "done"
        /\ result'.files = "kept" => ~Recovering \/ rescue[cur]["revert"] = None
    BY <1>13 DEF LeaveAsFound, Untouched, Resumed
  <2>3. cur \in Claimed => "restored" \notin did[cur]
    BY <2>1 DEF PlaceTruth
  <2>4. cur \in Claimed /\ result'.files = "kept" => "wrote" \notin did[cur]
    BY <2>1, <2>2, <2>3 DEF SnapshotInv
  <2> QED
    BY <2>1, <2>2, <2>4 DEF PlaceTruth, Finishing, InFiles, Writing
<1>14. CASE ProbeFails
  BY <1>14, RevertAssumption, InHand
     DEF ProbeFails, GoTo, World, Outside, journal, Untouched, AfterFiles, Fault, PlaceTruth,
       Claimed, Finishing, InFiles, Writing, Fresh, LaneInv, FreshInv, NamedInv, None, NoResult,
       IsPending, Pending, Ended, TypeOK, ThreadTypes, JournalTypes, SagaTypes, GhostTypes,
       RevertAssumption
<1>15. CASE Save
  <2>1. /\ cur \in Reverts /\ UNCHANGED <<history, row, cur, dropped>> /\ Claimed' = Claimed
        /\ pc = "restore" /\ pc' \in {"drop", "write"}
    BY <1>15, InHand DEF Save, GoTo, journal, Claimed
  <2>2. \/ pc' = "write" /\ UNCHANGED <<did, result>>
        \/ /\ pc' = "drop" /\ did'[cur] = did[cur] \cup {"restored"}
           /\ result' = [files |-> "done", named |-> {}]
    BY <1>15, <2>1 DEF Save, GoTo, TypeOK, GhostTypes
  <2>3. result'.files \in {"done", result.files}
    BY <2>2
  <2>4. pc' = "drop" => result'.files = "done"
    BY <2>2
  <2> QED
    BY <2>1, <2>2, <2>3, <2>4 DEF PlaceTruth, Finishing, InFiles, Writing
<1>16. CASE WriteBegins
  BY <1>16, RevertAssumption, InHand
     DEF WriteBegins, GoTo, Plan, Outside, journal, PlaceTruth, Claimed, Finishing, InFiles,
       Writing, Fresh, LaneInv, FreshInv, NamedInv, None, NoResult, IsPending, Pending, Ended,
       TypeOK, ThreadTypes, JournalTypes, SagaTypes, GhostTypes, RevertAssumption
<1>17. CASE WriteEnds
  BY <1>17, RevertAssumption, InHand
     DEF WriteEnds, GoTo, Outside, journal, Saved, PlaceTruth, Claimed, Finishing, InFiles,
       Writing, Fresh, LaneInv, FreshInv, NamedInv, None, NoResult, IsPending, Pending, Ended,
       TypeOK, ThreadTypes, JournalTypes, SagaTypes, GhostTypes, RevertAssumption
<1>18. CASE WriteUnresolved
  <2>1. /\ cur \in Reverts /\ UNCHANGED <<history, row, did, cur, dropped>> /\ Claimed' = Claimed
        /\ pc = "write" /\ pc' = "drop"
    BY <1>18, InHand DEF WriteUnresolved, GoTo, World, journal, Claimed
  <2>2. result'.files # "done" /\ (result'.files = "kept" => saving # "recovery")
    BY <1>18 DEF WriteUnresolved, Untouched
  <2>3. saving \in {"revert", "recovery"}
    BY DEF TypeOK, SagaTypes, Snapshots
  <2>4. cur \in Claimed /\ result'.files = "kept" => "wrote" \notin did[cur]
    BY <2>1, <2>2, <2>3 DEF SnapshotInv, PlaceTruth, Writing
  <2> QED
    BY <2>1, <2>2, <2>4 DEF PlaceTruth, Finishing, InFiles, Writing
<1>19. CASE WriteFails
  BY <1>19, RevertAssumption, InHand
     DEF WriteFails, GoTo, Plan, World, Outside, journal, Fault, PlaceTruth, Claimed, Finishing,
       InFiles, Writing, Fresh, LaneInv, FreshInv, NamedInv, None, NoResult, IsPending, Pending,
       Ended, TypeOK, ThreadTypes, JournalTypes, SagaTypes, GhostTypes, RevertAssumption
<1>20. CASE PutBack
  <2>1. /\ cur \in Reverts /\ UNCHANGED <<history, row, cur, dropped>> /\ Claimed' = Claimed
        /\ pc = "putback" /\ pc' = "drop"
    BY <1>20, InHand DEF PutBack, GoTo, journal, Claimed
  <2>2. result'.files # "done" /\ (result'.files = "kept" => saving = "revert")
    BY <1>20 DEF PutBack, Untouched, TypeOK, SagaTypes, Snapshots
  <2>3. did'[cur] = IF saving = "revert" THEN did[cur] \ {"wrote"} ELSE did[cur]
    BY <1>20, <2>1 DEF PutBack, TypeOK, GhostTypes
  <2> QED
    BY <2>1, <2>2, <2>3 DEF PlaceTruth, Finishing, InFiles, Writing
<1>21. CASE PutBackFails
  BY <1>21, RevertAssumption, InHand
     DEF PutBackFails, GoTo, World, Outside, journal, Saved, AfterFiles, Fault, PlaceTruth,
       Claimed, Finishing, InFiles, Writing, Fresh, LaneInv, FreshInv, NamedInv, None, NoResult,
       IsPending, Pending, Ended, TypeOK, ThreadTypes, JournalTypes, SagaTypes, GhostTypes,
       RevertAssumption
<1>22. CASE \E s \in Snapshots : Discard(s)
  BY <1>22, RevertAssumption, InHand
     DEF Discard, GoTo, Outside, journal, AfterFiles, Fault, NoFault, PlaceTruth, Claimed,
       Finishing, InFiles, Writing, Fresh, LaneInv, FreshInv, NamedInv, None, NoResult,
       IsPending, Pending, Ended, TypeOK, ThreadTypes, JournalTypes, SagaTypes, GhostTypes,
       RevertAssumption
<1>23. CASE Prune
  BY <1>23, RevertAssumption, InHand
     DEF Prune, GoTo, Plan, Outside, journal, Fault, NoFault, PlaceTruth, Claimed, Finishing,
       InFiles, Writing, Fresh, LaneInv, FreshInv, NamedInv, None, NoResult, IsPending, Pending,
       Ended, TypeOK, ThreadTypes, JournalTypes, SagaTypes, GhostTypes, RevertAssumption
<1>24. CASE Project
  <2>1. /\ cur \in Reverts /\ UNCHANGED <<row, cur, dropped, result>> /\ Claimed' = Claimed
        /\ pc = "project" /\ pc' = "report" /\ row[cur].scope # "files"
    BY <1>24, InHand DEF Project, GoTo, Plan, journal, Claimed, FreshInv
  <2>2. row[cur].target <= Len(history) /\ row[cur].target \in Nat
    BY <2>1, TurnsToDrop DEF AgentInv, Rewound
  <2>3. Len(history') = row[cur].target
    BY <1>24, <2>2 DEF Project, TypeOK, ThreadTypes
  <2>4. did'[cur] = IF history' = history THEN did[cur] ELSE did[cur] \cup {"reverted"}
    BY <1>24, <2>1 DEF Project, TypeOK, GhostTypes
  <2>5. cur \in Claimed => row[cur].from = row[cur].target \/ "reverted" \in did'[cur]
    BY <2>1, <2>3, <2>4 DEF PlaceTruth, Finishing
  <2> QED
    BY <2>1, <2>4, <2>5 DEF PlaceTruth, Finishing, InFiles, Writing
<1>25. CASE ProjectFails
  BY <1>25, RevertAssumption, InHand
     DEF ProjectFails, Rest, World, Outside, journal, Fault, PlaceTruth, Claimed, Finishing,
       InFiles, Writing, Fresh, LaneInv, FreshInv, NamedInv, None, NoResult, IsPending, Pending,
       Ended, TypeOK, ThreadTypes, JournalTypes, SagaTypes, GhostTypes, RevertAssumption
<1>26. CASE RecoverFilesAgain
  BY <1>26, RevertAssumption, InHand
     DEF RecoverFilesAgain, At, GoTo, Plan, World, Outside, journal, PlaceTruth, Claimed,
       Finishing, InFiles, Writing, Fresh, LaneInv, FreshInv, NamedInv, None, NoResult,
       IsPending, Pending, Ended, TypeOK, ThreadTypes, JournalTypes, SagaTypes, GhostTypes,
       RevertAssumption
<1>27. CASE RecoverUnmoved
  <2>1. /\ cur \in Reverts /\ UNCHANGED <<history, row, did, cur>> /\ Claimed' = Claimed
        /\ pc = "recover" /\ row[cur].scope # "files" /\ row[cur].status = "restoring-files"
        /\ row[cur].from = Len(history) /\ pc' \in {"prune", "restore", "report"}
        /\ dropped' = TurnsAfter(row[cur].target) /\ (pc' = "report" => dropped' = {})
    BY <1>27, InHand DEF RecoverUnmoved, At, ThreadMoved, LeftAt, GoTo, AfterRewind, World, journal,
      Claimed
  <2>2. result.files = "unsaid" /\ result'.files \in {"unsaid", "maybe"}
    BY <1>27 DEF RecoverUnmoved, At, NamedInv
  <2>3. newest = cur /\ row[cur].target <= row[cur].from
    BY <2>1 DEF LaneInv, AgentInv
  <2>4. dropped' = {} => row[cur].from = row[cur].target
    <3>1. /\ row[cur].target \in Nat /\ Len(history) \in Nat
          /\ TurnsAfter(row[cur].target) = {} <=> Len(history) <= row[cur].target
      BY <2>1, TurnsToDrop
    <3> QED
      BY <2>1, <2>3, <3>1
  <2>5. cur \in Claimed => "reverted" \notin did[cur]
    BY <2>1, <2>3 DEF NewestTruth, RowTruth
  <2>6. cur \in Claimed => "restored" \notin did[cur]
    BY <2>1 DEF PlaceTruth
  <2> QED
    BY <2>1, <2>2, <2>4, <2>5, <2>6 DEF PlaceTruth, Finishing, InFiles, Writing
<1>28. CASE RecoverUnread
  BY <1>28, RevertAssumption, InHand
     DEF RecoverUnread, At, GoTo, Plan, World, Outside, journal, Fault, PlaceTruth, Claimed,
       Finishing, InFiles, Writing, Fresh, LaneInv, FreshInv, NamedInv, None, NoResult,
       IsPending, Pending, Ended, TypeOK, ThreadTypes, JournalTypes, SagaTypes, GhostTypes,
       RevertAssumption
<1>29. CASE EndStep
  BY <1>29, RevertAssumption, InHand, EndStepEffect
     DEF Rest, Outside, Forget, NoFault, Fault, PlaceTruth, Claimed, Finishing, InFiles,
       Writing, Fresh, LaneInv, FreshInv, NamedInv, None, NoResult, IsPending, Pending, Ended,
       TypeOK, ThreadTypes, JournalTypes, SagaTypes, GhostTypes, RevertAssumption
<1>30. CASE Crash
  BY <1>30, RevertAssumption, InHand
     DEF Crash, journal, PlaceTruth, Claimed, Finishing, InFiles, Writing, Fresh, LaneInv,
       FreshInv, NamedInv, None, NoResult, IsPending, Pending, Ended, TypeOK, ThreadTypes,
       JournalTypes, SagaTypes, GhostTypes, RevertAssumption
<1>31. CASE Boot
  <2>1. pc = "idle" /\ cur = None /\ result.files = "unsaid" /\ UNCHANGED <<row, did, result>>
    BY <1>31 DEF Boot, Plan, journal, LaneInv, NamedInv
  <2>2. None \notin Claimed
    BY RevertAssumption DEF Claimed, None, RevertAssumption
  <2>3. \/ cur' = None
        \/ cur' = newest /\ pc' = "recover" /\ newest # None /\ IsPending(newest) /\ Claimed' = Claimed
    BY <1>31, <2>1 DEF Boot, Unlisted, Claimed
  <2>4. IsPending(newest) /\ newest \in Claimed => "restored" \notin did[newest]
    BY <1>31 DEF Boot, IsPending, Pending, NewestTruth, RowTruth
  <2>5. None \notin Claimed'
    BY <1>31, <2>2, ClaimedShrinks DEF Next
  <2> QED
    BY <2>1, <2>3, <2>4, <2>5 DEF PlaceTruth, Finishing, InFiles, Writing
<1> QED
  BY <1>1, <1>2, <1>3, <1>4, <1>5, <1>6, <1>7, <1>8, <1>9, <1>10, <1>11, <1>12, <1>13, <1>14, <1>15, <1>16, <1>17, <1>18, <1>19, <1>20, <1>21, <1>22, <1>23, <1>24, <1>25, <1>26, <1>27, <1>28, <1>29, <1>30, <1>31 DEF Next, SagaStep, LiveStep, RewindStep,
    FilesStep, FinishStep, RecoveryStep, EndStep

\* What recovery concludes from the newest row stays true.
LEMMA NewestTruthStep ==
  ASSUME TypeOK, LaneInv, FreshInv, RowTruth, PlaceTruth, NewestTruth, Next
  PROVE  NewestTruth'
<1>1. CASE \E r \in Reverts, scope \in Scopes, k \in 0 .. Len(history) : Request(r, scope, k)
  <2>1. PICK r \in Reverts, scope \in Scopes, k \in 0 .. Len(history) : Request(r, scope, k)
    BY <1>1
  <2>2. /\ row[r].status = "none" /\ row'[r].status = "requested" /\ newest' = r
        /\ \A q \in Reverts \ {r} : row'[q] = row[q]
    BY <2>1, RequestEffect DEF TypeOK, ThreadTypes

  <2> QED
    BY <2>2 DEF NewestTruth
<1>2. CASE StartStep
  <2>1. UNCHANGED <<history, did, excused, unrecorded, newest, phase, cur>>
    BY <1>2, StartEffect
  <2>2. \A r \in Claimed : /\ row'[r].status = row[r].status /\ row'[r].scope = row[r].scope
                           /\ row'[r].target = row[r].target /\ row'[r].from = row[r].from
    BY <1>2, StartEffect DEF Claimed
  <2> QED
    BY <2>1, <2>2 DEF NewestTruth, Claimed
<1>3. CASE EnsureBaseline
  BY <1>3, BaselineEffect, RevertAssumption
     DEF NewestTruth, PlaceTruth, Claimed, Finishing, InFiles, Writing, Fresh, LaneInv, FreshInv,
       None, IsPending, Pending, Ended, Rows, TypeOK, ThreadTypes, JournalTypes, SagaTypes,
       GhostTypes, RevertAssumption
<1>4. CASE EndTurn
  BY <1>4, RevertAssumption, InHand, TouchedTypes
     DEF EndTurn, saga, ghosts, NewestTruth, PlaceTruth, Claimed, Finishing, InFiles, Writing,
       Fresh, LaneInv, FreshInv, None, IsPending, Pending, Ended, Rows, TypeOK, ThreadTypes,
       JournalTypes, SagaTypes, GhostTypes, RevertAssumption
<1>5. CASE Edit
  BY <1>5, RevertAssumption, InHand
     DEF Edit, conversation, journal, saga, ghosts, NewestTruth, PlaceTruth, Claimed, Finishing,
       InFiles, Writing, Fresh, LaneInv, FreshInv, None, IsPending, Pending, Ended, Rows,
       TypeOK, ThreadTypes, JournalTypes, SagaTypes, GhostTypes, RevertAssumption
<1>6. CASE Age
  BY <1>6, RevertAssumption, InHand, AgeEffect
     DEF Age, conversation, checkout, saga, Blocked, NewestTruth, PlaceTruth, Claimed,
       Finishing, InFiles, Writing, Fresh, LaneInv, FreshInv, None, IsPending, Pending, Ended,
       Rows, TypeOK, ThreadTypes, JournalTypes, SagaTypes, GhostTypes, RevertAssumption
<1>7. CASE Take
  BY <1>7, RevertAssumption, InHand
     DEF Take, conversation, checkout, journal, ghosts, NewestTruth, PlaceTruth, Claimed,
       Finishing, InFiles, Writing, Fresh, LaneInv, FreshInv, None, IsPending, Pending, Ended,
       Rows, TypeOK, ThreadTypes, JournalTypes, SagaTypes, GhostTypes, RevertAssumption
<1>8. CASE Refuse
  BY <1>8, RevertAssumption, InHand
     DEF Refuse, GoTo, Plan, World, Outside, journal, NewestTruth, PlaceTruth, Claimed,
       Finishing, InFiles, Writing, Fresh, LaneInv, FreshInv, None, IsPending, Pending, Ended,
       Rows, TypeOK, ThreadTypes, JournalTypes, SagaTypes, GhostTypes, RevertAssumption
<1>9. CASE Admit
  BY <1>9, RevertAssumption, InHand
     DEF Admit, GoTo, World, Outside, journal, TurnsAfter, TurnAt, NewestTruth, PlaceTruth,
       Claimed, Finishing, InFiles, Writing, Fresh, LaneInv, FreshInv, None, IsPending, Pending,
       Ended, Rows, TypeOK, ThreadTypes, JournalTypes, SagaTypes, GhostTypes, RevertAssumption
<1>10. CASE JournalFirst
  BY <1>10, RevertAssumption, InHand, PhaseEffect
     DEF JournalFirst, GoTo, Plan, World, Outside, journal, Fault, NoFault, NewestTruth,
       PlaceTruth, Claimed, Finishing, InFiles, Writing, Fresh, LaneInv, FreshInv, None,
       IsPending, Pending, Ended, Rows, TypeOK, ThreadTypes, JournalTypes, SagaTypes,
       GhostTypes, RevertAssumption
<1>11. CASE RewindStep
  <2>1. /\ pc = "rewind" /\ UNCHANGED <<row, newest>>
        /\ excused \subseteq excused' /\ unrecorded' = unrecorded
    BY <1>11, RewindEffect
  <2>2. phase = "serving"
    BY <2>1 DEF LaneInv, Fresh
  <2>3. newest \in Claimed => row[newest].status # "restoring-files"
    BY <2>1, <2>2 DEF NewestTruth, PlaceTruth
  <2> QED
    BY <2>1, <2>3 DEF NewestTruth, Claimed
<1>12. CASE Announce
  <2>1. /\ pc = "announce" /\ phase' = "serving" /\ phase = "serving" /\ cur \in Reverts
        /\ UNCHANGED <<history, did, cur, unrecorded>>
    BY <1>12, InHand DEF Announce, GoTo, World, LaneInv
  <2>2. CASE Record("restoring-files", Len(history)) /\ UNCHANGED excused
    <3>1. /\ newest' = cur /\ row'[cur].from = Len(history)
          /\ row'[cur].scope = row[cur].scope /\ row'[cur].target = row[cur].target
      BY <2>1, <2>2, RecordEffect DEF Pending, TypeOK, ThreadTypes
    <3>2. cur \in Claimed => "reverted" \notin did[cur]
      BY <2>1 DEF PlaceTruth
    <3> QED
      BY <2>1, <2>2, <3>1, <3>2 DEF NewestTruth, Claimed
  <2>3. CASE excused' = excused \cup {cur} /\ UNCHANGED journal
    BY <2>1, <2>3 DEF NewestTruth, Claimed, journal
  <2> QED
    BY <1>12, <2>2, <2>3 DEF Announce
<1>13. CASE LeaveAsFound
  BY <1>13, RevertAssumption, InHand
     DEF LeaveAsFound, GoTo, World, Outside, journal, Untouched, AfterFiles, NewestTruth,
       PlaceTruth, Claimed, Finishing, InFiles, Writing, Fresh, LaneInv, FreshInv, None,
       IsPending, Pending, Ended, Rows, TypeOK, ThreadTypes, JournalTypes, SagaTypes,
       GhostTypes, RevertAssumption
<1>14. CASE ProbeFails
  BY <1>14, RevertAssumption, InHand
     DEF ProbeFails, GoTo, World, Outside, journal, Untouched, AfterFiles, Fault, NewestTruth,
       PlaceTruth, Claimed, Finishing, InFiles, Writing, Fresh, LaneInv, FreshInv, None,
       IsPending, Pending, Ended, Rows, TypeOK, ThreadTypes, JournalTypes, SagaTypes,
       GhostTypes, RevertAssumption
<1>15. CASE Save
  BY <1>15, RevertAssumption, InHand
     DEF Save, GoTo, Outside, journal, NewestTruth, PlaceTruth, Claimed, Finishing, InFiles,
       Writing, Fresh, LaneInv, FreshInv, None, IsPending, Pending, Ended, Rows, TypeOK,
       ThreadTypes, JournalTypes, SagaTypes, GhostTypes, RevertAssumption
<1>16. CASE WriteBegins
  BY <1>16, RevertAssumption, InHand
     DEF WriteBegins, GoTo, Plan, Outside, journal, NewestTruth, PlaceTruth, Claimed, Finishing,
       InFiles, Writing, Fresh, LaneInv, FreshInv, None, IsPending, Pending, Ended, Rows,
       TypeOK, ThreadTypes, JournalTypes, SagaTypes, GhostTypes, RevertAssumption
<1>17. CASE WriteEnds
  BY <1>17, RevertAssumption, InHand
     DEF WriteEnds, GoTo, Outside, journal, Saved, NewestTruth, PlaceTruth, Claimed, Finishing,
       InFiles, Writing, Fresh, LaneInv, FreshInv, None, IsPending, Pending, Ended, Rows,
       TypeOK, ThreadTypes, JournalTypes, SagaTypes, GhostTypes, RevertAssumption
<1>18. CASE WriteUnresolved
  BY <1>18, RevertAssumption, InHand
     DEF WriteUnresolved, GoTo, World, Outside, journal, Untouched, Fault, NewestTruth,
       PlaceTruth, Claimed, Finishing, InFiles, Writing, Fresh, LaneInv, FreshInv, None,
       IsPending, Pending, Ended, Rows, TypeOK, ThreadTypes, JournalTypes, SagaTypes,
       GhostTypes, RevertAssumption
<1>19. CASE WriteFails
  BY <1>19, RevertAssumption, InHand
     DEF WriteFails, GoTo, Plan, World, Outside, journal, Fault, NewestTruth, PlaceTruth,
       Claimed, Finishing, InFiles, Writing, Fresh, LaneInv, FreshInv, None, IsPending, Pending,
       Ended, Rows, TypeOK, ThreadTypes, JournalTypes, SagaTypes, GhostTypes, RevertAssumption
<1>20. CASE PutBack
  BY <1>20, RevertAssumption, InHand
     DEF PutBack, GoTo, Outside, journal, Untouched, NewestTruth, PlaceTruth, Claimed,
       Finishing, InFiles, Writing, Fresh, LaneInv, FreshInv, None, IsPending, Pending, Ended,
       Rows, TypeOK, ThreadTypes, JournalTypes, SagaTypes, GhostTypes, RevertAssumption
<1>21. CASE PutBackFails
  BY <1>21, RevertAssumption, InHand
     DEF PutBackFails, GoTo, World, Outside, journal, Saved, AfterFiles, Fault, NewestTruth,
       PlaceTruth, Claimed, Finishing, InFiles, Writing, Fresh, LaneInv, FreshInv, None,
       IsPending, Pending, Ended, Rows, TypeOK, ThreadTypes, JournalTypes, SagaTypes,
       GhostTypes, RevertAssumption
<1>22. CASE \E s \in Snapshots : Discard(s)
  BY <1>22, RevertAssumption, InHand
     DEF Discard, GoTo, Outside, journal, AfterFiles, Fault, NoFault, NewestTruth, PlaceTruth,
       Claimed, Finishing, InFiles, Writing, Fresh, LaneInv, FreshInv, None, IsPending, Pending,
       Ended, Rows, TypeOK, ThreadTypes, JournalTypes, SagaTypes, GhostTypes, RevertAssumption
<1>23. CASE Prune
  BY <1>23, RevertAssumption, InHand
     DEF Prune, GoTo, Plan, Outside, journal, Fault, NoFault, NewestTruth, PlaceTruth, Claimed,
       Finishing, InFiles, Writing, Fresh, LaneInv, FreshInv, None, IsPending, Pending, Ended,
       Rows, TypeOK, ThreadTypes, JournalTypes, SagaTypes, GhostTypes, RevertAssumption
<1>24. CASE Project
  BY <1>24, RevertAssumption, InHand
     DEF Project, GoTo, Plan, Outside, journal, NoFault, NewestTruth, PlaceTruth, Claimed,
       Finishing, InFiles, Writing, Fresh, LaneInv, FreshInv, None, IsPending, Pending, Ended,
       Rows, TypeOK, ThreadTypes, JournalTypes, SagaTypes, GhostTypes, RevertAssumption
<1>25. CASE ProjectFails
  BY <1>25, RevertAssumption, InHand
     DEF ProjectFails, Rest, World, Outside, journal, Fault, NewestTruth, PlaceTruth, Claimed,
       Finishing, InFiles, Writing, Fresh, LaneInv, FreshInv, None, IsPending, Pending, Ended,
       Rows, TypeOK, ThreadTypes, JournalTypes, SagaTypes, GhostTypes, RevertAssumption
<1>26. CASE RecoverFilesAgain
  BY <1>26, RevertAssumption, InHand
     DEF RecoverFilesAgain, At, GoTo, Plan, World, Outside, journal, NewestTruth, PlaceTruth,
       Claimed, Finishing, InFiles, Writing, Fresh, LaneInv, FreshInv, None, IsPending, Pending,
       Ended, Rows, TypeOK, ThreadTypes, JournalTypes, SagaTypes, GhostTypes, RevertAssumption
<1>27. CASE RecoverUnmoved
  BY <1>27, RevertAssumption, InHand
     DEF RecoverUnmoved, At, GoTo, World, Outside, journal, AfterRewind, KeepsFiles, TurnsAfter,
       NewestTruth, PlaceTruth, Claimed, Finishing, InFiles, Writing, Fresh, LaneInv, FreshInv,
       None, IsPending, Pending, Ended, Rows, TypeOK, ThreadTypes, JournalTypes, SagaTypes,
       GhostTypes, RevertAssumption
<1>28. CASE RecoverUnread
  BY <1>28, RevertAssumption, InHand
     DEF RecoverUnread, At, GoTo, Plan, World, Outside, journal, Fault, NewestTruth, PlaceTruth,
       Claimed, Finishing, InFiles, Writing, Fresh, LaneInv, FreshInv, None, IsPending, Pending,
       Ended, Rows, TypeOK, ThreadTypes, JournalTypes, SagaTypes, GhostTypes, RevertAssumption
<1>29. CASE EndStep
  <2>1. /\ cur \in Reverts /\ pc # "idle" /\ history' = history
        /\ \A r \in Reverts \ {cur} : row'[r] = row[r]
        /\ \/ newest' = cur /\ row'[cur].status \in Ended
           \/ UNCHANGED <<row, newest, says>>
    BY <1>29, EndStepEffect DEF Outside
  <2>2. CASE newest' = cur /\ row'[cur].status \in Ended
    BY <2>2 DEF NewestTruth, Ended
  <2>3. CASE ~(newest' = cur /\ row'[cur].status \in Ended)
    <3>1. UNCHANGED <<row, newest>>
      BY <2>1, <2>3
    <3>2. newest \in Claimed' => newest \in Claimed
      BY <1>29, ClaimedShrinks DEF Next, SagaStep, LiveStep, FinishStep, RecoveryStep, EndStep
    <3>3. newest \in Claimed' /\ row[newest].status = "restoring-files" => newest # cur
      BY <1>29, <2>1, <3>1, LostEnds DEF Claimed, Ended
    <3>4. newest \in Claimed /\ row[newest].status = "restoring-files" => phase = "down" \/ cur = newest
      BY DEF NewestTruth
    <3>5. phase # "down"
      BY <2>1 DEF LaneInv
    <3> QED
      BY <3>1, <3>2, <3>3, <3>4, <3>5 DEF NewestTruth
  <2> QED
    BY <2>2, <2>3
<1>30. CASE Crash
  BY <1>30, RevertAssumption, InHand
     DEF Crash, journal, NewestTruth, PlaceTruth, Claimed, Finishing, InFiles, Writing, Fresh,
       LaneInv, FreshInv, None, IsPending, Pending, Ended, Rows, TypeOK, ThreadTypes,
       JournalTypes, SagaTypes, GhostTypes, RevertAssumption
<1>31. CASE Boot
  <2>1. phase = "down" /\ UNCHANGED <<row, newest, did, history>> /\ phase' # "down"
    BY <1>31 DEF Boot, Unlisted, journal, conversation
  <2>2. /\ newest \in Claimed' => newest \in Claimed
        /\ newest \in Claimed' /\ newest # None /\ IsPending(newest) => cur' = newest
    BY <1>31 DEF Boot, Unlisted, Claimed
  <2>3. None \notin Claimed
    BY RevertAssumption DEF Claimed, None, RevertAssumption
  <2> QED
    BY <2>1, <2>2, <2>3 DEF NewestTruth, IsPending, Pending
<1> QED
  BY <1>1, <1>2, <1>3, <1>4, <1>5, <1>6, <1>7, <1>8, <1>9, <1>10, <1>11, <1>12, <1>13, <1>14, <1>15, <1>16, <1>17, <1>18, <1>19, <1>20, <1>21, <1>22, <1>23, <1>24, <1>25, <1>26, <1>27, <1>28, <1>29, <1>30, <1>31 DEF Next, SagaStep, LiveStep, RewindStep,
    FilesStep, FinishStep, RecoveryStep, EndStep
\* A saying of a revert that has done d, and that had nothing to shorten if "whole".
Holds(saying, d, whole) ==
  /\ saying.agent = "kept" => "rewound" \notin d
  /\ saying.agent = "forgot" => whole \/ "rewound" \in d
  /\ saying.history = "kept" => "reverted" \notin d
  /\ saying.history = "done" => whole \/ "reverted" \in d
  /\ saying.files = "kept" => "wrote" \notin d
  /\ saying.files = "done" => "restored" \in d

\* EndsAreTrue, revert by revert.
LEMMA EndsHold ==
  EndsAreTrue <=> \A r \in Claimed : Holds(says[r], did[r], row[r].from = row[r].target)
  BY DEF EndsAreTrue, Claimed, Holds

\* The saying each ending gives its revert is true when it is given.
LEMMA EndingsHold ==
  ASSUME TypeOK, LaneInv, FreshInv, ScopeIsKept, NamedInv, AgentInv,
         RowTruth, PlaceTruth, NewestTruth, EndStep, cur \in Claimed
  PROVE  Holds(says'[cur], did'[cur], row[cur].from = row[cur].target)
<1> DEFINE whole == row[cur].from = row[cur].target
           d == did[cur]
<1>1. cur \in Reverts /\ pc # "idle" /\ cur # None /\ says[cur] = Unsaid
  BY EndingsEnd, RevertAssumption
  DEF LaneInv, IsPending, Pending, Ended, None, RevertAssumption
<1>2. ASSUME NEW st \in Ended, NEW sg \in Sayings, End(st, sg), Holds(sg, did'[cur], whole)
      PROVE  Holds(says'[cur], did'[cur], whole)
  <2>1. says'[cur] \in {Unsaid, sg}
    BY <1>1, <1>2, EndEffect DEF TypeOK
  <2> QED
    BY <1>2, <2>1 DEF Holds, Unsaid, Saying
<1>3. /\ result \in Results /\ Present \subseteq Snapshots /\ row[cur] \in Rows
      /\ row[cur].scope \in Scopes
  BY <1>1 DEF TypeOK, SagaTypes, JournalTypes, Present, Rows
<1>4. /\ NothingChanged \in Sayings /\ RewindInDoubt \in Sayings
      /\ \A a \in {"unsaid", "kept", "maybe", "forgot"}, h \in {"unsaid", "kept", "done"} :
           /\ \A f \in {"unsaid", "kept", "maybe", "done"} : Saying(a, h, f, {}) \in Sayings
           /\ Saying(a, h, "maybe", Present) \in Sayings
           /\ Saying(a, h, result.files, result.named) \in Sayings
  BY <1>3 DEF NothingChanged, RewindInDoubt, Saying, Sayings, Results
<1>5. CASE Fail
  <2>1. did'[cur] = {} /\ End("failed", NothingChanged)
    BY <1>1, <1>5 DEF Fail, FreshInv, Fresh, Claimed
  <2>2. Holds(NothingChanged, {}, whole)
    BY DEF Holds, NothingChanged, Saying
  <2> QED
    BY <1>2, <1>4, <2>1, <2>2 DEF Ended
<1>6. CASE RewindTimesOut
  <2>1. did'[cur] \subseteq {"rewound"} /\ End("interrupted", RewindInDoubt)
    BY <1>1, <1>6, EndStepEffect DEF RewindTimesOut, EndStep, FreshInv, Fresh
  <2>2. Holds(RewindInDoubt, did'[cur], whole)
    BY <2>1 DEF Holds, RewindInDoubt, Saying
  <2> QED
    BY <1>2, <1>4, <2>1, <2>2 DEF Ended
<1>7. CASE Report
  <2>1. pc = "report" /\ did' = did /\ row[cur].status = "restoring-files"
    BY <1>7 DEF Report, PlaceTruth
  <2>2. /\ result.files = "kept" => "wrote" \notin d
        /\ result.files = "done" => "restored" \in d
    BY DEF PlaceTruth
  <2>3. CASE row[cur].scope = "conversation"
    <3>1. End("completed", Saying("forgot", "done", "kept", {}))
      BY <1>7, <2>3 DEF Report
    <3>2. Holds(Saying("forgot", "done", "kept", {}), d, whole)
      BY <1>1, <2>1, <2>3 DEF Holds, Saying, PlaceTruth, RowTruth, ScopeIsKept
    <3> QED
      BY <1>2, <1>4, <2>1, <3>1, <3>2 DEF Ended
  <2>4. CASE row[cur].scope = "files"
    <3>1. d \cap {"rewound", "reverted"} = {}
      BY <1>1, <2>4 DEF ScopeIsKept
    <3>2. CASE result.files = "done"
      <4>1. End("completed", Saying("kept", "kept", "done", {}))
        BY <1>7, <2>4, <3>2 DEF Report
      <4>2. Holds(Saying("kept", "kept", "done", {}), d, whole)
        BY <2>2, <3>1, <3>2 DEF Holds, Saying
      <4> QED
        BY <1>2, <1>4, <2>1, <4>1, <4>2 DEF Ended
    <3>3. CASE result.files # "done"
      <4>1. End("failed", Saying("kept", "kept", result.files, result.named))
        BY <1>7, <2>4, <3>3 DEF Report
      <4>2. Holds(Saying("kept", "kept", result.files, result.named), d, whole)
        BY <2>2, <3>1, <3>3 DEF Holds, Saying
      <4> QED
        BY <1>2, <1>4, <2>1, <4>1, <4>2 DEF Ended
    <3> QED
      BY <3>2, <3>3
  <2>5. CASE row[cur].scope = "all"
    <3>1. /\ whole \/ "reverted" \in d
          /\ dropped = {} => whole
          /\ IF whole THEN d \cap {"rewound", "reverted"} = {} ELSE "rewound" \in d
      BY <2>1, <2>5 DEF PlaceTruth, RowTruth
    <3>2. CASE result.files = "done"
      <4>1. End("completed", Saying("forgot", "done", "done", {}))
        BY <1>7, <2>5, <3>2 DEF Report
      <4>2. Holds(Saying("forgot", "done", "done", {}), d, whole)
        BY <2>2, <3>1, <3>2 DEF Holds, Saying
      <4> QED
        BY <1>2, <1>4, <2>1, <4>1, <4>2 DEF Ended
    <3>3. CASE result.files # "done" /\ dropped # {}
      <4>1. End("files-not-restored", Saying("forgot", "done", result.files, result.named))
        BY <1>7, <2>5, <3>3 DEF Report
      <4>2. Holds(Saying("forgot", "done", result.files, result.named), d, whole)
        BY <2>2, <3>1, <3>3 DEF Holds, Saying
      <4> QED
        BY <1>2, <1>4, <2>1, <4>1, <4>2 DEF Ended
    <3>4. CASE result.files # "done" /\ dropped = {}
      <4>1. End("failed", Saying("kept", "kept", result.files, result.named))
        BY <1>7, <2>5, <3>4 DEF Report
      <4>2. Holds(Saying("kept", "kept", result.files, result.named), d, whole)
        BY <2>2, <3>1, <3>4 DEF Holds, Saying
      <4> QED
        BY <1>2, <1>4, <2>1, <4>1, <4>2 DEF Ended
    <3> QED
      BY <3>2, <3>3, <3>4
  <2> QED
    BY <1>3, <2>3, <2>4, <2>5 DEF Scopes
<1>8. CASE RecoverRequested
  <2>1. did'[cur] = {} /\ End("failed", NothingChanged)
    BY <1>8 DEF RecoverRequested, At, RowTruth
  <2>2. Holds(NothingChanged, {}, whole)
    BY DEF Holds, NothingChanged, Saying
  <2> QED
    BY <1>2, <1>4, <2>1, <2>2 DEF Ended
<1>9. CASE RecoverRollingBack
  <2>1. did'[cur] \subseteq {"rewound"} /\ End("interrupted", RewindInDoubt)
    BY <1>9 DEF RecoverRollingBack, At, RowTruth
  <2>2. Holds(RewindInDoubt, did'[cur], whole)
    BY <2>1 DEF Holds, RewindInDoubt, Saying
  <2> QED
    BY <1>2, <1>4, <2>1, <2>2 DEF Ended
<1>10. CASE RecoverFilesMoved
  <2>1. /\ did' = did /\ d \cap {"rewound", "reverted"} = {}
        /\ End("interrupted", Saying("kept", "kept", "maybe", Present))
    BY <1>1, <1>10 DEF RecoverFilesMoved, ScopeIsKept
  <2>2. Holds(Saying("kept", "kept", "maybe", Present), d, whole)
    BY <2>1 DEF Holds, Saying
  <2> QED
    BY <1>2, <1>4, <2>1, <2>2 DEF Ended
<1> DEFINE restoring == row[cur].status = "restoring-files" /\ row[cur].scope # "files"
<1>11. /\ RecoverReverted \/ RecoverMoved => restoring /\ newest = cur /\ did' = did
       /\ restoring => row[cur].from # None /\ row[cur].target <= row[cur].from
       /\ restoring => IF whole THEN d \cap {"rewound", "reverted"} = {} ELSE "rewound" \in d
       /\ restoring /\ newest = cur =>
            Len(history) = IF "reverted" \in d THEN row[cur].target ELSE row[cur].from
  BY <1>1 DEF RecoverReverted, RecoverMoved, At, LaneInv, AgentInv, RowTruth, NewestTruth
<1>12. CASE RecoverReverted
  <2>1. "rewound" \in d /\ "reverted" \in d
    BY <1>3, <1>11, <1>12 DEF RecoverReverted, AlreadyReverted, LeftAt, Rows, None
  <2>2. CASE KeepsFiles
    <3>1. End("completed", Saying("forgot", "done", "kept", {})) /\ "wrote" \notin d
      BY <1>1, <1>12, <2>2 DEF RecoverReverted, KeepsFiles, ScopeIsKept
    <3>2. Holds(Saying("forgot", "done", "kept", {}), d, whole)
      BY <2>1, <3>1 DEF Holds, Saying
    <3> QED
      BY <1>2, <1>4, <1>11, <1>12, <3>1, <3>2 DEF Ended
  <2>3. CASE ~KeepsFiles
    <3>1. End("interrupted", Saying("unsaid", "done", "maybe", Present))
      BY <1>12, <2>3 DEF RecoverReverted
    <3>2. Holds(Saying("unsaid", "done", "maybe", Present), d, whole)
      BY <2>1 DEF Holds, Saying
    <3> QED
      BY <1>2, <1>4, <1>11, <1>12, <3>1, <3>2 DEF Ended
  <2> QED
    BY <2>2, <2>3
<1>13. CASE RecoverMoved
  <2>1. "reverted" \notin d
    BY <1>3, <1>11, <1>13 DEF RecoverMoved, AlreadyReverted, LeftAt, Rows, None
  <2>2. CASE KeepsFiles
    <3>1. End("interrupted", RewindInDoubt) /\ "wrote" \notin d
      BY <1>1, <1>13, <2>2 DEF RecoverMoved, KeepsFiles, ScopeIsKept
    <3>2. Holds(RewindInDoubt, d, whole)
      BY <2>1, <3>1 DEF Holds, RewindInDoubt, Saying
    <3> QED
      BY <1>2, <1>4, <1>11, <1>13, <3>1, <3>2 DEF Ended
  <2>3. CASE ~KeepsFiles
    <3>1. End("interrupted", Saying("maybe", "kept", "maybe", Present))
      BY <1>13, <2>3 DEF RecoverMoved
    <3>2. Holds(Saying("maybe", "kept", "maybe", Present), d, whole)
      BY <2>1 DEF Holds, Saying
    <3> QED
      BY <1>2, <1>4, <1>11, <1>13, <3>1, <3>2 DEF Ended
  <2> QED
    BY <2>2, <2>3
<1>14. CASE GiveUp
  BY <1>14 DEF GiveUp, NamedInv, Claimed
<1> QED
  BY <1>5, <1>6, <1>7, <1>8, <1>9, <1>10, <1>12, <1>13, <1>14 DEF EndStep

\* Only the end of a revert says anything of it.
LEMMA SaysBelongToEnds ==
  ASSUME TypeOK, LaneInv, Next, NEW r \in Reverts, ~(EndStep /\ r = cur)
  PROVE  says'[r] = says[r]
<1>1. CASE EndStep
  <2>1. PICK st \in Ended, sg \in Sayings : End(st, sg)
    BY <1>1, EndingsEnd
  <2> QED
    BY <1>1, <2>1, EndEffect, EndingsEnd DEF TypeOK
<1>2. CASE JournalFirst \/ Announce
  BY <1>2, PhaseEffect
<1>3. CASE \/ \E q \in Reverts, scope \in Scopes, k \in 0 .. Len(history) : Request(q, scope, k)
           \/ StartStep \/ EnsureBaseline \/ EndTurn \/ Edit \/ Age \/ Take \/ Crash \/ Boot
  BY <1>3, StartEffect, BaselineEffect DEF Request, EndTurn, Edit, Age, Take, Crash, Boot, journal
<1>4. CASE \/ Refuse \/ Admit \/ RewindStep \/ FilesStep
           \/ Prune \/ Project \/ ProjectFails
           \/ RecoverFilesAgain \/ RecoverUnmoved \/ RecoverUnread
  BY <1>4, RewindEffect DEF Refuse, Admit, FilesStep, LeaveAsFound, ProbeFails, Save,
    WriteBegins, WriteEnds, WriteUnresolved, WriteFails, PutBack, PutBackFails, Discard, Prune,
    Project, ProjectFails, RecoverFilesAgain, RecoverUnmoved, RecoverUnread, journal
<1> QED
  BY <1>1, <1>2, <1>3, <1>4
  DEF Next, SagaStep, LiveStep, RewindStep, FinishStep, RecoveryStep, EndStep

\* No step changes what the saying of an ended revert is about.
LEMMA EndedStays ==
  ASSUME TypeOK, LaneInv, NEW e \in Reverts, says[e] # Unsaid, Next
  PROVE  /\ says'[e] = says[e] /\ did'[e] = did[e]
         /\ row'[e].from = row[e].from /\ row'[e].target = row[e].target
<1>0. row[e].status \in Ended /\ e # cur
  BY RevertAssumption DEF LaneInv, IsPending, Pending, Ended, None, RevertAssumption
<1>1. CASE \E r \in Reverts, scope \in Scopes, k \in 0 .. Len(history) : Request(r, scope, k)
  <2>1. PICK q \in Reverts, scope \in Scopes, k \in 0 .. Len(history) : Request(q, scope, k)
    BY <1>1
  <2>2. row[q].status = "none" /\ \A p \in Reverts \ {q} : row'[p] = row[p]
    BY <2>1, RequestEffect DEF TypeOK, ThreadTypes
  <2>3. q # e
    BY <1>0, <2>2 DEF Ended
  <2> QED
    BY <2>1, <2>2, <2>3 DEF Request, ghosts
<1>2. CASE StartStep
  BY <1>2, <1>0, StartEffect, RevertAssumption, InHand
     DEF TypeOK, JournalTypes, GhostTypes
<1>3. CASE EnsureBaseline
  BY <1>3, <1>0, BaselineEffect, RevertAssumption
     DEF TypeOK, JournalTypes, GhostTypes
<1>4. CASE EndTurn
  BY <1>4, <1>0, InHand, TouchedTypes
     DEF EndTurn, saga, ghosts, TypeOK, JournalTypes, GhostTypes
<1>5. CASE Edit
  BY <1>5, <1>0, InHand
     DEF Edit, conversation, journal, saga, ghosts, TypeOK, JournalTypes, GhostTypes
<1>6. CASE Age
  BY <1>6, <1>0, InHand, AgeEffect
     DEF Age, conversation, checkout, saga, Blocked, TypeOK, JournalTypes, GhostTypes
<1>7. CASE Take
  BY <1>7, <1>0, InHand
     DEF Take, conversation, checkout, journal, ghosts, TypeOK, JournalTypes, GhostTypes
<1>8. CASE Refuse
  BY <1>8, <1>0, InHand
     DEF Refuse, GoTo, Plan, World, Outside, journal, TypeOK, JournalTypes, GhostTypes
<1>9. CASE Admit
  BY <1>9, <1>0, InHand
     DEF Admit, GoTo, World, Outside, journal, TurnsAfter, TurnAt, TypeOK, JournalTypes,
       GhostTypes
<1>10. CASE JournalFirst
  BY <1>10, <1>0, InHand, PhaseEffect
     DEF JournalFirst, GoTo, Plan, World, Outside, journal, Fault, NoFault, TypeOK,
       JournalTypes, GhostTypes
<1>11. CASE RewindStep
  BY <1>11, <1>0, RewindEffect, RevertAssumption
     DEF TypeOK, JournalTypes, GhostTypes
<1>12. CASE Announce
  BY <1>12, <1>0, InHand, PhaseEffect
     DEF Announce, GoTo, Plan, World, Outside, journal, Fault, NoFault, AfterRewind, TypeOK,
       JournalTypes, GhostTypes
<1>13. CASE LeaveAsFound
  BY <1>13, <1>0, InHand
     DEF LeaveAsFound, GoTo, World, Outside, journal, Untouched, AfterFiles, TypeOK,
       JournalTypes, GhostTypes
<1>14. CASE ProbeFails
  BY <1>14, <1>0, InHand
     DEF ProbeFails, GoTo, World, Outside, journal, Untouched, AfterFiles, Fault, TypeOK,
       JournalTypes, GhostTypes
<1>15. CASE Save
  BY <1>15, <1>0, InHand
     DEF Save, GoTo, Outside, journal, TypeOK, JournalTypes, GhostTypes
<1>16. CASE WriteBegins
  BY <1>16, <1>0, InHand
     DEF WriteBegins, GoTo, Plan, Outside, journal, TypeOK, JournalTypes, GhostTypes
<1>17. CASE WriteEnds
  BY <1>17, <1>0, InHand
     DEF WriteEnds, GoTo, Outside, journal, Saved, TypeOK, JournalTypes, GhostTypes
<1>18. CASE WriteUnresolved
  BY <1>18, <1>0, InHand
     DEF WriteUnresolved, GoTo, World, Outside, journal, Untouched, Fault, TypeOK, JournalTypes,
       GhostTypes
<1>19. CASE WriteFails
  BY <1>19, <1>0, InHand
     DEF WriteFails, GoTo, Plan, World, Outside, journal, Fault, TypeOK, JournalTypes,
       GhostTypes
<1>20. CASE PutBack
  BY <1>20, <1>0, InHand
     DEF PutBack, GoTo, Outside, journal, Untouched, TypeOK, JournalTypes, GhostTypes
<1>21. CASE PutBackFails
  BY <1>21, <1>0, InHand
     DEF PutBackFails, GoTo, World, Outside, journal, Saved, AfterFiles, Fault, TypeOK,
       JournalTypes, GhostTypes
<1>22. CASE \E s \in Snapshots : Discard(s)
  BY <1>22, <1>0, InHand
     DEF Discard, GoTo, Outside, journal, AfterFiles, Fault, NoFault, TypeOK, JournalTypes,
       GhostTypes
<1>23. CASE Prune
  BY <1>23, <1>0, InHand
     DEF Prune, GoTo, Plan, Outside, journal, Fault, NoFault, TypeOK, JournalTypes, GhostTypes
<1>24. CASE Project
  BY <1>24, <1>0, InHand
     DEF Project, GoTo, Plan, Outside, journal, NoFault, TypeOK, JournalTypes, GhostTypes
<1>25. CASE ProjectFails
  BY <1>25, <1>0, InHand
     DEF ProjectFails, Rest, World, Outside, journal, Fault, TypeOK, JournalTypes, GhostTypes
<1>26. CASE RecoverFilesAgain
  BY <1>26, <1>0, InHand
     DEF RecoverFilesAgain, At, GoTo, Plan, World, Outside, journal, TypeOK, JournalTypes,
       GhostTypes
<1>27. CASE RecoverUnmoved
  BY <1>27, <1>0, InHand
     DEF RecoverUnmoved, At, GoTo, World, Outside, journal, AfterRewind, KeepsFiles, TurnsAfter,
       TypeOK, JournalTypes, GhostTypes
<1>28. CASE RecoverUnread
  BY <1>28, <1>0, InHand
     DEF RecoverUnread, At, GoTo, Plan, World, Outside, journal, Fault, TypeOK, JournalTypes,
       GhostTypes
<1>29. CASE EndStep
  <2>1. PICK st \in Ended, sg \in Sayings : End(st, sg)
    BY <1>29, EndingsEnd
  <2>2. row'[e] = row[e] /\ says'[e] = says[e]
    BY <1>29, <1>0, <2>1, EndEffect, EndingsEnd DEF TypeOK
  <2>3. did'[e] = did[e]
    BY <1>29, <1>0, EndStepEffect DEF Forget, TypeOK, GhostTypes
  <2> QED
    BY <2>2, <2>3
<1>30. CASE Crash
  BY <1>30, <1>0, InHand
     DEF Crash, journal, TypeOK, JournalTypes, GhostTypes
<1>31. CASE Boot
  BY <1>31, <1>0, InHand
     DEF Boot, Plan, conversation, checkout, journal, ghosts, TypeOK, JournalTypes, GhostTypes
<1> QED
  BY <1>1, <1>2, <1>3, <1>4, <1>5, <1>6, <1>7, <1>8, <1>9, <1>10, <1>11, <1>12, <1>13, <1>14, <1>15, <1>16, <1>17, <1>18, <1>19, <1>20, <1>21, <1>22, <1>23, <1>24, <1>25, <1>26, <1>27, <1>28, <1>29, <1>30, <1>31 DEF Next, SagaStep, LiveStep, RewindStep,
    FilesStep, FinishStep, RecoveryStep, EndStep

\* What the rows of ended reverts say stays true.
LEMMA EndsStep ==
  ASSUME TypeOK, LaneInv, FreshInv, ScopeIsKept, NamedInv, AgentInv,
         RowTruth, PlaceTruth, NewestTruth, EndsAreTrue, Next
  PROVE  EndsAreTrue'
<1>1. ASSUME NEW r \in Claimed', says[r] # Unsaid
      PROVE  Holds(says'[r], did'[r], row'[r].from = row'[r].target)
  <2>1. r \in Claimed /\ r \in Reverts
    BY <1>1, ClaimedShrinks DEF Claimed
  <2> QED
    BY <1>1, <2>1, EndedStays, EndsHold
<1>2. ASSUME NEW r \in Claimed', says[r] = Unsaid
      PROVE  Holds(says'[r], did'[r], row'[r].from = row'[r].target)
  <2>1. r \in Claimed /\ r \in Reverts
    BY <1>2, ClaimedShrinks DEF Claimed
  <2>2. CASE EndStep /\ r = cur
    <3>1. row'[cur].from = row[cur].from /\ row'[cur].target = row[cur].target
      BY <2>2, EndStepEffect
    <3> QED
      BY <2>1, <2>2, <3>1, EndingsHold
  <2>3. CASE ~(EndStep /\ r = cur)
    <3>1. says'[r] = Unsaid
      BY <1>2, <2>1, <2>3, SaysBelongToEnds
    <3> QED
      BY <3>1 DEF Holds, Unsaid, Saying
  <2> QED
    BY <2>2, <2>3
<1> QED
  BY <1>1, <1>2 DEF EndsAreTrue, Claimed, Holds

TruthInv == RowTruth /\ PlaceTruth /\ NewestTruth /\ EndsAreTrue

\* At the start nothing is journaled and nothing said.
LEMMA InitTruth == Init => TruthInv
<1> SUFFICES ASSUME Init PROVE TruthInv
  OBVIOUS
<1>1. \A r \in Reverts : row[r].status = "none" /\ says[r] = Unsaid
  BY DEF Init
<1>2. cur = None /\ newest = None /\ None \notin Claimed /\ Claimed \subseteq Reverts
  BY RevertAssumption DEF Init, Claimed, None, RevertAssumption
<1>3. RowTruth /\ PlaceTruth /\ NewestTruth
  BY <1>1, <1>2 DEF RowTruth, PlaceTruth, NewestTruth
<1>4. EndsAreTrue
  BY <1>1, <1>2, EndsHold DEF Holds, Unsaid, Saying
<1> QED
  BY <1>3, <1>4 DEF TruthInv

\* Every step keeps what the rows tell true.
LEMMA StepTruth == IndInv /\ TruthInv /\ [Next]_vars => TruthInv'
<1>1. ASSUME IndInv, TruthInv, Next PROVE TruthInv'
  <2>1. /\ TypeOK /\ LaneInv /\ FreshInv /\ ScopeIsKept /\ SnapshotInv /\ NamedInv /\ AgentInv
        /\ RowTruth /\ PlaceTruth /\ NewestTruth /\ EndsAreTrue
    BY <1>1 DEF IndInv, TruthInv
  <2>2. RowTruth'
    BY <1>1, <2>1, RowTruthStep
  <2>3. PlaceTruth'
    BY <1>1, <2>1, PlaceTruthStep
  <2>4. NewestTruth'
    BY <1>1, <2>1, NewestTruthStep
  <2>5. EndsAreTrue'
    BY <1>1, <2>1, EndsStep
  <2> QED
    BY <2>2, <2>3, <2>4, <2>5 DEF TruthInv
<1>2. ASSUME TruthInv, UNCHANGED vars PROVE TruthInv'
  BY <1>2 DEF TruthInv, RowTruth, PlaceTruth, NewestTruth, EndsAreTrue, Claimed,
    vars, conversation, checkout, journal, saga, ghosts
<1> QED
  BY <1>1, <1>2

\* What a row tells recovery of the agent, the files and the history holds, for any requests,
\* turns, edits, process losses and faults.
THEOREM RowsTellTheTruth == Spec => []TruthInv
  BY InitTruth, StepTruth, RevertInvariant, PTL DEF Spec

\* What an ended revert reports of the agent, the history and the files is true, whether the live
\* saga or recovery ended it.
THEOREM EndsTrue == Spec => []EndsAreTrue
<1>1. TruthInv => EndsAreTrue
  BY DEF TruthInv
<1> QED
  BY <1>1, RowsTellTheTruth, PTL
=============================================================================
