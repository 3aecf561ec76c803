---------------------- MODULE ProviderEffectIntentsProofs ----------------------
(***************************************************************************)
(* Proofs about ProviderEffectIntents, for any number of requests, process *)
(* losses, faults and recovery attempts: nothing is sent to the provider   *)
(* twice, what is said not to have been sent was not, no request that was  *)
(* not marked vanishes, and none is given two endings.                     *)
(***************************************************************************)
EXTENDS ProviderEffectIntents, FiniteSetTheorems, TLAPS

-----------------------------------------------------------------------------
(* The inductive invariant                                                  *)

(* The endings a request was given.                                         *)
Told(i) == outcome[i] \cap Verdicts

(* What was not requested yet has left no trace.                            *)
FreshInv ==
  \A i \in Ids :
    IF i <= Len(request) THEN row[i] # "none"
    ELSE /\ row[i] = "none" /\ place[i] = "none" /\ i \notin dispatched \cup todo
         /\ Told(i) = {} /\ sent[i] = 0

(* Until it subscribes, a process handles nothing; from then on it is handed *)
(* what it committed itself.                                                *)
BootInv ==
  /\ bootSequence <= Len(request) /\ delivered <= Len(request)
  /\ phase \in {"down", "booting"} => todo = {} /\ \A i \in Ids : place[i] = "none"
  /\ phase \notin {"down", "booting"} => bootSequence <= delivered
  /\ live => Up

(* Of earlier processes' requests only stops are handled.                   *)
PlaceInv ==
  \A i \in Ids :
    /\ place[i] # "none" => Is(i, "session-stop") \/ i > bootSequence
    /\ place[i] \in {"preparing", "marking", "calling"} => ~Is(i, "session-stop")

(* What was sent is past the call, or of an earlier process, and its row was *)
(* marked, or settled before.                                               *)
SentInv ==
  \A i \in Ids :
    /\ sent[i] \in {0, 1}
    /\ Is(i, "session-stop") \/ place[i] \in {"queued", "preparing", "marking", "calling"}
         => sent[i] = 0
    /\ sent[i] # 0 /\ Up /\ place[i] = "none" => i <= bootSequence
    /\ sent[i] # 0 \/ place[i] = "calling" => i \in dispatched \/ row[i] = "closed"

(* A listed row of an earlier process is still as it was listed, or the     *)
(* provider had it.                                                         *)
TodoInv ==
  \A i \in todo :
    i <= bootSequence /\ ~gone /\ ~Is(i, "session-stop") => row[i] = "open" \/ i \in dispatched

(* A turn start or steer that was given its ending is handled no more.      *)
VerdictInv ==
  \A i \in Ids : ~Is(i, "session-stop") =>
    /\ \A v, w \in Told(i) : v = w
    /\ Told(i) # {} =>
         /\ row[i] = "closed" /\ place[i] \in {"none", "done"}
         /\ i \in todo => i > bootSequence
         /\ Up /\ place[i] = "none" => i <= bootSequence
    /\ outcome[i] \cap {"not-sent", "deferred"} # {} => i <= bootSequence /\ sent[i] = 0

IndInv ==
  /\ TypeOK /\ FreshInv /\ BootInv /\ PlaceInv /\ SentInv /\ TodoInv /\ VerdictInv
  /\ UndispatchedEndsVisibly

-----------------------------------------------------------------------------
(* What a step may do to one request                                        *)

Stays(i) == place'[i] = place[i] /\ sent'[i] = sent[i]

Enters(i) ==
  /\ phase \notin {"down", "booting"} /\ i <= Len(request)
  /\ Is(i, "session-stop") \/ i > bootSequence
  /\ place[i] = "none" /\ place'[i] = "queued" /\ sent'[i] = sent[i]

Advances(i) ==
  /\ place[i] \notin {"none", "done"} /\ place'[i] \notin {"none", "queued"}
  /\ place'[i] = "preparing" => place[i] = "queued" /\ ~Is(i, "session-stop")
  /\ place'[i] = "marking" =>
       place[i] = "preparing" \/ (place[i] = "queued" /\ ~Is(i, "session-stop"))
  /\ place'[i] = "calling" => place[i] = "marking" /\ (i \in dispatched' \/ row[i] # "open")
  /\ sent'[i] = sent[i]

IsCalled(i) == place[i] = "calling" /\ place'[i] = "waiting" /\ sent'[i] = sent[i] + 1

IsLost(i) == Crash /\ place'[i] = "none" /\ sent'[i] = sent[i]

PlaceStep(i) == Stays(i) \/ Enters(i) \/ Advances(i) \/ IsCalled(i) \/ IsLost(i)

RowStays(i) == row'[i] = row[i] /\ Told(i)' = Told(i) /\ outcome[i] \subseteq outcome'[i]

RowOpens(i) ==
  /\ i = Len(request) + 1 /\ \E kind \in Kinds : Request(kind)
  /\ row'[i] = "open" /\ outcome'[i] = outcome[i]

RowGoes(i) ==
  /\ i <= Len(request) /\ row'[i] = "closed"
  /\ Told(i)' = Told(i) /\ outcome[i] \subseteq outcome'[i]
  /\ gone' \/ i \in dispatched \/ (i \in dropped' /\ i \notin todo')

IsTold(i) ==
  /\ i <= Len(request) /\ row'[i] = "closed"
  /\ \E v \in Verdicts :
       /\ outcome'[i] = outcome[i] \cup {v}
       /\ \/ Is(i, "session-stop")
          \/ /\ v \notin {"not-sent", "deferred"}
             /\ place[i] \notin {"none", "done"} /\ place'[i] = "done"
          \/ /\ i \in todo \ todo' /\ i <= bootSequence /\ ~gone
             /\ place'[i] = place[i]
             /\ v \in {"not-sent", "deferred"} => i \notin dispatched

RowStep(i) == RowStays(i) \/ RowOpens(i) \/ RowGoes(i) \/ IsTold(i)

-----------------------------------------------------------------------------
(* Each request's place                                                     *)

LEMMA PlaceSteps ==
  ASSUME TypeOK, FreshInv, BootInv, Next, NEW i \in Ids
  PROVE  PlaceStep(i)
<1>t. place \in [Ids -> Places] /\ sent \in [Ids -> Nat] /\ todo \subseteq Ids
  BY DEF TypeOK
<1>f. place[i] # "none" \/ i \in todo => i <= Len(request)
  BY DEF FreshInv
<1>1. ASSUME UNCHANGED <<place, sent>> PROVE PlaceStep(i)
  BY <1>1 DEF PlaceStep, Stays
<1>2. ASSUME UNCHANGED <<lanes, provider>> PROVE PlaceStep(i)
  BY <1>1, <1>2 DEF lanes, provider
<1>3. ASSUME NEW j \in Ids, NEW p, Goto(j, p), UNCHANGED sent,
             place[j] \notin {"none", "done"}, p \notin {"none", "queued"},
             p = "preparing" => place[j] = "queued" /\ ~Is(j, "session-stop"),
             p = "marking" =>
               place[j] = "preparing" \/ (place[j] = "queued" /\ ~Is(j, "session-stop")),
             p = "calling" => place[j] = "marking" /\ (j \in dispatched' \/ row[j] # "open")
      PROVE  PlaceStep(i)
  <2>1. CASE j # i
    BY <1>3, <1>t, <2>1 DEF Goto, PlaceStep, Stays
  <2>2. CASE j = i
    <3>1. place'[i] = p /\ sent'[i] = sent[i]
      BY <1>3, <1>t, <2>2 DEF Goto
    <3> QED
      BY <1>3, <2>2, <3>1 DEF PlaceStep, Advances
  <2> QED
    BY <2>1, <2>2
<1>4. ASSUME NEW j \in Ids, NEW p, Goto(j, p), UNCHANGED sent,
             place[j] \notin {"none", "done"},
             p \notin {"none", "queued", "preparing", "marking", "calling"}
      PROVE  PlaceStep(i)
  BY <1>3, <1>4
<1>5. ASSUME NEW j \in Ids, Finish(j), UNCHANGED sent, place[j] \notin {"none", "done"}
      PROVE  PlaceStep(i)
  BY <1>4, <1>5 DEF Finish
<1>6. ASSUME NEW j \in Ids, Route(j), UNCHANGED sent,
             phase \notin {"down", "booting"}, j <= Len(request), Is(j, "session-stop") \/ j > bootSequence
      PROVE  PlaceStep(i)
  BY <1>1, <1>6, <1>t DEF Route, PlaceStep, Stays, Enters
<1>7. ASSUME NEW j \in Ids, LaneStep(j) PROVE PlaceStep(i)
  <2>1. CASE BeginStart(j)
    <3>1. place[j] = "queued" /\ ~Is(j, "session-stop") /\ UNCHANGED sent
      BY <2>1 DEF BeginStart, Is, provider
    <3>2. Finish(j) \/ Goto(j, "preparing") \/ Goto(j, "failing")
      BY <2>1 DEF BeginStart
    <3> QED
      BY <1>3, <1>4, <1>5, <3>1, <3>2
  <2>2. CASE PrepareFails(j)
    BY <1>4, <2>2 DEF PrepareFails
  <2>3. CASE Submit(j)
    BY <1>3, <2>3 DEF Submit
  <2>4. CASE BeginSteer(j)
    <3>1. place[j] = "queued" /\ ~Is(j, "session-stop") /\ UNCHANGED sent
      BY <2>4 DEF BeginSteer, Is, provider
    <3>2. Goto(j, "marking") \/ Goto(j, "surfacing")
      BY <2>4 DEF BeginSteer
    <3> QED
      BY <1>3, <1>4, <3>1, <3>2
  <2>5. CASE Mark(j)
    <3>1. j \in dispatched' \/ row[j] # "open"
      BY <2>5 DEF Mark
    <3> QED
      BY <1>3, <2>5, <3>1 DEF Mark, provider
  <2>6. CASE MarkFails(j)
    BY <1>4, <2>6 DEF MarkFails, provider
  <2>7. CASE Call(j)
    <3>1. CASE j # i
      BY <1>t, <2>7, <3>1 DEF Call, Goto, PlaceStep, Stays
    <3>2. CASE j = i
      BY <1>t, <2>7, <3>2 DEF Call, Goto, PlaceStep, IsCalled
    <3> QED
      BY <3>1, <3>2
  <2>8. CASE TellSession(j)
    <3>1. place[j] \notin {"none", "done"} /\ UNCHANGED sent
      BY <2>8 DEF TellSession, provider
    <3>2. Goto(j, "cancelled") \/ Goto(j, "failed") \/ Finish(j)
      BY <2>8 DEF TellSession
    <3> QED
      BY <1>4, <1>5, <3>1, <3>2
  <2>9. CASE AppendActivity(j)
    BY <1>5, <2>9 DEF AppendActivity, provider
  <2>10. CASE ResolveSteer(j)
    <3>1. place[j] \notin {"none", "done"} /\ UNCHANGED sent
      BY <2>10 DEF ResolveSteer, provider
    <3>2. Goto(j, "done") \/ Goto(j, "refused")
      BY <2>10 DEF ResolveSteer
    <3> QED
      BY <1>4, <3>1, <3>2
  <2>11. CASE TellGone(j)
    BY <1>5, <2>11 DEF TellGone, provider
  <2>12. CASE BeginStop(j)
    <3>1. place[j] \notin {"none", "done"} /\ UNCHANGED sent
      BY <2>12 DEF BeginStop
    <3>2. Goto(j, "stopped") \/ Goto(j, "stop-failed") \/ Goto(j, "surfacing") \/ Finish(j)
      BY <2>12 DEF BeginStop
    <3> QED
      BY <1>4, <1>5, <3>1, <3>2
  <2>13. CASE ShowStopFailure(j)
    <3>1. place[j] \notin {"none", "done"} /\ UNCHANGED sent
      BY <2>13 DEF ShowStopFailure, provider
    <3>2. Goto(j, "stopped") \/ Goto(j, "surfacing")
      BY <2>13 DEF ShowStopFailure
    <3> QED
      BY <1>4, <3>1, <3>2
  <2>14. CASE SetStopped(j)
    <3>1. place[j] \notin {"none", "done"} /\ UNCHANGED sent
      BY <2>14 DEF SetStopped, provider
    <3>2. Finish(j) \/ Goto(j, "surfacing")
      BY <2>14 DEF SetStopped
    <3> QED
      BY <1>4, <1>5, <3>1, <3>2
  <2>15. CASE Surface(j)
    BY <1>5, <2>15 DEF Surface, provider
  <2> QED
    BY <1>7, <2>1, <2>2, <2>3, <2>4, <2>5, <2>6, <2>7, <2>8, <2>9, <2>10, <2>11, <2>12, <2>13,
       <2>14, <2>15, Zenon DEF LaneStep
<1>8. ASSUME NEW j \in Ids, ProviderStep(j) PROVE PlaceStep(i)
  <2>1. CASE Accept(j)
    BY <1>4, <2>1 DEF Accept, provider
  <2>2. CASE Reject(j)
    BY <1>4, <2>2 DEF Reject, provider
  <2> QED
    BY <1>8, <2>1, <2>2 DEF ProviderStep
<1>9. CASE Deliver
  <2>1. Route(delivered + 1) /\ UNCHANGED sent /\ phase \notin {"down", "booting"}
    BY <1>9 DEF Deliver, provider
  <2>2. delivered + 1 \in Ids /\ delivered + 1 <= Len(request) /\ delivered + 1 > bootSequence
    BY <1>9, IntentsAssumption DEF Deliver, BootInv, TypeOK, Ids
  <2> QED
    BY <1>6, <2>1, <2>2
<1>10. ASSUME NEW j \in Ids, RecoverOwn(j) PROVE PlaceStep(i)
  <2>1. j \in todo /\ j > bootSequence /\ UNCHANGED sent
    BY <1>10 DEF RecoverOwn, FirstToDo, provider
  <2>2. phase \notin {"down", "booting"} /\ j <= Len(request)
    BY <2>1 DEF BootInv, FreshInv
  <2>3. Route(j) \/ place' = place
    BY <1>10 DEF RecoverOwn
  <2> QED
    BY <1>1, <1>6, <2>1, <2>2, <2>3
<1>11. ASSUME NEW j \in Ids, RecoverPrior(j) PROVE PlaceStep(i)
  <2>1. j \in todo /\ UNCHANGED sent
    BY <1>11 DEF RecoverPrior, FirstToDo, provider
  <2>2. phase \notin {"down", "booting"} /\ j <= Len(request)
    BY <2>1 DEF BootInv, FreshInv
  <2>3. (Route(j) /\ Is(j, "session-stop")) \/ place' = place
    BY <1>11 DEF RecoverPrior, lanes
  <2> QED
    BY <1>1, <1>6, <2>1, <2>2, <2>3
<1>12. CASE Crash
  BY <1>12 DEF Crash, PlaceStep, IsLost
<1>13. CASE ListOpen
  BY <1>1, <1>13 DEF ListOpen, provider
<1>14. CASE Subscribe \/ Reconcile \/ Serve \/ Boot
  BY <1>2, <1>14 DEF Subscribe, Reconcile, Serve, Boot
<1>15. ASSUME NEW kind \in Kinds, Request(kind) PROVE PlaceStep(i)
  BY <1>2, <1>15 DEF Request
<1>16. CASE ThreadDeleted \/ TurnEnds
  BY <1>2, <1>16 DEF ThreadDeleted, TurnEnds
<1>17. CASE RuntimeExits
  BY <1>1, <1>17 DEF RuntimeExits, lanes
<1>18. ASSUME NEW j \in Ids, TurnStarted(j) PROVE PlaceStep(i)
  BY <1>2, <1>18 DEF TurnStarted
<1> QED
  BY <1>7, <1>8, <1>9, <1>10, <1>11, <1>12, <1>13, <1>14, <1>15, <1>16, <1>17, <1>18, Zenon
     DEF Next, StartupStep

-----------------------------------------------------------------------------
(* Each request's row and outcome                                           *)

LEMMA RowSteps ==
  ASSUME TypeOK, FreshInv, BootInv, Next, NEW i \in Ids
  PROVE  RowStep(i)
<1>t. /\ place \in [Ids -> Places] /\ row \in [Ids -> {"none", "open", "closed"}]
      /\ outcome \in [Ids -> SUBSET (Verdicts \cup {"running"})] /\ todo \subseteq Ids
  BY DEF TypeOK
<1>f. place[i] # "none" \/ i \in todo \/ row[i] # "none" => i <= Len(request)
  BY DEF FreshInv
<1>1. ASSUME UNCHANGED <<row, outcome>> PROVE RowStep(i)
  BY <1>1 DEF RowStep, RowStays, Told
<1>l. ASSUME UNCHANGED <<ledger, history>> PROVE RowStep(i)
  BY <1>1, <1>l DEF ledger, history
<1>2. ASSUME Commit(DispatchedTurnStarts, {active}, "running") PROVE RowStep(i)
  <2>1. "running" \notin Verdicts
    BY DEF Verdicts
  <2>2. /\ row'[i] = IF i \in DispatchedTurnStarts THEN "closed" ELSE row[i]
        /\ outcome'[i] \in {outcome[i], outcome[i] \cup {"running"}}
    BY <1>2 DEF Commit
  <2>3. Told(i)' = Told(i) /\ outcome[i] \subseteq outcome'[i]
    BY <2>1, <2>2 DEF Told
  <2>4. i \in DispatchedTurnStarts => row[i] = "open" /\ i \in dispatched
    BY DEF DispatchedTurnStarts, Rows
  <2> QED
    BY <1>f, <2>2, <2>3, <2>4 DEF RowStep, RowStays, RowGoes
<1>3. ASSUME NEW v \in Verdicts, Commit(SessionStops, SessionStops, v) PROVE RowStep(i)
  <2>1. CASE i \in SessionStops
    <3>1. row[i] = "open" /\ Is(i, "session-stop")
      BY <2>1 DEF SessionStops, Rows
    <3>2. row'[i] = "closed" /\ outcome'[i] = outcome[i] \cup {v}
      BY <1>3, <2>1 DEF Commit
    <3> QED
      BY <1>f, <3>1, <3>2 DEF RowStep, IsTold
  <2>2. CASE i \notin SessionStops
    BY <1>3, <2>2 DEF Commit, RowStep, RowStays, Told
  <2> QED
    BY <2>1, <2>2
<1>4. CASE CommitStopped
  BY <1>3, <1>4 DEF CommitStopped, Verdicts
<1>5. ASSUME NEW j \in Ids, NEW v \in Verdicts \ {"not-sent", "deferred"}, CommitVerdict(j, v),
             place[j] \notin {"none", "done"}, place' = [place EXCEPT ![j] = "done"]
      PROVE  RowStep(i)
  <2>1. CASE i = j
    <3>1. row'[i] = "closed" /\ outcome'[i] = outcome[i] \cup {v} /\ place'[i] = "done"
      BY <1>5, <1>t, <2>1 DEF CommitVerdict, Commit
    <3> QED
      BY <1>5, <1>f, <2>1, <3>1 DEF RowStep, IsTold
  <2>2. CASE i # j
    BY <1>5, <2>2 DEF CommitVerdict, Commit, RowStep, RowStays, Told
  <2> QED
    BY <2>1, <2>2
<1>6. ASSUME NEW j \in Ids, SettleQuietly(j), place[j] # "none" \/ j \in todo,
             gone' \/ j \notin todo'
      PROVE  RowStep(i)
  <2>1. CASE i = j
    <3>1. row'[i] = "closed" /\ outcome' = outcome /\ i \in dropped'
      BY <1>6, <1>t, <2>1 DEF SettleQuietly
    <3> QED
      BY <1>6, <1>f, <2>1, <3>1 DEF RowStep, RowGoes, Told
  <2>2. CASE i # j
    BY <1>6, <1>t, <2>2 DEF SettleQuietly, RowStep, RowStays, Told
  <2> QED
    BY <2>1, <2>2
<1>7. ASSUME NEW j \in Ids, LaneStep(j) PROVE RowStep(i)
  <2>1. CASE BeginStart(j)
    <3>1. place[j] = "queued" /\ gone' = gone
      BY <2>1 DEF BeginStart
    <3>2. CASE gone /\ SettleQuietly(j)
      BY <1>6, <3>1, <3>2
    <3>3. CASE CommitVerdict(j, "failed") /\ Finish(j)
      BY <1>5, <3>1, <3>3 DEF Finish, Goto, Verdicts
    <3>4. CASE CommitNothing
      BY <1>1, <3>4 DEF CommitNothing
    <3> QED
      BY <2>1, <3>2, <3>3, <3>4 DEF BeginStart
  <2>2. CASE PrepareFails(j) \/ Submit(j) \/ BeginSteer(j) \/ MarkFails(j) \/ Call(j) \/ TellGone(j)
    BY <1>l, <2>2 DEF PrepareFails, Submit, BeginSteer, MarkFails, Call, TellGone
  <2>3. CASE Mark(j)
    BY <1>1, <2>3 DEF Mark, history
  <2>4. CASE TellSession(j)
    <3>1. ASSUME SettleCancelled(j) PROVE RowStep(i)
      BY <1>1, <1>2, <1>4, <3>1 DEF SettleCancelled, CommitNothing
    <3>2. ASSUME SettleFailed(j) PROVE RowStep(i)
      BY <1>1, <1>4, <3>2 DEF SettleFailed, CommitNothing
    <3>3. SettleCancelled(j) \/ SettleFailed(j) \/ CommitNothing
      BY <2>4 DEF TellSession
    <3> QED
      BY <1>1, <3>1, <3>2, <3>3 DEF CommitNothing
  <2>5. CASE AppendActivity(j)
    <3>1. place[j] \in {"cancelled", "failed"} /\ place' = [place EXCEPT ![j] = "done"]
      BY <2>5 DEF AppendActivity, Finish, Goto
    <3>2. CommitVerdict(j, place[j]) \/ CommitNothing
      BY <2>5 DEF AppendActivity
    <3> QED
      BY <1>1, <1>5, <3>1, <3>2 DEF CommitNothing, Verdicts
  <2>6. CASE ResolveSteer(j)
    <3>1. place[j] \in {"steered", "refused"}
      BY <2>6 DEF ResolveSteer
    <3>2. CASE /\ CommitVerdict(j, IF place[j] = "steered" THEN "accepted" ELSE "refused")
               /\ Goto(j, "done")
      <4>1. PICK v \in {"accepted", "refused"} : CommitVerdict(j, v)
        BY <3>2
      <4> QED
        BY <1>5, <3>1, <3>2, <4>1 DEF Goto, Verdicts
    <3>3. CASE CommitNothing
      BY <1>1, <3>3 DEF CommitNothing
    <3> QED
      BY <2>6, <3>2, <3>3 DEF ResolveSteer
  <2>7. CASE BeginStop(j)
    <3>1. place[j] = "queued" /\ gone' = gone
      BY <2>7 DEF BeginStop
    <3>2. (gone /\ SettleQuietly(j)) \/ CommitNothing
      BY <2>7 DEF BeginStop
    <3> QED
      BY <1>1, <1>6, <3>1, <3>2 DEF CommitNothing
  <2>8. CASE ShowStopFailure(j)
    <3>1. Commit(SessionStops, SessionStops, "stop-failed") \/ CommitNothing
      BY <2>8 DEF ShowStopFailure
    <3> QED
      BY <1>1, <1>3, <3>1 DEF CommitNothing, Verdicts
  <2>9. CASE SetStopped(j)
    <3>1. CommitStopped \/ CommitNothing
      BY <2>9 DEF SetStopped
    <3> QED
      BY <1>1, <1>4, <3>1 DEF CommitNothing
  <2>10. CASE Surface(j)
    <3>1. place[j] = "surfacing" /\ place' = [place EXCEPT ![j] = "done"]
      BY <2>10 DEF Surface, Finish, Goto
    <3>2. Commit(SessionStops, SessionStops, "stop-failed") \/ CommitVerdict(j, "refused")
            \/ CommitNothing
      BY <2>10 DEF Surface
    <3> QED
      BY <1>1, <1>3, <1>5, <3>1, <3>2 DEF CommitNothing, Verdicts
  <2> QED
    BY <1>7, <2>1, <2>2, <2>3, <2>4, <2>5, <2>6, <2>7, <2>8, <2>9, <2>10, Zenon DEF LaneStep
<1>8. ASSUME NEW j \in Ids, ProviderStep(j) PROVE RowStep(i)
  BY <1>8, <1>l DEF ProviderStep, Accept, Reject
<1>9. ASSUME NEW j \in Ids, RecoverPrior(j) PROVE RowStep(i)
  <2>1. j \in todo /\ j \notin todo' /\ j <= bootSequence /\ gone' = gone
    BY <1>9 DEF RecoverPrior, FirstToDo
  <2>2. CASE SettleQuietly(j)
    BY <1>6, <2>1, <2>2
  <2>3. CASE CommitNothing
    BY <1>1, <2>3 DEF CommitNothing
  <2>4. ASSUME NEW v \in Verdicts, CommitVerdict(j, v), ~gone, place' = place,
               v \in {"not-sent", "deferred"} => j \notin dispatched
        PROVE  RowStep(i)
    <3>1. CASE i = j
      <4>1. row'[i] = "closed" /\ outcome'[i] = outcome[i] \cup {v} /\ place'[i] = place[i]
        BY <2>4, <3>1 DEF CommitVerdict, Commit
      <4> QED
        BY <1>f, <2>1, <2>4, <3>1, <4>1 DEF RowStep, IsTold
    <3>2. CASE i # j
      BY <2>4, <3>2 DEF CommitVerdict, Commit, RowStep, RowStays, Told
    <3> QED
      BY <3>1, <3>2
  <2>5. CASE ~gone /\ CommitVerdict(j, RecoveredVerdict(j)) /\ UNCHANGED lanes
    <3>1. PICK v \in Verdicts : v = RecoveredVerdict(j)
      BY DEF RecoveredVerdict, Verdicts
    <3>2. v \in {"not-sent", "deferred"} => j \notin dispatched
      BY <3>1 DEF RecoveredVerdict
    <3> QED
      BY <2>4, <2>5, <3>1, <3>2 DEF lanes
  <2>6. CASE ~gone /\ CommitVerdict(j, "uncertain") /\ UNCHANGED lanes
    BY <2>4, <2>6 DEF lanes, Verdicts
  <2> QED
    BY <1>9, <2>2, <2>3, <2>5, <2>6 DEF RecoverPrior
<1>10. ASSUME NEW j \in Ids, RecoverOwn(j) PROVE RowStep(i)
  BY <1>10, <1>l DEF RecoverOwn
<1>11. CASE Deliver \/ Crash \/ ListOpen \/ Subscribe \/ Reconcile \/ Serve \/ Boot \/ TurnEnds
  BY <1>11, <1>l DEF Deliver, Crash, ListOpen, Subscribe, Reconcile, Serve, Boot, TurnEnds
<1>12. ASSUME NEW kind \in Kinds, Request(kind) PROVE RowStep(i)
  <2>1. Len(request) + 1 \in Ids
    BY <1>12, IntentsAssumption DEF Request, TypeOK, Ids
  <2>2. outcome' = outcome
    BY <1>12 DEF Request, history
  <2>3. CASE i = Len(request) + 1
    BY <1>12, <1>t, <2>2, <2>3 DEF Request, RowStep, RowOpens
  <2>4. CASE i # Len(request) + 1
    BY <1>12, <1>t, <2>2, <2>4 DEF Request, RowStep, RowStays, Told
  <2> QED
    BY <2>3, <2>4
<1>13. CASE ThreadDeleted
  <2>1. gone' /\ row'[i] = (IF row[i] = "open" THEN "closed" ELSE row[i]) /\ outcome'[i] = outcome[i]
    BY <1>13 DEF ThreadDeleted, Commit
  <2> QED
    BY <1>f, <2>1 DEF RowStep, RowStays, RowGoes, Told
<1>14. CASE RuntimeExits
  BY <1>1, <1>4, <1>14 DEF RuntimeExits, CommitNothing
<1>15. ASSUME NEW j \in Ids, TurnStarted(j) PROVE RowStep(i)
  <2>1. Commit(DispatchedTurnStarts, {j}, "running")
    BY <1>15 DEF TurnStarted
  <2>2. "running" \notin Verdicts
    BY DEF Verdicts
  <2>3. /\ row'[i] = IF i \in DispatchedTurnStarts THEN "closed" ELSE row[i]
        /\ outcome'[i] \in {outcome[i], outcome[i] \cup {"running"}}
    BY <2>1 DEF Commit
  <2>4. Told(i)' = Told(i) /\ outcome[i] \subseteq outcome'[i]
    BY <2>2, <2>3 DEF Told
  <2>5. i \in DispatchedTurnStarts => row[i] = "open" /\ i \in dispatched
    BY DEF DispatchedTurnStarts, Rows
  <2> QED
    BY <1>f, <2>3, <2>4, <2>5 DEF RowStep, RowStays, RowGoes
<1> QED
  BY <1>7, <1>8, <1>9, <1>10, <1>11, <1>12, <1>13, <1>14, <1>15, Zenon DEF Next, StartupStep

-----------------------------------------------------------------------------
(* What a step may do to the rest                                           *)

RequestStep ==
  \/ request' = request
  \/ \E kind \in Kinds : Request(kind)

MarkStep ==
  dispatched \subseteq dispatched' /\ \A i \in dispatched' \ dispatched : place[i] = "marking"

HistoryStep == dropped \subseteq dropped' /\ (gone => gone')

PhaseStep ==
  \/ Boot \/ Subscribe \/ ListOpen \/ Crash
  \/ /\ Up /\ UNCHANGED bootSequence /\ todo' \subseteq todo
     /\ delivered <= delivered' /\ delivered' <= Len(request)
     /\ phase' = phase \/ (phase \notin {"down", "booting"} /\ phase' \notin {"down", "booting"})

LEMMA OtherSteps ==
  ASSUME TypeOK, FreshInv, BootInv, Next
  PROVE  RequestStep /\ MarkStep /\ HistoryStep /\ PhaseStep
<1>d. delivered <= Len(request) /\ delivered \in Nat
  BY IntentsAssumption DEF BootInv, TypeOK
<1>p. ASSUME NEW i \in Ids, place[i] # "none" \/ i \in todo PROVE Up
  BY <1>p DEF BootInv, Up
<1>r. ASSUME UNCHANGED reactor, Up PROVE PhaseStep
  BY <1>d, <1>r DEF reactor, PhaseStep
<1>h. ASSUME UNCHANGED history PROVE HistoryStep
  BY <1>h DEF history, HistoryStep
<1>m. ASSUME UNCHANGED dispatched PROVE MarkStep
  BY <1>m DEF MarkStep
<1>l. ASSUME UNCHANGED ledger PROVE RequestStep /\ MarkStep
  BY <1>l, <1>m DEF ledger, RequestStep
<1>q. ASSUME UNCHANGED <<request, dispatched>> PROVE RequestStep /\ MarkStep
  BY <1>q, <1>m DEF RequestStep
<1>g. ASSUME UNCHANGED <<dropped, gone>> PROVE HistoryStep
  BY <1>g DEF HistoryStep
<1> DEFINE Goal == RequestStep /\ MarkStep /\ HistoryStep /\ PhaseStep
<1>1. ASSUME NEW j \in Ids, LaneStep(j) PROVE Goal
  <2>1. place[j] # "none"
    BY <1>1 DEF LaneStep, BeginStart, PrepareFails, Submit, BeginSteer, Mark, MarkFails, Call,
       TellSession, AppendActivity, ResolveSteer, TellGone, BeginStop, ShowStopFailure,
       SetStopped, Surface
  <2>2. UNCHANGED reactor
    BY <1>1 DEF LaneStep, BeginStart, PrepareFails, Submit, BeginSteer, Mark, MarkFails, Call,
       TellSession, AppendActivity, ResolveSteer, TellGone, BeginStop, ShowStopFailure,
       SetStopped, Surface
  <2>3. PhaseStep
    BY <1>p, <1>r, <2>1, <2>2
  <2>4. CASE BeginStart(j) \/ BeginStop(j)
    <3>1. dropped \subseteq dropped' /\ gone' = gone
      BY <2>4 DEF BeginStart, BeginStop, SettleQuietly
    <3> QED
      BY <1>q, <2>3, <2>4, <3>1 DEF BeginStart, BeginStop, HistoryStep
  <2>5. CASE PrepareFails(j) \/ Submit(j) \/ BeginSteer(j) \/ MarkFails(j) \/ Call(j) \/ TellGone(j)
    BY <1>l, <1>h, <2>3, <2>5 DEF PrepareFails, Submit, BeginSteer, MarkFails, Call, TellGone
  <2>6. CASE Mark(j)
    <3>1. MarkStep
      BY <2>6 DEF Mark, MarkStep
    <3> QED
      BY <1>h, <2>3, <2>6, <3>1 DEF Mark, RequestStep
  <2>7. CASE TellSession(j) \/ AppendActivity(j) \/ ResolveSteer(j)
    BY <1>q, <1>g, <2>3, <2>7 DEF TellSession, AppendActivity, ResolveSteer
  <2>8. CASE ShowStopFailure(j) \/ SetStopped(j) \/ Surface(j)
    BY <1>q, <1>g, <2>3, <2>8 DEF ShowStopFailure, SetStopped, Surface
  <2> QED
    BY <1>1, <2>4, <2>5, <2>6, <2>7, <2>8 DEF LaneStep
<1>2. ASSUME NEW j \in Ids, ProviderStep(j) PROVE Goal
  <2>1. place[j] # "none" /\ UNCHANGED <<ledger, history, reactor>>
    BY <1>2 DEF ProviderStep, Accept, Reject
  <2> QED
    BY <1>p, <1>r, <1>l, <1>h, <2>1
<1>3. CASE Deliver
  <2>1. PhaseStep
    BY <1>3, <1>d, IntentsAssumption DEF Deliver, PhaseStep, Up, TypeOK
  <2> QED
    BY <1>3, <1>l, <1>h, <2>1 DEF Deliver
<1>4. ASSUME NEW j \in Ids, RecoverOwn(j) PROVE Goal
  <2>1. j \in todo /\ UNCHANGED <<ledger, history, phase, bootSequence, delivered>>
          /\ todo' \subseteq todo
    BY <1>4 DEF RecoverOwn, FirstToDo
  <2> QED
    BY <1>d, <1>p, <1>l, <1>h, <2>1 DEF PhaseStep
<1>5. ASSUME NEW j \in Ids, RecoverPrior(j) PROVE Goal
  <2>1. j \in todo /\ UNCHANGED <<request, dispatched, gone, phase, bootSequence, delivered>>
          /\ todo' \subseteq todo
    BY <1>5 DEF RecoverPrior, FirstToDo
  <2>2. dropped \subseteq dropped'
    BY <1>5 DEF RecoverPrior, SettleQuietly
  <2> QED
    BY <1>d, <1>p, <1>q, <2>1, <2>2 DEF PhaseStep, HistoryStep
<1>6. CASE Boot \/ Subscribe \/ ListOpen \/ Crash
  BY <1>6, <1>l, <1>h DEF Boot, Subscribe, ListOpen, Crash, PhaseStep
<1>7. CASE Reconcile \/ Serve
  <2>1. PhaseStep
    BY <1>7, <1>d DEF Reconcile, Serve, PhaseStep, Up
  <2> QED
    BY <1>7, <1>l, <1>h, <2>1 DEF Reconcile, Serve
<1>8. ASSUME NEW kind \in Kinds, Request(kind) PROVE Goal
  BY <1>8, <1>m, <1>h, <1>r DEF Request, RequestStep
<1>9. CASE ThreadDeleted
  BY <1>9, <1>q, <1>r DEF ThreadDeleted, HistoryStep
<1>10. CASE TurnEnds
  BY <1>10, <1>l, <1>h, <1>r DEF TurnEnds, Heard, BootInv
<1>11. CASE RuntimeExits
  BY <1>11, <1>q, <1>g, <1>r DEF RuntimeExits, BootInv
<1>12. ASSUME NEW j \in Ids, TurnStarted(j) PROVE Goal
  BY <1>12, <1>q, <1>g, <1>r DEF TurnStarted, Heard, BootInv
<1> QED
  BY <1>1, <1>2, <1>3, <1>4, <1>5, <1>6, <1>7, <1>8, <1>9, <1>10, <1>11, <1>12, Zenon
     DEF Next, StartupStep

-----------------------------------------------------------------------------
(* Types                                                                    *)

RequestT ==
  /\ request \in Seq(Kinds) /\ Len(request) <= MaxRequests
  /\ dispatched \subseteq Ids /\ attempts \in [Ids -> Nat] /\ gone \in BOOLEAN
RowsT ==
  /\ row \in [Ids -> {"none", "open", "closed"}]
  /\ outcome \in [Ids -> SUBSET (Verdicts \cup {"running"})]
  /\ dropped \subseteq Ids
ProjectionT ==
  session \in {"none", "ready", "stopped"} /\ active \in Ids \cup {0} /\ known \in BOOLEAN
ReactorT ==
  /\ phase \in Phases /\ bootSequence \in 0 .. MaxRequests /\ delivered \in 0 .. MaxRequests
  /\ todo \subseteq Ids
LaneT == lane \in Seq(Ids) /\ place \in [Ids -> Places]
NotedT == stopNoted \in 0 .. MaxRequests /\ kept \subseteq Ids
ProviderT == live \in BOOLEAN /\ owned \subseteq Ids /\ sent \in [Ids -> Nat]
BoundsT == crashes \in Nat /\ faults \in Nat

LEMMA TypesKept ==
  ASSUME TypeOK, BootInv, Next
  PROVE  TypeOK'
<1>t. RequestT /\ RowsT /\ ProjectionT /\ ReactorT /\ LaneT /\ NotedT /\ ProviderT /\ BoundsT
  BY DEF TypeOK, RequestT, RowsT, ProjectionT, ReactorT, LaneT, NotedT, ProviderT, BoundsT
<1> SUFFICES RequestT' /\ RowsT' /\ ProjectionT' /\ ReactorT' /\ LaneT' /\ NotedT' /\ ProviderT'
               /\ BoundsT'
  BY DEF TypeOK, RequestT, RowsT, ProjectionT, ReactorT, LaneT, NotedT, ProviderT, BoundsT
<1> USE IntentsAssumption
<1> DEFINE Goal == RequestT' /\ RowsT' /\ ProjectionT' /\ ReactorT' /\ LaneT' /\ NotedT'
                     /\ ProviderT' /\ BoundsT'
<1>a. UNCHANGED <<request, dispatched, attempts, gone>> => RequestT'
  BY <1>t DEF RequestT
<1>b. UNCHANGED <<row, outcome, dropped>> => RowsT'
  BY <1>t DEF RowsT
<1>c. UNCHANGED projection => ProjectionT'
  BY <1>t DEF projection, ProjectionT
<1>d. UNCHANGED reactor => ReactorT'
  BY <1>t DEF reactor, ReactorT
<1>e. UNCHANGED <<lane, place>> => LaneT'
  BY <1>t DEF LaneT
<1>f. UNCHANGED <<stopNoted, kept>> => NotedT'
  BY <1>t DEF NotedT
<1>g. UNCHANGED provider => ProviderT'
  BY <1>t DEF provider, ProviderT
<1>h. UNCHANGED crashes /\ (Fault \/ NoFault \/ faults' = faults) => BoundsT'
  BY <1>t DEF BoundsT, Fault, NoFault
<1>i. ASSUME NEW j \in Ids, NEW p \in Places, Goto(j, p), Stay \/ Leave(j) \/ lane' = lane
      PROVE  LaneT'
  <2>1. place' \in [Ids -> Places]
    BY <1>i, <1>t DEF Goto, LaneT
  <2>2. lane' \in Seq(Ids)
    BY <1>i, <1>t DEF Stay, Leave, AtHead, LaneT
  <2> QED
    BY <2>1, <2>2 DEF LaneT
<1>j. ASSUME NEW j \in Ids, Finish(j) PROVE LaneT'
  BY <1>i, <1>j DEF Finish, Places
<1>k. ASSUME NEW j \in Ids, Route(j) PROVE LaneT' /\ (kept' = kept => NotedT')
  <2>1. place' \in [Ids -> Places]
    BY <1>k, <1>t DEF Route, LaneT, Places
  <2>2. lane' \in Seq(Ids)
    BY <1>k, <1>t DEF Route, LaneT
  <2>3. stopNoted' \in 0 .. MaxRequests
    BY <1>k, <1>t DEF Route, NotedT, Ids
  <2> QED
    BY <1>t, <2>1, <2>2, <2>3 DEF LaneT, NotedT
<1>l. ASSUME NEW settled, NEW spoken, NEW v \in Verdicts \cup {"running"},
             Commit(settled, spoken, v), dropped' = dropped
      PROVE  RowsT'
  BY <1>l, <1>t DEF Commit, RowsT
<1>m. CommitNothing /\ dropped' = dropped => RowsT'
  BY <1>b DEF CommitNothing
<1>n. CommitStopped /\ dropped' = dropped => RowsT'
  BY <1>l DEF CommitStopped, Verdicts
<1>o. ASSUME NEW j \in Ids, NEW v \in Verdicts, CommitVerdict(j, v), dropped' = dropped PROVE RowsT'
  BY <1>l, <1>o DEF CommitVerdict
<1>p. ASSUME NEW j \in Ids, SettleQuietly(j) PROVE RowsT'
  BY <1>p, <1>t DEF SettleQuietly, RowsT
<1>q. ASSUME NEW j \in Ids, stopNoted' = stopNoted, Keep(j) \/ kept' = kept PROVE NotedT'
  BY <1>q, <1>t DEF Keep, NotedT
<1>r. ASSUME EnsureSession PROVE ProjectionT' /\ (sent' = sent => ProviderT')
  BY <1>r, <1>t DEF EnsureSession, ProjectionT, ProviderT
<1>s. NothingProjected => ProjectionT'
  BY <1>t DEF NothingProjected, ProjectionT
<1>u. ASSUME UNCHANGED ledger, UNCHANGED history PROVE RequestT' /\ RowsT'
  BY <1>a, <1>b, <1>u DEF ledger, history
<1>v. UNCHANGED lanes => LaneT' /\ NotedT'
  BY <1>e, <1>f DEF lanes
<1>w. UNCHANGED bounds => BoundsT'
  BY <1>t DEF bounds, BoundsT
<1>x. {"preparing", "marking", "calling", "waiting", "accepted", "failing", "rejected",
       "cancelled", "failed", "steered", "refused", "stopped", "stop-failed", "surfacing",
       "done"} \subseteq Places
  BY DEF Places
<1>y. {"failed", "cancelled", "not-sent", "uncertain", "accepted", "refused", "deferred",
       "stop-failed"} \subseteq Verdicts
  BY DEF Verdicts
<1>1. ASSUME NEW j \in Ids, BeginStart(j) PROVE Goal
  <2>1. RequestT' /\ ProjectionT' /\ ReactorT' /\ NotedT' /\ ProviderT'
    BY <1>1, <1>a, <1>c, <1>d, <1>f, <1>g DEF BeginStart
  <2>2. BoundsT'
    BY <1>1, <1>h DEF BeginStart
  <2>3. LaneT'
    BY <1>1, <1>i, <1>j, <1>x DEF BeginStart
  <2>4. RowsT'
    BY <1>1, <1>m, <1>o, <1>p, <1>y DEF BeginStart
  <2> QED
    BY <2>1, <2>2, <2>3, <2>4
<1>2. ASSUME NEW j \in Ids, PrepareFails(j) PROVE Goal
  <2>1. RequestT' /\ RowsT' /\ ReactorT' /\ NotedT' /\ BoundsT'
    BY <1>2, <1>u, <1>d, <1>f, <1>w DEF PrepareFails
  <2>2. LaneT'
    BY <1>2, <1>i, <1>x DEF PrepareFails
  <2>3. ProjectionT' /\ ProviderT'
    BY <1>2, <1>c, <1>g, <1>r DEF PrepareFails, provider
  <2> QED
    BY <2>1, <2>2, <2>3
<1>3. ASSUME NEW j \in Ids, Submit(j) PROVE Goal
  <2>1. RequestT' /\ RowsT' /\ ReactorT' /\ NotedT' /\ BoundsT'
    BY <1>3, <1>u, <1>d, <1>f, <1>w DEF Submit
  <2>2. LaneT'
    BY <1>3, <1>i, <1>x DEF Submit
  <2>3. ProjectionT' /\ ProviderT'
    BY <1>3, <1>r DEF Submit
  <2> QED
    BY <2>1, <2>2, <2>3
<1>4. ASSUME NEW j \in Ids, BeginSteer(j) PROVE Goal
  <2>1. RequestT' /\ RowsT' /\ ProjectionT' /\ ReactorT' /\ NotedT' /\ ProviderT'
    BY <1>4, <1>u, <1>c, <1>d, <1>f, <1>g DEF BeginSteer
  <2>2. LaneT'
    BY <1>4, <1>i, <1>x DEF BeginSteer
  <2>3. BoundsT'
    BY <1>4, <1>h DEF BeginSteer
  <2> QED
    BY <2>1, <2>2, <2>3
<1>5. ASSUME NEW j \in Ids, Mark(j) PROVE Goal
  <2>1. RequestT'
    BY <1>5, <1>t DEF Mark, RequestT, history
  <2>2. RowsT' /\ ProjectionT' /\ ReactorT' /\ NotedT' /\ ProviderT' /\ BoundsT'
    BY <1>5, <1>b, <1>c, <1>d, <1>f, <1>g, <1>w DEF Mark, history
  <2>3. LaneT'
    BY <1>5, <1>i, <1>x DEF Mark
  <2> QED
    BY <2>1, <2>2, <2>3
<1>6. ASSUME NEW j \in Ids, MarkFails(j) PROVE Goal
  <2>1. RequestT' /\ RowsT' /\ ProjectionT' /\ ReactorT' /\ NotedT' /\ ProviderT'
    BY <1>6, <1>u, <1>c, <1>d, <1>f, <1>g DEF MarkFails
  <2>2. Goto(j, "failing") \/ Goto(j, "refused")
    BY <1>6 DEF MarkFails
  <2>3. LaneT'
    BY <1>6, <1>i, <1>x, <2>2 DEF MarkFails
  <2>4. BoundsT'
    BY <1>6, <1>h DEF MarkFails
  <2> QED
    BY <2>1, <2>3, <2>4
<1>7. ASSUME NEW j \in Ids, Call(j) PROVE Goal
  <2>1. RequestT' /\ RowsT' /\ ProjectionT' /\ ReactorT' /\ NotedT' /\ BoundsT'
    BY <1>7, <1>u, <1>c, <1>d, <1>f, <1>w DEF Call
  <2>2. LaneT'
    BY <1>7, <1>i, <1>x DEF Call
  <2>3. live' \in BOOLEAN /\ owned' \subseteq Ids
    BY <1>7, <1>t DEF Call, ProviderT
  <2>4. sent' \in [Ids -> Nat]
    BY <1>7, <1>t DEF Call, ProviderT
  <2> QED
    BY <2>1, <2>2, <2>3, <2>4 DEF ProviderT
<1>8. ASSUME NEW j \in Ids, TellSession(j) PROVE Goal
  <2>1. RequestT' /\ ReactorT' /\ ProviderT' /\ dropped' = dropped
    BY <1>8, <1>a, <1>d, <1>g DEF TellSession
  <2>2. SettleCancelled(j) => ProjectionT' /\ RowsT'
    BY <1>t, <1>l, <1>m, <1>n, <1>s, <2>1 DEF SettleCancelled, ProjectionT
  <2>3. SettleFailed(j) => ProjectionT' /\ RowsT'
    BY <1>t, <1>m, <1>n, <1>s, <2>1 DEF SettleFailed, ProjectionT
  <2>4. ProjectionT' /\ RowsT'
    BY <1>8, <1>m, <1>s, <2>1, <2>2, <2>3 DEF TellSession
  <2>5. BoundsT' /\ NotedT'
    BY <1>8, <1>h, <1>q DEF TellSession
  <2>6. LaneT'
    BY <1>8, <1>i, <1>j, <1>x DEF TellSession
  <2> QED
    BY <2>1, <2>4, <2>5, <2>6
<1>9. ASSUME NEW j \in Ids, AppendActivity(j) PROVE Goal
  <2>1. RequestT' /\ ProjectionT' /\ ReactorT' /\ ProviderT'
    BY <1>9, <1>a, <1>c, <1>d, <1>g DEF AppendActivity
  <2>2. LaneT' /\ BoundsT' /\ NotedT'
    BY <1>9, <1>h, <1>j, <1>q DEF AppendActivity
  <2>3. RowsT'
    BY <1>9, <1>m, <1>o, <1>y DEF AppendActivity
  <2> QED
    BY <2>1, <2>2, <2>3
<1>10. ASSUME NEW j \in Ids, ResolveSteer(j) PROVE Goal
  <2>1. RequestT' /\ ProjectionT' /\ ReactorT' /\ ProviderT' /\ dropped' = dropped
    BY <1>10, <1>a, <1>c, <1>d, <1>g DEF ResolveSteer
  <2>2. CommitVerdict(j, "accepted") \/ CommitVerdict(j, "refused") \/ CommitNothing
    BY <1>10 DEF ResolveSteer
  <2>3. RowsT'
    BY <1>m, <1>o, <1>y, <2>1, <2>2
  <2>4. Goto(j, "done") \/ Goto(j, "refused")
    BY <1>10 DEF ResolveSteer
  <2>5. LaneT'
    BY <1>10, <1>i, <1>x, <2>4 DEF ResolveSteer
  <2>6. BoundsT' /\ NotedT'
    BY <1>10, <1>h, <1>q DEF ResolveSteer, Keep
  <2> QED
    BY <2>1, <2>3, <2>5, <2>6
<1>11. ASSUME NEW j \in Ids, TellGone(j) PROVE Goal
  BY <1>11, <1>u, <1>c, <1>d, <1>f, <1>g, <1>j, <1>w DEF TellGone
<1>12. ASSUME NEW j \in Ids, BeginStop(j) PROVE Goal
  <2>1. RequestT' /\ ProjectionT' /\ ReactorT' /\ NotedT'
    BY <1>12, <1>a, <1>c, <1>d, <1>f DEF BeginStop
  <2>2. BoundsT'
    BY <1>12, <1>h DEF BeginStop
  <2>3. LaneT'
    BY <1>12, <1>i, <1>j, <1>x DEF BeginStop
  <2>4. RowsT'
    BY <1>12, <1>m, <1>p DEF BeginStop
  <2>5. ProviderT'
    BY <1>12, <1>t DEF BeginStop, ProviderT
  <2> QED
    BY <2>1, <2>2, <2>3, <2>4, <2>5
<1>13. ASSUME NEW j \in Ids, ShowStopFailure(j) PROVE Goal
  <2>1. RequestT' /\ ProjectionT' /\ ReactorT' /\ NotedT' /\ ProviderT'
    BY <1>13, <1>a, <1>c, <1>d, <1>f, <1>g DEF ShowStopFailure
  <2>2. BoundsT'
    BY <1>13, <1>h DEF ShowStopFailure
  <2>3. LaneT'
    BY <1>13, <1>i, <1>x DEF ShowStopFailure
  <2>4. RowsT'
    BY <1>13, <1>l, <1>m, <1>y DEF ShowStopFailure
  <2> QED
    BY <2>1, <2>2, <2>3, <2>4
<1>14. ASSUME NEW j \in Ids, SetStopped(j) PROVE Goal
  <2>1. RequestT' /\ ReactorT' /\ NotedT' /\ ProviderT'
    BY <1>14, <1>a, <1>d, <1>f, <1>g DEF SetStopped
  <2>2. BoundsT' /\ ProjectionT'
    BY <1>14, <1>h, <1>s DEF SetStopped, ProjectionT
  <2>3. LaneT'
    BY <1>14, <1>i, <1>j, <1>x DEF SetStopped
  <2>4. RowsT'
    BY <1>14, <1>m, <1>n DEF SetStopped
  <2> QED
    BY <2>1, <2>2, <2>3, <2>4
<1>15. ASSUME NEW j \in Ids, Surface(j) PROVE Goal
  <2>1. RequestT' /\ ProjectionT' /\ ReactorT' /\ ProviderT'
    BY <1>15, <1>a, <1>c, <1>d, <1>g DEF Surface
  <2>2. BoundsT' /\ NotedT' /\ LaneT'
    BY <1>15, <1>h, <1>j, <1>q DEF Surface
  <2>3. RowsT'
    BY <1>15, <1>l, <1>m, <1>o, <1>y DEF Surface
  <2> QED
    BY <2>1, <2>2, <2>3
<1>16. ASSUME NEW j \in Ids, ProviderStep(j) PROVE Goal
  <2>1. \E p \in Places : Goto(j, p)
    BY <1>16, <1>x DEF ProviderStep, Accept, Reject
  <2>2. /\ UNCHANGED <<ledger, history, projection, reactor, provider, bounds>>
        /\ UNCHANGED <<lane, stopNoted, kept>>
    BY <1>16 DEF ProviderStep, Accept, Reject
  <2> QED
    BY <1>u, <1>c, <1>d, <1>f, <1>g, <1>i, <1>w, <2>1, <2>2
<1>17. CASE Deliver
  <2>1. delivered + 1 \in Ids /\ delivered' \in 0 .. MaxRequests
    BY <1>17, <1>t DEF Deliver, ReactorT, RequestT, Ids
  <2>2. LaneT' /\ NotedT'
    BY <1>17, <1>k, <2>1 DEF Deliver
  <2>3. ReactorT'
    BY <1>17, <1>t, <2>1 DEF Deliver, ReactorT
  <2> QED
    BY <1>17, <1>u, <1>c, <1>g, <1>w, <2>2, <2>3 DEF Deliver
<1>18. ASSUME NEW j \in Ids, RecoverOwn(j) PROVE Goal
  <2>1. ReactorT'
    BY <1>18, <1>t DEF RecoverOwn, ReactorT
  <2>2. LaneT' /\ NotedT'
    BY <1>18, <1>e, <1>k, <1>q DEF RecoverOwn, Keep
  <2>3. BoundsT'
    BY <1>18, <1>h DEF RecoverOwn
  <2> QED
    BY <1>18, <1>u, <1>c, <1>g, <2>1, <2>2, <2>3 DEF RecoverOwn
<1>19. ASSUME NEW j \in Ids, RecoverPrior(j) PROVE Goal
  <2>1. attempts' \in [Ids -> Nat]
    BY <1>19, <1>t DEF RecoverPrior, NoteAttempt, RequestT
  <2>2. RequestT'
    BY <1>19, <1>t, <2>1 DEF RecoverPrior, RequestT
  <2>3. ReactorT'
    BY <1>19, <1>t DEF RecoverPrior, ReactorT
  <2>4. RecoveredVerdict(j) \in Verdicts
    BY DEF RecoveredVerdict, Verdicts
  <2>5. RowsT'
    BY <1>19, <1>m, <1>o, <1>p, <1>y, <2>4 DEF RecoverPrior
  <2>6. LaneT' /\ NotedT'
    BY <1>19, <1>e, <1>k, <1>q, <1>v DEF RecoverPrior
  <2>7. BoundsT'
    BY <1>19, <1>h DEF RecoverPrior
  <2> QED
    BY <1>19, <1>c, <1>g, <2>2, <2>3, <2>5, <2>6, <2>7 DEF RecoverPrior
<1>20. CASE Boot
  <2>1. ReactorT'
    BY <1>20, <1>t DEF Boot, ReactorT, RequestT, Phases
  <2> QED
    BY <1>20, <1>u, <1>c, <1>g, <1>v, <1>w, <2>1 DEF Boot
<1>21. CASE Subscribe
  <2>1. ReactorT'
    BY <1>21, <1>t DEF Subscribe, ReactorT, RequestT, Phases
  <2> QED
    BY <1>21, <1>u, <1>c, <1>g, <1>v, <1>w, <2>1 DEF Subscribe
<1>22. CASE Reconcile
  <2>1. ReactorT' /\ ProjectionT'
    BY <1>22, <1>t DEF Reconcile, ReactorT, ProjectionT, Phases
  <2>2. BoundsT'
    BY <1>22, <1>h DEF Reconcile
  <2> QED
    BY <1>22, <1>u, <1>g, <1>v, <2>1, <2>2 DEF Reconcile
<1>23. CASE ListOpen
  <2>1. ReactorT'
    BY <1>23, <1>t DEF ListOpen, ReactorT, Phases
  <2>2. NotedT' /\ BoundsT'
    BY <1>23, <1>h, <1>t DEF ListOpen, NotedT
  <2> QED
    BY <1>23, <1>u, <1>c, <1>e, <1>g, <2>1, <2>2 DEF ListOpen
<1>24. CASE Serve
  <2>1. ReactorT'
    BY <1>24, <1>t DEF Serve, ReactorT, Phases
  <2> QED
    BY <1>24, <1>u, <1>c, <1>g, <1>v, <1>w, <2>1 DEF Serve
<1>25. CASE Crash
  <2>1. ReactorT'
    BY <1>25, <1>t DEF Crash, ReactorT, Phases
  <2>2. LaneT'
    BY <1>25 DEF Crash, LaneT, Places
  <2>3. NotedT'
    BY <1>25 DEF Crash, NotedT
  <2>4. live' = FALSE /\ owned' = {} /\ sent' = sent
    BY <1>25 DEF Crash
  <2>5. ProviderT'
    BY <1>t, <2>4 DEF ProviderT
  <2>6. crashes' = crashes + 1 /\ faults' = faults
    BY <1>25 DEF Crash
  <2>7. BoundsT'
    BY <1>t, <2>6 DEF BoundsT
  <2> QED
    BY <1>25, <1>u, <1>c, <2>1, <2>2, <2>3, <2>5, <2>7 DEF Crash
<1>26. ASSUME NEW kind \in Kinds, Request(kind) PROVE Goal
  <2>1. RequestT'
    BY <1>26, <1>t DEF Request, RequestT, history
  <2>2. RowsT'
    BY <1>26, <1>t DEF Request, RowsT, history
  <2> QED
    BY <1>26, <1>c, <1>d, <1>g, <1>v, <1>w, <2>1, <2>2 DEF Request
<1>27. CASE ThreadDeleted
  <2>1. RequestT'
    BY <1>27, <1>t DEF ThreadDeleted, RequestT
  <2>2. RowsT'
    BY <1>27, <1>l, <1>y DEF ThreadDeleted
  <2> QED
    BY <1>27, <1>c, <1>d, <1>g, <1>v, <1>w, <2>1, <2>2 DEF ThreadDeleted
<1>28. ASSUME NEW j \in Ids, TurnStarted(j) PROVE Goal
  <2>1. RowsT'
    BY <1>28, <1>l DEF TurnStarted
  <2>2. ProjectionT'
    BY <1>28, <1>t DEF TurnStarted, ProjectionT
  <2> QED
    BY <1>28, <1>a, <1>d, <1>g, <1>v, <1>w, <2>1, <2>2 DEF TurnStarted
<1>29. CASE TurnEnds
  <2>1. ProjectionT'
    BY <1>29, <1>t DEF TurnEnds, ProjectionT
  <2> QED
    BY <1>29, <1>u, <1>d, <1>g, <1>v, <1>w, <2>1 DEF TurnEnds
<1>30. CASE RuntimeExits
  <2>1. RowsT'
    BY <1>30, <1>m, <1>n DEF RuntimeExits
  <2>2. ProjectionT' /\ ProviderT'
    BY <1>30, <1>s, <1>t DEF RuntimeExits, ProjectionT, ProviderT
  <2> QED
    BY <1>30, <1>a, <1>d, <1>v, <1>w, <2>1, <2>2 DEF RuntimeExits
<1>31. ASSUME NEW j \in Ids, LaneStep(j) PROVE Goal
  BY <1>31, <1>1, <1>2, <1>3, <1>4, <1>5, <1>6, <1>7, <1>8, <1>9, <1>10, <1>11, <1>12, <1>13,
     <1>14, <1>15, Zenon DEF LaneStep
<1> QED
  BY <1>16, <1>17, <1>18, <1>19, <1>20, <1>21, <1>22, <1>23, <1>24, <1>25, <1>26, <1>27, <1>28,
     <1>29, <1>30, <1>31, Zenon DEF Next, StartupStep

-----------------------------------------------------------------------------
(* Each part of the invariant is kept                                       *)

LEMMA RequestsKept ==
  ASSUME TypeOK, RequestStep
  PROVE  /\ Len(request) \in Nat /\ Len(request') \in Nat /\ Len(request) <= Len(request')
         /\ Len(request') <= MaxRequests
         /\ \A i \in Ids, kind \in Kinds : i <= Len(request) => (Is(i, kind)' <=> Is(i, kind))
<1>1. request \in Seq(Kinds) /\ Len(request) <= MaxRequests
  BY DEF TypeOK
<1>2. CASE request' = request
  BY <1>1, <1>2 DEF Is
<1>3. ASSUME NEW kind \in Kinds, Request(kind)
      PROVE  /\ Len(request') = Len(request) + 1 /\ Len(request) < MaxRequests
             /\ \A i \in 1 .. Len(request) : request'[i] = request[i]
  BY <1>1, <1>3 DEF Request
<1>4. CASE \E kind \in Kinds : Request(kind)
  <2>1. /\ Len(request') = Len(request) + 1 /\ Len(request) < MaxRequests
        /\ \A i \in 1 .. Len(request) : request'[i] = request[i]
    BY <1>3, <1>4
  <2>2. Len(request) \in Nat
    BY <1>1
  <2> QED
    BY <2>1, <2>2, IntentsAssumption DEF Is, Ids
<1> QED
  BY <1>2, <1>4 DEF RequestStep

LEMMA FreshKept ==
  ASSUME TypeOK, FreshInv, BootInv, Next
  PROVE  FreshInv'
<1>0. RequestStep /\ MarkStep /\ PhaseStep
  BY OtherSteps
<1>l. Len(request) \in Nat /\ Len(request') \in Nat /\ Len(request) <= Len(request')
  BY <1>0, RequestsKept
<1> SUFFICES ASSUME NEW i \in Ids
             PROVE  IF i <= Len(request') THEN row'[i] # "none"
                    ELSE /\ row'[i] = "none" /\ place'[i] = "none" /\ i \notin dispatched' \cup todo'
                         /\ Told(i)' = {} /\ sent'[i] = 0
  BY Zenon DEF FreshInv
<1>i. i \in Nat
  BY DEF Ids
<1>s. PlaceStep(i) /\ RowStep(i)
  BY PlaceSteps, RowSteps
<1>n. ASSUME NEW kind \in Kinds, Request(kind) PROVE Len(request') = Len(request) + 1
  BY <1>n DEF Request, TypeOK
<1>1. CASE i <= Len(request)
  <2>1. row[i] # "none"
    BY <1>1 DEF FreshInv
  <2>2. row'[i] # "none"
    BY <1>s, <2>1 DEF RowStep, RowStays, RowOpens, RowGoes, IsTold
  <2> QED
    BY <1>1, <1>i, <1>l, <2>2
<1>2. CASE ~(i <= Len(request)) /\ i <= Len(request')
  <2>1. PICK kind \in Kinds : Request(kind)
    BY <1>0, <1>2 DEF RequestStep
  <2>2. i = Len(request) + 1
    BY <1>2, <1>i, <1>l, <1>n, <2>1
  <2>3. row'[i] = "open"
    BY <2>1, <2>2 DEF Request, TypeOK
  <2> QED
    BY <1>2, <2>3
<1>3. CASE ~(i <= Len(request'))
  <2>1. ~(i <= Len(request))
    BY <1>3, <1>i, <1>l
  <2>2. /\ row[i] = "none" /\ place[i] = "none" /\ i \notin dispatched \cup todo
        /\ Told(i) = {} /\ sent[i] = 0
    BY <2>1 DEF FreshInv
  <2>3. ~RowOpens(i)
    BY <1>3, <1>i, <1>l, <1>n DEF RowOpens
  <2>4. row'[i] = "none" /\ Told(i)' = {}
    BY <1>s, <2>1, <2>2, <2>3 DEF RowStep, RowStays, RowGoes, IsTold
  <2>5. place'[i] = "none" /\ sent'[i] = 0
    BY <1>s, <2>1, <2>2 DEF PlaceStep, Stays, Enters, Advances, IsCalled, IsLost
  <2>6. i \notin dispatched'
    BY <1>0, <2>2 DEF MarkStep
  <2>7. i \notin todo'
    BY <1>0, <2>2 DEF PhaseStep, Boot, Subscribe, ListOpen, Crash
  <2> QED
    BY <1>3, <2>4, <2>5, <2>6, <2>7
<1> QED
  BY <1>1, <1>2, <1>3

LEMMA BootKept ==
  ASSUME TypeOK, FreshInv, BootInv, Next
  PROVE  BootInv'
<1>0. RequestStep /\ PhaseStep
  BY OtherSteps
<1>l. Len(request) \in Nat /\ Len(request') \in Nat /\ Len(request) <= Len(request')
  BY <1>0, RequestsKept
<1>n. bootSequence \in Nat /\ delivered \in Nat
  BY IntentsAssumption DEF TypeOK
<1>m. delivered' \in Nat
  <2>1. TypeOK'
    BY TypesKept
  <2>2. delivered' \in 0 .. MaxRequests
    BY <2>1 DEF TypeOK
  <2> QED
    BY <2>2, IntentsAssumption
<1>1. live' => Up'
  <2>1. CASE Crash
    BY <2>1 DEF Crash
  <2>2. CASE ~Crash /\ Up
    BY <1>0, <2>2 DEF PhaseStep, Boot, Subscribe, ListOpen, Up
  <2>3. CASE Boot
    BY <2>3 DEF Boot, Up
  <2>4. CASE ~Up
    <3>1. Boot
      BY <1>0, <2>4 DEF PhaseStep, Subscribe, ListOpen, Crash, Up
    <3> QED
      BY <2>3, <3>1
  <2> QED
    BY <2>1, <2>2, <2>4
<1>2. CASE Boot
  BY <1>1, <1>2, <1>l, <1>n DEF Boot, BootInv, lanes, ledger
<1>3. CASE Subscribe
  BY <1>1, <1>3, <1>l, <1>n DEF Subscribe, BootInv, lanes, ledger
<1>4. CASE ListOpen
  BY <1>1, <1>4, <1>l, <1>n DEF ListOpen, BootInv, ledger
<1>5. CASE Crash
  BY <1>1, <1>5, <1>l, <1>n DEF Crash, BootInv, ledger
<1>6. CASE /\ Up /\ UNCHANGED bootSequence /\ todo' \subseteq todo
           /\ delivered <= delivered' /\ delivered' <= Len(request)
           /\ phase' = phase \/ (phase \notin {"down", "booting"} /\ phase' \notin {"down", "booting"})
  <2>1. bootSequence' <= Len(request')
    BY <1>6, <1>l, <1>n DEF BootInv
  <2>2. delivered' <= Len(request')
    BY <1>6, <1>l, <1>m
  <2>3. CASE phase' \in {"down", "booting"}
    <3>1. phase' = phase /\ phase = "booting"
      BY <1>6, <2>3 DEF Up
    <3>2. todo' = {} /\ \A i \in Ids : place[i] = "none"
      BY <1>6, <3>1 DEF BootInv
    <3>3. ~Crash
      BY <3>1 DEF Crash
    <3>4. ASSUME NEW i \in Ids PROVE place'[i] = "none"
      BY <3>1, <3>2, <3>3, PlaceSteps DEF PlaceStep, Stays, Enters, Advances, IsCalled, IsLost
    <3> QED
      BY <1>1, <2>1, <2>2, <2>3, <3>2, <3>4 DEF BootInv
  <2>4. CASE phase' \notin {"down", "booting"}
    <3>1. phase \notin {"down", "booting"}
      BY <1>6, <2>4
    <3>2. bootSequence <= delivered
      BY <3>1 DEF BootInv
    <3>3. bootSequence' <= delivered'
      BY <1>6, <1>m, <1>n, <3>2
    <3> QED
      BY <1>1, <2>1, <2>2, <2>4, <3>3 DEF BootInv
  <2> QED
    BY <2>3, <2>4
<1> QED
  BY <1>0, <1>2, <1>3, <1>4, <1>5, <1>6, Zenon DEF PhaseStep

LEMMA PlaceKept ==
  ASSUME TypeOK, FreshInv, BootInv, PlaceInv, Next
  PROVE  PlaceInv'
<1>0. RequestStep /\ PhaseStep
  BY OtherSteps
<1>b. BootInv'
  BY BootKept
<1>k. "session-stop" \in Kinds
  BY DEF Kinds
<1>l. /\ Len(request) \in Nat
      /\ \A i \in Ids, kind \in Kinds : i <= Len(request) => (Is(i, kind)' <=> Is(i, kind))
  BY <1>0, RequestsKept
<1>1. CASE Boot
  <2>1. \A i \in Ids : place'[i] = "none"
    BY <1>1, <1>b DEF Boot, BootInv
  <2> QED
    BY <2>1 DEF PlaceInv
<1>2. CASE ~Boot
  <2>1. bootSequence' = bootSequence
    BY <1>0, <1>2 DEF PhaseStep, Subscribe, ListOpen, Crash
  <2> SUFFICES ASSUME NEW i \in Ids
               PROVE  /\ place'[i] # "none" => Is(i, "session-stop")' \/ i > bootSequence
                      /\ place'[i] \in {"preparing", "marking", "calling"} =>
                           ~Is(i, "session-stop")'
    BY <2>1, Zenon DEF PlaceInv
  <2>2. PlaceStep(i)
    BY PlaceSteps
  <2>3. CASE place[i] = "none"
    <3>1. place'[i] = "none" \/ Enters(i)
      BY <2>2, <2>3 DEF PlaceStep, Stays, Advances, IsCalled, IsLost
    <3>2. ASSUME Enters(i)
          PROVE  place'[i] = "queued" /\ (Is(i, "session-stop")' \/ i > bootSequence)
      BY <1>l, <1>k, <3>2 DEF Enters
    <3> QED
      BY <3>1, <3>2
  <2>4. CASE place[i] # "none"
    <3>1. i <= Len(request)
      BY <2>4 DEF FreshInv
    <3>2. Is(i, "session-stop")' <=> Is(i, "session-stop")
      BY <1>l, <1>k, <3>1
    <3>3. Is(i, "session-stop") \/ i > bootSequence
      BY <2>4 DEF PlaceInv
    <3>4. place'[i] \in {"preparing", "marking", "calling"} => ~Is(i, "session-stop")
      BY <2>2, <2>4 DEF PlaceStep, Stays, Enters, Advances, IsCalled, IsLost, PlaceInv
    <3> QED
      BY <3>2, <3>3, <3>4
  <2> QED
    BY <2>3, <2>4
<1> QED
  BY <1>1, <1>2

LEMMA SentKept ==
  ASSUME TypeOK, FreshInv, BootInv, PlaceInv, SentInv, Next
  PROVE  SentInv'
<1>0. RequestStep /\ PhaseStep /\ MarkStep
  BY OtherSteps
<1>b. BootInv' /\ FreshInv'
  BY BootKept, FreshKept
<1>k. "session-stop" \in Kinds
  BY DEF Kinds
<1>l. /\ Len(request) \in Nat
      /\ \A i \in Ids, kind \in Kinds : i <= Len(request) => (Is(i, kind)' <=> Is(i, kind))
  BY <1>0, RequestsKept
<1> SUFFICES ASSUME NEW i \in Ids
             PROVE  /\ sent'[i] \in {0, 1}
                    /\ Is(i, "session-stop")' \/ place'[i] \in {"queued", "preparing", "marking", "calling"}
                         => sent'[i] = 0
                    /\ sent'[i] # 0 /\ Up' /\ place'[i] = "none" => i <= bootSequence'
                    /\ sent'[i] # 0 \/ place'[i] = "calling" =>
                         i \in dispatched' \/ row'[i] = "closed"
  BY Zenon DEF SentInv
<1>s. PlaceStep(i) /\ RowStep(i)
  BY PlaceSteps, RowSteps
<1>i. /\ sent[i] \in {0, 1}
      /\ Is(i, "session-stop") \/ place[i] \in {"queued", "preparing", "marking", "calling"}
           => sent[i] = 0
      /\ sent[i] # 0 /\ Up /\ place[i] = "none" => i <= bootSequence
      /\ sent[i] # 0 \/ place[i] = "calling" => i \in dispatched \/ row[i] = "closed"
  BY DEF SentInv
<1>1. CASE sent[i] = 0 /\ place[i] = "none"
  <2>1. sent'[i] = 0 /\ place'[i] \in {"none", "queued"}
    BY <1>s, <1>1 DEF PlaceStep, Stays, Enters, Advances, IsCalled, IsLost
  <2> QED
    BY <2>1
<1>2. CASE sent[i] # 0 \/ place[i] # "none"
  <2>1. i <= Len(request)
    BY <1>2 DEF FreshInv
  <2>2. Is(i, "session-stop")' <=> Is(i, "session-stop")
    BY <1>l, <1>k, <2>1
  <2>3. row'[i] = row[i] \/ row'[i] = "closed"
    BY <1>s, <1>l, <2>1 DEF RowStep, RowStays, RowOpens, RowGoes, IsTold, Ids
  <2>4. i \in dispatched => i \in dispatched'
    BY <1>0 DEF MarkStep
  <2>5. sent'[i] \in {0, 1}
    BY <1>s, <1>i DEF PlaceStep, Stays, Enters, Advances, IsCalled, IsLost
  <2>6. Is(i, "session-stop") \/ place'[i] \in {"queued", "preparing", "marking", "calling"}
          => sent'[i] = 0
    <3>1. Is(i, "session-stop") => place[i] # "calling"
      BY DEF PlaceInv
    <3>2. CASE Stays(i)
      BY <1>i, <3>2 DEF Stays
    <3>3. CASE Enters(i)
      <4>1. sent[i] # 0 /\ ~Is(i, "session-stop") => i <= bootSequence /\ i > bootSequence
        BY <1>i, <3>3 DEF Enters, Up
      <4>2. bootSequence \in Nat /\ i \in Nat
        BY IntentsAssumption DEF TypeOK, Ids
      <4>3. sent[i] = 0
        BY <1>i, <4>1, <4>2
      <4> QED
        BY <3>3, <4>3 DEF Enters
    <3>4. CASE Advances(i)
      BY <1>i, <3>4 DEF Advances
    <3>5. CASE IsCalled(i)
      BY <3>1, <3>5 DEF IsCalled
    <3>6. CASE IsLost(i)
      BY <1>i, <3>6 DEF IsLost
    <3> QED
      BY <1>s, <3>2, <3>3, <3>4, <3>5, <3>6 DEF PlaceStep
  <2>7. sent'[i] # 0 /\ Up' /\ place'[i] = "none" => i <= bootSequence'
    <3> SUFFICES ASSUME sent'[i] # 0, Up', place'[i] = "none" PROVE i <= bootSequence'
      OBVIOUS
    <3>1. ~Crash
      BY DEF Crash, Up
    <3>2. Stays(i)
      BY <1>s, <3>1 DEF PlaceStep, Enters, Advances, IsCalled, IsLost
    <3>3. CASE Boot
      BY <2>1, <3>3 DEF Boot
    <3>4. CASE ~Boot
      <4>1. Up /\ bootSequence' = bootSequence
        BY <1>0, <3>1, <3>4 DEF PhaseStep, Subscribe, ListOpen, Up
      <4> QED
        BY <1>i, <3>2, <4>1 DEF Stays
    <3> QED
      BY <3>3, <3>4
  <2>8. sent'[i] # 0 \/ place'[i] = "calling" => i \in dispatched' \/ row'[i] = "closed"
    <3>1. row[i] \in {"open", "closed"}
      BY <2>1 DEF TypeOK, FreshInv
    <3>2. CASE Stays(i)
      BY <1>i, <2>3, <2>4, <3>2 DEF Stays
    <3>3. CASE Enters(i)
      BY <1>i, <2>3, <2>4, <3>3 DEF Enters
    <3>4. CASE Advances(i)
      BY <1>i, <2>3, <2>4, <3>1, <3>4 DEF Advances
    <3>5. CASE IsCalled(i)
      BY <1>i, <2>3, <2>4, <3>5 DEF IsCalled
    <3>6. CASE IsLost(i)
      BY <1>i, <2>3, <2>4, <3>6 DEF IsLost
    <3> QED
      BY <1>s, <3>2, <3>3, <3>4, <3>5, <3>6 DEF PlaceStep
  <2> QED
    BY <2>2, <2>5, <2>6, <2>7, <2>8
<1> QED
  BY <1>1, <1>2, <1>i

LEMMA TodoKept ==
  ASSUME TypeOK, FreshInv, BootInv, PlaceInv, TodoInv, Next
  PROVE  TodoInv'
<1>0. RequestStep /\ PhaseStep /\ MarkStep /\ HistoryStep
  BY OtherSteps
<1>k. "session-stop" \in Kinds
  BY DEF Kinds
<1>l. /\ Len(request) \in Nat
      /\ \A i \in Ids, kind \in Kinds : i <= Len(request) => (Is(i, kind)' <=> Is(i, kind))
  BY <1>0, RequestsKept
<1>1. CASE Boot \/ Subscribe \/ Crash
  <2>1. todo' = {}
    BY <1>1 DEF Boot, Subscribe, Crash, BootInv
  <2> QED
    BY <2>1 DEF TodoInv
<1>2. CASE ListOpen
  <2>1. \A i \in todo' : row'[i] = "open"
    BY <1>2 DEF ListOpen, ledger
  <2> QED
    BY <2>1 DEF TodoInv
<1>3. ASSUME todo' \subseteq todo, UNCHANGED bootSequence PROVE TodoInv'
  <2> SUFFICES ASSUME NEW i \in todo', i <= bootSequence, ~gone', ~Is(i, "session-stop")'
               PROVE  row'[i] = "open" \/ i \in dispatched'
    BY <1>3, Zenon DEF TodoInv
  <2>1. i \in todo /\ i \in Ids
    BY <1>3 DEF TypeOK
  <2>2. i <= Len(request)
    BY <2>1 DEF FreshInv
  <2>3. ~Is(i, "session-stop") /\ ~gone
    BY <1>0, <1>k, <1>l, <2>1, <2>2 DEF HistoryStep
  <2>4. row[i] = "open" \/ i \in dispatched
    BY <2>1, <2>3 DEF TodoInv
  <2>5. CASE i \in dispatched
    BY <1>0, <2>5 DEF MarkStep
  <2>6. CASE row[i] = "open" /\ i \notin dispatched
    <3>1. RowStep(i)
      BY <2>1, RowSteps
    <3>2. ~RowOpens(i)
      BY <1>l, <2>1, <2>2 DEF RowOpens, Ids
    <3>3. ~RowGoes(i)
      BY <2>6 DEF RowGoes
    <3>4. place[i] = "none"
      <4>1. i \in Nat /\ bootSequence \in Nat
        BY <2>1, IntentsAssumption DEF TypeOK, Ids
      <4> QED
        BY <2>1, <2>3, <4>1 DEF PlaceInv
    <3>5. ~IsTold(i)
      BY <2>3, <3>4 DEF IsTold
    <3> QED
      BY <2>6, <3>1, <3>2, <3>3, <3>5 DEF RowStep, RowStays
  <2> QED
    BY <2>4, <2>5, <2>6
<1> QED
  BY <1>0, <1>1, <1>2, <1>3 DEF PhaseStep

LEMMA VisibleKept ==
  ASSUME TypeOK, FreshInv, BootInv, SentInv, UndispatchedEndsVisibly, Next
  PROVE  UndispatchedEndsVisibly'
<1>0. MarkStep /\ HistoryStep
  BY OtherSteps
<1> SUFFICES ASSUME NEW i \in Ids, row'[i] = "closed", i \notin dispatched'
             PROVE  outcome'[i] # {} \/ gone' \/ i \in dropped'
  BY Zenon DEF UndispatchedEndsVisibly
<1>1. i \notin dispatched
  BY <1>0 DEF MarkStep
<1>2. CASE RowStays(i)
  <2>1. outcome[i] # {} \/ gone \/ i \in dropped
    BY <1>1, <1>2 DEF RowStays, UndispatchedEndsVisibly
  <2> QED
    BY <1>0, <1>2, <2>1 DEF RowStays, HistoryStep
<1>3. CASE RowOpens(i)
  BY <1>3 DEF RowOpens
<1>4. CASE RowGoes(i)
  BY <1>1, <1>4 DEF RowGoes
<1>5. CASE IsTold(i)
  BY <1>5 DEF IsTold
<1> QED
  BY <1>2, <1>3, <1>4, <1>5, RowSteps DEF RowStep

LEMMA VerdictKept ==
  ASSUME TypeOK, FreshInv, BootInv, PlaceInv, SentInv, TodoInv, VerdictInv, Next
  PROVE  VerdictInv'
<1>0. RequestStep /\ PhaseStep /\ MarkStep
  BY OtherSteps
<1>b. FreshInv' /\ TypeOK'
  BY FreshKept, TypesKept
<1>k. "session-stop" \in Kinds
  BY DEF Kinds
<1>l. /\ Len(request) \in Nat
      /\ \A i \in Ids, kind \in Kinds : i <= Len(request) => (Is(i, kind)' <=> Is(i, kind))
  BY <1>0, RequestsKept
<1>h. bootSequence \in Nat /\ bootSequence <= Len(request)
  BY IntentsAssumption DEF TypeOK, BootInv
<1> SUFFICES ASSUME NEW i \in Ids, ~Is(i, "session-stop")'
             PROVE  /\ \A v, w \in Told(i)' : v = w
                    /\ Told(i)' # {} =>
                         /\ row'[i] = "closed" /\ place'[i] \in {"none", "done"}
                         /\ i \in todo' => i > bootSequence'
                         /\ Up' /\ place'[i] = "none" => i <= bootSequence'
                    /\ outcome'[i] \cap {"not-sent", "deferred"} # {} =>
                         i <= bootSequence' /\ sent'[i] = 0
  BY Zenon DEF VerdictInv
<1>s. PlaceStep(i) /\ RowStep(i)
  BY PlaceSteps, RowSteps
<1>n. i \in Nat
  BY DEF Ids
<1>v. outcome[i] \cap {"not-sent", "deferred"} \subseteq Told(i) /\ Told(i) \subseteq outcome[i]
  BY DEF Told, Verdicts
<1>w. outcome'[i] \cap {"not-sent", "deferred"} \subseteq Told(i)'
  BY DEF Told, Verdicts
<1>1. CASE Told(i)' = {}
  BY <1>1, <1>w
<1>2. CASE Told(i)' # {} /\ ~(i <= Len(request))
  <2>1. row[i] = "none" /\ Told(i) = {}
    BY <1>2 DEF FreshInv
  <2>2. Told(i)' = Told(i)
    BY <1>s, <1>2, <2>1 DEF RowStep, RowStays, RowOpens, RowGoes, IsTold, Told
  <2> QED
    BY <1>2, <2>1, <2>2
<1>3. CASE Told(i)' # {} /\ i <= Len(request)
  <2>1. ~Is(i, "session-stop")
    BY <1>3, <1>k, <1>l
  <2>2. /\ \A v, w \in Told(i) : v = w
        /\ Told(i) # {} =>
             /\ row[i] = "closed" /\ place[i] \in {"none", "done"}
             /\ i \in todo => i > bootSequence
             /\ Up /\ place[i] = "none" => i <= bootSequence
        /\ outcome[i] \cap {"not-sent", "deferred"} # {} => i <= bootSequence /\ sent[i] = 0
    BY <2>1 DEF VerdictInv
  <2>3. place[i] # "none" => i > bootSequence
    BY <2>1 DEF PlaceInv
  <2>4. ~RowOpens(i)
    BY <1>3, <1>l, <1>n DEF RowOpens
  <2>5. bootSequence' = bootSequence \/ (Boot /\ bootSequence' = Len(request))
    BY <1>0 DEF PhaseStep, Boot, Subscribe, ListOpen, Crash
  <2>6. i <= bootSequence => i <= bootSequence'
    BY <1>3, <2>5
  <2>7. ASSUME Told(i)' = Told(i), row'[i] = "closed" \/ row'[i] = row[i]
        PROVE  /\ \A v, w \in Told(i)' : v = w
               /\ row'[i] = "closed" /\ place'[i] \in {"none", "done"}
               /\ i \in todo' => i > bootSequence'
               /\ Up' /\ place'[i] = "none" => i <= bootSequence'
               /\ outcome[i] \cap {"not-sent", "deferred"} # {} =>
                    i <= bootSequence' /\ sent'[i] = 0
    <3>1. Told(i) # {}
      BY <1>3, <2>7
    <3>2. row'[i] = "closed" /\ place[i] \in {"none", "done"}
      BY <2>2, <2>7, <3>1
    <3>3. ~Enters(i)
      BY <1>n, <1>h, <2>1, <2>2, <3>1 DEF Enters, Up
    <3>4. sent'[i] = sent[i] /\ (place'[i] = place[i] \/ (Crash /\ place'[i] = "none"))
      BY <1>s, <3>2, <3>3 DEF PlaceStep, Stays, Advances, IsCalled, IsLost
    <3>5. i \in todo' => i > bootSequence'
      <4>1. CASE Boot \/ Subscribe \/ Crash
        BY <4>1 DEF Boot, Subscribe, Crash, BootInv
      <4>2. CASE ListOpen
        <5>1. i \notin todo'
          BY <2>2, <3>1, <4>2 DEF ListOpen
        <5> QED
          BY <5>1
      <4>3. CASE todo' \subseteq todo /\ UNCHANGED bootSequence
        BY <2>2, <3>1, <4>3
      <4> QED
        BY <1>0, <4>1, <4>2, <4>3 DEF PhaseStep
    <3>6. Up' /\ place'[i] = "none" => i <= bootSequence'
      <4> SUFFICES ASSUME Up', place'[i] = "none" PROVE i <= bootSequence'
        OBVIOUS
      <4>1. ~Crash
        BY DEF Crash, Up
      <4>2. CASE Boot
        BY <1>3, <4>2 DEF Boot
      <4>3. CASE ~Boot
        <5>1. Up
          BY <1>0, <4>1, <4>3 DEF PhaseStep, Subscribe, ListOpen, Up
        <5> QED
          BY <2>2, <2>6, <3>1, <3>4, <4>1, <5>1
      <4> QED
        BY <4>2, <4>3
    <3> QED
      BY <2>2, <2>6, <2>7, <3>2, <3>4, <3>5, <3>6
  <2>8. CASE RowStays(i) \/ RowGoes(i)
    <3>1. Told(i)' = Told(i) /\ (row'[i] = "closed" \/ row'[i] = row[i])
      BY <2>8 DEF RowStays, RowGoes
    <3>2. outcome'[i] \cap {"not-sent", "deferred"} # {} =>
            outcome[i] \cap {"not-sent", "deferred"} # {}
      <4>1. outcome'[i] \cap {"not-sent", "deferred"} \subseteq outcome[i]
        BY <1>v, <1>w, <3>1
      <4> QED
        BY <4>1
    <3> QED
      BY <2>7, <3>1, <3>2
  <2>9. CASE IsTold(i)
    <3>1. PICK v \in Verdicts :
            /\ outcome'[i] = outcome[i] \cup {v}
            /\ \/ /\ v \notin {"not-sent", "deferred"}
                  /\ place[i] \notin {"none", "done"} /\ place'[i] = "done"
               \/ /\ i \in todo \ todo' /\ i <= bootSequence /\ ~gone
                  /\ place'[i] = place[i]
                  /\ v \in {"not-sent", "deferred"} => i \notin dispatched
      BY <2>1, <2>9 DEF IsTold
    <3>2. row'[i] = "closed"
      BY <2>9 DEF IsTold
    <3>3. Told(i) = {}
      BY <1>n, <1>h, <2>2, <3>1
    <3>4. Told(i)' = {v}
      <4>1. Told(i)' = outcome'[i] \cap Verdicts
        BY DEF Told
      <4> QED
        BY <3>1, <3>3, <4>1 DEF Told
    <3>5. outcome[i] \cap {"not-sent", "deferred"} = {}
      BY <1>v, <3>3
    <3>6. CASE v \notin {"not-sent", "deferred"} /\ place[i] \notin {"none", "done"} /\ place'[i] = "done"
      <4>1. i > bootSequence /\ bootSequence' = bootSequence
        <5>1. ~Boot
          BY <3>6 DEF Boot, BootInv
        <5> QED
          BY <2>3, <2>5, <3>6, <5>1
      <4>2. outcome'[i] \cap {"not-sent", "deferred"} = {}
        BY <3>1, <3>5, <3>6
      <4> QED
        BY <3>2, <3>4, <3>6, <4>1, <4>2
    <3>7. CASE /\ i \in todo \ todo' /\ i <= bootSequence /\ ~gone
               /\ place'[i] = place[i]
               /\ v \in {"not-sent", "deferred"} => i \notin dispatched
      <4>1. place[i] = "none"
        BY <1>n, <1>h, <2>3, <3>7
      <4>2. sent'[i] = sent[i]
        BY <1>s, <3>7, <4>1 DEF PlaceStep, Stays, Enters, Advances, IsCalled, IsLost
      <4>3. v \in {"not-sent", "deferred"} => sent[i] = 0
        <5> SUFFICES ASSUME v \in {"not-sent", "deferred"} PROVE sent[i] = 0
          OBVIOUS
        <5>1. row[i] = "open" /\ i \notin dispatched
          BY <2>1, <3>7 DEF TodoInv
        <5> QED
          BY <5>1 DEF SentInv
      <4>4. outcome'[i] \cap {"not-sent", "deferred"} # {} => v \in {"not-sent", "deferred"}
        BY <3>1, <3>5
      <4>5. i <= bootSequence'
        BY <2>6, <3>7
      <4>6. \A x, y \in Told(i)' : x = y
        BY <3>4
      <4> QED
        BY <3>2, <3>7, <4>1, <4>2, <4>3, <4>4, <4>5, <4>6
    <3> QED
      BY <3>1, <3>6, <3>7
  <2> QED
    BY <1>s, <2>4, <2>8, <2>9 DEF RowStep
<1> QED
  BY <1>1, <1>2, <1>3

-----------------------------------------------------------------------------
(* The invariant                                                            *)

LEMMA InitInv == Init => IndInv
<1> SUFFICES ASSUME Init PROVE IndInv
  OBVIOUS
<1>1. TypeOK
  <2>1. 0 \in 0 .. MaxRequests
    BY IntentsAssumption
  <2>2. request \in Seq(Kinds) /\ Len(request) <= MaxRequests
    BY IntentsAssumption DEF Init
  <2>3. lane \in Seq(Ids)
    BY DEF Init
  <2>4. /\ row \in [Ids -> {"none", "open", "closed"}] /\ attempts \in [Ids -> Nat]
        /\ outcome \in [Ids -> SUBSET (Verdicts \cup {"running"})]
        /\ place \in [Ids -> Places] /\ sent \in [Ids -> Nat]
    BY DEF Init, Places
  <2>5. /\ phase \in Phases /\ bootSequence \in 0 .. MaxRequests /\ delivered \in 0 .. MaxRequests
        /\ stopNoted \in 0 .. MaxRequests /\ active \in Ids \cup {0}
    BY <2>1 DEF Init, Phases
  <2> QED
    BY <2>2, <2>3, <2>4, <2>5 DEF Init, TypeOK
<1>2. Len(request) = 0 /\ \A i \in Ids : ~(i <= Len(request))
  BY DEF Init, Ids
<1>3. FreshInv
  BY <1>2 DEF Init, FreshInv, Told
<1>4. BootInv
  BY <1>2 DEF Init, BootInv, Up
<1>5. PlaceInv /\ SentInv /\ TodoInv
  BY DEF Init, PlaceInv, SentInv, TodoInv, Up
<1>6. VerdictInv
  BY DEF Init, VerdictInv, Told
<1>7. UndispatchedEndsVisibly
  BY DEF Init, UndispatchedEndsVisibly
<1> QED
  BY <1>1, <1>3, <1>4, <1>5, <1>6, <1>7 DEF IndInv

LEMMA NextKeeps == IndInv /\ [Next]_vars => IndInv'
<1> SUFFICES ASSUME IndInv, [Next]_vars PROVE IndInv'
  OBVIOUS
<1>1. /\ TypeOK /\ FreshInv /\ BootInv /\ PlaceInv /\ SentInv /\ TodoInv /\ VerdictInv
      /\ UndispatchedEndsVisibly
  BY DEF IndInv
<1>2. CASE Next
  <2>1. TypeOK'
    BY <1>1, <1>2, TypesKept
  <2>2. FreshInv' /\ BootInv'
    BY <1>1, <1>2, FreshKept, BootKept
  <2>3. PlaceInv' /\ SentInv'
    BY <1>1, <1>2, PlaceKept, SentKept
  <2>4. TodoInv' /\ VerdictInv' /\ UndispatchedEndsVisibly'
    BY <1>1, <1>2, TodoKept, VerdictKept, VisibleKept
  <2> QED
    BY <2>1, <2>2, <2>3, <2>4 DEF IndInv
<1>3. CASE UNCHANGED vars
  <2> USE <1>3 DEF vars, ledger, history, projection, reactor, lanes, provider, bounds
  <2>1. TypeOK'
    BY <1>1 DEF TypeOK
  <2>2. FreshInv' /\ BootInv'
    BY <1>1 DEF FreshInv, BootInv, Told, Up
  <2>3. PlaceInv' /\ SentInv' /\ TodoInv'
    BY <1>1 DEF PlaceInv, SentInv, TodoInv, Is, Up
  <2>4. VerdictInv' /\ UndispatchedEndsVisibly'
    BY <1>1 DEF VerdictInv, UndispatchedEndsVisibly, Is, Told, Up
  <2> QED
    BY <2>1, <2>2, <2>3, <2>4 DEF IndInv
<1> QED
  BY <1>2, <1>3

(* In every reachable state the parts of the invariant hold: they tell      *)
(* where a request can be while what was sent, marked, listed and told of   *)
(* it is as it is.                                                          *)
THEOREM IntentsInvariant == Spec => []IndInv
<1> QED
  BY InitInv, NextKeeps, PTL DEF Spec

-----------------------------------------------------------------------------
(* The properties                                                           *)

(* Every variable keeps to its type, the live cursor and the boot's head     *)
(* among the tracked requests.                                               *)
THEOREM TypesOK == Spec => []TypeOK
<1>1. IndInv => TypeOK
  BY DEF IndInv
<1> QED
  BY <1>1, IntentsInvariant, PTL

(* A message that recovery calls not sent, or puts back on the queue         *)
(* (recoverPrior), was never given to the provider: no request that went out *)
(* between its listing and its verdict is told so.                           *)
THEOREM UnsentIsTrue == Spec => []UnsentVerdictsAreTrue
<1>1. ASSUME IndInv PROVE UnsentVerdictsAreTrue
  <2> SUFFICES ASSUME NEW i \in Ids, outcome[i] \cap {"not-sent", "deferred"} # {}
               PROVE  sent[i] = 0
    BY Zenon DEF UnsentVerdictsAreTrue
  <2>1. CASE Is(i, "session-stop")
    BY <1>1, <2>1 DEF IndInv, SentInv
  <2>2. CASE ~Is(i, "session-stop")
    BY <1>1, <2>2 DEF IndInv, VerdictInv
  <2> QED
    BY <2>1, <2>2
<1> QED
  BY <1>1, IntentsInvariant, PTL

(* A row that was not marked is deleted only with a verdict in the history,  *)
(* with its thread, or by a recovery that logs it.                           *)
THEOREM UndispatchedIsVisible == Spec => []UndispatchedEndsVisibly
<1>1. IndInv => UndispatchedEndsVisibly
  BY DEF IndInv
<1> QED
  BY <1>1, IntentsInvariant, PTL

(* Neither a boot that finds the row of a request its fiber is still         *)
(* reporting, nor a lane, ends a turn start or steer a second time in        *)
(* another way.                                                              *)
THEOREM OneEnding == Spec => []OneVerdict
<1>1. ASSUME IndInv PROVE OneVerdict
  <2> SUFFICES ASSUME NEW i \in Ids, Is(i, "turn-start") \/ Is(i, "turn-steer")
               PROVE  Cardinality(outcome[i] \cap Verdicts) <= 1
    BY Zenon DEF OneVerdict
  <2>1. ~Is(i, "session-stop")
    BY DEF Is
  <2>2. \A v, w \in Told(i) : v = w
    BY <1>1, <2>1 DEF IndInv, VerdictInv
  <2>3. CASE Told(i) = {}
    BY <2>3, FS_EmptySet DEF Told
  <2>4. CASE Told(i) # {}
    <3>1. PICK v : v \in Told(i)
      BY <2>4
    <3>2. Told(i) = {v}
      BY <2>2, <3>1
    <3>3. Cardinality({v}) = 1
      BY FS_Singleton
    <3>4. Cardinality(Told(i)) = 1
      BY <3>2, <3>3
    <3> QED
      BY <3>4 DEF Told
  <2> QED
    BY <2>3, <2>4
<1> QED
  BY <1>1, IntentsInvariant, PTL

(* The provider is called with a request by the handler of the process that  *)
(* took it, once: no redelivery, recovery or restart calls it again.         *)
THEOREM SentOnce == Spec => NeverSentAgain
<1>1. ASSUME IndInv, [Next]_vars, NEW i \in Ids, sent'[i] # sent[i]
      PROVE  sent[i] = 0 /\ sent'[i] = 1 /\ i > bootSequence
  <2>1. Next
    BY <1>1 DEF vars, provider
  <2>2. PlaceStep(i)
    BY <1>1, <2>1, PlaceSteps DEF IndInv
  <2>3. place[i] = "calling" /\ sent'[i] = sent[i] + 1
    BY <1>1, <2>2 DEF PlaceStep, Stays, Enters, Advances, IsCalled, IsLost
  <2>4. sent[i] = 0
    BY <1>1, <2>3 DEF IndInv, SentInv
  <2>5. i > bootSequence
    BY <1>1, <2>3 DEF IndInv, PlaceInv
  <2> QED
    BY <2>3, <2>4, <2>5
<1>2. IndInv /\ [Next]_vars =>
        [\A i \in Ids : sent'[i] # sent[i] => sent[i] = 0 /\ sent'[i] = 1 /\ i > bootSequence]_vars
  BY <1>1
<1> QED
  BY <1>2, IntentsInvariant, PTL DEF Spec, NeverSentAgain
=============================================================================
