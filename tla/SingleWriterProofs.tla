------------------------- MODULE SingleWriterProofs -------------------------
(***************************************************************************)
(* What the discipline "single-writer per run" buys.  While one call or    *)
(* one pass is under way nobody else writes the journal, so the record of  *)
(* an execution stays what the caller has read or written.  From this      *)
(* follow: no refused status move, a pending list that says exactly which  *)
(* executions are open, no write sent again without a verdict that found   *)
(* it absent; and, when requests keep to their window, one effect for each *)
(* permission to send, and without a verifier no second request at all.    *)
(* Every theorem has SingleWriter as its hypothesis; two_threads shows     *)
(* runs without it.  What an agent's loop may do between the steps of the  *)
(* run keeps the same invariants.                                          *)
(***************************************************************************)
EXTENDS AgentSystemProofs

-----------------------------------------------------------------------------
(* One at a time                                                           *)

OneAtATime ==
  /\ \A v, w \in Workers : pc[v] # "idle" /\ pc[w] # "idle" => v = w
  /\ step # "idle" => AllIdle

(* A step of a call is taken by a thread inside a call.                    *)
LEMMA CallersAreBusy ==
  ASSUME NEW w \in Workers, ContinueCall(w)
  PROVE  pc[w] # "idle"
BY DEF ContinueCall, WorkerStep, Lookup, LogIntent, Reread, Dispatch, Invoke, Arrives,
       Rejected, AdapterReturns, AdapterErrs, AdapterAmbiguous, RecordAcked, RecordFailed,
       RecordAmbiguous

(* A step of a pass is taken while the pass is under way.                  *)
LEMMA PassesAreBusy ==
  ASSUME PassStep
  PROVE  step # "idle"
BY DEF PassStep, ListPending, RecordVerdict, Reconcile, AppendToolMessage, FinishPass,
       DecideOne, Probe

(* The discipline is kept: a call or a pass starts only when everything    *)
(* else has ended, and what is under way starts nothing.                   *)
LEMMA OneAtATimeStays ==
  ASSUME SingleWriter, TypeOK, OneAtATime, [Next]_vars
  PROVE  OneAtATime'
<1> USE DEF TypeOK, CallTypeOK, OneAtATime, AllIdle
<1>1. ASSUME NEW w \in Workers, ContinueCall(w)
      PROVE  OneAtATime'
  <2>1. pc[w] # "idle" /\ \A v \in Workers : v # w => pc[v] = "idle"
    BY <1>1, CallersAreBusy
  <2>2. \A v \in Workers : v # w => pc'[v] = "idle"
    BY <1>1, <2>1, OtherThreadsStay
  <2>3. step' = "idle"
    BY <1>1, <2>1 DEF ContinueCall, passVars
  <2> QED
    BY <2>2, <2>3
<1>2. ASSUME NEW w \in Workers, NEW e \in Exec, StartCall(w, e)
      PROVE  OneAtATime'
  BY <1>2 DEF StartCall, Call, passVars
<1>3. CASE StartPass
  BY <1>3 DEF StartPass, callVars
<1>4. CASE ContinuePass
  BY <1>4, PassesAreBusy DEF ContinuePass, callVars
<1>5. ASSUME NEW e \in Exec, WindowPasses(e) \/ Network(e)
      PROVE  OneAtATime'
  BY <1>5 DEF WindowPasses, Network, callVars, passVars
<1>6. CASE Crash
  BY <1>6 DEF Crash
<1>7. CASE UNCHANGED vars
  BY <1>7 DEF vars, callVars, passVars
<1> QED
  BY <1>1, <1>2, <1>3, <1>4, <1>5, <1>6, <1>7 DEF Next

-----------------------------------------------------------------------------
(* What a call knows of its record                                         *)

(* The record of a call's execution is the one the call has read or        *)
(* written: none before the intent, the intent up to the dispatch marker,  *)
(* and from then on what the call is sending on the strength of.           *)
CallKnows(w) ==
  /\ pc[w] = "intent" => records[task[w]] = NoRecord
  /\ pc[w] \in {"reread", "dispatch"} => records[task[w]] = "intent_logged"
  /\ pc[w] = "dispatch" => WritesDispatchMarker(task[w])
  /\ pc[w] \in Sending =>
       records[task[w]] = IF w \in replay THEN "verified_not_found"
                          ELSE IF WritesDispatchMarker(task[w]) THEN "dispatched"
                          ELSE "intent_logged"
  /\ pc[w] \notin Sending => w \notin replay

(* Recording what the record allows keeps the pending list exact and is    *)
(* never refused.                                                          *)
LEMMA SettlingIsAllowed ==
  ASSUME TypeOK, PendingIffUnsettled, NEW w \in Workers,
         NEW s \in Parked \union Terminal, NEW clear, NEW answer,
         Settle(w, s, clear, answer), answer # "raised", CanRecord(task[w], s),
         \/ s \in Terminal /\ clear = TRUE
         \/ s \in Parked /\ clear = FALSE /\ records[task[w]] \in Unsettled
  PROVE  /\ CallKnows(w)' /\ PendingIffUnsettled'
         /\ task'[w] = task[w] /\ reply'[w] # "raised"
         /\ \A e \in Exec : e # task[w] => records'[e] = records[e]
<1> USE DEF TypeOK, CallTypeOK, JournalTypeOK
<1> task[w] \in Exec
  OBVIOUS
<1>1. RecordToolResult(task[w], s, clear)
  BY DEF Settle
<1>2. records' = [records EXCEPT ![task[w]] = s]
  BY <1>1 DEF RecordToolResult
<1>3. PendingIffUnsettled'
  <2>1. CASE s \in Terminal /\ clear = TRUE
    <3>1. pending' = pending \ {task[w]}
      BY <1>1, <2>1 DEF RecordToolResult, Terminal
    <3> QED
      BY <1>2, <2>1, <3>1 DEF PendingIffUnsettled, Terminal, Unsettled
  <2>2. CASE s \in Parked /\ clear = FALSE /\ records[task[w]] \in Unsettled
    <3>1. pending' = pending
      BY <1>1, <2>2 DEF RecordToolResult
    <3> QED
      BY <1>2, <2>2, <3>1 DEF PendingIffUnsettled, Parked, Unsettled
  <2> QED
    BY <2>1, <2>2
<1>4. ASSUME NEW reason, Return(w, reason), reason # "raised"
      PROVE  CallKnows(w)' /\ task'[w] = task[w] /\ reply'[w] # "raised"
  BY <1>4 DEF Return, CallKnows, Sending
<1> QED
  BY <1>2, <1>3, <1>4 DEF Settle, MirrorFails

(* A step of a call keeps what the call knows and the pending list exact,  *)
(* touches no other record and is not refused.                             *)
LEMMA CallStepKeepsRecord ==
  ASSUME TypeOK, AuditClean, PendingIffUnsettled, NEW w \in Workers, CallKnows(w),
         reply[w] # "raised", ContinueCall(w)
  PROVE  /\ CallKnows(w)' /\ PendingIffUnsettled'
         /\ task'[w] = task[w] /\ reply'[w] # "raised"
         /\ \A e \in Exec : e # task[w] => records'[e] = records[e]
<1> USE DEF TypeOK, CallTypeOK, JournalTypeOK
<1> task[w] \in Exec
  OBVIOUS
<1> DEFINE Kept == /\ CallKnows(w)' /\ PendingIffUnsettled'
                   /\ task'[w] = task[w] /\ reply'[w] # "raised"
                   /\ \A e \in Exec : e # task[w] => records'[e] = records[e]
<1>1. ASSUME UNCHANGED journalVars
      PROVE  PendingIffUnsettled' /\ records' = records
  BY <1>1 DEF journalVars, PendingIffUnsettled
<1>2. ASSUME NEW answer, answer # "raised", Return(w, answer)
      PROVE  CallKnows(w)' /\ task'[w] = task[w] /\ reply'[w] # "raised"
  BY <1>2 DEF Return, CallKnows, Sending
<1>3. ASSUME NEW s \in Sending, pc[w] \in Sending, UNCHANGED journalVars, pc' = [pc EXCEPT ![w] = s],
             UNCHANGED <<task, replay, reply>>
      PROVE  Kept
  BY <1>1, <1>3 DEF CallKnows, Sending, WritesDispatchMarker
<1>4. CASE Lookup(w)
  <2> records' = records /\ PendingIffUnsettled'
    BY <1>1, <1>4 DEF Lookup
  <2> pc[w] = "lookup" /\ w \notin replay
    BY <1>4 DEF Lookup, CallKnows, Sending
  <2>1. CASE records[task[w]] = NoRecord
    BY <1>4, <2>1 DEF Lookup, Goto, NoRecord, CallKnows, Sending
  <2>2. CASE records[task[w]] = "verified_not_found"
    BY <1>4, <2>2 DEF Lookup, NoRecord, CallKnows, Sending
  <2>3. CASE records[task[w]] \notin {NoRecord, "verified_not_found"}
    <3>1. Return(w, Answer(records[task[w]])) /\ Answer(records[task[w]]) # "raised"
      BY <1>4, <2>3, AnswerType DEF Lookup
    <3> QED
      BY <1>2, <3>1
  <2> QED
    BY <2>1, <2>2, <2>3
<1>5. CASE LogIntent(w)
  <2>1. records[task[w]] = NoRecord /\ task[w] \notin intents /\ w \notin replay
    BY <1>5 DEF LogIntent, CallKnows, AuditClean, Sending
  <2>2. /\ records' = [records EXCEPT ![task[w]] = "intent_logged"]
        /\ pending' = pending \union {task[w]}
    BY <1>5, <2>1 DEF LogIntent, RecordToolIntent, IntentExists
  <2>3. PendingIffUnsettled'
    BY <2>2 DEF PendingIffUnsettled, Unsettled
  <2>4. CASE Goto(w, "reread")
    BY <2>1, <2>2, <2>3, <2>4 DEF Goto, CallKnows, Sending
  <2>5. CASE Return(w, "aborted")
    BY <1>2, <2>2, <2>3, <2>5
  <2> QED
    BY <1>5, <2>4, <2>5 DEF LogIntent, MirrorFails
<1>6. CASE Reread(w)
  <2> records' = records /\ PendingIffUnsettled'
    BY <1>1, <1>6 DEF Reread
  <2>1. records[task[w]] = "intent_logged" /\ w \notin replay
    BY <1>6 DEF Reread, CallKnows, Sending
  <2>2. Goto(w, IF WritesDispatchMarker(task[w]) THEN "dispatch" ELSE "invoke")
    BY <1>6, <2>1 DEF Reread, NoRecord
  <2> QED
    BY <2>1, <2>2 DEF Goto, CallKnows, Sending, WritesDispatchMarker
<1>7. CASE Dispatch(w)
  <2>1. /\ records[task[w]] = "intent_logged" /\ w \notin replay
        /\ WritesDispatchMarker(task[w])
    BY <1>7 DEF Dispatch, CallKnows, Sending
  <2>2. CanDispatch(task[w])
    BY <2>1 DEF CanDispatch, NoRecord, MayMove, AllowedNext, Statuses
  <2>3. records' = [records EXCEPT ![task[w]] = "dispatched"] /\ pending' = pending
    BY <1>7, <2>2 DEF Dispatch, RecordToolDispatch
  <2>4. PendingIffUnsettled'
    BY <2>1, <2>3 DEF PendingIffUnsettled, Unsettled
  <2>5. CASE Goto(w, "invoke")
    BY <2>1, <2>3, <2>4, <2>5 DEF Goto, CallKnows, Sending, WritesDispatchMarker
  <2>6. CASE Return(w, "aborted")
    BY <1>2, <2>3, <2>4, <2>6
  <2> QED
    BY <1>7, <2>2, <2>5, <2>6 DEF Dispatch, MirrorFails
<1>8. CASE Invoke(w) \/ Arrives(w) \/ Rejected(w)
  BY <1>3, <1>8 DEF Invoke, Arrives, Rejected, Sending
<1>9. CASE AdapterReturns(w) \/ AdapterErrs(w) \/ AdapterAmbiguous(w)
  BY <1>3, <1>9 DEF AdapterReturns, AdapterErrs, AdapterAmbiguous, Goto, Sending
<1>10. ASSUME pc[w] \in Sending
       PROVE  /\ records[task[w]] \in Unsettled
              /\ \A s \in {"acked", "failed"} : CanRecord(task[w], s)
  BY <1>10 DEF CallKnows, Unsettled, CanRecord, MayMove, AllowedNext, Statuses
<1>11. CASE RecordAcked(w)
  BY <1>10, <1>11, SettlingIsAllowed DEF RecordAcked, Sending, Terminal
<1>12. CASE RecordFailed(w)
  BY <1>10, <1>12, SettlingIsAllowed DEF RecordFailed, Sending, Terminal
<1>13. CASE RecordAmbiguous(w)
  <2>1. CASE task[w] \notin Writes
    BY <1>10, <1>13, <2>1, SettlingIsAllowed DEF RecordAmbiguous, Sending, Terminal
  <2>2. CASE task[w] \in Writes
    <3> DEFINE s == IF w \in replay THEN "verified_not_found" ELSE "dispatched"
    <3>1. records[task[w]] = s
      BY <1>13, <2>2 DEF RecordAmbiguous, CallKnows, Sending, WritesDispatchMarker
    <3>2. s \in Parked /\ CanRecord(task[w], s) /\ records[task[w]] \in Unsettled
      BY <3>1 DEF Parked, CanRecord, MayMove, Unsettled
    <3>3. Settle(w, s, FALSE, "pending_recovery")
      BY <1>13, <2>2 DEF RecordAmbiguous
    <3> HIDE DEF s
    <3> QED
      BY <3>2, <3>3, SettlingIsAllowed
  <2> QED
    BY <2>1, <2>2
<1> QED
  BY <1>4, <1>5, <1>6, <1>7, <1>8, <1>9, <1>11, <1>12, <1>13 DEF ContinueCall, WorkerStep
-----------------------------------------------------------------------------
(* What a pass knows of the records                                        *)

(* The snapshot of a pass stays true of every execution it has yet to      *)
(* decide, and it puts to the verifier only what it may still settle.      *)
SnapshotHolds ==
  /\ step = "list" => records = snapshot
  /\ step \in {"scan", "verdict"} => \A e \in todo : records[e] = snapshot[e]
  /\ step \in {"reconcile", "append"} => \A e \in todo \ {current} : records[e] = snapshot[e]
  /\ step = "verdict" => current \in todo /\ Verifiable(current)

(* A step of a pass keeps its snapshot true of what is left to do and the  *)
(* pending list exact, and none of its status moves is refused.            *)
LEMMA PassStepKeepsSnapshot ==
  ASSUME TypeOK, PendingIffUnsettled, SnapshotHolds, outcome # "raised", PassStep
  PROVE  SnapshotHolds' /\ PendingIffUnsettled' /\ outcome' # "raised"
<1> USE DEF TypeOK, PassTypeOK, JournalTypeOK
<1> DEFINE Kept == SnapshotHolds' /\ PendingIffUnsettled' /\ outcome' # "raised"
<1>1. ASSUME UNCHANGED journalVars
      PROVE  PendingIffUnsettled' /\ records' = records
  BY <1>1 DEF journalVars, PendingIffUnsettled
<1>2. ASSUME NEW e \in Exec, NEW action, step \in {"scan", "reconcile", "append"},
             step # "scan" => e = current,
             step' = "scan", Decided(e, action), UNCHANGED <<snapshot, outcome, journalVars>>
      PROVE  Kept
  BY <1>1, <1>2 DEF Decided, SnapshotHolds
<1>3. CASE ListPending
  BY <1>1, <1>3 DEF ListPending, SnapshotHolds
<1>4. ASSUME NEW e \in Exec, DecideOne(e)
      PROVE  Kept
  <2> DEFINE action == IF snapshot[e] = NoRecord THEN "handoff"
                       ELSE Decide(snapshot[e], e \notin overdue)
  <2>1. CASE action = "mark_committed"
    <3>1. /\ step = "scan" /\ step' = "reconcile"
          /\ UNCHANGED <<todo, snapshot, outcome, journalVars>>
      BY <1>4, <2>1 DEF DecideOne
    <3> QED
      BY <1>1, <3>1 DEF SnapshotHolds
  <2>2. CASE action # "mark_committed"
    <3>1. /\ step = "scan" /\ step' = "scan" /\ Decided(e, action)
          /\ UNCHANGED <<snapshot, outcome, journalVars>>
      BY <1>4, <2>2 DEF DecideOne
    <3> HIDE DEF action
    <3> QED
      BY <1>2, <3>1
  <2> QED
    BY <2>1, <2>2
<1>5. ASSUME NEW e \in Exec, Probe(e)
      PROVE  Kept
  <2>1. /\ step = "scan" /\ step' = "verdict" /\ e \in todo /\ current' = e /\ Verifiable(e)
        /\ UNCHANGED <<todo, snapshot, overdue, outcome, journalVars>>
    BY <1>5 DEF Probe
  <2> QED
    BY <1>1, <2>1 DEF SnapshotHolds, Verifiable
<1>6. CASE RecordVerdict
  <2> step = "verdict" /\ UNCHANGED snapshot
    BY <1>6 DEF RecordVerdict
  <2>1. current \in todo /\ records[current] = "dispatched"
    BY DEF SnapshotHolds, Verifiable
  <2>2. CanRecord(current, "verified_committed") /\ CanRecord(current, "verified_not_found")
    BY <2>1 DEF CanRecord, MayMove, AllowedNext, Statuses
  <2>3. ASSUME EndPass("aborted")
        PROVE  SnapshotHolds' /\ outcome' # "raised"
    BY <2>3 DEF EndPass, SnapshotHolds
  <2>4. CASE RecordFound
    <3>1. /\ records' = [records EXCEPT ![current] = "verified_committed"]
          /\ pending' = pending \ {current}
      BY <2>4 DEF RecordFound, RecordToolResult
    <3>2. PendingIffUnsettled'
      BY <3>1 DEF PendingIffUnsettled, Unsettled
    <3>3. CASE step' = "reconcile" /\ UNCHANGED <<todo, outcome, current>>
      BY <3>1, <3>2, <3>3 DEF SnapshotHolds
    <3> QED
      BY <2>3, <2>4, <3>2, <3>3 DEF RecordFound, MirrorFailsInPass
  <2>5. CASE RecordAbsent
    <3>1. /\ records' = [records EXCEPT ![current] = "verified_not_found"]
          /\ pending' = pending
      BY <2>5 DEF RecordAbsent, RecordToolResult
    <3>2. PendingIffUnsettled'
      BY <2>1, <3>1 DEF PendingIffUnsettled, Unsettled
    <3>3. CASE Decided(current, "replay") /\ step' = "scan" /\ UNCHANGED <<outcome, current>>
      BY <3>1, <3>2, <3>3 DEF SnapshotHolds, Decided
    <3> QED
      BY <2>3, <2>5, <3>2, <3>3 DEF RecordAbsent, MirrorFailsInPass
  <2>6. CASE /\ Decided(current, "handoff") /\ step' = "scan"
             /\ UNCHANGED <<outcome, current, journalVars>>
    BY <1>1, <2>6 DEF Decided, SnapshotHolds
  <2> QED
    BY <1>6, <2>2, <2>4, <2>5, <2>6 DEF RecordVerdict
<1>7. CASE Reconcile
  <2>1. CASE toolMsgs[current] > 0
    BY <1>2, <1>7, <2>1 DEF Reconcile
  <2>2. CASE ~(toolMsgs[current] > 0)
    BY <1>1, <1>7, <2>2 DEF Reconcile, SnapshotHolds
  <2> QED
    BY <2>1, <2>2
<1>8. CASE AppendToolMessage
  <2>1. CASE Decided(current, "mark_committed") /\ step' = "scan" /\ UNCHANGED outcome
    BY <1>2, <1>8, <2>1 DEF AppendToolMessage
  <2>2. CASE EndPass("aborted")
    BY <1>1, <1>8, <2>2 DEF AppendToolMessage, EndPass, SnapshotHolds
  <2> QED
    BY <1>8, <2>1, <2>2 DEF AppendToolMessage, MirrorFailsInPass
<1>9. CASE FinishPass
  BY <1>1, <1>9 DEF FinishPass, SnapshotHolds
<1> QED
  BY <1>3, <1>4, <1>5, <1>6, <1>7, <1>8, <1>9 DEF PassStep

-----------------------------------------------------------------------------
(* The discipline                                                          *)

Discipline ==
  /\ OneAtATime
  /\ \A w \in Workers : CallKnows(w)
  /\ SnapshotHolds
  /\ PendingIffUnsettled
  /\ NoIllegalMove

(* As long as they stay one at a time, what calls and passes know stays    *)
(* true.                                                                   *)
LEMMA DisciplineStays ==
  ASSUME TypeOK, AuditClean, Discipline, [Next]_vars, OneAtATime'
  PROVE  Discipline'
<1> USE DEF TypeOK, CallTypeOK
<1> OneAtATime'
  OBVIOUS
<1>1. ASSUME UNCHANGED callVars, records' = records
      PROVE  (\A w \in Workers : CallKnows(w)') /\ \A w \in Workers : reply'[w] # "raised"
  BY <1>1 DEF callVars, Discipline, CallKnows, NoIllegalMove, WritesDispatchMarker
<1>2. ASSUME UNCHANGED passVars, records' = records
      PROVE  SnapshotHolds' /\ outcome' # "raised"
  BY <1>2 DEF passVars, Discipline, SnapshotHolds, Verifiable, NoIllegalMove
<1>3. ASSUME UNCHANGED journalVars
      PROVE  records' = records /\ PendingIffUnsettled'
  BY <1>3 DEF journalVars, Discipline, PendingIffUnsettled
<1>4. ASSUME NEW w \in Workers, ContinueCall(w)
      PROVE  Discipline'
  <2>1. /\ CallKnows(w)' /\ PendingIffUnsettled' /\ reply'[w] # "raised"
    BY <1>4, CallStepKeepsRecord DEF Discipline, NoIllegalMove
  <2>2. step = "idle" /\ \A v \in Workers : v # w => pc[v] = "idle"
    BY <1>4, CallersAreBusy DEF Discipline, OneAtATime, AllIdle
  <2>3. ASSUME NEW v \in Workers, v # w
        PROVE  CallKnows(v)' /\ reply'[v] # "raised"
    <3>1. pc'[v] = "idle" /\ v \notin replay' /\ reply'[v] = reply[v]
      BY <1>4, <2>2, <2>3, OtherThreadsStay DEF Discipline, CallKnows, Sending
    <3> QED
      BY <3>1 DEF CallKnows, Sending, Discipline, NoIllegalMove
  <2>4. SnapshotHolds' /\ outcome' # "raised"
    BY <1>4, <2>2 DEF ContinueCall, passVars, SnapshotHolds, Discipline, NoIllegalMove
  <2> QED
    BY <2>1, <2>3, <2>4 DEF Discipline, NoIllegalMove
<1>5. ASSUME NEW w \in Workers, NEW e \in Exec, StartCall(w, e)
      PROVE  Discipline'
  <2>1. UNCHANGED <<passVars, journalVars>>
    BY <1>5 DEF StartCall, Call
  <2>2. ASSUME NEW v \in Workers
        PROVE  CallKnows(v)' /\ reply'[v] # "raised"
    <3>1. /\ pc'[v] \in {"idle", "lookup"} /\ v \notin replay'
          /\ reply'[v] = "none" \/ reply'[v] = reply[v]
      <4>1. pc'[w] = "lookup" /\ pc' = [pc EXCEPT ![w] = "lookup"]
        BY <1>5 DEF StartCall, Call
      <4>2. v # w => pc[v] = "idle"
        BY <4>1 DEF OneAtATime
      <4> QED
        BY <1>5, <4>1, <4>2 DEF StartCall, Call, Discipline, CallKnows, Sending
    <3> QED
      BY <3>1 DEF CallKnows, Sending, Discipline, NoIllegalMove
  <2> QED
    BY <1>2, <1>3, <2>1, <2>2 DEF Discipline, NoIllegalMove
<1>6. CASE StartPass
  <2>1. /\ UNCHANGED <<callVars, journalVars>> /\ step' = "list" /\ snapshot' = records
        /\ outcome' = "none"
    BY <1>6 DEF StartPass, BeginPass, BeginPassWith
  <2>2. SnapshotHolds'
    BY <1>3, <2>1 DEF SnapshotHolds
  <2> QED
    BY <1>1, <1>3, <2>1, <2>2 DEF Discipline, NoIllegalMove
<1>7. CASE ContinuePass
  <2>1. SnapshotHolds' /\ PendingIffUnsettled' /\ outcome' # "raised"
    BY <1>7, PassStepKeepsSnapshot DEF ContinuePass, Discipline, NoIllegalMove
  <2>2. AllIdle /\ UNCHANGED callVars
    BY <1>7, PassesAreBusy DEF ContinuePass, Discipline, OneAtATime
  <2>3. ASSUME NEW w \in Workers
        PROVE  CallKnows(w)' /\ reply'[w] # "raised"
    BY <2>2 DEF AllIdle, callVars, CallKnows, Sending, Discipline, NoIllegalMove
  <2> QED
    BY <2>1, <2>3 DEF Discipline, NoIllegalMove
<1>8. ASSUME NEW e \in Exec, WindowPasses(e) \/ Network(e)
      PROVE  Discipline'
  <2>1. UNCHANGED <<callVars, passVars, journalVars>>
    BY <1>8 DEF WindowPasses, Network
  <2> QED
    BY <1>1, <1>2, <1>3, <2>1 DEF Discipline, NoIllegalMove
<1>9. CASE Crash
  <2>1. /\ step' = "idle" /\ outcome' = "none" /\ UNCHANGED journalVars /\ replay' = {}
        /\ \A w \in Workers : pc'[w] = "idle" /\ reply'[w] = "none"
    BY <1>9 DEF Crash
  <2>2. SnapshotHolds' /\ \A w \in Workers : CallKnows(w)'
    BY <2>1 DEF SnapshotHolds, CallKnows, Sending
  <2> QED
    BY <1>3, <2>1, <2>2 DEF Discipline, NoIllegalMove
<1>10. CASE UNCHANGED vars
  <2>1. UNCHANGED <<callVars, passVars, journalVars>>
    BY <1>10 DEF vars
  <2> QED
    BY <1>1, <1>2, <1>3, <2>1 DEF Discipline, NoIllegalMove
<1> QED
  BY <1>4, <1>5, <1>6, <1>7, <1>8, <1>9, <1>10 DEF Next

(* Nothing is under way at the start.                                      *)
LEMMA DisciplineAtTheStart == Init => Discipline
BY DEF Init, JournalInit, CallInit, PassInit, Discipline, OneAtATime, AllIdle, CallKnows,
       Sending, SnapshotHolds, PendingIffUnsettled, NoIllegalMove, Unsettled, NoRecord

(* With one writer per run, the discipline is an invariant.                *)
LEMMA DisciplineHolds ==
  ASSUME SingleWriter
  PROVE  Spec => []Discipline
<1>1. TypeOK /\ AuditClean /\ Discipline /\ [Next]_vars => Discipline'
  BY OneAtATimeStays, DisciplineStays DEF Discipline
<1> QED
  BY <1>1, DisciplineAtTheStart, TypeCorrect, SystemAuditClean, PTL DEF Spec

(* With one writer per run, an execution is pending exactly while its      *)
(* outcome is open: no call or pass settles one and leaves it pending, or  *)
(* reopens one that is no longer listed.                                   *)
THEOREM PendingIsExact ==
  ASSUME SingleWriter
  PROVE  Spec => []PendingIffUnsettled
BY DisciplineHolds, PTL DEF Discipline

(* With one writer per run, neither execute_tool nor recover_run attempts  *)
(* a status move that the facade refuses, wherever the process crashes.    *)
THEOREM MovesAreLegal ==
  ASSUME SingleWriter
  PROVE  Spec => []NoIllegalMove
BY DisciplineHolds, PTL DEF Discipline
-----------------------------------------------------------------------------
(* Requests and verdicts                                                   *)

(* The history changes only when a thread sends, and when a verdict that   *)
(* finds the execution absent is recorded.                                 *)
LEMMA HistorySteps ==
  ASSUME [Next]_vars
  PROVE  \/ UNCHANGED historyVars
         \/ \E w \in Workers : Invoke(w)
         \/ step = "verdict" /\ verdict = "absent" /\ RecordAbsent
<1>1. ASSUME NEW w \in Workers, ContinueCall(w), ~Invoke(w)
      PROVE  UNCHANGED historyVars
  BY <1>1
     DEF ContinueCall, WorkerStep, Lookup, LogIntent, Reread, Dispatch, Arrives, Rejected,
         AdapterReturns, AdapterErrs, AdapterAmbiguous, RecordAcked, RecordFailed,
         RecordAmbiguous, Settle, environmentVars
<1>2. CASE ContinuePass
  <2>1. CASE RecordVerdict
    BY <2>1 DEF RecordVerdict, RecordFound
  <2>2. CASE ~RecordVerdict
    BY <1>2, <2>2 DEF ContinuePass, PassStep, ListPending, Reconcile, AppendToolMessage,
                      FinishPass, DecideOne, Probe, environmentVars
  <2> QED
    BY <2>1, <2>2
<1>3. CASE StartPass \/ Crash \/ UNCHANGED vars
  BY <1>3 DEF StartPass, BeginPass, BeginPassWith, Crash, vars, environmentVars
<1>4. ASSUME NEW w \in Workers, NEW e \in Exec, StartCall(w, e)
      PROVE  UNCHANGED historyVars
  BY <1>4 DEF StartCall, Call, environmentVars
<1>5. ASSUME NEW e \in Exec, WindowPasses(e) \/ Network(e)
      PROVE  UNCHANGED historyVars
  BY <1>5 DEF WindowPasses, Network, environmentVars
<1> QED
  BY <1>1, <1>2, <1>3, <1>4, <1>5 DEF Next

(* With one writer, a record comes to say "verified not found" only by a   *)
(* verdict: a repeated ambiguity of a replay finds it there.               *)
LEMMA AbsenceComesFromVerdict ==
  ASSUME TypeOK, Discipline, [Next]_vars, NEW e \in Exec,
         records[e] # "verified_not_found", records'[e] = "verified_not_found"
  PROVE  RecordAbsent /\ current = e
<1> USE DEF TypeOK, JournalTypeOK
<1>1. ASSUME NEW f \in Exec, NEW s, NEW clear, RecordToolResult(f, s, clear)
      PROVE  f = e /\ s = "verified_not_found"
  BY <1>1 DEF RecordToolResult
<1>2. ASSUME NEW f \in Exec, RecordToolIntent(f) \/ RecordToolDispatch(f)
      PROVE  FALSE
  BY <1>2 DEF RecordToolIntent, RecordToolDispatch, journalVars
<1>3. ~UNCHANGED journalVars
  BY DEF journalVars
<1>4. ASSUME NEW w \in Workers, ContinueCall(w)
      PROVE  FALSE
  <2> task[w] \in Exec
    BY DEF CallTypeOK
  <2>1. ASSUME NEW s, NEW clear, NEW answer, Settle(w, s, clear, answer)
        PROVE  task[w] = e /\ s = "verified_not_found"
    BY <1>1, <1>3, <2>1 DEF Settle, journalVars
  <2>2. ~RecordAcked(w) /\ ~RecordFailed(w)
    <3>1. ASSUME NEW s \in {"acked", "failed"}, NEW answer, Settle(w, s, TRUE, answer)
          PROVE  FALSE
      BY <2>1, <3>1
    <3> QED
      BY <3>1 DEF RecordAcked, RecordFailed
  <2>3. ~RecordAmbiguous(w)
    <3> SUFFICES ASSUME RecordAmbiguous(w)
                 PROVE  FALSE
      OBVIOUS
    <3> DEFINE s == IF w \in replay THEN "verified_not_found" ELSE "dispatched"
    <3>1. ASSUME NEW t, NEW clear, NEW answer, Settle(w, t, clear, answer), t \in {s, "failed"}
          PROVE  task[w] = e /\ w \in replay
      BY <2>1, <3>1
    <3>2. task[w] = e /\ w \in replay
      BY <3>1 DEF RecordAmbiguous
    <3> QED
      BY <3>2 DEF RecordAmbiguous, Discipline, CallKnows, Sending
  <2> QED
    BY <1>2, <1>3, <1>4, <2>2, <2>3
       DEF ContinueCall, WorkerStep, Lookup, LogIntent, Reread, Dispatch, Invoke, Arrives,
           Rejected, AdapterReturns, AdapterErrs, AdapterAmbiguous, journalVars
<1>5. CASE ContinuePass
  <2> current \in Exec
    BY DEF PassTypeOK
  <2>1. ~RecordFound
    <3>1. ASSUME RecordToolResult(current, "verified_committed", TRUE)
          PROVE  FALSE
      <4>1. "verified_committed" = "verified_not_found"
        BY <1>1, <3>1
      <4> QED
        BY <4>1
    <3> QED
      BY <3>1 DEF RecordFound
  <2>2. RecordAbsent => current = e
    BY <1>1 DEF RecordAbsent
  <2> QED
    BY <1>3, <1>5, <2>1, <2>2
       DEF ContinuePass, PassStep, ListPending, RecordVerdict, Reconcile, AppendToolMessage,
           FinishPass, DecideOne, Probe
<1> QED
  BY <1>3, <1>4, <1>5
     DEF Next, StartCall, Call, StartPass, BeginPass, BeginPassWith, WindowPasses, Network,
         Crash, vars

(* What a call may send: an execution that has not been sent since it was  *)
(* last found absent, or one that has been found absent.                   *)
MaySend(e) == e \notin unproven \/ e \in foundAbsent

(* A write sent is a write logged; a record that says "not found" goes     *)
(* back to a verdict; and a thread about to send may do so.                *)
RefireInv ==
  /\ \A e \in Writes :
        /\ records[e] \in {NoRecord, "intent_logged"} => e \notin unproven
        /\ records[e] = "verified_not_found" => e \in foundAbsent
        /\ e \in resent => e \in foundAbsent
  /\ \A w \in Workers : task[w] \in Writes /\ pc[w] = "invoke" => MaySend(task[w])

(* A thread comes to the adapter by its own dispatch or as a replay.       *)
LEMMA RoadToInvoke ==
  ASSUME TypeOK, Discipline, [Next]_vars, NEW w \in Workers,
         pc'[w] = "invoke"
  PROVE  /\ task'[w] = task[w]
         /\ \A v \in Workers : ~Invoke(v)
         /\ \/ pc[w] = "invoke"
            \/ records[task[w]] \in {"intent_logged", "verified_not_found"}
<1> USE DEF TypeOK, CallTypeOK
<1>1. ASSUME NEW answer, Return(w, answer)
      PROVE  FALSE
  BY <1>1 DEF Return
<1>2. ASSUME NEW v \in Workers, ContinueCall(v)
      PROVE  v = w
  <2>1. pc[v] # "idle"
    BY <1>2, CallersAreBusy
  <2>2. v # w => pc'[w] = "idle"
    BY <1>2, <2>1, OtherThreadsStay DEF Discipline, OneAtATime
  <2> QED
    BY <2>2
<1>3. ASSUME ContinueCall(w)
      PROVE  /\ task'[w] = task[w] /\ ~Invoke(w)
             /\ records[task[w]] \in {"intent_logged", "verified_not_found"}
  <2>1. CASE Lookup(w)
    <3>1. CASE records[task[w]] = NoRecord
      BY <2>1, <3>1 DEF Lookup, Goto, NoRecord
    <3>2. CASE records[task[w]] = "verified_not_found"
      BY <2>1, <3>2 DEF Lookup, NoRecord, Invoke
    <3>3. CASE records[task[w]] \notin {NoRecord, "verified_not_found"}
      BY <1>1, <2>1, <3>3 DEF Lookup
    <3> QED
      BY <3>1, <3>2, <3>3
  <2>2. CASE Reread(w) \/ Dispatch(w)
    BY <1>1, <2>2 DEF Reread, Dispatch, Goto, MirrorFails, Discipline, CallKnows, NoRecord,
                      Invoke
  <2>3. CASE LogIntent(w)
    BY <1>1, <2>3 DEF LogIntent, Goto, MirrorFails
  <2>4. ~Invoke(w) /\ ~Arrives(w) /\ ~Rejected(w)
    BY DEF Invoke, Arrives, Rejected
  <2>5. ~AdapterReturns(w) /\ ~AdapterErrs(w) /\ ~AdapterAmbiguous(w)
    BY DEF AdapterReturns, AdapterErrs, AdapterAmbiguous, Goto
  <2>6. ~RecordAcked(w) /\ ~RecordFailed(w) /\ ~RecordAmbiguous(w)
    BY <1>1 DEF RecordAcked, RecordFailed, RecordAmbiguous, Settle, MirrorFails
  <2> QED
    BY <1>3, <2>1, <2>2, <2>3, <2>4, <2>5, <2>6 DEF ContinueCall, WorkerStep
<1>4. ASSUME ~ContinueCall(w)
      PROVE  pc[w] = "invoke" /\ task'[w] = task[w] /\ \A v \in Workers : ~Invoke(v)
  <2>1. ASSUME NEW v \in Workers, NEW e \in Exec, StartCall(v, e)
        PROVE  pc[w] = "invoke" /\ task'[w] = task[w] /\ \A u \in Workers : ~Invoke(u)
    BY <2>1 DEF StartCall, Call, Invoke
  <2>2. CASE StartPass \/ ContinuePass \/ UNCHANGED vars
    BY <2>2 DEF StartPass, ContinuePass, vars, callVars, Invoke
  <2>3. ASSUME NEW e \in Exec, WindowPasses(e) \/ Network(e)
        PROVE  pc[w] = "invoke" /\ task'[w] = task[w] /\ \A u \in Workers : ~Invoke(u)
    BY <2>3 DEF WindowPasses, Network, callVars, Invoke
  <2>4. ~Crash
    BY DEF Crash
  <2> QED
    BY <1>2, <1>4, <2>1, <2>2, <2>3, <2>4 DEF Next
<1>5. ASSUME ContinueCall(w), NEW v \in Workers, Invoke(v)
      PROVE  FALSE
  <2>1. v = w
    BY <1>5, CallersAreBusy DEF Invoke, Discipline, OneAtATime
  <2> QED
    BY <1>5, <2>1 DEF Invoke
<1> QED
  BY <1>3, <1>4, <1>5
(* A write is sent only when it may be, and a verdict restores the         *)
(* permission.                                                             *)
LEMMA RefireStays ==
  ASSUME TypeOK, Discipline, RefireInv, [Next]_vars
  PROVE  RefireInv'
<1> USE WritesAssumption DEF TypeOK, EnvironmentTypeOK
<1>1. foundAbsent \subseteq foundAbsent'
  BY HistorySteps DEF historyVars, Invoke, NoteSend, RecordAbsent, NoteAbsence
<1>2. ASSUME NEW w \in Workers, Invoke(w)
      PROVE  /\ unproven' = unproven \union {task[w]} /\ foundAbsent' = foundAbsent
             /\ records' = records
             /\ resent' = IF task[w] \in unproven THEN resent \union {task[w]} ELSE resent
  BY <1>2 DEF Invoke, NoteSend, journalVars
<1>3. ASSUME NEW e \in Writes, records'[e] \in {NoRecord, "intent_logged"}
      PROVE  e \notin unproven'
  <2>1. records[e] \in {NoRecord, "intent_logged"}
    BY <1>3, LoggedStays, SystemJournalStep DEF Logged
  <2>2. e \notin unproven
    BY <2>1 DEF RefireInv
  <2>3. ASSUME NEW w \in Workers, Invoke(w)
        PROVE  task[w] # e
    BY <2>1, <2>3 DEF Invoke, Discipline, CallKnows, Sending, WritesDispatchMarker, NoRecord
  <2> QED
    BY <1>2, <2>2, <2>3, HistorySteps DEF historyVars, RecordAbsent, NoteAbsence
<1>4. ASSUME NEW e \in Writes, records'[e] = "verified_not_found"
      PROVE  e \in foundAbsent'
  <2>1. CASE records[e] = "verified_not_found"
    BY <1>1, <2>1 DEF RefireInv
  <2>2. CASE records[e] # "verified_not_found"
    BY <1>4, <2>2, AbsenceComesFromVerdict DEF RecordAbsent, NoteAbsence
  <2> QED
    BY <2>1, <2>2
<1>5. ASSUME NEW e \in Writes, e \in resent'
      PROVE  e \in foundAbsent'
  <2>1. CASE e \in resent
    BY <1>1, <2>1 DEF RefireInv
  <2>2. CASE e \notin resent
    <3>1. PICK w \in Workers : Invoke(w)
      BY <1>5, <2>2, HistorySteps DEF historyVars, RecordAbsent, NoteAbsence
    <3>2. e = task[w] /\ e \in unproven /\ pc[w] = "invoke"
      BY <1>2, <1>5, <2>2, <3>1 DEF Invoke
    <3> QED
      BY <1>1, <3>2 DEF RefireInv, MaySend
  <2> QED
    BY <2>1, <2>2
<1>6. ASSUME NEW w \in Workers, task'[w] \in Writes, pc'[w] = "invoke"
      PROVE  MaySend(task[w])'
  <2>1. /\ task'[w] = task[w]
        /\ \A v \in Workers : ~Invoke(v)
        /\ \/ pc[w] = "invoke"
           \/ records[task[w]] \in {"intent_logged", "verified_not_found"}
    BY <1>6, RoadToInvoke
  <2>2. MaySend(task[w])
    BY <1>6, <2>1 DEF RefireInv, MaySend
  <2>3. unproven' \subseteq unproven
    BY <2>1, HistorySteps DEF historyVars, RecordAbsent, NoteAbsence
  <2> QED
    BY <1>1, <2>1, <2>2, <2>3 DEF MaySend
<1> QED
  BY <1>3, <1>4, <1>5, <1>6 DEF RefireInv

(* Nothing has been sent at the start.                                     *)
LEMMA RefireAtTheStart == Init => RefireInv
BY WritesAssumption
   DEF Init, JournalInit, EnvironmentInit, CallInit, RefireInv, NoRecord

(* With one writer per run, no write is sent again unless a verdict has    *)
(* found it absent: neither a crash at any point, nor a failed lookup, nor *)
(* a call that finds an open execution sends it blindly.                   *)
THEOREM NoBlindRefire ==
  ASSUME SingleWriter
  PROVE  Spec => []NeverBlindlyRefired
<1>1. RefireInv => NeverBlindlyRefired
  BY DEF RefireInv, NeverBlindlyRefired
<1> QED
  BY <1>1, RefireAtTheStart, RefireStays, DisciplineHolds, TypeCorrect, PTL DEF Spec
-----------------------------------------------------------------------------
(* Requests and the waiting window                                         *)

(* A request comes onto the wire only when its thread sends it.            *)
LEMMA WireSteps ==
  ASSUME TypeOK, [Next]_vars, NEW e \in Exec, NEW w \in Workers, w \in OnTheWire(e)'
  PROVE  w \in OnTheWire(e) \/ (Invoke(w) /\ task[w] = e)
<1> USE DEF TypeOK, CallTypeOK, OnTheWire
<1>1. CASE ContinueCall(w)
  <2>1. ASSUME NEW answer, Return(w, answer)
        PROVE  FALSE
    BY <2>1 DEF Return
  <2>2. ASSUME NEW s, Goto(w, s), s # "waiting"
        PROVE  FALSE
    BY <2>2 DEF Goto
  <2>3. ~Lookup(w)
    <3>1. ASSUME Lookup(w), records[task[w]] = NoRecord
          PROVE  FALSE
      BY <2>2, <3>1 DEF Lookup, NoRecord
    <3>2. ASSUME Lookup(w), records[task[w]] = "verified_not_found"
          PROVE  FALSE
      BY <3>2 DEF Lookup, NoRecord
    <3>3. ASSUME Lookup(w), records[task[w]] \notin {NoRecord, "verified_not_found"}
          PROVE  FALSE
      BY <2>1, <3>3 DEF Lookup
    <3> QED
      BY <3>1, <3>2, <3>3
  <2>4. ~Reread(w)
    <3>1. ASSUME Reread(w), records[task[w]] = "intent_logged"
          PROVE  FALSE
      BY <3>1 DEF Reread, NoRecord, Goto
    <3>2. ASSUME Reread(w), records[task[w]] # "intent_logged"
          PROVE  FALSE
      BY <2>1, <3>2 DEF Reread, NoRecord
    <3> QED
      BY <3>1, <3>2
  <2>5. ~LogIntent(w) /\ ~Dispatch(w)
    BY <2>1, <2>2 DEF LogIntent, Dispatch, MirrorFails
  <2>6. ~AdapterReturns(w) /\ ~AdapterErrs(w) /\ ~AdapterAmbiguous(w)
    BY <2>2 DEF AdapterReturns, AdapterErrs, AdapterAmbiguous
  <2>7. ~RecordAcked(w) /\ ~RecordFailed(w) /\ ~RecordAmbiguous(w)
    BY <2>1 DEF RecordAcked, RecordFailed, RecordAmbiguous, Settle, MirrorFails
  <2>8. ~Arrives(w) /\ ~Rejected(w)
    BY DEF Arrives, Rejected
  <2> QED
    BY <1>1, <2>3, <2>4, <2>5, <2>6, <2>7, <2>8 DEF ContinueCall, WorkerStep, Invoke
<1>2. ASSUME NEW v \in Workers, v # w, ContinueCall(v)
      PROVE  w \in OnTheWire(e)
  BY <1>2, OtherThreadsStay
<1>3. ASSUME NEW v \in Workers, NEW f \in Exec, StartCall(v, f)
      PROVE  w \in OnTheWire(e)
  BY <1>3 DEF StartCall, Call
<1>4. CASE StartPass \/ ContinuePass \/ UNCHANGED vars
  BY <1>4 DEF StartPass, ContinuePass, vars, callVars
<1>5. ASSUME NEW f \in Exec, WindowPasses(f) \/ Network(f)
      PROVE  w \in OnTheWire(e)
  BY <1>5 DEF WindowPasses, Network, callVars
<1>6. ~Crash
  BY DEF Crash
<1> QED
  BY <1>1, <1>2, <1>3, <1>4, <1>5, <1>6 DEF Next

(* An execution gets under way only by a thread that comes to its adapter. *)
LEMMA GettingUnderWay ==
  ASSUME TypeOK, [Next]_vars, NEW e \in Exec, UnderWay(e)', ~UnderWay(e)
  PROVE  \E w \in Workers : task'[w] = e /\ pc'[w] = "invoke"
<1>1. ~(late'[e] > 0)
  BY LateWasSent DEF UnderWay, OnTheWire
<1>2. PICK w \in Workers : task'[w] = e /\ (pc'[w] = "invoke" \/ w \in OnTheWire(e)')
  BY <1>1 DEF UnderWay
<1>3. w \notin OnTheWire(e)'
  BY <1>2, WireSteps DEF UnderWay, OnTheWire, Invoke
<1> QED
  BY <1>2, <1>3

(* The window of an execution passes only by the clock, and a record that  *)
(* is rewritten gets a new window.                                         *)
LEMMA ElapsedSteps ==
  ASSUME TypeOK, [Next]_vars, NEW e \in elapsed'
  PROVE  IF e \in elapsed THEN records[e] # NoRecord => records'[e] = records[e]
         ELSE WindowPasses(e)
<1> USE DEF TypeOK, JournalTypeOK, EnvironmentTypeOK
<1> e \in Exec
  BY EnvironmentStepTypes
<1> DEFINE Kept == e \in elapsed /\ (records[e] # NoRecord => records'[e] = records[e])
<1>1. ASSUME UNCHANGED journalVars, UNCHANGED elapsed
      PROVE  Kept
  BY <1>1 DEF journalVars
<1>2. ASSUME NEW f \in Exec, RestartWindow(f),
             \/ RecordToolDispatch(f)
             \/ \E s, clear : RecordToolResult(f, s, clear)
      PROVE  Kept
  BY <1>2 DEF RestartWindow, RecordToolDispatch, RecordToolResult
<1>3. ASSUME NEW w \in Workers, ContinueCall(w)
      PROVE  Kept
  <2> task[w] \in Exec
    BY DEF CallTypeOK
  <2>1. ASSUME NEW s, NEW clear, NEW answer, Settle(w, s, clear, answer)
        PROVE  Kept
    BY <1>1, <1>2, <2>1 DEF Settle
  <2>2. CASE RecordAcked(w) \/ RecordFailed(w) \/ RecordAmbiguous(w)
    BY <2>1, <2>2 DEF RecordAcked, RecordFailed, RecordAmbiguous
  <2>3. CASE Dispatch(w)
    BY <1>1, <1>2, <2>3 DEF Dispatch
  <2>4. CASE LogIntent(w)
    BY <2>4 DEF LogIntent, RecordToolIntent, IntentExists, journalVars
  <2>5. CASE Lookup(w) \/ Reread(w) \/ Invoke(w) \/ Arrives(w) \/ Rejected(w)
             \/ AdapterReturns(w) \/ AdapterErrs(w) \/ AdapterAmbiguous(w)
    BY <1>1, <2>5 DEF Lookup, Reread, Invoke, Arrives, Rejected, AdapterReturns, AdapterErrs,
                      AdapterAmbiguous, environmentVars
  <2> QED
    BY <1>3, <2>2, <2>3, <2>4, <2>5 DEF ContinueCall, WorkerStep
<1>4. CASE ContinuePass
  <2> current \in Exec
    BY DEF PassTypeOK
  <2>1. CASE RecordFound \/ RecordAbsent
    BY <1>2, <2>1 DEF RecordFound, RecordAbsent
  <2>2. CASE ~RecordFound /\ ~RecordAbsent
    BY <1>1, <1>4, <2>2
       DEF ContinuePass, PassStep, ListPending, RecordVerdict, Reconcile, AppendToolMessage,
           FinishPass, DecideOne, Probe, environmentVars
  <2> QED
    BY <2>1, <2>2
<1>5. ASSUME NEW w \in Workers, NEW f \in Exec, StartCall(w, f)
      PROVE  Kept
  BY <1>1, <1>5 DEF StartCall, Call, environmentVars
<1>6. CASE StartPass \/ Crash \/ UNCHANGED vars
  BY <1>1, <1>6 DEF StartPass, BeginPass, BeginPassWith, Crash, vars, environmentVars
<1>7. ASSUME NEW f \in Exec, WindowPasses(f) \/ Network(f)
      PROVE  IF e \in elapsed THEN records[e] # NoRecord => records'[e] = records[e]
             ELSE WindowPasses(e)
  <2>1. CASE Network(f)
    BY <1>1, <2>1 DEF Network, environmentVars
  <2>2. CASE WindowPasses(f)
    <3>1. elapsed' = elapsed \union {f} /\ records' = records
      BY <2>2 DEF WindowPasses, journalVars
    <3> QED
      BY <2>2, <3>1
  <2> QED
    BY <1>7, <2>1, <2>2
<1> QED
  BY <1>3, <1>4, <1>5, <1>6, <1>7 DEF Next

(* An execution whose window has passed is one that was dispatched and is  *)
(* no longer under way.                                                    *)
WindowClosed == \A e \in elapsed : records[e] = "dispatched" /\ ~UnderWay(e)

(* If requests keep to their window, nothing gets under way again while    *)
(* the window counts as passed.                                            *)
LEMMA WindowStaysClosed ==
  ASSUME BoundedDelay, TypeOK, Discipline, WindowClosed, [Next]_vars
  PROVE  WindowClosed'
<1> SUFFICES ASSUME NEW e \in elapsed'
             PROVE  records'[e] = "dispatched" /\ ~UnderWay(e)'
  BY DEF WindowClosed
<1> e \in Exec
  BY EnvironmentStepTypes DEF EnvironmentTypeOK
<1>1. CASE e \in elapsed
  <2>1. records[e] = "dispatched" /\ ~UnderWay(e) /\ records'[e] = "dispatched"
    BY <1>1, ElapsedSteps DEF WindowClosed, NoRecord
  <2>2. ASSUME NEW w \in Workers, task'[w] = e, pc'[w] = "invoke"
        PROVE  FALSE
    BY <2>1, <2>2, RoadToInvoke DEF UnderWay
  <2> QED
    BY <2>1, <2>2, GettingUnderWay
<1>2. CASE e \notin elapsed
  <2>1. WindowPasses(e)
    BY <1>2, ElapsedSteps
  <2> QED
    BY <2>1 DEF WindowPasses, UnderWay, OnTheWire, callVars, journalVars
<1> QED
  BY <1>1, <1>2
(* The candidates a pass holds for overdue are overdue still.              *)
OverdueHolds ==
  /\ step = "list" => overdue \subseteq elapsed
  /\ step \in {"scan", "verdict"} => overdue \intersect todo \subseteq elapsed
  /\ step \in {"reconcile", "append"} => (overdue \intersect todo) \ {current} \subseteq elapsed

(* A pass that works on a candidate leaves the windows of the others.      *)
LEMMA OverdueStays ==
  ASSUME TypeOK, Discipline, OverdueHolds, [Next]_vars
  PROVE  OverdueHolds'
<1> USE DEF TypeOK, PassTypeOK, EnvironmentTypeOK, OverdueHolds
<1>1. ASSUME UNCHANGED passVars, elapsed \subseteq elapsed'
      PROVE  OverdueHolds'
  BY <1>1 DEF passVars
<1>2. ASSUME NEW w \in Workers, ContinueCall(w)
      PROVE  OverdueHolds'
  <2>1. step' = "idle"
    BY <1>2, CallersAreBusy DEF ContinueCall, passVars, Discipline, OneAtATime, AllIdle
  <2> QED
    BY <2>1
<1>3. ASSUME NEW w \in Workers, NEW e \in Exec, StartCall(w, e)
      PROVE  OverdueHolds'
  BY <1>1, <1>3 DEF StartCall, Call, environmentVars
<1>4. CASE StartPass
  BY <1>4 DEF StartPass, BeginPass, BeginPassWith, environmentVars
<1>5. CASE ContinuePass
  <2>1. ASSUME NEW e \in Exec, NEW action, step = "scan" \/ e = current, Decided(e, action),
               step # "list", step' = "scan", UNCHANGED overdue, elapsed \ {current} \subseteq elapsed',
               step = "scan" => UNCHANGED elapsed, step # "idle"
        PROVE  OverdueHolds'
    BY <2>1 DEF Decided
  <2>2. ASSUME EndPass("raised") \/ EndPass("aborted")
        PROVE  OverdueHolds'
    BY <2>2 DEF EndPass
  <2>3. CASE ListPending
    BY <2>3 DEF ListPending, environmentVars
  <2>4. ASSUME NEW e \in Exec, DecideOne(e)
        PROVE  OverdueHolds'
    <3> DEFINE action == IF snapshot[e] = NoRecord THEN "handoff"
                         ELSE Decide(snapshot[e], e \notin overdue)
    <3>1. CASE action = "mark_committed"
      BY <2>4, <3>1 DEF DecideOne, environmentVars
    <3>2. CASE action # "mark_committed"
      <4>1. /\ step = "scan" /\ step' = "scan" /\ Decided(e, action)
            /\ UNCHANGED <<overdue, elapsed>>
        BY <2>4, <3>2 DEF DecideOne, environmentVars
      <4> HIDE DEF action
      <4> QED
        BY <2>1, <4>1
    <3> QED
      BY <3>1, <3>2
  <2>5. ASSUME NEW e \in Exec, Probe(e)
        PROVE  OverdueHolds'
    BY <2>5 DEF Probe
  <2>6. CASE RecordVerdict
    <3> step = "verdict" /\ UNCHANGED overdue
      BY <2>6 DEF RecordVerdict
    <3>1. CASE RecordFound
      <4>1. elapsed' = elapsed \ {current}
        BY <3>1 DEF RecordFound, RestartWindow
      <4>2. CASE step' = "reconcile" /\ UNCHANGED <<todo, current>>
        BY <4>1, <4>2
      <4> QED
        BY <2>2, <3>1, <4>2 DEF RecordFound, MirrorFailsInPass
    <3>2. CASE RecordAbsent
      <4>1. elapsed' = elapsed \ {current}
        BY <3>2 DEF RecordAbsent, RestartWindow
      <4>2. CASE Decided(current, "replay") /\ step' = "scan"
        BY <2>1, <4>1, <4>2
      <4> QED
        BY <2>2, <3>2, <4>2 DEF RecordAbsent, MirrorFailsInPass
    <3>3. CASE Decided(current, "handoff") /\ step' = "scan" /\ UNCHANGED elapsed
      BY <2>1, <3>3
    <3> QED
      BY <2>2, <2>6, <3>1, <3>2, <3>3 DEF RecordVerdict
  <2>7. CASE Reconcile
    <3>1. CASE toolMsgs[current] > 0
      BY <2>1, <2>7, <3>1 DEF Reconcile, environmentVars
    <3>2. CASE ~(toolMsgs[current] > 0)
      BY <2>7, <3>2 DEF Reconcile, environmentVars
    <3> QED
      BY <3>1, <3>2
  <2>8. CASE AppendToolMessage
    BY <2>1, <2>2, <2>8 DEF AppendToolMessage, MirrorFailsInPass
  <2>9. CASE FinishPass
    BY <2>9 DEF FinishPass
  <2> QED
    BY <1>5, <2>3, <2>4, <2>5, <2>6, <2>7, <2>8, <2>9 DEF ContinuePass, PassStep
<1>6. ASSUME NEW e \in Exec, WindowPasses(e) \/ Network(e)
      PROVE  OverdueHolds'
  BY <1>1, <1>6 DEF WindowPasses, Network, environmentVars
<1>7. CASE Crash
  BY <1>7 DEF Crash
<1>8. CASE UNCHANGED vars
  BY <1>1, <1>8 DEF vars, environmentVars
<1> QED
  BY <1>2, <1>3, <1>4, <1>5, <1>6, <1>7, <1>8 DEF Next

(* A verdict "absent" that waits to be recorded is about a write that is   *)
(* overdue, and so not under way, and not in the target's log.             *)
AbsenceHolds == step = "verdict" /\ verdict = "absent" => current \notin actionLog

(* Nothing makes it wrong in between: the write is not under way, and no   *)
(* other request touches its log entry.                                    *)
LEMMA AbsenceStays ==
  ASSUME TypeOK, Discipline, WindowClosed, OverdueHolds, AbsenceHolds, [Next]_vars
  PROVE  AbsenceHolds'
<1> SUFFICES ASSUME step' = "verdict", verdict' = "absent"
             PROVE  current' \notin actionLog'
  BY DEF AbsenceHolds
<1> USE DEF TypeOK, PassTypeOK
<1>1. ASSUME step = "verdict", current' = current, verdict' = verdict
      PROVE  current' \notin actionLog'
  <2>1. current \in elapsed /\ AllIdle
    BY <1>1 DEF Discipline, SnapshotHolds, Verifiable, OverdueHolds, OneAtATime
  <2>2. ~(late[current] > 0) /\ \A w \in Workers : w \notin OnTheWire(task[w])
    BY <2>1 DEF WindowClosed, UnderWay, AllIdle, OnTheWire
  <2>3. ASSUME NEW e \in Exec, e # current, Apply(e)
        PROVE  current \notin actionLog'
    BY <1>1, <2>3 DEF Apply, targetVars, AbsenceHolds
  <2> QED
    BY <1>1, <2>2, <2>3, OnlyRequestsChangeTarget DEF targetVars, AbsenceHolds
<1>2. ASSUME NEW w \in Workers, ContinueCall(w) \/ \E e \in Exec : StartCall(w, e)
      PROVE  step = "verdict" /\ current' = current /\ verdict' = verdict
  BY <1>2 DEF ContinueCall, StartCall, passVars
<1>3. ~StartPass /\ ~Crash
  BY DEF StartPass, BeginPass, BeginPassWith, Crash
<1>4. CASE ContinuePass
  <2>1. ASSUME NEW e \in Exec, Probe(e)
        PROVE  current' \notin actionLog'
    BY <2>1 DEF Probe, Found, targetVars
  <2>2. ASSUME NEW e \in Exec, DecideOne(e)
        PROVE  FALSE
    <3>1. step = "scan" /\ (step' = "reconcile" \/ step' = step)
      BY <2>2 DEF DecideOne
    <3> QED
      BY <3>1
  <2>3. ~ListPending /\ ~Reconcile /\ ~FinishPass
    BY DEF ListPending, Reconcile, FinishPass
  <2>4. ~RecordVerdict /\ ~AppendToolMessage
    BY DEF RecordVerdict, RecordFound, RecordAbsent, AppendToolMessage, MirrorFailsInPass,
           EndPass
  <2> QED
    BY <1>4, <2>1, <2>2, <2>3, <2>4 DEF ContinuePass, PassStep
<1>5. ASSUME NEW e \in Exec, WindowPasses(e) \/ Network(e)
      PROVE  step = "verdict" /\ current' = current /\ verdict' = verdict
  BY <1>5 DEF WindowPasses, Network, passVars
<1>6. CASE UNCHANGED vars
  BY <1>1, <1>6 DEF vars, passVars
<1> QED
  BY <1>1, <1>2, <1>3, <1>4, <1>5, <1>6 DEF Next
-----------------------------------------------------------------------------
(* One effect for each permission                                          *)

(* How often an execution has taken effect or may still do so through what *)
(* is travelling: with one writer at most one thread waits for it.         *)
Load(e) == commits[e] + late[e] + IF OnTheWire(e) = {} THEN 0 ELSE 1

(* Nothing but sending adds to the load: a request that arrives, is lost,  *)
(* or outlives its caller takes its place.                                 *)
LEMMA LoadSteps ==
  ASSUME TypeOK, Discipline, [Next]_vars, NEW e \in Exec
  PROVE  \/ Load(e)' <= Load(e)
         \/ /\ \E w \in Workers : Invoke(w) /\ task[w] = e
            /\ Load(e)' <= Load(e) + 1
<1> USE DEF TypeOK, CallTypeOK, TargetTypeOK
<1> /\ late[e] \in Nat /\ late'[e] \in Nat
    /\ commits[e] \in Nat /\ commits'[e] \in Nat
  BY TargetStepTypes
<1>1. ASSUME NEW f \in Exec, Apply(f)
      PROVE  IF f = e THEN commits'[e] <= commits[e] + 1 ELSE commits'[e] = commits[e]
  BY <1>1 DEF Apply, targetVars
<1>2. ASSUME commits'[e] + late'[e] <= commits[e] + late[e],
             ~\E w \in Workers : Invoke(w) /\ task[w] = e
      PROVE  Load(e)' <= Load(e)
  <2>1. OnTheWire(e)' \subseteq OnTheWire(e)
    BY <1>2, WireSteps DEF OnTheWire
  <2> QED
    BY <1>2, <2>1 DEF Load
<1>3. ASSUME OnTheWire(e) # {}, OnTheWire(e)' = {},
             commits'[e] + late'[e] <= commits[e] + late[e] + 1
      PROVE  Load(e)' <= Load(e)
  BY <1>3 DEF Load
<1>4. ASSUME NEW w \in Workers, ContinueCall(w)
      PROVE  \/ Load(e)' <= Load(e)
             \/ Invoke(w) /\ task[w] = e /\ Load(e)' <= Load(e) + 1
  <2>1. \A v \in Workers : v # w => v \notin OnTheWire(e) /\ ~Invoke(v)
    BY <1>4, CallersAreBusy DEF Discipline, OneAtATime, OnTheWire, Invoke
  <2>2. CASE Invoke(w)
    <3>1. commits' = commits /\ late' = late
      BY <2>2 DEF Invoke, targetVars
    <3>2. CASE task[w] = e
      BY <2>2, <3>1, <3>2 DEF Load
    <3>3. CASE task[w] # e
      BY <1>2, <2>1, <3>1, <3>3
    <3> QED
      BY <3>2, <3>3
  <2>3. CASE Arrives(w)
    <3>1. late' = late /\ Apply(task[w]) /\ w \in OnTheWire(task[w]) /\ w \notin OnTheWire(e)'
      BY <2>3 DEF Arrives, OnTheWire
    <3>2. CASE task[w] = e
      <4>1. OnTheWire(e)' = {}
        BY <2>1, <3>1, WireSteps DEF OnTheWire
      <4> QED
        BY <1>1, <1>3, <3>1, <3>2, <4>1
    <3>3. CASE task[w] # e
      BY <1>1, <1>2, <2>1, <3>1, <3>3
    <3> QED
      BY <3>2, <3>3
  <2>4. CASE AdapterErrs(w) \/ AdapterAmbiguous(w)
    <3>1. commits' = commits /\ w \notin OnTheWire(e)'
      BY <2>4 DEF AdapterErrs, AdapterAmbiguous, Goto, OnTheWire, targetVars
    <3>2. CASE late' = late
      BY <1>2, <2>1, <2>4, <3>1, <3>2 DEF AdapterErrs, AdapterAmbiguous, Invoke
    <3>3. CASE wire[w] = "out" /\ late' = [late EXCEPT ![task[w]] = @ + 1]
      <4>1. CASE task[w] = e
        <5>1. w \in OnTheWire(e)
          BY <2>4, <3>3, <4>1 DEF AdapterErrs, AdapterAmbiguous, OnTheWire
        <5>2. OnTheWire(e)' = {}
          BY <2>1, <3>1, WireSteps DEF OnTheWire
        <5> QED
          BY <1>3, <3>1, <3>3, <4>1, <5>1, <5>2
      <4>2. CASE task[w] # e
        BY <1>2, <2>1, <3>1, <3>3, <4>2
      <4> QED
        BY <4>1, <4>2
    <3> QED
      BY <2>4, <3>2, <3>3 DEF AdapterErrs, AdapterAmbiguous, Abandon
  <2>5. CASE ~Invoke(w) /\ ~Arrives(w) /\ ~AdapterErrs(w) /\ ~AdapterAmbiguous(w)
    <3>1. UNCHANGED <<targetVars, late>>
      BY <1>4, <2>5
         DEF ContinueCall, WorkerStep, Lookup, LogIntent, Reread, Dispatch, Rejected,
             AdapterReturns, RecordAcked, RecordFailed, RecordAmbiguous, Settle
    <3>2. commits' = commits /\ late' = late
      BY <3>1 DEF targetVars
    <3> QED
      BY <1>2, <2>1, <2>5, <3>2
  <2> QED
    BY <2>2, <2>3, <2>4, <2>5
<1>5. ASSUME NEW w \in Workers, NEW f \in Exec, StartCall(w, f)
      PROVE  Load(e)' <= Load(e)
  <2>1. commits' = commits /\ late' = late
    BY <1>5 DEF StartCall, Call, targetVars
  <2>2. ASSUME NEW v \in Workers, Invoke(v)
        PROVE  FALSE
    <3>1. pc'[v] = "waiting" /\ pc'[w] = "lookup" /\ pc[v] = "invoke"
      BY <1>5, <2>2 DEF StartCall, Call, Invoke
    <3> QED
      BY <1>5, <3>1 DEF StartCall, Call
  <2> QED
    BY <1>2, <2>1, <2>2
<1>6. CASE StartPass \/ ContinuePass
  <2>1. UNCHANGED <<targetVars, late, callVars>>
    BY <1>6 DEF StartPass, BeginPass, BeginPassWith, ContinuePass, PassStep, ListPending,
                RecordVerdict, Reconcile, AppendToolMessage, FinishPass, DecideOne, Probe
  <2> QED
    BY <1>2, <2>1 DEF targetVars, callVars, Invoke
<1>7. ASSUME NEW f \in Exec, WindowPasses(f)
      PROVE  Load(e)' <= Load(e)
  BY <1>2, <1>7 DEF WindowPasses, targetVars, callVars, Invoke
<1>8. ASSUME NEW f \in Exec, Network(f)
      PROVE  Load(e)' <= Load(e)
  <2>1. commits'[e] + late'[e] <= commits[e] + late[e]
    <3>1. CASE LateArrives(f)
      BY <1>1, <3>1 DEF LateArrives
    <3>2. CASE LateVanishes(f)
      BY <3>2 DEF LateVanishes, targetVars
    <3> QED
      BY <1>8, <3>1, <3>2 DEF Network
  <2>2. UNCHANGED callVars
    BY <1>8 DEF Network
  <2> QED
    BY <1>2, <2>1, <2>2 DEF callVars, Invoke
<1>9. CASE Crash
  <2>1. OnTheWire(e)' = {} /\ commits' = commits
        /\ late'[e] = late[e] + Cardinality(OnTheWire(e))
    BY <1>9 DEF Crash, OnTheWire, targetVars
  <2>2. CASE OnTheWire(e) = {}
    <3>1. Cardinality(OnTheWire(e)) = 0
      BY <2>2, FS_EmptySet
    <3> QED
      BY <2>1, <2>2, <3>1 DEF Load
  <2>3. ASSUME NEW w \in OnTheWire(e)
        PROVE  Load(e)' <= Load(e)
    <3>1. OnTheWire(e) = {w}
      BY <2>3 DEF OnTheWire, Discipline, OneAtATime
    <3>2. Cardinality(OnTheWire(e)) = 1
      BY <3>1, FS_Singleton
    <3> QED
      BY <2>1, <2>3, <3>2 DEF Load
  <2> QED
    BY <2>2, <2>3
<1>10. CASE UNCHANGED vars
  BY <1>2, <1>10 DEF vars, targetVars, callVars, Invoke
<1> QED
  BY <1>4, <1>5, <1>6, <1>7, <1>8, <1>9, <1>10 DEF Next

(* A keyed write in doubt about which nothing is known has not taken       *)
(* effect and is not travelling; one that was never sent in doubt has done *)
(* so, or may do so, once; and what took effect can be looked up.          *)
LoadInv ==
  \A e \in Keyed :
     /\ commits[e] > 0 => e \in actionLog
     /\ e \notin unproven => Load(e) = 0
     /\ e \notin resent => Load(e) <= 1

(* A request spends the permission it is sent on, and only a true verdict  *)
(* gives a new one.                                                        *)
LEMMA LoadStays ==
  ASSUME TypeOK, Discipline, WindowClosed, OverdueHolds, AbsenceHolds, LoadInv, [Next]_vars
  PROVE  LoadInv'
<1> SUFFICES ASSUME NEW e \in Keyed
             PROVE  /\ commits'[e] > 0 => e \in actionLog'
                    /\ e \notin unproven' => Load(e)' = 0
                    /\ e \notin resent' => Load(e)' <= 1
  BY DEF LoadInv
<1> e \in Exec /\ e \in Writes
  BY WritesAssumption
<1> commits[e] \in Nat /\ late[e] \in Nat /\ commits'[e] \in Nat /\ late'[e] \in Nat
  BY TargetStepTypes DEF TypeOK, TargetTypeOK
<1> Load(e) \in Nat /\ Load(e)' \in Nat
  BY DEF Load
<1>1. commits'[e] > 0 => e \in actionLog'
  <2>1. ASSUME NEW f \in Exec, Apply(f)
        PROVE  commits'[e] > 0 => e \in actionLog'
    BY <2>1 DEF Apply, targetVars, LoadInv, TypeOK, TargetTypeOK
  <2> QED
    BY <2>1, OnlyRequestsChangeTarget DEF targetVars, LoadInv, TypeOK, CallTypeOK
<1>2. ASSUME NEW w \in Workers, Invoke(w), task[w] = e
      PROVE  /\ e \in unproven'
             /\ e \notin resent' => e \notin unproven /\ e \notin resent
  BY <1>2 DEF Invoke, NoteSend
<1>3. resent \subseteq resent'
  BY HistorySteps DEF historyVars, Invoke, NoteSend, RecordAbsent, NoteAbsence
<1>4. ASSUME e \notin unproven'
      PROVE  Load(e) = 0
  <2>1. CASE e \notin unproven
    BY <2>1 DEF LoadInv
  <2>2. CASE e \in unproven
    <3>1. step = "verdict" /\ verdict = "absent" /\ current = e
      BY <1>4, <2>2, HistorySteps DEF historyVars, Invoke, NoteSend, RecordAbsent, NoteAbsence
    <3>2. e \in elapsed
      BY <3>1 DEF Discipline, SnapshotHolds, Verifiable, OverdueHolds
    <3>3. late[e] = 0 /\ OnTheWire(e) = {}
      BY <3>2 DEF WindowClosed, UnderWay, OnTheWire
    <3>4. commits[e] = 0
      BY <3>1 DEF AbsenceHolds, LoadInv
    <3> QED
      BY <3>3, <3>4 DEF Load
  <2> QED
    BY <2>1, <2>2
<1>5. e \notin unproven' => Load(e)' = 0
  BY <1>2, <1>4, LoadSteps
<1>6. e \notin resent' => Load(e)' <= 1
  <2>1. CASE Load(e)' <= Load(e)
    BY <1>3, <2>1 DEF LoadInv
  <2>2. ASSUME NEW w \in Workers, Invoke(w), task[w] = e, Load(e)' <= Load(e) + 1
        PROVE  e \notin resent' => Load(e)' <= 1
    BY <1>2, <2>2 DEF LoadInv
  <2> QED
    BY <2>1, <2>2, LoadSteps
<1> QED
  BY <1>1, <1>5, <1>6

(* With one writer per run, and requests that arrive or are lost within    *)
(* their window, a keyed write that is never sent again on the strength of *)
(* one verdict takes effect once, even at a target that does not dedupe:   *)
(* the coordinator's protocol is enough by itself, through crashes, failed *)
(* lookups and replays.                                                    *)
THEOREM OneCommitForEachVerdict ==
  ASSUME SingleWriter, BoundedDelay
  PROVE  Spec => []OneCommitPerVerdict
<1> DEFINE Inv == WindowClosed /\ OverdueHolds /\ AbsenceHolds /\ LoadInv
<1>1. Init => Inv
  <2> SUFFICES ASSUME Init
               PROVE  Inv
    OBVIOUS
  <2>1. WindowClosed /\ OverdueHolds /\ AbsenceHolds
    BY DEF Init, EnvironmentInit, PassInit, WindowClosed, OverdueHolds, AbsenceHolds
  <2>2. ASSUME NEW e \in Keyed
        PROVE  commits[e] = 0 /\ Load(e) = 0
    <3>1. commits[e] = 0 /\ late[e] = 0
      BY <2>2, WritesAssumption DEF Init, TargetInit
    <3>2. OnTheWire(e) = {}
      BY DEF Init, CallInit, OnTheWire
    <3> QED
      BY <3>1, <3>2 DEF Load
  <2> QED
    BY <2>1, <2>2 DEF LoadInv
<1>2. TypeOK /\ Discipline /\ Inv /\ [Next]_vars => Inv'
  BY WindowStaysClosed, OverdueStays, AbsenceStays, LoadStays
<1>3. TypeOK /\ LoadInv => OneCommitPerVerdict
  <2> SUFFICES ASSUME TypeOK, LoadInv, NEW e \in Keyed, e \notin resent
               PROVE  commits[e] <= 1
    BY DEF OneCommitPerVerdict
  <2>1. commits[e] \in Nat /\ late[e] \in Nat /\ Load(e) <= 1
    BY WritesAssumption DEF TypeOK, TargetTypeOK, LoadInv
  <2> QED
    BY <2>1 DEF Load
<1> QED
  BY <1>1, <1>2, <1>3, TypeCorrect, DisciplineHolds, PTL DEF Spec
-----------------------------------------------------------------------------
(* The run under an agent                                                  *)

(* What an agent does to a run besides its steps: a commit of its own      *)
(* fails, a pass begins at a time it chooses, the process dies in between. *)
Interlude ==
  /\ AllIdle /\ step = "idle"
  /\ UNCHANGED <<journalVars, targetVars, late, elapsed, historyVars, callVars, toolMsgs>>
  /\ \/ UNCHANGED passVars /\ faults' \in 0 .. MaxFaults /\ crashes' \in 0 .. MaxCrashes
     \/ \E timedOut \in SUBSET Exec : BeginPassWith(timedOut) /\ UNCHANGED crashes

(* An interlude keeps the types and everything a call, a pass or the       *)
(* target's evidence relies on.                                            *)
LEMMA InterludeKeeps ==
  ASSUME TypeOK, Interlude
  PROVE  /\ TypeOK'
         /\ UNCHANGED <<journalVars, callVars>>
         /\ Discipline => Discipline'
         /\ EvidenceInv /\ CommittedIsReal => EvidenceInv' /\ CommittedIsReal'
         /\ RefireInv => RefireInv'
         /\ ReconcileInv => ReconcileInv'
<1> USE DEF TypeOK, Interlude
<1>1. TypeOK'
  <2>1. JournalTypeOK' /\ TargetTypeOK' /\ CallTypeOK'
    BY DEF journalVars, JournalTypeOK, targetVars, TargetTypeOK, callVars, CallTypeOK
  <2>2. CASE UNCHANGED passVars /\ faults' \in 0 .. MaxFaults /\ crashes' \in 0 .. MaxCrashes
    BY <2>1, <2>2 DEF passVars, PassTypeOK, EnvironmentTypeOK, historyVars
  <2>3. ASSUME NEW timedOut \in SUBSET Exec, BeginPassWith(timedOut), UNCHANGED crashes
        PROVE  TypeOK'
    BY <2>1, <2>3 DEF BeginPassWith, PassTypeOK, EnvironmentTypeOK, environmentVars, historyVars,
                      JournalTypeOK, NoDecisions
  <2> QED
    BY <2>2, <2>3
<1>2. /\ step' \in {"idle", "list"}
      /\ step' = "list" => snapshot' = records
      /\ outcome' = outcome \/ outcome' = "none"
  BY DEF passVars, BeginPassWith
<1>3. Discipline => Discipline'
  <2> SUFFICES ASSUME Discipline
               PROVE  Discipline'
    OBVIOUS
  <2>1. OneAtATime' /\ \A w \in Workers : CallKnows(w)'
    BY DEF callVars, journalVars, AllIdle, OneAtATime, Discipline, CallKnows, Sending
  <2>2. SnapshotHolds'
    BY <1>2 DEF SnapshotHolds, journalVars
  <2>3. PendingIffUnsettled' /\ NoIllegalMove'
    BY <1>2 DEF Discipline, PendingIffUnsettled, NoIllegalMove, journalVars, callVars
  <2> QED
    BY <2>1, <2>2, <2>3 DEF Discipline
<1>4. EvidenceInv /\ CommittedIsReal => EvidenceInv' /\ CommittedIsReal'
  BY <1>2 DEF EvidenceInv, CommittedIsReal, Found, targetVars, callVars, journalVars
<1>5. RefireInv => RefireInv'
  BY DEF RefireInv, MaySend, journalVars, callVars, historyVars
<1>6. ReconcileInv => ReconcileInv'
  <2>1. CASE UNCHANGED <<passVars, toolMsgs>>
    BY <2>1 DEF passVars, ReconcileInv, ReconciledOnce
  <2>2. CASE UNCHANGED toolMsgs /\ step' = "list" /\ decision' = NoDecisions
    BY <2>2 DEF ReconcileInv, ReconciledOnce, NoDecisions
  <2> QED
    BY <2>1, <2>2 DEF BeginPassWith
<1> QED
  BY <1>1, <1>3, <1>4, <1>5, <1>6

(* What holds of a run with one writer.                                    *)
RunInv == TypeOK /\ AuditClean /\ Discipline /\ RefireInv /\ ReconcileInv

(* No step of a run and no interlude breaks it, as long as they stay one   *)
(* at a time.                                                              *)
LEMMA RunInvStays ==
  ASSUME RunInv, [Next]_vars \/ Interlude, OneAtATime'
  PROVE  RunInv'
<1> USE DEF RunInv
<1>1. CASE [Next]_vars
  <2>1. TypeOK'
    BY <1>1, SystemStepTypes
  <2>2. AuditClean'
    BY <1>1, SystemJournalStep, AuditStaysClean DEF TypeOK
  <2>3. Discipline'
    BY <1>1, DisciplineStays
  <2>4. RefireInv' /\ ReconcileInv'
    BY <1>1, RefireStays, ReconciledStays
  <2> QED
    BY <2>1, <2>2, <2>3, <2>4
<1>2. CASE Interlude
  <2>1. AuditClean'
    BY <1>2, InterludeKeeps DEF journalVars, AuditClean
  <2> QED
    BY <1>2, <2>1, InterludeKeeps
<1> QED
  BY <1>1, <1>2

(* And it holds at the start.                                              *)
LEMMA RunInvAtTheStart == Init => RunInv
BY InitialTypes, DisciplineAtTheStart, RefireAtTheStart, ReconciledAtTheStart
   DEF RunInv, Init, JournalInit, AuditClean

(* What the target's guarantees rest on, whoever drives the run.           *)
EffectsInv == EffectInv /\ SendInv /\ SuccessIsDurable

(* No step of a run breaks it, nor does what an agent does in between: an  *)
(* interlude sends nothing, answers nothing and records nothing.           *)
LEMMA EffectsStay ==
  ASSUME TypeOK, EffectsInv, [Next]_vars \/ Interlude
  PROVE  EffectsInv'
<1>1. CASE [Next]_vars
  BY <1>1, EffectStays, SendingStaysLogged, SuccessStaysDurable DEF EffectsInv
<1>2. CASE Interlude
  BY <1>2
     DEF Interlude, EffectsInv, EffectInv, SendInv, Logged, SuccessIsDurable,
         journalVars, targetVars, callVars
<1> QED
  BY <1>1, <1>2

(* It holds at the start.                                                  *)
LEMMA EffectsAtTheStart == Init => EffectsInv
BY EffectAtTheStart, SendingAtTheStart, SuccessAtTheStart DEF EffectsInv

(* And it gives the guarantees.                                            *)
LEMMA EffectsMean ==
  EffectsInv => ExactlyOnceEffect /\ LogBeforeSend /\ SuccessIsDurable
BY SendersLogFirst DEF EffectsInv, EffectInv, ExactlyOnceEffect

(* So does the evidence that a committed record rests on, if no two writes *)
(* store the same value.                                                   *)
LEMMA EvidenceStaysInTheRun ==
  ASSUME DistinctWrites, TypeOK, EvidenceInv, CommittedIsReal, [Next]_vars \/ Interlude
  PROVE  EvidenceInv' /\ CommittedIsReal'
BY EvidenceStays, InterludeKeeps

(* A success that is reported of a write has then happened: its record is  *)
(* committed, and what is recorded as committed has taken effect.          *)
LEMMA SuccessHasHappened ==
  ASSUME TypeOK, SuccessIsDurable, CommittedIsReal,
         NEW w \in Workers, task[w] \in Writes, reply[w] \in Success
  PROVE  commits[task[w]] > 0
BY DEF SuccessIsDurable, CommittedIsReal, Success

(* Thread and task over a step of the run that is not a call's beginning.  *)
LEMMA CallStaysOnTask ==
  ASSUME TypeOK, AuditClean, Discipline, NEW w \in Workers, ContinueCall(w) \/ ContinuePass
  PROVE  task'[w] = task[w]
<1>1. CASE ContinueCall(w)
  BY <1>1, CallStepKeepsRecord DEF Discipline, NoIllegalMove
<1>2. CASE ContinuePass
  BY <1>2 DEF ContinuePass, callVars
<1> QED
  BY <1>1, <1>2

(* A record, once there, stays; and it comes from a call under way.        *)
LEMMA RecordsComeFromCalls ==
  ASSUME RunInv, [Next]_vars \/ Interlude, NEW e \in Exec
  PROVE  /\ records[e] # NoRecord => records'[e] # NoRecord
         /\ records[e] = NoRecord /\ records'[e] # NoRecord =>
              \E w \in Workers : ContinueCall(w) /\ pc[w] # "idle" /\ task[w] = e
<1> USE DEF RunInv
<1>1. ASSUME UNCHANGED journalVars
      PROVE  records'[e] = records[e]
  BY <1>1 DEF journalVars
<1>2. records[e] # NoRecord => records'[e] # NoRecord
  <2>1. CASE [Next]_vars
    <3>1. [JournalNext]_journalVars
      BY <2>1, SystemJournalStep
    <3> QED
      BY <3>1
         DEF JournalNext, ForgetPending, RecordToolIntent, RecordToolDispatch, RecordToolResult,
             journalVars, TypeOK, JournalTypeOK, Parked, Terminal, NoRecord
  <2>2. CASE Interlude
    BY <1>1, <2>2 DEF Interlude
  <2> QED
    BY <2>1, <2>2
<1>3. ASSUME NEW w \in Workers, ContinueCall(w), records'[e] # records[e]
      PROVE  pc[w] # "idle" /\ task[w] = e
  BY <1>3, CallersAreBusy, CallStepKeepsRecord DEF Discipline, NoIllegalMove
<1>4. ASSUME ContinuePass, records[e] = NoRecord
      PROVE  records'[e] = NoRecord
  <2>1. ASSUME step = "verdict"
        PROVE  current # e /\ current \in Exec
    BY <1>4, <2>1 DEF Discipline, SnapshotHolds, Verifiable, NoRecord, TypeOK, PassTypeOK
  <2> QED
    BY <1>1, <1>4, <2>1
       DEF ContinuePass, PassStep, ListPending, RecordVerdict, Reconcile, AppendToolMessage,
           FinishPass, DecideOne, Probe, RecordFound, RecordAbsent, RecordToolResult,
           TypeOK, JournalTypeOK
<1>5. CASE UNCHANGED journalVars
  BY <1>1, <1>5
<1> QED
  BY <1>2, <1>3, <1>4, <1>5
     DEF Interlude, Next, StartCall, Call, StartPass, BeginPass, BeginPassWith, WindowPasses,
         Network, Crash, vars
-----------------------------------------------------------------------------
(* Without a verifier                                                      *)

(* The steps of a call between reading that there is no record and sending *)
(* the request.                                                            *)
OnTheWayOut == {"intent", "reread", "dispatch", "invoke"}

(* Nothing is ever found absent, so nothing is permitted a second time: an *)
(* execution once sent has a record that answers every later call, and     *)
(* only one request for it has been on its way.                            *)
SentInv ==
  /\ foundAbsent = {} /\ resent = {}
  /\ \A e \in Exec : /\ records[e] # "verified_not_found"
                     /\ e \in unproven => records[e] # NoRecord
                     /\ e \notin unproven => Load(e) = 0
                     /\ Load(e) <= 1
  /\ \A w \in Workers : pc[w] \in OnTheWayOut => task[w] \notin unproven

(* A call is on its way to the target by its own steps, from a lookup that *)
(* found no record.                                                        *)
LEMMA RoadOut ==
  ASSUME TypeOK, Discipline, SentInv, [Next]_vars, NEW w \in Workers, pc'[w] \in OnTheWayOut
  PROVE  /\ task'[w] = task[w]
         /\ \A v \in Workers : ~Invoke(v)
         /\ \/ pc[w] \in OnTheWayOut
            \/ records[task[w]] = NoRecord
<1> USE DEF TypeOK, CallTypeOK
<1>1. ASSUME NEW answer, Return(w, answer)
      PROVE  FALSE
  BY <1>1 DEF Return, OnTheWayOut
<1>2. ASSUME NEW v \in Workers, ContinueCall(v)
      PROVE  v = w
  <2>1. pc[v] # "idle"
    BY <1>2, CallersAreBusy
  <2>2. v # w => pc'[w] = "idle"
    BY <1>2, <2>1, OtherThreadsStay DEF Discipline, OneAtATime
  <2> QED
    BY <2>2 DEF OnTheWayOut
<1>3. ASSUME ContinueCall(w)
      PROVE  /\ task'[w] = task[w] /\ ~Invoke(w)
             /\ \/ pc[w] \in OnTheWayOut
                \/ records[task[w]] = NoRecord
  <2> records[task[w]] # "verified_not_found"
    BY DEF SentInv
  <2>1. CASE Lookup(w)
    <3>1. CASE records[task[w]] = NoRecord
      BY <2>1, <3>1 DEF Lookup, Goto, NoRecord, Invoke
    <3>2. CASE records[task[w]] # NoRecord
      BY <1>1, <2>1, <3>2 DEF Lookup
    <3> QED
      BY <3>1, <3>2
  <2>2. CASE Reread(w) \/ Dispatch(w)
    BY <1>1, <2>2 DEF Reread, Dispatch, Goto, MirrorFails, Discipline, CallKnows, NoRecord,
                      Invoke, OnTheWayOut
  <2>3. CASE LogIntent(w)
    BY <1>1, <2>3 DEF LogIntent, Goto, MirrorFails, Invoke, OnTheWayOut
  <2>4. ~Invoke(w) /\ ~Arrives(w) /\ ~Rejected(w)
    BY DEF Invoke, Arrives, Rejected, OnTheWayOut
  <2>5. ~AdapterReturns(w) /\ ~AdapterErrs(w) /\ ~AdapterAmbiguous(w)
    BY DEF AdapterReturns, AdapterErrs, AdapterAmbiguous, Goto, OnTheWayOut
  <2>6. ~RecordAcked(w) /\ ~RecordFailed(w) /\ ~RecordAmbiguous(w)
    BY <1>1 DEF RecordAcked, RecordFailed, RecordAmbiguous, Settle, MirrorFails
  <2> QED
    BY <1>3, <2>1, <2>2, <2>3, <2>4, <2>5, <2>6 DEF ContinueCall, WorkerStep
<1>4. ASSUME ~ContinueCall(w)
      PROVE  /\ pc[w] \in OnTheWayOut /\ task'[w] = task[w]
             /\ \A v \in Workers : Invoke(v) => v = w
  <2>1. ASSUME NEW v \in Workers, NEW e \in Exec, StartCall(v, e)
        PROVE  /\ pc[w] \in OnTheWayOut /\ task'[w] = task[w]
               /\ \A u \in Workers : ~Invoke(u)
    <3>1. pc[v] = "idle" /\ pc' = [pc EXCEPT ![v] = "lookup"]
          /\ task' = [task EXCEPT ![v] = e]
      BY <2>1 DEF StartCall, Call
    <3>2. v # w
      BY <3>1 DEF OnTheWayOut
    <3>3. ASSUME NEW u \in Workers, Invoke(u)
          PROVE  FALSE
      <4>1. pc[u] = "invoke" /\ pc'[u] = "waiting"
        BY <3>3 DEF Invoke
      <4> QED
        BY <3>1, <4>1
    <3> QED
      BY <3>1, <3>2, <3>3
  <2>2. CASE StartPass \/ ContinuePass \/ UNCHANGED vars
    BY <2>2 DEF StartPass, ContinuePass, vars, callVars, Invoke
  <2>3. ASSUME NEW e \in Exec, WindowPasses(e) \/ Network(e)
        PROVE  /\ pc[w] \in OnTheWayOut /\ task'[w] = task[w]
               /\ \A v \in Workers : ~Invoke(v)
    BY <2>3 DEF WindowPasses, Network, callVars, Invoke
  <2>4. ~Crash
    BY DEF Crash, OnTheWayOut
  <2> QED
    BY <1>2, <1>4, <2>1, <2>2, <2>3, <2>4 DEF Next
<1>5. ASSUME NEW v \in Workers, Invoke(v)
      PROVE  FALSE
  <2>1. pc[v] = "invoke" /\ pc' = [pc EXCEPT ![v] = "waiting"]
    BY <1>5 DEF Invoke
  <2>2. v # w
    BY <2>1 DEF OnTheWayOut
  <2>3. pc[w] # "idle"
    BY <2>1, <2>2 DEF OnTheWayOut
  <2> QED
    BY <2>1, <2>2, <2>3 DEF Discipline, OneAtATime
<1> QED
  BY <1>3, <1>4, <1>5

(* Without a verifier no step of the run, and no interlude, permits or     *)
(* makes a second request.                                                 *)
LEMMA SentStays ==
  ASSUME ~HasVerifier, RunInv, SentInv, [Next]_vars \/ Interlude
  PROVE  SentInv'
<1> USE DEF RunInv
<1>1. CASE Interlude
  BY <1>1 DEF Interlude, SentInv, Load, OnTheWire, journalVars, targetVars, callVars,
              historyVars
<1>2. CASE [Next]_vars
  <2>1. step # "verdict"
    BY DEF Discipline, SnapshotHolds, Verifiable
  <2>2. UNCHANGED historyVars \/ \E w \in Workers : Invoke(w)
    BY <1>2, <2>1, HistorySteps
  <2>3. ASSUME NEW w \in Workers, Invoke(w)
        PROVE  /\ task[w] \notin unproven /\ unproven' = unproven \union {task[w]}
               /\ UNCHANGED <<resent, foundAbsent, records>>
               /\ records[task[w]] # NoRecord
    <3>1. pc[w] = "invoke" /\ task[w] \notin unproven
      BY <2>3 DEF Invoke, SentInv, OnTheWayOut
    <3>2. records[task[w]] # NoRecord
      BY <3>1 DEF Discipline, CallKnows, Sending, NoRecord
    <3> QED
      BY <2>3, <3>1, <3>2 DEF Invoke, NoteSend, journalVars
  <2>4. foundAbsent' = {} /\ resent' = {} /\ unproven \subseteq unproven'
    BY <2>2, <2>3 DEF historyVars, SentInv
  <2>5. ASSUME NEW e \in Exec
        PROVE  records'[e] # "verified_not_found"
    <3>1. ~RecordAbsent
      BY <2>4 DEF RecordAbsent, NoteAbsence
    <3> QED
      BY <1>2, <3>1, AbsenceComesFromVerdict DEF SentInv
  <2>6. ASSUME NEW e \in Exec, e \in unproven'
        PROVE  records'[e] # NoRecord
    <3>1. records[e] # NoRecord
      BY <2>2, <2>3, <2>6 DEF historyVars, SentInv
    <3> QED
      BY <1>2, <3>1, RecordsComeFromCalls
  <2>7. ASSUME NEW e \in Exec
        PROVE  /\ e \notin unproven' => Load(e)' = 0
               /\ Load(e)' <= 1
    <3>1. commits'[e] \in Nat /\ late'[e] \in Nat /\ commits[e] \in Nat /\ late[e] \in Nat
      BY <1>2, TargetStepTypes DEF TypeOK, TargetTypeOK
    <3>2. Load(e) \in Nat /\ Load(e)' \in Nat
      BY <3>1 DEF Load
    <3>3. CASE Load(e)' <= Load(e)
      BY <2>4, <3>2, <3>3 DEF SentInv
    <3>4. ASSUME NEW w \in Workers, Invoke(w), task[w] = e, Load(e)' <= Load(e) + 1
          PROVE  e \in unproven' /\ Load(e)' <= 1
      <4>1. Load(e) = 0 /\ e \in unproven'
        BY <2>3, <3>4 DEF SentInv
      <4> QED
        BY <3>2, <3>4, <4>1
    <3> QED
      BY <1>2, <3>3, <3>4, LoadSteps
  <2>8. ASSUME NEW w \in Workers, pc'[w] \in OnTheWayOut
        PROVE  task'[w] \notin unproven'
    <3>1. /\ task'[w] = task[w] /\ task[w] \in Exec
          /\ \A v \in Workers : ~Invoke(v)
          /\ pc[w] \in OnTheWayOut \/ records[task[w]] = NoRecord
      BY <1>2, <2>8, RoadOut DEF TypeOK, CallTypeOK
    <3> QED
      BY <2>2, <3>1 DEF historyVars, SentInv
  <2> QED
    BY <2>4, <2>5, <2>6, <2>7, <2>8 DEF SentInv
<1> QED
  BY <1>1, <1>2

(* Nothing has been sent at the start.                                     *)
LEMMA SentAtTheStart == Init => SentInv
<1> SUFFICES ASSUME Init
             PROVE  SentInv
  OBVIOUS
<1>1. ASSUME NEW e \in Exec
      PROVE  Load(e) = 0 /\ records[e] = NoRecord
  <2>1. commits[e] = 0 /\ late[e] = 0 /\ records[e] = NoRecord
    BY DEF Init, TargetInit, JournalInit
  <2>2. OnTheWire(e) = {}
    BY DEF Init, CallInit, OnTheWire
  <2> QED
    BY <2>1, <2>2 DEF Load
<1> QED
  BY <1>1 DEF Init, EnvironmentInit, CallInit, SentInv, OnTheWayOut, NoRecord

(* What it says of the target.                                             *)
LEMMA SentMeansOnce ==
  ASSUME TypeOK, SentInv
  PROVE  resent = {} /\ \A e \in Writes : commits[e] <= 1
<1> SUFFICES ASSUME NEW e \in Writes
             PROVE  commits[e] <= 1
  BY DEF SentInv
<1>1. commits[e] \in Nat /\ late[e] \in Nat /\ Load(e) <= 1
  BY WritesAssumption DEF TypeOK, TargetTypeOK, SentInv
<1> QED
  BY <1>1 DEF Load

(* With one writer per run and no verifier, no execution is sent twice,    *)
(* and none takes effect twice, whatever the target does with duplicates:  *)
(* replay is the only way to a second request, and a verdict is the only   *)
(* way to a replay.                                                        *)
THEOREM NoVerifierNoSecondRequest ==
  ASSUME SingleWriter, ~HasVerifier
  PROVE  Spec => [](OneReplayPerVerdict /\ \A e \in Writes : commits[e] <= 1)
<1>1. RunInv /\ SentInv /\ [Next]_vars => RunInv' /\ SentInv'
  BY OneAtATimeStays, RunInvStays, SentStays DEF RunInv, Discipline
<1>2. Init => RunInv /\ SentInv
  BY RunInvAtTheStart, SentAtTheStart
<1>3. RunInv /\ SentInv => OneReplayPerVerdict /\ \A e \in Writes : commits[e] <= 1
  BY SentMeansOnce DEF RunInv, OneReplayPerVerdict
<1> QED
  BY <1>1, <1>2, <1>3, PTL DEF Spec
=============================================================================
