------------------------- MODULE AgentSystemProofs -------------------------
(***************************************************************************)
(* What holds of a RAEF run for any number of executions, threads, faults  *)
(* and crashes.  Every step of the system is a step of the journal or      *)
(* leaves the journal alone; the journal's guarantees follow, and with     *)
(* them log-before-send and the durability of reported success.  Recovery  *)
(* tells the truth: what is recorded as committed has taken effect at the  *)
(* target, and what a pass reports as committed it has copied into the     *)
(* context exactly once.                                                   *)
(***************************************************************************)
EXTENDS AgentSystem, FiniteSetTheorems, TLAPS

-----------------------------------------------------------------------------
(* The journal alone: its types, the operator's audit, and the records     *)
(* that stay committed                                                     *)

(* A record that has been settled by acknowledgement or verification may   *)
(* only move to a settled status: the transition table leaves no way back. *)
LEMMA CommittedMovesStayCommitted ==
  ASSUME NEW s \in Committed, NEW t \in Statuses, MayMove(s, t)
  PROVE  t \in Committed
BY DEF Committed, Statuses, MayMove, AllowedNext

(* Every journal step keeps the types of the journal's variables.          *)
LEMMA JournalStepTypes ==
  ASSUME JournalTypeOK, [JournalNext]_journalVars
  PROVE  JournalTypeOK'
<1>1. CASE ForgetPending
  BY <1>1 DEF ForgetPending, JournalTypeOK
<1>2. ASSUME NEW e \in Exec, RecordToolIntent(e)
      PROVE  JournalTypeOK'
  BY <1>2 DEF RecordToolIntent, JournalTypeOK, journalVars, Statuses
<1>3. ASSUME NEW e \in Exec, RecordToolDispatch(e)
      PROVE  JournalTypeOK'
  BY <1>3 DEF RecordToolDispatch, JournalTypeOK, Statuses
<1>4. ASSUME NEW e \in Exec, NEW s \in Parked \union Terminal, NEW clear \in BOOLEAN,
             RecordToolResult(e, s, clear)
      PROVE  JournalTypeOK'
  BY <1>4 DEF RecordToolResult, JournalTypeOK, Parked, Terminal, Statuses
<1>5. CASE UNCHANGED journalVars
  BY <1>5 DEF journalVars, JournalTypeOK
<1> QED
  BY <1>1, <1>2, <1>3, <1>4, <1>5 DEF JournalNext

(* The journal's variables keep their types.                               *)
THEOREM JournalTypeCorrect == JournalSpec => []JournalTypeOK
<1>1. JournalInit => JournalTypeOK
  BY DEF JournalInit, JournalTypeOK, NoRecord
<1> QED
  BY <1>1, JournalStepTypes, PTL DEF JournalSpec

(* A journal step leaves the audit clean.                                  *)
LEMMA AuditStaysClean ==
  ASSUME JournalTypeOK, AuditClean, [JournalNext]_journalVars
  PROVE  AuditClean'
<1> USE DEF JournalTypeOK, AuditClean
<1>1. CASE ForgetPending
  BY <1>1 DEF ForgetPending
<1>2. ASSUME NEW e \in Exec, RecordToolIntent(e)
      PROVE  AuditClean'
  BY <1>2 DEF RecordToolIntent, IntentExists, journalVars, Unsettled, NoRecord
<1>3. ASSUME NEW e \in Exec, RecordToolDispatch(e)
      PROVE  AuditClean'
  BY <1>3 DEF RecordToolDispatch, Unsettled, NoRecord
<1>4. ASSUME NEW e \in Exec, NEW s \in Parked, RecordToolResult(e, s, FALSE)
      PROVE  AuditClean'
  BY <1>4 DEF RecordToolResult, Parked, Unsettled, NoRecord
<1>5. ASSUME NEW e \in Exec, NEW s \in Terminal, RecordToolResult(e, s, TRUE)
      PROVE  AuditClean'
  BY <1>5 DEF RecordToolResult, Terminal, Unsettled, NoRecord
<1>6. CASE UNCHANGED journalVars
  BY <1>6 DEF journalVars
<1> QED
  BY <1>1, <1>2, <1>3, <1>4, <1>5, <1>6 DEF JournalNext

(* The operator's audit never finds a pending execution whose record is    *)
(* settled or missing, nor an intent without a record.                     *)
THEOREM JournalAuditClean == JournalSpec => []AuditClean
<1>1. JournalInit => AuditClean
  BY DEF JournalInit, AuditClean
<1> QED
  BY <1>1, AuditStaysClean, JournalTypeCorrect, PTL DEF JournalSpec

(* A journal step leaves a committed record committed.                     *)
LEMMA CommittedStaysOverJournalStep ==
  ASSUME JournalTypeOK, [JournalNext]_journalVars,
         NEW e \in Exec, records[e] \in Committed
  PROVE  records'[e] \in Committed
<1> USE DEF JournalTypeOK
<1>1. CASE ForgetPending
  BY <1>1 DEF ForgetPending
<1>2. ASSUME NEW f \in Exec, RecordToolIntent(f)
      PROVE  records'[e] \in Committed
  BY <1>2 DEF RecordToolIntent, IntentExists, journalVars, Committed, NoRecord
<1>3. ASSUME NEW f \in Exec, RecordToolDispatch(f)
      PROVE  records'[e] \in Committed
  BY <1>3, CommittedMovesStayCommitted DEF RecordToolDispatch, CanDispatch, Statuses
<1>4. ASSUME NEW f \in Exec, NEW s \in Parked \union Terminal, NEW clear \in BOOLEAN,
             RecordToolResult(f, s, clear)
      PROVE  records'[e] \in Committed
  <2>1. f = e => MayMove(records[e], s)
    BY <1>4 DEF RecordToolResult, CanRecord, Committed, NoRecord
  <2>2. s \in Statuses
    BY DEF Parked, Terminal, Statuses
  <2> QED
    BY <1>4, <2>1, <2>2, CommittedMovesStayCommitted DEF RecordToolResult
<1>5. CASE UNCHANGED journalVars
  BY <1>5 DEF journalVars
<1> QED
  BY <1>1, <1>2, <1>3, <1>4, <1>5 DEF JournalNext

(* A committed record stays committed: replay always finds its result.     *)
THEOREM JournalCommittedStays == JournalSpec => CommittedStays
<1>1. JournalTypeOK /\ [JournalNext]_journalVars
        => [\A e \in Exec : records[e] \in Committed => records'[e] \in Committed]_records
  BY CommittedStaysOverJournalStep
<1> QED
  BY <1>1, JournalTypeCorrect, PTL DEF JournalSpec, CommittedStays

-----------------------------------------------------------------------------
(* Every step is a journal step                                            *)

(* A thread's step touches the journal only through the facade.            *)
LEMMA WorkerJournalStep ==
  ASSUME TypeOK, NEW w \in Workers, WorkerStep(w)
  PROVE  [JournalNext]_journalVars
<1> task[w] \in Exec
  BY DEF TypeOK, CallTypeOK
<1>1. ASSUME NEW s \in Parked, NEW answer, Settle(w, s, FALSE, answer)
      PROVE  [JournalNext]_journalVars
  BY <1>1 DEF Settle, JournalNext
<1>2. ASSUME NEW s \in Terminal, NEW answer, Settle(w, s, TRUE, answer)
      PROVE  [JournalNext]_journalVars
  BY <1>2 DEF Settle, JournalNext
<1>3. CASE Lookup(w)
  BY <1>3 DEF Lookup
<1>4. CASE LogIntent(w)
  BY <1>4 DEF LogIntent, JournalNext
<1>5. CASE Reread(w)
  BY <1>5 DEF Reread
<1>6. CASE Dispatch(w)
  BY <1>6 DEF Dispatch, JournalNext
<1>7. CASE Invoke(w)
  BY <1>7 DEF Invoke
<1>8. CASE Arrives(w)
  BY <1>8 DEF Arrives
<1>9. CASE Rejected(w)
  BY <1>9 DEF Rejected
<1>10. CASE AdapterReturns(w) \/ AdapterErrs(w) \/ AdapterAmbiguous(w)
  BY <1>10 DEF AdapterReturns, AdapterErrs, AdapterAmbiguous
<1>11. CASE RecordAcked(w)
  BY <1>11, <1>2 DEF RecordAcked, Terminal
<1>12. CASE RecordFailed(w)
  BY <1>12, <1>2 DEF RecordFailed, Terminal
<1>13. CASE RecordAmbiguous(w)
  BY <1>13, <1>1, <1>2 DEF RecordAmbiguous, Parked, Terminal
<1> QED
  BY <1>3, <1>4, <1>5, <1>6, <1>7, <1>8, <1>9, <1>10, <1>11, <1>12, <1>13 DEF WorkerStep

(* So does a step of a recovery pass.                                      *)
LEMMA PassJournalStep ==
  ASSUME TypeOK, BeginPass \/ PassStep
  PROVE  [JournalNext]_journalVars
<1> current \in Exec
  BY DEF TypeOK, PassTypeOK
<1>1. CASE BeginPass \/ ListPending \/ Reconcile \/ AppendToolMessage \/ FinishPass
  BY <1>1 DEF BeginPass, BeginPassWith, ListPending, Reconcile, AppendToolMessage, FinishPass
<1>2. ASSUME NEW e \in Exec, DecideOne(e) \/ Probe(e)
      PROVE  [JournalNext]_journalVars
  BY <1>2 DEF DecideOne, Probe
<1>3. CASE RecordVerdict
  <2>1. CASE RecordFound
    BY <2>1 DEF RecordFound, JournalNext, Terminal
  <2>2. CASE RecordAbsent
    BY <2>2 DEF RecordAbsent, JournalNext, Parked
  <2> QED
    BY <1>3, <2>1, <2>2 DEF RecordVerdict
<1> QED
  BY <1>1, <1>2, <1>3 DEF PassStep

(* And so does every step of the system.                                   *)
LEMMA SystemJournalStep ==
  ASSUME TypeOK, [Next]_vars
  PROVE  [JournalNext]_journalVars
<1>1. ASSUME NEW w \in Workers, ContinueCall(w)
      PROVE  [JournalNext]_journalVars
  BY <1>1, WorkerJournalStep DEF ContinueCall
<1>2. ASSUME NEW w \in Workers, NEW e \in Exec, StartCall(w, e)
      PROVE  [JournalNext]_journalVars
  BY <1>2 DEF StartCall, Call
<1>3. CASE StartPass \/ ContinuePass
  BY <1>3, PassJournalStep DEF StartPass, ContinuePass
<1>4. ASSUME NEW e \in Exec, WindowPasses(e) \/ Network(e)
      PROVE  [JournalNext]_journalVars
  BY <1>4 DEF WindowPasses, Network
<1>5. CASE Crash
  BY <1>5 DEF Crash
<1>6. CASE UNCHANGED vars
  BY <1>6 DEF vars
<1> QED
  BY <1>1, <1>2, <1>3, <1>4, <1>5, <1>6 DEF Next
-----------------------------------------------------------------------------
(* Type correctness                                                        *)

(* A request that reaches the target keeps the target's types.             *)
LEMMA ApplyTypes ==
  ASSUME TypeOK, NEW e \in Exec, Apply(e)
  PROVE  /\ commits' \in [Exec -> Nat]
         /\ actionLog' \subseteq Keyed
         /\ domain' \in {NoValue} \union {Value[f] : f \in Writes}
BY DEF TypeOK, TargetTypeOK, Apply, targetVars

(* The target and its network keep their types.                            *)
LEMMA TargetStepTypes ==
  ASSUME TypeOK, [Next]_vars
  PROVE  TargetTypeOK'
<1> USE DEF TypeOK, TargetTypeOK
<1>1. ASSUME NEW w \in Workers, ContinueCall(w)
      PROVE  TargetTypeOK'
  <2> task[w] \in Exec
    BY DEF CallTypeOK
  <2>1. ASSUME NEW s, NEW clear, NEW answer, Settle(w, s, clear, answer)
        PROVE  TargetTypeOK'
    BY <2>1 DEF Settle, targetVars
  <2>2. CASE Lookup(w) \/ LogIntent(w) \/ Reread(w) \/ Dispatch(w) \/ Invoke(w)
    BY <2>2 DEF Lookup, LogIntent, Reread, Dispatch, Invoke, targetVars
  <2>3. CASE Arrives(w)
    BY <2>3, ApplyTypes DEF Arrives
  <2>4. CASE Rejected(w) \/ AdapterReturns(w)
    BY <2>4 DEF Rejected, AdapterReturns, targetVars
  <2>5. CASE AdapterErrs(w) \/ AdapterAmbiguous(w)
    BY <2>5 DEF AdapterErrs, AdapterAmbiguous, Abandon, targetVars
  <2>6. CASE RecordAcked(w) \/ RecordFailed(w) \/ RecordAmbiguous(w)
    BY <2>1, <2>6 DEF RecordAcked, RecordFailed, RecordAmbiguous
  <2> QED
    BY <1>1, <2>2, <2>3, <2>4, <2>5, <2>6 DEF ContinueCall, WorkerStep
<1>2. ASSUME NEW w \in Workers, NEW e \in Exec, StartCall(w, e)
      PROVE  TargetTypeOK'
  BY <1>2 DEF StartCall, Call, targetVars
<1>3. CASE StartPass
  BY <1>3 DEF StartPass, BeginPass, BeginPassWith, targetVars
<1>4. CASE ContinuePass
  <2>1. UNCHANGED <<targetVars, late>>
    BY <1>4 DEF ContinuePass, PassStep, ListPending, RecordVerdict, Reconcile,
                AppendToolMessage, FinishPass, DecideOne, Probe
  <2> QED
    BY <2>1 DEF targetVars
<1>5. ASSUME NEW e \in Exec, WindowPasses(e)
      PROVE  TargetTypeOK'
  BY <1>5 DEF WindowPasses, targetVars
<1>6. ASSUME NEW e \in Exec, Network(e)
      PROVE  TargetTypeOK'
  <2>1. late' \in [Exec -> Nat]
    BY <1>6 DEF Network, LateArrives, LateVanishes
  <2>2. CASE LateArrives(e)
    BY <2>1, <2>2, ApplyTypes DEF LateArrives
  <2>3. CASE LateVanishes(e)
    BY <2>1, <2>3 DEF LateVanishes, targetVars
  <2> QED
    BY <1>6, <2>2, <2>3 DEF Network
<1>7. CASE Crash
  <2>1. ASSUME NEW e \in Exec
        PROVE  Cardinality(OnTheWire(e)) \in Nat
    BY WorkersAssumption, FS_Subset, FS_CardinalityType DEF OnTheWire
  <2>2. late' \in [Exec -> Nat]
    BY <1>7, <2>1 DEF Crash
  <2> QED
    BY <1>7, <2>2 DEF Crash, targetVars
<1>8. CASE UNCHANGED vars
  BY <1>8 DEF vars, targetVars
<1> QED
  BY <1>1, <1>2, <1>3, <1>4, <1>5, <1>6, <1>7, <1>8 DEF Next

(* The environment and the history keep their types.                       *)
LEMMA EnvironmentStepTypes ==
  ASSUME TypeOK, [Next]_vars
  PROVE  EnvironmentTypeOK'
<1> USE MaxFaultsAssumption DEF TypeOK, EnvironmentTypeOK
<1>1. ASSUME NEW w \in Workers, ContinueCall(w)
      PROVE  EnvironmentTypeOK'
  <2> task[w] \in Exec
    BY DEF CallTypeOK
  <2>1. ASSUME NEW s, NEW clear, NEW answer, Settle(w, s, clear, answer)
        PROVE  EnvironmentTypeOK'
    BY <2>1 DEF Settle, MirrorFails, Fault, RestartWindow, historyVars
  <2>2. CASE Lookup(w) \/ Reread(w) \/ Arrives(w) \/ Rejected(w) \/ AdapterReturns(w)
             \/ AdapterErrs(w)
    BY <2>2 DEF Lookup, Reread, Arrives, Rejected, AdapterReturns, AdapterErrs,
                environmentVars, historyVars
  <2>3. CASE LogIntent(w)
    BY <2>3 DEF LogIntent, MirrorFails, Fault, historyVars
  <2>4. CASE Dispatch(w)
    BY <2>4 DEF Dispatch, MirrorFails, Fault, RestartWindow, historyVars
  <2>5. CASE Invoke(w)
    BY <2>5 DEF Invoke, NoteSend
  <2>6. CASE AdapterAmbiguous(w)
    BY <2>6 DEF AdapterAmbiguous, Fault, historyVars
  <2>7. CASE RecordAcked(w) \/ RecordFailed(w) \/ RecordAmbiguous(w)
    BY <2>1, <2>7 DEF RecordAcked, RecordFailed, RecordAmbiguous
  <2> QED
    BY <1>1, <2>2, <2>3, <2>4, <2>5, <2>6, <2>7 DEF ContinueCall, WorkerStep
<1>2. ASSUME NEW w \in Workers, NEW e \in Exec, StartCall(w, e)
      PROVE  EnvironmentTypeOK'
  BY <1>2 DEF StartCall, Call, environmentVars, historyVars
<1>3. CASE StartPass
  BY <1>3 DEF StartPass, BeginPass, BeginPassWith, environmentVars, historyVars
<1>4. CASE ContinuePass
  <2> current \in Exec
    BY DEF PassTypeOK
  <2>1. CASE ListPending \/ Reconcile \/ FinishPass
    BY <2>1 DEF ListPending, Reconcile, FinishPass, environmentVars, historyVars
  <2>2. CASE RecordVerdict
    <3>1. CASE RecordFound
      BY <3>1 DEF RecordFound, MirrorFailsInPass, Fault, RestartWindow, historyVars
    <3>2. CASE RecordAbsent
      BY <3>2 DEF RecordAbsent, MirrorFailsInPass, Fault, RestartWindow, NoteAbsence
    <3> QED
      BY <2>2, <3>1, <3>2 DEF RecordVerdict, environmentVars, historyVars
  <2>3. CASE AppendToolMessage
    BY <2>3 DEF AppendToolMessage, MirrorFailsInPass, Fault, historyVars
  <2>4. ASSUME NEW e \in Exec, DecideOne(e)
        PROVE  EnvironmentTypeOK'
    BY <2>4 DEF DecideOne, environmentVars, historyVars
  <2>5. ASSUME NEW e \in Exec, Probe(e)
        PROVE  EnvironmentTypeOK'
    BY <2>5 DEF Probe, Fault, historyVars
  <2> QED
    BY <1>4, <2>1, <2>2, <2>3, <2>4, <2>5 DEF ContinuePass, PassStep
<1>5. ASSUME NEW e \in Exec, WindowPasses(e) \/ Network(e)
      PROVE  EnvironmentTypeOK'
  BY <1>5 DEF WindowPasses, Network, environmentVars, historyVars
<1>6. CASE Crash \/ UNCHANGED vars
  BY <1>6 DEF Crash, vars, environmentVars, historyVars
<1> QED
  BY <1>1, <1>2, <1>3, <1>4, <1>5, <1>6 DEF Next

(* Every status a record can have has an answer.                           *)
LEMMA AnswerType ==
  ASSUME NEW s \in Statuses
  PROVE  Answer(s) \in {"reused", "failed", "pending_recovery"}
BY DEF Answer, Statuses, Committed, Unsettled

(* The threads' variables keep their types.                                *)
LEMMA CallStepTypes ==
  ASSUME TypeOK, [Next]_vars
  PROVE  CallTypeOK'
<1> USE DEF TypeOK, CallTypeOK
<1>1. ASSUME NEW w \in Workers, ContinueCall(w)
      PROVE  CallTypeOK'
  <2> task[w] \in Exec
    OBVIOUS
  <2>1. ASSUME NEW s \in Steps, Goto(w, s)
        PROVE  CallTypeOK'
    BY <2>1 DEF Goto
  <2>2. ASSUME NEW answer \in Replies, Return(w, answer)
        PROVE  CallTypeOK'
    BY <2>2 DEF Return, Steps
  <2>3. ASSUME MirrorFails(w)
        PROVE  CallTypeOK'
    BY <2>2, <2>3 DEF MirrorFails, Replies
  <2>4. ASSUME NEW s, NEW clear, NEW answer \in Replies, Settle(w, s, clear, answer)
        PROVE  CallTypeOK'
    BY <2>2, <2>3, <2>4 DEF Settle, Replies
  <2>5. records[task[w]] # NoRecord => Answer(records[task[w]]) \in Replies
    BY AnswerType DEF JournalTypeOK, Replies
  <2>6. CASE Lookup(w)
    <3>1. CASE records[task[w]] = NoRecord
      BY <2>1, <2>6, <3>1 DEF Lookup, Steps, NoRecord
    <3>2. CASE records[task[w]] = "verified_not_found"
      BY <2>6, <3>2 DEF Lookup, Steps, NoRecord
    <3>3. CASE records[task[w]] \notin {NoRecord, "verified_not_found"}
      BY <2>2, <2>5, <2>6, <3>3 DEF Lookup
    <3> QED
      BY <3>1, <3>2, <3>3
  <2>7. CASE LogIntent(w)
    BY <2>1, <2>3, <2>7 DEF LogIntent, Steps
  <2>8. CASE Dispatch(w)
    BY <2>1, <2>2, <2>3, <2>8 DEF Dispatch, Steps, Replies
  <2>9. CASE Invoke(w) \/ Arrives(w) \/ Rejected(w)
    BY <2>9 DEF Invoke, Arrives, Rejected, Steps
  <2>10. CASE AdapterReturns(w) \/ AdapterErrs(w) \/ AdapterAmbiguous(w)
    BY <2>1, <2>10 DEF AdapterReturns, AdapterErrs, AdapterAmbiguous, Steps
  <2>11. CASE RecordAcked(w) \/ RecordFailed(w) \/ RecordAmbiguous(w)
    BY <2>4, <2>11 DEF RecordAcked, RecordFailed, RecordAmbiguous, Replies
  <2>12. CASE Reread(w)
    <3>1. CASE records[task[w]] = NoRecord
      BY <2>2, <2>12, <3>1 DEF Reread, Replies, NoRecord
    <3>2. CASE records[task[w]] = "intent_logged"
      BY <2>1, <2>12, <3>2 DEF Reread, Steps, NoRecord
    <3>3. CASE records[task[w]] \notin {NoRecord, "intent_logged"}
      BY <2>2, <2>5, <2>12, <3>3 DEF Reread
    <3> QED
      BY <3>1, <3>2, <3>3
  <2> QED
    BY <1>1, <2>6, <2>7, <2>8, <2>9, <2>10, <2>11, <2>12 DEF ContinueCall, WorkerStep
<1>2. ASSUME NEW w \in Workers, NEW e \in Exec, StartCall(w, e)
      PROVE  CallTypeOK'
  BY <1>2 DEF StartCall, Call, Steps, Replies
<1>3. CASE StartPass \/ ContinuePass
  BY <1>3 DEF StartPass, ContinuePass, callVars
<1>4. ASSUME NEW e \in Exec, WindowPasses(e) \/ Network(e)
      PROVE  CallTypeOK'
  BY <1>4 DEF WindowPasses, Network, callVars
<1>5. CASE Crash
  BY <1>5 DEF Crash, Steps, Replies
<1>6. CASE UNCHANGED vars
  BY <1>6 DEF vars, callVars
<1> QED
  BY <1>1, <1>2, <1>3, <1>4, <1>5, <1>6 DEF Next

(* Every status a record can have has a decision.                          *)
LEMMA DecideType ==
  ASSUME NEW s \in Statuses, NEW open
  PROVE  Decide(s, open) \in Actions
BY DEF Decide, Statuses, Committed, Actions

(* The pass keeps the types of its variables.                              *)
LEMMA PassStepTypes ==
  ASSUME TypeOK, BeginPass \/ PassStep
  PROVE  PassTypeOK'
<1> USE DEF TypeOK, PassTypeOK
<1>1. CASE BeginPass
  BY <1>1 DEF BeginPass, BeginPassWith, JournalTypeOK, EnvironmentTypeOK, NoDecisions
<1>2. CASE ListPending
  BY <1>2 DEF ListPending, JournalTypeOK
<1>3. ASSUME NEW e \in Exec, DecideOne(e)
      PROVE  PassTypeOK'
  <2> DEFINE action == IF snapshot[e] = NoRecord THEN "handoff"
                       ELSE Decide(snapshot[e], e \notin overdue)
  <2>1. action \in Actions
    BY DecideType DEF Actions
  <2>2. CASE action = "mark_committed"
    BY <1>3, <2>2 DEF DecideOne
  <2>3. CASE action # "mark_committed"
    BY <1>3, <2>1, <2>3 DEF DecideOne, Decided
  <2> QED
    BY <2>2, <2>3
<1>4. ASSUME NEW e \in Exec, Probe(e)
      PROVE  PassTypeOK'
  BY <1>4 DEF Probe
<1>5. CASE RecordVerdict
  <2>1. CASE RecordFound
    BY <1>5, <2>1 DEF RecordVerdict, RecordFound, MirrorFailsInPass, EndPass, NoDecisions
  <2>2. CASE RecordAbsent
    BY <1>5, <2>2 DEF RecordVerdict, RecordAbsent, MirrorFailsInPass, EndPass, NoDecisions,
                      Decided, Actions
  <2>3. CASE Decided(current, "handoff") /\ step' = "scan" /\ UNCHANGED <<outcome, current>>
    BY <1>5, <2>3 DEF RecordVerdict, Decided, Actions
  <2>4. CASE EndPass("raised")
    BY <1>5, <2>4 DEF RecordVerdict, EndPass, NoDecisions
  <2> QED
    BY <1>5, <2>1, <2>2, <2>3, <2>4 DEF RecordVerdict
<1>6. CASE Reconcile
  BY <1>6 DEF Reconcile, Decided, Actions
<1>7. CASE AppendToolMessage
  BY <1>7 DEF AppendToolMessage, MirrorFailsInPass, EndPass, NoDecisions, Decided, Actions
<1>8. CASE FinishPass
  BY <1>8 DEF FinishPass
<1> QED
  BY <1>1, <1>2, <1>3, <1>4, <1>5, <1>6, <1>7, <1>8 DEF PassStep

(* A step of the system keeps every variable's type.                       *)
LEMMA SystemStepTypes ==
  ASSUME TypeOK, [Next]_vars
  PROVE  TypeOK'
<1>1. JournalTypeOK'
  BY SystemJournalStep, JournalStepTypes DEF TypeOK
<1>2. PassTypeOK'
  <2>1. CASE StartPass \/ ContinuePass
    BY <2>1, PassStepTypes DEF StartPass, ContinuePass
  <2>2. CASE Crash
    BY <2>2 DEF Crash, TypeOK, PassTypeOK, NoDecisions
  <2>3. ASSUME UNCHANGED <<passVars, toolMsgs>>
        PROVE  PassTypeOK'
    BY <2>3 DEF passVars, TypeOK, PassTypeOK
  <2> QED
    BY <2>1, <2>2, <2>3
       DEF Next, ContinueCall, StartCall, WindowPasses, Network, vars
<1>3. crashes' \in 0 .. MaxCrashes
  BY SystemAssumption
     DEF TypeOK, Next, ContinueCall, StartCall, StartPass, ContinuePass, WindowPasses,
         Network, Crash, vars
<1> QED
  BY <1>1, <1>2, <1>3, TargetStepTypes, EnvironmentStepTypes, CallStepTypes DEF TypeOK

(* The run starts with every variable in its type.                         *)
LEMMA InitialTypes == Init => TypeOK
BY MaxFaultsAssumption, SystemAssumption
   DEF Init, TypeOK, JournalInit, JournalTypeOK, TargetInit, TargetTypeOK,
       EnvironmentInit, EnvironmentTypeOK, CallInit, CallTypeOK, Steps, Replies,
       PassInit, PassTypeOK, NoDecisions

(* Every variable keeps its type: no status, step or answer outside the    *)
(* sets the code names is ever reached, and the bounds are respected.      *)
THEOREM TypeCorrect == Spec => []TypeOK
BY InitialTypes, SystemStepTypes, PTL DEF Spec

-----------------------------------------------------------------------------
(* The journal's guarantees hold of the whole system                       *)

(* Threads, recovery passes and crashes implement the journal: nothing     *)
(* they do to the durable state is not one of the facade's operations.     *)
THEOREM ImplementsJournal == Spec => JournalSpec
<1>1. Init => JournalInit
  BY DEF Init
<1> QED
  BY <1>1, TypeCorrect, SystemJournalStep, PTL DEF Spec, JournalSpec

(* The operator's audit is clean in every reachable state: a pending       *)
(* execution has an unsettled record and a logged intent has a record.     *)
THEOREM SystemAuditClean == Spec => []AuditClean
BY ImplementsJournal, JournalAuditClean, PTL

(* No thread, pass or crash reopens a committed execution.                 *)
THEOREM SystemCommittedStays == Spec => CommittedStays
BY ImplementsJournal, JournalCommittedStays, PTL

-----------------------------------------------------------------------------
(* What reaches the target                                                 *)

(* The target changes only when a request reaches it: one a thread waits   *)
(* for or one whose caller has given up.                                   *)
LEMMA OnlyRequestsChangeTarget ==
  ASSUME TypeOK, [Next]_vars
  PROVE  \/ UNCHANGED targetVars
         \/ \E w \in Workers : w \in OnTheWire(task[w]) /\ Apply(task[w])
         \/ \E e \in Exec : late[e] > 0 /\ Apply(e)
<1>1. ASSUME NEW w \in Workers, ContinueCall(w)
      PROVE  UNCHANGED targetVars \/ (w \in OnTheWire(task[w]) /\ Apply(task[w]))
  <2>1. CASE Arrives(w)
    BY <2>1 DEF Arrives, OnTheWire
  <2>2. CASE ~Arrives(w)
    BY <1>1, <2>2
       DEF ContinueCall, WorkerStep, Lookup, LogIntent, Reread, Dispatch, Invoke, Rejected,
           AdapterReturns, AdapterErrs, AdapterAmbiguous, RecordAcked, RecordFailed,
           RecordAmbiguous, Settle
  <2> QED
    BY <2>1, <2>2
<1>2. ASSUME NEW w \in Workers, NEW e \in Exec, StartCall(w, e)
      PROVE  UNCHANGED targetVars
  BY <1>2 DEF StartCall, Call
<1>3. CASE StartPass \/ ContinuePass
  BY <1>3 DEF StartPass, BeginPass, BeginPassWith, ContinuePass, PassStep, ListPending, RecordVerdict,
              Reconcile, AppendToolMessage, FinishPass, DecideOne, Probe
<1>4. ASSUME NEW e \in Exec, WindowPasses(e) \/ Network(e)
      PROVE  UNCHANGED targetVars \/ (late[e] > 0 /\ Apply(e))
  BY <1>4 DEF WindowPasses, Network, LateArrives, LateVanishes
<1>5. CASE Crash \/ UNCHANGED vars
  BY <1>5 DEF Crash, vars
<1> QED
  BY <1>1, <1>2, <1>3, <1>4, <1>5 DEF Next

(* A deduping target has logged every keyed write that took effect, and    *)
(* none took effect twice.                                                 *)
EffectInv ==
  TargetDedupes => \A e \in Keyed : commits[e] <= 1 /\ (commits[e] > 0 => e \in actionLog)

(* A request applied for the second time is one the log of actions keeps   *)
(* from taking effect.                                                     *)
LEMMA EffectStays ==
  ASSUME TypeOK, EffectInv, [Next]_vars
  PROVE  EffectInv'
<1>1. ASSUME NEW e \in Exec, Apply(e)
      PROVE  EffectInv'
  BY <1>1, WritesAssumption
     DEF Apply, Duplicate, EffectInv, targetVars, TypeOK, TargetTypeOK
<1>2. CASE UNCHANGED targetVars
  BY <1>2 DEF EffectInv, targetVars
<1>3. \A w \in Workers : task[w] \in Exec
  BY DEF TypeOK, CallTypeOK
<1> QED
  BY <1>1, <1>2, <1>3, OnlyRequestsChangeTarget

(* Nothing has taken effect at the start.                                  *)
LEMMA EffectAtTheStart == Init => EffectInv
<1> SUFFICES ASSUME Init, NEW e \in Keyed
             PROVE  commits[e] = 0
  BY DEF EffectInv
<1> QED
  BY WritesAssumption DEF Init, TargetInit

(* However often a keyed write is sent, delayed or replayed, by however    *)
(* many threads and after however many crashes, a target that dedupes      *)
(* applies it at most once.                                                *)
THEOREM ExactlyOnce == Spec => []ExactlyOnceEffect
<1>1. EffectInv => ExactlyOnceEffect
  BY DEF EffectInv, ExactlyOnceEffect
<1> QED
  BY <1>1, EffectAtTheStart, EffectStays, TypeCorrect, PTL DEF Spec

-----------------------------------------------------------------------------
(* Log before send                                                         *)

(* The record of e says more than its intent.                              *)
Logged(e) == records[e] \notin {NoRecord, "intent_logged"}

(* Where a thread has the dispatch of its write behind it.                 *)
Sending == {"invoke", "waiting", "ambiguous", "errored", "answered"}

(* A thread that sends a write, has sent it or is about to has logged its  *)
(* dispatch, and so has whoever left a request or an effect behind.        *)
SendInv ==
  /\ \A w \in Workers : task[w] \in Writes /\ pc[w] \in Sending => Logged(task[w])
  /\ \A e \in Writes : late[e] > 0 \/ commits[e] > 0 => Logged(e)

(* No operation of the journal takes a record back to its intent.          *)
LEMMA LoggedStays ==
  ASSUME JournalTypeOK, [JournalNext]_journalVars, NEW e \in Exec, Logged(e)
  PROVE  Logged(e)'
<1> USE DEF JournalTypeOK, Logged, NoRecord
<1>1. CASE ForgetPending
  BY <1>1 DEF ForgetPending
<1>2. ASSUME NEW f \in Exec, RecordToolIntent(f)
      PROVE  Logged(e)'
  BY <1>2 DEF RecordToolIntent, IntentExists, journalVars
<1>3. ASSUME NEW f \in Exec, RecordToolDispatch(f)
      PROVE  Logged(e)'
  BY <1>3 DEF RecordToolDispatch
<1>4. ASSUME NEW f \in Exec, NEW s \in Parked \union Terminal, NEW clear \in BOOLEAN,
             RecordToolResult(f, s, clear)
      PROVE  Logged(e)'
  BY <1>4 DEF RecordToolResult, Parked, Terminal
<1>5. CASE UNCHANGED journalVars
  BY <1>5 DEF journalVars
<1> QED
  BY <1>1, <1>2, <1>3, <1>4, <1>5 DEF JournalNext

(* A thread's step leaves the other threads where they are.                *)
LEMMA OtherThreadsStay ==
  ASSUME TypeOK, NEW v \in Workers, NEW w \in Workers, v # w, ContinueCall(v)
  PROVE  /\ pc'[w] = pc[w] /\ task'[w] = task[w]
         /\ reply'[w] = reply[w] /\ wire'[w] = wire[w]
         /\ w \in replay' <=> w \in replay
<1> USE DEF TypeOK, CallTypeOK
<1> DEFINE Same == /\ pc'[w] = pc[w] /\ task'[w] = task[w]
                   /\ reply'[w] = reply[w] /\ wire'[w] = wire[w]
                   /\ w \in replay' <=> w \in replay
<1>1. ASSUME NEW answer, Return(v, answer)
      PROVE  Same
  BY <1>1 DEF Return
<1>2. ASSUME NEW s, Goto(v, s)
      PROVE  Same
  BY <1>2 DEF Goto
<1>3. CASE Lookup(v)
  <2>1. CASE records[task[v]] = NoRecord
    BY <1>2, <1>3, <2>1 DEF Lookup, NoRecord
  <2>2. CASE records[task[v]] = "verified_not_found"
    BY <1>3, <2>2 DEF Lookup, NoRecord
  <2>3. CASE records[task[v]] \notin {NoRecord, "verified_not_found"}
    BY <1>1, <1>3, <2>3 DEF Lookup
  <2> QED
    BY <2>1, <2>2, <2>3
<1>4. CASE Reread(v)
  <2>1. CASE records[task[v]] = "intent_logged"
    BY <1>2, <1>4, <2>1 DEF Reread, NoRecord
  <2>2. CASE records[task[v]] # "intent_logged"
    BY <1>1, <1>4, <2>2 DEF Reread, NoRecord
  <2> QED
    BY <2>1, <2>2
<1>5. CASE LogIntent(v) \/ Dispatch(v)
  BY <1>1, <1>2, <1>5 DEF LogIntent, Dispatch, MirrorFails
<1>6. CASE Invoke(v) \/ Arrives(v) \/ Rejected(v)
  BY <1>6 DEF Invoke, Arrives, Rejected
<1>7. CASE AdapterReturns(v) \/ AdapterErrs(v) \/ AdapterAmbiguous(v)
  BY <1>2, <1>7 DEF AdapterReturns, AdapterErrs, AdapterAmbiguous
<1>8. CASE RecordAcked(v) \/ RecordFailed(v) \/ RecordAmbiguous(v)
  BY <1>1, <1>8 DEF RecordAcked, RecordFailed, RecordAmbiguous, Settle, MirrorFails
<1> QED
  BY <1>3, <1>4, <1>5, <1>6, <1>7, <1>8 DEF ContinueCall, WorkerStep

(* A thread comes to send a write only past a logged dispatch.             *)
LEMMA SendersHaveLogged ==
  ASSUME TypeOK, SendInv, [Next]_vars, NEW w \in Workers,
         task'[w] \in Writes, pc'[w] \in Sending
  PROVE  Logged(task[w])' /\ task'[w] = task[w]
<1> USE DEF TypeOK, CallTypeOK, Sending
<1> task[w] \in Exec
  OBVIOUS
<1>1. pc[w] \in Sending /\ task'[w] = task[w] => Logged(task[w])'
  <2> SUFFICES ASSUME pc[w] \in Sending, task'[w] = task[w]
               PROVE  Logged(task[w])'
    OBVIOUS
  <2>1. Logged(task[w])
    BY DEF SendInv
  <2>2. ASSUME NEW e \in Exec, e = task[w]
        PROVE  Logged(e)'
    BY <2>1, <2>2, LoggedStays, SystemJournalStep
  <2> QED
    BY <2>2 DEF Logged
<1>2. ASSUME ContinueCall(w)
      PROVE  Logged(task[w])' /\ task'[w] = task[w]
  <2>1. ASSUME NEW s, NEW clear, NEW answer, Settle(w, s, clear, answer)
        PROVE  FALSE
    BY <2>1 DEF Settle, MirrorFails, Return
  <2>2. CASE Lookup(w)
    <3>1. CASE records[task[w]] = NoRecord
      BY <2>2, <3>1 DEF Lookup, Goto, NoRecord
    <3>2. CASE records[task[w]] = "verified_not_found"
      BY <2>2, <3>2 DEF Lookup, journalVars, Logged, NoRecord
    <3>3. CASE records[task[w]] \notin {NoRecord, "verified_not_found"}
      BY <2>2, <3>3 DEF Lookup, Return
    <3> QED
      BY <3>1, <3>2, <3>3
  <2>3. CASE LogIntent(w)
    BY <2>3 DEF LogIntent, Goto, MirrorFails, Return
  <2>4. CASE Reread(w)
    <3>1. CASE records[task[w]] = "intent_logged"
      BY <2>4, <3>1 DEF Reread, Goto, NoRecord, WritesDispatchMarker
    <3>2. CASE records[task[w]] # "intent_logged"
      BY <2>4, <3>2 DEF Reread, Return, NoRecord
    <3> QED
      BY <3>1, <3>2
  <2>5. CASE Dispatch(w)
    <3>1. CASE RecordToolDispatch(task[w]) /\ Goto(w, "invoke")
      BY <3>1 DEF RecordToolDispatch, Goto, JournalTypeOK, Logged, NoRecord
    <3>2. ASSUME NEW answer, Return(w, answer)
          PROVE  FALSE
      BY <3>2 DEF Return
    <3> QED
      BY <2>5, <3>1, <3>2 DEF Dispatch, MirrorFails
  <2>6. CASE Invoke(w) \/ Arrives(w) \/ Rejected(w) \/ AdapterReturns(w) \/ AdapterErrs(w)
             \/ AdapterAmbiguous(w)
    BY <1>1, <2>6 DEF Invoke, Arrives, Rejected, AdapterReturns, AdapterErrs,
                      AdapterAmbiguous, Goto
  <2>7. CASE RecordAcked(w) \/ RecordFailed(w) \/ RecordAmbiguous(w)
    BY <2>1, <2>7 DEF RecordAcked, RecordFailed, RecordAmbiguous
  <2> QED
    BY <1>2, <2>2, <2>3, <2>4, <2>5, <2>6, <2>7 DEF ContinueCall, WorkerStep
<1>3. ASSUME NEW v \in Workers, v # w, ContinueCall(v)
      PROVE  pc'[w] = pc[w] /\ task'[w] = task[w]
  BY <1>3, OtherThreadsStay
<1>4. ASSUME NEW v \in Workers, NEW e \in Exec, StartCall(v, e)
      PROVE  pc'[w] = pc[w] /\ task'[w] = task[w]
  BY <1>4 DEF StartCall, Call
<1>5. CASE StartPass \/ ContinuePass \/ UNCHANGED vars
  BY <1>1, <1>5 DEF StartPass, ContinuePass, vars, callVars
<1>6. ASSUME NEW e \in Exec, WindowPasses(e) \/ Network(e)
      PROVE  pc'[w] = pc[w] /\ task'[w] = task[w]
  BY <1>6 DEF WindowPasses, Network, callVars
<1>7. ~Crash
  BY DEF Crash
<1> QED
  BY <1>1, <1>2, <1>3, <1>4, <1>5, <1>6, <1>7 DEF Next

(* A request joins those whose callers have given up only from a thread    *)
(* that waits for it.                                                      *)
LEMMA LateWasSent ==
  ASSUME TypeOK, [Next]_vars, NEW e \in Exec, late'[e] > 0
  PROVE  late[e] > 0 \/ OnTheWire(e) # {}
<1> USE DEF TypeOK, TargetTypeOK
<1> late[e] \in Nat /\ late'[e] \in Nat
  BY TargetStepTypes
<1> SUFFICES late'[e] <= late[e] \/ OnTheWire(e) # {}
  OBVIOUS
<1>1. ASSUME NEW w \in Workers, ContinueCall(w)
      PROVE  late'[e] <= late[e] \/ OnTheWire(e) # {}
  <2>1. CASE AdapterErrs(w) \/ AdapterAmbiguous(w)
    <3>1. late' = late \/ (w \in OnTheWire(task[w]) /\ late' = [late EXCEPT ![task[w]] = @ + 1])
      BY <2>1 DEF AdapterErrs, AdapterAmbiguous, Abandon, OnTheWire
    <3> QED
      BY <3>1 DEF CallTypeOK
  <2>2. ~AdapterErrs(w) /\ ~AdapterAmbiguous(w) => UNCHANGED late
    BY <1>1
       DEF ContinueCall, WorkerStep, Lookup, LogIntent, Reread, Dispatch, Invoke, Arrives,
           Rejected, AdapterReturns, RecordAcked, RecordFailed,
           RecordAmbiguous, Settle
  <2> QED
    BY <2>1, <2>2
<1>2. ASSUME NEW w \in Workers, NEW f \in Exec, StartCall(w, f)
      PROVE  late'[e] <= late[e]
  BY <1>2 DEF StartCall, Call
<1>3. CASE StartPass \/ ContinuePass
  <2> UNCHANGED late
    BY <1>3 DEF StartPass, BeginPass, BeginPassWith, ContinuePass, PassStep, ListPending, RecordVerdict,
                Reconcile, AppendToolMessage, FinishPass, DecideOne, Probe
  <2> QED
    OBVIOUS
<1>4. ASSUME NEW f \in Exec, WindowPasses(f) \/ Network(f)
      PROVE  late'[e] <= late[e]
  BY <1>4 DEF WindowPasses, Network, LateArrives, LateVanishes
<1>5. CASE Crash
  <2>1. CASE OnTheWire(e) = {}
    <3>1. Cardinality(OnTheWire(e)) = 0
      BY <2>1, FS_EmptySet
    <3>2. late'[e] = late[e] + Cardinality(OnTheWire(e))
      BY <1>5 DEF Crash
    <3> QED
      BY <3>1, <3>2
  <2> QED
    BY <2>1
<1>6. CASE UNCHANGED vars
  BY <1>6 DEF vars
<1> QED
  BY <1>1, <1>2, <1>3, <1>4, <1>5, <1>6 DEF Next

(* What is sent, held back or applied after a step was logged before it.   *)
LEMMA SendingStaysLogged ==
  ASSUME TypeOK, SendInv, [Next]_vars
  PROVE  SendInv'
<1>1. ASSUME NEW w \in Workers, task'[w] \in Writes, pc'[w] \in Sending
      PROVE  Logged(task[w])'
  BY <1>1, SendersHaveLogged
<1>2. ASSUME NEW e \in Writes, late'[e] > 0 \/ commits'[e] > 0
      PROVE  Logged(e)'
  <2> e \in Exec
    BY WritesAssumption
  <2>1. commits'[e] > 0 =>
          commits[e] > 0 \/ late[e] > 0 \/ \E w \in Workers : task[w] = e /\ pc[w] \in Sending
    <3>1. ASSUME NEW f \in Exec, Apply(f)
          PROVE  f = e \/ commits'[e] = commits[e]
      BY <3>1 DEF Apply, targetVars, TypeOK, TargetTypeOK
    <3> QED
      BY <3>1, OnlyRequestsChangeTarget
         DEF targetVars, OnTheWire, Sending, TypeOK, CallTypeOK
  <2>2. late'[e] > 0 =>
          late[e] > 0 \/ \E w \in Workers : task[w] = e /\ pc[w] \in Sending
    BY LateWasSent DEF OnTheWire, Sending
  <2>3. Logged(e)
    BY <1>2, <2>1, <2>2 DEF SendInv
  <2> QED
    BY <2>3, LoggedStays, SystemJournalStep DEF TypeOK
<1> QED
  BY <1>1, <1>2 DEF SendInv, Logged

(* Nothing has been sent at the start.                                     *)
LEMMA SendingAtTheStart == Init => SendInv
BY WritesAssumption DEF Init, CallInit, TargetInit, SendInv, Sending

(* A sender has logged, and so has whoever left a request or an effect.    *)
LEMMA SendersLogFirst == SendInv => LogBeforeSend
BY DEF SendInv, LogBeforeSend, OnTheWire, Sending, Logged

(* Log before send, for every number of writes, threads and crashes: no    *)
(* write is on its way to the target or has taken effect there unless its  *)
(* record says at least that it was dispatched.                            *)
THEOREM WritesAreLoggedBeforeSent == Spec => []LogBeforeSend
BY SendingAtTheStart, SendingStaysLogged, SendersLogFirst, TypeCorrect, PTL DEF Spec

-----------------------------------------------------------------------------
(* Durability of reported success                                          *)

(* The answers that report success.                                        *)
Success == {"succeeded", "reused"}

(* A committed record that exists stays committed over a system step.      *)
LEMMA CommittedStaysOverStep ==
  ASSUME TypeOK, [Next]_vars, NEW e \in Exec, records[e] \in Committed
  PROVE  records'[e] \in Committed
<1>1. [JournalNext]_journalVars /\ JournalTypeOK
  BY SystemJournalStep DEF TypeOK
<1> QED
  BY <1>1, CommittedStaysOverJournalStep

(* A thread reports success only for an execution it finds committed or    *)
(* has just recorded as acknowledged.                                      *)
LEMMA SuccessComesFromRecord ==
  ASSUME TypeOK, NEW w \in Workers, ContinueCall(w), reply'[w] \in Success
  PROVE  /\ task'[w] = task[w]
         /\ reply[w] \in Success \/ records'[task[w]] \in Committed
<1> USE DEF TypeOK, CallTypeOK
<1> task[w] \in Exec
  OBVIOUS
<1>1. ASSUME NEW s, Goto(w, s)
      PROVE  task'[w] = task[w] /\ reply'[w] = reply[w]
  BY <1>1 DEF Goto
<1>2. ASSUME NEW answer, Return(w, answer)
      PROVE  task'[w] = task[w] /\ answer \in Success
  BY <1>2 DEF Return
<1>3. ~MirrorFails(w) /\ ~Return(w, "raised")
  BY <1>2 DEF MirrorFails, Success
<1>4. ASSUME NEW s, Return(w, Answer(s)), s \in Statuses
      PROVE  s \in Committed
  BY <1>2, <1>4 DEF Answer, Statuses, Committed, Unsettled, Success
<1>5. ASSUME NEW s, NEW clear, NEW answer, Settle(w, s, clear, answer)
      PROVE  /\ task'[w] = task[w] /\ answer \in Success
             /\ records' = [records EXCEPT ![task[w]] = s]
  BY <1>2, <1>3, <1>5 DEF Settle, RecordToolResult
<1>6. CASE Lookup(w)
  <2>1. CASE records[task[w]] = NoRecord
    BY <1>1, <1>6, <2>1 DEF Lookup, NoRecord
  <2>2. CASE records[task[w]] = "verified_not_found"
    BY <1>6, <2>2 DEF Lookup, NoRecord
  <2>3. CASE records[task[w]] \notin {NoRecord, "verified_not_found"}
    <3>1. Return(w, Answer(records[task[w]])) /\ UNCHANGED records
      BY <1>6, <2>3 DEF Lookup, journalVars
    <3>2. records[task[w]] \in Statuses
      BY <2>3 DEF JournalTypeOK
    <3> QED
      BY <1>2, <1>4, <3>1, <3>2
  <2> QED
    BY <2>1, <2>2, <2>3
<1>7. CASE Reread(w)
  <2>1. CASE records[task[w]] = NoRecord
    BY <1>3, <1>7, <2>1 DEF Reread, NoRecord
  <2>2. CASE records[task[w]] = "intent_logged"
    BY <1>1, <1>7, <2>2 DEF Reread, NoRecord
  <2>3. CASE records[task[w]] \notin {NoRecord, "intent_logged"}
    <3>1. Return(w, Answer(records[task[w]])) /\ UNCHANGED records
      BY <1>7, <2>3 DEF Reread, journalVars
    <3>2. records[task[w]] \in Statuses
      BY <2>3 DEF JournalTypeOK
    <3> QED
      BY <1>2, <1>4, <3>1, <3>2
  <2> QED
    BY <2>1, <2>2, <2>3
<1>8. CASE LogIntent(w) \/ Dispatch(w)
  BY <1>1, <1>3, <1>8 DEF LogIntent, Dispatch
<1>9. CASE Invoke(w) \/ Arrives(w) \/ Rejected(w)
  BY <1>9 DEF Invoke, Arrives, Rejected
<1>10. CASE AdapterReturns(w) \/ AdapterErrs(w) \/ AdapterAmbiguous(w)
  BY <1>1, <1>10 DEF AdapterReturns, AdapterErrs, AdapterAmbiguous
<1>11. CASE RecordAcked(w)
  <2>1. Settle(w, "acked", TRUE, "succeeded")
    BY <1>11 DEF RecordAcked
  <2>2. task'[w] = task[w] /\ records' = [records EXCEPT ![task[w]] = "acked"]
    BY <1>5, <2>1
  <2> QED
    BY <2>2 DEF Committed, JournalTypeOK
<1>12. CASE RecordFailed(w) \/ RecordAmbiguous(w)
  <2>1. ASSUME NEW s, NEW clear, NEW answer \in {"failed", "pending_recovery"},
               Settle(w, s, clear, answer)
        PROVE  FALSE
    BY <1>5, <2>1 DEF Success
  <2> QED
    BY <1>12, <2>1 DEF RecordFailed, RecordAmbiguous
<1> QED
  BY <1>6, <1>7, <1>8, <1>9, <1>10, <1>11, <1>12 DEF ContinueCall, WorkerStep

(* What a thread has reported stays backed by a committed record.          *)
LEMMA SuccessStaysDurable ==
  ASSUME TypeOK, SuccessIsDurable, [Next]_vars
  PROVE  SuccessIsDurable'
<1> SUFFICES ASSUME NEW w \in Workers, reply'[w] \in Success
             PROVE  records'[task'[w]] \in Committed
  BY DEF SuccessIsDurable, Success
<1> task[w] \in Exec
  BY DEF TypeOK, CallTypeOK
<1>1. reply[w] \in Success => records'[task[w]] \in Committed
  BY CommittedStaysOverStep DEF SuccessIsDurable, Success
<1>2. CASE ContinueCall(w)
  BY <1>1, <1>2, SuccessComesFromRecord
<1>3. ASSUME NEW v \in Workers, v # w, ContinueCall(v)
      PROVE  task'[w] = task[w] /\ reply'[w] = reply[w]
  BY <1>3, OtherThreadsStay
<1>4. ASSUME NEW v \in Workers, NEW e \in Exec, StartCall(v, e)
      PROVE  task'[w] = task[w] /\ reply'[w] = reply[w]
  BY <1>4 DEF StartCall, Call, TypeOK, CallTypeOK, Success
<1>5. CASE StartPass \/ ContinuePass \/ UNCHANGED vars
  BY <1>1, <1>5 DEF StartPass, ContinuePass, vars, callVars
<1>6. ASSUME NEW e \in Exec, WindowPasses(e) \/ Network(e)
      PROVE  task'[w] = task[w] /\ reply'[w] = reply[w]
  BY <1>6 DEF WindowPasses, Network, callVars
<1>7. ~Crash
  BY DEF Crash, Success
<1> QED
  BY <1>1, <1>2, <1>3, <1>4, <1>5, <1>6, <1>7 DEF Next

(* Nobody has reported anything at the start.                              *)
LEMMA SuccessAtTheStart == Init => SuccessIsDurable
BY DEF Init, CallInit, SuccessIsDurable

(* A thread that reports success, first-hand or as a reuse, reports a      *)
(* result the next call and the next recovery will find committed.         *)
THEOREM ReportedSuccessIsDurable == Spec => []SuccessIsDurable
BY SuccessAtTheStart, SuccessStaysDurable, TypeCorrect, PTL DEF Spec

-----------------------------------------------------------------------------
(* Recovery tells the truth                                                *)

(* No two writes store the same value, so a matching value is evidence.    *)
DistinctWrites == \A e, f \in Writes : Value[e] = Value[f] => e = f

(* What the target shows has happened; so has what a thread has been told  *)
(* and what the verifier has answered.                                     *)
EvidenceInv ==
  /\ \A e \in Writes : Found(e) => commits[e] > 0
  /\ \A w \in Workers :
        /\ pc[w] = "idle" => wire[w] = "none"
        /\ pc[w] = "answered" => wire[w] = "applied"
        /\ wire[w] = "applied" /\ task[w] \in Writes => commits[task[w]] > 0
  /\ step = "verdict" /\ verdict = "committed" => current \in Writes /\ commits[current] > 0

-----------------------------------------------------------------------------
(* The target                                                              *)

(* An effect is not taken back.                                            *)
LEMMA EffectsRemain ==
  ASSUME TypeOK, [Next]_vars, NEW e \in Exec, commits[e] > 0
  PROVE  commits'[e] > 0
<1>1. ASSUME NEW f \in Exec, Apply(f)
      PROVE  commits'[e] > 0
  BY <1>1 DEF Apply, targetVars, TypeOK, TargetTypeOK
<1> QED
  BY <1>1, OnlyRequestsChangeTarget DEF targetVars, TypeOK, CallTypeOK

(* A request that reaches the target leaves true evidence, and has taken   *)
(* effect by then, now or before.                                          *)
LEMMA ApplyLeavesEvidence ==
  ASSUME DistinctWrites, TypeOK, \A e \in Writes : Found(e) => commits[e] > 0,
         NEW f \in Exec, Apply(f)
  PROVE  /\ \A e \in Writes : Found(e)' => commits'[e] > 0
         /\ f \in Writes => commits'[f] > 0
<1> USE WritesAssumption DEF Found, TypeOK, TargetTypeOK
<1>1. CASE UNCHANGED targetVars /\ (f \notin Writes \/ Duplicate(f))
  BY <1>1 DEF targetVars, Duplicate
<1>2. CASE /\ f \in Writes
           /\ commits' = [commits EXCEPT ![f] = @ + 1]
           /\ actionLog' = IF f \in Keyed THEN actionLog \union {f} ELSE actionLog
           /\ domain' = Value[f]
  <2>1. commits'[f] > 0 /\ \A e \in Exec : e # f => commits'[e] = commits[e]
    BY <1>2
  <2>2. ASSUME NEW e \in Writes, e \in actionLog' \/ domain' = Value[e]
        PROVE  commits'[e] > 0
    BY <1>2, <2>1, <2>2 DEF DistinctWrites
  <2> QED
    BY <2>1, <2>2
<1> QED
  BY <1>1, <1>2 DEF Apply

(* The evidence at the target stays true.                                  *)
LEMMA EvidenceStaysTrue ==
  ASSUME DistinctWrites, TypeOK, EvidenceInv, [Next]_vars
  PROVE  \A e \in Writes : Found(e)' => commits'[e] > 0
<1>1. ASSUME UNCHANGED targetVars
      PROVE  \A e \in Writes : Found(e)' => commits'[e] > 0
  BY <1>1 DEF EvidenceInv, Found, targetVars
<1>2. ASSUME NEW f \in Exec, Apply(f)
      PROVE  \A e \in Writes : Found(e)' => commits'[e] > 0
  BY <1>2, ApplyLeavesEvidence DEF EvidenceInv
<1> QED
  BY <1>1, <1>2, OnlyRequestsChangeTarget DEF TypeOK, CallTypeOK

-----------------------------------------------------------------------------
(* The threads                                                             *)

(* What a thread's own step does to what it has been told.                 *)
LEMMA OwnStepKeepsEvidence ==
  ASSUME DistinctWrites, TypeOK, EvidenceInv, NEW w \in Workers, ContinueCall(w)
  PROVE  /\ task'[w] = task[w]
         /\ pc'[w] = "idle" => wire'[w] = "none"
         /\ pc'[w] = "answered" => wire'[w] = "applied"
         /\ wire'[w] = "applied" /\ task[w] \in Writes => commits'[task[w]] > 0
<1> USE DEF TypeOK, CallTypeOK
<1> DEFINE Kept == /\ task'[w] = task[w]
                   /\ pc'[w] = "idle" => wire'[w] = "none"
                   /\ pc'[w] = "answered" => wire'[w] = "applied"
                   /\ wire'[w] = "applied" /\ task[w] \in Writes => commits'[task[w]] > 0
<1> task[w] \in Exec
  OBVIOUS
<1>1. \/ pc[w] # "idle" /\ UNCHANGED targetVars
      \/ Arrives(w)
  BY DEF ContinueCall, WorkerStep, Lookup, LogIntent, Reread, Dispatch, Invoke, Arrives,
         Rejected, AdapterReturns, AdapterErrs, AdapterAmbiguous, RecordAcked, RecordFailed,
         RecordAmbiguous, Settle
<1>2. ASSUME UNCHANGED targetVars, NEW answer, Return(w, answer)
      PROVE  Kept
  BY <1>2 DEF Return
<1>3. ASSUME UNCHANGED targetVars, NEW s, s \notin {"idle", "answered"}, Goto(w, s)
      PROVE  Kept
  BY <1>3 DEF Goto, EvidenceInv, targetVars
<1>4. ASSUME NEW s, NEW clear, NEW answer, Settle(w, s, clear, answer)
      PROVE  Kept
  BY <1>2, <1>4 DEF Settle, MirrorFails
<1>5. CASE Lookup(w)
  <2> UNCHANGED targetVars
    BY <1>5 DEF Lookup
  <2>1. CASE records[task[w]] = NoRecord
    BY <1>3, <1>5, <2>1 DEF Lookup, NoRecord
  <2>2. CASE records[task[w]] = "verified_not_found"
    BY <1>5, <2>2 DEF Lookup, NoRecord, EvidenceInv, targetVars
  <2>3. CASE records[task[w]] \notin {NoRecord, "verified_not_found"}
    BY <1>2, <1>5, <2>3 DEF Lookup
  <2> QED
    BY <2>1, <2>2, <2>3
<1>6. CASE Reread(w)
  <2> UNCHANGED targetVars
    BY <1>6 DEF Reread
  <2>1. CASE records[task[w]] = "intent_logged"
    BY <1>3, <1>6, <2>1 DEF Reread, NoRecord
  <2>2. CASE records[task[w]] # "intent_logged"
    BY <1>2, <1>6, <2>2 DEF Reread, NoRecord
  <2> QED
    BY <2>1, <2>2
<1>7. CASE LogIntent(w)
  BY <1>2, <1>3, <1>7 DEF LogIntent, MirrorFails
<1>8. CASE Dispatch(w)
  BY <1>2, <1>3, <1>8 DEF Dispatch, MirrorFails
<1>9. CASE Invoke(w) \/ Rejected(w)
  BY <1>9 DEF Invoke, Rejected
<1>10. CASE Arrives(w)
  BY <1>10, ApplyLeavesEvidence DEF Arrives, EvidenceInv
<1>11. CASE AdapterReturns(w)
  BY <1>11 DEF AdapterReturns, Goto, EvidenceInv, targetVars
<1>12. CASE AdapterErrs(w) \/ AdapterAmbiguous(w)
  BY <1>3, <1>12 DEF AdapterErrs, AdapterAmbiguous
<1>13. CASE RecordAcked(w) \/ RecordFailed(w) \/ RecordAmbiguous(w)
  BY <1>4, <1>13 DEF RecordAcked, RecordFailed, RecordAmbiguous
<1> QED
  BY <1>5, <1>6, <1>7, <1>8, <1>9, <1>10, <1>11, <1>12, <1>13 DEF ContinueCall, WorkerStep

(* What every thread has been told stays true.                             *)
LEMMA ThreadsKeepEvidence ==
  ASSUME DistinctWrites, TypeOK, EvidenceInv, [Next]_vars, NEW w \in Workers
  PROVE  /\ pc'[w] = "idle" => wire'[w] = "none"
         /\ pc'[w] = "answered" => wire'[w] = "applied"
         /\ wire'[w] = "applied" /\ task'[w] \in Writes => commits'[task'[w]] > 0
<1> USE DEF TypeOK, CallTypeOK
<1> task[w] \in Exec
  OBVIOUS
<1>1. CASE ContinueCall(w)
  BY <1>1, OwnStepKeepsEvidence
<1>2. CASE pc'[w] = pc[w] /\ task'[w] = task[w] /\ wire'[w] = wire[w]
  BY <1>2, EffectsRemain DEF EvidenceInv
<1>3. ASSUME NEW v \in Workers, v # w, ContinueCall(v)
      PROVE  pc'[w] = pc[w] /\ task'[w] = task[w] /\ wire'[w] = wire[w]
  BY <1>3, OtherThreadsStay
<1>4. ASSUME NEW v \in Workers, NEW e \in Exec, StartCall(v, e)
      PROVE  \/ pc'[w] = pc[w] /\ task'[w] = task[w] /\ wire'[w] = wire[w]
             \/ pc'[w] = "lookup" /\ wire'[w] = "none"
  BY <1>4 DEF StartCall, Call, EvidenceInv
<1>5. CASE StartPass \/ ContinuePass \/ UNCHANGED vars
  BY <1>2, <1>5 DEF StartPass, ContinuePass, vars, callVars
<1>6. ASSUME NEW e \in Exec, WindowPasses(e) \/ Network(e)
      PROVE  pc'[w] = pc[w] /\ task'[w] = task[w] /\ wire'[w] = wire[w]
  BY <1>6 DEF WindowPasses, Network, callVars
<1>7. CASE Crash
  BY <1>7 DEF Crash
<1> QED
  BY <1>1, <1>2, <1>3, <1>4, <1>5, <1>6, <1>7 DEF Next

-----------------------------------------------------------------------------
(* The verifier and the records                                            *)

(* A verdict "committed" is about an effect when it is given, and remains. *)
LEMMA VerdictStaysTrue ==
  ASSUME TypeOK, EvidenceInv, [Next]_vars, step' = "verdict", verdict' = "committed"
  PROVE  current' \in Writes /\ commits'[current'] > 0
<1> USE DEF TypeOK, PassTypeOK
<1>1. CASE step' = step /\ verdict' = verdict /\ current' = current
  BY <1>1, EffectsRemain DEF EvidenceInv
<1>2. ASSUME NEW w \in Workers, ContinueCall(w) \/ \E e \in Exec : StartCall(w, e)
      PROVE  step' = step /\ verdict' = verdict /\ current' = current
  BY <1>2 DEF ContinueCall, StartCall, passVars
<1>3. CASE StartPass
  BY <1>3 DEF StartPass, BeginPass, BeginPassWith
<1>4. CASE ContinuePass
  <2>1. ASSUME NEW e \in Exec, Probe(e)
        PROVE  current' \in Writes /\ commits'[current'] > 0
    <3>1. e \in Writes /\ current' = e /\ Found(e) /\ commits' = commits
      BY <2>1 DEF Probe, Verifiable, targetVars
    <3> QED
      BY <3>1 DEF EvidenceInv
  <2>2. ASSUME NEW e \in Exec, DecideOne(e)
        PROVE  step' # "verdict"
    <3>1. step' = "reconcile" \/ step' = step
      BY <2>2 DEF DecideOne
    <3> QED
      BY <2>2, <3>1 DEF DecideOne
  <2>3. ~ListPending /\ ~Reconcile /\ ~FinishPass
    BY DEF ListPending, Reconcile, FinishPass
  <2>4. ~RecordVerdict /\ ~AppendToolMessage
    BY DEF RecordVerdict, RecordFound, RecordAbsent, AppendToolMessage, MirrorFailsInPass,
           EndPass
  <2> QED
    BY <1>4, <2>1, <2>2, <2>3, <2>4 DEF ContinuePass, PassStep
<1>5. ASSUME NEW e \in Exec, WindowPasses(e) \/ Network(e)
      PROVE  step' = step /\ verdict' = verdict /\ current' = current
  BY <1>5 DEF WindowPasses, Network, passVars
<1>6. ~Crash
  BY DEF Crash
<1>7. CASE UNCHANGED vars
  BY <1>1, <1>7 DEF vars, passVars
<1> QED
  BY <1>1, <1>2, <1>3, <1>4, <1>5, <1>6, <1>7 DEF Next

(* A record becomes committed only by an acknowledgement or by a verdict.  *)
LEMMA CommitsComeFromEvidence ==
  ASSUME TypeOK, [Next]_vars, NEW e \in Exec,
         records[e] \notin Committed, records'[e] \in Committed
  PROVE  \/ \E w \in Workers : pc[w] = "answered" /\ task[w] = e
         \/ step = "verdict" /\ verdict = "committed" /\ current = e
<1> USE DEF TypeOK, JournalTypeOK, Committed
<1>1. ASSUME NEW f \in Exec, RecordToolIntent(f)
      PROVE  FALSE
  BY <1>1 DEF RecordToolIntent, journalVars
<1>2. ASSUME NEW f \in Exec, RecordToolDispatch(f)
      PROVE  FALSE
  BY <1>2 DEF RecordToolDispatch
<1>3. ASSUME NEW f \in Exec, NEW s, NEW clear, RecordToolResult(f, s, clear)
      PROVE  f = e /\ s \in Committed
  BY <1>3 DEF RecordToolResult
<1>4. ASSUME NEW w \in Workers, ContinueCall(w)
      PROVE  pc[w] = "answered" /\ task[w] = e
  <2> task[w] \in Exec
    BY DEF CallTypeOK
  <2>1. ASSUME NEW s, NEW clear, NEW answer, Settle(w, s, clear, answer)
        PROVE  task[w] = e /\ s \in Committed
    <3>1. RecordToolResult(task[w], s, clear)
      BY <2>1 DEF Settle, journalVars
    <3> QED
      BY <1>3, <3>1
  <2>2. CASE RecordAcked(w)
    BY <2>1, <2>2 DEF RecordAcked
  <2>3. ~RecordFailed(w)
    <3>1. ASSUME Settle(w, "failed", TRUE, "failed")
          PROVE  FALSE
      <4>1. "failed" \in Committed
        BY <2>1, <3>1
      <4> QED
        BY <4>1
    <3> QED
      BY <3>1 DEF RecordFailed
  <2>4. ~RecordAmbiguous(w)
    <3>1. ASSUME NEW s \in {"verified_not_found", "dispatched", "failed"}, NEW clear, NEW answer,
                 Settle(w, s, clear, answer)
          PROVE  FALSE
      BY <2>1, <3>1
    <3> QED
      BY <3>1 DEF RecordAmbiguous
  <2>5. CASE LogIntent(w)
    BY <1>1, <2>5 DEF LogIntent
  <2>6. CASE Dispatch(w)
    BY <1>2, <2>6 DEF Dispatch, journalVars
  <2>7. UNCHANGED journalVars => FALSE
    BY DEF journalVars
  <2> QED
    BY <1>4, <2>2, <2>3, <2>4, <2>5, <2>6, <2>7
       DEF ContinueCall, WorkerStep, Lookup, Reread, Invoke, Arrives, Rejected,
           AdapterReturns, AdapterErrs, AdapterAmbiguous
<1>5. ASSUME ContinuePass
      PROVE  step = "verdict" /\ verdict = "committed" /\ current = e
  <2> current \in Exec
    BY DEF PassTypeOK
  <2>1. ~RecordAbsent
    <3>1. ASSUME RecordToolResult(current, "verified_not_found", FALSE)
          PROVE  FALSE
      <4>1. "verified_not_found" \in Committed
        BY <1>3, <3>1
      <4> QED
        BY <4>1
    <3> QED
      BY <3>1 DEF RecordAbsent
  <2>2. RecordFound => current = e
    BY <1>3 DEF RecordFound
  <2>3. CASE RecordVerdict
    BY <2>1, <2>2, <2>3 DEF RecordVerdict, journalVars
  <2>4. CASE ~RecordVerdict
    <3>1. UNCHANGED journalVars
      BY <1>5, <2>4 DEF ContinuePass, PassStep, ListPending, Reconcile, AppendToolMessage,
                        FinishPass, DecideOne, Probe
    <3> QED
      BY <3>1 DEF journalVars
  <2> QED
    BY <2>3, <2>4
<1>6. ~UNCHANGED journalVars
  BY DEF journalVars
<1> QED
  BY <1>4, <1>5, <1>6
     DEF Next, StartCall, Call, StartPass, BeginPass, BeginPassWith, WindowPasses, Network,
         Crash, vars

(* The evidence stays true, and so do the records that rest on it.         *)
LEMMA EvidenceStays ==
  ASSUME DistinctWrites, TypeOK, EvidenceInv, CommittedIsReal, [Next]_vars
  PROVE  EvidenceInv' /\ CommittedIsReal'
<1>1. \A e \in Writes : Found(e)' => commits'[e] > 0
  BY EvidenceStaysTrue
<1>2. \A w \in Workers :
        /\ pc'[w] = "idle" => wire'[w] = "none"
        /\ pc'[w] = "answered" => wire'[w] = "applied"
        /\ wire'[w] = "applied" /\ task'[w] \in Writes => commits'[task'[w]] > 0
  BY ThreadsKeepEvidence
<1>3. step' = "verdict" /\ verdict' = "committed"
        => current' \in Writes /\ commits'[current'] > 0
  BY VerdictStaysTrue
<1>4. ASSUME NEW e \in Writes, records'[e] \in Committed
      PROVE  commits'[e] > 0
  <2> e \in Exec
    BY WritesAssumption
  <2>1. commits[e] > 0
    BY <1>4, CommitsComeFromEvidence DEF EvidenceInv, CommittedIsReal
  <2> QED
    BY <2>1, EffectsRemain
<1>5. EvidenceInv'
  BY <1>1, <1>2, <1>3 DEF EvidenceInv, Found
<1> QED
  BY <1>4, <1>5 DEF CommittedIsReal

(* Nothing has been found, answered or recorded at the start.              *)
LEMMA EvidenceAtTheStart == Init => EvidenceInv /\ CommittedIsReal
BY WritesAssumption
   DEF Init, TargetInit, CallInit, PassInit, JournalInit, EvidenceInv, CommittedIsReal,
       Found, Committed, NoRecord

(* If no two writes store the same value, then whatever is lost, delayed   *)
(* or repeated, and whichever thread or pass settles it, a write recorded  *)
(* as committed has taken effect at the target.                            *)
THEOREM CommittedMeansApplied ==
  ASSUME DistinctWrites
  PROVE  Spec => []CommittedIsReal
BY EvidenceAtTheStart, EvidenceStays, TypeCorrect, PTL DEF Spec
-----------------------------------------------------------------------------
(* Reconciliation with the context                                         *)

(* Between the reading of the context and the append nothing else writes   *)
(* a tool message: the pass is the only writer of them.                    *)
ReconcileInv ==
  /\ ReconciledOnce
  /\ step = "append" => toolMsgs[current] = 0

(* A step of the pass copies a message only where it found none, and       *)
(* reports a result as committed only where there is one.                  *)
LEMMA PassKeepsReconciled ==
  ASSUME TypeOK, ReconcileInv, BeginPass \/ PassStep
  PROVE  ReconcileInv'
<1> USE DEF TypeOK, PassTypeOK, ReconcileInv, ReconciledOnce
<1> DEFINE Once == \A e \in Exec : /\ toolMsgs'[e] <= 1
                                   /\ decision'[e] = "mark_committed" => toolMsgs'[e] = 1
<1>1. ASSUME EndPass("raised") \/ EndPass("aborted"), UNCHANGED toolMsgs
      PROVE  Once
  BY <1>1 DEF EndPass, NoDecisions
<1>2. ASSUME NEW e \in Exec, NEW action \in Actions, Decided(e, action),
             action = "mark_committed" => toolMsgs[e] = 1, UNCHANGED toolMsgs
      PROVE  Once
  BY <1>2 DEF Decided
<1>3. CASE BeginPass \/ ListPending \/ FinishPass
  BY <1>3 DEF BeginPass, BeginPassWith, ListPending, FinishPass, NoDecisions
<1>4. ASSUME NEW e \in Exec, DecideOne(e)
      PROVE  ReconcileInv'
  <2> DEFINE action == IF snapshot[e] = NoRecord THEN "handoff"
                       ELSE Decide(snapshot[e], e \notin overdue)
  <2>1. action \in Actions
    BY DecideType DEF Actions
  <2>2. CASE action = "mark_committed"
    BY <1>4, <2>2 DEF DecideOne
  <2>3. CASE action # "mark_committed"
    <3>1. Decided(e, action) /\ UNCHANGED <<step, toolMsgs>> /\ step = "scan"
      BY <1>4, <2>3 DEF DecideOne
    <3>2. Once
      BY <1>2, <2>1, <2>3, <3>1
    <3> QED
      BY <3>1, <3>2
  <2> QED
    BY <2>2, <2>3
<1>5. ASSUME NEW e \in Exec, Probe(e)
      PROVE  ReconcileInv'
  BY <1>5 DEF Probe
<1>6. CASE RecordVerdict
  <2> UNCHANGED toolMsgs
    BY <1>6 DEF RecordVerdict
  <2>1. CASE EndPass("raised") \/ EndPass("aborted")
    BY <1>1, <2>1 DEF EndPass
  <2>2. CASE step' = "reconcile" /\ UNCHANGED decision
    BY <2>2
  <2>3. ASSUME NEW action \in {"replay", "handoff"}, Decided(current, action), step' = "scan"
        PROVE  ReconcileInv'
    BY <1>2, <2>3 DEF Actions
  <2> QED
    BY <1>6, <2>1, <2>2, <2>3 DEF RecordVerdict, RecordFound, RecordAbsent, MirrorFailsInPass
<1>7. CASE Reconcile
  <2>1. CASE toolMsgs[current] > 0
    <3>1. toolMsgs[current] = 1
      BY <2>1
    <3>2. Once
      BY <1>2, <1>7, <2>1, <3>1 DEF Reconcile, Actions
    <3> QED
      BY <1>7, <2>1, <3>2 DEF Reconcile
  <2>2. CASE ~(toolMsgs[current] > 0)
    BY <1>7, <2>2 DEF Reconcile
  <2> QED
    BY <2>1, <2>2
<1>8. CASE AppendToolMessage
  <2>1. toolMsgs' = [toolMsgs EXCEPT ![current] = 1]
    BY <1>8 DEF AppendToolMessage
  <2>2. CASE Decided(current, "mark_committed") /\ step' = "scan"
    BY <2>1, <2>2 DEF Decided
  <2>3. CASE EndPass("aborted")
    BY <2>1, <2>3 DEF EndPass, NoDecisions
  <2> QED
    BY <1>8, <2>2, <2>3 DEF AppendToolMessage, MirrorFailsInPass
<1> QED
  BY <1>3, <1>4, <1>5, <1>6, <1>7, <1>8 DEF PassStep

(* No other step writes a tool message.                                    *)
LEMMA ReconciledStays ==
  ASSUME TypeOK, ReconcileInv, [Next]_vars
  PROVE  ReconcileInv'
<1>1. CASE StartPass \/ ContinuePass
  BY <1>1, PassKeepsReconciled DEF StartPass, ContinuePass
<1>2. CASE Crash
  BY <1>2 DEF Crash, NoDecisions, ReconcileInv, ReconciledOnce
<1>3. ASSUME UNCHANGED <<passVars, toolMsgs>>
      PROVE  ReconcileInv'
  BY <1>3 DEF passVars, ReconcileInv, ReconciledOnce
<1> QED
  BY <1>1, <1>2, <1>3
     DEF Next, ContinueCall, StartCall, WindowPasses, Network, vars

(* The context has no tool message at the start.                           *)
LEMMA ReconciledAtTheStart == Init => ReconcileInv
BY DEF Init, PassInit, NoDecisions, ReconcileInv, ReconciledOnce

(* However often a run is recovered and wherever its passes are cut short, *)
(* a committed result is copied into the context at most once, and a pass  *)
(* reports it as committed only when the context has it.                   *)
THEOREM CopiedOnce == Spec => []ReconciledOnce
<1>1. ReconcileInv => ReconciledOnce
  BY DEF ReconcileInv
<1> QED
  BY <1>1, ReconciledAtTheStart, ReconciledStays, TypeCorrect, PTL DEF Spec
=============================================================================
