------------------------- MODULE CrashMatrixProofs -------------------------
(***************************************************************************)
(* The driver's verdict on the sample agent, for any plan of distinct      *)
(* writes and reads: wherever the first process was stopped between calls, *)
(* and whichever request or response was lost before it, the second one    *)
(* brings every write to one effect.  Neither keys nor a target that       *)
(* dedupes are needed, because a verifier is: what it finds absent has not *)
(* been applied, and nothing sent before is still under way.               *)
(***************************************************************************)
EXTENDS CrashMatrix, AgentLoopProofs

-----------------------------------------------------------------------------
(* The crash experiment                                                    *)

(* The plan holds every write, and recovery has a verifier, which can tell *)
(* the writes apart.                                                       *)
SweepPlan ==
  /\ HasVerifier /\ DistinctWrites
  /\ Writes \subseteq {Script[k] : k \in DOMAIN Script}

(* The agent's request for an execution is on its way or answered, and its *)
(* outcome is not recorded yet.                                            *)
Sent(e) == task[Agent] = e /\ pc[Agent] \in {"waiting", "ambiguous", "answered"}

(* A write has taken effect once, where the verifier can find it.          *)
Landed(e) == commits[e] = 1 /\ Found(e)

(* Where the driver and the agent are, relative to each other.             *)
DriverControl ==
  /\ driver \in {"launch", "restart"} => at = "down"
  /\ driver \in {"crash-child", "resume-child"} => at \notin {"down", "finished"}
  /\ driver = "judge" => Writes \subseteq done

(* As long as no request or response has been lost, a write is open only   *)
(* while its call is under way.                                            *)
OpenAfterFault(e) ==
  driver \in {"launch", "crash-child"} /\ faults = 0 =>
    /\ records[e] # "verified_not_found"
    /\ records[e] = "dispatched" =>
         task[Agent] = e /\ pc[Agent] \in {"invoke", "waiting", "answered"}

(* What the record of a write says of the target is so, up to the outcome  *)
(* that its call has yet to record.                                        *)
RecordTells(e) ==
  /\ records[e] \in {NoRecord, "intent_logged"} => commits[e] = 0
  /\ records[e] = "intent_logged" => task[Agent] = e /\ pc[Agent] \in {"reread", "dispatch"}
  /\ records[e] = "verified_not_found" /\ ~Sent(e) => commits[e] = 0
  /\ records[e] = "dispatched" => commits[e] = 0 \/ Landed(e)
  /\ records[e] \in Committed => commits[e] = 1
  /\ records[e] # "failed"

(* What the call on a write has come to.                                   *)
CallTells ==
  /\ pc[Agent] # "errored"
  /\ task[Agent] \in Writes =>
       /\ pc[Agent] = "invoke" => commits[task[Agent]] = 0
       /\ pc[Agent] = "waiting" =>
            IF wire[Agent] = "applied" THEN Landed(task[Agent]) ELSE commits[task[Agent]] = 0
       /\ pc[Agent] = "answered" => Landed(task[Agent])
       /\ pc[Agent] = "ambiguous" => Agent \notin replay

(* An execution that may have been sent is not about to be sent again.     *)
SentOnce(e) ==
  e \in unproven =>
    /\ \/ Sent(e)
       \/ records[e] \notin {NoRecord, "intent_logged", "verified_not_found"}
    /\ ~(task[Agent] = e /\ pc[Agent] = "invoke")

(* What a call that ends leaves of a write: its result, or an ambiguous    *)
(* outcome for recovery.                                                   *)
CallEnds(e) ==
  \/ reply[Agent] \in Success /\ records[e] \in Committed
  \/ reply[Agent] = "pending_recovery" /\ records[e] = "dispatched"

(* A verdict is given, and true; and what a pass knows of the candidate it *)
(* is about.                                                               *)
PassTells ==
  /\ step = "list" => decision = NoDecisions
  /\ step = "verdict" =>
       \/ verdict = "absent" /\ commits[current] = 0
       \/ verdict = "committed" /\ commits[current] = 1
  /\ step \in {"reconcile", "append"} => current \in todo /\ records[current] \in Committed

(* A pass will put an ambiguous write to the verifier.                     *)
ToBeVerified(e) ==
  /\ records[e] = "dispatched" /\ snapshot[e] = "dispatched" /\ e \in overdue
  /\ step # "idle" /\ (step = "list" \/ e \in todo)

(* A pass has decided that a write is to be replayed.                      *)
ToBeReplayed(e) ==
  records[e] = "verified_not_found" /\ decision[e] = "replay" /\ e \notin todo

(* A pass leaves a write committed, or to be replayed.                     *)
RecoverySettles(e) == records[e] \in Committed \/ ToBeVerified(e) \/ ToBeReplayed(e)

(* The loop leaves a write only when it is committed: what a call leaves   *)
(* open recovery verifies, and what it finds absent is executed again.     *)
ItemSettles ==
  at \in OnItem /\ Item \in Writes =>
    /\ at = "called" /\ pc[Agent] = "idle" => CallEnds(Item)
    /\ at = "recovering" =>
         \/ records[Item] \in Committed
         \/ reply[Agent] = "pending_recovery" /\ RecoverySettles(Item)
    /\ at = "replay" => records[Item] \in Committed \union {"verified_not_found"}
    /\ at = "replayed" =>
         \/ records[Item] \in Committed
         \/ records[Item] = "verified_not_found" /\ pc[Agent] # "idle"
    /\ at = "advance" => records[Item] \in Committed

DoneIsCommitted == \A e \in done \intersect Writes : records[e] \in Committed

(* What is known of the run: of its records, its call and its pass.        *)
RunTells ==
  /\ \A e \in Writes : RecordTells(e) /\ OpenAfterFault(e)
  /\ CallTells
  /\ \A e \in Exec : SentOnce(e) /\ late[e] = 0
  /\ resent = {}
  /\ PassTells

SweepInv ==
  driver # "void" => DriverControl /\ RunTells /\ ItemSettles /\ DoneIsCommitted

-----------------------------------------------------------------------------
(* A call in the experiment                                                *)

(* What is known of the run and its plan already.                          *)
Known == LoopInv /\ PlanInv /\ EvidenceInv /\ CommittedIsReal

(* A call is about the item in hand, no pass is under way, it touches the  *)
(* record of no other execution, and none of its own commits fails.        *)
LEMMA CallsInTheExperiment ==
  ASSUME Known, NoIllegalMove', OnlyInjectedFaults, ContinueCall(Agent)
  PROVE  /\ pc[Agent] # "idle" /\ step = "idle" /\ at \in Calling
         /\ task[Agent] = Item /\ task'[Agent] = task[Agent] /\ Item \in Exec
         /\ HasItem /\ Item \notin done
         /\ ~MirrorFails(Agent) /\ ~Return(Agent, "raised")
         /\ \A e \in Exec : e # task[Agent] => records'[e] = records[e]
<1> USE LoopAssumption DEF Known, LoopInv, RunInv
<1> Agent \in Workers
  OBVIOUS
<1>1. pc[Agent] # "idle" /\ step = "idle" /\ at \in Calling
  BY CallersAreBusy DEF LoopControl, AllIdle, Discipline, OneAtATime
<1>2. task[Agent] = Item /\ HasItem /\ Item \notin done /\ Item \in Exec
  BY <1>1 DEF LoopControl, Calling, OnItem, LoopTypeOK, HasItem, Item
<1>3. task'[Agent] = task[Agent] /\ \A e \in Exec : e # task[Agent] => records'[e] = records[e]
  BY CallStepKeepsRecord DEF Discipline, NoIllegalMove
<1>4. ASSUME NEW answer, Return(Agent, answer)
      PROVE  pc'[Agent] = "idle" /\ reply'[Agent] = answer
  BY <1>4 DEF Return, TypeOK, CallTypeOK
<1>5. ~Return(Agent, "raised")
  BY <1>4 DEF NoIllegalMove
<1>6. ~MirrorFails(Agent)
  BY <1>4 DEF MirrorFails, Fault, OnlyInjectedFaults, TypeOK, EnvironmentTypeOK
<1> QED
  BY <1>1, <1>2, <1>3, <1>5, <1>6

(* While a call is under way no other write is open: items run in plan     *)
(* order, and the writes that are done are committed.                      *)
LEMMA NoOtherWriteIsOpen ==
  ASSUME Known, SweepPlan, DoneIsCommitted, at \in Calling,
         NEW e \in Writes, records[e] = "dispatched"
  PROVE  e = Item
<1> USE LoopAssumption, WritesAssumption DEF Known, LoopInv
<1>1. HasItem /\ Item \notin done
  BY DEF LoopControl, Calling, OnItem
<1>2. stepIndex \in DOMAIN Script /\ Item = Script[stepIndex]
  BY <1>1 DEF LoopTypeOK, HasItem, Item
<1>3. PICK k \in DOMAIN Script : Script[k] = e
  BY DEF SweepPlan
<1>4. e \notin done
  BY DEF DoneIsCommitted, Committed
<1>5. ~(k < stepIndex)
  BY <1>1, <1>2, <1>3, <1>4, BeforeTheItemIsDone DEF Before
<1>6. ~(stepIndex < k)
  <2>1. Before(e) \subseteq done
    BY DEF PlanInv, PlanOrder, NoRecord
  <2> QED
    BY <1>1, <1>2, <1>3, <2>1 DEF Before
<1> QED
  BY <1>2, <1>3, <1>5, <1>6

(* A call leaves what is known of other executions as it is.               *)
LEMMA CallsLeaveOthers ==
  ASSUME Known, SweepPlan, DoneIsCommitted, NoIllegalMove', OnlyInjectedFaults,
         ContinueCall(Agent), UNCHANGED driver, NEW e \in Exec, e # task[Agent]
  PROVE  /\ e \in Writes /\ RecordTells(e) => RecordTells(e)'
         /\ e \in Writes /\ OpenAfterFault(e) => OpenAfterFault(e)'
         /\ SentOnce(e) => SentOnce(e)'
<1> USE DEF Known, LoopInv, RunInv, TypeOK
<1>1. /\ task'[Agent] = task[Agent] /\ records'[e] = records[e] /\ task[Agent] \in Exec
      /\ at \in Calling /\ task[Agent] = Item
  BY CallsInTheExperiment
<1>2. ~Sent(e) /\ ~Sent(e)'
  BY <1>1 DEF Sent
<1>3. faults' = 0 => faults = 0
  BY DEF OnlyInjectedFaults, EnvironmentTypeOK
<1>4. /\ commits'[e] = commits[e]
      /\ e \in Writes /\ records[e] = "dispatched" /\ Found(e) => Found(e)'
  <2>1. CASE UNCHANGED targetVars
    BY <2>1 DEF targetVars, Found
  <2>2. CASE Apply(task[Agent])
    <3>1. commits'[e] = commits[e]
      BY <1>1, <2>2 DEF Apply, targetVars, TargetTypeOK
    <3>2. ~(e \in Writes /\ records[e] = "dispatched")
      BY <1>1, NoOtherWriteIsOpen
    <3> QED
      BY <3>1, <3>2
  <2>3. CASE Arrives(Agent)
    BY <2>2, <2>3 DEF Arrives
  <2>4. CASE ~Arrives(Agent)
    <3>1. UNCHANGED targetVars
      BY <2>4
         DEF ContinueCall, WorkerStep, Lookup, LogIntent, Reread, Dispatch, Invoke, Rejected,
             AdapterReturns, AdapterErrs, AdapterAmbiguous, RecordAcked, RecordFailed,
             RecordAmbiguous, Settle
    <3> QED
      BY <2>1, <3>1
  <2> QED
    BY <2>3, <2>4
<1>5. e \in unproven' => e \in unproven
  <2>1. CASE Invoke(Agent)
    BY <1>1, <2>1 DEF Invoke, NoteSend
  <2>2. CASE ~Invoke(Agent)
    <3>1. UNCHANGED historyVars
      BY <2>2
         DEF ContinueCall, WorkerStep, Lookup, LogIntent, Reread, Dispatch, Arrives, Rejected,
             AdapterReturns, AdapterErrs, AdapterAmbiguous, RecordAcked, RecordFailed,
             RecordAmbiguous, Settle, environmentVars
    <3> QED
      BY <3>1 DEF historyVars
  <2> QED
    BY <2>1, <2>2
<1>6. e \in Writes /\ RecordTells(e) => RecordTells(e)'
  BY <1>1, <1>2, <1>4 DEF RecordTells, Landed
<1>7. e \in Writes /\ OpenAfterFault(e) => OpenAfterFault(e)'
  BY <1>1, <1>3 DEF OpenAfterFault
<1>8. SentOnce(e) => SentOnce(e)'
  BY <1>1, <1>2, <1>5 DEF SentOnce
<1> QED
  BY <1>6, <1>7, <1>8

(* What is to be known of the execution a call is about.                   *)
CallInHand ==
  /\ CallTells /\ SentOnce(task[Agent]) /\ resent = {}
  /\ task[Agent] \in Writes => RecordTells(task[Agent]) /\ OpenAfterFault(task[Agent])

(* A step of a call keeps what is known of its execution; when the call    *)
(* ends it says so, and a replay ends with the result.                     *)
LEMMA CallsSettle ==
  ASSUME Known, NoIllegalMove', OnlyInjectedFaults,
         ContinueCall(Agent), driver \in {"crash-child", "resume-child"}, UNCHANGED driver,
         CallInHand
  PROVE  /\ CallInHand'
         /\ task[Agent] \in Writes =>
              /\ pc'[Agent] = "idle" => CallEnds(task[Agent])'
              /\ records[task[Agent]] \in Committed \union {"verified_not_found"} =>
                   \/ records'[task[Agent]] \in Committed
                   \/ records'[task[Agent]] = "verified_not_found" /\ pc'[Agent] # "idle"
<1> USE LoopAssumption DEF Known, LoopInv, RunInv, TypeOK, CallTypeOK
<1> Agent \in Workers
  OBVIOUS
<1> DEFINE t == task[Agent]
           write == t \in Writes
<1>1. /\ t \in Exec /\ task'[Agent] = t /\ t' = t
      /\ ~MirrorFails(Agent) /\ ~Return(Agent, "raised")
  BY CallsInTheExperiment
<1>2. CallKnows(Agent) /\ (write => WritesDispatchMarker(t))
  BY DEF Discipline, WritesDispatchMarker
<1>3. /\ faults' # faults => /\ driver = "crash-child" /\ faults = 0 /\ pc'[Agent] = "ambiguous"
      /\ faults' = 0 => faults = 0
  BY DEF OnlyInjectedFaults, EnvironmentTypeOK
<1>4. ASSUME UNCHANGED targetVars
      PROVE  commits' = commits /\ (Found(t)' <=> Found(t)) /\ (Landed(t)' <=> Landed(t))
  BY <1>1, <1>4 DEF targetVars, Found, Landed
<1>5. /\ journalVars' = journalVars => records' = records
      /\ historyVars' = historyVars => unproven' = unproven /\ resent' = resent
  BY DEF journalVars, historyVars
<1>6. ASSUME NEW answer, Return(Agent, answer)
      PROVE  pc'[Agent] = "idle" /\ reply'[Agent] = answer
  BY <1>6 DEF Return
<1> HIDE DEF t
<1>10. CASE Lookup(Agent)
  <2>1. /\ pc[Agent] = "lookup" /\ UNCHANGED <<records, unproven, resent, faults>>
        /\ commits' = commits /\ (Landed(t)' <=> Landed(t)) /\ ~Sent(t)
    BY <1>4, <1>5, <1>10 DEF Lookup, environmentVars, historyVars, Sent, t
  <2>2. CASE records[t] = NoRecord
    <3>1. pc'[Agent] = "intent"
      BY <1>10, <2>2 DEF Lookup, Goto, NoRecord, t
    <3> QED
      BY <1>1, <2>1, <2>2, <3>1
         DEF CallInHand, CallTells, RecordTells, OpenAfterFault, SentOnce, Sent, NoRecord,
             Committed, t
  <2>3. CASE records[t] = "verified_not_found"
    <3>1. pc'[Agent] = "invoke"
      BY <1>10, <2>3 DEF Lookup, NoRecord, t
    <3> QED
      BY <1>1, <2>1, <2>3, <3>1
         DEF CallInHand, CallTells, RecordTells, OpenAfterFault, SentOnce, Sent, NoRecord,
             Committed, t
  <2>4. CASE records[t] \notin {NoRecord, "verified_not_found"}
    <3>1. pc'[Agent] = "idle" /\ reply'[Agent] = Answer(records[t])
      BY <1>6, <1>10, <2>4 DEF Lookup, t
    <3>2. write => records[t] \in Committed \union {"dispatched"}
      BY <1>1, <2>1, <2>4
         DEF CallInHand, RecordTells, JournalTypeOK, Statuses, Committed, t
    <3>3. write => CallEnds(t)'
      BY <1>1, <2>1, <3>1, <3>2 DEF Answer, Committed, Unsettled, CallEnds, Success
    <3>4. write => OpenAfterFault(t)' /\ RecordTells(t)'
      BY <1>1, <2>1, <2>4, <3>1
         DEF CallInHand, RecordTells, OpenAfterFault, Sent, t
    <3> QED
      BY <1>1, <2>1, <2>4, <3>1, <3>2, <3>3, <3>4
         DEF CallInHand, CallTells, SentOnce, Sent, Committed, t
  <2> QED
    BY <2>2, <2>3, <2>4
<1>11. CASE LogIntent(Agent)
  <2>1. pc[Agent] = "intent" /\ records[t] = NoRecord /\ t \notin intents
    BY <1>1, <1>2, <1>11 DEF LogIntent, CallKnows, AuditClean, t
  <2>2. /\ records' = [records EXCEPT ![t] = "intent_logged"] /\ pc'[Agent] = "reread"
        /\ UNCHANGED <<targetVars, historyVars, faults>>
    BY <1>1, <1>11, <2>1 DEF LogIntent, RecordToolIntent, IntentExists, Goto, t
  <2>3. commits' = commits /\ (Landed(t)' <=> Landed(t)) /\ UNCHANGED <<unproven, resent>>
    BY <1>4, <1>5, <2>2
  <2>4. records'[t] = "intent_logged" /\ t \notin unproven /\ (write => commits[t] = 0)
    BY <1>1, <2>1, <2>2
       DEF JournalTypeOK, CallInHand, SentOnce, Sent, RecordTells, t
  <2> QED
    BY <1>1, <2>1, <2>2, <2>3, <2>4
       DEF CallInHand, CallTells, RecordTells, OpenAfterFault, SentOnce, Sent, NoRecord,
           Committed, t
<1>12. CASE Reread(Agent)
  <2>1. pc[Agent] = "reread" /\ records[t] = "intent_logged"
    BY <1>2, <1>12 DEF Reread, CallKnows, t
  <2>2. /\ pc'[Agent] = IF WritesDispatchMarker(t) THEN "dispatch" ELSE "invoke"
        /\ UNCHANGED <<journalVars, targetVars, historyVars, faults>>
    BY <1>12, <2>1 DEF Reread, Goto, NoRecord, environmentVars, t
  <2>3. /\ commits' = commits /\ (Landed(t)' <=> Landed(t))
        /\ UNCHANGED <<records, unproven, resent>>
    BY <1>4, <1>5, <2>2
  <2>4. t \notin unproven
    BY <2>1 DEF CallInHand, SentOnce, Sent, t
  <2> QED
    BY <1>1, <1>2, <2>1, <2>2, <2>3, <2>4
       DEF CallInHand, CallTells, RecordTells, OpenAfterFault, SentOnce, Sent, NoRecord,
           Committed, t
<1>13. CASE Dispatch(Agent)
  <2>1. pc[Agent] = "dispatch" /\ records[t] = "intent_logged"
    BY <1>2, <1>13 DEF Dispatch, CallKnows, t
  <2>2. /\ records' = [records EXCEPT ![t] = "dispatched"] /\ pc'[Agent] = "invoke"
        /\ UNCHANGED <<targetVars, historyVars, faults>>
    BY <1>1, <1>13, <2>1 DEF Dispatch, RecordToolDispatch, Goto, t
  <2>3. commits' = commits /\ (Landed(t)' <=> Landed(t)) /\ UNCHANGED <<unproven, resent>>
    BY <1>4, <1>5, <2>2
  <2>4. records'[t] = "dispatched" /\ t \notin unproven /\ (write => commits[t] = 0)
    BY <1>1, <2>1, <2>2
       DEF JournalTypeOK, CallInHand, SentOnce, Sent, RecordTells, t
  <2> QED
    BY <1>1, <2>1, <2>2, <2>3, <2>4
       DEF CallInHand, CallTells, RecordTells, OpenAfterFault, SentOnce, Sent, NoRecord,
           Committed, t
<1>14. CASE Invoke(Agent)
  <2>1. /\ pc[Agent] = "invoke" /\ pc'[Agent] = "waiting" /\ wire'[Agent] = "out"
        /\ UNCHANGED <<journalVars, targetVars, faults, replay>>
        /\ unproven' = unproven \union {t}
        /\ t \notin unproven => resent' = resent
    BY <1>14 DEF Invoke, NoteSend, t
  <2>2. commits' = commits /\ (Landed(t)' <=> Landed(t)) /\ records' = records
    BY <1>4, <1>5, <2>1
  <2>3. t \notin unproven /\ Sent(t)' /\ ~Sent(t)
    BY <1>1, <2>1 DEF CallInHand, SentOnce, Sent, t
  <2>4. write => records[t] \in {"verified_not_found", "dispatched"} /\ commits[t] = 0
    BY <1>2, <2>1 DEF CallInHand, CallKnows, Sending, CallTells, t
  <2> QED
    BY <1>1, <2>1, <2>2, <2>3, <2>4
       DEF CallInHand, CallTells, RecordTells, OpenAfterFault, SentOnce, NoRecord, Committed, t
<1>15. CASE Arrives(Agent)
  <2>1. /\ pc[Agent] = "waiting" /\ pc'[Agent] = "waiting"
        /\ wire[Agent] = "out" /\ wire'[Agent] = "applied"
        /\ UNCHANGED <<journalVars, historyVars, faults, replay>>
        /\ Apply(t)
    BY <1>15 DEF Arrives, environmentVars, t
  <2>2. records' = records /\ UNCHANGED <<unproven, resent>>
    BY <1>5, <2>1
  <2>3. Sent(t)' /\ Sent(t)
    BY <1>1, <2>1 DEF Sent, t
  <2>4. write => Landed(t)' /\ commits'[t] = 1
    <3> SUFFICES ASSUME write
                 PROVE  Landed(t)' /\ commits'[t] = 1
      OBVIOUS
    <3>1. commits[t] = 0
      BY <2>1 DEF CallInHand, CallTells, t
    <3>2. ~Found(t)
      BY <3>1 DEF EvidenceInv
    <3>3. ~Duplicate(t)
      BY <3>2 DEF Duplicate, Found
    <3>4. commits'[t] = 1 /\ domain' = Value[t]
      BY <1>1, <2>1, <3>1, <3>3 DEF Apply, TargetTypeOK
    <3> QED
      BY <1>1, <3>4 DEF Landed, Found
  <2>5. write => records[t] \in {"verified_not_found", "dispatched"}
    BY <1>2, <2>1 DEF CallKnows, Sending, t
  <2> QED
    BY <1>1, <2>1, <2>2, <2>3, <2>4, <2>5
       DEF CallInHand, CallTells, RecordTells, OpenAfterFault, SentOnce, NoRecord, Committed, t
<1>16. CASE Rejected(Agent)
  <2>1. /\ pc[Agent] = "waiting" /\ pc'[Agent] = "waiting"
        /\ wire[Agent] = "out" /\ wire'[Agent] = "rejected"
        /\ UNCHANGED <<journalVars, targetVars, historyVars, faults, replay>>
    BY <1>16 DEF Rejected, environmentVars, t
  <2>2. /\ commits' = commits /\ (Landed(t)' <=> Landed(t))
        /\ UNCHANGED <<records, unproven, resent>>
    BY <1>4, <1>5, <2>1
  <2>3. Sent(t)' /\ Sent(t)
    BY <1>1, <2>1 DEF Sent, t
  <2> QED
    BY <1>1, <2>1, <2>2, <2>3
       DEF CallInHand, CallTells, RecordTells, OpenAfterFault, SentOnce, NoRecord, Committed, t
<1>17. CASE AdapterReturns(Agent)
  <2>1. /\ pc[Agent] = "waiting" /\ pc'[Agent] = "answered" /\ wire[Agent] = "applied"
        /\ UNCHANGED <<journalVars, targetVars, historyVars, faults, replay>>
    BY <1>17 DEF AdapterReturns, Goto, environmentVars, t
  <2>2. /\ commits' = commits /\ (Landed(t)' <=> Landed(t))
        /\ UNCHANGED <<records, unproven, resent>>
    BY <1>4, <1>5, <2>1
  <2>3. Sent(t)' /\ Sent(t)
    BY <1>1, <2>1 DEF Sent, t
  <2> QED
    BY <1>1, <2>1, <2>2, <2>3
       DEF CallInHand, CallTells, RecordTells, OpenAfterFault, SentOnce, NoRecord, Committed, t
<1>18. CASE AdapterErrs(Agent) \/ RecordFailed(Agent)
  <2>1. pc'[Agent] # "errored" /\ pc[Agent] # "errored"
    BY DEF OnlyInjectedFaults, CallInHand, CallTells
  <2> QED
    BY <1>18, <2>1 DEF AdapterErrs, RecordFailed, Goto
<1>19. CASE AdapterAmbiguous(Agent)
  <2>1. /\ pc[Agent] = "waiting" /\ pc'[Agent] = "ambiguous"
        /\ UNCHANGED <<journalVars, targetVars, historyVars, replay>>
        /\ faults' # faults
    BY <1>19 DEF AdapterAmbiguous, Goto, Fault, EnvironmentTypeOK, t
  <2>2. /\ commits' = commits /\ (Landed(t)' <=> Landed(t))
        /\ UNCHANGED <<records, unproven, resent>>
    BY <1>4, <1>5, <2>1
  <2>3. Sent(t)' /\ Sent(t)
    BY <1>1, <2>1 DEF Sent, t
  <2>4. driver = "crash-child" /\ faults = 0 /\ faults' # 0
    BY <1>3, <2>1
  <2>5. write => Agent \notin replay /\ records[t] = "dispatched"
    BY <1>2, <2>1, <2>4 DEF CallInHand, OpenAfterFault, CallKnows, Sending, t
  <2> QED
    BY <1>1, <2>1, <2>2, <2>3, <2>4, <2>5
       DEF CallInHand, CallTells, RecordTells, OpenAfterFault, SentOnce, NoRecord, Committed, t
<1>20. ASSUME NEW s, NEW clear, NEW answer, Settle(Agent, s, clear, answer)
       PROVE  /\ records' = [records EXCEPT ![t] = s] /\ records'[t] = s
              /\ pc'[Agent] = "idle" /\ reply'[Agent] = answer
              /\ commits' = commits /\ (Landed(t)' <=> Landed(t))
              /\ UNCHANGED <<unproven, resent, faults>>
  <2>1. /\ RecordToolResult(t, s, clear) /\ Return(Agent, answer)
        /\ UNCHANGED <<targetVars, historyVars, faults>>
    BY <1>1, <1>20 DEF Settle, t
  <2>2. records' = [records EXCEPT ![t] = s]
    BY <2>1 DEF RecordToolResult
  <2> QED
    BY <1>1, <1>4, <1>5, <1>6, <2>1, <2>2 DEF JournalTypeOK
<1>21. CASE RecordAcked(Agent)
  <2>1. pc[Agent] = "answered" /\ Settle(Agent, "acked", TRUE, "succeeded")
    BY <1>21 DEF RecordAcked
  <2>2. /\ records'[t] = "acked" /\ pc'[Agent] = "idle" /\ reply'[Agent] = "succeeded"
        /\ commits' = commits /\ (Landed(t)' <=> Landed(t))
        /\ UNCHANGED <<unproven, resent, faults>>
    BY <1>20, <2>1
  <2>3. write => commits[t] = 1
    BY <2>1 DEF CallInHand, CallTells, Landed, t
  <2> QED
    BY <1>1, <2>1, <2>2, <2>3
       DEF CallInHand, CallTells, CallEnds, Success, RecordTells, OpenAfterFault, SentOnce,
           NoRecord, Committed, t
<1>22. CASE RecordAmbiguous(Agent)
  <2>1. CASE write
    <3>1. pc[Agent] = "ambiguous" /\ Agent \notin replay /\ records[t] = "dispatched"
      BY <1>2, <1>22, <2>1 DEF RecordAmbiguous, CallInHand, CallTells, CallKnows, Sending, t
    <3>2. Settle(Agent, "dispatched", FALSE, "pending_recovery")
      BY <1>22, <2>1, <3>1 DEF RecordAmbiguous, t
    <3>3. /\ records'[t] = "dispatched" /\ pc'[Agent] = "idle"
          /\ reply'[Agent] = "pending_recovery"
          /\ commits' = commits /\ (Landed(t)' <=> Landed(t))
          /\ UNCHANGED <<unproven, resent, faults>>
      BY <1>20, <3>2
    <3> QED
      BY <1>1, <1>3, <2>1, <3>1, <3>3
         DEF CallInHand, CallTells, CallEnds, RecordTells, OpenAfterFault, SentOnce, Sent,
             NoRecord, Committed, t
  <2>2. CASE ~write
    <3>1. Settle(Agent, "failed", TRUE, "failed")
      BY <1>22, <2>2 DEF RecordAmbiguous, t
    <3>2. /\ records'[t] = "failed" /\ pc'[Agent] = "idle"
          /\ UNCHANGED <<unproven, resent, faults>>
      BY <1>20, <3>1
    <3> QED
      BY <1>1, <2>2, <3>2 DEF CallInHand, CallTells, SentOnce, NoRecord, t
  <2> QED
    BY <2>1, <2>2
<1> QED
  BY <1>10, <1>11, <1>12, <1>13, <1>14, <1>15, <1>16, <1>17, <1>18, <1>19, <1>21, <1>22
     DEF ContinueCall, WorkerStep

-----------------------------------------------------------------------------
(* A pass in the experiment                                                *)

(* A step of a pass keeps what is known, and what the pass would settle it *)
(* settles: an ambiguous write it does not decide before the verifier has  *)
(* answered.                                                               *)
LEMMA PassesSettle ==
  ASSUME Known, SweepPlan, NoIllegalMove', OnlyInjectedFaults, ContinuePass,
         UNCHANGED driver, RunTells
  PROVE  /\ RunTells'
         /\ \A e \in Writes : RecoverySettles(e) => RecoverySettles(e)'
<1> USE LoopAssumption, WritesAssumption
    DEF Known, LoopInv, RunInv, TypeOK, PassTypeOK
<1> Agent \in Workers
  OBVIOUS
<1>1. /\ step # "idle" /\ pc[Agent] = "idle" /\ pc' = pc /\ task' = task /\ replay' = replay
      /\ wire' = wire
  BY PassesAreBusy DEF ContinuePass, Discipline, OneAtATime, AllIdle, callVars
<1>2. faults' = faults
  BY <1>1 DEF OnlyInjectedFaults
<1>3. ~MirrorFailsInPass /\ ~EndPass("raised")
  BY <1>2 DEF MirrorFailsInPass, Fault, EndPass, NoIllegalMove, EnvironmentTypeOK
<1>4. commits' = commits /\ late' = late /\ \A e \in Exec : (Landed(e)' <=> Landed(e))
  <2>1. UNCHANGED targetVars
    BY DEF ContinuePass, PassStep, ListPending, RecordVerdict, Reconcile, AppendToolMessage,
           FinishPass, DecideOne, Probe
  <2> QED
    BY <2>1 DEF targetVars, Landed, Found, OnlyInjectedFaults
<1>5. \A e \in Exec : ~Sent(e) /\ ~Sent(e)'
  BY <1>1 DEF Sent
<1>6. CallTells'
  BY <1>1 DEF RunTells, CallTells
<1>7. ASSUME NEW e \in Writes, records'[e] = records[e]
      PROVE  RecordTells(e)' /\ OpenAfterFault(e)'
  BY <1>1, <1>2, <1>4, <1>5, <1>7 DEF RunTells, RecordTells, OpenAfterFault
<1>8. ASSUME NEW e \in Exec, records'[e] = records[e], e \in unproven' => e \in unproven
      PROVE  SentOnce(e)'
  BY <1>1, <1>5, <1>8 DEF RunTells, SentOnce
<1> DEFINE Told == /\ RunTells'
                   /\ \A e \in Writes : RecoverySettles(e) => RecoverySettles(e)'
<1>9. ASSUME UNCHANGED <<journalVars, historyVars>>, PassTells',
             \A e \in Writes : /\ ToBeVerified(e) => ToBeVerified(e)'
                               /\ ToBeReplayed(e) => ToBeReplayed(e)'
      PROVE  Told
  <2>1. UNCHANGED <<records, unproven, resent>>
    BY <1>9 DEF journalVars, historyVars
  <2>2. \A e \in Exec : SentOnce(e)'
    BY <1>8, <2>1
  <2>3. \A e \in Writes : RecordTells(e)' /\ OpenAfterFault(e)'
    BY <1>7, <2>1
  <2> QED
    BY <1>4, <1>6, <1>9, <2>1, <2>2, <2>3 DEF RunTells, RecoverySettles
<1> HIDE DEF Told
<1>10. ASSUME ListPending
       PROVE  Told
  <2>1. /\ step = "list" /\ step' = "scan" /\ decision = NoDecisions
        /\ todo' = {e \in Exec : snapshot[e] # NoRecord} \union pending
        /\ UNCHANGED <<journalVars, historyVars, snapshot, overdue, decision>>
    BY <1>10 DEF ListPending, environmentVars, RunTells, PassTells
  <2>2. records' = records
    BY <2>1 DEF journalVars
  <2>3. \A e \in Writes : /\ ToBeVerified(e) => ToBeVerified(e)'
                          /\ ToBeReplayed(e) => ToBeReplayed(e)'
    BY <2>1, <2>2 DEF ToBeVerified, ToBeReplayed, NoDecisions, NoRecord
  <2>4. PassTells'
    BY <2>1 DEF PassTells
  <2> QED
    BY <1>9, <2>1, <2>3, <2>4
<1>11. ASSUME NEW f \in Exec, NEW action, step \in {"scan", "reconcile", "append"}, f \in todo,
              step' = "scan", Decided(f, action), records[f] \in Committed \/ ~Verifiable(f),
              UNCHANGED <<journalVars, historyVars, snapshot, overdue>>
       PROVE  Told
  <2>1. records' = records
    BY <1>11 DEF journalVars
  <2>2. /\ decision' = [decision EXCEPT ![f] = action]
        /\ todo' = todo \ {f}
    BY <1>11 DEF Decided
  <2>3. ASSUME NEW e \in Writes, ToBeVerified(e)
        PROVE  ToBeVerified(e)'
    <3>1. e # f
      BY <1>11, <2>3 DEF ToBeVerified, Verifiable, SweepPlan, Committed
    <3> QED
      BY <1>11, <2>1, <2>2, <2>3, <3>1 DEF ToBeVerified
  <2>4. ASSUME NEW e \in Writes, ToBeReplayed(e)
        PROVE  ToBeReplayed(e)'
    <3>1. e # f
      BY <1>11, <2>4 DEF ToBeReplayed
    <3> QED
      BY <2>1, <2>2, <2>4, <3>1 DEF ToBeReplayed
  <2>5. PassTells'
    BY <1>11 DEF PassTells
  <2> QED
    BY <1>9, <1>11, <2>3, <2>4, <2>5
<1>12. ASSUME NEW f \in Exec, DecideOne(f)
       PROVE  Told
  <2> DEFINE action == IF snapshot[f] = NoRecord THEN "handoff"
                       ELSE Decide(snapshot[f], f \notin overdue)
  <2>1. /\ step = "scan" /\ f \in todo /\ ~Verifiable(f)
        /\ UNCHANGED <<journalVars, historyVars, snapshot, overdue>>
    BY <1>12 DEF DecideOne, environmentVars
  <2>2. CASE action = "mark_committed"
    <3>1. /\ step' = "reconcile" /\ current' = f /\ UNCHANGED <<todo, decision>>
      BY <1>12, <2>2 DEF DecideOne
    <3>2. records[f] = snapshot[f] /\ records' = records
      BY <2>1 DEF Discipline, SnapshotHolds, journalVars
    <3>3. records[f] \in Committed
      BY <2>2, <3>2 DEF Decide, Committed, JournalTypeOK, Statuses
    <3>4. PassTells'
      BY <2>1, <3>1, <3>2, <3>3 DEF PassTells
    <3>5. \A e \in Writes : /\ ToBeVerified(e) => ToBeVerified(e)'
                            /\ ToBeReplayed(e) => ToBeReplayed(e)'
      BY <2>1, <3>1, <3>2 DEF ToBeVerified, ToBeReplayed
    <3> QED
      BY <1>9, <2>1, <3>4, <3>5
  <2>3. CASE action # "mark_committed"
    <3>1. step' = "scan" /\ Decided(f, action)
      BY <1>12, <2>3 DEF DecideOne
    <3> HIDE DEF action
    <3> QED
      BY <1>11, <2>1, <3>1
  <2> QED
    BY <2>2, <2>3
<1>13. ASSUME NEW f \in Exec, Probe(f)
       PROVE  Told
  <2>1. /\ step = "scan" /\ f \in todo /\ Verifiable(f) /\ step' = "verdict" /\ current' = f
        /\ verdict' = IF Found(f) THEN "committed" ELSE "absent"
        /\ UNCHANGED <<journalVars, historyVars, snapshot, overdue, todo, decision>>
    BY <1>2, <1>13 DEF Probe, Fault, EnvironmentTypeOK
  <2>2. records' = records /\ records[f] = "dispatched" /\ f \in Writes
    BY <2>1 DEF Discipline, SnapshotHolds, journalVars, Verifiable
  <2>3. commits[f] = 0 \/ Landed(f)
    BY <2>2 DEF RunTells, RecordTells
  <2>4. IF Found(f) THEN commits[f] = 1 ELSE commits[f] = 0
    BY <2>2, <2>3 DEF EvidenceInv, Landed
  <2>5. PassTells'
    BY <1>4, <2>1, <2>4 DEF PassTells
  <2>6. \A e \in Writes : /\ ToBeVerified(e) => ToBeVerified(e)'
                          /\ ToBeReplayed(e) => ToBeReplayed(e)'
    BY <2>1, <2>2 DEF ToBeVerified, ToBeReplayed
  <2> QED
    BY <1>9, <2>1, <2>5, <2>6
<1>14. ASSUME RecordVerdict
       PROVE  Told
  <2> step = "verdict" /\ UNCHANGED <<snapshot, overdue, verdict>>
    BY <1>14 DEF RecordVerdict
  <2>1. current \in todo /\ current \in Writes /\ records[current] = "dispatched"
    BY DEF Discipline, SnapshotHolds, Verifiable
  <2>2. CanRecord(current, "verified_committed") /\ CanRecord(current, "verified_not_found")
    BY <2>1 DEF CanRecord, MayMove, AllowedNext, Statuses
  <2>3. CASE verdict = "committed"
    <3>1. RecordFound
      BY <1>14, <2>2, <2>3 DEF RecordVerdict
    <3>2. /\ records' = [records EXCEPT ![current] = "verified_committed"]
          /\ step' = "reconcile" /\ UNCHANGED <<todo, decision, current, historyVars>>
      BY <1>3, <3>1 DEF RecordFound, RecordToolResult
    <3>3. records'[current] = "verified_committed" /\ commits[current] = 1
      BY <2>1, <2>3, <3>2 DEF JournalTypeOK, RunTells, PassTells
    <3>4. \A e \in Exec : e # current => records'[e] = records[e]
      BY <3>2 DEF JournalTypeOK
    <3>5. UNCHANGED <<unproven, resent>>
      BY <3>2 DEF historyVars
    <3>6. RecordTells(current)' /\ OpenAfterFault(current)'
      BY <1>4, <3>2, <3>3 DEF RecordTells, OpenAfterFault, NoRecord, Committed
    <3>7. \A e \in Writes : RecordTells(e)' /\ OpenAfterFault(e)'
      BY <1>7, <3>2, <3>4, <3>6
    <3>8. \A e \in Exec : SentOnce(e)'
      <4>1. SentOnce(current)'
        BY <1>1, <3>2, <3>3 DEF SentOnce, NoRecord
      <4> QED
        BY <1>8, <3>2, <3>4, <3>5, <4>1
    <3>9. PassTells'
      BY <2>1, <3>2, <3>3 DEF PassTells, Committed
    <3>10. \A e \in Writes : RecoverySettles(e) => RecoverySettles(e)'
      <4> SUFFICES ASSUME NEW e \in Writes, e # current, RecoverySettles(e)
                   PROVE  RecoverySettles(e)'
        BY <3>2, <3>3 DEF RecoverySettles, Committed
      <4> QED
        BY <3>2, <3>4 DEF RecoverySettles, ToBeVerified, ToBeReplayed
    <3> QED
      BY <1>4, <1>6, <3>5, <3>7, <3>8, <3>9, <3>10 DEF Told, RunTells
  <2>4. CASE verdict = "absent"
    <3>1. RecordAbsent
      BY <1>14, <2>2, <2>4 DEF RecordVerdict
    <3>2. /\ records' = [records EXCEPT ![current] = "verified_not_found"]
          /\ step' = "scan" /\ UNCHANGED current
          /\ decision' = [decision EXCEPT ![current] = "replay"]
          /\ todo' = todo \ {current}
          /\ unproven' = unproven \ {current} /\ UNCHANGED resent
      BY <1>3, <3>1 DEF RecordAbsent, RecordToolResult, Decided, NoteAbsence
    <3>3. records'[current] = "verified_not_found" /\ commits[current] = 0
      BY <2>1, <2>4, <3>2 DEF JournalTypeOK, RunTells, PassTells
    <3>4. \A e \in Exec : e # current => records'[e] = records[e]
      BY <3>2 DEF JournalTypeOK
    <3>5. OpenAfterFault(current)'
      BY <1>1, <1>2, <2>1 DEF RunTells, OpenAfterFault
    <3>6. RecordTells(current)'
      BY <1>4, <3>2, <3>3 DEF RecordTells, NoRecord, Committed
    <3>7. \A e \in Writes : RecordTells(e)' /\ OpenAfterFault(e)'
      BY <1>7, <3>2, <3>4, <3>5, <3>6
    <3>8. \A e \in Exec : SentOnce(e)'
      <4>1. SentOnce(current)'
        BY <3>2 DEF SentOnce
      <4> QED
        BY <1>8, <3>2, <3>4, <4>1
    <3>9. PassTells'
      BY <3>2 DEF PassTells
    <3>10. \A e \in Writes : RecoverySettles(e) => RecoverySettles(e)'
      <4>1. RecoverySettles(current)'
        BY <3>2, <3>3 DEF RecoverySettles, ToBeReplayed
      <4> SUFFICES ASSUME NEW e \in Writes, e # current, RecoverySettles(e)
                   PROVE  RecoverySettles(e)'
        BY <3>2, <4>1
      <4> QED
        BY <3>2, <3>4 DEF RecoverySettles, ToBeVerified, ToBeReplayed
    <3> QED
      BY <1>4, <1>6, <3>2, <3>7, <3>8, <3>9, <3>10 DEF Told, RunTells
  <2> QED
    BY <2>3, <2>4 DEF RunTells, PassTells
<1>15. ASSUME Reconcile
       PROVE  Told
  <2>1. /\ step = "reconcile" /\ current \in todo /\ records[current] \in Committed
        /\ UNCHANGED <<journalVars, historyVars, snapshot, overdue, current>>
    BY <1>15 DEF Reconcile, environmentVars, RunTells, PassTells
  <2>2. CASE toolMsgs[current] > 0
    BY <1>11, <1>15, <2>1, <2>2 DEF Reconcile
  <2>3. CASE ~(toolMsgs[current] > 0)
    <3>1. step' = "append" /\ UNCHANGED <<todo, decision, records>>
      BY <1>15, <2>1, <2>3 DEF Reconcile, journalVars
    <3>2. PassTells'
      BY <2>1, <3>1 DEF PassTells
    <3>3. \A e \in Writes : /\ ToBeVerified(e) => ToBeVerified(e)'
                            /\ ToBeReplayed(e) => ToBeReplayed(e)'
      BY <2>1, <3>1 DEF ToBeVerified, ToBeReplayed
    <3> QED
      BY <1>9, <2>1, <3>2, <3>3
  <2> QED
    BY <2>2, <2>3
<1>16. ASSUME AppendToolMessage
       PROVE  Told
  <2>1. /\ step = "append" /\ current \in todo /\ records[current] \in Committed
        /\ UNCHANGED <<journalVars, historyVars, snapshot, overdue>>
        /\ Decided(current, "mark_committed") /\ step' = "scan"
    BY <1>3, <1>16 DEF AppendToolMessage, RunTells, PassTells
  <2> QED
    BY <1>11, <2>1
<1>17. ASSUME FinishPass
       PROVE  Told
  <2>1. /\ step = "scan" /\ step' = "idle" /\ todo = {}
        /\ UNCHANGED <<journalVars, historyVars, snapshot, overdue, todo, decision>>
    BY <1>17 DEF FinishPass, environmentVars
  <2>2. PassTells'
    BY <2>1 DEF PassTells
  <2>3. \A e \in Writes : /\ ToBeVerified(e) => ToBeVerified(e)'
                          /\ ToBeReplayed(e) => ToBeReplayed(e)'
    BY <2>1 DEF ToBeVerified, ToBeReplayed, journalVars
  <2> QED
    BY <1>9, <2>1, <2>2, <2>3
<1> QED
  BY <1>10, <1>12, <1>13, <1>14, <1>15, <1>16, <1>17 DEF ContinuePass, PassStep, Told

-----------------------------------------------------------------------------
(* The experiment                                                          *)

(* Every step of the experiment is a step of the loop.                     *)
LEMMA ExperimentRunsTheLoop ==
  ASSUME [MatrixNext]_<<vars, loopVars, matrixVars>>
  PROVE  [LoopNext]_<<vars, loopVars>>
<1>1. CASE CrashChildExits
  BY <1>1
     DEF CrashChildExits, SweepPoint, Kill, LoopNext
<1>2. CASE ResumeChildExits
  BY <1>2 DEF ResumeChildExits, LoopNext, LoopStep
<1>3. CASE LaunchCrashChild \/ LaunchResumeChild
  BY <1>3 DEF LaunchCrashChild, LaunchResumeChild, LoopNext, LoopStep
<1> QED
  BY <1>1, <1>2, <1>3 DEF MatrixNext, ChildWorks, OutOfExperiment, LoopNext

(* What is known of the run stays while the run rests.                     *)
LEMMA RunRests ==
  ASSUME RunTells, driver' \in {"launch", "crash-child"} => driver \in {"launch", "crash-child"},
         UNCHANGED <<journalVars, targetVars, late, historyVars, faults, callVars, passVars>>
  PROVE  RunTells'
<1>1. /\ UNCHANGED <<records, commits, actionLog, domain, unproven, resent>>
      /\ UNCHANGED <<pc, task, replay, wire, step, verdict, current, todo, decision>>
  BY DEF journalVars, targetVars, historyVars, callVars, passVars
<1>2. \A e \in Exec : (Landed(e)' <=> Landed(e)) /\ (Sent(e)' <=> Sent(e))
  BY <1>1 DEF Landed, Found, Sent
<1>3. \A e \in Writes : RecordTells(e)' /\ OpenAfterFault(e)'
  BY <1>1, <1>2, WritesAssumption DEF RunTells, RecordTells, OpenAfterFault
<1>4. CallTells'
  BY <1>1, <1>2, WritesAssumption DEF RunTells, CallTells, Landed, Found
<1>5. \A e \in Exec : SentOnce(e)' /\ late'[e] = 0
  BY <1>1, <1>2 DEF RunTells, SentOnce
<1>6. PassTells'
  BY <1>1 DEF RunTells, PassTells
<1> QED
  BY <1>1, <1>3, <1>4, <1>5, <1>6 DEF RunTells

(* A process that works in the experiment keeps what is known of the run   *)
(* and goes on from a write only when it is committed.                     *)
LEMMA ChildrenSettle ==
  ASSUME SweepPlan, Known, NoIllegalMove',
         DriverControl, RunTells, ItemSettles, DoneIsCommitted, ChildWorks,
         \A e \in Exec : records[e] \in Committed => records'[e] \in Committed
  PROVE  RunTells' /\ ItemSettles'
<1> USE LoopAssumption, WritesAssumption
    DEF Known, LoopInv, RunInv, TypeOK, CallTypeOK, PassTypeOK
<1> Agent \in Workers
  OBVIOUS
<1>1. /\ driver \in {"crash-child", "resume-child"} /\ UNCHANGED driver
      /\ LoopStep /\ at' \notin {"down", "finished"} /\ OnlyInjectedFaults
  BY DEF ChildWorks, matrixVars
<1>2. at \in OnItem => Item \in Exec /\ HasItem
  BY DEF LoopControl, LoopTypeOK, HasItem, Item
<1>3. ASSUME UNCHANGED stepIndex
      PROVE  Item' = Item
  BY <1>3 DEF Item
<1>4. ASSUME UNCHANGED vars
      PROVE  /\ UNCHANGED <<journalVars, targetVars, late, historyVars, faults, callVars, passVars>>
             /\ UNCHANGED <<records, pc, reply, step, todo, decision>>
  BY <1>4 DEF vars, environmentVars, journalVars, callVars, passVars
<1>5. ASSUME OnlyFaults, UNCHANGED faults
      PROVE  RunTells'
  BY <1>1, <1>5, RunRests DEF OnlyFaults
<1>6. CASE StartProcess \/ Raise
  <2>1. at = "down" \/ at' = "down"
    BY <1>6 DEF StartProcess, Raise, Goes
  <2> QED
    BY <1>1, <2>1 DEF DriverControl
<1>7. CASE SkipItem
  BY <1>1, <1>4, <1>7, RunRests DEF SkipItem, ItemSettles, OnItem
<1>8. CASE TakeTurn \/ AdvancePlanItem
  <2>1. OnlyFaults /\ UNCHANGED faults /\ at' \in {"call", "step"}
    BY <1>1, <1>8 DEF TakeTurn, AdvancePlanItem, CommitThen
  <2> QED
    BY <1>5, <2>1 DEF ItemSettles, OnItem
<1>9. CASE Finish
  BY <1>1, <1>9 DEF Finish, CommitThen
<1>10. CASE ExecuteTool
  <2>0. Call(Agent, Item) /\ UNCHANGED passVars
    BY <1>10 DEF ExecuteTool
  <2>1. /\ UNCHANGED <<journalVars, targetVars, late, historyVars, faults, passVars, replay, wire>>
        /\ pc' = [pc EXCEPT ![Agent] = "lookup"] /\ task' = [task EXCEPT ![Agent] = Item]
        /\ pc[Agent] = "idle" /\ UNCHANGED stepIndex
        /\ \/ at = "call" /\ at' = "called"
           \/ at = "replay" /\ at' = "replayed"
    <3>1. /\ UNCHANGED <<journalVars, targetVars, late, historyVars, faults, replay, wire>>
          /\ pc' = [pc EXCEPT ![Agent] = "lookup"] /\ task' = [task EXCEPT ![Agent] = Item]
          /\ pc[Agent] = "idle"
      BY <2>0 DEF Call, environmentVars
    <3>2. /\ UNCHANGED stepIndex
          /\ \/ at = "call" /\ at' = "called"
             \/ at = "replay" /\ at' = "replayed"
      BY <1>10 DEF ExecuteTool, Goes
    <3> QED
      BY <2>0, <3>1, <3>2
  <2>2. /\ UNCHANGED <<records, commits, actionLog, domain, unproven, resent>>
        /\ UNCHANGED <<step, verdict, current, todo, decision>>
        /\ pc'[Agent] = "lookup" /\ task'[Agent] = Item /\ Item' = Item
    BY <1>3, <2>1 DEF journalVars, targetVars, historyVars, passVars
  <2>3. \A e \in Exec : (Landed(e)' <=> Landed(e)) /\ ~Sent(e)' /\ ~Sent(e)
    BY <2>1, <2>2 DEF Landed, Found, Sent
  <2>4. \A e \in Writes : RecordTells(e)' /\ OpenAfterFault(e)'
    BY <1>1, <2>1, <2>2, <2>3 DEF RunTells, RecordTells, OpenAfterFault
  <2>5. CallTells'
    BY <2>2 DEF CallTells
  <2>6. \A e \in Exec : SentOnce(e)' /\ late'[e] = 0
    BY <2>1, <2>2, <2>3 DEF RunTells, SentOnce
  <2>7. PassTells'
    BY <2>2 DEF RunTells, PassTells
  <2>8. RunTells'
    BY <2>2, <2>4, <2>5, <2>6, <2>7 DEF RunTells
  <2>9. ItemSettles'
    BY <2>1, <2>2 DEF ItemSettles, OnItem
  <2> QED
    BY <2>8, <2>9
<1>11. CASE Recover
  <2>1. PICK timedOut :
          /\ BeginPassWith(timedOut)
          /\ reply[Agent] = "pending_recovery" =>
               timedOut = {e \in Exec : records[e] = "dispatched"}
    BY <1>11 DEF Recover, BeginPass
  <2>2. /\ step' = "list" /\ overdue' = timedOut /\ snapshot' = records
        /\ decision' = NoDecisions
        /\ UNCHANGED <<journalVars, targetVars, late, historyVars, faults, callVars, stepIndex>>
        /\ at = "called" /\ at' = "recovering" /\ pc[Agent] = "idle"
    BY <1>11, <2>1 DEF Recover, Returned, Goes, BeginPassWith, environmentVars
  <2>3. /\ UNCHANGED <<records, commits, actionLog, domain, unproven, resent, pc, task, replay,
                       reply, wire>>
        /\ Item' = Item
    BY <1>3, <2>2 DEF journalVars, targetVars, historyVars, callVars
  <2>4. \A e \in Exec : (Landed(e)' <=> Landed(e)) /\ (Sent(e)' <=> Sent(e))
    BY <2>3 DEF Landed, Found, Sent
  <2>5. \A e \in Writes : RecordTells(e)' /\ OpenAfterFault(e)'
    BY <1>1, <2>2, <2>3, <2>4 DEF RunTells, RecordTells, OpenAfterFault
  <2>6. CallTells'
    BY <2>2, <2>3 DEF RunTells, CallTells
  <2>7. \A e \in Exec : SentOnce(e)' /\ late'[e] = 0
    BY <2>2, <2>3, <2>4 DEF RunTells, SentOnce
  <2>8. PassTells'
    BY <2>2 DEF PassTells
  <2>9. RunTells'
    BY <2>3, <2>5, <2>6, <2>7, <2>8 DEF RunTells
  <2>10. ItemSettles'
    <3> SUFFICES ASSUME Item \in Writes
                 PROVE  \/ records'[Item'] \in Committed
                        \/ reply'[Agent] = "pending_recovery" /\ RecoverySettles(Item)'
      BY <2>2, <2>3 DEF ItemSettles, OnItem
    <3>1. CallEnds(Item)
      BY <2>2 DEF ItemSettles, OnItem
    <3>2. CASE records[Item] \in Committed
      BY <2>3, <3>2
    <3>3. CASE reply[Agent] = "pending_recovery" /\ records[Item] = "dispatched"
      <4>1. ToBeVerified(Item)'
        BY <2>1, <2>2, <2>3, <3>3 DEF ToBeVerified
      <4> QED
        BY <2>3, <3>3, <4>1 DEF RecoverySettles
    <3> QED
      BY <3>1, <3>2, <3>3 DEF CallEnds
  <2> QED
    BY <2>9, <2>10
<1>12. CASE Resolve \/ AcceptReplay
  <2>1. UNCHANGED vars /\ UNCHANGED stepIndex
    BY <1>12 DEF Resolve, AcceptReplay, Goes
  <2>2. RunTells'
    BY <1>1, <1>4, <2>1, RunRests
  <2>3. ItemSettles'
    <3> SUFFICES ASSUME Item \in Writes
                 PROVE  \/ at' = "advance" /\ records[Item] \in Committed
                        \/ at' = "replay"
                           /\ records[Item] \in Committed \union {"verified_not_found"}
      BY <1>3, <1>4, <2>1 DEF ItemSettles
    <3>1. CASE Resolve
      <4>1. at = "recovering" /\ step = "idle"
        BY <3>1 DEF Resolve
      <4>2. \/ records[Item] \in Committed
            \/ reply[Agent] = "pending_recovery" /\ ToBeReplayed(Item)
        BY <4>1 DEF ItemSettles, OnItem, RecoverySettles, ToBeVerified
      <4> QED
        BY <3>1, <4>2 DEF Resolve, Goes, ToBeReplayed
    <3>2. CASE AcceptReplay
      BY <3>2 DEF AcceptReplay, Returned, Goes, ItemSettles, OnItem
    <3> QED
      BY <1>12, <3>1, <3>2
  <2> QED
    BY <2>2, <2>3
<1>13. CASE ContinueCall(Agent) /\ UNCHANGED loopVars
  <2>1. CallInHand
    BY DEF CallInHand, RunTells
  <2>2. /\ CallInHand'
        /\ task[Agent] \in Writes =>
             /\ pc'[Agent] = "idle" => CallEnds(task[Agent])'
             /\ records[task[Agent]] \in Committed \union {"verified_not_found"} =>
                  \/ records'[task[Agent]] \in Committed
                  \/ records'[task[Agent]] = "verified_not_found" /\ pc'[Agent] # "idle"
    BY <1>1, <1>13, <2>1, CallsSettle
  <2>3. /\ task[Agent] = Item /\ task'[Agent] = task[Agent] /\ task[Agent] \in Exec
        /\ at \in Calling /\ step = "idle"
    BY <1>1, <1>13, CallsInTheExperiment
  <2>4. /\ UNCHANGED <<at, stepIndex>> /\ Item' = Item /\ late' = late /\ step' = "idle"
    BY <1>1, <1>3, <1>13, <2>3 DEF loopVars, OnlyInjectedFaults, ContinueCall, passVars
  <2>5. ASSUME NEW e \in Exec
        PROVE  /\ e \in Writes => RecordTells(e)' /\ OpenAfterFault(e)'
               /\ SentOnce(e)'
    <3>1. CASE e = task[Agent]
      BY <2>2, <2>3, <3>1 DEF CallInHand
    <3>2. CASE e # task[Agent]
      BY <1>1, <1>13, <3>2, CallsLeaveOthers DEF RunTells
    <3> QED
      BY <3>1, <3>2
  <2>6. PassTells'
    BY <2>4 DEF PassTells
  <2>7. RunTells'
    BY <2>2, <2>4, <2>5, <2>6 DEF RunTells, CallInHand
  <2>8. ItemSettles'
    <3> SUFFICES ASSUME Item \in Writes
                 PROVE  /\ at = "called" /\ pc'[Agent] = "idle" => CallEnds(Item)'
                        /\ at = "replayed" =>
                             \/ records'[Item] \in Committed
                             \/ records'[Item] = "verified_not_found" /\ pc'[Agent] # "idle"
      BY <2>3, <2>4 DEF ItemSettles, Calling
    <3>1. pc'[Agent] = "idle" => CallEnds(Item)'
      BY <2>2, <2>3, <2>4 DEF CallEnds
    <3>2. at = "replayed" => records[Item] \in Committed \union {"verified_not_found"}
      BY DEF ItemSettles, OnItem
    <3> QED
      BY <2>2, <2>3, <3>1, <3>2
  <2> QED
    BY <2>7, <2>8
<1>14. CASE ContinuePass /\ UNCHANGED loopVars
  <2>1. /\ RunTells'
        /\ \A e \in Writes : RecoverySettles(e) => RecoverySettles(e)'
    BY <1>1, <1>14, PassesSettle
  <2>2. step # "idle" /\ at = "recovering"
    BY <1>14, PassesAreBusy DEF ContinuePass, LoopControl
  <2>3. /\ at' = "recovering" /\ Item' = Item /\ reply' = reply
    BY <1>3, <1>14, <2>2 DEF loopVars, ContinuePass, callVars
  <2>4. ItemSettles'
    <3> SUFFICES ASSUME Item \in Writes
                 PROVE  \/ records'[Item] \in Committed
                        \/ reply'[Agent] = "pending_recovery" /\ RecoverySettles(Item)'
      BY <2>3 DEF ItemSettles
    <3>1. \/ records[Item] \in Committed
          \/ reply[Agent] = "pending_recovery" /\ RecoverySettles(Item)
      BY <2>2 DEF ItemSettles, OnItem
    <3>2. CASE records[Item] \in Committed
      BY <3>2
    <3>3. CASE reply[Agent] = "pending_recovery" /\ RecoverySettles(Item)
      <4>1. RecoverySettles(Item)'
        BY <2>1, <2>3, <3>3 DEF RecoverySettles, ToBeVerified, ToBeReplayed
      <4> QED
        BY <2>3, <3>3, <4>1
    <3> QED
      BY <3>1, <3>2, <3>3
  <2> QED
    BY <2>1, <2>4
<1> QED
  BY <1>1, <1>6, <1>7, <1>8, <1>9, <1>10, <1>11, <1>12, <1>13, <1>14 DEF LoopStep

(* What is known of the run, the loop and the driver stays so.             *)
LEMMA SweepStays ==
  ASSUME SweepPlan, Known, Known', SweepInv, [MatrixNext]_<<vars, loopVars, matrixVars>>
  PROVE  SweepInv'
<1> USE LoopAssumption, WritesAssumption
<1> SUFFICES ASSUME driver' # "void"
             PROVE  DriverControl' /\ RunTells' /\ ItemSettles' /\ DoneIsCommitted'
  BY DEF SweepInv
<1>1. driver # "void"
  BY DEF MatrixNext, LaunchCrashChild, CrashChildExits, LaunchResumeChild, ResumeChildExits,
         ChildWorks, OutOfExperiment, matrixVars
<1>2. DriverControl /\ RunTells /\ ItemSettles /\ DoneIsCommitted
  BY <1>1 DEF SweepInv
<1>3. [LoopNext]_<<vars, loopVars>>
  BY ExperimentRunsTheLoop
<1>4. NoIllegalMove'
  BY DEF Known, LoopInv, RunInv, Discipline
<1>5. \A e \in Exec : records[e] \in Committed => records'[e] \in Committed
  <2> SUFFICES ASSUME NEW e \in Exec, records[e] \in Committed
               PROVE  records'[e] \in Committed
    OBVIOUS
  <2>1. CASE [Next]_vars
    BY <2>1, CommittedStaysOverStep DEF Known, LoopInv, RunInv
  <2>2. CASE Interlude
    BY <2>2 DEF Interlude, journalVars
  <2> QED
    BY <1>3, <2>1, <2>2, LoopStepsOfTheRun DEF Known, LoopInv, RunInv
<1>6. DoneIsCommitted'
  <2>1. ASSUME NEW e \in done' \ done
        PROVE  at = "advance" /\ e = Item
    BY <1>3, <2>1
       DEF LoopNext, LoopStep, StartProcess, SkipItem, TakeTurn, ExecuteTool, Recover, Raise,
           Resolve, AcceptReplay, AdvancePlanItem, Finish, Kill, Outside, Goes, loopVars
  <2>2. at = "advance" /\ Item \in Writes => records[Item] \in Committed
    BY <1>2 DEF ItemSettles, OnItem
  <2> QED
    BY <1>2, <1>5, <2>1, <2>2 DEF DoneIsCommitted
<1>7. ASSUME UNCHANGED <<journalVars, targetVars, late, historyVars, faults, callVars, passVars>>,
             driver' \in {"launch", "crash-child"} => driver \in {"launch", "crash-child"},
             \/ at' \notin OnItem
             \/ UNCHANGED loopVars
      PROVE  RunTells' /\ ItemSettles'
  <2>1. RunTells'
    BY <1>2, <1>7, RunRests
  <2>2. ASSUME at' \notin OnItem
        PROVE  ItemSettles'
    BY <2>2 DEF ItemSettles
  <2>3. ASSUME UNCHANGED loopVars
        PROVE  ItemSettles'
    <3>1. /\ UNCHANGED <<records, pc, reply, step, snapshot, overdue, todo, decision, at>>
          /\ Item' = Item
      BY <1>7, <2>3 DEF journalVars, callVars, passVars, loopVars, Item
    <3>2. /\ RecoverySettles(Item)' <=> RecoverySettles(Item)
          /\ CallEnds(Item)' <=> CallEnds(Item)
      BY <3>1 DEF CallEnds, RecoverySettles, ToBeVerified, ToBeReplayed
    <3> QED
      BY <1>2, <3>1, <3>2 DEF ItemSettles
  <2> QED
    BY <1>7, <2>1, <2>2, <2>3
<1>8. ASSUME UNCHANGED vars
      PROVE  UNCHANGED <<journalVars, targetVars, late, historyVars, faults, callVars, passVars>>
  BY <1>8 DEF vars, environmentVars
<1>9. CASE UNCHANGED <<vars, loopVars, matrixVars>>
  <2>1. DriverControl'
    BY <1>2, <1>9 DEF DriverControl, loopVars, matrixVars
  <2> QED
    BY <1>6, <1>7, <1>8, <1>9, <2>1 DEF matrixVars
<1>10. CASE LaunchCrashChild \/ LaunchResumeChild
  <2>1. /\ UNCHANGED vars /\ at' = "step"
        /\ \/ driver = "launch" /\ driver' = "crash-child"
           \/ driver = "restart" /\ driver' = "resume-child"
    BY <1>10 DEF LaunchCrashChild, LaunchResumeChild, StartProcess
  <2>2. DriverControl'
    BY <2>1 DEF DriverControl
  <2> QED
    BY <1>6, <1>7, <1>8, <2>1, <2>2 DEF OnItem
<1>11. CASE CrashChildExits
  <2>1. /\ UNCHANGED <<journalVars, targetVars, late, historyVars, faults, callVars, passVars>>
        /\ at' = "down" /\ driver' = "restart"
    BY <1>11 DEF CrashChildExits, CrashBetweenCalls, Goes, environmentVars
  <2>2. DriverControl'
    BY <2>1 DEF DriverControl
  <2> QED
    BY <1>6, <1>7, <2>1, <2>2 DEF OnItem
<1>12. CASE ResumeChildExits
  <2>1. /\ UNCHANGED <<journalVars, targetVars, late, historyVars, faults, callVars, passVars>>
        /\ at' = "finished" /\ driver' = "judge" /\ UNCHANGED done /\ ~HasItem
    BY <1>12 DEF ResumeChildExits, Finish, CommitThen, OnlyFaults
  <2>2. Writes \subseteq done
    <3> SUFFICES ASSUME NEW e \in Writes
                 PROVE  e \in done
      OBVIOUS
    <3>1. PICK k \in DOMAIN Script : Script[k] = e
      BY DEF SweepPlan
    <3>2. k \in 1 .. stepIndex - 1
      BY <2>1 DEF HasItem, Known, LoopInv, LoopTypeOK
    <3> QED
      BY <3>1, <3>2 DEF Passed, Known, LoopInv, LoopControl
  <2>3. DriverControl'
    BY <2>1, <2>2 DEF DriverControl
  <2> QED
    BY <1>6, <1>7, <2>1, <2>3 DEF OnItem
<1>13. CASE ChildWorks
  <2>1. DriverControl'
    BY <1>13 DEF ChildWorks, matrixVars, DriverControl
  <2> QED
    BY <1>2, <1>4, <1>5, <1>6, <1>13, <2>1, ChildrenSettle
<1>14. CASE Outside /\ UNCHANGED matrixVars
  <2>1. PICK e \in Exec : WindowPasses(e) \/ Network(e)
    BY <1>14 DEF Outside
  <2>2. WindowPasses(e)
    BY <1>2, <2>1 DEF Network, LateArrives, LateVanishes, RunTells
  <2>3. UNCHANGED <<journalVars, targetVars, late, historyVars, faults, callVars, passVars>>
    BY <2>2 DEF WindowPasses
  <2>4. UNCHANGED loopVars
    BY <1>14 DEF Outside
  <2>5. DriverControl'
    BY <1>2, <1>14, <2>4 DEF DriverControl, loopVars, matrixVars
  <2> QED
    BY <1>6, <1>7, <1>14, <2>3, <2>4, <2>5 DEF matrixVars
<1> QED
  BY <1>9, <1>10, <1>11, <1>12, <1>13, <1>14 DEF MatrixNext, OutOfExperiment

(* It is so before anything has been launched.                             *)
LEMMA SweepAtTheStart == MatrixInit => SweepInv
<1> USE LoopAssumption, WritesAssumption
<1> SUFFICES ASSUME MatrixInit
             PROVE  DriverControl /\ RunTells /\ ItemSettles /\ DoneIsCommitted
  BY DEF SweepInv
<1> Agent \in Workers
  OBVIOUS
<1> USE DEF MatrixInit, LoopInit, Init
<1>1. /\ driver = "launch" /\ at = "down" /\ done = {}
      /\ pc[Agent] = "idle" /\ step = "idle"
  BY DEF CallInit, PassInit
<1>2. /\ \A e \in Exec : records[e] = NoRecord /\ commits[e] = 0 /\ late[e] = 0
      /\ unproven = {} /\ resent = {}
  BY DEF JournalInit, TargetInit, EnvironmentInit
<1>3. \A e \in Writes : RecordTells(e) /\ OpenAfterFault(e)
  BY <1>2 DEF RecordTells, OpenAfterFault, NoRecord, Committed
<1>4. CallTells /\ PassTells /\ \A e \in Exec : SentOnce(e) /\ late[e] = 0
  BY <1>1, <1>2 DEF CallTells, PassTells, SentOnce
<1> QED
  BY <1>1, <1>2, <1>3, <1>4 DEF DriverControl, RunTells, ItemSettles, OnItem, DoneIsCommitted

(* The experiment adds nothing to the agent: whatever is armed, injected   *)
(* or void, a run of the experiment is a run of the agent's loop, and all  *)
(* that is proved of the loop holds in the experiment.                     *)
THEOREM ExperimentImplementsLoop == MatrixSpec => LoopSpec
BY ExperimentRunsTheLoop, PTL DEF MatrixSpec, MatrixInit, LoopSpec

(* The driver's verdict: if recovery can verify the plan's writes and tell *)
(* them apart, the restarted agent finishes with one commit for each,      *)
(* wherever the crash was armed and whichever request or response was      *)
(* lost; and nothing has been sent again that may have arrived.            *)
THEOREM EverySweepPasses ==
  ASSUME SweepPlan
  PROVE  MatrixSpec => []SweepPasses
<1>1. LoopSpec => [](EvidenceInv /\ CommittedIsReal)
  BY LoopEvidenceHolds DEF SweepPlan
<1>2. MatrixSpec => []Known
  BY <1>1, ExperimentImplementsLoop, LoopInvHolds, PlanInvHolds, PTL DEF Known
<1>3. Known /\ Known' /\ SweepInv /\ [MatrixNext]_<<vars, loopVars, matrixVars>> => SweepInv'
  BY SweepStays
<1>4. SweepInv => SweepPasses
  BY WritesAssumption
     DEF SweepInv, SweepPasses, DriverControl, RunTells, RecordTells, DoneIsCommitted
<1> QED
  BY <1>2, <1>3, <1>4, SweepAtTheStart, PTL DEF MatrixSpec
=============================================================================
