-------------------------- MODULE AgentLoopProofs --------------------------
(***************************************************************************)
(* The sample agent's loop around a run, for any plan, any number of       *)
(* faults and crashes and any target.  The loop is the single writer that  *)
(* the guarantees of recovery ask for: it starts no call while a pass is   *)
(* under way and no pass while a call is, so they hold of every run it     *)
(* drives, whatever SingleWriter says.                                     *)
(***************************************************************************)
EXTENDS AgentLoop, SingleWriterProofs

-----------------------------------------------------------------------------
(* The steps of the loop, seen from the run                                *)

(* Where the loop is on a plan item, and where it may have called a tool.  *)
OnItem == {"call", "called", "recovering", "replay", "replayed", "advance"}

Calling == {"called", "replayed"}

(* The items behind the loop.                                              *)
Passed(e) == \E j \in 1 .. stepIndex - 1 : Script[j] = e

(* The loop is the single writer of its run: outside execute_tool its      *)
(* thread is idle, outside recover_run no pass is under way; and while it  *)
(* is on an item the call is about that item, which is not done yet,       *)
(* because what is done was so at the start or is behind the loop.         *)
LoopControl ==
  /\ at \notin Calling => AllIdle
  /\ at # "recovering" => step = "idle"
  /\ at \in OnItem => HasItem /\ Item \notin done
  /\ at \in Calling \union {"recovering", "replay"} => task[Agent] = Item
  /\ \A e \in Exec : Passed(e) => e \in done
  /\ at # "down" => \A e \in done : e \in completed \/ Passed(e)

(* Every step of the loop is a step of the run, an interlude, or leaves    *)
(* the run alone.                                                          *)
LEMMA LoopStepsOfTheRun ==
  ASSUME TypeOK, LoopTypeOK, LoopControl, [LoopNext]_<<vars, loopVars>>
  PROVE  [Next]_vars \/ Interlude
<1> USE LoopAssumption DEF TypeOK
<1> Agent \in Workers
  OBVIOUS
<1>1. CASE UNCHANGED vars
  BY <1>1
<1>2. ASSUME OnlyFaults, Fault \/ UNCHANGED faults, at \notin Calling, at # "recovering"
      PROVE  Interlude
  BY <1>2, MaxFaultsAssumption
     DEF OnlyFaults, Fault, Interlude, LoopControl, Calling, EnvironmentTypeOK, passVars
<1>3. CASE StartProcess \/ SkipItem \/ Raise \/ Resolve \/ AcceptReplay
  BY <1>3 DEF StartProcess, SkipItem, Raise, Resolve, AcceptReplay
<1>4. CASE TakeTurn \/ AdvancePlanItem \/ Finish
  BY <1>2, <1>4 DEF TakeTurn, AdvancePlanItem, Finish, CommitThen, Calling
<1>5. CASE ExecuteTool
  <2>1. AllIdle /\ step = "idle" /\ Item \in Exec
    BY <1>5 DEF ExecuteTool, LoopControl, Calling, OnItem, HasItem, Item, LoopTypeOK
  <2>2. StartCall(Agent, Item)
    BY <1>5, <2>1 DEF ExecuteTool, StartCall
  <2> QED
    BY <2>1, <2>2 DEF Next
<1>6. CASE Recover
  <2>1. AllIdle
    BY <1>6 DEF Recover, Returned, AllIdle
  <2>2. PICK timedOut \in SUBSET Exec : BeginPassWith(timedOut)
    BY <1>6 DEF Recover, BeginPass, EnvironmentTypeOK
  <2> QED
    BY <1>6, <2>1, <2>2
       DEF Interlude, Recover, BeginPassWith, environmentVars, LoopControl
<1>7. CASE ContinueCall(Agent) \/ ContinuePass
  BY <1>7 DEF Next
<1>8. CASE Kill
  BY <1>8, SystemAssumption
     DEF Kill, Next, Interlude, CrashBetweenCalls, EnvironmentTypeOK, environmentVars
<1>9. CASE Outside
  BY <1>9 DEF Outside, Next
<1> QED
  BY <1>1, <1>3, <1>4, <1>5, <1>6, <1>7, <1>8, <1>9 DEF LoopNext, LoopStep

-----------------------------------------------------------------------------
(* Where the loop is                                                       *)

(* An item ahead of the loop that was not done at the start is not done.   *)
LEMMA ItemAheadIsOpen ==
  ASSUME LoopTypeOK, LoopControl, at # "down", HasItem, Item \notin completed
  PROVE  Item \notin done
<1>1. \A j \in 1 .. stepIndex - 1 : Script[j] # Item
  BY LoopAssumption DEF LoopTypeOK, HasItem, Item
<1> QED
  BY <1>1 DEF LoopControl, Passed

(* Moving on from an item that is done passes it and nothing else.         *)
LEMMA PassingAnItem ==
  ASSUME LoopTypeOK, HasItem, stepIndex' = stepIndex + 1
  PROVE  /\ stepIndex' \in 1 .. Len(Script) + 1
         /\ \A e \in Exec : Passed(e)' <=> Passed(e) \/ e = Item
BY LoopAssumption DEF LoopTypeOK, HasItem, Item, Passed

(* The loop keeps to its types and to its place: it starts a call or a     *)
(* pass only when neither is under way.                                    *)
LEMMA LoopControlStays ==
  ASSUME TypeOK, AuditClean, Discipline, LoopTypeOK, LoopControl,
         [LoopNext]_<<vars, loopVars>>
  PROVE  LoopTypeOK' /\ LoopControl'
<1> USE LoopAssumption
<1> Agent \in Workers
  OBVIOUS
<1> DEFINE Kept == LoopTypeOK' /\ LoopControl'
<1>1. ASSUME UNCHANGED stepIndex
      PROVE  /\ \A e \in Exec : Passed(e)' <=> Passed(e)
             /\ HasItem' <=> HasItem
             /\ Item' = Item
  BY <1>1 DEF Passed, HasItem, Item
<1>2. at \in OnItem => Item \in Exec /\ HasItem
  BY DEF LoopControl, LoopTypeOK, HasItem, Item
<1>3. ASSUME UNCHANGED vars
      PROVE  (AllIdle' <=> AllIdle) /\ UNCHANGED <<step, task>>
  BY <1>3 DEF vars, callVars, passVars, AllIdle
<1>4. ASSUME UNCHANGED <<stepIndex, completed, done>>,
             at' \in {"down", "step", "call", "called", "recovering", "replay", "replayed",
                      "advance", "finished"},
             at = "down" => at' = "down",
             at' \notin Calling => AllIdle',
             at' # "recovering" => step' = "idle",
             at' \in OnItem => HasItem /\ Item \notin done,
             at' \in Calling \union {"recovering", "replay"} => task'[Agent] = Item
      PROVE  Kept
  BY <1>1, <1>4 DEF LoopTypeOK, LoopControl
<1>5. CASE UNCHANGED <<vars, loopVars>>
  BY <1>3, <1>4, <1>5 DEF loopVars, LoopTypeOK, LoopControl
<1>6. CASE StartProcess
  <2>1. AllIdle' /\ step' = "idle"
    BY <1>3, <1>6 DEF StartProcess, LoopControl, Calling
  <2>2. \A e \in Exec : ~Passed(e)'
    BY <1>6 DEF StartProcess, Passed
  <2> QED
    BY <1>6, <2>1, <2>2 DEF StartProcess, LoopTypeOK, LoopControl, Calling, OnItem
<1>7. CASE SkipItem
  <2>1. /\ AllIdle' /\ step' = "idle" /\ Item \in done /\ Item \in Exec
        /\ UNCHANGED <<at, completed, done>> /\ at = "step" /\ HasItem /\ stepIndex' = stepIndex + 1
    BY <1>3, <1>7 DEF SkipItem, LoopControl, LoopTypeOK, Calling
  <2> QED
    BY <2>1, PassingAnItem DEF LoopTypeOK, LoopControl, Calling, OnItem
<1>8. CASE TakeTurn
  <2>1. AllIdle' /\ step' = "idle" /\ Item \notin done
    BY <1>8, ItemAheadIsOpen
       DEF TakeTurn, OnlyFaults, callVars, passVars, AllIdle, LoopControl, Calling
  <2> QED
    BY <1>4, <1>8, <2>1 DEF TakeTurn, CommitThen, Calling, OnItem
<1>9. CASE ExecuteTool
  <2>1. task'[Agent] = Item /\ step' = "idle" /\ Item \notin done /\ HasItem
    BY <1>9 DEF ExecuteTool, Call, TypeOK, CallTypeOK, passVars, LoopControl, OnItem
  <2> QED
    BY <1>4, <1>9, <2>1 DEF ExecuteTool, Goes, Calling
<1>10. CASE Recover
  <2>1. AllIdle' /\ task' = task
    BY <1>10 DEF Recover, Returned, callVars, AllIdle
  <2> QED
    BY <1>4, <1>10, <2>1 DEF Recover, Goes, LoopControl, Calling, OnItem
<1>11. CASE Raise
  <2>1. AllIdle' /\ step' = "idle"
    BY <1>3, <1>11 DEF Raise, Returned, AllIdle, LoopControl, Calling
  <2> QED
    BY <1>4, <1>11, <2>1 DEF Raise, Goes, Calling, OnItem
<1>12. CASE Resolve \/ AcceptReplay
  <2>1. AllIdle' /\ step' = "idle"
    BY <1>3, <1>12 DEF Resolve, AcceptReplay, Returned, AllIdle, LoopControl, Calling
  <2> QED
    BY <1>3, <1>4, <1>12, <2>1
       DEF Resolve, AcceptReplay, Goes, LoopControl, Calling, OnItem
<1>13. CASE AdvancePlanItem
  <2>1. /\ AllIdle' /\ step' = "idle" /\ Item \in Exec /\ HasItem /\ at = "advance"
        /\ done' = done \union {Item} /\ UNCHANGED completed
    BY <1>2, <1>13 DEF AdvancePlanItem, OnlyFaults, callVars, passVars, AllIdle, LoopControl,
                       Calling, OnItem
  <2>2. CASE at' = "step" /\ stepIndex' = stepIndex + 1
    BY <2>1, <2>2, PassingAnItem DEF LoopTypeOK, LoopControl, Calling, OnItem
  <2>3. CASE at' = "down" /\ UNCHANGED stepIndex
    BY <1>1, <2>1, <2>3 DEF LoopTypeOK, LoopControl, Calling, OnItem
  <2> QED
    BY <1>13, <2>2, <2>3 DEF AdvancePlanItem, CommitThen
<1>14. CASE Finish
  <2>1. AllIdle' /\ step' = "idle"
    BY <1>14 DEF Finish, OnlyFaults, callVars, passVars, AllIdle, LoopControl, Calling
  <2> QED
    BY <1>4, <1>14, <2>1 DEF Finish, CommitThen, Calling, OnItem
<1>15. CASE (ContinueCall(Agent) \/ ContinuePass) /\ UNCHANGED loopVars
  <2>1. /\ at \notin Calling => AllIdle'
        /\ at # "recovering" => step' = "idle"
    <3>1. CASE ContinueCall(Agent)
      BY <3>1, CallersAreBusy DEF ContinueCall, passVars, LoopControl, AllIdle
    <3>2. CASE ContinuePass
      BY <3>2, PassesAreBusy DEF ContinuePass, callVars, LoopControl, AllIdle
    <3> QED
      BY <1>15, <3>1, <3>2
  <2> QED
    BY <1>4, <1>15, <2>1, CallStaysOnTask DEF loopVars, LoopTypeOK, LoopControl
<1>16. CASE Kill
  <2>1. AllIdle' /\ step' = "idle"
    BY <1>16 DEF Kill, Crash, CrashBetweenCalls, callVars, passVars, AllIdle
  <2> QED
    BY <1>4, <1>16, <2>1 DEF Kill, Goes, Calling, OnItem
<1>17. CASE Outside
  <2>1. (AllIdle' <=> AllIdle) /\ UNCHANGED <<step, task>>
    BY <1>17 DEF Outside, WindowPasses, Network, callVars, passVars, AllIdle
  <2> QED
    BY <1>4, <1>17, <2>1 DEF Outside, loopVars, LoopTypeOK, LoopControl
<1> QED
  BY <1>5, <1>6, <1>7, <1>8, <1>9, <1>10, <1>11, <1>12, <1>13, <1>14, <1>15, <1>16, <1>17
     DEF LoopNext, LoopStep

-----------------------------------------------------------------------------
(* The run under the loop                                                  *)

LoopInv == RunInv /\ LoopTypeOK /\ LoopControl

(* Everything the guarantees of one writer rest on holds under the loop.   *)
LEMMA LoopInvStays ==
  ASSUME LoopInv, [LoopNext]_<<vars, loopVars>>
  PROVE  LoopInv'
<1> USE DEF LoopInv, RunInv
<1>1. LoopTypeOK' /\ LoopControl' /\ OneAtATime'
  <2>1. LoopTypeOK' /\ LoopControl'
    BY LoopControlStays
  <2> QED
    BY <2>1, LoopAssumption DEF LoopControl, OneAtATime, Calling, AllIdle
<1>2. RunInv'
  BY <1>1, LoopStepsOfTheRun, RunInvStays
<1> QED
  BY <1>1, <1>2

(* And it holds before the process is first started.                       *)
LEMMA LoopInvAtTheStart == LoopInit => LoopInv
<1> SUFFICES ASSUME LoopInit
             PROVE  LoopInv
  OBVIOUS
<1>1. Init /\ LoopTypeOK
  BY LoopAssumption DEF LoopInit, LoopTypeOK
<1>2. RunInv
  BY <1>1, RunInvAtTheStart
<1>3. LoopControl
  BY LoopAssumption
     DEF LoopInit, Init, CallInit, PassInit, LoopControl, Calling, OnItem, Passed, AllIdle
<1> QED
  BY <1>1, <1>2, <1>3 DEF LoopInv

(* So it holds throughout.                                                 *)
LEMMA LoopInvHolds == LoopSpec => []LoopInv
BY LoopInvAtTheStart, LoopInvStays, PTL DEF LoopSpec

(* The loop and the run under it are type correct.                         *)
THEOREM LoopTypeCorrect == LoopSpec => [](TypeOK /\ LoopTypeOK)
BY LoopInvHolds, PTL DEF LoopInv, RunInv

(* The sample agent keeps the single-writer discipline by its own control, *)
(* restarts included: calls and passes never overlap, and what recovery    *)
(* guarantees under that discipline holds of every run the loop drives.    *)
THEOREM LoopIsTheSingleWriter ==
  LoopSpec => [](/\ OneAtATime
                 /\ AuditClean /\ PendingIffUnsettled /\ NoIllegalMove
                 /\ NeverBlindlyRefired /\ ReconciledOnce)
<1>1. LoopInv => /\ OneAtATime
                 /\ AuditClean /\ PendingIffUnsettled /\ NoIllegalMove
                 /\ NeverBlindlyRefired /\ ReconciledOnce
  BY DEF LoopInv, RunInv, Discipline, RefireInv, NeverBlindlyRefired, ReconcileInv
<1> QED
  BY <1>1, LoopInvHolds, PTL

(* A run under the loop is a run of the abstract journal: a committed      *)
(* execution is never reopened, however often the agent is restarted.      *)
THEOREM LoopImplementsJournal == LoopSpec => JournalSpec /\ CommittedStays
<1>1. LoopInit => JournalInit
  BY DEF LoopInit, Init
<1>2. LoopInv /\ [LoopNext]_<<vars, loopVars>> => [JournalNext]_journalVars
  BY LoopStepsOfTheRun, SystemJournalStep DEF LoopInv, RunInv, Interlude
<1>3. LoopSpec => JournalSpec
  BY <1>1, <1>2, LoopInvHolds, PTL DEF LoopSpec, JournalSpec
<1> QED
  BY <1>3, JournalCommittedStays, PTL

(* An item that is marked done is not executed again, whenever the process *)
(* was killed and whatever it had recorded by then.                        *)
THEOREM DoneStaysDone == LoopSpec => []DoneIsNotRepeated
<1>1. LoopInv => DoneIsNotRepeated
  BY LoopAssumption
     DEF LoopInv, LoopControl, DoneIsNotRepeated, AllIdle, Calling, OnItem
<1> QED
  BY <1>1, LoopInvHolds, PTL

-----------------------------------------------------------------------------
(* Records and the plan                                                    *)

(* The answers on which the loop goes on to recover the run.               *)
GoingOn == {"succeeded", "reused", "pending_recovery"}

(* A call gives such an answer only about an execution with a record.      *)
LEMMA AnswersHaveRecords ==
  ASSUME RunInv, NEW w \in Workers, ContinueCall(w), reply'[w] \in GoingOn
  PROVE  reply'[w] = reply[w] \/ records'[task[w]] # NoRecord
<1> USE DEF RunInv, TypeOK, CallTypeOK, JournalTypeOK
<1> task[w] \in Exec
  OBVIOUS
<1>1. ASSUME NEW answer, Return(w, answer)
      PROVE  answer \in GoingOn
  BY <1>1 DEF Return
<1>2. ~MirrorFails(w) /\ ~Return(w, "raised")
  BY <1>1 DEF MirrorFails, GoingOn
<1>3. ASSUME NEW s \in Statuses, NEW clear, NEW answer, Settle(w, s, clear, answer)
      PROVE  records'[task[w]] # NoRecord
  BY <1>2, <1>3 DEF Settle, RecordToolResult, Statuses, NoRecord
<1>4. ASSUME NEW s, Goto(w, s)
      PROVE  reply'[w] = reply[w]
  BY <1>4 DEF Goto
<1>5. CASE Lookup(w)
  <2>1. CASE records[task[w]] = NoRecord
    BY <1>4, <1>5, <2>1 DEF Lookup, NoRecord
  <2>2. CASE records[task[w]] # NoRecord
    BY <1>5, <2>2 DEF Lookup, journalVars
  <2> QED
    BY <2>1, <2>2
<1>6. CASE Reread(w)
  <2>1. records[task[w]] = "intent_logged"
    BY <1>6 DEF Reread, Discipline, CallKnows
  <2> QED
    BY <1>6, <2>1 DEF Reread, journalVars, NoRecord
<1>7. CASE LogIntent(w)
  BY <1>2, <1>4, <1>7 DEF LogIntent
<1>8. CASE Dispatch(w)
  BY <1>2, <1>4, <1>8 DEF Dispatch
<1>9. CASE \/ Invoke(w) \/ Arrives(w) \/ Rejected(w)
           \/ AdapterReturns(w) \/ AdapterErrs(w) \/ AdapterAmbiguous(w)
  BY <1>4, <1>9
     DEF Invoke, Arrives, Rejected, AdapterReturns, AdapterErrs, AdapterAmbiguous
<1>10. CASE RecordAcked(w) \/ RecordFailed(w) \/ RecordAmbiguous(w)
  BY <1>3, <1>10 DEF RecordAcked, RecordFailed, RecordAmbiguous, Statuses
<1> QED
  BY <1>5, <1>6, <1>7, <1>8, <1>9, <1>10 DEF ContinueCall, WorkerStep

(* What precedes the item in the script is behind the loop.                *)
LEMMA BeforeTheItemIsDone ==
  ASSUME LoopTypeOK, LoopControl, HasItem
  PROVE  Before(Item) \subseteq done
<1> USE LoopAssumption DEF LoopTypeOK, HasItem, Item
<1> SUFFICES ASSUME NEW i \in DOMAIN Script, NEW k \in DOMAIN Script,
                    i < k, Script[k] = Item
             PROVE  Script[i] \in done
  BY DEF Before
<1>1. k = stepIndex /\ i \in 1 .. stepIndex - 1
  OBVIOUS
<1>2. Passed(Script[i]) /\ Script[i] \in Exec
  BY <1>1 DEF Passed
<1> QED
  BY <1>2 DEF LoopControl

(* Once the loop is past the call of an item the item has a record, and so *)
(* has all that is done; records appear in plan order.                     *)
PlanInv ==
  /\ at \in {"recovering", "replay", "replayed", "advance"} => records[Item] # NoRecord
  /\ reply[Agent] \in GoingOn => records[task[Agent]] # NoRecord
  /\ \A e \in done : records[e] # NoRecord
  /\ PlanOrder

(* No step of the loop, restart or crash breaks this.                      *)
LEMMA PlanInvStays ==
  ASSUME LoopInv, PlanInv, [LoopNext]_<<vars, loopVars>>
  PROVE  PlanInv'
<1> USE LoopAssumption DEF LoopInv
<1> Agent \in Workers
  OBVIOUS
<1>0. [Next]_vars \/ Interlude
  BY LoopStepsOfTheRun DEF RunInv
<1>1. \A e \in Exec : records[e] # NoRecord => records'[e] # NoRecord
  BY <1>0, RecordsComeFromCalls
<1>2. ASSUME reply'[Agent] \in GoingOn
      PROVE  records'[task'[Agent]] # NoRecord
  <2> task[Agent] \in Exec
    BY DEF RunInv, TypeOK, CallTypeOK
  <2>1. ASSUME task'[Agent] = task[Agent], reply'[Agent] = reply[Agent]
        PROVE  records'[task'[Agent]] # NoRecord
    BY <1>1, <1>2, <2>1 DEF PlanInv
  <2>2. CASE ContinueCall(Agent)
    BY <1>2, <2>1, <2>2, AnswersHaveRecords, CallStaysOnTask DEF RunInv
  <2>3. ASSUME NEW e \in Exec, StartCall(Agent, e)
        PROVE  FALSE
    BY <1>2, <2>3 DEF StartCall, Call, RunInv, TypeOK, CallTypeOK, GoingOn
  <2>4. CASE Crash
    BY <1>2, <2>4 DEF Crash, GoingOn
  <2>5. CASE UNCHANGED callVars
    BY <2>1, <2>5 DEF callVars
  <2> QED
    BY <1>0, <2>2, <2>3, <2>4, <2>5
       DEF Interlude, Next, StartPass, ContinuePass, WindowPasses, Network, vars
<1>3. at \in OnItem => Item \in Exec /\ HasItem
  BY DEF LoopControl, LoopTypeOK, HasItem, Item
<1>4. \/ done' = done
      \/ at = "advance" /\ done' = done \union {Item}
  BY DEF LoopNext, LoopStep, StartProcess, SkipItem, TakeTurn, ExecuteTool, Recover, Raise,
         Resolve, AcceptReplay, AdvancePlanItem, Finish, Kill, Outside, Goes, loopVars
<1>5. \A e \in done' : records'[e] # NoRecord
  BY <1>1, <1>3, <1>4 DEF PlanInv, OnItem, LoopTypeOK
<1>6. PlanOrder'
  <2> SUFFICES ASSUME NEW e \in Exec, records'[e] # NoRecord
               PROVE  Before(e) \subseteq done'
    BY DEF PlanOrder, Before
  <2>1. CASE records[e] # NoRecord
    BY <1>4, <2>1 DEF PlanInv, PlanOrder
  <2>2. CASE records[e] = NoRecord
    <3>1. pc[Agent] # "idle" /\ task[Agent] = e
      BY <1>0, <2>2, RecordsComeFromCalls
    <3>2. at \in Calling
      BY <3>1 DEF LoopControl, AllIdle
    <3>3. HasItem /\ Item = e
      BY <3>1, <3>2 DEF LoopControl, Calling, OnItem
    <3> QED
      BY <1>4, <3>3, BeforeTheItemIsDone
  <2> QED
    BY <2>1, <2>2
<1>7. ASSUME at' \in {"recovering", "replay", "replayed", "advance"}
      PROVE  records'[Item'] # NoRecord
  <2>1. /\ Item' = Item /\ at \in OnItem
        /\ \/ at \in {"recovering", "replay", "replayed", "advance"}
           \/ at = "called" /\ reply[Agent] \in GoingOn
    BY <1>7
       DEF LoopNext, LoopStep, StartProcess, SkipItem, TakeTurn, ExecuteTool, Recover, Raise,
           Resolve, AcceptReplay, AdvancePlanItem, Finish, Kill, Outside, Goes, CommitThen,
           loopVars, Item, OnItem, GoingOn
  <2>2. records[Item] # NoRecord
    BY <2>1 DEF PlanInv, LoopControl, Calling
  <2> QED
    BY <1>1, <1>3, <2>1, <2>2
<1> QED
  BY <1>2, <1>5, <1>6, <1>7 DEF PlanInv

(* The first record of an execution is written in plan order throughout.   *)
LEMMA PlanInvHolds == LoopSpec => []PlanInv
<1>1. LoopInit => PlanInv
  BY LoopAssumption
     DEF LoopInit, Init, JournalInit, CallInit, PlanInv, PlanOrder, GoingOn, NoRecord
<1> QED
  BY <1>1, PlanInvStays, LoopInvHolds, PTL DEF LoopSpec

(* Items run in plan order, also across restarts: an execution has a       *)
(* record only when every item before it in the plan has been marked done. *)
THEOREM ItemsRunInPlanOrder == LoopSpec => []PlanOrder
BY PlanInvHolds, PTL DEF PlanInv

-----------------------------------------------------------------------------
(* What the plan's writes come to                                          *)

(* Under the loop too a write is logged before it is sent, a target that   *)
(* dedupes applies it once at most, and a success that the loop acts on is *)
(* backed by a committed record, whenever the agent is killed, restarted   *)
(* or has a call replayed.                                                 *)
THEOREM LoopEffectsAreSafe ==
  LoopSpec => [](ExactlyOnceEffect /\ LogBeforeSend /\ SuccessIsDurable)
<1>1. LoopInit => EffectsInv
  BY EffectsAtTheStart DEF LoopInit
<1>2. LoopInv /\ EffectsInv /\ [LoopNext]_<<vars, loopVars>> => EffectsInv'
  BY LoopStepsOfTheRun, EffectsStay DEF LoopInv, RunInv
<1> QED
  BY <1>1, <1>2, EffectsMean, LoopInvHolds, PTL DEF LoopSpec

(* Where recovery cannot verify the writes, the loop never sends one a     *)
(* second time, and none takes effect twice at a target that does not      *)
(* dedupe: only a verdict leads to the replay of an ambiguous write.       *)
THEOREM LoopSendsOnceUnverified ==
  ASSUME ~HasVerifier
  PROVE  LoopSpec => [](OneReplayPerVerdict /\ \A e \in Writes : commits[e] <= 1)
<1>1. LoopInit => SentInv
  BY SentAtTheStart DEF LoopInit
<1>2. LoopInv /\ SentInv /\ [LoopNext]_<<vars, loopVars>> => SentInv'
  BY LoopStepsOfTheRun, SentStays DEF LoopInv, RunInv
<1>3. LoopInv /\ SentInv => OneReplayPerVerdict /\ \A e \in Writes : commits[e] <= 1
  BY SentMeansOnce DEF LoopInv, RunInv, OneReplayPerVerdict
<1> QED
  BY <1>1, <1>2, <1>3, LoopInvHolds, PTL DEF LoopSpec

(* The evidence behind the records holds under the loop.                   *)
LEMMA LoopEvidenceHolds ==
  ASSUME DistinctWrites
  PROVE  LoopSpec => [](EvidenceInv /\ CommittedIsReal)
<1> DEFINE Evidence == EvidenceInv /\ CommittedIsReal
<1>1. LoopInit => Evidence
  BY EvidenceAtTheStart DEF LoopInit
<1>2. LoopInv /\ Evidence /\ [LoopNext]_<<vars, loopVars>> => Evidence'
  BY LoopStepsOfTheRun, EvidenceStaysInTheRun DEF LoopInv, RunInv
<1> QED
  BY <1>1, <1>2, LoopInvHolds, PTL DEF LoopSpec

(* If no two writes store the same value, the agent never takes for done   *)
(* what has not happened: a write recorded as committed, or answered to    *)
(* the loop as a success, has taken effect at the target.                  *)
THEOREM LoopTellsTheTruth ==
  ASSUME DistinctWrites
  PROVE  LoopSpec =>
           [](/\ CommittedIsReal
              /\ task[Agent] \in Writes /\ reply[Agent] \in {"succeeded", "reused"}
                   => commits[task[Agent]] > 0)
<1>1. LoopInv /\ CommittedIsReal /\ SuccessIsDurable =>
        (task[Agent] \in Writes /\ reply[Agent] \in {"succeeded", "reused"}
           => commits[task[Agent]] > 0)
  <2> Agent \in Workers
    BY LoopAssumption
  <2> QED
    BY SuccessHasHappened DEF LoopInv, RunInv, Success
<1> QED
  BY <1>1, LoopInvHolds, LoopEvidenceHolds, LoopEffectsAreSafe, PTL

(* What is done and has not taken effect has a record that is open.        *)
LEMMA OpenOrFailed ==
  ASSUME LoopInv, PlanInv, CommittedIsReal,
         NEW e \in done \intersect Writes, commits[e] = 0
  PROVE  e \in pending \/ records[e] = "failed"
<1> e \in Exec
  BY WritesAssumption
<1>1. records[e] \in Statuses \ Committed
  BY DEF PlanInv, CommittedIsReal, LoopInv, RunInv, TypeOK, JournalTypeOK
<1> QED
  BY <1>1 DEF LoopInv, RunInv, Discipline, PendingIffUnsettled, Statuses, Committed, Unsettled

(* The loop marks an item done whatever its recovery has come to; if no    *)
(* two writes store the same value, what is left unresolved stays visible: *)
(* a write that has not taken effect is still pending or recorded as       *)
(* failed.                                                                 *)
THEOREM NothingIsSilentlyDropped ==
  ASSUME DistinctWrites
  PROVE  LoopSpec => []UnresolvedStaysVisible
<1>1. LoopInv /\ PlanInv /\ CommittedIsReal => UnresolvedStaysVisible
  BY OpenOrFailed DEF UnresolvedStaysVisible
<1> QED
  BY <1>1, LoopInvHolds, PlanInvHolds, LoopEvidenceHolds, PTL

(* The loop finishes when it has passed the whole plan.                    *)
LEMMA FinishedIsPast == LoopSpec => [](at = "finished" => ~HasItem)
<1> DEFINE Past == at = "finished" => ~HasItem
<1>1. LoopInit => Past
  BY DEF LoopInit
<1>2. Past /\ [LoopNext]_<<vars, loopVars>> => Past'
  <2> SUFFICES ASSUME Past, [LoopNext]_<<vars, loopVars>>, at' = "finished"
               PROVE  ~HasItem'
    OBVIOUS
  <2>1. UNCHANGED stepIndex /\ ~HasItem
    BY DEF LoopNext, LoopStep, StartProcess, SkipItem, TakeTurn, ExecuteTool, Recover, Raise,
           Resolve, AcceptReplay, AdvancePlanItem, Finish, Kill, Outside, Goes, CommitThen,
           loopVars
  <2> QED
    BY <2>1 DEF HasItem
<1> QED
  BY <1>1, <1>2, PTL DEF LoopSpec

(* A run that its agent has finished with nothing left pending has done    *)
(* its plan: at a target that dedupes every keyed write of the plan that   *)
(* is not recorded as failed has taken effect exactly once, however often  *)
(* the agent was killed on the way, if no two writes store the same value. *)
THEOREM FinishedMeansAppliedOnce ==
  ASSUME DistinctWrites, TargetDedupes
  PROVE  LoopSpec =>
           [](at = "finished" /\ pending = {} =>
                \A j \in DOMAIN Script :
                   Script[j] \in Keyed /\ records[Script[j]] # "failed"
                     => commits[Script[j]] = 1)
<1> DEFINE Applied ==
      at = "finished" /\ pending = {} =>
        \A j \in DOMAIN Script :
           Script[j] \in Keyed /\ records[Script[j]] # "failed" => commits[Script[j]] = 1
<1>1. /\ LoopInv /\ PlanInv /\ CommittedIsReal /\ ExactlyOnceEffect
      /\ at = "finished" => ~HasItem
      => Applied
  <2> SUFFICES ASSUME LoopInv, PlanInv, CommittedIsReal, ExactlyOnceEffect,
                      at = "finished", ~HasItem, pending = {},
                      NEW j \in DOMAIN Script, Script[j] \in Keyed,
                      records[Script[j]] # "failed"
               PROVE  commits[Script[j]] = 1
    OBVIOUS
  <2>1. Script[j] \in done
    BY LoopAssumption DEF LoopInv, LoopTypeOK, LoopControl, HasItem, Passed
  <2>2. Script[j] \in Writes /\ Script[j] \in Exec
    BY WritesAssumption
  <2>3. commits[Script[j]] # 0
    BY <2>1, <2>2, OpenOrFailed
  <2>4. commits[Script[j]] \in Nat /\ commits[Script[j]] <= 1
    BY <2>2 DEF ExactlyOnceEffect, LoopInv, RunInv, TypeOK, TargetTypeOK
  <2> QED
    BY <2>3, <2>4
<1> QED
  BY <1>1, LoopInvHolds, PlanInvHolds, LoopEvidenceHolds, LoopEffectsAreSafe, FinishedIsPast, PTL
=============================================================================
