---------------------------- MODULE AgentSystem ----------------------------
(***************************************************************************)
(* One run of a RAEF agent: threads that execute tools, the recovery       *)
(* coordinator, the target with its network, and the crashes of the agent  *)
(* process, around one durable journal.                                    *)
(***************************************************************************)
EXTENDS TransactionManager, RecoveryCoordinator

CONSTANTS
  SingleWriter,     \* "single-writer per run": one call or pass at a time
  BoundedDelay,     \* a request is sent and has arrived or is lost within its window
  MaxCrashes        \* bound: crashes of the agent process

ASSUME SystemAssumption ==
  /\ SingleWriter \in BOOLEAN
  /\ BoundedDelay \in BOOLEAN
  /\ MaxCrashes \in Nat

VARIABLE crashes

vars == <<journalVars, targetVars, late, environmentVars, callVars,
          passVars, toolMsgs, crashes>>

TypeOK ==
  /\ JournalTypeOK /\ TargetTypeOK /\ EnvironmentTypeOK /\ CallTypeOK /\ PassTypeOK
  /\ crashes \in 0 .. MaxCrashes

Init ==
  /\ JournalInit /\ TargetInit /\ EnvironmentInit /\ CallInit /\ PassInit
  /\ crashes = 0

-----------------------------------------------------------------------------

AllIdle == \A w \in Workers : pc[w] = "idle"

OnTheWire(e) == {w \in Workers : pc[w] = "waiting" /\ wire[w] = "out" /\ task[w] = e}

StartCall(w, e) ==
  /\ SingleWriter => AllIdle /\ step = "idle"
  /\ Call(w, e)
  /\ UNCHANGED <<passVars, toolMsgs, crashes>>

ContinueCall(w) ==
  /\ WorkerStep(w)
  /\ UNCHANGED <<passVars, toolMsgs, crashes>>

StartPass ==
  /\ SingleWriter => AllIdle
  /\ BeginPass
  /\ UNCHANGED <<callVars, crashes>>

ContinuePass ==
  /\ PassStep
  /\ UNCHANGED <<callVars, crashes>>

UnderWay(e) ==
  late[e] > 0 \/ \E w \in Workers : task[w] = e /\ (pc[w] = "invoke" \/ w \in OnTheWire(e))

(* The clock passes the record's deadline.                                 *)
WindowPasses(e) ==
  /\ records[e] = "dispatched" /\ e \notin elapsed
  /\ BoundedDelay => ~UnderWay(e)
  /\ elapsed' = elapsed \union {e}
  /\ UNCHANGED <<journalVars, targetVars, late, callVars, faults, historyVars,
                 passVars, toolMsgs, crashes>>

Network(e) ==
  /\ LateArrives(e) \/ LateVanishes(e)
  /\ UNCHANGED <<journalVars, callVars, environmentVars, passVars, toolMsgs,
                 crashes>>

(* The process dies and starts again: what it held in memory is gone, its  *)
(* requests are still under way.                                           *)
Crash ==
  /\ crashes < MaxCrashes
  /\ ~AllIdle \/ step # "idle"
  /\ crashes' = crashes + 1
  /\ pc' = [w \in Workers |-> "idle"]
  /\ reply' = [w \in Workers |-> "none"]
  /\ replay' = {}
  /\ wire' = [w \in Workers |-> "none"]
  /\ late' = [e \in Exec |-> late[e] + Cardinality(OnTheWire(e))]
  /\ step' = "idle"
  /\ todo' = {}
  /\ decision' = NoDecisions
  /\ outcome' = "none"
  /\ UNCHANGED <<task, snapshot, overdue, current, verdict, journalVars, targetVars, toolMsgs,
                 environmentVars>>

(* The process dies while no call and no pass is under way.                *)
CrashBetweenCalls ==
  /\ crashes < MaxCrashes
  /\ AllIdle /\ step = "idle"
  /\ crashes' = crashes + 1
  /\ UNCHANGED <<journalVars, targetVars, late, environmentVars, callVars, passVars, toolMsgs>>

Next ==
  \/ \E w \in Workers : ContinueCall(w) \/ \E e \in Exec : StartCall(w, e)
  \/ StartPass
  \/ ContinuePass
  \/ \E e \in Exec : WindowPasses(e) \/ Network(e)
  \/ Crash

Spec == Init /\ [][Next]_vars

-----------------------------------------------------------------------------
(* Safety                                                                  *)

(* Log before send: a write that is on its way to the target, or has taken *)
(* effect there, has a durable record that says more than its intent,      *)
(* whatever crashed or failed since.                                       *)
LogBeforeSend ==
  \A e \in Writes :
     OnTheWire(e) # {} \/ late[e] > 0 \/ commits[e] > 0
       => records[e] \notin {NoRecord, "intent_logged"}

(* A result recorded as committed is one the target has applied.           *)
CommittedIsReal ==
  \A e \in Writes : records[e] \in Committed => commits[e] > 0

(* However requests are lost, delayed or repeated, a write that carries    *)
(* its execution id to a target that dedupes takes effect at most once.    *)
ExactlyOnceEffect ==
  TargetDedupes => \A e \in Keyed : commits[e] <= 1

(* A write is not sent again unless a verdict has found it absent.         *)
NeverBlindlyRefired ==
  \A e \in Writes : e \in resent => e \in foundAbsent

(* An execution is pending exactly while its outcome is open.              *)
PendingIffUnsettled ==
  \A e \in Exec : e \in pending <=> records[e] \in Unsettled

(* With one writer neither execute_tool nor recover_run ever attempts a    *)
(* status move that the facade refuses.                                    *)
NoIllegalMove == outcome # "raised" /\ \A w \in Workers : reply[w] # "raised"

(* A committed result is copied into the context once, however often the   *)
(* run is recovered, and a pass that reports it has copied it.             *)
ReconciledOnce ==
  \A e \in Exec : /\ toolMsgs[e] <= 1
                  /\ decision[e] = "mark_committed" => toolMsgs[e] = 1

(* An answer that reports success is backed by a reusable record.          *)
SuccessIsDurable ==
  \A w \in Workers :
     reply[w] \in {"succeeded", "reused"} => records[task[w]] \in Committed

(* A keyed write that is never sent twice on the strength of one verdict   *)
(* takes effect once, even at a target that does not dedupe.               *)
OneCommitPerVerdict ==
  \A e \in Keyed : e \notin resent => commits[e] <= 1

(* "Proven absence -> replay exactly once": each verdict that found a      *)
(* write absent allows one more request.                                   *)
OneReplayPerVerdict ==
  \A e \in Writes : e \notin resent

(* "Tool failed definitively": a failed write has not taken effect.        *)
FailedIsDefinite ==
  \A e \in Writes : records[e] = "failed" => commits[e] = 0

=============================================================================
