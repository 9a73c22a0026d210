----------------------------- MODULE AgentLoop -----------------------------
(***************************************************************************)
(* The loop of the sample agent around one run: each plan item is one tool *)
(* call; the loop executes it, recovers the run, acts on the decision and  *)
(* marks the item done, and a restarted process skips the items it finds   *)
(* done.  One thread executes, so calls and passes never overlap.          *)
(***************************************************************************)
EXTENDS AgentSystem, Sequences

CONSTANTS
  Script,        \* the executions of the plan items, in plan order
  Agent          \* the thread that runs the loop

ASSUME LoopAssumption ==
  /\ Script \in Seq(Exec)
  /\ \A j, k \in DOMAIN Script : j # k => Script[j] # Script[k]
  /\ Workers = {Agent}

VARIABLES at,         \* where the loop is; "down" when no process runs
          stepIndex,  \* index of the current item, past the script for the final turn
          completed,  \* completed_plan_item_ids as read at the start
          done        \* items whose durable status is done

loopVars == <<at, stepIndex, completed, done>>

LoopTypeOK ==
  /\ at \in {"down", "step", "call", "called", "recovering", "replay", "replayed",
             "advance", "finished"}
  /\ stepIndex \in 1 .. Len(Script) + 1
  /\ completed \subseteq done
  /\ done \subseteq Exec

LoopInit ==
  /\ Init
  /\ at = "down"
  /\ stepIndex = 1
  /\ completed = {}
  /\ done = {}

-----------------------------------------------------------------------------

Item == Script[stepIndex]

HasItem == stepIndex <= Len(Script)

Goes(place) ==
  /\ at' = place
  /\ UNCHANGED <<stepIndex, completed, done>>

(* A commit of the loop's own: the mirror's failure ends the process.      *)
CommitThen(place, index) ==
  \/ at' = place /\ stepIndex' = index /\ UNCHANGED faults
  \/ at' = "down" /\ UNCHANGED stepIndex /\ Fault

OnlyFaults ==
  UNCHANGED <<journalVars, targetVars, late, elapsed, historyVars, callVars, passVars,
              toolMsgs, crashes>>

(* A restart that starts over and does not look at the plan.               *)
StartOver ==
  /\ at = "down"
  /\ at' = "step"
  /\ stepIndex' = 1
  /\ completed' = {}
  /\ UNCHANGED <<done, vars>>

(* A restart that takes the items whose call has committed for done.       *)
StartFromRecords ==
  /\ at = "down"
  /\ at' = "step"
  /\ stepIndex' = 1
  /\ completed' = {e \in Exec : records[e] \in Committed}
  /\ UNCHANGED <<done, vars>>

(* start_run creates the run or resumes it.                                *)
StartProcess ==
  /\ at = "down"
  /\ at' = "step"
  /\ stepIndex' = 1
  /\ completed' = done
  /\ UNCHANGED <<done, vars>>

SkipItem ==
  /\ at = "step" /\ HasItem
  /\ Item \in completed
  /\ stepIndex' = stepIndex + 1
  /\ UNCHANGED <<at, completed, done, vars>>

(* The model's turn is recorded before its tool is called.                 *)
TakeTurn ==
  /\ at = "step" /\ HasItem
  /\ Item \notin completed
  /\ CommitThen("call", stepIndex)
  /\ UNCHANGED <<completed, done>>
  /\ OnlyFaults

ExecuteTool ==
  /\ \/ at = "call" /\ Goes("called")
     \/ at = "replay" /\ Goes("replayed")
  /\ Call(Agent, Item)
  /\ UNCHANGED <<passVars, toolMsgs, crashes>>

Returned == pc[Agent] = "idle"

(* A pass after a pending call that is given no time of its own.           *)
RecoverInTime ==
  /\ at = "called" /\ Returned
  /\ reply[Agent] \in {"succeeded", "reused", "pending_recovery"}
  /\ BeginPass
  /\ Goes("recovering")
  /\ UNCHANGED <<callVars, crashes>>

(* After a call that is pending recovery, the time given to recover_run is *)
(* past the deadline of the record and of all records before it.           *)
Recover ==
  /\ at = "called" /\ Returned
  /\ \/ reply[Agent] \in {"succeeded", "reused"} /\ BeginPass
     \/ /\ reply[Agent] = "pending_recovery"
        /\ BeginPassWith({e \in Exec : records[e] = "dispatched"})
  /\ Goes("recovering")
  /\ UNCHANGED <<callVars, crashes>>

(* An exception, or a failed tool, ends the process.                       *)
Raise ==
  /\ \/ /\ at \in {"called", "replayed"} /\ Returned
        /\ reply[Agent] \in {"raised", "aborted"}
     \/ at = "called" /\ Returned /\ reply[Agent] = "failed"
     \/ at = "recovering" /\ step = "idle" /\ outcome # "none"
  /\ Goes("down")
  /\ UNCHANGED vars

(* No decision of recovery is acted upon.                                  *)
ResolveNothing ==
  /\ at = "recovering" /\ step = "idle" /\ outcome = "none"
  /\ Goes("advance")
  /\ UNCHANGED vars

(* A write that is to be replayed is executed again; what recovery hands   *)
(* off is left as it is.                                                   *)
Resolve ==
  /\ at = "recovering" /\ step = "idle" /\ outcome = "none"
  /\ Goes(IF reply[Agent] = "pending_recovery" /\ decision[Item] = "replay"
          THEN "replay" ELSE "advance")
  /\ UNCHANGED vars

(* A loop that stops at an item whose replay has not succeeded.            *)
AcceptOnlySuccess ==
  /\ at = "replayed" /\ Returned
  /\ reply[Agent] \notin {"raised", "aborted"}
  /\ Goes(IF reply[Agent] \in {"succeeded", "reused"} THEN "advance" ELSE "down")
  /\ UNCHANGED vars

(* Whatever the replay came to, the loop goes on.                          *)
AcceptReplay ==
  /\ at = "replayed" /\ Returned
  /\ reply[Agent] \notin {"raised", "aborted"}
  /\ Goes("advance")
  /\ UNCHANGED vars

AdvancePlanItem ==
  /\ at = "advance"
  /\ done' = done \union {Item}
  /\ CommitThen("step", stepIndex + 1)
  /\ UNCHANGED completed
  /\ OnlyFaults

(* The final turn: the answer, the last item once more, a checkpoint.      *)
Finish ==
  /\ at = "step" /\ ~HasItem
  /\ CommitThen("finished", stepIndex)
  /\ UNCHANGED <<completed, done>>
  /\ OnlyFaults

LoopStep ==
  \/ StartProcess \/ SkipItem \/ TakeTurn \/ ExecuteTool \/ Recover \/ Raise
  \/ Resolve \/ AcceptReplay \/ AdvancePlanItem \/ Finish
  \/ /\ ContinueCall(Agent) \/ ContinuePass
     /\ UNCHANGED loopVars

Kill ==
  /\ at \notin {"down", "finished"}
  /\ Crash \/ CrashBetweenCalls
  /\ Goes("down")

Outside == (\E e \in Exec : WindowPasses(e) \/ Network(e)) /\ UNCHANGED loopVars

LoopNext == LoopStep \/ Kill \/ Outside

LoopSpec == LoopInit /\ [][LoopNext]_<<vars, loopVars>>

FairLoopSpec == LoopSpec /\ WF_<<vars, loopVars>>(LoopStep)

-----------------------------------------------------------------------------
(* Properties                                                              *)

Before(e) == {Script[j] : j \in {i \in DOMAIN Script : \E k \in DOMAIN Script :
                                                          i < k /\ Script[k] = e}}

(* Items run in plan order, also across restarts: an execution is begun    *)
(* only when every item before it has been marked done.                    *)
PlanOrder == \A e \in Exec : records[e] # NoRecord => Before(e) \subseteq done

(* An item that is marked done is not executed again.                      *)
DoneIsNotRepeated == \A w \in Workers : pc[w] # "idle" => task[w] \notin done

(* What an item marked done has left unresolved stays visible: a write     *)
(* that has not taken effect is still pending, or recorded as failed.      *)
UnresolvedStaysVisible ==
  \A e \in done \intersect Writes :
     commits[e] = 0 => e \in pending \/ records[e] = "failed"

(* An agent that is restarted finishes its plan, unless a tool has failed. *)
AgentFinishes == <>(at = "finished" \/ \E e \in Exec : records[e] = "failed")

(* With a verifier, the loop does not leave an ambiguous write waiting:    *)
(* whatever was killed or lost, the write of an item that is not done gets *)
(* a verdict, or is handed off because the lookup failed.                  *)
AmbiguousWritesAreJudged ==
  HasVerifier =>
    \A e \in Writes :
       records[e] = "dispatched" /\ e \notin done
         ~> records[e] # "dispatched" \/ decision[e] = "handoff"

(* "Intent recorded but dispatch not observed" is decided REPLAY, so the   *)
(* execution does not stay at its intent for ever.                         *)
IntentIsReplayed ==
  \A e \in Exec : records[e] = "intent_logged" ~> records[e] # "intent_logged"
=============================================================================
