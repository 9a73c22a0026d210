--------------------------- MODULE OpenRouterLoop ---------------------------
(***************************************************************************)
(* The loop of the model-driven sample agent, with its timing spans.  Each *)
(* step asks the model for one turn: a tool call, which the loop executes, *)
(* recovers and marks done whatever came of it, or the final answer.  The  *)
(* phases of a step are spans of their own; an exception closes the open   *)
(* spans on its way out, a kill leaves them as they are.  Plan items and   *)
(* steps are counted from 1; steps past the plan work on its last item.    *)
(* An execution is identified by the item and the call that is made for it. *)
(***************************************************************************)
EXTENDS AgentSystem, EvaluationRecorder

CONSTANTS
  LastItem,      \* number of plan items
  ItemOf,        \* [Exec -> plan items]
  Final,         \* the model's turn is the final answer
  NoTurn,        \* no turn, or no llm_output
  MaxSteps,      \* MAX_STEPS
  MaxStarts,     \* bound: processes that work on the run
  Agent          \* the thread that runs the loop

ASSUME OpenRouterAssumption ==
  /\ LastItem \in Nat \ {0}
  /\ ItemOf \in [Exec -> 1 .. LastItem]
  /\ {Final, NoTurn} \intersect Exec = {} /\ Final # NoTurn
  /\ MaxSteps \in Nat /\ MaxStarts \in Nat
  /\ Workers = {Agent}

VARIABLES
  at,            \* the place in the loop; "down" when no process runs
  mode,          \* a phase has yet to open its span, is at work, waits, or ends
  unwinding,     \* the status with which an exception closes the open spans
  stepIndex,     \* the current step
  completed,     \* completed_plan_item_ids as read at the start
  done,          \* items whose durable status is done
  turn,          \* the model's turn in this step
  turns,         \* assistant messages of the context
  outputs,       \* llm_output of each item
  starts,        \* processes started
  crashedIn      \* history: attempts in which the process crashed

controlVars == <<at, mode, unwinding>>
itemVars == <<stepIndex, completed, done>>
turnVars == <<turn, turns, outputs>>
processVars == <<starts, crashedIn>>
openRouterVars == <<controlVars, itemVars, turnVars, processVars>>

allVars == <<vars, recorderVars, openRouterVars>>

Phases == {"llm_generate", "record_llm_turn", "tool_transaction", "recovery",
           "record_final_message", "advance_plan_item"}

Turns == Exec \union {Final}

OpenRouterTypeOK ==
  /\ RecorderTypeOK(1 .. MaxSteps, Phases)
  /\ at \in Phases \union {"down", "step", "checkpoint", "close", "finished"}
  /\ mode \in {"begin", "work", "busy", "end"}
  /\ unwinding \in {"no", "failed", "interrupted"}
  /\ stepIndex \in 1 .. MaxSteps + 1
  /\ completed \subseteq done /\ done \subseteq 1 .. LastItem
  /\ turn \in Turns \union {NoTurn}
  /\ turns \in Seq(Turns)
  /\ outputs \in [1 .. LastItem -> Exec \union {NoTurn}]
  /\ starts \in 0 .. MaxStarts
  /\ crashedIn \subseteq AllAttempts

OpenRouterInit ==
  /\ Init /\ RecorderInit
  /\ at = "down" /\ mode = "begin" /\ unwinding = "no"
  /\ stepIndex = 1 /\ completed = {} /\ done = {}
  /\ turn = NoTurn /\ turns = << >> /\ outputs = [i \in 1 .. LastItem |-> NoTurn]
  /\ starts = 0 /\ crashedIn = {}

-----------------------------------------------------------------------------
(* Control                                                                 *)

Item(s) == IF s < LastItem THEN s ELSE LastItem

Runs(place, state) == at = place /\ mode = state /\ unwinding = "no"

Moves(place, state) ==
  /\ at' = place
  /\ mode' = state
  /\ UNCHANGED unwinding

Raises(status) ==
  /\ unwinding' = status
  /\ UNCHANGED <<at, mode>>

(* The facade's commit has been made; a failure of the mirror is raised in *)
(* the loop.                                                               *)
CommitsThen(place, state) ==
  /\ \/ Moves(place, state) /\ UNCHANGED faults
     \/ Raises("failed") /\ Fault
  /\ UNCHANGED <<journalVars, targetVars, late, elapsed, historyVars, callVars, passVars,
                 toolMsgs, crashes>>

(* An item whose call is left pending is not marked done.                  *)
AfterToolCallLeaving ==
  [llm_generate |-> "record_llm_turn", record_llm_turn |-> "tool_transaction",
   tool_transaction |-> "recovery",
   recovery |-> IF reply[Agent] = "pending_recovery" THEN "close" ELSE "advance_plan_item",
   advance_plan_item |-> "close"]

AfterToolCall ==
  [llm_generate |-> "record_llm_turn", record_llm_turn |-> "tool_transaction",
   tool_transaction |-> "recovery", recovery |-> "advance_plan_item",
   advance_plan_item |-> "close"]

AfterFinal ==
  [llm_generate |-> "record_final_message", record_final_message |-> "advance_plan_item",
   advance_plan_item |-> "checkpoint"]

NextPlace == IF turn = Final THEN AfterFinal[at] ELSE AfterToolCall[at]

-----------------------------------------------------------------------------
(* Processes and steps                                                     *)

(* No process works on the run: none was started, the last one died, or it *)
(* has returned its answer.                                                *)
NotRunning == at \in {"down", "finished"} /\ Runs(at, "begin")

(* A restart that takes the items with a recorded turn for done.           *)
StartFromOutputs ==
  /\ NotRunning
  /\ starts < MaxStarts
  /\ starts' = starts + 1
  /\ Moves("step", "begin")
  /\ stepIndex' = 1
  /\ completed' = {i \in 1 .. LastItem : outputs[i] # NoTurn}
  /\ UNCHANGED <<done, turnVars, crashedIn, vars, recorderVars>>

StartProcess ==
  /\ NotRunning
  /\ starts < MaxStarts
  /\ starts' = starts + 1
  /\ Moves("step", "begin")
  /\ stepIndex' = 1
  /\ completed' = done
  /\ UNCHANGED <<done, turnVars, crashedIn, vars, recorderVars>>

Skippable(s) == s <= LastItem /\ Item(s) \in completed

SkipItem ==
  /\ Runs("step", "begin")
  /\ stepIndex <= MaxSteps /\ Skippable(stepIndex)
  /\ stepIndex' = stepIndex + 1
  /\ UNCHANGED <<controlVars, completed, done, turnVars, processVars, vars, recorderVars>>

BeginStep ==
  /\ Runs("step", "begin")
  /\ stepIndex <= MaxSteps /\ ~Skippable(stepIndex)
  /\ StartStep(stepIndex)
  /\ Moves("llm_generate", "begin")
  /\ UNCHANGED <<itemVars, turnVars, processVars, vars>>

(* No final answer within MAX_STEPS.                                       *)
GiveUp ==
  /\ Runs("step", "begin")
  /\ stepIndex > MaxSteps
  /\ Moves("down", "begin")
  /\ UNCHANGED <<itemVars, turnVars, processVars, vars, recorderVars>>

BeginPhase ==
  /\ at \in Phases /\ Runs(at, "begin")
  /\ StartPhase(at)
  /\ Moves(at, "work")
  /\ UNCHANGED <<itemVars, turnVars, processVars, vars>>

(* A failed tool is raised after its phase.                                *)
EndPhase ==
  /\ at \in Phases /\ Runs(at, "end")
  /\ FinishPhase("succeeded")
  /\ IF at = "tool_transaction" /\ reply[Agent] = "failed" THEN Raises("failed")
     ELSE Moves(NextPlace, IF NextPlace \in Phases THEN "begin" ELSE "work")
  /\ UNCHANGED <<itemVars, turnVars, processVars, vars>>

CloseStep ==
  /\ Runs("close", "work")
  /\ FinishStep("succeeded")
  /\ \/ turn = Final /\ Moves("finished", "begin") /\ UNCHANGED stepIndex
     \/ turn # Final /\ Moves("step", "begin") /\ stepIndex' = stepIndex + 1
  /\ turn' = NoTurn
  /\ UNCHANGED <<completed, done, turns, outputs, processVars, vars>>

-----------------------------------------------------------------------------
(* The work of each phase                                                  *)

(* generate_turn tries the models in turn: an answer of one of them that   *)
(* meets the contract, or an exception.                                    *)
AskModel ==
  /\ Runs("llm_generate", "work")
  /\ turn' \in {e \in Exec : ItemOf[e] = Item(stepIndex)} \union {Final}
  /\ Moves(at, "end")
  /\ UNCHANGED <<itemVars, turns, outputs, processVars, vars, recorderVars>>

ModelFails ==
  /\ Runs("llm_generate", "work")
  /\ Raises("failed")
  /\ UNCHANGED <<itemVars, turnVars, processVars, vars, recorderVars>>

RecordLlmTurn ==
  /\ Runs("record_llm_turn", "work")
  /\ turns' = Append(turns, turn)
  /\ outputs' = [outputs EXCEPT ![Item(stepIndex)] = turn]
  /\ CommitsThen(at, "end")
  /\ UNCHANGED <<itemVars, turn, processVars, recorderVars>>

ExecuteTool ==
  /\ Runs("tool_transaction", "work")
  /\ Call(Agent, turn)
  /\ Moves(at, "busy")
  /\ UNCHANGED <<itemVars, turnVars, processVars, recorderVars, passVars, toolMsgs, crashes>>

Returned == pc[Agent] = "idle"

(* The loop waits for the outcome of an ambiguous call.                    *)
ToolSettles ==
  /\ Runs("tool_transaction", "busy") /\ Returned
  /\ \/ reply[Agent] \in {"raised", "aborted"} /\ Raises("failed")
     \/ reply[Agent] \in {"succeeded", "reused", "failed"} /\ Moves(at, "end")
  /\ UNCHANGED <<itemVars, turnVars, processVars, vars, recorderVars>>

ToolReturns ==
  /\ Runs("tool_transaction", "busy") /\ Returned
  /\ \/ reply[Agent] \in {"raised", "aborted"} /\ Raises("failed")
     \/ reply[Agent] \notin {"raised", "aborted"} /\ Moves(at, "end")
  /\ UNCHANGED <<itemVars, turnVars, processVars, vars, recorderVars>>

(* After a call that is pending recovery the pass is given a time past the *)
(* deadline of its record; other records may have been stamped later.      *)
Recover ==
  /\ Runs("recovery", "work")
  /\ \/ reply[Agent] \in {"succeeded", "reused"} /\ BeginPass
     \/ /\ reply[Agent] = "pending_recovery"
        /\ \E timedOut \in SUBSET {e \in Exec : records[e] = "dispatched"} :
              /\ records[turn] = "dispatched" => turn \in timedOut
              /\ BeginPassWith(timedOut)
  /\ Moves(at, "busy")
  /\ UNCHANGED <<itemVars, turnVars, processVars, recorderVars, callVars, crashes>>

Recovered ==
  /\ Runs("recovery", "busy") /\ step = "idle"
  /\ \/ outcome = "none" /\ Moves(at, "end")
     \/ outcome # "none" /\ Raises("failed")
  /\ UNCHANGED <<itemVars, turnVars, processVars, vars, recorderVars>>

(* The final answer closes the last item, wherever in the plan it is given. *)
AdvancePlanItem ==
  /\ Runs("advance_plan_item", "work")
  /\ done' = done \union {IF turn = Final THEN LastItem ELSE Item(stepIndex)}
  /\ CommitsThen(at, "end")
  /\ UNCHANGED <<stepIndex, completed, turnVars, processVars, recorderVars>>

RecordFinalMessage ==
  /\ Runs("record_final_message", "work")
  /\ turns' = Append(turns, Final)
  /\ CommitsThen(at, "end")
  /\ UNCHANGED <<itemVars, turn, outputs, processVars, recorderVars>>

WriteCheckpoint ==
  /\ Runs("checkpoint", "work")
  /\ CommitsThen("close", "work")
  /\ UNCHANGED <<itemVars, turnVars, processVars, recorderVars>>

Waits ==
  /\ ContinueCall(Agent) \/ ContinuePass
  /\ UNCHANGED <<recorderVars, openRouterVars>>

-----------------------------------------------------------------------------
(* Exceptions and kills                                                    *)

(* The open spans are closed as failed whatever the exception was.         *)
UnwindAsFailed ==
  /\ unwinding # "no"
  /\ \/ FinishPhase("failed") /\ UNCHANGED <<controlVars, turn>>
     \/ /\ FinishStep("failed")
        /\ at' = "down" /\ mode' = "begin" /\ unwinding' = "no"
        /\ turn' = NoTurn
  /\ UNCHANGED <<itemVars, turns, outputs, processVars, vars>>

(* An exception leaves the phase, then the step, then the process.         *)
Unwind ==
  /\ unwinding # "no"
  /\ \/ FinishPhase(unwinding) /\ UNCHANGED <<controlVars, turn>>
     \/ /\ FinishStep(unwinding)
        /\ at' = "down" /\ mode' = "begin" /\ unwinding' = "no"
        /\ turn' = NoTurn
  /\ UNCHANGED <<itemVars, turns, outputs, processVars, vars>>

CrashPoint ==
  /\ at \in Phases /\ unwinding = "no"
  /\ \/ mode = "end"
     \/ at = "llm_generate" /\ mode \in {"begin", "work"}
     \/ at = "tool_transaction" /\ mode = "work"

(* The crash simulator raises at one of its points in the step.            *)
SimulatedCrash ==
  /\ CrashPoint
  /\ crashes < MaxCrashes
  /\ crashes' = crashes + 1
  /\ Raises("interrupted")
  /\ crashedIn' = crashedIn \union {stepSpan}
  /\ UNCHANGED <<itemVars, turnVars, starts, recorderVars, journalVars, targetVars, late,
                 environmentVars, callVars, passVars, toolMsgs>>

Kill ==
  /\ at \notin {"down", "finished"}
  /\ Crash \/ CrashBetweenCalls
  /\ crashedIn' = crashedIn \union ({stepSpan} \ {NoSpan})
  /\ ForgetSpans
  /\ at' = "down" /\ mode' = "begin" /\ unwinding' = "no"
  /\ turn' = NoTurn
  /\ UNCHANGED <<itemVars, turns, outputs, starts>>

Outside ==
  /\ \E e \in Exec : WindowPasses(e) \/ Network(e)
  /\ UNCHANGED <<recorderVars, openRouterVars>>

LoopStep ==
  \/ SkipItem \/ BeginStep \/ GiveUp \/ BeginPhase \/ EndPhase \/ CloseStep
  \/ AskModel \/ ModelFails \/ RecordLlmTurn \/ ExecuteTool \/ ToolReturns
  \/ Recover \/ Recovered \/ AdvancePlanItem \/ RecordFinalMessage \/ WriteCheckpoint
  \/ Waits \/ Unwind

OpenRouterNext == StartProcess \/ LoopStep \/ SimulatedCrash \/ Kill \/ Outside

OpenRouterSpec == OpenRouterInit /\ [][OpenRouterNext]_allVars

(* A living process goes on: the model's answer has a timeout, a tool call *)
(* comes to an end.                                                        *)
FairOpenRouterSpec == OpenRouterSpec /\ WF_allVars(LoopStep)

-----------------------------------------------------------------------------
(* Properties                                                              *)

(* An attempt in which the model gave the final answer.                    *)
Answering(k) == \E j \in PhasesOf(k) : spans[j].phase = "record_final_message"

(* Attempts are numbered without gaps across crashes and restarts, phases  *)
(* lie within their attempt, and a plan step whose tool call an attempt    *)
(* has carried through is not attempted again, by whatever process, also   *)
(* after an early answer: its item is skipped.                             *)
AttemptsAreNumbered ==
  /\ \A s \in 1 .. MaxSteps : NumberedInOrder(s)
  /\ PhasesNest
  /\ \A s \in 1 .. LastItem : \A j, k \in Attempts(s) :
        j < k /\ spans[j].status = "succeeded" => Answering(j)

(* Every execution of an item was begun in an attempt of its own.          *)
SpanBeforeWork ==
  \A i \in 1 .. LastItem :
     Cardinality({e \in Exec : ItemOf[e] = i /\ records[e] # NoRecord})
       <= Cardinality({k \in AllAttempts : Item(spans[k].step) = i})

(* An attempt that is reported as succeeded has all its phases succeeded,  *)
(* and has left its item done or the run answered.                         *)
SucceededMeansAdvanced ==
  \A k \in AllAttempts :
     spans[k].status = "succeeded" =>
       /\ \A j \in PhasesOf(k) : spans[j].status = "succeeded"
       /\ \/ Item(spans[k].step) \in done
          \/ LastItem \in done /\ \E t \in DOMAIN turns : turns[t] = Final

(* When no process runs, the attempts that the report calls interrupted    *)
(* are those in which a process crashed, killed or by an injected crash.   *)
ReportAccountsForCrashes ==
  at \in {"down", "finished"} => ReportedInterrupted = crashedIn

(* Without a verifier nothing licenses a second request: however the run   *)
(* is crashed, restarted and asked again, no write is sent twice, and so   *)
(* none takes effect twice at a target that does not dedupe.               *)
SentAtMostOnce ==
  /\ resent = {}
  /\ \A e \in Writes : commits[e] <= 1

(* A process that runs comes to an end, answered or not: nothing in the    *)
(* loop waits for an execution whose outcome stays open.                   *)
EveryProcessEnds == at = "step" ~> at \in {"down", "finished"}

-----------------------------------------------------------------------------
(* The conversation that a restarted process shows the model               *)

(* llm_output of the items that have one, in plan order.                   *)
RawOutputs ==
  LET has == {i \in 1 .. LastItem : outputs[i] # NoTurn}
      nth == [k \in 1 .. Cardinality(has) |->
                CHOOSE i \in has : Cardinality({j \in has : j <= i}) = k]
  IN  [k \in DOMAIN nth |-> outputs[nth[k]]]

(* _restore_raw_llm_outputs: assistant messages, whose texts are prose,    *)
(* are replaced by the outputs one by one for as long as there are any.    *)
Restored(k) == IF k <= Len(RawOutputs) THEN RawOutputs[k] ELSE NoTurn

(* "Use persisted planner JSON outputs for prior assistant tool-call       *)
(* turns": when a process resumes, a turn that gets an output gets its own. *)
RestoredTurnsAreTheirOwn ==
  starts > 1 /\ at = "step" /\ stepIndex = 1
    => \A k \in DOMAIN turns : Restored(k) \in {turns[k], NoTurn}
=============================================================================
