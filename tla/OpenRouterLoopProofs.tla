------------------------ MODULE OpenRouterLoopProofs ------------------------
(***************************************************************************)
(* The model-driven agent and its timing spans, for any plan, any choice   *)
(* of calls by the model, any number of steps, processes, faults and       *)
(* crashes.  The loop is again a single writer; on top of that its spans   *)
(* tell truly what was attempted, what was interrupted and what came of    *)
(* it, and without a verifier no call is ever sent twice.                  *)
(***************************************************************************)
EXTENDS OpenRouterLoop, SingleWriterProofs, WellFoundedInduction

-----------------------------------------------------------------------------
(* Where the loop is                                                       *)

(* The places at which an attempt is open.                                 *)
InStep == Phases \union {"checkpoint", "close"}

Calling == at = "tool_transaction" /\ mode = "busy"

Recovering == at = "recovery" /\ mode = "busy"

(* The loop is the single writer of its run: outside execute_tool its      *)
(* thread is idle, outside recover_run no pass is under way, and nothing   *)
(* is under way when an exception leaves it.                               *)
LoopControl ==
  /\ ~Calling => AllIdle
  /\ ~Recovering => step = "idle"
  /\ mode = "busy" => at \in {"tool_transaction", "recovery"}
  /\ unwinding # "no" => /\ at \in Phases \union {"checkpoint"}
                         /\ AllIdle /\ step = "idle"
  /\ Calling => task[Agent] = turn

(* What the loop has in its hands at each place; a call is one that serves *)
(* the item of the step.                                                   *)
TurnControl ==
  /\ at \in {"record_llm_turn", "tool_transaction", "recovery"} => turn \in Exec
  /\ at \in {"record_final_message", "checkpoint"} => turn = Final
  /\ at \in {"advance_plan_item", "close"} => turn # NoTurn
  /\ at = "llm_generate" => (mode = "end" <=> turn # NoTurn)
  /\ at \notin InStep => turn = NoTurn
  /\ turn \in Exec => ItemOf[turn] = Item(stepIndex)

(* Every step of the loop is a step of the run, an interlude, or leaves    *)
(* the run alone.                                                          *)
LEMMA StepsOfTheRun ==
  ASSUME TypeOK, LoopControl, TurnControl, [OpenRouterNext]_allVars
  PROVE  [Next]_vars \/ Interlude
<1> USE OpenRouterAssumption DEF TypeOK
<1> Agent \in Workers
  OBVIOUS
<1>1. CASE UNCHANGED vars
  BY <1>1
<1>2. ASSUME NEW place, NEW state, CommitsThen(place, state), mode = "work"
      PROVE  Interlude
  <2>1. AllIdle /\ step = "idle" /\ faults' \in 0 .. MaxFaults /\ crashes' \in 0 .. MaxCrashes
    BY <1>2, MaxFaultsAssumption
       DEF CommitsThen, Fault, LoopControl, Calling, Recovering, EnvironmentTypeOK
  <2> QED
    BY <1>2, <2>1 DEF CommitsThen, Interlude
<1>3. CASE \/ SkipItem \/ BeginStep \/ GiveUp \/ BeginPhase \/ EndPhase \/ CloseStep
           \/ AskModel \/ ModelFails \/ ToolReturns \/ Recovered \/ Unwind \/ StartProcess
  BY <1>3 DEF SkipItem, BeginStep, GiveUp, BeginPhase, EndPhase, CloseStep, AskModel, ModelFails,
              ToolReturns, Recovered, Unwind, StartProcess
<1>4. CASE RecordLlmTurn \/ AdvancePlanItem \/ RecordFinalMessage \/ WriteCheckpoint
  BY <1>2, <1>4 DEF RecordLlmTurn, AdvancePlanItem, RecordFinalMessage, WriteCheckpoint, Runs
<1>5. CASE ExecuteTool
  <2>1. AllIdle /\ step = "idle" /\ turn \in Exec
    BY <1>5 DEF ExecuteTool, Runs, LoopControl, TurnControl, Calling, Recovering
  <2>2. StartCall(Agent, turn)
    BY <1>5, <2>1 DEF ExecuteTool, StartCall
  <2> QED
    BY <2>1, <2>2 DEF Next
<1>6. CASE Recover
  <2>1. AllIdle /\ step = "idle"
    BY <1>6 DEF Recover, Runs, LoopControl, Calling, Recovering
  <2>2. PICK timedOut \in SUBSET Exec : BeginPassWith(timedOut)
    BY <1>6 DEF Recover, BeginPass, EnvironmentTypeOK
  <2>3. UNCHANGED <<journalVars, targetVars, late, elapsed, historyVars, toolMsgs>>
    BY <2>2 DEF BeginPassWith, environmentVars
  <2> QED
    BY <1>6, <2>1, <2>2, <2>3 DEF Interlude, Recover
<1>7. CASE Waits
  BY <1>7 DEF Waits, Next
<1>8. CASE SimulatedCrash
  <2>1. AllIdle /\ step = "idle"
    BY <1>8 DEF SimulatedCrash, CrashPoint, LoopControl, Calling, Recovering
  <2>2. crashes' \in 0 .. MaxCrashes /\ faults' \in 0 .. MaxFaults
    BY <1>8, SystemAssumption
       DEF SimulatedCrash, environmentVars, EnvironmentTypeOK
  <2> QED
    BY <1>8, <2>1, <2>2 DEF SimulatedCrash, Interlude, environmentVars
<1>9. CASE Kill
  BY <1>9, SystemAssumption
     DEF Kill, Next, Interlude, CrashBetweenCalls, EnvironmentTypeOK, environmentVars
<1>10. CASE Outside
  BY <1>10 DEF Outside, Next
<1>11. UNCHANGED allVars => UNCHANGED vars
  BY DEF allVars
<1> QED
  BY <1>1, <1>3, <1>4, <1>5, <1>6, <1>7, <1>8, <1>9, <1>10, <1>11 DEF OpenRouterNext, LoopStep

(* Where a finished phase leads.                                           *)
LEMMA NextPlaces ==
  ASSUME TurnControl
  PROVE  /\ at = "llm_generate" /\ turn = Final => NextPlace = "record_final_message"
         /\ at = "llm_generate" /\ turn # Final => NextPlace = "record_llm_turn"
         /\ at = "record_llm_turn" => NextPlace = "tool_transaction"
         /\ at = "tool_transaction" => NextPlace = "recovery"
         /\ at = "recovery" => NextPlace = "advance_plan_item"
         /\ at = "record_final_message" => NextPlace = "advance_plan_item"
         /\ at = "advance_plan_item" /\ turn = Final => NextPlace = "checkpoint"
         /\ at = "advance_plan_item" /\ turn # Final => NextPlace = "close"
BY OpenRouterAssumption DEF TurnControl, NextPlace, AfterFinal, AfterToolCall

(* Over a step of a call the thread stays on its task, and over a step of  *)
(* anything else it is what it was.                                        *)
LEMMA WaitingKeepsPlace ==
  ASSUME TypeOK, AuditClean, Discipline, LoopControl, Waits
  PROVE  /\ UNCHANGED <<at, mode, unwinding, turn>> /\ unwinding = "no"
         /\ Calling \/ Recovering
         /\ ~Calling => AllIdle'
         /\ ~Recovering => step' = "idle"
         /\ task'[Agent] = task[Agent]
<1> USE OpenRouterAssumption
<1> Agent \in Workers
  OBVIOUS
<1>1. task'[Agent] = task[Agent]
  BY CallStaysOnTask DEF Waits
<1>2. CASE ContinueCall(Agent)
  <2>1. ~AllIdle /\ step' = step
    BY <1>2, CallersAreBusy DEF AllIdle, ContinueCall, passVars
  <2> QED
    BY <1>1, <2>1 DEF Waits, LoopControl, openRouterVars, controlVars, turnVars, Calling, Recovering
<1>3. CASE ContinuePass
  <2>1. step # "idle" /\ (AllIdle' <=> AllIdle)
    BY <1>3, PassesAreBusy DEF AllIdle, ContinuePass, callVars
  <2> QED
    BY <1>1, <2>1 DEF Waits, LoopControl, openRouterVars, controlVars, turnVars, Calling, Recovering
<1> QED
  BY <1>2, <1>3 DEF Waits

(* The loop keeps to its place: it starts a call or a pass only when       *)
(* neither is under way, and the call is the model's turn.                 *)
LEMMA LoopControlStays ==
  ASSUME TypeOK, AuditClean, Discipline, LoopControl, TurnControl, [OpenRouterNext]_allVars
  PROVE  LoopControl'
<1> USE OpenRouterAssumption DEF TypeOK
<1> Agent \in Workers
  OBVIOUS
<1>1. ASSUME UNCHANGED <<callVars, step>>
      PROVE  (AllIdle' <=> AllIdle) /\ UNCHANGED <<pc, task, step>>
  BY <1>1 DEF callVars, AllIdle
<1>2. ASSUME UNCHANGED <<pc, task, step>>, AllIdle' <=> AllIdle, mode' # "busy",
             AllIdle, step = "idle",
             unwinding' # "no" => at' \in Phases \union {"checkpoint"}
      PROVE  LoopControl'
  BY <1>2 DEF LoopControl, Calling, Recovering
<1>3. ASSUME UNCHANGED vars
      PROVE  UNCHANGED <<callVars, step>>
  BY <1>3 DEF vars, passVars
<1>4. ASSUME NEW place, NEW state, CommitsThen(place, state), at \in Phases \union {"checkpoint"},
             mode = "work", unwinding = "no", state # "busy"
      PROVE  LoopControl'
  <2>1. UNCHANGED <<callVars, step>> /\ AllIdle /\ step = "idle"
    BY <1>4 DEF CommitsThen, passVars, LoopControl, Calling, Recovering
  <2> QED
    BY <1>1, <1>2, <1>4, <2>1 DEF CommitsThen, Moves, Raises
<1>5. CASE SkipItem
  BY <1>1, <1>2, <1>3, <1>5 DEF SkipItem, Runs, controlVars, LoopControl, Calling, Recovering
<1>6. CASE BeginStep \/ GiveUp \/ BeginPhase \/ StartProcess \/ CloseStep
  BY <1>1, <1>2, <1>3, <1>6
     DEF BeginStep, GiveUp, BeginPhase, StartProcess, NotRunning, CloseStep, Runs, Moves, LoopControl, Calling,
         Recovering
<1>7. CASE EndPhase
  <2>1. AllIdle /\ step = "idle" /\ UNCHANGED vars /\ unwinding = "no" /\ mode = "end" /\ at \in Phases
    BY <1>7 DEF EndPhase, Runs, LoopControl, Calling, Recovering
  <2> QED
    BY <1>1, <1>2, <1>3, <1>7, <2>1 DEF EndPhase, Moves, Raises
<1>8. CASE AskModel \/ ModelFails
  BY <1>1, <1>2, <1>3, <1>8
     DEF AskModel, ModelFails, Runs, Moves, Raises, LoopControl, Calling, Recovering, Phases
<1>9. CASE RecordLlmTurn \/ AdvancePlanItem \/ RecordFinalMessage \/ WriteCheckpoint
  BY <1>4, <1>9
     DEF RecordLlmTurn, AdvancePlanItem, RecordFinalMessage, WriteCheckpoint, Runs, Phases
<1>10. CASE ExecuteTool
  <2>1. task'[Agent] = turn /\ step' = step /\ turn' = turn
    BY <1>10 DEF ExecuteTool, Call, CallTypeOK, passVars, turnVars
  <2> QED
    BY <1>10, <2>1 DEF ExecuteTool, Runs, Moves, LoopControl, Calling, Recovering
<1>11. CASE ToolReturns \/ Recovered
  <2>1. AllIdle /\ step = "idle" /\ UNCHANGED vars /\ unwinding = "no"
        /\ at \in {"tool_transaction", "recovery"}
    BY <1>11 DEF ToolReturns, Recovered, Returned, Runs, LoopControl, AllIdle, Calling, Recovering
  <2>2. CASE Moves(at, "end")
    BY <1>1, <1>2, <1>3, <2>1, <2>2 DEF Moves
  <2>3. CASE Raises("failed")
    <3>1. LoopControl /\ (AllIdle' <=> AllIdle) /\ UNCHANGED <<pc, task, step, at, mode>>
      BY <1>1, <1>3, <2>1, <2>3 DEF Raises
    <3>2. UNCHANGED turn
      BY <1>11 DEF ToolReturns, Recovered, turnVars
    <3> QED
      BY <2>1, <3>1, <3>2 DEF LoopControl, Calling, Recovering, Phases
  <2> QED
    BY <1>11, <2>2, <2>3 DEF ToolReturns, Recovered
<1>12. CASE Recover
  <2>1. AllIdle' /\ unwinding' = "no" /\ at' = "recovery" /\ mode' = "busy"
    BY <1>12 DEF Recover, Runs, Moves, LoopControl, Calling, callVars, AllIdle
  <2> QED
    BY <2>1 DEF LoopControl, Calling, Recovering
<1>13. CASE Waits
  BY <1>13, WaitingKeepsPlace DEF LoopControl, Calling, Recovering
<1>14. CASE Unwind
  <2>1. AllIdle /\ step = "idle" /\ UNCHANGED vars /\ at \in Phases \union {"checkpoint"}
    BY <1>14 DEF Unwind, LoopControl
  <2>2. CASE at' = "down" /\ mode' = "begin" /\ unwinding' = "no"
    BY <1>1, <1>2, <1>3, <2>1, <2>2
  <2>3. CASE UNCHANGED <<controlVars, turn>>
    BY <1>1, <1>3, <2>1, <2>3 DEF controlVars, LoopControl, Calling, Recovering
  <2> QED
    BY <1>14, <2>2, <2>3 DEF Unwind
<1>15. CASE SimulatedCrash
  <2>1. mode # "busy" /\ at \in Phases /\ UNCHANGED <<callVars, step>> /\ AllIdle /\ step = "idle"
    BY <1>15 DEF SimulatedCrash, CrashPoint, passVars, LoopControl, Calling, Recovering
  <2> QED
    BY <1>1, <1>2, <1>15, <2>1 DEF SimulatedCrash, Raises
<1>16. CASE Kill
  <2>1. AllIdle' /\ step' = "idle"
    BY <1>16 DEF Kill, Crash, CrashBetweenCalls, callVars, passVars, AllIdle
  <2> QED
    BY <1>16, <2>1 DEF Kill, LoopControl, Calling, Recovering
<1>17. CASE Outside
  <2>1. UNCHANGED <<callVars, step>>
    BY <1>17 DEF Outside, WindowPasses, Network, passVars
  <2> QED
    BY <1>1, <1>17, <2>1
       DEF Outside, openRouterVars, controlVars, turnVars, LoopControl, Calling, Recovering
<1>18. CASE UNCHANGED allVars
  BY <1>1, <1>3, <1>18
     DEF allVars, openRouterVars, controlVars, turnVars, LoopControl, Calling, Recovering
<1> QED
  BY <1>5, <1>6, <1>7, <1>8, <1>9, <1>10, <1>11, <1>12, <1>13, <1>14, <1>15, <1>16, <1>17, <1>18
     DEF OpenRouterNext, LoopStep

(* A step works on an item of the plan.                                    *)
LEMMA ItemType ==
  ASSUME NEW s \in Nat \ {0}
  PROVE  /\ Item(s) \in 1 .. LastItem
         /\ s <= LastItem => Item(s) = s
         /\ s > LastItem => Item(s) = LastItem
BY OpenRouterAssumption DEF Item

(* What the loop's own variables may hold; the spans are typed with what   *)
(* is known of them.                                                       *)
LoopTypeOK ==
  /\ at \in Phases \union {"down", "step", "checkpoint", "close", "finished"}
  /\ mode \in {"begin", "work", "busy", "end"}
  /\ unwinding \in {"no", "failed", "interrupted"}
  /\ stepIndex \in 1 .. MaxSteps + 1
  /\ completed \subseteq done /\ done \subseteq 1 .. LastItem
  /\ turn \in Turns \union {NoTurn}
  /\ turns \in Seq(Turns)
  /\ outputs \in [1 .. LastItem -> Exec \union {NoTurn}]
  /\ starts \in 0 .. MaxStarts

(* The step that is worked on is one of the first MaxSteps.                *)
StepBound == at \in InStep => stepIndex <= MaxSteps

(* The loop keeps its types, and the model's turn in its place.            *)
LEMMA TurnControlStays ==
  ASSUME LoopControl, LoopTypeOK, StepBound, TurnControl, [OpenRouterNext]_allVars
  PROVE  LoopTypeOK' /\ StepBound' /\ TurnControl'
<1> USE OpenRouterAssumption DEF LoopTypeOK, StepBound
<1> stepIndex \in Nat \ {0} /\ Item(stepIndex) \in 1 .. LastItem
  BY ItemType
<1> DEFINE Kept == LoopTypeOK' /\ StepBound' /\ TurnControl'
<1>1. CASE StartProcess
  BY <1>1 DEF StartProcess, NotRunning, Runs, Moves, turnVars, TurnControl, InStep, Phases
<1>2. CASE SkipItem
  BY <1>2 DEF SkipItem, Runs, controlVars, turnVars, processVars, TurnControl, InStep, Phases
<1>3. CASE BeginStep \/ GiveUp
  BY <1>3 DEF BeginStep, GiveUp, Runs, Moves, itemVars, turnVars, processVars, TurnControl, InStep,
              Phases
<1>4. CASE BeginPhase
  BY <1>4 DEF BeginPhase, Runs, Moves, itemVars, turnVars, processVars, TurnControl, InStep
<1>5. CASE EndPhase
  <2>1. /\ UNCHANGED <<stepIndex, completed, done, turn, turns, outputs, starts>>
        /\ at \in Phases /\ mode = "end"
    BY <1>5 DEF EndPhase, Runs, itemVars, turnVars, processVars
  <2>2. CASE Raises("failed")
    BY <2>1, <2>2 DEF Raises, TurnControl, InStep
  <2>3. CASE Moves(NextPlace, IF NextPlace \in Phases THEN "begin" ELSE "work")
    <3>1. /\ at' = NextPlace /\ mode' \in {"begin", "work"} /\ UNCHANGED unwinding
      BY <2>3 DEF Moves
    <3>2. CASE at = "llm_generate"
      BY <2>1, <3>1, <3>2, NextPlaces DEF TurnControl, InStep, Phases, Turns
    <3>3. CASE at # "llm_generate"
      BY <2>1, <3>1, <3>3, NextPlaces DEF TurnControl, InStep, Phases, Turns
    <3> QED
      BY <3>2, <3>3
  <2> QED
    BY <1>5, <2>2, <2>3 DEF EndPhase
<1>6. CASE CloseStep
  BY <1>6 DEF CloseStep, Runs, Moves, processVars, TurnControl, InStep, Phases
<1>7. CASE AskModel
  <2>1. /\ turn' \in {e \in Exec : ItemOf[e] = Item(stepIndex)} \union {Final}
        /\ at = "llm_generate" /\ at' = at /\ mode' = "end"
        /\ UNCHANGED <<unwinding, stepIndex, completed, done, turns, outputs, starts>>
    BY <1>7 DEF AskModel, Runs, Moves, itemVars, processVars
  <2>2. turn' \in Turns /\ turn' # NoTurn /\ (turn' \in Exec => ItemOf[turn'] = Item(stepIndex))
    BY <2>1 DEF Turns
  <2>3. Item(stepIndex)' = Item(stepIndex)
    BY <2>1 DEF Item
  <2> QED
    BY <2>1, <2>2, <2>3 DEF TurnControl, InStep, Phases
<1>8. CASE ModelFails \/ SimulatedCrash
  <2>1. /\ UNCHANGED <<at, mode, stepIndex, completed, done, turn, turns, outputs, starts>>
        /\ unwinding' \in {"no", "failed", "interrupted"}
    BY <1>8 DEF ModelFails, SimulatedCrash, Raises, itemVars, turnVars, processVars
  <2> QED
    BY <2>1 DEF TurnControl, Item
<1>9. CASE RecordLlmTurn
  <2>1. /\ at = "record_llm_turn" /\ turn \in Exec
        /\ turns' = Append(turns, turn)
        /\ outputs' = [outputs EXCEPT ![Item(stepIndex)] = turn]
        /\ UNCHANGED <<at, stepIndex, completed, done, turn, starts>>
        /\ mode' \in {mode, "end"} /\ unwinding' \in {unwinding, "failed"}
    BY <1>9 DEF RecordLlmTurn, Runs, TurnControl, CommitsThen, Moves, Raises, itemVars, processVars
  <2>2. turns' \in Seq(Turns)
    BY <2>1 DEF Turns
  <2> QED
    BY <2>1, <2>2 DEF TurnControl, Item
<1>10. CASE ExecuteTool \/ ToolReturns \/ Recover \/ Recovered
  <2>1. /\ UNCHANGED <<at, stepIndex, completed, done, turn, turns, outputs, starts>>
        /\ at \in {"tool_transaction", "recovery"}
        /\ mode' \in {"busy", "end", mode} /\ unwinding' \in {unwinding, "failed"}
    BY <1>10 DEF ExecuteTool, ToolReturns, Recover, Recovered, Runs, Moves, Raises, itemVars, turnVars,
                 processVars
  <2> QED
    BY <2>1 DEF TurnControl, Item
<1>11. CASE AdvancePlanItem
  <2>1. /\ at = "advance_plan_item"
        /\ done' = done \union {IF turn = Final THEN LastItem ELSE Item(stepIndex)}
        /\ UNCHANGED <<at, stepIndex, completed, turn, turns, outputs, starts>>
        /\ mode' \in {mode, "end"} /\ unwinding' \in {unwinding, "failed"}
    BY <1>11 DEF AdvancePlanItem, Runs, CommitsThen, Moves, Raises, turnVars, processVars
  <2>2. LastItem \in 1 .. LastItem
    OBVIOUS
  <2>3. done \subseteq done' /\ done' \subseteq 1 .. LastItem
    BY <2>1, <2>2
  <2> QED
    BY <2>1, <2>3 DEF TurnControl, Item
<1>12. CASE RecordFinalMessage
  <2>1. /\ at = "record_final_message" /\ turns' = Append(turns, Final)
        /\ UNCHANGED <<at, stepIndex, completed, done, turn, outputs, starts>>
        /\ mode' \in {mode, "end"} /\ unwinding' \in {unwinding, "failed"}
    BY <1>12 DEF RecordFinalMessage, Runs, CommitsThen, Moves, Raises, itemVars, processVars
  <2>2. turns' \in Seq(Turns)
    BY <2>1 DEF Turns
  <2> QED
    BY <2>1, <2>2 DEF TurnControl, Item
<1>13. CASE WriteCheckpoint
  <2>1. /\ at = "checkpoint" /\ at' \in {at, "close"}
        /\ UNCHANGED <<stepIndex, completed, done, turn, turns, outputs, starts>>
        /\ mode' \in {mode, "work"} /\ unwinding' \in {unwinding, "failed"}
    BY <1>13 DEF WriteCheckpoint, Runs, CommitsThen, Moves, Raises, itemVars, turnVars, processVars
  <2> QED
    BY <2>1 DEF TurnControl, Item, InStep, Phases
<1>14. CASE Unwind \/ Kill
  <2>1. /\ UNCHANGED <<stepIndex, completed, done, turns, outputs, starts>>
        /\ \/ at' = "down" /\ mode' = "begin" /\ unwinding' = "no" /\ turn' = NoTurn
           \/ UNCHANGED <<at, mode, unwinding, turn>>
    BY <1>14 DEF Unwind, Kill, itemVars, processVars, controlVars
  <2> QED
    BY <2>1 DEF TurnControl, Item, InStep, Phases
<1>15. CASE Waits \/ Outside \/ UNCHANGED allVars
  <2>1. UNCHANGED <<at, mode, unwinding, stepIndex, completed, done, turn, turns, outputs, starts>>
    BY <1>15 DEF Waits, Outside, allVars, openRouterVars, controlVars, itemVars, turnVars, processVars
  <2> QED
    BY <2>1 DEF TurnControl, Item
<1> QED
  BY <1>1, <1>2, <1>3, <1>4, <1>5, <1>6, <1>7, <1>8, <1>9, <1>10, <1>11, <1>12, <1>13, <1>14, <1>15
     DEF OpenRouterNext, LoopStep

-----------------------------------------------------------------------------
(* The plan                                                                *)

(* The run has been answered.                                              *)
Answered == \E t \in DOMAIN turns : turns[t] = Final

(* What this step was to do for the plan has been done.                    *)
Advanced ==
  IF turn = Final THEN LastItem \in done /\ Answered ELSE Item(stepIndex) \in done

Advancing == {"advance_plan_item", "checkpoint", "close"}

(* What is done was so at the start, is behind the loop, or has been done  *)
(* by this step; and the step is closed only when it has done it.          *)
ItemControl ==
  /\ at \notin {"down", "finished"} =>
       \A i \in done :
          \/ i \in completed \/ i < stepIndex
          \/ at \in Advancing /\ (i = Item(stepIndex) \/ (turn = Final /\ i = LastItem))
  /\ at \in {"checkpoint", "close"} => Advanced
  /\ at = "advance_plan_item" /\ mode = "end" => Advanced
  /\ at = "advance_plan_item" /\ turn = Final => Answered
  /\ at = "record_final_message" /\ mode = "end" => Answered

(* A run that has been answered stays so.                                  *)
LEMMA AnswerStays ==
  ASSUME LoopTypeOK, [OpenRouterNext]_allVars
  PROVE  Answered => Answered'
<1>1. turns' = turns \/ \E t \in Turns \union {NoTurn} : turns' = Append(turns, t)
  BY DEF LoopTypeOK, Turns, OpenRouterNext, LoopStep, StartProcess, SkipItem, BeginStep, GiveUp,
         BeginPhase, EndPhase, CloseStep, AskModel, ModelFails, RecordLlmTurn, ExecuteTool,
         ToolReturns, Recover, Recovered, AdvancePlanItem, RecordFinalMessage, WriteCheckpoint,
         Waits, Unwind, SimulatedCrash, Kill, Outside, turnVars, openRouterVars, allVars
<1>2. turns \in Seq(Turns \union {NoTurn})
  BY DEF LoopTypeOK
<1> QED
  BY <1>1, <1>2 DEF Answered

(* No step of the loop breaks this.                                        *)
LEMMA ItemControlStays ==
  ASSUME LoopControl, LoopTypeOK, StepBound, TurnControl, ItemControl, [OpenRouterNext]_allVars
  PROVE  ItemControl'
<1> USE OpenRouterAssumption DEF LoopTypeOK
<1> stepIndex \in Nat \ {0} /\ Item(stepIndex) \in 1 .. LastItem
  BY ItemType
<1>0. Answered => Answered'
  BY AnswerStays
<1>1. CASE StartProcess
  BY <1>1 DEF StartProcess, NotRunning, Runs, Moves, ItemControl, Advancing, Advanced
<1>2. CASE SkipItem
  BY <1>2 DEF SkipItem, Runs, controlVars, ItemControl, Advancing, Advanced
<1>3. CASE BeginStep
  BY <1>3 DEF BeginStep, Runs, Moves, itemVars, ItemControl, Advancing, Advanced
<1>4. CASE GiveUp
  BY <1>4 DEF GiveUp, Moves, ItemControl
<1>5. CASE BeginPhase
  BY <1>0, <1>5 DEF BeginPhase, Runs, Moves, itemVars, turnVars, ItemControl, Advanced, Item, Phases
<1>6. CASE EndPhase
  <2>1. /\ UNCHANGED <<stepIndex, completed, done, turn>>
        /\ at \in Phases /\ mode = "end"
    BY <1>6 DEF EndPhase, Runs, itemVars, turnVars, processVars
  <2>2. Advanced => Advanced'
    BY <1>0, <2>1 DEF Advanced, Item
  <2>3. CASE Raises("failed")
    BY <1>0, <2>1, <2>2, <2>3 DEF Raises, ItemControl, Item
  <2>4. CASE Moves(NextPlace, IF NextPlace \in Phases THEN "begin" ELSE "work")
    <3>1. at' = NextPlace /\ mode' # "end"
      BY <2>4 DEF Moves
    <3>2. CASE at \in {"llm_generate", "record_llm_turn", "tool_transaction"}
      <4>1. at' \notin Advancing
        BY <3>1, <3>2, NextPlaces DEF Advancing
      <4> QED
        BY <2>1, <3>1, <3>2, <4>1 DEF ItemControl, Advancing
    <3>3. CASE at \in {"recovery", "record_final_message"}
      <4>1. at' = "advance_plan_item" /\ (turn = Final => Answered)
        BY <2>1, <3>1, <3>3, NextPlaces DEF TurnControl, ItemControl
      <4> QED
        BY <1>0, <2>1, <3>1, <3>3, <4>1 DEF ItemControl, Advancing, Item
    <3>4. CASE at = "advance_plan_item"
      <4>1. at' \in {"checkpoint", "close"} /\ Advanced
        BY <2>1, <3>1, <3>4, NextPlaces DEF ItemControl
      <4> QED
        BY <2>1, <2>2, <3>1, <3>4, <4>1 DEF ItemControl, Advancing, Item
    <3> QED
      BY <2>1, <3>2, <3>3, <3>4 DEF Phases
  <2> QED
    BY <1>6, <2>3, <2>4 DEF EndPhase
<1>7. CASE CloseStep
  <2>1. at = "close" /\ UNCHANGED <<completed, done>>
        /\ \/ at' = "finished"
           \/ turn # Final /\ at' = "step" /\ mode' = "begin" /\ stepIndex' = stepIndex + 1
    BY <1>7 DEF CloseStep, Runs, Moves
  <2>2. Item(stepIndex) < stepIndex + 1
    BY ItemType
  <2>3. CASE at' = "finished"
    BY <2>1, <2>3 DEF ItemControl
  <2>4. CASE turn # Final /\ at' = "step" /\ mode' = "begin" /\ stepIndex' = stepIndex + 1
    BY <2>1, <2>2, <2>4 DEF ItemControl
  <2> QED
    BY <2>1, <2>3, <2>4
<1>8. CASE AskModel
  BY <1>8 DEF AskModel, Runs, Moves, itemVars, ItemControl, Advancing
<1>9. CASE ModelFails \/ SimulatedCrash \/ ExecuteTool \/ ToolReturns \/ Recover \/ Recovered
  <2>1. /\ UNCHANGED <<at, stepIndex, completed, done, turn, turns>>
        /\ mode' = mode \/ at \in {"tool_transaction", "recovery"}
    BY <1>9 DEF ModelFails, SimulatedCrash, ExecuteTool, ToolReturns, Recover, Recovered, Runs, Moves,
                Raises, itemVars, turnVars
  <2> QED
    BY <2>1 DEF ItemControl, Advancing, Advanced, Answered, Item
<1>10. CASE RecordLlmTurn
  <2>1. /\ UNCHANGED <<at, stepIndex, completed, done, turn>> /\ at = "record_llm_turn"
    BY <1>10 DEF RecordLlmTurn, Runs, CommitsThen, Moves, Raises, itemVars
  <2> QED
    BY <2>1 DEF ItemControl, Advancing
<1>11. CASE AdvancePlanItem
  <2>1. /\ UNCHANGED <<at, stepIndex, completed, turn, turns>> /\ at = "advance_plan_item"
        /\ done' = done \union {IF turn = Final THEN LastItem ELSE Item(stepIndex)}
    BY <1>11 DEF AdvancePlanItem, Runs, CommitsThen, Moves, Raises, turnVars
  <2>2. Advanced' /\ (turn = Final => Answered')
    BY <1>0, <2>1 DEF Advanced, Item, ItemControl
  <2>3. \A i \in done' : i \in done \/ i = Item(stepIndex) \/ (turn = Final /\ i = LastItem)
    BY <2>1
  <2> HIDE DEF LoopTypeOK
  <2> QED
    BY <2>1, <2>2, <2>3 DEF ItemControl, Advancing, Item
<1>12. CASE RecordFinalMessage
  <2>1. /\ UNCHANGED <<at, stepIndex, completed, done, turn>> /\ at = "record_final_message"
        /\ turns' = Append(turns, Final)
    BY <1>12 DEF RecordFinalMessage, Runs, CommitsThen, Moves, Raises, itemVars
  <2>2. Answered'
    BY <2>1 DEF Answered, Turns
  <2> QED
    BY <2>1, <2>2 DEF ItemControl, Advancing
<1>13. CASE WriteCheckpoint
  <2>1. /\ UNCHANGED <<stepIndex, completed, done, turn, turns>>
        /\ at = "checkpoint" /\ at' \in {"checkpoint", "close"}
    BY <1>13 DEF WriteCheckpoint, Runs, CommitsThen, Moves, Raises, itemVars, turnVars
  <2> QED
    BY <1>0, <2>1 DEF ItemControl, Advancing, Advanced, Item
<1>14. CASE Unwind \/ Kill
  <2>1. \/ at' = "down"
        \/ UNCHANGED <<at, mode, stepIndex, completed, done, turn, turns>>
    BY <1>14 DEF Unwind, Kill, itemVars, controlVars
  <2> QED
    BY <2>1 DEF ItemControl, Advanced, Answered, Item
<1>15. CASE Waits \/ Outside \/ UNCHANGED allVars
  <2>1. UNCHANGED <<at, mode, stepIndex, completed, done, turn, turns>>
    BY <1>15 DEF Waits, Outside, allVars, openRouterVars, controlVars, itemVars, turnVars
  <2> QED
    BY <2>1 DEF ItemControl, Advanced, Answered, Item
<1> QED
  BY <1>1, <1>2, <1>3, <1>4, <1>5, <1>6, <1>7, <1>8, <1>9, <1>10, <1>11, <1>12, <1>13, <1>14, <1>15
     DEF OpenRouterNext, LoopStep

-----------------------------------------------------------------------------
(* Rows                                                                    *)

Rows ==
  [step : 1 .. MaxSteps, attempt : Nat \ {0}, phase : Phases \union {"step_total"},
   parent : Nat, status : SpanStatuses]

(* The recorder inserts one row after the others.                          *)
RowAdded(s, attempt, phase, parent) ==
  /\ spans' \in Seq(Rows) /\ Len(spans') = Len(spans) + 1
  /\ \A j \in DOMAIN spans : spans'[j] = spans[j]
  /\ spans'[Len(spans')].step = s
  /\ spans'[Len(spans')].attempt = attempt
  /\ spans'[Len(spans')].phase = phase
  /\ spans'[Len(spans')].parent = parent
  /\ spans'[Len(spans')].status = "running"

(* It closes one row and leaves what the row is about.                     *)
RowClosed(k, status) ==
  /\ spans' \in Seq(Rows) /\ Len(spans') = Len(spans)
  /\ \A j \in DOMAIN spans : j # k => spans'[j] = spans[j]
  /\ spans'[k].step = spans[k].step
  /\ spans'[k].attempt = spans[k].attempt
  /\ spans'[k].phase = spans[k].phase
  /\ spans'[k].parent = spans[k].parent
  /\ spans'[k].status = status

(* Opening a span inserts its row.                                         *)
LEMMA OpeningAddsRow ==
  ASSUME spans \in Seq(Rows), NEW s \in 1 .. MaxSteps, NEW attempt \in Nat \ {0},
         NEW phase \in Phases \union {"step_total"}, NEW parent \in Nat,
         spans' = Opened(s, attempt, phase, parent)
  PROVE  RowAdded(s, attempt, phase, parent)
<1> DEFINE row == [step |-> s, attempt |-> attempt, phase |-> phase, parent |-> parent,
                   status |-> "running"]
<1>1. /\ row \in Rows
      /\ row.step = s /\ row.attempt = attempt /\ row.phase = phase /\ row.parent = parent
      /\ row.status = "running"
  BY DEF Rows, SpanStatuses
<1>2. spans' = Append(spans, row)
  BY DEF Opened
<1> HIDE DEF row
<1>3. /\ spans' \in Seq(Rows) /\ Len(spans') = Len(spans) + 1
      /\ \A j \in DOMAIN spans : spans'[j] = spans[j]
      /\ spans'[Len(spans')] = row
  BY <1>1, <1>2
<1> QED
  BY <1>1, <1>3 DEF RowAdded

(* Closing an open span closes its row.                                    *)
LEMMA FinishingClosesRow ==
  ASSUME spans \in Seq(Rows), NEW k \in DOMAIN spans, spans[k].status = "running",
         NEW status \in SpanStatuses, spans' = Finished(k, status)
  PROVE  RowClosed(k, status)
<1> DEFINE row == [spans[k] EXCEPT !.status = status]
<1>1. spans[k] \in Rows
  OBVIOUS
<1>2. /\ row \in Rows
      /\ row.step = spans[k].step /\ row.attempt = spans[k].attempt
      /\ row.phase = spans[k].phase /\ row.parent = spans[k].parent
      /\ row.status = status
  BY <1>1 DEF Rows
<1>3. spans' = [spans EXCEPT ![k] = row]
  BY DEF Finished
<1> HIDE DEF row
<1>4. /\ spans' \in Seq(Rows) /\ Len(spans') = Len(spans)
      /\ \A j \in DOMAIN spans : j # k => spans'[j] = spans[j]
      /\ spans'[k] = row
  BY <1>2, <1>3
<1> QED
  BY <1>2, <1>4 DEF RowClosed

(* What an inserted row does to the attempts and their phases.             *)
LEMMA AddedRowSets ==
  ASSUME spans \in Seq(Rows), NEW s \in 1 .. MaxSteps, NEW attempt, NEW phase, NEW parent,
         RowAdded(s, attempt, phase, parent), NEW n, n = Len(spans')
  PROVE  /\ DOMAIN spans' = DOMAIN spans \union {n} /\ n \notin DOMAIN spans
         /\ n \in Nat \ {0} /\ \A j \in DOMAIN spans : j \in Nat \ {0} /\ j < n
         /\ AllAttempts' = IF phase = "step_total" THEN AllAttempts \union {n}
                           ELSE AllAttempts
<1>1. /\ DOMAIN spans' = DOMAIN spans \union {n} /\ n \notin DOMAIN spans
      /\ n \in Nat \ {0} /\ \A j \in DOMAIN spans : j \in Nat \ {0} /\ j < n
  BY DEF RowAdded
<1>2. AllAttempts' = IF phase = "step_total" THEN AllAttempts \union {n} ELSE AllAttempts
  BY <1>1 DEF RowAdded, AllAttempts
<1> QED
  BY <1>1, <1>2

(* It is an attempt of its step if it is an attempt at all,                *)
LEMMA AddedAttempts ==
  ASSUME spans \in Seq(Rows), NEW s \in 1 .. MaxSteps, NEW attempt, NEW phase, NEW parent,
         RowAdded(s, attempt, phase, parent), NEW n, n = Len(spans'), NEW t
  PROVE  Attempts(t)' = IF phase = "step_total" /\ t = s
                        THEN Attempts(t) \union {n} ELSE Attempts(t)
BY AddedRowSets DEF RowAdded, Attempts, AllAttempts

(* and a phase of its parent.                                              *)
LEMMA AddedPhases ==
  ASSUME spans \in Seq(Rows), NEW s \in 1 .. MaxSteps, NEW attempt, NEW phase, NEW parent,
         RowAdded(s, attempt, phase, parent), NEW n, n = Len(spans'), NEW k
  PROVE  PhasesOf(k)' = IF k = parent THEN PhasesOf(k) \union {n} ELSE PhasesOf(k)
BY AddedRowSets DEF RowAdded, PhasesOf

(* Closing a row leaves them as they are.                                  *)
LEMMA ClosedRowSets ==
  ASSUME spans \in Seq(Rows), NEW k \in DOMAIN spans, NEW status, RowClosed(k, status)
  PROVE  /\ DOMAIN spans' = DOMAIN spans
         /\ \A j \in DOMAIN spans : /\ j \in Nat \ {0}
                                    /\ spans'[j].step = spans[j].step
                                    /\ spans'[j].attempt = spans[j].attempt
                                    /\ spans'[j].phase = spans[j].phase
                                    /\ spans'[j].parent = spans[j].parent
         /\ AllAttempts' = AllAttempts
         /\ \A t : Attempts(t)' = Attempts(t)
         /\ \A j : PhasesOf(j)' = PhasesOf(j)
<1>1. /\ DOMAIN spans' = DOMAIN spans
      /\ \A j \in DOMAIN spans : /\ j \in Nat \ {0}
                                 /\ spans'[j].step = spans[j].step
                                 /\ spans'[j].attempt = spans[j].attempt
                                 /\ spans'[j].phase = spans[j].phase
                                 /\ spans'[j].parent = spans[j].parent
  BY DEF RowClosed
<1>2. AllAttempts' = AllAttempts
  BY <1>1 DEF AllAttempts
<1>3. ASSUME NEW t
      PROVE  Attempts(t)' = Attempts(t)
  BY <1>1, <1>2 DEF Attempts, AllAttempts
<1>4. ASSUME NEW j
      PROVE  PhasesOf(j)' = PhasesOf(j)
  BY <1>1 DEF PhasesOf
<1> QED
  BY <1>1, <1>2, <1>3, <1>4

-----------------------------------------------------------------------------
(* Numbers                                                                 *)

(* A bounded set of numbers that is not empty has a greatest one.          *)
LEMMA GreatestNumber ==
  ASSUME NEW T \in SUBSET Nat, T # {}, NEW n \in Nat, \A x \in T : x <= n
  PROVE  \E x \in T : \A y \in T : y <= x
<1> DEFINE Bounds == {b \in Nat : \A x \in T : x <= b}
<1>1. PICK b \in Bounds : \A c \in Bounds : <<c, b>> \notin OpToRel(<, Nat)
  BY WFMin, NatLessThanWellFounded
<1>2. ASSUME b \notin T
      PROVE  FALSE
  <2>1. b \in Nat /\ \A x \in T : x \in Nat /\ x < b
    BY <1>2
  <2>2. b - 1 \in Nat /\ b - 1 < b /\ \A x \in T : x <= b - 1
    <3>1. PICK x \in T : TRUE
      OBVIOUS
    <3>2. b - 1 \in Nat
      BY <2>1, <3>1
    <3> QED
      BY <2>1, <3>2
  <2> QED
    BY <1>1, <2>1, <2>2 DEF OpToRel
<1> QED
  BY <1>2

(* The attempts of a step are finitely many, and a count of them grows by  *)
(* one with each.                                                          *)
LEMMA AttemptsAreFinite ==
  ASSUME spans \in Seq(Rows), NEW s
  PROVE  /\ IsFiniteSet(Attempts(s)) /\ Cardinality(Attempts(s)) \in Nat
         /\ Attempts(s) \subseteq 1 .. Len(spans)
<1>1. IsFiniteSet(1 .. Len(spans))
  BY FS_Interval
<1>2. Attempts(s) \in SUBSET (1 .. Len(spans))
  BY DEF Attempts, AllAttempts
<1>3. IsFiniteSet(Attempts(s))
  BY <1>1, <1>2, FS_Subset
<1> QED
  BY <1>2, <1>3, FS_CardinalityType

(* If the attempts are numbered in order, the next number is one more than *)
(* there are attempts.                                                     *)
LEMMA NextNumber ==
  ASSUME spans \in Seq(Rows), NEW s, NumberedInOrder(s)
  PROVE  NextAttemptNo(s) = Cardinality(Attempts(s)) + 1
<1> DEFINE A == Attempts(s)
           numbers == {spans[k].attempt : k \in A}
           n == Cardinality(A)
<1>1. IsFiniteSet(A) /\ n \in Nat /\ A \subseteq 1 .. Len(spans)
  BY AttemptsAreFinite
<1>2. CASE A = {}
  <2>1. n = 0 /\ numbers = {}
    BY <1>2, FS_EmptySet
  <2> QED
    BY <2>1 DEF NextAttemptNo, After
<1>3. CASE A # {}
  <2>1. PICK k \in A : \A j \in A : j <= k
    <3>1. A \in SUBSET Nat /\ Len(spans) \in Nat /\ \A x \in A : x <= Len(spans)
      BY <1>1
    <3> HIDE DEF A
    <3> QED
      BY <1>3, <3>1, GreatestNumber
  <2>2. {j \in A : j <= k} = A
    BY <2>1
  <2>3. spans[k].attempt = n
    BY <2>2 DEF NumberedInOrder
  <2>4. ASSUME NEW j \in A
        PROVE  spans[j].attempt \in Nat /\ spans[j].attempt <= n
    <3>1. {i \in A : i <= j} \in SUBSET A
      OBVIOUS
    <3>2. IsFiniteSet({i \in A : i <= j}) /\ Cardinality({i \in A : i <= j}) <= n
      BY <1>1, <3>1, FS_Subset
    <3>3. spans[j].attempt = Cardinality({i \in A : i <= j})
      BY DEF NumberedInOrder
    <3> QED
      BY <3>2, <3>3, FS_CardinalityType
  <2>5. n \in numbers /\ \A m \in numbers : m \in Nat /\ m <= n
    BY <2>3, <2>4
  <2>6. (CHOOSE x \in numbers : \A m \in numbers : m <= x) = n
    <3> HIDE DEF numbers, n
    <3>1. \E x \in numbers : \A m \in numbers : m <= x
      BY <2>5
    <3>2. \A x \in numbers : (\A m \in numbers : m <= x) => x = n
      BY <2>5
    <3> QED
      BY <3>1, <3>2
  <2>7. numbers # {} /\ NextAttemptNo(s) = After(numbers)
    BY <2>5 DEF NextAttemptNo
  <2> HIDE DEF numbers, n
  <2>8. After(numbers) = 1 + n
    BY <2>6, <2>7 DEF After
  <2> QED
    BY <1>1, <2>7, <2>8 DEF n
<1> QED
  BY <1>2, <1>3

-----------------------------------------------------------------------------
(* The spans of a process                                                  *)

(* At each place the process holds the spans that are open there: the      *)
(* attempt of its step, which is the newest of all, and the phase it is in *)
(* once it has opened it.                                                  *)
SpanControl ==
  /\ at \in InStep => /\ stepSpan \in AllAttempts
                      /\ spans[stepSpan].status = "running"
                      /\ spans[stepSpan].step = stepIndex
                      /\ \A k \in AllAttempts : k <= stepSpan
  /\ at \notin InStep => stepSpan = NoSpan
  /\ phaseSpan # NoSpan => /\ at \in Phases
                           /\ phaseSpan \in PhasesOf(stepSpan)
                           /\ spans[phaseSpan].phase # "step_total"
                           /\ spans[phaseSpan].status = "running"
  /\ (at \in Phases /\ unwinding = "no") => (phaseSpan = NoSpan <=> mode = "begin")

(* How the rows of one run hang together.                                  *)
RowsNest ==
  /\ spans \in Seq(Rows)
  /\ PhasesNest
  /\ \A s \in 1 .. MaxSteps : NumberedInOrder(s)
  /\ \A k \in AllAttempts : spans[k].parent = NoSpan

(* Of the phases of the open attempt none but the open one is running, and *)
(* as long as no exception has come all others have succeeded.             *)
PhasesEnd ==
  stepSpan # NoSpan =>
     \A k \in PhasesOf(stepSpan) :
        k # phaseSpan => /\ spans[k].status # "running"
                         /\ unwinding = "no" => spans[k].status = "succeeded"

(* A step that opens or closes no span leaves an attempt open or not, and  *)
(* its phase begun or not.                                                 *)
LEMMA OtherSteps ==
  ASSUME TypeOK, AuditClean, Discipline, LoopControl, [OpenRouterNext]_allVars,
         ~BeginStep, ~BeginPhase, ~EndPhase, ~CloseStep, ~Unwind, ~Kill
  PROVE  /\ UNCHANGED recorderVars
         /\ at' \in InStep <=> at \in InStep
         /\ at' \in InStep => UNCHANGED <<stepIndex, completed>>
         /\ at' \in Phases <=> at \in Phases
         /\ at \in Phases => at' = at /\ (mode' = "begin" <=> mode = "begin")
         /\ unwinding' = "no" => unwinding = "no"
<1> USE DEF InStep, Phases
<1>1. CASE StartProcess
  BY <1>1 DEF StartProcess, NotRunning, Runs, Moves
<1>2. CASE SkipItem \/ GiveUp
  BY <1>2 DEF SkipItem, GiveUp, Runs, Moves, controlVars
<1>3. CASE AskModel \/ ModelFails \/ SimulatedCrash
  BY <1>3 DEF AskModel, ModelFails, SimulatedCrash, CrashPoint, Runs, Moves, Raises, itemVars
<1>4. CASE RecordLlmTurn \/ AdvancePlanItem \/ RecordFinalMessage
  BY <1>4 DEF RecordLlmTurn, AdvancePlanItem, RecordFinalMessage, CommitsThen, Runs, Moves, Raises,
              itemVars
<1>5. CASE WriteCheckpoint
  BY <1>5 DEF WriteCheckpoint, CommitsThen, Runs, Moves, Raises, itemVars
<1>6. CASE ExecuteTool \/ ToolReturns \/ Recover \/ Recovered
  BY <1>6 DEF ExecuteTool, ToolReturns, Recover, Recovered, Runs, Moves, Raises, itemVars
<1>7. CASE Waits \/ Outside \/ UNCHANGED allVars
  BY <1>7 DEF Waits, Outside, allVars, openRouterVars, controlVars, itemVars
<1> QED
  BY <1>1, <1>2, <1>3, <1>4, <1>5, <1>6, <1>7 DEF OpenRouterNext, LoopStep

(* Beginning a step.                                                       *)
LEMMA BeginStepKeepsRows ==
  ASSUME LoopTypeOK, SpanControl, RowsNest, BeginStep
  PROVE  /\ RowAdded(stepIndex, Cardinality(Attempts(stepIndex)) + 1, "step_total", NoSpan)
         /\ SpanControl' /\ RowsNest' /\ PhasesEnd'
<1> USE DEF RowsNest
<1>0. PICK n : n = Len(spans')
  OBVIOUS
<1> DEFINE s == stepIndex
           A == Attempts(s)
<1>1. /\ at = "step" /\ s \in 1 .. MaxSteps /\ stepSpan = NoSpan /\ phaseSpan = NoSpan
      /\ at' = "llm_generate" /\ mode' = "begin" /\ unwinding' = "no" /\ s' = s
      /\ stepSpan' = n /\ phaseSpan' = NoSpan
      /\ spans' = Opened(s, NextAttemptNo(s), "step_total", NoSpan)
  BY <1>0 DEF BeginStep, Runs, Moves, StartStep, itemVars, SpanControl, InStep, Phases, LoopTypeOK
<1>2. IsFiniteSet(A) /\ Cardinality(A) \in Nat
  BY AttemptsAreFinite
<1>3. NextAttemptNo(s) = Cardinality(A) + 1
  BY <1>1, NextNumber
<1>4. RowAdded(s, Cardinality(A) + 1, "step_total", NoSpan)
  <2>1. /\ Cardinality(A) + 1 \in Nat \ {0} /\ NoSpan \in Nat
        /\ "step_total" \in Phases \union {"step_total"}
    BY <1>2 DEF NoSpan
  <2>2. spans' = Opened(s, Cardinality(A) + 1, "step_total", NoSpan)
    BY <1>1, <1>3
  <2> HIDE DEF A
  <2> QED
    BY <1>1, <2>1, <2>2, OpeningAddsRow
<1>5. /\ DOMAIN spans' = DOMAIN spans \union {n} /\ n \notin DOMAIN spans
      /\ n \in Nat \ {0} /\ \A j \in DOMAIN spans : j \in Nat \ {0} /\ j < n
      /\ AllAttempts' = AllAttempts \union {n}
      /\ \A t : Attempts(t)' = IF t = s THEN A \union {n} ELSE Attempts(t)
      /\ \A k : k # NoSpan => PhasesOf(k)' = PhasesOf(k)
  <2> HIDE DEF A
  <2>1. /\ DOMAIN spans' = DOMAIN spans \union {n} /\ n \notin DOMAIN spans
        /\ n \in Nat \ {0} /\ \A j \in DOMAIN spans : j \in Nat \ {0} /\ j < n
    BY <1>0, <1>1, <1>4, AddedRowSets
  <2>2. AllAttempts' = AllAttempts \union {n}
    BY <1>0, <1>1, <1>4, AddedRowSets
  <2>3. ASSUME NEW t
        PROVE  Attempts(t)' = IF t = s THEN Attempts(t) \union {n} ELSE Attempts(t)
    BY <1>0, <1>1, <1>4, AddedAttempts
  <2>4. ASSUME NEW k, k # NoSpan
        PROVE  PhasesOf(k)' = PhasesOf(k)
    BY <1>0, <1>1, <1>4, <2>4, AddedPhases
  <2> QED
    BY <2>1, <2>2, <2>3, <2>4 DEF A
<1>6. /\ spans' \in Seq(Rows)
      /\ \A j \in DOMAIN spans : spans'[j] = spans[j]
      /\ spans'[n].step = s /\ spans'[n].attempt = Cardinality(A) + 1
      /\ spans'[n].phase = "step_total" /\ spans'[n].parent = NoSpan
      /\ spans'[n].status = "running"
  BY <1>0, <1>4 DEF RowAdded
<1>7. AllAttempts \subseteq DOMAIN spans /\ A \subseteq DOMAIN spans
  BY DEF AllAttempts, Attempts
<1> HIDE DEF A
<1>8. SpanControl'
  <2>1. n \in AllAttempts' /\ \A k \in AllAttempts' : k <= n
    BY <1>5, <1>7
  <2> QED
    BY <1>1, <1>6, <2>1 DEF SpanControl, InStep, Phases
<1>9. PhasesNest'
  <2> SUFFICES ASSUME NEW k \in DOMAIN spans', spans'[k].phase # "step_total"
               PROVE  LET parent == spans'[k].parent
                      IN  /\ parent \in AllAttempts' /\ parent < k
                          /\ spans'[k].attempt = spans'[parent].attempt
                          /\ spans'[parent].status \in Closed => spans'[k].status \in Closed
    BY DEF PhasesNest
  <2>1. k \in DOMAIN spans /\ spans'[k] = spans[k]
    BY <1>5, <1>6
  <2> DEFINE p == spans[k].parent
  <2>2. /\ p \in AllAttempts /\ p < k
        /\ spans[k].attempt = spans[p].attempt
        /\ spans[p].status \in Closed => spans[k].status \in Closed
    BY <2>1 DEF PhasesNest
  <2>3. spans'[p] = spans[p] /\ p \in AllAttempts'
    BY <1>5, <1>6, <1>7, <2>2
  <2> QED
    BY <2>1, <2>2, <2>3
<1>10. ASSUME NEW t \in 1 .. MaxSteps
       PROVE  NumberedInOrder(t)'
  <2> SUFFICES ASSUME NEW k \in Attempts(t)'
               PROVE  spans'[k].attempt = Cardinality({j \in Attempts(t)' : j <= k})
    BY DEF NumberedInOrder
  <2>1. CASE k = n
    <3>1. t = s
      <4>1. n \in Attempts(t)' /\ n \notin Attempts(t)
        BY <1>5, <2>1 DEF Attempts, AllAttempts
      <4> QED
        BY <1>5, <4>1
    <3>2. {j \in Attempts(t)' : j <= k} = A \union {n}
      BY <1>5, <1>7, <2>1, <3>1
    <3>3. Cardinality(A \union {n}) = Cardinality(A) + 1
      BY <1>2, <1>5, <1>7, FS_AddElement
    <3> QED
      BY <1>6, <2>1, <3>2, <3>3
  <2>2. CASE k # n
    <3>1. k \in Attempts(t) /\ k \in DOMAIN spans /\ k < n
      <4>1. k \in Attempts(t)
        BY <1>5, <2>2 DEF A
      <4>2. k \in DOMAIN spans
        BY <4>1 DEF Attempts, AllAttempts
      <4> QED
        BY <1>5, <4>1, <4>2
    <3>2. {j \in Attempts(t)' : j <= k} = {j \in Attempts(t) : j <= k}
      BY <1>5, <3>1 DEF A
    <3> QED
      BY <1>6, <3>1, <3>2 DEF NumberedInOrder
  <2> QED
    BY <2>1, <2>2
<1>11. \A k \in AllAttempts' : spans'[k].parent = NoSpan
  BY <1>5, <1>6, <1>7
<1>12. PhasesEnd'
  <2>1. ASSUME NEW k \in PhasesOf(n)
        PROVE  FALSE
    <3>1. k \in DOMAIN spans /\ spans[k].parent = n /\ k < n
      BY <1>5 DEF PhasesOf
    <3>2. CASE k \in AllAttempts
      BY <1>5, <3>1, <3>2 DEF NoSpan
    <3>3. CASE k \notin AllAttempts
      BY <1>5, <1>7, <3>1, <3>3 DEF AllAttempts, PhasesNest
    <3> QED
      BY <3>2, <3>3
  <2>2. PhasesOf(n)' = {}
    BY <1>5, <2>1 DEF NoSpan
  <2>3. PhasesOf(stepSpan)' = {}
    BY <1>1, <2>2 DEF PhasesOf
  <2> QED
    BY <2>3 DEF PhasesEnd
<1> QED
  BY <1>4, <1>6, <1>8, <1>9, <1>10, <1>11, <1>12 DEF A

(* Beginning a phase of the open attempt.                                  *)
LEMMA BeginPhaseKeepsRows ==
  ASSUME LoopTypeOK, StepBound, SpanControl, RowsNest, PhasesEnd, BeginPhase
  PROVE  /\ RowAdded(stepIndex, spans[stepSpan].attempt, at, stepSpan)
         /\ SpanControl' /\ RowsNest' /\ PhasesEnd'
<1> USE DEF RowsNest
<1>0. PICK n : n = Len(spans')
  OBVIOUS
<1>1. /\ at \in Phases /\ mode = "begin" /\ unwinding = "no"
      /\ stepSpan # NoSpan /\ phaseSpan = NoSpan
      /\ UNCHANGED <<at, unwinding, stepIndex, stepSpan>> /\ mode' = "work" /\ phaseSpan' = n
      /\ spans' = Opened(spans[stepSpan].step, spans[stepSpan].attempt, at, stepSpan)
  BY <1>0 DEF BeginPhase, Runs, Moves, StartPhase, itemVars
<1>2. /\ stepIndex \in 1 .. MaxSteps /\ spans[stepSpan].step = stepIndex
      /\ stepSpan \in AllAttempts /\ spans[stepSpan].status = "running"
      /\ \A k \in AllAttempts : k <= stepSpan
  BY <1>1 DEF SpanControl, InStep, StepBound, LoopTypeOK
<1>3. stepSpan \in DOMAIN spans /\ stepSpan \in Nat \ {0} /\ spans[stepSpan] \in Rows
  BY <1>2 DEF AllAttempts
<1>4. RowAdded(stepIndex, spans[stepSpan].attempt, at, stepSpan)
  BY <1>1, <1>2, <1>3, OpeningAddsRow DEF Rows
<1>5. at # "step_total"
  BY <1>1 DEF Phases
<1>6. /\ DOMAIN spans' = DOMAIN spans \union {n} /\ n \notin DOMAIN spans
      /\ n \in Nat \ {0} /\ \A j \in DOMAIN spans : j \in Nat \ {0} /\ j < n
  BY <1>0, <1>2, <1>4, AddedRowSets
<1>7. AllAttempts' = AllAttempts
  BY <1>0, <1>2, <1>4, <1>5, AddedRowSets
<1>8. ASSUME NEW t
      PROVE  Attempts(t)' = Attempts(t)
  BY <1>0, <1>2, <1>4, <1>5, AddedAttempts
<1>9. PhasesOf(stepSpan)' = PhasesOf(stepSpan) \union {n}
  <2>1. PICK p : p = stepSpan
    OBVIOUS
  <2>2. PhasesOf(p)' = PhasesOf(p) \union {n}
    BY <1>0, <1>2, <1>4, <2>1, AddedPhases
  <2> QED
    BY <1>1, <2>1, <2>2 DEF PhasesOf
<1>10. /\ spans' \in Seq(Rows)
       /\ \A j \in DOMAIN spans : spans'[j] = spans[j]
       /\ spans'[n].attempt = spans[stepSpan].attempt
       /\ spans'[n].phase = at /\ spans'[n].parent = stepSpan
       /\ spans'[n].status = "running"
  BY <1>0, <1>4 DEF RowAdded
<1>11. AllAttempts \subseteq DOMAIN spans
  BY DEF AllAttempts
<1>12. SpanControl'
  BY <1>1, <1>2, <1>3, <1>5, <1>6, <1>7, <1>9, <1>10 DEF SpanControl, InStep, NoSpan
<1>13. PhasesNest'
  <2> SUFFICES ASSUME NEW k \in DOMAIN spans', spans'[k].phase # "step_total"
               PROVE  LET parent == spans'[k].parent
                      IN  /\ parent \in AllAttempts' /\ parent < k
                          /\ spans'[k].attempt = spans'[parent].attempt
                          /\ spans'[parent].status \in Closed => spans'[k].status \in Closed
    BY DEF PhasesNest
  <2>1. CASE k = n
    BY <1>2, <1>3, <1>6, <1>7, <1>10, <2>1 DEF Closed
  <2>2. CASE k # n
    <3> DEFINE p == spans[k].parent
    <3>1. k \in DOMAIN spans /\ spans'[k] = spans[k]
      BY <1>6, <1>10, <2>2
    <3>2. /\ p \in AllAttempts /\ p < k
          /\ spans[k].attempt = spans[p].attempt
          /\ spans[p].status \in Closed => spans[k].status \in Closed
      BY <3>1 DEF PhasesNest
    <3>3. spans'[p] = spans[p] /\ p \in AllAttempts'
      BY <1>7, <1>10, <1>11, <3>2
    <3> QED
      BY <3>1, <3>2, <3>3
  <2> QED
    BY <2>1, <2>2
<1>14. ASSUME NEW t \in 1 .. MaxSteps
       PROVE  NumberedInOrder(t)'
  <2> SUFFICES ASSUME NEW k \in Attempts(t)'
               PROVE  spans'[k].attempt = Cardinality({j \in Attempts(t)' : j <= k})
    BY DEF NumberedInOrder
  <2>1. k \in Attempts(t) /\ k \in DOMAIN spans
    BY <1>8 DEF Attempts, AllAttempts
  <2> QED
    BY <1>8, <1>10, <2>1 DEF NumberedInOrder
<1>15. \A k \in AllAttempts' : spans'[k].parent = NoSpan
  BY <1>7, <1>10, <1>11
<1>16. PhasesEnd'
  <2> SUFFICES ASSUME NEW k \in PhasesOf(stepSpan)', k # n
               PROVE  spans'[k].status = "succeeded"
    BY <1>1 DEF PhasesEnd
  <2>1. k \in PhasesOf(stepSpan) /\ k \in DOMAIN spans
    BY <1>9 DEF PhasesOf
  <2>2. k # phaseSpan
    BY <1>1, <2>1 DEF NoSpan
  <2> QED
    BY <1>1, <1>10, <2>1, <2>2 DEF PhasesEnd
<1> QED
  BY <1>4, <1>10, <1>12, <1>13, <1>14, <1>15, <1>16

(* A closed row is numbered and nested as the open one was, provided that  *)
(* an attempt is closed after its phases.                                  *)
LEMMA ClosingKeepsRows ==
  ASSUME RowsNest, NEW k \in DOMAIN spans, NEW status \in Closed, RowClosed(k, status),
         \A j \in PhasesOf(k) : spans[j].status # "running"
  PROVE  RowsNest'
<1> USE DEF RowsNest
<1>1. /\ DOMAIN spans' = DOMAIN spans /\ AllAttempts' = AllAttempts
      /\ \A j \in DOMAIN spans : /\ j \in Nat \ {0}
                                 /\ spans'[j].attempt = spans[j].attempt
                                 /\ spans'[j].phase = spans[j].phase
                                 /\ spans'[j].parent = spans[j].parent
  BY ClosedRowSets
<1>2. ASSUME NEW t
      PROVE  Attempts(t)' = Attempts(t)
  BY ClosedRowSets
<1>3. /\ spans' \in Seq(Rows)
      /\ \A j \in DOMAIN spans : j # k => spans'[j] = spans[j]
      /\ spans'[k].status = status
  BY DEF RowClosed
<1>4. \A j \in AllAttempts : j \in DOMAIN spans
  BY DEF AllAttempts
<1>5. ASSUME NEW j \in DOMAIN spans', spans'[j].phase # "step_total"
      PROVE  LET parent == spans'[j].parent
             IN  /\ parent \in AllAttempts' /\ parent < j
                 /\ spans'[j].attempt = spans'[parent].attempt
                 /\ spans'[parent].status \in Closed => spans'[j].status \in Closed
  <2> DEFINE p == spans[j].parent
  <2>1. /\ j \in DOMAIN spans /\ spans[j].phase # "step_total" /\ spans'[j].parent = p
        /\ spans'[j].attempt = spans[j].attempt /\ spans[j] \in Rows
    BY <1>1, <1>5
  <2>2. /\ p \in AllAttempts /\ p < j
        /\ spans[j].attempt = spans[p].attempt
        /\ spans[p].status \in Closed => spans[j].status \in Closed
    BY <2>1 DEF PhasesNest
  <2>3. p \in DOMAIN spans /\ spans'[p].attempt = spans[p].attempt
    BY <1>1, <1>4, <2>2
  <2>4. ASSUME spans'[p].status \in Closed
        PROVE  spans'[j].status \in Closed
    <3>1. CASE j = k
      BY <1>3, <3>1
    <3>2. CASE j # k /\ p # k
      BY <1>3, <2>1, <2>2, <2>3, <2>4, <3>2
    <3>3. CASE j # k /\ p = k
      <4>1. spans[j].status # "running" /\ spans[j].status \in SpanStatuses
        BY <2>1, <3>3 DEF PhasesOf, Rows
      <4> QED
        BY <1>3, <2>1, <3>3, <4>1 DEF SpanStatuses
    <3> QED
      BY <3>1, <3>2, <3>3
  <2> QED
    BY <1>1, <2>1, <2>2, <2>3, <2>4
<1>6. ASSUME NEW t \in 1 .. MaxSteps
      PROVE  NumberedInOrder(t)'
  <2> SUFFICES ASSUME NEW j \in Attempts(t)'
               PROVE  spans'[j].attempt = Cardinality({i \in Attempts(t)' : i <= j})
    BY DEF NumberedInOrder
  <2>1. j \in Attempts(t) /\ j \in DOMAIN spans
    BY <1>2 DEF Attempts, AllAttempts
  <2> QED
    BY <1>1, <1>2, <2>1 DEF NumberedInOrder
<1>7. \A j \in AllAttempts' : spans'[j].parent = NoSpan
  BY <1>1, <1>4
<1> QED
  BY <1>3, <1>5, <1>6, <1>7 DEF PhasesNest

(* Closing the open phase.                                                 *)
LEMMA ClosedPhase ==
  ASSUME SpanControl, RowsNest, PhasesEnd, NEW status \in Closed, FinishPhase(status)
  PROVE  /\ phaseSpan \in DOMAIN spans /\ phaseSpan \in PhasesOf(stepSpan) \ AllAttempts
         /\ RowClosed(phaseSpan, status)
         /\ UNCHANGED stepSpan /\ phaseSpan' = NoSpan
         /\ AllAttempts' = AllAttempts
         /\ stepSpan \in AllAttempts /\ spans'[stepSpan] = spans[stepSpan]
         /\ RowsNest'
         /\ \A k \in PhasesOf(stepSpan)' :
               /\ spans'[k].status # "running"
               /\ unwinding = "no" /\ status = "succeeded" => spans'[k].status = "succeeded"
<1> USE DEF RowsNest
<1>1. /\ phaseSpan # NoSpan /\ phaseSpan' = NoSpan /\ stepSpan' = stepSpan
      /\ spans' = Finished(phaseSpan, status)
  BY DEF FinishPhase
<1>2. /\ at \in Phases /\ phaseSpan \in PhasesOf(stepSpan)
      /\ spans[phaseSpan].phase # "step_total" /\ spans[phaseSpan].status = "running"
  BY <1>1 DEF SpanControl
<1>3. /\ phaseSpan \in DOMAIN spans /\ phaseSpan \notin AllAttempts
      /\ stepSpan \in AllAttempts /\ stepSpan # NoSpan
  <2>1. stepSpan \in AllAttempts /\ spans \in Seq(Rows)
    BY <1>2 DEF SpanControl, InStep
  <2> QED
    BY <1>2, <2>1 DEF PhasesOf, AllAttempts, NoSpan
<1>4. RowClosed(phaseSpan, status)
  BY <1>1, <1>2, <1>3, FinishingClosesRow DEF SpanStatuses
<1>5. AllAttempts' = AllAttempts
  BY <1>3, <1>4, ClosedRowSets
<1>6. PhasesOf(stepSpan)' = PhasesOf(stepSpan)
  <2>1. PICK p : p = stepSpan
    OBVIOUS
  <2>2. PhasesOf(p)' = PhasesOf(p)
    BY <1>3, <1>4, ClosedRowSets
  <2> QED
    BY <1>1, <2>1, <2>2 DEF PhasesOf
<1>7. /\ \A j \in DOMAIN spans : j # phaseSpan => spans'[j] = spans[j]
      /\ spans'[phaseSpan].status = status
  BY <1>4 DEF RowClosed
<1>8. spans'[stepSpan] = spans[stepSpan]
  BY <1>3, <1>7 DEF AllAttempts
<1>9. ASSUME NEW k \in PhasesOf(stepSpan)'
      PROVE  /\ spans'[k].status # "running"
             /\ unwinding = "no" /\ status = "succeeded" => spans'[k].status = "succeeded"
  <2>1. k \in PhasesOf(stepSpan) /\ k \in DOMAIN spans
    BY <1>6 DEF PhasesOf
  <2>2. CASE k = phaseSpan
    BY <1>7, <2>2 DEF Closed
  <2>3. CASE k # phaseSpan
    BY <1>3, <1>7, <2>1, <2>3 DEF PhasesEnd
  <2> QED
    BY <2>2, <2>3
<1>10. ASSUME NEW j \in PhasesOf(phaseSpan)
       PROVE  FALSE
  <2>1. j \in DOMAIN spans /\ spans[j].parent = phaseSpan
    BY DEF PhasesOf
  <2> QED
    BY <1>1, <1>3, <2>1 DEF AllAttempts, PhasesNest
<1>11. RowsNest'
  <2> HIDE DEF RowsNest
  <2>1. \A j \in PhasesOf(phaseSpan) : spans[j].status # "running"
    BY <1>10
  <2> QED
    BY <1>3, <1>4, <2>1, ClosingKeepsRows
<1> QED
  BY <1>1, <1>2, <1>3, <1>4, <1>5, <1>8, <1>9, <1>11

(* Closing the open attempt.                                               *)
LEMMA ClosedAttempt ==
  ASSUME SpanControl, RowsNest, PhasesEnd, NEW status \in Closed, FinishStep(status)
  PROVE  /\ stepSpan \in DOMAIN spans /\ stepSpan \in AllAttempts /\ at \in InStep
         /\ phaseSpan = NoSpan
         /\ RowClosed(stepSpan, status)
         /\ stepSpan' = NoSpan /\ phaseSpan' = NoSpan
         /\ RowsNest'
<1> USE DEF RowsNest
<1>1. /\ stepSpan # NoSpan /\ phaseSpan = NoSpan /\ stepSpan' = NoSpan /\ phaseSpan' = NoSpan
      /\ spans' = Finished(stepSpan, status)
  BY DEF FinishStep
<1>2. at \in InStep /\ stepSpan \in AllAttempts /\ spans[stepSpan].status = "running"
  BY <1>1 DEF SpanControl
<1>3. stepSpan \in DOMAIN spans
  BY <1>2 DEF AllAttempts
<1>4. RowClosed(stepSpan, status)
  BY <1>1, <1>2, <1>3, FinishingClosesRow DEF SpanStatuses
<1>5. ASSUME NEW j \in PhasesOf(stepSpan)
      PROVE  spans[j].status # "running"
  BY <1>1, <1>5 DEF PhasesEnd, PhasesOf, NoSpan
<1>6. RowsNest'
  <2> HIDE DEF RowsNest
  <2> QED
    BY <1>3, <1>4, <1>5, ClosingKeepsRows
<1> QED
  BY <1>1, <1>2, <1>3, <1>4, <1>6

(* The recorder's rows hang together after every step of the loop.         *)
LEMMA SpansStay ==
  ASSUME TypeOK, AuditClean, Discipline, LoopControl, LoopTypeOK, StepBound, TurnControl,
         SpanControl, RowsNest, PhasesEnd, [OpenRouterNext]_allVars
  PROVE  SpanControl' /\ RowsNest' /\ PhasesEnd'
<1>1. CASE BeginStep
  BY <1>1, BeginStepKeepsRows
<1>2. CASE BeginPhase
  BY <1>2, BeginPhaseKeepsRows
<1>3. CASE EndPhase
  <2>1. /\ at \in Phases /\ mode = "end" /\ unwinding = "no" /\ FinishPhase("succeeded")
        /\ UNCHANGED stepIndex
    BY <1>3 DEF EndPhase, Runs, itemVars
  <2>2. "succeeded" \in Closed
    BY DEF Closed
  <2>3. /\ UNCHANGED stepSpan /\ phaseSpan' = NoSpan /\ AllAttempts' = AllAttempts
        /\ stepSpan \in AllAttempts /\ spans'[stepSpan] = spans[stepSpan] /\ RowsNest'
        /\ \A k \in PhasesOf(stepSpan)' : spans'[k].status = "succeeded"
    BY <2>1, <2>2, ClosedPhase
  <2>4. PhasesEnd'
    BY <2>3 DEF PhasesEnd
  <2>5. /\ at' \in InStep /\ (at' \in Phases /\ unwinding' = "no" => mode' = "begin")
    <3>1. CASE Raises("failed")
      BY <2>1, <3>1 DEF Raises, InStep
    <3>2. CASE Moves(NextPlace, IF NextPlace \in Phases THEN "begin" ELSE "work")
      <4>1. NextPlace \in InStep
        BY <2>1, NextPlaces DEF InStep, Phases
      <4> QED
        BY <3>2, <4>1 DEF Moves
    <3> QED
      BY <1>3, <3>1, <3>2 DEF EndPhase
  <2>6. SpanControl'
    BY <2>1, <2>3, <2>5 DEF SpanControl, InStep
  <2> QED
    BY <2>3, <2>4, <2>6
<1>4. ASSUME NEW status \in Closed, FinishStep(status), at' \in {"down", "step", "finished"}
      PROVE  SpanControl' /\ RowsNest' /\ PhasesEnd'
  BY <1>4, ClosedAttempt DEF SpanControl, PhasesEnd, InStep, Phases
<1>5. CASE CloseStep
  BY <1>4, <1>5 DEF CloseStep, Moves, Closed
<1>6. CASE Unwind
  <2>1. unwinding \in Closed /\ unwinding # "no"
    BY <1>6 DEF Unwind, LoopTypeOK, Closed
  <2>2. CASE FinishStep(unwinding) /\ at' = "down"
    BY <1>4, <2>1, <2>2
  <2>3. CASE FinishPhase(unwinding) /\ UNCHANGED controlVars
    <3>1. UNCHANGED <<at, mode, unwinding, stepIndex>> /\ at \in InStep
      BY <1>6, <2>1, <2>3 DEF Unwind, controlVars, itemVars, LoopControl, InStep
    <3>2. /\ UNCHANGED stepSpan /\ phaseSpan' = NoSpan /\ AllAttempts' = AllAttempts
          /\ stepSpan \in AllAttempts /\ spans'[stepSpan] = spans[stepSpan] /\ RowsNest'
          /\ \A k \in PhasesOf(stepSpan)' : spans'[k].status # "running"
      BY <2>1, <2>3, ClosedPhase
    <3>3. PhasesEnd'
      BY <2>1, <3>1, <3>2 DEF PhasesEnd
    <3>4. SpanControl'
      BY <2>1, <3>1, <3>2 DEF SpanControl
    <3> QED
      BY <3>2, <3>3, <3>4
  <2> QED
    BY <1>6, <2>2, <2>3 DEF Unwind
<1>7. CASE Kill
  <2>1. spans' = spans /\ stepSpan' = NoSpan /\ phaseSpan' = NoSpan /\ at' = "down"
    BY <1>7 DEF Kill, ForgetSpans
  <2>2. RowsNest'
    BY <2>1 DEF RowsNest, PhasesNest, NumberedInOrder, Attempts, AllAttempts
  <2> QED
    BY <2>1, <2>2 DEF SpanControl, PhasesEnd, InStep, Phases
<1>8. CASE ~BeginStep /\ ~BeginPhase /\ ~EndPhase /\ ~CloseStep /\ ~Unwind /\ ~Kill
  <2>1. /\ UNCHANGED <<spans, stepSpan, phaseSpan>>
        /\ at' \in InStep <=> at \in InStep
        /\ at' \in InStep => stepIndex' = stepIndex
        /\ at' \in Phases <=> at \in Phases
        /\ at \in Phases => at' = at /\ (mode' = "begin" <=> mode = "begin")
        /\ unwinding' = "no" => unwinding = "no"
    BY <1>8, OtherSteps DEF recorderVars
  <2>2. RowsNest'
    BY <2>1 DEF RowsNest, PhasesNest, NumberedInOrder, Attempts, AllAttempts
  <2>3. PhasesEnd'
    BY <2>1 DEF PhasesEnd, PhasesOf
  <2>4. SpanControl'
    BY <2>1 DEF SpanControl, AllAttempts, PhasesOf
  <2> QED
    BY <2>2, <2>3, <2>4
<1> QED
  BY <1>1, <1>2, <1>3, <1>5, <1>6, <1>7, <1>8

-----------------------------------------------------------------------------
(* The answer                                                              *)

(* Where a step that got the final answer has begun to record it.          *)
Closing ==
  \/ at = "record_final_message" /\ mode # "begin"
  \/ at \in {"advance_plan_item", "checkpoint", "close"}

(* The open attempt has a phase in which the answer was recorded.          *)
AnswerPhase == turn = Final /\ Closing => Answering(stepSpan)

(* Apart from the model's answer and the closing of spans, a step of a     *)
(* process does not get further with the answer than its place says.       *)
LEMMA AnswerTakesItsPhase ==
  ASSUME LoopTypeOK, LoopControl, TurnControl, [OpenRouterNext]_allVars, ~BeginPhase,
         turn' = Final, Closing'
  PROVE  turn = Final /\ Closing /\ stepSpan' = stepSpan
<1>1. CASE StartProcess \/ SkipItem \/ BeginStep \/ GiveUp \/ CloseStep
  BY <1>1 DEF StartProcess, NotRunning, SkipItem, BeginStep, GiveUp, CloseStep, Runs, Moves,
              controlVars, Closing
<1>2. CASE EndPhase
  <2>1. turn' = turn /\ stepSpan' = stepSpan /\ at \in Phases /\ mode = "end"
    BY <1>2 DEF EndPhase, Runs, turnVars, FinishPhase
  <2>2. at \notin {"tool_transaction", "recovery", "record_llm_turn"}
    BY <2>1, OpenRouterAssumption DEF TurnControl
  <2>3. at = "llm_generate" => ~Closing'
    BY <1>2, <2>1, NextPlaces DEF EndPhase, Raises, Moves, Closing, Phases
  <2> QED
    BY <2>1, <2>2, <2>3 DEF Closing, Phases
<1>3. CASE AskModel \/ ModelFails \/ ExecuteTool \/ ToolReturns \/ Recover \/ Recovered
  BY <1>3 DEF AskModel, ModelFails, ExecuteTool, ToolReturns, Recover, Recovered, Runs, Moves,
              Raises, turnVars, recorderVars, Closing
<1>4. CASE RecordLlmTurn \/ AdvancePlanItem \/ RecordFinalMessage \/ WriteCheckpoint
  BY <1>4 DEF RecordLlmTurn, AdvancePlanItem, RecordFinalMessage, WriteCheckpoint, CommitsThen,
              Runs, Moves, Raises, turnVars, recorderVars, Closing
<1>5. CASE Waits \/ SimulatedCrash \/ Outside \/ UNCHANGED allVars
  BY <1>5 DEF Waits, SimulatedCrash, Outside, Raises, allVars, openRouterVars, controlVars,
              turnVars, recorderVars, Closing
<1>6. CASE Unwind \/ Kill
  BY <1>6 DEF Unwind, Kill, FinishPhase, controlVars, Closing
<1> QED
  BY <1>1, <1>2, <1>3, <1>4, <1>5, <1>6 DEF OpenRouterNext, LoopStep

(* No step of the loop disturbs this.                                      *)
LEMMA AnswerPhaseStays ==
  ASSUME TypeOK, AuditClean, Discipline, LoopControl, LoopTypeOK, StepBound, TurnControl,
         SpanControl, RowsNest, PhasesEnd, AnswerPhase, [OpenRouterNext]_allVars
  PROVE  AnswerPhase'
<1> SUFFICES ASSUME turn' = Final, Closing'
             PROVE  Answering(stepSpan)'
  BY DEF AnswerPhase
<1>1. CASE BeginPhase
  <2>1. PICK n : n = Len(spans')
    OBVIOUS
  <2>2. PICK attempt : attempt = spans[stepSpan].attempt
    OBVIOUS
  <2>3. /\ RowAdded(stepIndex, attempt, at, stepSpan)
        /\ stepIndex \in 1 .. MaxSteps /\ spans \in Seq(Rows)
    BY <1>1, <2>2, BeginPhaseKeepsRows
       DEF BeginPhase, LoopTypeOK, StepBound, InStep, RowsNest
  <2>4. UNCHANGED <<stepSpan, turn, at>> /\ at \in Phases
    BY <1>1 DEF BeginPhase, Runs, Moves, StartPhase, turnVars
  <2>5. n \in DOMAIN spans' /\ DOMAIN spans \subseteq DOMAIN spans'
    BY <2>1, <2>3, AddedRowSets
  <2>6. /\ spans'[n].parent = stepSpan /\ spans'[n].phase = at
        /\ \A j \in DOMAIN spans : spans'[j] = spans[j]
    BY <2>1, <2>3 DEF RowAdded
  <2>7. CASE at = "record_final_message"
    BY <2>4, <2>5, <2>6, <2>7 DEF Answering, PhasesOf
  <2>8. CASE at # "record_final_message"
    <3>1. PICK j \in PhasesOf(stepSpan) : spans[j].phase = "record_final_message"
      BY <2>4, <2>8 DEF AnswerPhase, Answering, Closing
    <3> QED
      BY <2>4, <2>5, <2>6, <3>1 DEF Answering, PhasesOf
  <2> QED
    BY <2>7, <2>8
<1>2. CASE ~BeginPhase
  <2>1. PICK j \in PhasesOf(stepSpan) : spans[j].phase = "record_final_message"
    BY <1>2, AnswerTakesItsPhase DEF AnswerPhase, Answering
  <2>2. stepSpan' = stepSpan
    BY <1>2, AnswerTakesItsPhase
  <2>3. /\ j \in DOMAIN spans /\ j \in DOMAIN spans'
        /\ spans'[j].parent = spans[j].parent /\ spans'[j].phase = spans[j].phase
    <3>1. j \in DOMAIN spans /\ spans \in Seq(Rows)
      BY DEF PhasesOf, RowsNest
    <3>2. ASSUME NEW status \in Closed, FinishPhase(status)
          PROVE  /\ j \in DOMAIN spans'
                 /\ spans'[j].parent = spans[j].parent /\ spans'[j].phase = spans[j].phase
      BY <3>1, <3>2, ClosedPhase, ClosedRowSets
    <3>3. CASE EndPhase
      BY <3>1, <3>2, <3>3 DEF EndPhase, Closed
    <3>4. CASE Unwind
      <4>1. unwinding \in Closed
        BY <3>4 DEF Unwind, LoopTypeOK, Closed
      <4>2. FinishPhase(unwinding)
        BY <3>4 DEF Unwind, Closing
      <4> QED
        BY <3>1, <3>2, <4>1, <4>2
    <3>5. CASE ~EndPhase /\ ~Unwind
      <4>1. ~BeginStep /\ ~CloseStep /\ ~Kill
        BY DEF BeginStep, CloseStep, Kill, Moves, Closing
      <4>2. UNCHANGED recorderVars
        BY <1>2, <3>5, <4>1, OtherSteps
      <4> QED
        BY <3>1, <4>2 DEF recorderVars
    <3> QED
      BY <3>1, <3>3, <3>4, <3>5
  <2> QED
    BY <2>1, <2>2, <2>3 DEF Answering, PhasesOf
<1> QED
  BY <1>1, <1>2

-----------------------------------------------------------------------------
(* What an attempt has come to                                             *)

(* What a successful attempt has left behind: its phases succeeded, the    *)
(* plan advanced or the run answered; its item done, and no later attempt  *)
(* of its step, unless it was the attempt that answered.                   *)
SuccessOf(k) ==
  /\ \A j \in PhasesOf(k) : spans[j].status = "succeeded"
  /\ Item(spans[k].step) \in done \/ (LastItem \in done /\ Answered)
  /\ spans[k].step <= LastItem /\ ~Answering(k) =>
       /\ spans[k].step \in done
       /\ \A j \in Attempts(spans[k].step) : j <= k

SuccessInv == \A k \in AllAttempts : spans[k].status = "succeeded" => SuccessOf(k)

(* What is done stays done.                                                *)
LEMMA DoneGrows ==
  ASSUME [OpenRouterNext]_allVars
  PROVE  done \subseteq done'
BY DEF OpenRouterNext, LoopStep, StartProcess, SkipItem, BeginStep, GiveUp, BeginPhase, EndPhase,
       CloseStep, AskModel, ModelFails, RecordLlmTurn, ExecuteTool, ToolReturns, Recover,
       Recovered, AdvancePlanItem, RecordFinalMessage, WriteCheckpoint, Waits, Unwind,
       SimulatedCrash, Kill, Outside, itemVars, openRouterVars, allVars

(* A successful attempt keeps what it has left behind when another row is  *)
(* added or closed.                                                        *)
LEMMA SuccessKept ==
  ASSUME LoopTypeOK, [OpenRouterNext]_allVars, NEW k \in AllAttempts, SuccessOf(k),
         spans'[k].step = spans[k].step,
         PhasesOf(k)' = PhasesOf(k),
         \A j \in PhasesOf(k) : /\ spans'[j].status = spans[j].status
                                /\ spans'[j].phase = spans[j].phase,
         spans[k].step <= LastItem /\ ~Answering(k) =>
           \A j \in Attempts(spans[k].step)' : j <= k
  PROVE  SuccessOf(k)'
<1>1. done \subseteq done' /\ (Answered => Answered')
  BY DoneGrows, AnswerStays
<1>2. Item(spans[k].step)' = Item(spans[k].step)
  BY DEF Item
<1>3. Answering(k)' <=> Answering(k)
  BY DEF Answering
<1>4. spans'[k].step <= LastItem /\ ~Answering(k) =>
        \A j \in Attempts(spans[k].step)' : j <= k
  OBVIOUS
<1> QED
  BY <1>1, <1>2, <1>3, <1>4 DEF SuccessOf

(* A process begins no step whose tool call an attempt has carried through. *)
LEMMA SucceededIsSkipped ==
  ASSUME LoopTypeOK, RowsNest, ItemControl, SuccessInv, BeginStep,
         NEW k \in AllAttempts, spans[k].status = "succeeded", spans[k].step <= LastItem,
         ~Answering(k)
  PROVE  spans[k].step # stepIndex
<1>1. SuccessOf(k) /\ at = "step" /\ ~Skippable(stepIndex)
  BY DEF SuccessInv, BeginStep, Runs
<1>2. spans[k].step \in done
  BY <1>1 DEF SuccessOf
<1>3. spans[k].step \in completed \/ spans[k].step < stepIndex
  BY <1>1, <1>2 DEF ItemControl, Advancing
<1>4. stepIndex \in Nat \ {0} /\ LastItem \in Nat
  BY OpenRouterAssumption DEF LoopTypeOK
<1> SUFFICES ASSUME spans[k].step = stepIndex
             PROVE  FALSE
  OBVIOUS
<1>5. stepIndex <= LastItem /\ stepIndex \in completed
  BY <1>3, <1>4
<1>6. Item(stepIndex) = stepIndex
  BY <1>4, <1>5, ItemType
<1> QED
  BY <1>1, <1>5, <1>6 DEF Skippable

(* What success means is kept when an attempt begins,                      *)
LEMMA SuccessAtBeginStep ==
  ASSUME LoopTypeOK, SpanControl, RowsNest, ItemControl, SuccessInv, BeginStep,
         [OpenRouterNext]_allVars
  PROVE  SuccessInv'
<1>1. stepIndex \in 1 .. MaxSteps /\ at = "step" /\ spans \in Seq(Rows)
  BY DEF BeginStep, Runs, LoopTypeOK, RowsNest
<1>2. PICK attempt : attempt = Cardinality(Attempts(stepIndex)) + 1
  OBVIOUS
<1>3. RowAdded(stepIndex, attempt, "step_total", NoSpan)
  BY <1>2, BeginStepKeepsRows
<1>4. PICK n : n = Len(spans')
  OBVIOUS
<1>5. /\ AllAttempts' = AllAttempts \union {n}
      /\ n \notin DOMAIN spans /\ \A j \in DOMAIN spans : j \in Nat \ {0}
  BY <1>1, <1>3, <1>4, AddedRowSets
<1>6. /\ \A j \in DOMAIN spans : spans'[j] = spans[j]
      /\ spans'[n].status = "running"
  BY <1>3, <1>4 DEF RowAdded
<1>7. ASSUME NEW k \in AllAttempts, spans[k].status = "succeeded"
      PROVE  SuccessOf(k)'
  <2>1. k \in DOMAIN spans /\ k # NoSpan
    BY <1>5 DEF AllAttempts, NoSpan
  <2>2. PhasesOf(k)' = PhasesOf(k)
    BY <1>1, <1>3, <1>4, <2>1, AddedPhases
  <2>3. ASSUME spans[k].step <= LastItem, ~Answering(k)
        PROVE  \A j \in Attempts(spans[k].step)' : j <= k
    <3>1. PICK t : t = spans[k].step
      OBVIOUS
    <3>2. t # stepIndex
      BY <1>7, <2>3, <3>1, SucceededIsSkipped
    <3>3. Attempts(t)' = Attempts(t)
      BY <1>1, <1>3, <1>4, <3>2, AddedAttempts
    <3>4. \A j \in Attempts(t) : j <= k
      BY <1>7, <2>3, <3>1 DEF SuccessInv, SuccessOf
    <3>5. t = spans'[k].step
      BY <1>6, <2>1, <3>1
    <3> QED
      BY <3>1, <3>3, <3>4, <3>5 DEF Attempts
  <2>4. \A j \in PhasesOf(k) : /\ spans'[j].status = spans[j].status
                               /\ spans'[j].phase = spans[j].phase
    BY <1>6 DEF PhasesOf
  <2>5. SuccessOf(k) /\ spans'[k].step = spans[k].step
    BY <1>6, <1>7, <2>1 DEF SuccessInv
  <2> QED
    BY <1>1, <2>2, <2>3, <2>4, <2>5, SuccessKept
<1> QED
  BY <1>5, <1>6, <1>7 DEF SuccessInv, AllAttempts

(* when a phase of the open attempt begins,                                *)
LEMMA SuccessAtBeginPhase ==
  ASSUME LoopTypeOK, StepBound, SpanControl, RowsNest, PhasesEnd, SuccessInv, BeginPhase,
         [OpenRouterNext]_allVars
  PROVE  SuccessInv'
<1>1. /\ at \in Phases /\ spans \in Seq(Rows) /\ stepIndex \in 1 .. MaxSteps
      /\ spans[stepSpan].status = "running"
  BY DEF BeginPhase, RowsNest, LoopTypeOK, StepBound, InStep, SpanControl
<1>2. PICK attempt : attempt = spans[stepSpan].attempt
  OBVIOUS
<1>3. RowAdded(stepIndex, attempt, at, stepSpan)
  BY <1>2, BeginPhaseKeepsRows
<1>4. PICK n : n = Len(spans')
  OBVIOUS
<1>5. AllAttempts' = AllAttempts /\ at # "step_total"
  BY <1>1, <1>3, <1>4, AddedRowSets DEF Phases
<1>6. \A j \in DOMAIN spans : spans'[j] = spans[j]
  BY <1>3 DEF RowAdded
<1>7. ASSUME NEW k \in AllAttempts, spans[k].status = "succeeded"
      PROVE  SuccessOf(k)'
  <2>1. k \in DOMAIN spans /\ k # stepSpan
    BY <1>1, <1>7 DEF AllAttempts
  <2>2. PhasesOf(k)' = PhasesOf(k)
    BY <1>1, <1>3, <1>4, <2>1, AddedPhases
  <2>3. ASSUME spans[k].step <= LastItem, ~Answering(k)
        PROVE  \A j \in Attempts(spans[k].step)' : j <= k
    <3>1. PICK t : t = spans[k].step
      OBVIOUS
    <3>2. Attempts(t)' = Attempts(t)
      BY <1>1, <1>3, <1>4, <1>5, AddedAttempts
    <3>3. \A j \in Attempts(t) : j <= k
      BY <1>7, <2>3, <3>1 DEF SuccessInv, SuccessOf
    <3>4. t = spans'[k].step
      BY <1>6, <2>1, <3>1
    <3> QED
      BY <3>1, <3>2, <3>3, <3>4 DEF Attempts
  <2>4. \A j \in PhasesOf(k) : /\ spans'[j].status = spans[j].status
                               /\ spans'[j].phase = spans[j].phase
    BY <1>6 DEF PhasesOf
  <2>5. SuccessOf(k) /\ spans'[k].step = spans[k].step
    BY <1>6, <1>7, <2>1 DEF SuccessInv
  <2> QED
    BY <1>5, <2>2, <2>3, <2>4, <2>5, SuccessKept
<1> QED
  BY <1>5, <1>6, <1>7 DEF SuccessInv, AllAttempts

(* and, for all other attempts, when a row is closed.                      *)
LEMMA SuccessAtClosing ==
  ASSUME LoopTypeOK, RowsNest, SuccessInv, [OpenRouterNext]_allVars,
         NEW c \in DOMAIN spans, NEW status, RowClosed(c, status),
         NEW k \in AllAttempts, spans[k].status = "succeeded", k # c, c \notin PhasesOf(k)
  PROVE  SuccessOf(k)'
<1>1. spans \in Seq(Rows) /\ k \in DOMAIN spans /\ SuccessOf(k)
  BY DEF RowsNest, AllAttempts, SuccessInv
<1>2. PhasesOf(k)' = PhasesOf(k) /\ spans'[k].step = spans[k].step
  BY <1>1, ClosedRowSets
<1>3. \A j \in PhasesOf(k) : /\ spans'[j].status = spans[j].status
                             /\ spans'[j].phase = spans[j].phase
  BY DEF RowClosed, PhasesOf
<1>4. ASSUME spans[k].step <= LastItem, ~Answering(k)
      PROVE  \A j \in Attempts(spans[k].step)' : j <= k
  <2>1. PICK t : t = spans[k].step
    OBVIOUS
  <2>2. Attempts(t)' = Attempts(t)
    BY <1>1, ClosedRowSets
  <2>3. \A j \in Attempts(t) : j <= k
    BY <1>1, <1>4, <2>1 DEF SuccessOf
  <2>4. t = spans'[k].step
    BY <1>2, <2>1
  <2> QED
    BY <2>1, <2>2, <2>3, <2>4 DEF Attempts
<1> QED
  BY <1>1, <1>2, <1>3, <1>4, SuccessKept

(* An attempt that is closed as succeeded has advanced the plan, and all   *)
(* its phases have.                                                        *)
LEMMA ClosedAsSucceeded ==
  ASSUME LoopTypeOK, StepBound, SpanControl, RowsNest, PhasesEnd, AnswerPhase, ItemControl,
         CloseStep, [OpenRouterNext]_allVars, NEW k, k = stepSpan
  PROVE  SuccessOf(k)'
<1> USE OpenRouterAssumption DEF LoopTypeOK
<1>1. /\ at = "close" /\ unwinding = "no" /\ FinishStep("succeeded") /\ UNCHANGED done
      /\ turns' = turns
  BY DEF CloseStep, Runs, Moves
<1>2. /\ k \in DOMAIN spans /\ k \in AllAttempts /\ phaseSpan = NoSpan
      /\ RowClosed(k, "succeeded") /\ spans \in Seq(Rows)
  BY <1>1, ClosedAttempt DEF Closed, RowsNest
<1>3. /\ spans[k].step = stepIndex /\ \A j \in AllAttempts : j <= k
      /\ stepIndex \in Nat \ {0}
  BY <1>1 DEF SpanControl, InStep
<1>4. /\ PhasesOf(k)' = PhasesOf(k) /\ spans'[k].step = stepIndex
      /\ AllAttempts' = AllAttempts /\ \A j \in DOMAIN spans : j \in Nat \ {0}
  BY <1>2, <1>3, ClosedRowSets
<1>5. \A j \in PhasesOf(k) : spans'[j].status = "succeeded"
  <2> SUFFICES ASSUME NEW j \in PhasesOf(k)
               PROVE  spans'[j].status = "succeeded"
    OBVIOUS
  <2>1. j \in DOMAIN spans /\ spans[j].status = "succeeded" /\ k # NoSpan /\ j # NoSpan
    BY <1>1, <1>2, <1>4 DEF PhasesEnd, PhasesOf, NoSpan
  <2> QED
    BY <1>2, <2>1 DEF RowClosed
<1>6. Item(stepIndex) \in done \/ (turn = Final /\ LastItem \in done /\ Answered)
  BY <1>1 DEF ItemControl, Advanced
<1>7. Item(stepIndex) \in done' \/ (LastItem \in done' /\ Answered')
  BY <1>1, <1>6 DEF Answered
<1>8. ASSUME stepIndex <= LastItem, ~Answering(k)'
      PROVE  stepIndex \in done'
  <2>1. Item(stepIndex) = stepIndex
    BY <1>3, <1>8, ItemType
  <2>2. ~Answering(k)
    BY <1>2, <1>4, <1>8, ClosedRowSets DEF Answering, PhasesOf
  <2>3. turn # Final
    BY <1>1, <2>2 DEF AnswerPhase, Closing, Answering
  <2> QED
    BY <1>1, <1>6, <2>1, <2>3
<1>9. \A j \in Attempts(spans[k].step)' : j <= k
  BY <1>3, <1>4 DEF Attempts
<1>10. Item(spans[k].step)' = Item(stepIndex)
  BY <1>4 DEF Item
<1> QED
  BY <1>4, <1>5, <1>7, <1>8, <1>9, <1>10 DEF SuccessOf

(* No step of the loop makes a success mean less.                          *)
LEMMA SuccessStays ==
  ASSUME TypeOK, AuditClean, Discipline, LoopControl, LoopTypeOK, StepBound, ItemControl,
         SpanControl, RowsNest, PhasesEnd, AnswerPhase, SuccessInv, [OpenRouterNext]_allVars
  PROVE  SuccessInv'
<1>1. CASE BeginStep
  BY <1>1, SuccessAtBeginStep
<1>2. CASE BeginPhase
  BY <1>2, SuccessAtBeginPhase
<1>3. ASSUME NEW status \in Closed, FinishPhase(status), at \in Phases
      PROVE  SuccessInv'
  <2>1. /\ phaseSpan \in DOMAIN spans /\ phaseSpan \in PhasesOf(stepSpan) \ AllAttempts
        /\ RowClosed(phaseSpan, status) /\ AllAttempts' = AllAttempts
    BY <1>3, ClosedPhase
  <2>2. spans[stepSpan].status = "running"
    BY <1>3 DEF SpanControl, InStep, Phases
  <2>3. ASSUME NEW k \in AllAttempts', spans'[k].status = "succeeded"
        PROVE  SuccessOf(k)'
    <3>1. k \in AllAttempts /\ k \in DOMAIN spans /\ k # phaseSpan
      BY <2>1, <2>3 DEF AllAttempts
    <3>2. spans[k].status = "succeeded"
      BY <2>1, <2>3, <3>1 DEF RowClosed
    <3>3. phaseSpan \notin PhasesOf(k)
      BY <2>1, <2>2, <3>2 DEF PhasesOf
    <3> QED
      BY <2>1, <2>2, <3>1, <3>2, <3>3, SuccessAtClosing
  <2> QED
    BY <2>3 DEF SuccessInv
<1>4. ASSUME NEW status \in Closed, FinishStep(status),
             status = "succeeded" => CloseStep
      PROVE  SuccessInv'
  <2>1. /\ stepSpan \in DOMAIN spans /\ stepSpan \in AllAttempts
        /\ RowClosed(stepSpan, status)
    BY <1>4, ClosedAttempt DEF InStep, Phases
  <2>2. AllAttempts' = AllAttempts
    BY <2>1, ClosedRowSets DEF RowsNest
  <2>3. ASSUME NEW k \in AllAttempts', spans'[k].status = "succeeded"
        PROVE  SuccessOf(k)'
    <3>1. k \in AllAttempts /\ k \in DOMAIN spans
      BY <2>2, <2>3 DEF AllAttempts
    <3>2. CASE k = stepSpan
      <4>1. status = "succeeded"
        BY <2>1, <2>3, <3>2 DEF RowClosed
      <4> QED
        BY <1>4, <3>2, <4>1, ClosedAsSucceeded
    <3>3. CASE k # stepSpan
      <4>1. spans[k].status = "succeeded"
        BY <2>1, <2>3, <3>1, <3>3 DEF RowClosed
      <4>2. stepSpan \notin PhasesOf(k)
        <5>1. k # NoSpan
          BY <3>1 DEF RowsNest, NoSpan
        <5> QED
          BY <2>1, <5>1 DEF RowsNest, PhasesOf
      <4> QED
        BY <2>1, <3>1, <3>3, <4>1, <4>2, SuccessAtClosing
    <3> QED
      BY <3>2, <3>3
  <2> QED
    BY <2>3 DEF SuccessInv
<1>5. CASE EndPhase \/ CloseStep
  BY <1>3, <1>4, <1>5 DEF EndPhase, CloseStep, Closed
<1>6. CASE Unwind
  <2>1. unwinding \in Closed \ {"succeeded"}
    BY <1>6 DEF Unwind, LoopTypeOK, Closed
  <2>2. CASE FinishPhase(unwinding)
    <3>1. at \in Phases
      BY <2>2 DEF FinishPhase, SpanControl
    <3> QED
      BY <1>3, <2>1, <2>2, <3>1
  <2>3. CASE FinishStep(unwinding)
    BY <1>4, <2>1, <2>3
  <2> QED
    BY <1>6, <2>2, <2>3 DEF Unwind
<1>7. CASE Kill \/ (/\ ~BeginStep /\ ~BeginPhase /\ ~EndPhase /\ ~CloseStep /\ ~Unwind /\ ~Kill)
  <2>1. UNCHANGED spans
    BY <1>7, OtherSteps DEF Kill, ForgetSpans, recorderVars
  <2>2. ASSUME NEW k \in AllAttempts, spans[k].status = "succeeded"
        PROVE  SuccessOf(k)'
    <3>1. SuccessOf(k)
      BY <2>2 DEF SuccessInv
    <3>2. PhasesOf(k)' = PhasesOf(k)
      BY <2>1 DEF PhasesOf
    <3>3. ASSUME spans[k].step <= LastItem, ~Answering(k)
          PROVE  \A j \in Attempts(spans[k].step)' : j <= k
      BY <2>1, <3>1, <3>3 DEF SuccessOf, Attempts, AllAttempts
    <3> QED
      BY <2>1, <3>1, <3>2, <3>3, SuccessKept
  <2> QED
    BY <2>1, <2>2 DEF SuccessInv, AllAttempts
<1> QED
  BY <1>1, <1>2, <1>5, <1>6, <1>7

-----------------------------------------------------------------------------
(* Interrupted attempts                                                    *)

(* The report's interrupted attempts are those in which a process crashed, *)
(* and the open one, which is known as such once a crash unwinds it.       *)
ReportInv ==
  /\ ReportedInterrupted = crashedIn \union ({stepSpan} \ {NoSpan})
  /\ stepSpan # NoSpan => (stepSpan \in crashedIn <=> unwinding = "interrupted")

(* A crash is one of two steps, and an exception keeps its kind.           *)
LEMMA OtherCrashes ==
  ASSUME LoopTypeOK, [OpenRouterNext]_allVars, ~SimulatedCrash, ~Kill
  PROVE  /\ crashedIn' = crashedIn
         /\ ~Unwind => (unwinding' = "interrupted" <=> unwinding = "interrupted")
<1>1. CASE StartProcess \/ Outside \/ UNCHANGED allVars
  BY <1>1 DEF StartProcess, NotRunning, Outside, Runs, Moves, allVars, openRouterVars, controlVars, processVars
<1>2. CASE SkipItem \/ BeginStep \/ GiveUp \/ BeginPhase \/ CloseStep
  BY <1>2 DEF SkipItem, BeginStep, GiveUp, BeginPhase, CloseStep, Moves, controlVars, processVars
<1>3. CASE EndPhase \/ AskModel \/ ModelFails \/ ExecuteTool \/ ToolReturns \/ Recover \/ Recovered
  BY <1>3 DEF EndPhase, AskModel, ModelFails, ExecuteTool, ToolReturns, Recover, Recovered, Runs,
              Moves, Raises, processVars
<1>4. CASE RecordLlmTurn \/ AdvancePlanItem \/ RecordFinalMessage \/ WriteCheckpoint
  BY <1>4 DEF RecordLlmTurn, AdvancePlanItem, RecordFinalMessage, WriteCheckpoint, CommitsThen, Runs,
              Moves, Raises, processVars
<1>5. CASE Waits
  BY <1>5 DEF Waits, openRouterVars, controlVars, processVars
<1>6. CASE Unwind
  BY <1>6 DEF Unwind, processVars
<1> QED
  BY <1>1, <1>2, <1>3, <1>4, <1>5, <1>6 DEF OpenRouterNext, LoopStep

(* No step of the loop disturbs this.                                      *)
LEMMA ReportStays ==
  ASSUME TypeOK, AuditClean, Discipline, LoopControl, LoopTypeOK, StepBound, SpanControl, RowsNest,
         PhasesEnd, ReportInv, [OpenRouterNext]_allVars
  PROVE  ReportInv'
<1> USE DEF RowsNest
<1>1. crashedIn \subseteq AllAttempts /\ AllAttempts \subseteq DOMAIN spans
  BY DEF ReportInv, ReportedInterrupted, AllAttempts
<1>2. CASE BeginStep
  <2>1. /\ stepIndex \in 1 .. MaxSteps /\ at = "step" /\ stepSpan = NoSpan
        /\ unwinding = "no" /\ unwinding' = "no" /\ stepSpan' = Len(spans')
    BY <1>2 DEF BeginStep, Runs, Moves, StartStep, LoopTypeOK
  <2>2. PICK n : n = Len(spans')
    OBVIOUS
  <2>3. RowAdded(stepIndex, Cardinality(Attempts(stepIndex)) + 1, "step_total", NoSpan)
    BY <1>2, BeginStepKeepsRows
  <2>4. /\ AllAttempts' = AllAttempts \union {n}
        /\ n \notin DOMAIN spans /\ n \in Nat \ {0}
    BY <2>1, <2>2, <2>3, AddedRowSets
  <2>5. (\A j \in DOMAIN spans : spans'[j] = spans[j]) /\ spans'[n].status = "running"
    BY <2>2, <2>3 DEF RowAdded
  <2>6. crashedIn' = crashedIn
    BY <1>2 DEF BeginStep, processVars
  <2>7. ReportedInterrupted' = ReportedInterrupted \union {n}
    BY <1>1, <2>4, <2>5 DEF ReportedInterrupted, Reported
  <2> QED
    BY <1>1, <2>1, <2>2, <2>4, <2>6, <2>7 DEF ReportInv, NoSpan
<1>3. CASE BeginPhase
  <2>1. /\ stepIndex \in 1 .. MaxSteps /\ at # "step_total" /\ UNCHANGED <<stepSpan, unwinding>>
    BY <1>3 DEF BeginPhase, Runs, Moves, StartPhase, LoopTypeOK, StepBound, InStep, Phases
  <2>2. PICK n : n = Len(spans')
    OBVIOUS
  <2>3. RowAdded(stepIndex, spans[stepSpan].attempt, at, stepSpan)
    BY <1>3, BeginPhaseKeepsRows
  <2>4. AllAttempts' = AllAttempts
    BY <2>1, <2>2, <2>3, AddedRowSets
  <2>5. \A j \in DOMAIN spans : spans'[j] = spans[j]
    BY <2>3 DEF RowAdded
  <2>6. crashedIn' = crashedIn
    BY <1>3 DEF BeginPhase, processVars
  <2>7. ReportedInterrupted' = ReportedInterrupted
    BY <1>1, <2>4, <2>5 DEF ReportedInterrupted, Reported
  <2> QED
    BY <2>1, <2>6, <2>7 DEF ReportInv
<1>4. ASSUME NEW status \in Closed, FinishPhase(status), crashedIn' = crashedIn,
             unwinding' = "interrupted" <=> unwinding = "interrupted"
      PROVE  ReportInv'
  <2>1. /\ phaseSpan \in DOMAIN spans /\ phaseSpan \notin AllAttempts
        /\ RowClosed(phaseSpan, status) /\ AllAttempts' = AllAttempts /\ UNCHANGED stepSpan
    BY <1>4, ClosedPhase
  <2>2. \A k \in AllAttempts : spans'[k] = spans[k]
    BY <1>1, <2>1 DEF RowClosed
  <2>3. ReportedInterrupted' = ReportedInterrupted
    BY <2>1, <2>2 DEF ReportedInterrupted, Reported
  <2> QED
    BY <1>4, <2>1, <2>3 DEF ReportInv
<1>5. ASSUME NEW status \in Closed, FinishStep(status), crashedIn' = crashedIn,
             status = "interrupted" <=> unwinding = "interrupted"
      PROVE  ReportInv'
  <2>1. /\ stepSpan \in DOMAIN spans /\ stepSpan \in AllAttempts
        /\ RowClosed(stepSpan, status) /\ stepSpan' = NoSpan /\ stepSpan # NoSpan
    BY <1>5, ClosedAttempt DEF FinishStep
  <2>2. AllAttempts' = AllAttempts
    BY <2>1, ClosedRowSets
  <2>3. /\ \A k \in AllAttempts : k # stepSpan => spans'[k] = spans[k]
        /\ spans'[stepSpan].status = status /\ status # "running"
    BY <1>1, <2>1 DEF RowClosed, Closed
  <2>4. ReportedInterrupted' = (ReportedInterrupted \ {stepSpan})
                               \union (IF status = "interrupted" THEN {stepSpan} ELSE {})
    BY <2>1, <2>2, <2>3 DEF ReportedInterrupted, Reported
  <2> QED
    BY <1>5, <2>1, <2>4 DEF ReportInv
<1>6. CASE EndPhase \/ CloseStep
  <2>1. unwinding = "no" /\ crashedIn' = crashedIn /\ unwinding' # "interrupted"
    BY <1>6 DEF EndPhase, CloseStep, Runs, Moves, Raises, processVars
  <2> QED
    BY <1>4, <1>5, <1>6, <2>1 DEF EndPhase, CloseStep, Closed
<1>7. CASE Unwind
  <2>1. unwinding \in Closed /\ crashedIn' = crashedIn
    BY <1>7 DEF Unwind, LoopTypeOK, Closed, processVars
  <2>2. CASE FinishPhase(unwinding) /\ UNCHANGED controlVars
    BY <1>4, <2>1, <2>2 DEF controlVars
  <2>3. CASE FinishStep(unwinding)
    BY <1>5, <2>1, <2>3
  <2> QED
    BY <1>7, <2>2, <2>3 DEF Unwind
<1>8. ASSUME UNCHANGED spans
      PROVE  ReportedInterrupted' = ReportedInterrupted
  BY <1>8 DEF ReportedInterrupted, Reported, AllAttempts
<1>9. CASE Kill
  BY <1>8, <1>9 DEF Kill, ForgetSpans, ReportInv
<1>10. CASE ~BeginStep /\ ~BeginPhase /\ ~EndPhase /\ ~CloseStep /\ ~Unwind /\ ~Kill
  <2>1. UNCHANGED <<spans, stepSpan>>
    BY <1>10, OtherSteps DEF recorderVars
  <2>2. CASE SimulatedCrash
    <3>1. stepSpan \in AllAttempts /\ stepSpan # NoSpan
      BY <2>2 DEF SimulatedCrash, CrashPoint, SpanControl, InStep, NoSpan, AllAttempts
    <3> QED
      BY <1>8, <2>1, <2>2, <3>1 DEF SimulatedCrash, Raises, ReportInv
  <2>3. CASE ~SimulatedCrash
    BY <1>8, <1>10, <2>1, <2>3, OtherCrashes DEF ReportInv
  <2> QED
    BY <2>2, <2>3
<1> QED
  BY <1>2, <1>3, <1>6, <1>7, <1>9, <1>10

-----------------------------------------------------------------------------
(* Attempts and work                                                       *)

Recorded(i) == {e \in Exec : ItemOf[e] = i /\ records[e] # NoRecord}

Tries(i) == {k \in AllAttempts : Item(spans[k].step) = i}

(* The attempt that is open, if it works on the item.                      *)
Open(i) == IF stepSpan # NoSpan /\ Item(stepIndex) = i THEN 1 ELSE 0

(* Apart from the call in hand, every execution of an item that has a      *)
(* record was begun in an attempt that is over.                            *)
WorkInv ==
  \A i \in 1 .. LastItem :
     /\ IsFiniteSet(Recorded(i))
     /\ Cardinality(Recorded(i) \ {turn}) + Open(i) <= Cardinality(Tries(i))

(* An item's attempts are finitely many.                                   *)
LEMMA TriesAreFinite ==
  ASSUME RowsNest, NEW i
  PROVE  /\ IsFiniteSet(Tries(i)) /\ Cardinality(Tries(i)) \in Nat
         /\ Tries(i) \subseteq DOMAIN spans
<1>1. IsFiniteSet(1 .. Len(spans))
  BY FS_Interval DEF RowsNest
<1>2. Tries(i) \in SUBSET (1 .. Len(spans)) /\ Tries(i) \subseteq DOMAIN spans
  BY DEF RowsNest, Tries, AllAttempts
<1>3. IsFiniteSet(Tries(i))
  BY <1>1, <1>2, FS_Subset
<1> QED
  BY <1>2, <1>3, FS_CardinalityType

(* So there are at least as many attempts as executions.                   *)
LEMMA WorkMeansTries ==
  ASSUME TurnControl, SpanControl, RowsNest, WorkInv, NEW i \in 1 .. LastItem
  PROVE  Cardinality(Recorded(i)) <= Cardinality(Tries(i))
<1> DEFINE R == Recorded(i)
           n == Cardinality(R \ {turn})
<1>1. /\ IsFiniteSet(R) /\ Cardinality(Tries(i)) \in Nat
      /\ n + Open(i) <= Cardinality(Tries(i))
  BY TriesAreFinite DEF WorkInv
<1>2. IsFiniteSet(R \ {turn}) /\ n \in Nat
  BY <1>1, FS_RemoveElement, FS_CardinalityType
<1>3. CASE turn \in R
  <2>1. turn \in Exec /\ ItemOf[turn] = i
    BY <1>3 DEF Recorded
  <2>2. turn # NoTurn
    BY <2>1, OpenRouterAssumption
  <2>3. Item(stepIndex) = i /\ stepSpan \in AllAttempts
    BY <2>1, <2>2 DEF TurnControl, SpanControl
  <2>4. Open(i) = 1
    BY <2>3 DEF Open, AllAttempts, NoSpan, RowsNest
  <2>5. Cardinality(R) = n + 1
    <3>1. Cardinality(R \ {turn}) = Cardinality(R) - 1 /\ Cardinality(R) \in Nat
      BY <1>1, <1>3, FS_RemoveElement, FS_CardinalityType
    <3> QED
      BY <3>1
  <2> QED
    BY <1>1, <2>4, <2>5
<1>4. CASE turn \notin R
  <2>1. R \ {turn} = R
    BY <1>4
  <2>2. Open(i) \in {0, 1}
    BY DEF Open
  <2> QED
    BY <1>1, <1>2, <2>1, <2>2
<1> QED
  BY <1>3, <1>4

(* A record is written only while the loop waits for the call in hand.     *)
LEMMA RecordSteps ==
  ASSUME RunInv, LoopControl, TurnControl, [OpenRouterNext]_allVars
  PROVE  \/ UNCHANGED records
         \/ /\ Waits
            /\ \A e \in Exec : records[e] = NoRecord /\ records'[e] # NoRecord => e = turn
<1>1. CASE \/ StartProcess \/ SkipItem \/ BeginStep \/ GiveUp \/ BeginPhase \/ EndPhase \/ CloseStep
           \/ AskModel \/ ModelFails \/ ToolReturns \/ Recovered \/ Unwind \/ UNCHANGED allVars
  BY <1>1 DEF StartProcess, SkipItem, BeginStep, GiveUp, BeginPhase, EndPhase, CloseStep, AskModel,
              ModelFails, ToolReturns, Recovered, Unwind, allVars, vars, journalVars
<1>2. CASE RecordLlmTurn \/ AdvancePlanItem \/ RecordFinalMessage \/ WriteCheckpoint
  BY <1>2 DEF RecordLlmTurn, AdvancePlanItem, RecordFinalMessage, WriteCheckpoint, CommitsThen,
              journalVars
<1>3. CASE ExecuteTool \/ Recover
  BY <1>3 DEF ExecuteTool, Recover, Call, BeginPass, BeginPassWith, journalVars
<1>4. CASE SimulatedCrash \/ Kill
  BY <1>4 DEF SimulatedCrash, Kill, Crash, CrashBetweenCalls, journalVars
<1>5. CASE Outside
  BY <1>5 DEF Outside, WindowPasses, Network, journalVars
<1>6. CASE Waits
  <2>1. [Next]_vars \/ Interlude
    BY StepsOfTheRun DEF RunInv
  <2>2. ASSUME NEW e \in Exec, records[e] = NoRecord, records'[e] # NoRecord
        PROVE  e = turn
    <3>1. PICK w \in Workers : pc[w] # "idle" /\ task[w] = e
      BY <2>1, <2>2, RecordsComeFromCalls
    <3>2. w = Agent /\ ~AllIdle
      BY <3>1, OpenRouterAssumption DEF AllIdle
    <3> QED
      BY <3>1, <3>2 DEF LoopControl
  <2> QED
    BY <1>6, <2>2
<1> QED
  BY <1>1, <1>2, <1>3, <1>4, <1>5, <1>6 DEF OpenRouterNext, LoopStep

(* The model's turn is taken up when there is none and put down when the   *)
(* attempt is over.                                                        *)
LEMMA TurnSteps ==
  ASSUME TurnControl, [OpenRouterNext]_allVars
  PROVE  \/ turn' = turn
         \/ turn = NoTurn
         \/ turn' = NoTurn /\ stepSpan' = NoSpan /\ (CloseStep \/ Unwind \/ Kill)
<1>1. CASE AskModel
  BY <1>1 DEF AskModel, Runs, TurnControl
<1>2. CASE CloseStep \/ Unwind \/ Kill
  BY <1>2 DEF CloseStep, Unwind, Kill, FinishStep, ForgetSpans
<1>3. CASE \/ StartProcess \/ SkipItem \/ BeginStep \/ GiveUp \/ BeginPhase \/ EndPhase
           \/ ModelFails \/ ToolReturns \/ Recovered \/ UNCHANGED allVars
  BY <1>3 DEF StartProcess, SkipItem, BeginStep, GiveUp, BeginPhase, EndPhase, ModelFails, ToolReturns,
              Recovered, turnVars, allVars, openRouterVars
<1>4. CASE \/ RecordLlmTurn \/ AdvancePlanItem \/ RecordFinalMessage \/ WriteCheckpoint \/ ExecuteTool
           \/ Recover \/ SimulatedCrash \/ Outside \/ Waits
  BY <1>4 DEF RecordLlmTurn, AdvancePlanItem, RecordFinalMessage, WriteCheckpoint, ExecuteTool, Recover,
              SimulatedCrash, Outside, Waits, turnVars, openRouterVars
<1> QED
  BY <1>1, <1>2, <1>3, <1>4 DEF OpenRouterNext, LoopStep

(* The attempts at an item grow by one when a step begins, and only then.  *)
LEMMA TrySteps ==
  ASSUME TypeOK, AuditClean, Discipline, LoopControl, LoopTypeOK, StepBound, SpanControl, RowsNest,
         PhasesEnd, [OpenRouterNext]_allVars, NEW i
  PROVE  \/ /\ BeginStep /\ stepSpan' # NoSpan /\ UNCHANGED <<stepIndex, turn>>
            /\ \E n : /\ n \notin Tries(i)
                      /\ Tries(i)' = IF Item(stepIndex) = i THEN Tries(i) \union {n} ELSE Tries(i)
         \/ /\ Tries(i)' = Tries(i)
            /\ stepSpan' = NoSpan \/ UNCHANGED <<stepSpan, stepIndex>>
<1> USE DEF RowsNest
<1>1. AllAttempts \subseteq DOMAIN spans
  BY DEF AllAttempts
<1>2. CASE BeginStep
  <2>1. /\ stepIndex \in 1 .. MaxSteps /\ stepSpan' = Len(spans') /\ UNCHANGED <<stepIndex, turn>>
    BY <1>2 DEF BeginStep, StartStep, LoopTypeOK, itemVars, turnVars
  <2>2. PICK n : n = Len(spans')
    OBVIOUS
  <2>3. RowAdded(stepIndex, Cardinality(Attempts(stepIndex)) + 1, "step_total", NoSpan)
    BY <1>2, BeginStepKeepsRows
  <2>4. /\ AllAttempts' = AllAttempts \union {n}
        /\ n \notin DOMAIN spans /\ n \in Nat \ {0}
    BY <2>1, <2>2, <2>3, AddedRowSets
  <2>5. (\A j \in DOMAIN spans : spans'[j] = spans[j]) /\ spans'[n].step = stepIndex
    BY <2>2, <2>3 DEF RowAdded
  <2>6. /\ n \notin Tries(i)
        /\ Tries(i)' = IF Item(stepIndex) = i THEN Tries(i) \union {n} ELSE Tries(i)
    BY <1>1, <2>4, <2>5 DEF Tries, Item
  <2> QED
    BY <1>2, <2>1, <2>2, <2>4, <2>6 DEF NoSpan
<1>3. ASSUME AllAttempts' = AllAttempts, \A k \in AllAttempts : spans'[k].step = spans[k].step
      PROVE  Tries(i)' = Tries(i)
  BY <1>3 DEF Tries, Item
<1>4. CASE BeginPhase
  <2>1. /\ stepIndex \in 1 .. MaxSteps /\ at # "step_total" /\ UNCHANGED <<stepSpan, stepIndex>>
    BY <1>4 DEF BeginPhase, Runs, StartPhase, LoopTypeOK, StepBound, InStep, Phases, itemVars
  <2>2. PICK n : n = Len(spans')
    OBVIOUS
  <2>3. RowAdded(stepIndex, spans[stepSpan].attempt, at, stepSpan)
    BY <1>4, BeginPhaseKeepsRows
  <2>4. AllAttempts' = AllAttempts
    BY <2>1, <2>2, <2>3, AddedRowSets
  <2>5. \A j \in DOMAIN spans : spans'[j] = spans[j]
    BY <2>3 DEF RowAdded
  <2> QED
    BY <1>1, <1>3, <2>1, <2>4, <2>5
<1>5. ASSUME NEW c \in DOMAIN spans, NEW status, RowClosed(c, status)
      PROVE  Tries(i)' = Tries(i)
  <2>1. /\ AllAttempts' = AllAttempts
        /\ \A j \in DOMAIN spans : spans'[j].step = spans[j].step
    BY <1>5, ClosedRowSets
  <2> QED
    BY <1>1, <1>3, <2>1
<1>6. ASSUME NEW status \in Closed, FinishPhase(status)
      PROVE  Tries(i)' = Tries(i) /\ UNCHANGED stepSpan
  BY <1>5, <1>6, ClosedPhase
<1>7. ASSUME NEW status \in Closed, FinishStep(status)
      PROVE  Tries(i)' = Tries(i) /\ stepSpan' = NoSpan
  BY <1>5, <1>7, ClosedAttempt
<1>8. CASE EndPhase \/ CloseStep
  BY <1>6, <1>7, <1>8 DEF EndPhase, CloseStep, Closed, itemVars
<1>9. CASE Unwind
  <2>1. unwinding \in Closed
    BY <1>9 DEF Unwind, LoopTypeOK, Closed
  <2> QED
    BY <1>6, <1>7, <1>9, <2>1 DEF Unwind, itemVars
<1>10. CASE Kill
  BY <1>10 DEF Kill, ForgetSpans, Tries, AllAttempts, Item
<1>11. CASE ~BeginStep /\ ~BeginPhase /\ ~EndPhase /\ ~CloseStep /\ ~Unwind /\ ~Kill
  <2>1. /\ UNCHANGED <<spans, stepSpan>>
        /\ at \in InStep => UNCHANGED stepIndex
        /\ at \notin InStep => stepSpan = NoSpan
    BY <1>11, OtherSteps DEF recorderVars, SpanControl
  <2> QED
    BY <2>1 DEF Tries, AllAttempts, Item
<1> QED
  BY <1>2, <1>4, <1>8, <1>9, <1>10, <1>11

(* No step of the loop starts work outside an attempt.                     *)
LEMMA WorkStays ==
  ASSUME RunInv, LoopControl, LoopTypeOK, StepBound, TurnControl, SpanControl, RowsNest, PhasesEnd,
         WorkInv, [OpenRouterNext]_allVars
  PROVE  WorkInv'
<1> SUFFICES ASSUME NEW i \in 1 .. LastItem
             PROVE  /\ IsFiniteSet(Recorded(i)')
                    /\ Cardinality(Recorded(i)' \ {turn'}) + Open(i)' <= Cardinality(Tries(i)')
  BY DEF WorkInv, Recorded, Open, Tries, AllAttempts, Item
<1> TypeOK /\ AuditClean /\ Discipline
  BY DEF RunInv
<1>1. PICK R : R = Recorded(i)
  OBVIOUS
<1>2. PICK S : S = Recorded(i)'
  OBVIOUS
<1>3. PICK T : T = Tries(i)
  OBVIOUS
<1>4. /\ IsFiniteSet(R) /\ R \subseteq Exec /\ S \subseteq R \union {turn}
      /\ IsFiniteSet(T) /\ Cardinality(T) \in Nat
      /\ Cardinality(R \ {turn}) + Open(i) <= Cardinality(T)
      /\ Cardinality(R) <= Cardinality(T)
  <2>1. S \subseteq R \union {turn}
    BY <1>1, <1>2, RecordSteps DEF Recorded
  <2> QED
    BY <1>1, <1>3, <2>1, TriesAreFinite, WorkMeansTries DEF WorkInv, Recorded
<1>5. IsFiniteSet(S)
  BY <1>4, FS_AddElement, FS_Subset
<1>6. Open(i) \in {0, 1} /\ Open(i)' \in {0, 1}
  BY DEF Open
<1>7. IsFiniteSet(R \ {turn}) /\ Cardinality(R \ {turn}) \in Nat
  BY <1>4, FS_RemoveElement, FS_CardinalityType
<1>8. CASE BeginStep
  <2>1. /\ UNCHANGED <<records, turn, stepIndex>> /\ stepSpan = NoSpan
    BY <1>8 DEF BeginStep, StartStep, vars, journalVars, itemVars, turnVars
  <2>2. S = R
    BY <1>1, <1>2, <2>1 DEF Recorded
  <2>3. Open(i) = 0 /\ Open(i)' <= IF Item(stepIndex) = i THEN 1 ELSE 0
    BY <2>1 DEF Open, Item
  <2>4. CASE Tries(i)' = T
    <3>1. stepSpan' # NoSpan
      BY <1>8, BeginStepKeepsRows DEF BeginStep, StartStep, RowAdded, NoSpan, RowsNest
    <3>2. PICK n : /\ n \notin T
                   /\ Tries(i)' = IF Item(stepIndex) = i THEN T \union {n} ELSE T
      BY <1>3, <2>1, <3>1, TrySteps
    <3>3. Item(stepIndex) # i
      BY <2>4, <3>2
    <3> QED
      BY <1>2, <1>4, <1>6, <1>7, <2>1, <2>2, <2>3, <2>4, <3>3
  <2>5. CASE \E n : n \notin T /\ Item(stepIndex) = i /\ Tries(i)' = T \union {n}
    <3>1. PICK n : n \notin T /\ Tries(i)' = T \union {n}
      BY <2>5
    <3>2. Cardinality(T \union {n}) = Cardinality(T) + 1
      BY <1>4, <3>1, FS_AddElement
    <3> QED
      BY <1>2, <1>4, <1>6, <1>7, <2>1, <2>2, <2>3, <3>1, <3>2
  <2> QED
    BY <1>3, <1>8, <2>4, <2>5, TrySteps
<1>9. ASSUME Tries(i)' = T, Open(i)' <= Open(i), S \ {turn'} \subseteq R \ {turn}
      PROVE  Cardinality(S \ {turn'}) + Open(i)' <= Cardinality(Tries(i)')
  <2>1. Cardinality(S \ {turn'}) <= Cardinality(R \ {turn}) /\ Cardinality(S \ {turn'}) \in Nat
    BY <1>7, <1>9, FS_Subset, FS_CardinalityType
  <2> QED
    BY <1>4, <1>6, <1>7, <1>9, <2>1
<1>10. ASSUME Tries(i)' = T, stepSpan' = NoSpan, S = R
       PROVE  Cardinality(S \ {turn'}) + Open(i)' <= Cardinality(Tries(i)')
  <2>1. Cardinality(S \ {turn'}) <= Cardinality(R) /\ Cardinality(S \ {turn'}) \in Nat
        /\ Cardinality(R) \in Nat
    BY <1>4, <1>10, FS_Subset, FS_CardinalityType
  <2>2. Open(i)' = 0
    BY <1>10 DEF Open
  <2> QED
    BY <1>4, <1>10, <2>1, <2>2
<1>11. CASE ~BeginStep
  <2>1. /\ Tries(i)' = T
        /\ stepSpan' = NoSpan \/ UNCHANGED <<stepSpan, stepIndex>>
    BY <1>3, <1>11, TrySteps
  <2>2. Open(i)' <= Open(i)
    BY <1>6, <2>1 DEF Open, Item
  <2>3. CASE turn' = turn \/ (turn = NoTurn /\ UNCHANGED records)
    <3>1. S \subseteq R \/ turn' = turn
      BY <1>1, <1>2, <2>3 DEF Recorded
    <3>2. S \ {turn'} \subseteq R \ {turn}
      BY <1>4, <2>3, <3>1, OpenRouterAssumption
    <3> QED
      BY <1>2, <1>5, <1>9, <2>1, <2>2, <3>2
  <2>4. CASE stepSpan' = NoSpan /\ UNCHANGED records
    <3>1. S = R
      BY <1>1, <1>2, <2>4 DEF Recorded
    <3> QED
      BY <1>2, <1>5, <1>10, <2>1, <2>4, <3>1
  <2>5. Waits => turn' = turn
    BY DEF Waits, openRouterVars, turnVars
  <2> QED
    BY <1>2, <2>3, <2>4, <2>5, TurnSteps, RecordSteps
<1> QED
  BY <1>2, <1>5, <1>8, <1>11

-----------------------------------------------------------------------------
(* The whole invariant                                                     *)

LoopInv ==
  /\ RunInv
  /\ LoopControl /\ LoopTypeOK /\ StepBound /\ TurnControl /\ ItemControl
  /\ SpanControl /\ RowsNest /\ PhasesEnd /\ AnswerPhase
  /\ SuccessInv /\ ReportInv /\ WorkInv

(* Every step of the loop keeps it.                                        *)
LEMMA LoopInvStays ==
  ASSUME LoopInv, [OpenRouterNext]_allVars
  PROVE  LoopInv'
<1> USE DEF LoopInv
<1> TypeOK /\ AuditClean /\ Discipline
  BY DEF RunInv
<1>1. LoopControl'
  BY LoopControlStays
<1>2. RunInv'
  <2>1. OneAtATime'
    BY <1>1, OpenRouterAssumption DEF LoopControl, OneAtATime, Calling, Recovering, AllIdle
  <2> QED
    BY <2>1, StepsOfTheRun, RunInvStays
<1>3. LoopTypeOK' /\ StepBound' /\ TurnControl'
  BY TurnControlStays
<1>4. ItemControl'
  BY ItemControlStays
<1>5. SpanControl' /\ RowsNest' /\ PhasesEnd'
  BY SpansStay
<1>6. SuccessInv'
  BY SuccessStays
<1>7. ReportInv'
  BY ReportStays
<1>8. WorkInv'
  BY WorkStays
<1>9. AnswerPhase'
  BY AnswerPhaseStays
<1> QED
  BY <1>1, <1>2, <1>3, <1>4, <1>5, <1>6, <1>7, <1>8, <1>9

(* And it holds before the process is first started.                       *)
LEMMA LoopInvAtTheStart == OpenRouterInit => LoopInv
<1> SUFFICES ASSUME OpenRouterInit
             PROVE  LoopInv
  OBVIOUS
<1> USE OpenRouterAssumption DEF OpenRouterInit
<1>1. RunInv
  BY RunInvAtTheStart
<1>2. LoopTypeOK /\ StepBound /\ TurnControl /\ ItemControl
  BY DEF LoopTypeOK, StepBound, TurnControl, ItemControl, InStep, Phases
<1>3. LoopControl
  BY DEF Init, CallInit, PassInit, LoopControl, AllIdle, Calling, Recovering
<1>4. spans \in Seq(Rows) /\ DOMAIN spans = {} /\ stepSpan = NoSpan /\ phaseSpan = NoSpan
  BY DEF RecorderInit
<1>5. AllAttempts = {} /\ \A s : Attempts(s) = {}
  BY <1>4 DEF AllAttempts, Attempts
<1>6. SpanControl /\ RowsNest /\ PhasesEnd
  BY <1>4, <1>5 DEF SpanControl, RowsNest, PhasesEnd, PhasesNest, NumberedInOrder, InStep, Phases
<1>7. SuccessInv /\ ReportInv /\ AnswerPhase
  BY <1>4, <1>5 DEF SuccessInv, ReportInv, ReportedInterrupted, AnswerPhase, Closing
<1>8. WorkInv
  <2> SUFFICES ASSUME NEW i \in 1 .. LastItem
               PROVE  /\ IsFiniteSet(Recorded(i))
                      /\ Cardinality(Recorded(i) \ {turn}) + Open(i) <= Cardinality(Tries(i))
    BY DEF WorkInv
  <2>1. Recorded(i) = {} /\ Recorded(i) \ {turn} = {} /\ Tries(i) = {} /\ Open(i) = 0
    BY <1>4, <1>5 DEF Init, JournalInit, Recorded, Tries, Open
  <2> QED
    BY <2>1, FS_EmptySet
<1> QED
  BY <1>1, <1>2, <1>3, <1>6, <1>7, <1>8 DEF LoopInv

(* So it holds throughout.                                                 *)
LEMMA LoopInvHolds == OpenRouterSpec => []LoopInv
BY LoopInvAtTheStart, LoopInvStays, PTL DEF OpenRouterSpec

-----------------------------------------------------------------------------
(* What follows                                                            *)

(* The loop, its recorder and the run under them are type correct.         *)
THEOREM OpenRouterTypeCorrect == OpenRouterSpec => [](TypeOK /\ OpenRouterTypeOK)
<1>1. LoopInv => TypeOK /\ OpenRouterTypeOK
  <2> SUFFICES ASSUME LoopInv
               PROVE  TypeOK /\ OpenRouterTypeOK
    OBVIOUS
  <2>1. RecorderTypeOK(1 .. MaxSteps, Phases)
    BY DEF LoopInv, RowsNest, Rows, SpanControl, PhasesOf, AllAttempts, RecorderTypeOK
  <2>2. crashedIn \subseteq AllAttempts
    BY DEF LoopInv, ReportInv, ReportedInterrupted
  <2> QED
    BY <2>1, <2>2 DEF LoopInv, RunInv, LoopTypeOK, OpenRouterTypeOK
<1> QED
  BY <1>1, LoopInvHolds, PTL

(* The model-driven agent keeps the single-writer discipline by its own    *)
(* control, whatever calls the model asks for and wherever the process     *)
(* dies; what recovery guarantees under that discipline holds of its runs. *)
THEOREM AgentIsTheSingleWriter ==
  OpenRouterSpec => [](/\ OneAtATime
                       /\ AuditClean /\ PendingIffUnsettled /\ NoIllegalMove
                       /\ NeverBlindlyRefired /\ ReconciledOnce)
<1>1. LoopInv => /\ OneAtATime
                 /\ AuditClean /\ PendingIffUnsettled /\ NoIllegalMove
                 /\ NeverBlindlyRefired /\ ReconciledOnce
  BY DEF LoopInv, RunInv, Discipline, RefireInv, NeverBlindlyRefired, ReconcileInv
<1> QED
  BY <1>1, LoopInvHolds, PTL

(* A run of the model-driven agent is a run of the abstract journal: a     *)
(* committed execution is never reopened.                                  *)
THEOREM AgentImplementsJournal == OpenRouterSpec => JournalSpec /\ CommittedStays
<1>1. OpenRouterInit => JournalInit
  BY DEF OpenRouterInit, Init
<1>2. LoopInv /\ [OpenRouterNext]_allVars => [JournalNext]_journalVars
  BY StepsOfTheRun, SystemJournalStep DEF LoopInv, RunInv, Interlude
<1>3. OpenRouterSpec => JournalSpec
  BY <1>1, <1>2, LoopInvHolds, PTL DEF OpenRouterSpec, JournalSpec
<1> QED
  BY <1>3, JournalCommittedStays, PTL

(* Whatever calls the model asks for, a write is logged before it is sent, *)
(* a target that dedupes applies it once at most, and a success that the   *)
(* loop acts on is backed by a committed record.                           *)
THEOREM AgentEffectsAreSafe ==
  OpenRouterSpec => [](ExactlyOnceEffect /\ LogBeforeSend /\ SuccessIsDurable)
<1>1. OpenRouterInit => EffectsInv
  BY EffectsAtTheStart DEF OpenRouterInit
<1>2. LoopInv /\ EffectsInv /\ [OpenRouterNext]_allVars => EffectsInv'
  BY StepsOfTheRun, EffectsStay DEF LoopInv, RunInv
<1> QED
  BY <1>1, <1>2, EffectsMean, LoopInvHolds, PTL DEF OpenRouterSpec

(* If no two writes store the same value, a write recorded as committed,   *)
(* or answered to the loop as a success, has taken effect at the target.   *)
THEOREM AgentTellsTheTruth ==
  ASSUME DistinctWrites
  PROVE  OpenRouterSpec =>
           [](/\ CommittedIsReal
              /\ task[Agent] \in Writes /\ reply[Agent] \in {"succeeded", "reused"}
                   => commits[task[Agent]] > 0)
<1> DEFINE Evidence == EvidenceInv /\ CommittedIsReal
<1>1. OpenRouterInit => Evidence
  BY EvidenceAtTheStart DEF OpenRouterInit
<1>2. LoopInv /\ Evidence /\ [OpenRouterNext]_allVars => Evidence'
  BY StepsOfTheRun, EvidenceStaysInTheRun DEF LoopInv, RunInv
<1>3. LoopInv /\ CommittedIsReal /\ SuccessIsDurable =>
        (task[Agent] \in Writes /\ reply[Agent] \in {"succeeded", "reused"}
           => commits[task[Agent]] > 0)
  <2> Agent \in Workers
    BY OpenRouterAssumption
  <2> QED
    BY SuccessHasHappened DEF LoopInv, RunInv, Success
<1> QED
  BY <1>1, <1>2, <1>3, LoopInvHolds, AgentEffectsAreSafe, PTL DEF OpenRouterSpec

(* Attempts are numbered without gaps across crashes and restarts, phases  *)
(* lie within their attempt, and nothing follows the attempt of a plan     *)
(* step that has carried a tool call through: a process that comes after   *)
(* it skips the item, also when it starts an answered run once more.       *)
THEOREM NumberingIsGapless == OpenRouterSpec => []AttemptsAreNumbered
<1>1. LoopInv => AttemptsAreNumbered
  <2> SUFFICES ASSUME LoopInv
               PROVE  AttemptsAreNumbered
    OBVIOUS
  <2>1. ASSUME NEW s \in 1 .. LastItem, NEW j \in Attempts(s), NEW k \in Attempts(s),
               j < k, spans[j].status = "succeeded", ~Answering(j)
        PROVE  FALSE
    <3>1. /\ j \in AllAttempts /\ j \in DOMAIN spans /\ k \in DOMAIN spans
          /\ spans[j].step = s /\ spans \in Seq(Rows)
      BY DEF Attempts, AllAttempts, LoopInv, RowsNest
    <3>2. SuccessOf(j)
      BY <2>1, <3>1 DEF LoopInv, SuccessInv
    <3>3. s <= LastItem
      BY OpenRouterAssumption
    <3>4. k <= j
      BY <2>1, <3>1, <3>2, <3>3 DEF SuccessOf
    <3> QED
      BY <2>1, <3>1, <3>4
  <2> QED
    BY <2>1 DEF LoopInv, RowsNest, AttemptsAreNumbered
<1> QED
  BY <1>1, LoopInvHolds, PTL

(* Every execution of an item was begun in an attempt of its own that the  *)
(* recorder had durably opened before.                                     *)
THEOREM WorkIsUnderASpan == OpenRouterSpec => []SpanBeforeWork
<1>1. LoopInv => SpanBeforeWork
  <2> SUFFICES ASSUME LoopInv, NEW i \in 1 .. LastItem
               PROVE  Cardinality(Recorded(i)) <= Cardinality(Tries(i))
    BY DEF SpanBeforeWork, Recorded, Tries
  <2> QED
    BY WorkMeansTries DEF LoopInv
<1> QED
  BY <1>1, LoopInvHolds, PTL

(* A success in the report is one: its phases succeeded, and its item is   *)
(* done or the run is answered.                                            *)
THEOREM SuccessIsProgress == OpenRouterSpec => []SucceededMeansAdvanced
<1>1. LoopInv => SucceededMeansAdvanced
  BY DEF LoopInv, SuccessInv, SuccessOf, SucceededMeansAdvanced, Answered
<1> QED
  BY <1>1, LoopInvHolds, PTL

(* When no process runs, the attempts reported as interrupted are exactly  *)
(* those in which one crashed.                                             *)
THEOREM InterruptedMeansCrashed == OpenRouterSpec => []ReportAccountsForCrashes
<1>1. LoopInv => ReportAccountsForCrashes
  BY DEF LoopInv, ReportInv, SpanControl, InStep, Phases, ReportAccountsForCrashes
<1> QED
  BY <1>1, LoopInvHolds, PTL

(* Without a verifier no write of the agent is sent twice, and none takes  *)
(* effect twice at a target that does not dedupe, however the run is       *)
(* crashed, restarted and asked again.                                     *)
THEOREM NothingIsSentTwice ==
  ASSUME ~HasVerifier
  PROVE  OpenRouterSpec => []SentAtMostOnce
<1>1. LoopInv /\ SentInv /\ [OpenRouterNext]_allVars => SentInv'
  BY StepsOfTheRun, SentStays DEF LoopInv, RunInv
<1>2. OpenRouterInit => SentInv
  BY SentAtTheStart DEF OpenRouterInit
<1>3. LoopInv /\ SentInv => SentAtMostOnce
  BY SentMeansOnce DEF LoopInv, RunInv, SentAtMostOnce
<1> QED
  BY <1>1, <1>2, <1>3, LoopInvHolds, PTL DEF OpenRouterSpec
=============================================================================
