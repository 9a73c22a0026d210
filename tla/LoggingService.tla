--------------------------- MODULE LoggingService ---------------------------
(***************************************************************************)
(* The logging facade of one run in detail: the write-ahead log, the       *)
(* planner, the agent context, the external results and the checkpoints.   *)
(* Each operation appends its events and changes the projections in one    *)
(* SQLite transaction, so it is one step; an operation that raises rolls   *)
(* back and is not enabled.  Sequence ids come from one counter that the   *)
(* other runs of the store advance too.                                    *)
(***************************************************************************)
EXTENDS PlannerState

CONSTANTS
  CheckpointInterval,   \* LoggingServiceConfig.checkpoint_every_n_events
  SeedMessages,         \* length of start_run's initial_messages
  MaxSeq                \* bound: events of the store

ASSUME LoggingAssumption ==
  /\ CheckpointInterval \in Nat
  /\ SeedMessages \in Nat
  /\ MaxSeq \in Nat

VARIABLES log,          \* events of this run
          lastSeq,      \* AUTOINCREMENT counter of wal_events
          plan,         \* planner projection
          context,      \* agent context
          records,      \* external results
          checkpoint    \* latest checkpoint

vars == <<log, lastSeq, plan, context, records, checkpoint>>

Contexts ==
  [messages : Nat, pending : SUBSET Exec, plannerVersion : Nat, stepIndex : Nat,
   lastCheckpoint : Nat]

NewContext ==
  [messages |-> SeedMessages, pending |-> {}, plannerVersion |-> 0, stepIndex |-> 0,
   lastCheckpoint |-> 0]

NotStarted == log = << >>

(* Before start_run there are neither plan nor context nor checkpoint; the *)
(* variables then hold values that no operation reads.                     *)
Init ==
  /\ log = << >>
  /\ lastSeq = 0
  /\ plan = NewPlan
  /\ context = NewContext
  /\ records = [e \in Exec |-> NoRecord]
  /\ checkpoint = [seq |-> 0, plan |-> NewPlan, context |-> NewContext]

-----------------------------------------------------------------------------
(* Events                                                                  *)

Event(type, entity, value) == [type |-> type, entity |-> entity, value |-> value]

Synchronized(p) == Event("CONTEXT_SYNCHRONIZED", "context", <<p.version, Cursor(p)>>)

(* sync_planner_state leaves the step index alone when there is no cursor. *)
InSync(c, p) ==
  [c EXCEPT !.plannerVersion = p.version,
            !.stepIndex = IF Cursor(p) = NoCursor THEN @ ELSE Cursor(p)]

(* Sequence ids counted per run although the counter is the store's.       *)
NumberedPerRun(events) == [k \in DOMAIN events |-> [seq |-> Len(log) + k, event |-> events[k]]]

Numbered(events) == [k \in DOMAIN events |-> [seq |-> lastSeq + k, event |-> events[k]]]

(* A checkpoint that claims the sequence id of its own event.              *)
CheckpointedAhead(p, c, seq) ==
  /\ checkpoint' = [seq |-> seq + 1, plan |-> p, context |-> c]
  /\ context' = [c EXCEPT !.lastCheckpoint = seq + 1]

(* The snapshot is taken at the latest event, before its own.              *)
Checkpointed(p, c, seq) ==
  /\ checkpoint' = [seq |-> seq, plan |-> p, context |-> c]
  /\ context' = [c EXCEPT !.lastCheckpoint = seq]

CheckpointEvent(seq) ==
  [seq |-> seq + 1, event |-> Event("CHECKPOINT_WRITTEN", "checkpoint", <<seq>>)]

(* Append the events, store plan p and context c, and take the automatic   *)
(* checkpoint when the last sequence id falls on the interval.             *)
Commit(events, p, c) ==
  LET seq == lastSeq + Len(events)
      due == CheckpointInterval > 0 /\ seq % CheckpointInterval = 0
  IN  /\ seq < MaxSeq
      /\ plan' = p
      /\ IF due
         THEN /\ log' = Append(log \o Numbered(events), CheckpointEvent(seq))
              /\ lastSeq' = seq + 1
              /\ Checkpointed(p, c, seq)
         ELSE /\ log' = log \o Numbered(events)
              /\ lastSeq' = seq
              /\ context' = c
              /\ UNCHANGED checkpoint

-----------------------------------------------------------------------------
(* Operations                                                              *)

(* Without force_reset a run that exists is resumed unchanged.             *)
StartRun(forceReset) ==
  /\ NotStarted \/ forceReset
  /\ Integral(NewPlan)
  /\ Commit(<< Event("RUN_STARTED", "run", << >>),
               Event("PLAN_CREATED", "planner", << >>),
               Event("CONTEXT_INITIALIZED", "context", <<SeedMessages>>),
               Synchronized(NewPlan) >>,
            NewPlan, InSync(NewContext, NewPlan))
  /\ UNCHANGED records

MessageAppended == Event("CONTEXT_MESSAGE_APPENDED", "context", << >>)

WithMessage(c) == [c EXCEPT !.messages = @ + 1]

RecordContextMessage ==
  /\ ~NotStarted
  /\ Commit(<< MessageAppended >>, plan, WithMessage(context))
  /\ UNCHANGED records

RecordLlmTurn(i) ==
  /\ ~NotStarted
  /\ Integral(plan)
  /\ Commit(<< Event("PLAN_ITEM_LLM_OUTPUT_ATTACHED", i, << >>),
               MessageAppended,
               Synchronized(Bumped(plan)) >>,
            Bumped(plan), InSync(WithMessage(context), Bumped(plan)))
  /\ UNCHANGED records

IntentLogged(e) == \E k \in DOMAIN log : /\ log[k].event.type = "TOOL_INTENT_RECORDED"
                                         /\ log[k].event.entity = e

PendingSet(ids) == Event("CONTEXT_PENDING_EXECUTION_SET", "context", <<ids>>)

(* The event lists the pending executions as they were before the intent.  *)
RecordToolIntentStale(e) ==
  /\ ~NotStarted
  /\ records[e] = NoRecord /\ ~IntentLogged(e)
  /\ LET p == Bumped(plan)
         c == [context EXCEPT !.pending = @ \union {e}]
     IN  Commit(<< Event("TOOL_INTENT_RECORDED", e, << >>), PendingSet(context.pending),
                   Synchronized(p) >>,
                p, InSync(c, p))
  /\ records' = [records EXCEPT ![e] = "intent_logged"]

(* The intent is also attached to its plan item, which makes a new version *)
(* of the plan.  A logged intent is not logged again.                      *)
RecordToolIntent(e) ==
  /\ ~NotStarted
  /\ records[e] = NoRecord /\ ~IntentLogged(e)
  /\ Integral(plan)
  /\ LET p == Bumped(plan)
         c == [context EXCEPT !.pending = @ \union {e}]
     IN  Commit(<< Event("TOOL_INTENT_RECORDED", e, << >>), PendingSet(c.pending),
                   Synchronized(p) >>,
                p, InSync(c, p))
  /\ records' = [records EXCEPT ![e] = "intent_logged"]

RecordToolDispatch(e) ==
  /\ ~NotStarted
  /\ records[e] # NoRecord
  /\ MayMove(records[e], "dispatched")
  /\ Commit(<< Event("TOOL_DISPATCHED", e, << >>) >>, plan, context)
  /\ records' = [records EXCEPT ![e] = "dispatched"]

(* The result is recorded whatever the record said before.                 *)
RecordToolResultUnchecked(e, s, clear) ==
  /\ ~NotStarted
  /\ Commit(<< Event("EXTERNAL_RESULT_RECORDED", e, <<s>>) >>, plan, context)
  /\ records' = [records EXCEPT ![e] = s]

RecordToolResult(e, s, clear) ==
  /\ ~NotStarted
  /\ records[e] # NoRecord => MayMove(records[e], s)
  /\ LET recorded == Event("EXTERNAL_RESULT_RECORDED", e, <<s>>)
         c == [context EXCEPT !.pending = @ \ {e}]
     IN  IF clear /\ s \notin {"intent_logged", "dispatched"} /\ e \in context.pending
         THEN Commit(<< recorded, PendingSet(c.pending) >>, plan, c)
         ELSE Commit(<< recorded >>, plan, context)
  /\ records' = [records EXCEPT ![e] = s]

(* The plan moves on and the context is not told.                          *)
AdvancePlanItemUnsynced(i, s) ==
  /\ ~NotStarted
  /\ MayTurn(plan, i, s) /\ Integral(WithStatus(plan, i, s))
  /\ Commit(<< Event("PLAN_ITEM_STATUS_UPDATED", i, <<s>>) >>, WithStatus(plan, i, s), context)
  /\ UNCHANGED records

AdvancePlanItem(i, s) ==
  /\ ~NotStarted
  /\ MayTurn(plan, i, s)
  /\ LET p == WithStatus(plan, i, s)
     IN  /\ Integral(p)
         /\ Commit(<< Event("PLAN_ITEM_STATUS_UPDATED", i, <<s>>), Synchronized(p) >>,
                   p, InSync(context, p))
  /\ UNCHANGED records

SetActivePlanItem(i) ==
  /\ ~NotStarted
  /\ LET p == WithActive(plan, i)
     IN  /\ Integral(p)
         /\ Commit(<< Event("PLAN_ACTIVE_ITEM_SET", i, << >>), Synchronized(p) >>,
                   p, InSync(context, p))
  /\ UNCHANGED records

LatestSeq == log[Len(log)].seq

(* An explicit checkpoint refers to the run's own latest event, which may  *)
(* be older than the store's.                                              *)
WriteCheckpoint ==
  /\ ~NotStarted
  /\ lastSeq < MaxSeq
  /\ log' = Append(log, [CheckpointEvent(LatestSeq) EXCEPT !.seq = lastSeq + 1])
  /\ lastSeq' = lastSeq + 1
  /\ Checkpointed(plan, context, LatestSeq)
  /\ UNCHANGED <<plan, records>>

(* Another run of the store appends an event.                              *)
OtherRunAppends ==
  /\ lastSeq < MaxSeq
  /\ lastSeq' = lastSeq + 1
  /\ UNCHANGED <<log, plan, context, records, checkpoint>>

NextOfRun ==
  \/ \E forceReset \in BOOLEAN : StartRun(forceReset)
  \/ RecordContextMessage
  \/ \E e \in Exec :
       \/ RecordToolIntent(e)
       \/ RecordToolDispatch(e)
       \/ \E s \in Parked : RecordToolResult(e, s, FALSE)
       \/ \E s \in Terminal : RecordToolResult(e, s, TRUE)
  \/ \E i \in Items :
       \/ RecordLlmTurn(i)
       \/ SetActivePlanItem(i)
       \/ \E s \in ItemStatuses : AdvancePlanItem(i, s)
  \/ WriteCheckpoint

Next == NextOfRun \/ OtherRunAppends

Spec == Init /\ [][Next]_vars

TypeOK ==
  /\ \A k \in DOMAIN log : log[k].seq \in 1 .. lastSeq
  /\ \A j, k \in DOMAIN log : j < k => log[j].seq < log[k].seq
  /\ lastSeq \in 0 .. MaxSeq
  /\ plan \in Plans
  /\ context \in Contexts
  /\ records \in [Exec -> Statuses \union {NoRecord}]
  /\ checkpoint \in [seq : 0 .. MaxSeq, plan : Plans, context : Contexts]

-----------------------------------------------------------------------------
(* What a reader of the log can tell                                       *)

(* One event's effect on a view of the run.                                *)
Told(view, event) ==
  CASE event.type = "PLAN_CREATED" -> [view EXCEPT !.plan = NewPlan]
    [] event.type = "CONTEXT_INITIALIZED" ->
         [view EXCEPT !.context = [NewContext EXCEPT !.messages = event.value[1]]]
    [] event.type = "CONTEXT_MESSAGE_APPENDED" -> [view EXCEPT !.context.messages = @ + 1]
    [] event.type = "CONTEXT_PENDING_EXECUTION_SET" ->
         [view EXCEPT !.context.pending = event.value[1]]
    [] event.type = "CONTEXT_SYNCHRONIZED" ->
         [view EXCEPT !.context.plannerVersion = event.value[1],
                      !.context.stepIndex = IF event.value[2] = NoCursor THEN @
                                            ELSE event.value[2]]
    [] event.type = "CHECKPOINT_WRITTEN" ->
         [view EXCEPT !.context.lastCheckpoint = event.value[1]]
    [] event.type = "PLAN_ITEM_LLM_OUTPUT_ATTACHED" -> [view EXCEPT !.plan = Bumped(@)]
    [] event.type = "PLAN_ITEM_STATUS_UPDATED" ->
         [view EXCEPT !.plan = WithStatus(@, event.entity, event.value[1])]
    [] event.type = "PLAN_ACTIVE_ITEM_SET" -> [view EXCEPT !.plan = WithActive(@, event.entity)]
    [] event.type = "TOOL_INTENT_RECORDED" ->
         [view EXCEPT !.plan = Bumped(@), !.records[event.entity] = "intent_logged"]
    [] event.type = "TOOL_DISPATCHED" -> [view EXCEPT !.records[event.entity] = "dispatched"]
    [] event.type = "EXTERNAL_RESULT_RECORDED" ->
         [view EXCEPT !.records[event.entity] = event.value[1]]
    [] OTHER -> view

(* The events past one sequence id, told in order.                         *)
ToldBy(entries, past, view) ==
  LET told[k \in 0 .. Len(entries)] ==
        IF k = 0 THEN view
        ELSE IF entries[k].seq <= past THEN told[k - 1]
        ELSE Told(told[k - 1], entries[k].event)
  IN  told[Len(entries)]

Current == [plan |-> plan, context |-> context, records |-> records]

-----------------------------------------------------------------------------
(* Properties                                                              *)

(* "Atomic commit means the two can never disagree": whoever reads the     *)
(* whole log arrives at the plan, the context and the records as stored.   *)
LogAgrees ==
  ToldBy(log, 0, [plan |-> NewPlan, context |-> NewContext,
                  records |-> [e \in Exec |-> NoRecord]]) = Current

(* The latest checkpoint and the events after it give the plan and the     *)
(* context as stored, which is what rebuild_state hands to its callers.    *)
CheckpointRebuilds ==
  checkpoint.seq > 0 =>
    ToldBy(log, checkpoint.seq, [plan |-> checkpoint.plan, context |-> checkpoint.context,
                                 records |-> records]) = Current

(* No operation leaves the context at an older version of the plan.        *)
SyncedWithPlanner ==
  ~NotStarted => context = InSync(context, plan)

(* The facade implements the journal that its callers rely on.             *)
Journal == INSTANCE ExecutionJournal
             WITH pending <- context.pending,
                  intents <- {e \in Exec : IntentLogged(e)}

ImplementsJournal == Journal!JournalSpec
=============================================================================
