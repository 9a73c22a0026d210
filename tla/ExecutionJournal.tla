-------------------------- MODULE ExecutionJournal --------------------------
(***************************************************************************)
(* What LoggingService promises about the executions of one run, whatever  *)
(* the write-ahead log, planner and context behind it look like: one       *)
(* durable record per execution, the run's pending executions, and the     *)
(* executions whose intent has been logged.  Each operation is one SQLite  *)
(* transaction under the run's lock, hence one step; an operation that     *)
(* raises ValueError rolls back, so it is a step that is not enabled and   *)
(* its callers test the guards below to see whether it raises.             *)
(***************************************************************************)
EXTENDS ExecutionStatus

VARIABLES records,     \* status of each execution's durable record
          pending,     \* context.pending_execution_ids
          intents      \* executions with a TOOL_INTENT_RECORDED event

journalVars == <<records, pending, intents>>

JournalTypeOK ==
  /\ records \in [Exec -> Statuses \union {NoRecord}]
  /\ pending \subseteq Exec
  /\ intents \subseteq Exec

JournalInit ==
  /\ records = [e \in Exec |-> NoRecord]
  /\ pending = {}
  /\ intents = {}

-----------------------------------------------------------------------------
(* Operations                                                              *)

IntentExists(e) == records[e] # NoRecord \/ e \in intents

(* Without the duplicate check a settled execution becomes pending again.  *)
RecordToolIntentAgain(e) ==
  /\ pending' = pending \union {e}
  /\ intents' = intents \union {e}
  /\ records' = IF records[e] = NoRecord
                THEN [records EXCEPT ![e] = "intent_logged"] ELSE records

RecordToolIntent(e) ==
  \/ /\ IntentExists(e)
     /\ UNCHANGED journalVars
  \/ /\ ~IntentExists(e)
     /\ pending' = pending \union {e}
     /\ intents' = intents \union {e}
     /\ records' = [records EXCEPT ![e] = "intent_logged"]

CanDispatch(e) ==
  /\ records[e] # NoRecord
  /\ MayMove(records[e], "dispatched")

RecordToolDispatch(e) ==
  /\ CanDispatch(e)
  /\ records' = [records EXCEPT ![e] = "dispatched"]
  /\ UNCHANGED <<pending, intents>>

(* A result may also be the first record of an execution.                  *)
CanRecord(e, s) == records[e] # NoRecord => MayMove(records[e], s)

RecordToolResult(e, s, clear) ==
  /\ CanRecord(e, s)
  /\ records' = [records EXCEPT ![e] = s]
  /\ pending' = IF clear /\ s \notin {"intent_logged", "dispatched"}
                THEN pending \ {e} ELSE pending
  /\ UNCHANGED intents

(* A reset of the run forgets which executions are pending, and keeps      *)
(* their records.                                                          *)
ForgetPending ==
  /\ pending' = {}
  /\ UNCHANGED <<records, intents>>

JournalNext ==
  \/ ForgetPending
  \/ \E e \in Exec :
       \/ RecordToolIntent(e)
       \/ RecordToolDispatch(e)
       \/ \E s \in Parked : RecordToolResult(e, s, FALSE)
       \/ \E s \in Terminal : RecordToolResult(e, s, TRUE)

JournalSpec == JournalInit /\ [][JournalNext]_journalVars

-----------------------------------------------------------------------------
(* Properties                                                              *)

(* The operator's audit: a pending execution has a durable record and the  *)
(* record is not terminal, and every logged intent has a record.  Callers  *)
(* that park an ambiguous write keep it pending, callers that settle it    *)
(* clear it; nothing may leave the two out of step.                        *)
AuditClean ==
  /\ \A e \in pending : records[e] \in Unsettled
  /\ \A e \in intents : records[e] # NoRecord

(* Completed executions are never reopened: once a result is reusable it   *)
(* stays reusable, so replay always finds it.                              *)
CommittedStays ==
  [][\A e \in Exec : records[e] \in Committed => records'[e] \in Committed]_records
=============================================================================
