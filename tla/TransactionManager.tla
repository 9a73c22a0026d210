------------------------- MODULE TransactionManager -------------------------
(***************************************************************************)
(* TransactionManager.execute_tool: each call is a thread that walks       *)
(* through the steps between which another thread, the target or a crash   *)
(* can intervene.  A step that commits to the journal may be followed by   *)
(* a failure of the soft mirror, whose exception ends the call.            *)
(***************************************************************************)
EXTENDS ExecutionJournal, ToolTarget, Environment, FiniteSets

CONSTANTS
  Workers,          \* threads of the agent process that execute tools
  DispatchReads     \* TransactionManager(dispatch_reads=...)

ASSUME WorkersAssumption == IsFiniteSet(Workers) /\ DispatchReads \in BOOLEAN

VARIABLES pc,       \* where each thread is in execute_tool
          task,     \* the execution it is about
          replay,   \* threads with is_verified_replay set
          reply,    \* how its last call ended
          wire      \* its request: none, out, applied at the target or rejected by it

callVars == <<pc, task, replay, reply, wire>>

Steps == {"idle", "lookup", "intent", "reread", "dispatch", "invoke", "waiting",
          "ambiguous", "errored", "answered"}

Replies == {"none", "succeeded", "reused", "failed", "pending_recovery",
            "raised", "aborted"}

CallTypeOK ==
  /\ pc \in [Workers -> Steps]
  /\ task \in [Workers -> Exec]
  /\ replay \subseteq Workers
  /\ reply \in [Workers -> Replies]
  /\ wire \in [Workers -> {"none", "out", "applied", "rejected"}]

CallInit ==
  /\ pc = [w \in Workers |-> "idle"]
  /\ task \in [Workers -> Exec]
  /\ replay = {}
  /\ reply = [w \in Workers |-> "none"]
  /\ wire = [w \in Workers |-> "none"]

-----------------------------------------------------------------------------
(* Control                                                                 *)

Goto(w, step) ==
  /\ pc' = [pc EXCEPT ![w] = step]
  /\ UNCHANGED <<task, replay, reply, wire>>

Return(w, answer) ==
  /\ pc' = [pc EXCEPT ![w] = "idle"]
  /\ reply' = [reply EXCEPT ![w] = answer]
  /\ wire' = [wire EXCEPT ![w] = "none"]
  /\ replay' = replay \ {w}
  /\ UNCHANGED task

(* After the commit the soft mirror is rewritten; the exception of a       *)
(* failed mirror reaches the caller of the journal operation.              *)
MirrorFails(w) == Fault /\ Return(w, "aborted")

(* An answer that hands the record's status on to the caller.              *)
AnswerWithStatus(status) == status

Answer(status) ==
  CASE status \in Committed -> "reused"
    [] status = "failed"    -> "failed"
    [] status \in Unsettled -> "pending_recovery"

WritesDispatchMarker(e) == e \in Writes \/ DispatchReads

-----------------------------------------------------------------------------
(* Steps of a call                                                         *)

Call(w, e) ==
  /\ pc[w] = "idle"
  /\ pc' = [pc EXCEPT ![w] = "lookup"]
  /\ task' = [task EXCEPT ![w] = e]
  /\ reply' = [reply EXCEPT ![w] = "none"]
  /\ UNCHANGED <<replay, wire, journalVars, targetVars, late, environmentVars>>

(* A lookup that takes every unsettled record for one it may send again.   *)
LookupRetrying(w) ==
  /\ pc[w] = "lookup"
  /\ CASE records[task[w]] = NoRecord -> Goto(w, "intent")
       [] records[task[w]] \in {"dispatched", "verified_not_found"} ->
            /\ pc' = [pc EXCEPT ![w] = "invoke"]
            /\ replay' = replay \union {w}
            /\ UNCHANGED <<task, reply, wire>>
       [] OTHER -> Return(w, Answer(records[task[w]]))
  /\ UNCHANGED <<journalVars, targetVars, late, environmentVars>>

Lookup(w) ==
  /\ pc[w] = "lookup"
  /\ CASE records[task[w]] = NoRecord -> Goto(w, "intent")
       [] records[task[w]] = "verified_not_found" ->
            /\ pc' = [pc EXCEPT ![w] = "invoke"]
            /\ replay' = replay \union {w}
            /\ UNCHANGED <<task, reply, wire>>
       [] OTHER -> Return(w, Answer(records[task[w]]))
  /\ UNCHANGED <<journalVars, targetVars, late, environmentVars>>

LogIntent(w) ==
  /\ pc[w] = "intent"
  /\ RecordToolIntent(task[w])
  /\ \/ Goto(w, "reread") /\ UNCHANGED faults
     \/ MirrorFails(w)
  /\ UNCHANGED <<targetVars, late, elapsed, historyVars>>

Reread(w) ==
  /\ pc[w] = "reread"
  /\ CASE records[task[w]] = NoRecord -> Return(w, "raised")
       [] records[task[w]] = "intent_logged" ->
            Goto(w, IF WritesDispatchMarker(task[w]) THEN "dispatch" ELSE "invoke")
       [] OTHER -> Return(w, Answer(records[task[w]]))
  /\ UNCHANGED <<journalVars, targetVars, late, environmentVars>>

(* The call goes on although the dispatch marker was not logged.           *)
DispatchUnlogged(w) ==
  /\ pc[w] = "dispatch"
  /\ Goto(w, "invoke")
  /\ UNCHANGED <<journalVars, elapsed, faults, targetVars, late, historyVars>>

Dispatch(w) ==
  /\ pc[w] = "dispatch"
  /\ \/ /\ RecordToolDispatch(task[w])
        /\ RestartWindow(task[w])
        /\ \/ Goto(w, "invoke") /\ UNCHANGED faults
           \/ MirrorFails(w)
     \/ /\ ~CanDispatch(task[w])
        /\ Return(w, "raised")
        /\ UNCHANGED <<journalVars, elapsed, faults>>
  /\ UNCHANGED <<targetVars, late, historyVars>>

Invoke(w) ==
  /\ pc[w] = "invoke"
  /\ pc' = [pc EXCEPT ![w] = "waiting"]
  /\ wire' = [wire EXCEPT ![w] = "out"]
  /\ NoteSend(task[w])
  /\ UNCHANGED <<task, replay, reply, journalVars, targetVars, late, elapsed, faults>>

-----------------------------------------------------------------------------
(* The call at the target and what the adapter makes of it                 *)

Arrives(w) ==
  /\ pc[w] = "waiting" /\ wire[w] = "out"
  /\ wire' = [wire EXCEPT ![w] = "applied"]
  /\ Apply(task[w])
  /\ UNCHANGED <<pc, task, replay, reply, journalVars, late, environmentVars>>

Rejected(w) ==
  /\ pc[w] = "waiting" /\ wire[w] = "out"
  /\ wire' = [wire EXCEPT ![w] = "rejected"]
  /\ UNCHANGED <<pc, task, replay, reply, journalVars, targetVars, late, environmentVars>>

AdapterReturns(w) ==
  /\ pc[w] = "waiting" /\ wire[w] = "applied"
  /\ Goto(w, "answered")
  /\ UNCHANGED <<journalVars, targetVars, late, environmentVars>>

(* The caller stops waiting for a request that is still under way.         *)
Abandon(w) == wire[w] = "out" /\ late' = [late EXCEPT ![task[w]] = @ + 1]

(* Any other exception, or output that is not a dictionary, whatever has   *)
(* become of the request by then: refused, lost, still under way, or       *)
(* applied by the target.                                                  *)
AdapterErrs(w) ==
  /\ pc[w] = "waiting" /\ wire[w] \in {"out", "applied", "rejected"}
  /\ Goto(w, "errored")
  /\ UNCHANGED late \/ Abandon(w)
  /\ UNCHANGED <<journalVars, targetVars, environmentVars>>

(* AmbiguousToolError: the request or the response is lost, or the caller  *)
(* stops waiting for a request that is still under way.                    *)
AdapterAmbiguous(w) ==
  /\ pc[w] = "waiting" /\ wire[w] \in {"out", "applied"}
  /\ Fault
  /\ Goto(w, "ambiguous")
  /\ UNCHANGED late \/ Abandon(w)
  /\ UNCHANGED <<journalVars, targetVars, elapsed, historyVars>>

-----------------------------------------------------------------------------
(* Recording the outcome                                                   *)

Settle(w, status, clear, answer) ==
  /\ \/ /\ RecordToolResult(task[w], status, clear)
        /\ RestartWindow(task[w])
        /\ \/ Return(w, answer) /\ UNCHANGED faults
           \/ MirrorFails(w)
     \/ /\ ~CanRecord(task[w], status)
        /\ Return(w, "raised")
        /\ UNCHANGED <<journalVars, elapsed, faults>>
  /\ UNCHANGED <<targetVars, late, historyVars>>

(* The answer is returned before the result is recorded.                   *)
RecordAckedUnlogged(w) ==
  /\ pc[w] = "answered"
  /\ Return(w, "succeeded")
  /\ UNCHANGED <<journalVars, targetVars, late, environmentVars>>

RecordAcked(w) == pc[w] = "answered" /\ Settle(w, "acked", TRUE, "succeeded")

RecordFailed(w) == pc[w] = "errored" /\ Settle(w, "failed", TRUE, "failed")

(* An ambiguous write parked as if it were settled.                        *)
RecordAmbiguousClearing(w) ==
  /\ pc[w] = "ambiguous"
  /\ Settle(w, IF w \in replay THEN "verified_not_found" ELSE "dispatched", TRUE,
            "pending_recovery")

(* A repeated ambiguity of a replay is recorded like the first one.        *)
RecordAmbiguousRedispatching(w) ==
  /\ pc[w] = "ambiguous"
  /\ Settle(w, "dispatched", FALSE, "pending_recovery")

RecordAmbiguous(w) ==
  /\ pc[w] = "ambiguous"
  /\ \/ /\ task[w] \in Writes
        /\ Settle(w, IF w \in replay THEN "verified_not_found" ELSE "dispatched", FALSE,
                  "pending_recovery")
     \/ /\ task[w] \notin Writes
        /\ Settle(w, "failed", TRUE, "failed")

WorkerStep(w) ==
  \/ Lookup(w) \/ LogIntent(w) \/ Reread(w) \/ Dispatch(w) \/ Invoke(w)
  \/ Arrives(w) \/ Rejected(w) \/ AdapterReturns(w) \/ AdapterErrs(w) \/ AdapterAmbiguous(w)
  \/ RecordAcked(w) \/ RecordFailed(w) \/ RecordAmbiguous(w)
=============================================================================
