-------------------------- MODULE ExecutionStatus --------------------------
(***************************************************************************)
(* The life of one tool execution as the durable record describes it: the  *)
(* statuses, the moves the logging facade accepts and the classes into     *)
(* which its readers sort the statuses.                                    *)
(***************************************************************************)
CONSTANT Exec          \* execution ids of the run

Statuses == {"intent_logged", "dispatched", "acked",
             "verified_committed", "verified_not_found", "failed"}

(* get_external_result returned None.                                      *)
NoRecord == "none"

(* A table that lets a committed record reopen.                            *)
AllowedNextReopening ==
  [ intent_logged      |-> Statuses \ {"intent_logged"},
    dispatched         |-> Statuses \ {"intent_logged", "dispatched"},
    acked              |-> {"verified_committed", "failed"},
    verified_committed |-> {},
    verified_not_found |-> {"acked", "failed"},
    failed             |-> {"dispatched", "verified_committed", "verified_not_found"} ]

AllowedNext ==
  [ intent_logged      |-> Statuses \ {"intent_logged"},
    dispatched         |-> Statuses \ {"intent_logged", "dispatched"},
    acked              |-> {"verified_committed"},
    verified_committed |-> {},
    verified_not_found |-> {"acked", "failed"},
    failed             |-> {"dispatched", "verified_committed", "verified_not_found"} ]

(* Recording the status a record already has is always accepted.           *)
MayMove(s, t) == s = t \/ t \in AllowedNext[s]

Committed == {"acked", "verified_committed"}

(* What execute_tool answers with PENDING_RECOVERY.                        *)
Unsettled == {"intent_logged", "dispatched", "verified_not_found"}

(* What the operator's audit calls terminal.                               *)
Terminal == {"acked", "verified_committed", "failed"}

(* What an execution may be left at while its outcome is open: recorded    *)
(* with clear_pending=False, where terminal results are recorded with True. *)
Parked == {"dispatched", "verified_not_found"}
=============================================================================
