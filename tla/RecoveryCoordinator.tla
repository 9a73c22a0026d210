------------------------ MODULE RecoveryCoordinator ------------------------
(***************************************************************************)
(* RecoveryCoordinator.recover_run: one pass takes a snapshot of the run's *)
(* records and of its pending executions, decides each execution from the  *)
(* snapshot, probes the target for writes whose waiting window has passed, *)
(* records the verdicts and copies committed results into the context.     *)
(***************************************************************************)
EXTENDS ExecutionJournal, ToolTarget, Environment

CONSTANT HasVerifier \* RecoveryCoordinator(verifier=...) was given

ASSUME VerifierAssumption == HasVerifier \in BOOLEAN

VARIABLES step,     \* where the pass is
          snapshot, \* records as list_external_results returned them
          overdue,  \* executions whose window had passed when the pass began
          todo,     \* candidates not yet decided
          current,  \* the candidate being verified or reconciled
          verdict,  \* what the verifier answered for it
          decision, \* the decisions of the last pass
          outcome,  \* the exception that ended the last pass: a ValueError or another
          toolMsgs  \* tool messages of the context, per execution

passVars == <<step, snapshot, overdue, todo, current, verdict, decision, outcome>>

Actions == {"replay", "resume_waiting", "mark_committed", "handoff"}

PassTypeOK ==
  /\ step \in {"idle", "list", "scan", "verdict", "reconcile", "append"}
  /\ snapshot \in [Exec -> Statuses \union {NoRecord}]
  /\ overdue \subseteq Exec
  /\ todo \subseteq Exec
  /\ current \in Exec
  /\ verdict \in {"committed", "absent", "unknown"}
  /\ decision \in [Exec -> Actions \union {"none"}]
  /\ outcome \in {"none", "raised", "aborted"}
  /\ toolMsgs \in [Exec -> Nat]

NoDecisions == [e \in Exec |-> "none"]

PassInit ==
  /\ step = "idle"
  /\ snapshot = [e \in Exec |-> NoRecord]
  /\ overdue = {}
  /\ todo = {}
  /\ current \in Exec
  /\ verdict = "unknown"
  /\ decision = NoDecisions
  /\ outcome = "none"
  /\ toolMsgs = [e \in Exec |-> 0]

-----------------------------------------------------------------------------
(* RuntimeRecoveryStrategy.decide                                          *)

Decide(status, windowOpen) ==
  CASE status \in {"intent_logged", "verified_not_found"} -> "replay"
    [] status = "dispatched" -> IF windowOpen THEN "resume_waiting" ELSE "handoff"
    [] status \in Committed  -> "mark_committed"
    [] status = "failed"     -> "handoff"

(* A handoff of an ambiguous write is put to the verifier instead.         *)
Verifiable(e) ==
  /\ HasVerifier /\ e \in Writes
  /\ snapshot[e] = "dispatched" /\ e \in overdue

-----------------------------------------------------------------------------
(* Steps of a pass                                                         *)

(* recover_run reads the clock or is given a time, then it reads the       *)
(* records ...                                                             *)
BeginPassWith(timedOut) ==
  /\ step = "idle"
  /\ step' = "list"
  /\ overdue' = timedOut
  /\ snapshot' = records
  /\ decision' = NoDecisions
  /\ outcome' = "none"
  /\ UNCHANGED <<todo, current, verdict, toolMsgs, journalVars, targetVars, late, environmentVars>>

BeginPass == BeginPassWith(elapsed)

(* ... and, in a second read, the pending executions.                      *)
ListPending ==
  /\ step = "list"
  /\ step' = "scan"
  /\ todo' = {e \in Exec : snapshot[e] # NoRecord} \union pending
  /\ UNCHANGED <<snapshot, overdue, current, verdict, decision, outcome, toolMsgs, journalVars,
                 targetVars, late, environmentVars>>

Decided(e, action) ==
  /\ decision' = [decision EXCEPT ![e] = action]
  /\ todo' = todo \ {e}

(* A pending execution without a record is handed off.                     *)
DecideOne(e) ==
  /\ step = "scan" /\ e \in todo
  /\ ~Verifiable(e)
  /\ LET action == IF snapshot[e] = NoRecord THEN "handoff"
                   ELSE Decide(snapshot[e], e \notin overdue)
     IN  IF action = "mark_committed"
         THEN /\ step' = "reconcile"
              /\ current' = e
              /\ UNCHANGED <<todo, decision>>
         ELSE /\ Decided(e, action)
              /\ UNCHANGED <<step, current>>
  /\ UNCHANGED <<snapshot, overdue, verdict, outcome, toolMsgs, journalVars, targetVars, late,
                 environmentVars>>

(* verify_write; the lookup itself may fail.                               *)
Probe(e) ==
  /\ step = "scan" /\ e \in todo
  /\ Verifiable(e)
  /\ step' = "verdict"
  /\ current' = e
  /\ \/ /\ verdict' = IF Found(e) THEN "committed" ELSE "absent"
        /\ UNCHANGED faults
     \/ /\ verdict' = "unknown"
        /\ Fault
  /\ UNCHANGED <<snapshot, overdue, todo, decision, outcome, toolMsgs, journalVars, targetVars,
                 late, elapsed, historyVars>>

(* An exception of a journal operation ends the pass without decisions.    *)
EndPass(exception) ==
  /\ step' = "idle"
  /\ todo' = {}
  /\ decision' = NoDecisions
  /\ outcome' = exception
  /\ UNCHANGED current

MirrorFailsInPass ==
  /\ Fault
  /\ EndPass("aborted")

RecordFound ==
  /\ RecordToolResult(current, "verified_committed", TRUE)
  /\ RestartWindow(current)
  /\ \/ /\ step' = "reconcile"
        /\ UNCHANGED <<todo, decision, outcome, current, faults>>
     \/ MirrorFailsInPass
  /\ UNCHANGED historyVars

RecordAbsent ==
  /\ RecordToolResult(current, "verified_not_found", FALSE)
  /\ RestartWindow(current)
  /\ NoteAbsence(current)
  /\ \/ /\ Decided(current, "replay")
        /\ step' = "scan"
        /\ UNCHANGED <<outcome, current, faults>>
     \/ MirrorFailsInPass

(* Verdicts recorded the wrong way round.                                  *)
RecordVerdictSwapped ==
  /\ step = "verdict"
  /\ \/ verdict = "absent" /\ RecordFound
     \/ verdict = "committed" /\ RecordAbsent
  /\ UNCHANGED <<snapshot, overdue, verdict, toolMsgs, targetVars, late>>

RecordVerdict ==
  /\ step = "verdict"
  /\ \/ verdict = "committed" /\ RecordFound
     \/ verdict = "absent" /\ RecordAbsent
     \/ /\ verdict = "unknown"
        /\ Decided(current, "handoff")
        /\ step' = "scan"
        /\ UNCHANGED <<outcome, current, faults, journalVars, elapsed, historyVars>>
     \/ /\ \/ verdict = "committed" /\ ~CanRecord(current, "verified_committed")
           \/ verdict = "absent" /\ ~CanRecord(current, "verified_not_found")
        /\ EndPass("raised")
        /\ UNCHANGED <<faults, journalVars, elapsed, historyVars>>
  /\ UNCHANGED <<snapshot, overdue, verdict, toolMsgs, targetVars, late>>

(* _reconcile_tool_message reads the context ...                           *)
ReconcileBlindly ==
  /\ step = "reconcile"
  /\ step' = "append"
  /\ UNCHANGED <<todo, decision, snapshot, overdue, current, verdict, outcome, toolMsgs,
                 journalVars, targetVars, late, environmentVars>>

Reconcile ==
  /\ step = "reconcile"
  /\ IF toolMsgs[current] > 0
     THEN step' = "scan" /\ Decided(current, "mark_committed")
     ELSE step' = "append" /\ UNCHANGED <<todo, decision>>
  /\ UNCHANGED <<snapshot, overdue, current, verdict, outcome, toolMsgs, journalVars,
                 targetVars, late, environmentVars>>

(* ... and appends the message in a transaction of its own.                *)
AppendToolMessage ==
  /\ step = "append"
  /\ toolMsgs' = [toolMsgs EXCEPT ![current] = @ + 1]
  /\ \/ /\ Decided(current, "mark_committed")
        /\ step' = "scan"
        /\ UNCHANGED <<outcome, current, faults>>
     \/ MirrorFailsInPass
  /\ UNCHANGED <<snapshot, overdue, verdict, journalVars, targetVars, late, elapsed, historyVars>>

FinishPass ==
  /\ step = "scan" /\ todo = {}
  /\ step' = "idle"
  /\ UNCHANGED <<snapshot, overdue, todo, current, verdict, decision, outcome, toolMsgs,
                 journalVars, targetVars, late, environmentVars>>

PassStep ==
  \/ ListPending \/ RecordVerdict \/ Reconcile \/ AppendToolMessage \/ FinishPass
  \/ \E e \in Exec : DecideOne(e) \/ Probe(e)
=============================================================================
