---------------------------- MODULE Environment ----------------------------
(***************************************************************************)
(* What happens to a run from outside and what its history remembers: the  *)
(* waiting windows that pass, the faults that are injected, the verdicts   *)
(* that have found an execution absent.                                    *)
(***************************************************************************)
EXTENDS Naturals, ExecutionStatus

CONSTANT MaxFaults  \* bound: ambiguous calls, failed lookups, mirror failures

ASSUME MaxFaultsAssumption == MaxFaults \in Nat

VARIABLES elapsed,     \* executions whose record's waiting window has passed
          faults,      \* faults injected so far
          unproven,    \* history: sent, and not found absent since
          resent,      \* history: sent again while unproven
          foundAbsent  \* history: found absent by a verdict

historyVars == <<unproven, resent, foundAbsent>>

environmentVars == <<elapsed, faults, historyVars>>

EnvironmentTypeOK ==
  /\ elapsed \subseteq Exec
  /\ faults \in 0 .. MaxFaults
  /\ unproven \subseteq Exec
  /\ resent \subseteq Exec
  /\ foundAbsent \subseteq Exec

EnvironmentInit ==
  /\ elapsed = {}
  /\ faults = 0
  /\ unproven = {}
  /\ resent = {}
  /\ foundAbsent = {}

Fault == faults < MaxFaults /\ faults' = faults + 1

(* Every journal operation that commits restamps the record's updated_at.  *)
RestartWindow(e) == elapsed' = elapsed \ {e}

NoteSend(e) ==
  /\ unproven' = unproven \union {e}
  /\ resent' = IF e \in unproven THEN resent \union {e} ELSE resent
  /\ UNCHANGED foundAbsent

NoteAbsence(e) ==
  /\ unproven' = unproven \ {e}
  /\ foundAbsent' = foundAbsent \union {e}
  /\ UNCHANGED resent
=============================================================================
