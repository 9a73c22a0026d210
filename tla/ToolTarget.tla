----------------------------- MODULE ToolTarget -----------------------------
(***************************************************************************)
(* The system the tools act on, as the mock target implements it, and the  *)
(* network between it and the adapter.  Write executions change one domain *)
(* key; the target logs the ones that carry their execution id, and in     *)
(* idempotent mode applies each id once.  A request whose caller has given *)
(* up may still arrive.                                                    *)
(***************************************************************************)
EXTENDS Naturals, ExecutionStatus

CONSTANTS
  Writes,          \* those whose operation type is WRITE; the others read
  Keyed,           \* writes whose execution id reaches the target
  TargetDedupes,   \* IdempotencyMode.IDEMPOTENT
  Value,           \* [Writes -> values]: what each write stores under the key
  NoValue          \* the key holds nothing yet

ASSUME WritesAssumption ==
  /\ Keyed \subseteq Writes
  /\ Writes \subseteq Exec
  /\ TargetDedupes \in BOOLEAN
  /\ DOMAIN Value = Writes
  /\ \A e \in Writes : Value[e] # NoValue

VARIABLES commits,    \* how often each execution took effect at the target
          actionLog,  \* execution ids the target can look up
          domain,     \* value stored under the key
          late        \* requests still travelling after their caller gave up

targetVars == <<commits, actionLog, domain>>

TargetTypeOK ==
  /\ commits \in [Exec -> Nat]
  /\ actionLog \subseteq Keyed
  /\ domain \in {NoValue} \union {Value[e] : e \in Writes}
  /\ late \in [Exec -> Nat]

TargetInit ==
  /\ commits = [e \in Exec |-> 0]
  /\ actionLog = {}
  /\ domain = NoValue
  /\ late = [e \in Exec |-> 0]

(* The idempotency key never reaches the target.                           *)
DuplicateUnkeyed(e) == FALSE

Duplicate(e) == TargetDedupes /\ e \in actionLog

(* One request reaches the target.                                         *)
Apply(e) ==
  \/ /\ e \notin Writes \/ Duplicate(e)
     /\ UNCHANGED targetVars
  \/ /\ e \in Writes /\ ~Duplicate(e)
     /\ commits' = [commits EXCEPT ![e] = @ + 1]
     /\ actionLog' = IF e \in Keyed THEN actionLog \union {e} ELSE actionLog
     /\ domain' = Value[e]

LateArrives(e) ==
  /\ late[e] > 0
  /\ late' = [late EXCEPT ![e] = @ - 1]
  /\ Apply(e)

LateVanishes(e) ==
  /\ late[e] > 0
  /\ late' = [late EXCEPT ![e] = @ - 1]
  /\ UNCHANGED targetVars

(* A probe that trusts only the stored value.                              *)
FoundByStateOnly(e) == domain = Value[e]

(* What verify_write finds when it can query the target: the execution id  *)
(* in the target's log, or the value the write was to store.               *)
Found(e) == e \in actionLog \/ domain = Value[e]
=============================================================================
