---------------------------- MODULE PlannerState ----------------------------
(***************************************************************************)
(* The plan of one run and what PlannerStateService does to it.  A plan is *)
(* a value: the version, the status of each item and the active item; the  *)
(* cursor is the sequence index of the active item, as the code assigns    *)
(* the two together.                                                       *)
(***************************************************************************)
EXTENDS Integers, Sequences, FiniteSets, ExecutionStatus

CONSTANTS
  Steps,           \* plan items in the order of their sequence index
  SequenceIndex,   \* [items -> Nat]
  DependsOn,       \* [items -> sets of ids], which need not be those of items
  InitialStatus,   \* [items -> statuses] that create_plan is given; pending by default
  NoItem           \* active_item_id is None

Items == {Steps[k] : k \in DOMAIN Steps}

ItemStatuses == {"pending", "in_progress", "blocked", "done", "failed"}

ASSUME PlanAssumption ==
  /\ Steps \in Seq(Items) /\ Steps # << >>
  /\ Cardinality(Items) = Len(Steps)
  /\ NoItem \notin Items
  /\ SequenceIndex \in [Items -> Nat]
  /\ \A j, k \in DOMAIN Steps : j < k => SequenceIndex[Steps[j]] <= SequenceIndex[Steps[k]]
  /\ DOMAIN DependsOn = Items
  /\ InitialStatus \in [Items -> ItemStatuses]

NoCursor == -1

Plans == [version : Nat \ {0}, status : [Items -> ItemStatuses], active : Items \union {NoItem}]

ItemAllowedNext ==
  [ pending     |-> {"in_progress", "blocked", "done", "failed"},
    in_progress |-> {"blocked", "done", "failed", "pending"},
    blocked     |-> {"pending", "in_progress", "failed"},
    done        |-> {},
    failed      |-> {"pending", "in_progress"} ]

-----------------------------------------------------------------------------

Cursor(plan) == IF plan.active = NoItem THEN NoCursor ELSE SequenceIndex[plan.active]

(* What save checks; a plan that fails it is not stored.                   *)
Integral(plan) == Cursor(plan) < Len(Steps)

(* The first pending item whose dependencies are done; one that is not an  *)
(* item never is.                                                          *)
NextRunnable(status) ==
  LET finished == {i \in Items : status[i] = "done"}
      ready == {k \in DOMAIN Steps : /\ status[Steps[k]] = "pending"
                                     /\ DependsOn[Steps[k]] \subseteq finished}
  IN  IF ready = {} THEN NoItem ELSE Steps[CHOOSE k \in ready : \A j \in ready : k <= j]

NewPlan == [version |-> 1, status |-> InitialStatus, active |-> NextRunnable(InitialStatus)]

Bumped(plan) == [plan EXCEPT !.version = @ + 1]

WithActive(plan, i) == Bumped([plan EXCEPT !.active = i])

MayTurn(plan, i, s) == s = plan.status[i] \/ s \in ItemAllowedNext[plan.status[i]]

(* Finishing the active item moves on to the next runnable one, if any.    *)
WithStatus(plan, i, s) ==
  LET status == [plan.status EXCEPT ![i] = s]
      next   == IF s = "done" /\ plan.active = i THEN NextRunnable(status) ELSE NoItem
  IN  Bumped([plan EXCEPT !.status = status,
                          !.active = IF next = NoItem THEN @ ELSE next])
=============================================================================
