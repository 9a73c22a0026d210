---------------------------- MODULE MCRunReaders ----------------------------
(***************************************************************************)
(* Instances of RunReaders for TLC: a plan of one item, created as failed  *)
(* and depending on an item that the plan does not have, so that no item   *)
(* is active at the start and none becomes active by itself.               *)
(***************************************************************************)
EXTENDS RunReaders

OneStep == <<"book">>

AtZero == [i \in {"book"} |-> 0]

OnAnotherPlan == [i \in {"book"} |-> {"search"}]

TriedBefore == [i \in {"book"} |-> "failed"]
=============================================================================
