-------------------------- MODULE MCLoggingService --------------------------
(***************************************************************************)
(* Instances of LoggingService for TLC: a plan of two items, the second    *)
(* depending on the first, with the contiguous sequence indices that       *)
(* create_plan assigns by default.                                         *)
(***************************************************************************)
EXTENDS LoggingService, TLC

TwoSteps == <<"book", "confirm">>

Contiguous == [i \in {"book", "confirm"} |-> IF i = "book" THEN 0 ELSE 1]

InOrder == [i \in {"book", "confirm"} |-> IF i = "book" THEN {} ELSE {"book"}]

AllPending == [i \in {"book", "confirm"} |-> "pending"]

(* The executions are interchangeable: no safety property tells them apart. *)
ExecSymmetry == Permutations(Exec)
=============================================================================
