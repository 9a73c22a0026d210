-------------------------- MODULE MCOpenRouterLoop --------------------------
(***************************************************************************)
(* Instances of OpenRouterLoop for TLC: the first item can be served by    *)
(* either of two calls, the second by one.                                 *)
(***************************************************************************)
EXTENDS OpenRouterLoop

CONSTANTS a1, a2, b1

PlanItems == [e \in Exec |-> IF e = b1 THEN 2 ELSE 1]

DistinctValues == [e \in Writes |-> e]
=============================================================================
