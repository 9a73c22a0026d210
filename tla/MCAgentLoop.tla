---------------------------- MODULE MCAgentLoop ----------------------------
(***************************************************************************)
(* Instances of AgentLoop and of the experiment around it for TLC: a plan  *)
(* of two writes, w1 before w2.                                            *)
(***************************************************************************)
EXTENDS CrashMatrix

CONSTANTS w1, w2

InPlanOrder == <<w1, w2>>

(* Every write stores a value of its own.                                  *)
DistinctValues == [e \in Writes |-> e]
=============================================================================
