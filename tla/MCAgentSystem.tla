--------------------------- MODULE MCAgentSystem ---------------------------
(***************************************************************************)
(* Instances of AgentSystem for TLC: executions w1, w2 (writes) and r (a   *)
(* read), threads t1 and t2.                                               *)
(***************************************************************************)
EXTENDS AgentSystem

(* Every write stores a value of its own, so the value under the key tells *)
(* the writes apart.                                                       *)
DistinctValues == [e \in Writes |-> e]
=============================================================================
