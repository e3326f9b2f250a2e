---------------------------- MODULE MCHealthCheck ---------------------------
(* Instances of HealthCheck for TLC, with 5 s as the unit of time: the     *)
(* checker ticks every 2, a node is stale after 6, an agent beats every 3, *)
(* and a probe (3 s) or a beat takes at most 1.                            *)
EXTENDS HealthCheck, TLC

CONSTANTS n1, n2

OneNode  == {n1}
TwoNodes == {n1, n2}
=============================================================================
