---- MODULE MCCostKeys ----
(* Instances of CostKeys for TLC. *)
EXTENDS CostKeys, TLC
====
