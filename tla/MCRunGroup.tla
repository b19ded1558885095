---- MODULE MCRunGroup ----
(* Instances of RunGroup for TLC. *)
EXTENDS RunGroup, TLC
====
