---- MODULE MCSkillSession ----
(* Instances of SkillSession for TLC. *)
EXTENDS SkillSession, TLC

\* The tasks of the worker are alike.
SlotSymmetry == Permutations(Slots)
====
