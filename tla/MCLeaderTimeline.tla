---- MODULE MCLeaderTimeline ----
(* Instances of LeaderTimeline for TLC. *)
EXTENDS LeaderTimeline, TLC

Calls == Permutations(Consumers) \union Permutations(Prints)
====
