---- MODULE MCScoringQueue ----
(* Instances of ScoringQueue for TLC. *)
EXTENDS ScoringQueue, TLC

CONSTANTS a1, a2, r1

OneAttempt == {a1}
TwoAttempts == {a1, a2}
OneRequest == {r1}
NoRequests == {}

Completed == {"completed"}
AllVerdicts == {"completed", "timeout", "chat_failed"}

AgentFailed == {"cli_error"}

NoFaults == {}
OtherFault == {"other"}
CaughtFaults == {"mismatch", "evals", "other"}

Symmetry == Permutations(Attempts) \union Permutations(Requests)
====
