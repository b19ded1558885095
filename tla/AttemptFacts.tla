---- MODULE AttemptFacts ----
(***************************************************************************)
(* An attempt row carries three status axes - the legacy `status`, the     *)
(* `execution_status` and the `scoring_status` - and the displayed         *)
(* `score_total`.  Stop, the deadline sweeper, the dispatch task, the      *)
(* scoring worker and the startup recovery all write the same row.  This   *)
(* module holds the pure part of those writes: which values are open, what *)
(* each writer stores, and how the status of a run is projected.           *)
(*                                                                         *)
(* A score is a token, the number of the scoring job that produced it (0   *)
(* when no job did); NoScore is SQL NULL.                                  *)
(***************************************************************************)
EXTENDS Integers

NoScore == -1

\* attempts.status values that are told apart here.  "cli_error" stands for
\* every terminal status of an attempt that cannot be scored, "running" also
\* for "starting_blade_session".
LegacyStatus == {"queued", "running", "scoring", "completed", "gave_up",
                 "timeout", "chat_failed", "cli_error", "interrupted",
                 "scoring_failed", "cancelled"}

\* "scoring_failed" is no execution verdict of its own: it is what the
\* sweeper's call of converge_attempts would store (see ScoringOverdue).
ExecutionStatusValue == {"queued", "running", "completed", "timeout",
                         "failed", "cancelled", "scoring_failed"}

ScoringStatusValue == {"not_ready", "queued", "running", "completed",
                       "failed", "timed_out", "scoring_failed",
                       "cancelled", "skipped"}

\* The open part of each axis.
OpenLegacy == {"queued", "running", "scoring"}
OpenExecution == {"queued", "running"}
OpenScoring == {"not_ready", "queued", "running"}

\* The open axes of a row, as a SELECT finds them.
Axes == {"status", "exec", "scoring"}
OpenAxes(row) ==
  {x \in Axes : \/ x = "status" /\ row.status \in OpenLegacy
                \/ x = "exec" /\ row.exec \in OpenExecution
                \/ x = "scoring" /\ row.scoring \in OpenScoring}
IsOpen(row) == OpenAxes(row) # {}

\* The UPDATEs of converge_attempts: each axis that its SELECT found `open`
\* takes its terminal value, whatever it holds by now (WHERE id=? is their only
\* condition); the other axes and the score are left alone.
WrongConverged(row, open, to) ==
  IF open = {} THEN row
  ELSE [status |-> to.status, exec |-> to.exec, scoring |-> to.scoring,
        score |-> row.score]
Converged(row, open, to) ==
  [status  |-> IF "status" \in open THEN to.status ELSE row.status,
   exec    |-> IF "exec" \in open THEN to.exec ELSE row.exec,
   scoring |-> IF "scoring" \in open THEN to.scoring ELSE row.scoring,
   score   |-> row.score]

\* What the callers of converge_attempts ask for.
UserStopped == [status |-> "cancelled", exec |-> "cancelled",
                scoring |-> "cancelled"]
\* execution_status=None makes the execution axis fall back to `status`.
ScoringOverdue == [status |-> "scoring_failed", exec |-> "scoring_failed",
                   scoring |-> "timed_out"]

\* _execution_status: the execution verdict of an adapter result.
WrongAdapterVerdict(adapterStatus) ==
  IF adapterStatus = "completed" THEN "completed" ELSE "failed"
AdapterVerdict(adapterStatus) ==
  IF adapterStatus \in {"completed", "timeout"} THEN adapterStatus ELSE "failed"

\* _execution_projection: the legacy status of an attempt whose scoring failed
\* is the verdict of its execution.
ExecutionProjection(exec) ==
  CASE exec = "completed" -> "completed"
    [] exec = "timeout"   -> "timeout"
    [] exec = "failed"    -> "chat_failed"
    [] OTHER              -> "scoring_failed"

\* _finalize_no_score: an execution that ends without a judge's score.  The
\* row is overwritten whatever it held.
FinalizedNoScore(status) ==
  [status  |-> status,
   exec    |-> CASE status = "timeout"        -> "timeout"
                 [] status = "scoring_failed" -> "completed"
                 [] OTHER                     -> "failed",
   scoring |-> IF status = "scoring_failed" THEN "failed" ELSE "skipped",
   score   |-> NoScore]

\* The ends without a score that are told apart: the agent failed, it ran out
\* of time with nothing to judge, its environment or scorer is not available.
EndWithoutScore == {"cli_error", "timeout", "scoring_failed"}

\* enqueue_scoring_job: the attempt row once the execution verdict and the
\* scoring job are stored.  The row is overwritten whatever it held.
EnqueuedRow(adapterStatus) ==
  [status |-> "scoring", exec |-> AdapterVerdict(adapterStatus),
   scoring |-> "queued", score |-> NoScore]

RunStatusValue == {"running", "scoring", "completed", "cancelled", "failed"}

\* The statuses of an attempt whose score stands.
Scored == {"completed", "gave_up"}

\* _refresh_run_status: runs.status from the rows of the run's attempts.
RunProjection(rows) ==
  LET A == DOMAIN rows IN
  IF \E a \in A : rows[a].exec \in OpenExecution THEN "running"
  ELSE IF \E a \in A : rows[a].scoring \in {"queued", "running"} THEN "scoring"
  ELSE IF \A a \in A : rows[a].status \in Scored THEN "completed"
  ELSE IF \A a \in A : rows[a].status \in Scored \union {"cancelled"}
       THEN "cancelled"
  ELSE "failed"
====
