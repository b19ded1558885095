---- MODULE ScoringQueue ----
(***************************************************************************)
(* The durable scoring queue of one run: enqueue, claim, judge, commit,    *)
(* mark, notify; manual rejudge; user stop; the deadline sweeper; shutdown, *)
(* crash and startup recovery.                                             *)
(*                                                                         *)
(* The program is one asyncio process over SQLite.  A step below is what   *)
(* runs without a scheduling point: the code between two awaits of a       *)
(* coroutine, or one `with _open_sync` block of a worker thread.  A call   *)
(* of asyncio.to_thread is a pair of steps, its thread's transaction and   *)
(* the resumption of its coroutine; cancelling the coroutine does not stop *)
(* the thread, so `thread` outlives `worker`.  The variables of the first  *)
(* group are rows of the database and survive a crash, those of the second *)
(* are memory.                                                             *)
(*                                                                         *)
(* A definition named Wrong... is the one that follows it with a bug in it *)
(* the code could have; nothing here uses it.  The project checks that     *)
(* each property notices one.                                              *)
(***************************************************************************)
EXTENDS AttemptFacts, FiniteSets, Sequences

CONSTANTS
  Attempts,     \* the attempts of the run
  Capacity,     \* octagon.max_active_scoring_jobs
  Verdicts,     \* adapter statuses that are scored
  Ends,         \* ends of an execution that are not
  UseEvals,     \* settings.judge.backend = "evals"
  Faults,       \* what may go wrong besides a passed deadline
  Requests,     \* rejudge requests that can be in flight together
  MaxJobs,      \* bound: scoring jobs created per attempt
  MaxStops,     \* bound: stop requests
  MaxRestarts   \* bound: shutdowns and crashes

FaultKinds == {"environment", "mismatch", "evals", "other"}

ASSUME ScoringQueueAssumption ==
  /\ IsFiniteSet(Attempts)
  /\ Capacity \in Nat \ {0}
  /\ Verdicts \subseteq {"completed", "timeout", "chat_failed"}
  /\ Ends \subseteq EndWithoutScore
  /\ UseEvals \in BOOLEAN
  /\ Faults \subseteq FaultKinds
  /\ MaxJobs \in Nat \ {0}
  /\ MaxStops \in Nat
  /\ MaxRestarts \in Nat

VARIABLES
  \* the database
  attempt,    \* attempts: the three status axes and score_total
  job,        \* scoring_jobs: UNIQUE(attempt_id, scorer_version), so one row
              \* per attempt; n is its identity and is never reused
  outbox,     \* score_transition_outbox in seq order
  judged,     \* attempt_judge_runs: the last revision it holds
  consumed,   \* how many outbox rows have consumed_at set
  run,        \* runs.status
  \* memory
  worker,     \* where each task stands: number 0 executes the attempt, the
              \* others are the scoring:<job> tasks
  cancelled,  \* tasks whose cancel() has not been delivered yet
  thread,     \* to_thread calls whose transaction has not run yet
  request,    \* rejudge requests between two transactions
  stop, sweep,   \* the stop request and the sweeper between two transactions:
              \* the attempts listed, then the open axes read of each
  up,         \* the process: "up", "closing" (lifespan shutdown) or "down"
  \* time and bounds
  overdue,    \* attempts past scoring_deadline_at plus the grace period
  stops, restarts

database == <<attempt, job, outbox, judged, consumed, run>>
facts == <<attempt, job, run>>
scores == <<outbox, judged, consumed>>
control == <<request, stop, sweep, up>>
clock == <<overdue, stops, restarts>>
vars == <<facts, scores, worker, cancelled, thread, control, clock>>

Jobs == Attempts \X (1..MaxJobs)
Tasks == Attempts \X (0..MaxJobs)
Execution(a) == <<a, 0>>
Scores == 0..MaxJobs \union {NoScore}
JobStatus == {"absent", "queued", "running", "completed", "failed",
              "timed_out", "scoring_failed", "cancelled"}
InSlot == {"claiming", "claimed", "preparing", "judging", "checked", "failing",
           "committing", "committed", "recording", "recorded", "notifying",
           "notified"}
WorkerState == {"none", "dispatched", "resumed", "waiting"} \union InSlot
ThreadKind == {"claim", "fail", "commit", "record", "notify"}

AttemptRow == [status: LegacyStatus, exec: ExecutionStatusValue,
               scoring: ScoringStatusValue, score: Scores]
JobRow == [n: 0..MaxJobs, status: JobStatus, cancelRequested: BOOLEAN,
           prev: Scores]
OutboxRow == [attempt: Attempts, job: 0..MaxJobs, rev: Nat]
RequestRow == [id: Requests, attempt: Attempts, purged: BOOLEAN,
               exec: {"completed", "timeout", "failed"}, prev: Scores]

Row(a) == attempt[a]
NothingRead == [a \in Attempts |-> {}]
Idle == [phase |-> "idle", ids |-> {}, open |-> NothingRead]
IsRowOf(j) == job[j[1]].n = j[2] /\ job[j[1]].status # "absent"

-----------------------------------------------------------------------------
(* Reads and writes shared by several steps.                               *)

WrongJobCancelled(j) == ~IsRowOf(j) \/ job[j[1]].status = "cancelled"
\* _job_cancelled: also true when the row is gone.
JobCancelled(j) == \/ ~IsRowOf(j)
                   \/ job[j[1]].cancelRequested
                   \/ job[j[1]].status = "cancelled"

Revisions(a) == {outbox[i].rev : i \in {k \in DOMAIN outbox :
                                          outbox[k].attempt = a}}

WrongNextRevision(a) == judged[a] + 1
\* _next_score_revision: the first revision after the judge history that the
\* outbox does not hold.
NextRevision(a) ==
  LET base == judged[a] + 1
  IN  CHOOSE n \in base .. base + Len(outbox) :
        n \notin Revisions(a) /\ base .. n - 1 \subseteq Revisions(a)

\* _job_already_committed, also the test commit_scoring_result makes for a
\* job.  The wrong one asks for the revision the commit would write.
WrongCommitted(j) == NextRevision(j[1]) \in Revisions(j[1])
Committed(j) == /\ j[2] # 0
                /\ \E i \in DOMAIN outbox :
                     outbox[i].attempt = j[1] /\ outbox[i].job = j[2]

FailedWith(j, status, score) ==
  IF IsRowOf(j)
  THEN /\ job' = [job EXCEPT ![j[1]].status = status]
       /\ attempt' = [attempt EXCEPT ![j[1]] =
            [status  |-> IF status = "cancelled" THEN "cancelled"
                         ELSE ExecutionProjection(@.exec),
             exec    |-> @.exec,
             scoring |-> status,
             score   |-> score]]
  ELSE UNCHANGED <<attempt, job>>

\* _finish_failure.  A rejudge gives back the score it started from.
WrongFinishFailureNull(j, status) == FailedWith(j, status, NoScore)
WrongFinishFailureOwn(j, status) == FailedWith(j, status, j[2])
FinishFailure(j, status) == FailedWith(j, status, job[j[1]].prev)

\* _refresh_run_status at the end of a step that changed attempts.
Refresh == run' = RunProjection(attempt')

NewJob(a, prev) == [job EXCEPT ![a] =
  [n |-> @.n + 1, status |-> "queued", cancelRequested |-> FALSE, prev |-> prev]]

\* enqueue_scoring_job: the attempt row, a fresh job row and its task next to
\* the `tasks` there are.  The wrong one schedules none while an earlier job of
\* the attempt still has one.
WrongEnqueue(a, adapterStatus, prev, tasks) ==
  /\ job[a].n < MaxJobs
  /\ attempt' = [attempt EXCEPT ![a] = EnqueuedRow(adapterStatus)]
  /\ job' = NewJob(a, prev)
  /\ worker' = IF \E n \in 1..MaxJobs : tasks[<<a, n>>] # "none" THEN tasks
               ELSE [tasks EXCEPT ![<<a, job[a].n + 1>>] = "waiting"]
Enqueue(a, adapterStatus, prev, tasks) ==
  /\ job[a].n < MaxJobs
  /\ attempt' = [attempt EXCEPT ![a] = EnqueuedRow(adapterStatus)]
  /\ job' = NewJob(a, prev)
  /\ worker' = [tasks EXCEPT ![<<a, job[a].n + 1>>] = "waiting"]

\* The revision record_judge_run gives its row.
JudgeRevision(a) ==
  LET top == IF Revisions(a) = {} THEN 0
             ELSE CHOOSE n \in Revisions(a) : \A m \in Revisions(a) : m <= n
  IN  IF top > judged[a] THEN top ELSE judged[a] + 1

\* consume_score_outbox raises (max() of no candidates) on a row through which
\* no attempt of the scope shows a score; an electable row has electable
\* successors, so one call consumes everything or nothing.
WrongElectable(i, rows) ==
  \E k \in 1..(i - 1) : rows[outbox[k].attempt].status \in Scored
Electable(i, rows) == \E k \in 1..i : rows[outbox[k].attempt].status \in Scored
ConsumedWith(rows) ==
  IF consumed < Len(outbox) /\ Electable(consumed + 1, rows)
  THEN Len(outbox) ELSE consumed

\* The resumption of j's coroutine at `from`: cancel() was not called on it.
WrongAt(j, from) == worker[j] = from
At(j, from) == worker[j] = from /\ j \notin cancelled
Goto(j, to) == worker' = [worker EXCEPT ![j] = to]
StartThread(j, kind) == thread' = thread \union {<<j, kind>>}
EndThread(j, kind) == /\ <<j, kind>> \in thread
                      /\ thread' = thread \ {<<j, kind>>}
\* The thread's result reaches the coroutine only if it still waits for it.
Deliver(j, from, to) ==
  worker' = IF worker[j] = from THEN [worker EXCEPT ![j] = to] ELSE worker
Return(j, from) ==
  worker' = IF At(j, from) THEN [worker EXCEPT ![j] = "none"] ELSE worker

-----------------------------------------------------------------------------
(* The execution of an attempt.                                            *)

\* A dispatched execution hands over to the queue or ends without a score.
ExecutionEnds(a) ==
  /\ At(Execution(a), "dispatched")
  /\ \/ \E verdict \in Verdicts :
          Enqueue(a, verdict, NoScore, [worker EXCEPT ![Execution(a)] = "none"])
     \/ /\ \E status \in Ends :
             attempt' = [attempt EXCEPT ![a] = FinalizedNoScore(status)]
        /\ Goto(Execution(a), "none")
        /\ UNCHANGED job
  /\ Refresh
  /\ UNCHANGED <<scores, cancelled, thread, control, clock>>

\* An execution the startup recovery resumed is judged where it ends and
\* commits without a job (run_attempt with defer_scoring=False).
ResumedFails(a) ==
  /\ At(Execution(a), "resumed")
  /\ \E status \in Ends :
       attempt' = [attempt EXCEPT ![a] = FinalizedNoScore(status)]
  /\ Goto(Execution(a), "none")
  /\ Refresh
  /\ UNCHANGED <<job, scores, cancelled, thread, control, clock>>

ResumedScores(a) ==
  /\ At(Execution(a), "resumed")
  /\ Goto(Execution(a), "committing") /\ StartThread(Execution(a), "commit")
  /\ UNCHANGED <<facts, scores, cancelled, control, clock>>

ResumedNotifies(a) ==
  /\ At(Execution(a), "committed")
  /\ Goto(Execution(a), "notifying") /\ StartThread(Execution(a), "notify")
  /\ UNCHANGED <<facts, scores, cancelled, control, clock>>

-----------------------------------------------------------------------------
(* _execute_job                                                            *)

\* A task gets a slot of the semaphore and starts the claim.
Acquire(j) ==
  /\ At(j, "waiting")
  /\ Cardinality({k \in Jobs : worker[k] \in InSlot}) < Capacity
  /\ Goto(j, "claiming")
  /\ StartThread(j, "claim")
  /\ UNCHANGED <<facts, scores, cancelled, control, clock>>

\* _claim_job; the claim also starts a new scoring deadline.
ClaimThread(j) ==
  LET a == j[1] IN
  /\ EndThread(j, "claim")
  /\ IF IsRowOf(j) /\ job[a].status = "queued" /\ ~job[a].cancelRequested
     THEN /\ job' = [job EXCEPT ![a].status = "running"]
          /\ attempt' = [attempt EXCEPT ![a].status = "scoring",
                                        ![a].scoring = "running"]
          /\ overdue' = overdue \ {a}
          /\ Deliver(j, "claiming", "claimed")
     ELSE UNCHANGED <<attempt, job, overdue>> /\ Return(j, "claiming")
  /\ UNCHANGED <<run, scores, cancelled, control, stops, restarts>>

\* After the claim: cancelled meanwhile, committed by an earlier incarnation,
\* or on to the frozen input.
Begin(j) ==
  /\ At(j, "claimed")
  /\ IF JobCancelled(j)
     THEN FinishFailure(j, "cancelled") /\ Goto(j, "none") /\ UNCHANGED run
     ELSE IF Committed(j)
     THEN /\ job' = [job EXCEPT ![j[1]].status = "completed"]
          /\ Goto(j, "none")
          /\ UNCHANGED attempt
          /\ Refresh
     ELSE Goto(j, "preparing") /\ UNCHANGED facts
  /\ UNCHANGED <<scores, cancelled, thread, control, clock>>

\* The input is materialized and the judge key opened; the judge starts.
StartJudge(j) ==
  /\ At(j, "preparing")
  /\ Goto(j, "judging")
  /\ UNCHANGED <<facts, scores, cancelled, thread, control, clock>>

\* The judge returns within its budget.
JudgeReturns(j) ==
  /\ At(j, "judging") /\ j[1] \notin overdue
  /\ IF JobCancelled(j)
     THEN FinishFailure(j, "cancelled") /\ Goto(j, "none")
     ELSE Goto(j, "checked") /\ UNCHANGED <<attempt, job>>
  /\ UNCHANGED <<run, scores, cancelled, thread, control, clock>>

\* The snapshot is verified; the outcome is a judge infrastructure error or a
\* score.
StartFail(j) ==
  /\ At(j, "checked")
  /\ Goto(j, "failing") /\ StartThread(j, "fail")
  /\ UNCHANGED <<facts, scores, cancelled, control, clock>>

FailThread(j) ==
  /\ EndThread(j, "fail")
  /\ FinishFailure(j, "scoring_failed")
  /\ Return(j, "failing")
  /\ UNCHANGED <<run, scores, cancelled, control, clock>>

StartCommit(j) ==
  /\ At(j, "checked")
  /\ Goto(j, "committing") /\ StartThread(j, "commit")
  /\ UNCHANGED <<facts, scores, cancelled, control, clock>>

\* commit_scoring_result: score, terminal status and outbox row in one
\* transaction, once per job.
CommitThread(j) ==
  LET a == j[1] IN
  /\ EndThread(j, "commit")
  /\ IF Committed(j) THEN UNCHANGED <<attempt, outbox>>
     ELSE /\ \E final \in Scored :
               attempt' = [attempt EXCEPT ![a] =
                 [status  |-> final,
                  exec    |-> IF @.exec \in OpenExecution THEN "completed"
                              ELSE @.exec,
                  scoring |-> "completed",
                  score   |-> j[2]]]
          /\ outbox' = Append(outbox, [attempt |-> a, job |-> j[2],
                                       rev |-> NextRevision(a)])
  /\ Deliver(j, "committing", "committed")
  /\ UNCHANGED <<job, run, judged, consumed, cancelled, control, clock>>

StartRecord(j) ==
  /\ j \in Jobs /\ At(j, "committed")
  /\ Goto(j, "recording") /\ StartThread(j, "record")
  /\ UNCHANGED <<facts, scores, cancelled, control, clock>>

\* record_judge_run, best effort: it appends a revision to the judge history.
RecordThread(j) ==
  LET a == j[1] IN
  /\ EndThread(j, "record")
  /\ \/ judged' = [judged EXCEPT ![a] = JudgeRevision(a)]
     \/ UNCHANGED judged
  /\ Deliver(j, "recording", "recorded")
  /\ UNCHANGED <<facts, outbox, consumed, cancelled, control, clock>>

\* The job is marked completed, then the leader is notified.
Mark(j) ==
  LET a == j[1] IN
  /\ At(j, "recorded")
  /\ job' = IF IsRowOf(j) THEN [job EXCEPT ![a].status = "completed"] ELSE job
  /\ attempt' = [attempt EXCEPT ![a].scoring = "completed"]
  /\ Goto(j, "notifying") /\ StartThread(j, "notify")
  /\ UNCHANGED <<run, scores, cancelled, control, clock>>

NotifyThread(j) ==
  /\ EndThread(j, "notify")
  /\ consumed' = ConsumedWith(attempt)
  /\ Deliver(j, "notifying", "notified")
  /\ UNCHANGED <<facts, outbox, judged, cancelled, control, clock>>

Finish(j) ==
  /\ At(j, "notified")
  /\ Goto(j, "none")
  /\ run' = RunProjection(attempt)
  /\ UNCHANGED <<attempt, job, scores, cancelled, thread, control, clock>>

\* Where each fault is raised, the status its handler stores, and the faults
\* no handler catches: `except EvalsJudgeError` reads a name that is bound
\* only when the evals backend has been imported.
RaisedAt(fault) ==
  CASE fault = "environment" -> {"preparing"}
    [] fault = "mismatch"    -> {"preparing", "checked"}
    [] fault = "deadline"    -> {"judging"}
    [] fault = "evals"       -> IF UseEvals THEN {"judging"} ELSE {}
    [] fault = "other"       -> {"preparing", "judging", "checked"}
WrongFaultStatus(fault) == "scorer_exception"
FaultStatus(fault) == CASE fault = "deadline" -> "timed_out"
                        [] fault = "evals"    -> "scoring_failed"
                        [] OTHER              -> "failed"
WrongUncaught(fault) == fault \in {"environment", "other"}
Uncaught(fault) == \/ fault = "environment"
                   \/ fault = "other" /\ ~UseEvals

Raise(j, fault) ==
  /\ worker[j] \in RaisedAt(fault) /\ j \notin cancelled
  /\ Goto(j, "none")
  /\ IF Uncaught(fault) THEN UNCHANGED facts
     ELSE FinishFailure(j, FaultStatus(fault)) /\ Refresh
  /\ UNCHANGED <<scores, cancelled, thread, control, clock>>

\* CancelledError is delivered.  An execution and a job up to its claim have no
\* handler; later a stopped job is finished as cancelled and any other one goes
\* back to the queue for the next startup.
HandleCancel(j) ==
  LET a == j[1] IN
  /\ j \in cancelled
  /\ cancelled' = cancelled \ {j}
  /\ Goto(j, "none")
  /\ IF j[2] = 0 \/ worker[j] \in {"waiting", "claiming", "claimed"}
     THEN UNCHANGED <<attempt, job>>
     ELSE IF JobCancelled(j) THEN FinishFailure(j, "cancelled")
     ELSE /\ job' = IF IsRowOf(j) /\ job[a].status = "running"
                    THEN [job EXCEPT ![a].status = "queued"] ELSE job
          /\ attempt' = IF Row(a).scoring = "running"
                        THEN [attempt EXCEPT ![a].scoring = "queued"]
                        ELSE attempt
  /\ UNCHANGED <<run, scores, thread, control, clock>>

-----------------------------------------------------------------------------
(* Manual rejudge: a check and a purge, each on its own connection state   *)
(* (a SELECT takes no lock that lasts), then the enqueue on the loop.      *)

InFlight(a) == \/ job[a].status \in {"queued", "running"}
               \/ Row(a).scoring \in {"queued", "running"}

RequestsFor(a) == {q \in request : q.attempt = a}

RejudgeCheck(r, a) ==
  /\ up = "up"
  /\ \A q \in request : q.id # r
  /\ job[a].n + Cardinality(RequestsFor(a)) < MaxJobs
  /\ Row(a).exec \in {"completed", "timeout", "failed"}
  /\ ~InFlight(a)
  /\ request' = request \union {[id |-> r, attempt |-> a, purged |-> FALSE,
                                 exec |-> Row(a).exec, prev |-> Row(a).score]}
  /\ UNCHANGED <<facts, scores, worker, cancelled, thread, stop,
                 sweep, up, clock>>

\* DELETE FROM scoring_jobs; afterwards the artifact directory or the
\* environment may turn out to be missing (409).
RejudgePurge(q) ==
  LET a == q.attempt IN
  /\ up = "up" /\ q \in request /\ ~q.purged
  /\ job' = [job EXCEPT ![a].status = "absent",
                        ![a].cancelRequested = FALSE, ![a].prev = NoScore]
  /\ \/ request' = (request \ {q}) \union {[q EXCEPT !.purged = TRUE]}
     \/ request' = request \ {q}
  /\ UNCHANGED <<attempt, run, scores, worker, cancelled, thread,
                 stop, sweep, up, clock>>

\* An existing job row is an IntegrityError: nothing is written (409).
RejudgeEnqueue(q) ==
  LET a == q.attempt IN
  /\ up = "up" /\ q \in request /\ q.purged
  /\ request' = request \ {q}
  /\ IF job[a].status = "absent"
     THEN Enqueue(a, q.exec, q.prev, worker) /\ Refresh
     ELSE UNCHANGED <<facts, worker>>
  /\ UNCHANGED <<scores, cancelled, thread, stop, sweep, up, clock>>

-----------------------------------------------------------------------------
(* User stop.                                                              *)

\* cancel_dispatch_tasks, then cancel_scoring_for_runs.
StopScoring ==
  LET active == {a \in Attempts : job[a].status \in {"queued", "running"}} IN
  /\ up = "up" /\ stop.phase = "idle" /\ stops < MaxStops
  /\ stops' = stops + 1
  /\ stop' = [stop EXCEPT !.phase = "scoring"]
  /\ job' = [a \in Attempts |->
       IF a \notin active THEN job[a]
       ELSE [job[a] EXCEPT !.cancelRequested = TRUE,
                           !.status = IF @ = "queued" THEN "cancelled" ELSE @]]
  /\ attempt' = [a \in Attempts |->
       IF a \notin active THEN Row(a)
       ELSE [Row(a) EXCEPT !.scoring = "cancelled", !.score = NoScore,
                           !.status = IF @ = "scoring" THEN "cancelled" ELSE @]]
  /\ cancelled' = cancelled \union
       {j \in Tasks : /\ worker[j] # "none"
                      /\ j[2] = 0 \/ (j[1] \in active /\ job[j[1]].n = j[2])}
  /\ UNCHANGED <<run, scores, worker, thread, request, sweep, up, overdue,
                 restarts>>

\* open_attempt_ids_for_runs
StopList ==
  LET ids == {a \in Attempts : IsOpen(Row(a))} IN
  /\ up = "up" /\ stop.phase = "scoring"
  /\ stop' = IF ids = {} THEN Idle ELSE [stop EXCEPT !.phase = "listed", !.ids = ids]
  /\ UNCHANGED <<facts, scores, worker, cancelled, thread, request,
                 sweep, up, clock>>

\* converge_attempts has two steps: a SELECT of the listed rows, which takes no
\* lock, and one transaction of UPDATEs that go by what was read, if that is any.
Reading(ids) ==
  LET open == [a \in Attempts |-> IF a \in ids THEN OpenAxes(Row(a)) ELSE {}]
  IN  IF open = NothingRead THEN Idle
      ELSE [phase |-> "read", ids |-> {}, open |-> open]
ConvergeAll(open, to) ==
  /\ attempt' = [a \in Attempts |-> Converged(Row(a), open[a], to)]
  /\ Refresh

StopRead ==
  /\ up = "up" /\ stop.phase = "listed"
  /\ stop' = Reading(stop.ids)
  /\ UNCHANGED <<facts, scores, worker, cancelled, thread, request,
                 sweep, up, clock>>

StopConverge ==
  /\ up = "up" /\ stop.phase = "read"
  /\ ConvergeAll(stop.open, UserStopped)
  /\ stop' = Idle
  /\ UNCHANGED <<job, scores, worker, cancelled, thread, request,
                 sweep, up, clock>>

-----------------------------------------------------------------------------
(* The deadline sweeper, scoring axis.                                     *)

\* Time.  The worker itself gives up a judge within the deadline, so the
\* grace period runs out only on a job that is not being judged.
DeadlinePasses(a) ==
  /\ Row(a).scoring = "running" /\ a \notin overdue
  /\ \A j \in Jobs : j[1] = a => worker[j] # "judging"
  /\ overdue' = overdue \union {a}
  /\ UNCHANGED <<facts, scores, worker, cancelled, thread, control, stops,
                 restarts>>

\* _expired_scoring
SweepList ==
  LET expired == {a \in overdue : Row(a).scoring = "running"} IN
  /\ up = "up" /\ sweep.phase = "idle" /\ expired # {}
  /\ sweep' = [sweep EXCEPT !.phase = "listed", !.ids = expired]
  /\ UNCHANGED <<facts, scores, worker, cancelled, thread, request,
                 stop, up, clock>>

SweepRead ==
  /\ up # "down" /\ sweep.phase = "listed"
  /\ sweep' = Reading(sweep.ids)
  /\ UNCHANGED <<facts, scores, worker, cancelled, thread, request,
                 stop, up, clock>>

SweepConverge ==
  /\ up # "down" /\ sweep.phase = "read"
  /\ ConvergeAll(sweep.open, ScoringOverdue)
  /\ sweep' = Idle
  /\ UNCHANGED <<job, scores, worker, cancelled, thread, request,
                 stop, up, clock>>

-----------------------------------------------------------------------------
(* The process.                                                            *)

\* Lifespan shutdown cancels every task and waits for them; requests were
\* answered before.
Shutdown ==
  /\ up = "up" /\ restarts < MaxRestarts
  /\ stop.phase = "idle" /\ request = {}
  /\ restarts' = restarts + 1
  /\ up' = "closing"
  /\ cancelled' = {j \in Tasks : worker[j] # "none"}
  /\ UNCHANGED <<facts, scores, worker, thread, request, stop, sweep, overdue,
                 stops>>

\* The loop closes once the tasks and the executor's threads are done.
Exit ==
  /\ up = "closing"
  /\ \A j \in Tasks : worker[j] = "none"
  /\ thread = {} /\ sweep.phase = "idle"
  /\ up' = "down"
  /\ UNCHANGED <<facts, scores, worker, cancelled, thread, request,
                 stop, sweep, clock>>

Crash ==
  /\ up # "down" /\ restarts < MaxRestarts
  /\ restarts' = restarts + 1
  /\ up' = "down"
  /\ worker' = [j \in Tasks |-> "none"]
  /\ cancelled' = {} /\ thread' = {} /\ request' = {}
  /\ stop' = Idle /\ sweep' = Idle
  /\ UNCHANGED <<facts, scores, overdue, stops>>

\* Lifespan startup in its order: requeue running jobs, interrupt executions
\* that are lost and resume those of a remote session (an agent process that
\* is still alive is neither), drain the outbox.  A drain that raises aborts
\* the startup, with what was written before it.
Restart ==
  /\ up = "down"
  /\ LET revived == [a \in Attempts |->
            IF job[a].status = "running" /\ ~job[a].cancelRequested
            THEN [job[a] EXCEPT !.status = "queued"] ELSE job[a]]
         requeued == [a \in Attempts |->
            IF Row(a).scoring = "running"
            THEN [Row(a) EXCEPT !.scoring = "queued", !.status = "scoring"]
            ELSE Row(a)]
         stale == {a \in Attempts : requeued[a].status \in {"queued", "running"}}
     IN  \E lost \in SUBSET stale, resumed \in SUBSET stale :
           /\ lost \intersect resumed = {}
           /\ job' = revived
           /\ attempt' = [a \in Attempts |->
                IF a \in lost THEN FinalizedNoScore("interrupted")
                ELSE requeued[a]]
           /\ IF lost = {} THEN UNCHANGED run ELSE Refresh
           /\ consumed' = ConsumedWith(attempt')
           /\ IF consumed' = Len(outbox)
              THEN /\ up' = "up"
                   /\ worker' = [j \in Tasks |->
                        IF j[2] = 0
                        THEN IF j[1] \in resumed THEN "resumed" ELSE "none"
                        ELSE IF /\ revived[j[1]].n = j[2]
                                /\ revived[j[1]].status = "queued"
                                /\ ~revived[j[1]].cancelRequested
                             THEN "waiting" ELSE "none"]
              ELSE UNCHANGED <<up, worker>>
  /\ UNCHANGED <<outbox, judged, cancelled, thread, request, stop, sweep, clock>>

-----------------------------------------------------------------------------
Init ==
  /\ attempt = [a \in Attempts |-> [status |-> "running", exec |-> "running",
                                    scoring |-> "not_ready", score |-> NoScore]]
  /\ job = [a \in Attempts |-> [n |-> 0, status |-> "absent",
                                cancelRequested |-> FALSE, prev |-> NoScore]]
  /\ outbox = <<>>
  /\ judged = [a \in Attempts |-> 0]
  /\ consumed = 0
  /\ run = "running"
  /\ worker = [j \in Tasks |-> IF j[2] = 0 THEN "dispatched" ELSE "none"]
  /\ cancelled = {} /\ thread = {} /\ request = {}
  /\ stop = Idle /\ sweep = Idle
  /\ up = "up"
  /\ overdue = {} /\ stops = 0 /\ restarts = 0

ExecutionStep(a) == ExecutionEnds(a) \/ ResumedFails(a) \/ ResumedScores(a)

WorkerStep(j) ==
  \/ Acquire(j) \/ Begin(j) \/ StartJudge(j) \/ JudgeReturns(j)
  \/ StartFail(j) \/ StartCommit(j) \/ StartRecord(j) \/ Mark(j) \/ Finish(j)
  \/ \E fault \in Faults \union {"deadline"} : Raise(j, fault)

ThreadStep(j) == ClaimThread(j) \/ FailThread(j) \/ CommitThread(j)
                 \/ RecordThread(j) \/ NotifyThread(j)

Rejudge == \/ \E r \in Requests, a \in Attempts : RejudgeCheck(r, a)
           \/ \E q \in request : RejudgePurge(q) \/ RejudgeEnqueue(q)

Next ==
  \/ \E a \in Attempts : ExecutionStep(a) \/ ResumedNotifies(a) \/ DeadlinePasses(a)
  \/ \E j \in Tasks : WorkerStep(j) \/ ThreadStep(j) \/ HandleCancel(j)
  \/ Rejudge
  \/ StopScoring \/ StopList \/ StopRead \/ StopConverge
  \/ SweepList \/ SweepRead \/ SweepConverge
  \/ Shutdown \/ Exit \/ Crash \/ Restart

Spec == Init /\ [][Next]_vars

\* The loop and the executor run what is ready, a handler is called after
\* cancel(), time passes, and the sweeper and an accepted request go on.
\* Nothing makes an execution end, a user act or a process die.
Fairness ==
  /\ \A j \in Tasks : /\ WF_vars(WorkerStep(j))
                      /\ WF_vars(ThreadStep(j))
                      /\ WF_vars(HandleCancel(j))
  /\ \A a \in Attempts : WF_vars(ResumedNotifies(a)) /\ WF_vars(DeadlinePasses(a))
  /\ WF_vars(\E q \in request : RejudgePurge(q) \/ RejudgeEnqueue(q))
  /\ WF_vars(StopList \/ StopRead \/ StopConverge)
  /\ WF_vars(SweepList \/ SweepRead \/ SweepConverge)
  /\ WF_vars(Exit) /\ WF_vars(Restart)

FairSpec == Spec /\ Fairness

-----------------------------------------------------------------------------
(* Properties.                                                             *)

TypeOK ==
  /\ attempt \in [Attempts -> AttemptRow]
  /\ job \in [Attempts -> JobRow]
  /\ outbox \in Seq(OutboxRow)
  /\ judged \in [Attempts -> Nat]
  /\ consumed \in 0..Len(outbox)
  /\ run \in RunStatusValue
  /\ worker \in [Tasks -> WorkerState]
  /\ cancelled \subseteq Tasks
  /\ thread \subseteq Tasks \X ThreadKind
  /\ request \subseteq RequestRow
  /\ {stop, sweep} \subseteq [phase: {"idle", "scoring", "listed", "read"},
                             ids: SUBSET Attempts,
                             open: [Attempts -> SUBSET Axes]]
  /\ up \in {"up", "closing", "down"}
  /\ overdue \subseteq Attempts
  /\ stops \in 0..MaxStops /\ restarts \in 0..MaxRestarts

\* A job commits at most one score, however often it is claimed again after a
\* crash or a shutdown and whatever thread outlived its coroutine; an execution
\* that is resumed and judged without a job does not commit twice either.
OutboxPerJob ==
  \A i, k \in DOMAIN outbox :
    outbox[i].attempt = outbox[k].attempt /\ outbox[i].job = outbox[k].job
      => i = k

\* Revisions of an attempt grow in the order of the outbox, although they are
\* counted from another table that is written later and sometimes not at all.
RevisionsIncrease ==
  \A i, k \in DOMAIN outbox :
    i < k /\ outbox[i].attempt = outbox[k].attempt => outbox[i].rev < outbox[k].rev

\* A score on display was committed by a job of that attempt: no failure path,
\* stop, sweep or restored rejudge shows one the outbox does not hold.
ScoreBacked ==
  \A a \in Attempts : attempt[a].score # NoScore =>
    \E i \in DOMAIN outbox : /\ outbox[i].attempt = a
                             /\ outbox[i].job = attempt[a].score

\* As long as nobody has asked for a stop, an attempt that counts as scored
\* shows the score the leader ranks it with, that of its latest revision, also
\* after rejudges that fail, time out or are interrupted and resumed.
LatestJob(a) == LET rows == {i \in DOMAIN outbox : outbox[i].attempt = a}
                    last == CHOOSE i \in rows : \A k \in rows : k <= i
                IN  outbox[last].job
DisplayAgreesWithLeader ==
  stops = 0 => \A a \in Attempts :
    attempt[a].status \in Scored /\ Revisions(a) # {}
      => attempt[a].score = LatestJob(a)

\* While the process is up, a job that is to be scored has a task that will
\* score it: requeueing, claiming and rejudging never strand one.
JobHasTask ==
  up = "up" => \A a \in Attempts :
    job[a].status \in {"queued", "running"} /\ ~job[a].cancelRequested
      => worker[<<a, job[a].n>>] # "none"

\* No judge starts for a job whose stop was accepted.
NoJudgeAfterStop ==
  [][\A j \in Jobs : worker[j] # "judging" /\ worker'[j] = "judging"
       => ~(IsRowOf(j) /\ job[j[1]].cancelRequested)]_vars

\* A job that has committed is never judged again (crash replay).
NoJudgeAfterCommit ==
  [][\A j \in Jobs : worker[j] # "judging" /\ worker'[j] = "judging"
       => \A i \in DOMAIN outbox : <<outbox[i].attempt, outbox[i].job>> # j]_vars

\* Scoring, its failures, its timeouts, stops and rejudges never change the
\* verdict of a finished execution; nor does the end of an execution change the
\* one a stop has given it.  Exempt is the attempt that a stop read as still
\* executing and writes after its end, also under a rejudge accepted in between.
LateVerdict(a) == \/ stop.phase = "read" /\ "exec" \in stop.open[a]
                  \/ \E q \in RequestsFor(a) : q.exec # attempt[a].exec
ExecutionVerdictKept ==
  [][\A a \in Attempts : attempt[a].exec \notin OpenExecution /\ ~LateVerdict(a)
       => attempt'[a].exec = attempt[a].exec]_vars

\* "rows that are terminal stay as they are" (converge_attempts).
TerminalRowsStay ==
  [][StopConverge \/ SweepConverge =>
       \A a \in Attempts : ~IsOpen(attempt[a]) => attempt'[a] = attempt[a]]_vars

\* A job whose stop was accepted is not started or queued again, not even by a
\* restart.
StopIsFinal ==
  [][\A a \in Attempts :
       /\ job[a].cancelRequested /\ job'[a].n = job[a].n
       /\ job'[a].status \in {"queued", "running"}
       => job'[a].status = job[a].status]_vars

\* The startup stops at an outbox row it cannot consume, and will again.
StartupBlocked == /\ up = "down" /\ consumed < Len(outbox)
                  /\ ~Electable(consumed + 1, attempt)

\* Every scoring that is due or under way comes to an end - judged, failed,
\* timed out or cancelled - across a stop, a rejudge and a restart, unless the
\* startup itself is blocked.
ScoringSettles ==
  \A a \in Attempts : attempt[a].scoring \in {"queued", "running"}
    ~> attempt[a].scoring \notin {"queued", "running"} \/ StartupBlocked

\* Without stops a committed score reaches the leader timeline, whichever
\* notification a shutdown or a crash drops and whenever the sweeper writes, as
\* long as an attempt of the scope still shows a score to elect for it.
Shown(k) == \E i \in 1..k : attempt[outbox[i].attempt].status \in Scored
ShownScoresReachLeader ==
  consumed < Len(outbox) ~>
    consumed = Len(outbox) \/ ~Shown(consumed + 1) \/ stops > 0

\* Nothing is under way: every task, thread, request and sweep has ended.
Quiet ==
  /\ up = "up" /\ request = {} /\ thread = {}
  /\ stop.phase = "idle" /\ sweep.phase = "idle"
  /\ \A j \in Tasks : worker[j] = "none"

\* A rejudge that came to nothing leaves the score it started from: "a stop
\* destroys no conclusion" (execution-scoring-decoupling-design.md, 11.2).
RejudgeKeepsScore ==
  Quiet => \A a \in Attempts :
    job[a].prev # NoScore => attempt[a].score # NoScore

\* "A dropped notification is safe: startup or the next scoring transition
\* consumes the durable cursor" (run_attempt): what no notification has consumed
\* when all is quiet, the next startup can.
DroppedNotificationIsSafe ==
  Quiet /\ consumed < Len(outbox) => Electable(consumed + 1, attempt)
====
