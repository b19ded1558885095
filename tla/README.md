# Verification of the Octagon backend

TLA+ models of the protocols in `src/backend`, the TLC runs that check them on
small instances, and theorems about them that TLAPS proves for every instance.

Octagon runs coding agents on tasks ("attempts", grouped into "runs" and "run
groups"), judges what they leave behind, and publishes scores to a leader
timeline.  It is one Python 3.12 asyncio process over one SQLite database.
Blocking database work is sent to threads with `asyncio.to_thread`, and the
process may be stopped, restarted or killed at any time.  The difficulty of the
code is not in any one handler.  It is in the fact that several writers — the
coordinator of a group, the dispatch of an attempt, its scoring job, a manual
rejudge, a user's stop and the deadline sweeper — write the same rows with an
await, a thread or a restart between each check and the write that relies on it.

Six components are modelled, each in a module of its own:

    RunGroup.tla             a run group: coordinator, projections, stop, recovery
    CellPromise.tla            and what it promises about cells and agents
    AttemptDispatch.tla      admission, dispatchers, semaphore, stop of a run, deadlines
    ScoringQueue.tla         the durable scoring queue of one run
    AttemptFacts.tla           what each writer stores in an attempt row (used by both)
    LeaderTimeline.tla       consumption of the score outbox, elections, events
    LeaderPromise.tla          and what it promises about the timeline
    CostKeys.tla             the ephemeral key of a cost scope and its settlement
    SkillSession.tla         a run of a skill evaluation: jobs, leases, remote session

    MC<Module>.tla           instances for TLC (MCRunGroup, MCAttemptDispatch,
                             MCScoringQueue, MCLeaderTimeline, MCCostKeys,
                             MCSkillSession)
    <run>.cfg                the configurations of section 3

    RunGroupProofs.tla       theorems, checked by tlapm: types, provisioning,
                             cancelled cells, the refinement of CellPromise, owners of
                             running cells, the status of the group
    DispatchProofs.tla       types and slots, stops
    ScoringQueueProofs.tla   types and the order of revisions,
    ScoringTaskProofs.tla      tasks, commits and stops, the displayed score,
    ScoringStrandProofs.tla    no job is stranded, verdicts and displayed scores
    LeaderProofs.tla         types, finality, the refinement of LeaderPromise, for any
                             number of consumers
    CostProofs.tla           types, one key, complete costs, keys in use
    SkillProofs.tla          types, one writer, one session, each message once and whole,
                             no generation while the run waits

    PROJECT.json             components, runs, mutants, source map, findings,
                             hazards, theorems

## 1. Inventory

State in *italics* is in memory and dies with the process; the rest is in SQLite
or in files.

### Modelled

**Scoring queue** (`scoring_queue.py`).  State: `scoring_jobs`, one row per
attempt (status, `cancel_requested`, the score a rejudge started from), the
three status axes and `score_total` of `attempts`; *the scoring tasks, the
semaphore of `octagon.max_active_scoring_jobs`*.  Operations: enqueue, claim,
judge, commit, record, mark, notify, fail, cancel, rejudge (check, purge,
enqueue), stop, startup requeue.  Talks to: the execution that enqueues, the
judge in a thread, the commit, the leader timeline, the HTTP routes for stop and
rejudge.  Hard: every `await` of `_execute_job` is a place for a stop or a
shutdown; a thread whose coroutine is cancelled still commits; a crash between
commit and mark; rejudges that fail.  Correct when: a job commits once, a judge
never starts for a stopped or committed job, a job that is due always has a task
and ends, and the displayed score is one that was committed.

**Score commit and outbox** (`experiments/scoring.py`, `provenance.py`).  State:
`score_transition_outbox`, `attempt_judge_runs`.  Operations:
`commit_scoring_result`, `_next_score_revision`, `record_judge_run`.  Hard: a
revision is numbered from a table that is written later, best effort, in another
transaction.  Correct when: revisions of an attempt are distinct and increase in
commit order.

**Leader timeline** (`experiments/leader.py`).  State: the outbox with its marks
(`consumed_at`), `leader_events`.  Operations: consume the outbox of a scope (by
every scoring job after its commit, by the startup, by the reconciliation).  Hard:
its SELECTs run in autocommit mode, only the INSERT of an event and the mark of a
row share a transaction; two jobs consume at once; the candidates depend on the
status attempts have now, not on the one they had at their commit.  Correct when:
every committed score is consumed once, each event names a leader that was the best
when it was weighed, a row without an event repeats a leader already named, and a
final scope stays final.  The order of the events, which the code promises too, is not
kept by two jobs (section 4).

**Run groups** (`experiments/coordinator.py`, `recovery.py`, `repository.py`,
`run_service.py`).  State: `run_groups`, `run_group_cells`, the idempotency claim
of each cell's run; *the group's task, its workers and their queue*.  Operations:
start or resume a group, provision a cell, create its run attempt by attempt in
threads, dispatch it, project attempts to run, cell and group, stop the group,
recover it.  Talks to: dispatch and scoring, whose ends it projects; the sweeper,
which projects from its own thread.  Hard: a stop, a crash or a shutdown while a
cell is provisioned; a run created in pieces by two processes; the group's status
written by whoever finishes a run.  Correct when: an agent is started once, a cell
in provisioning has a worker, a running cell an owner, a cancelled cell stays so,
the group shows its cells and gives its slot back.

**Dispatch and concurrency gate** (`run_dispatch.py`, `run_service.py:587-756`,
the execution axis of `sweeper.py`, `convergence.py`).  State: execution axes of
attempts; *dispatchers, dispatch tasks, the attempt semaphore, the admission
event*.  Operations: launch a run, create its tasks at once or serially, take a
slot, mark, prepare, run and end an attempt, stop a run, cancel what is overdue.
Hard: a stop that finds no task yet; the sweeper's cancel, which the loop runs
after its write; the end of an execution, which overwrites the whole row.  Correct
when: a slot is held by at most `max_active_attempts` tasks and comes back on every
way out, a stop starts no agent and what it closes stays closed, and every planned
attempt has its turn.

**Ephemeral cost keys** (`cost/keys.py`, `cost/settler.py`, `cost/ledger.py`).
State: the ledger row of a scope, which is also the lease; *the credential, the
users, settlements under way*; upstream, the key and its usage.  Operations: lease,
create, register or degrade, wait, spend, poll, disable, close, scan leases, retry
disables.  Hard: a creator cancelled between the creation of a key and its
registration; a waiter that gives up; a settlement that checks use before an await
and disables after it; two settlements of one row.  Correct when: a scope has one
key, a cost that counts as audited is the whole cost, a key in use is not disabled,
and every ledger ends with its key disabled.

**Skill evaluation** (`skill_eval/worker.py`, `recovery.py`, `runs.py`,
`run_api.py`).  State, in a database of its own: the row of a run with its remote
references, its messages, questions, generations and jobs, each job with an owner, a
lease and a checkpoint; *the tasks of the worker, one per job at work, and the
wake-ups of their stop controls*; remote, a session and its generations.  Operations:
claim a job; prepare (create a session, upload the skill), deliver a message (upload
the attachment, chat), observe a generation, collect; stop, finish, send, answer,
recollect; reconcile a job whose lease has lapsed.  Hard: no remote write can be taken
back or repeated, and a crash, a shutdown, a lapsed lease or a request may fall
between any checkpoint and the write it announces.  Correct when: a run has one
session and sends no message twice, in another order, without its parts or into a
generation under way; one writer acts on it; a verdict and an answer are final; and a
finish ends the run.

**Convergence and sweeper** (`convergence.py`, `sweeper.py`).  State: deadlines
of the two axes.  Operations: list open or expired attempts, cancel, read the listed
rows, write the axes found open.  Hard: list, read and write are apart, in threads
beside every other writer of the rows, and the write asks for nothing but the id.  Its
scoring axis is in ScoringQueue, its execution axis in AttemptDispatch, its projections
in RunGroup.

**Attempt execution** (`runner.py`), **startup and shutdown** (`main.py`,
`recovery.py`), **HTTP API** (`api.py`), **idempotency keys** (`db.py`).  Their
steps that touch the state above.

### Not modelled

* *Iteration controller* (`iteration/`) and *conversation continuation*: sequential
  loops inside one execution; the models see the execution as one step that ends.
* *Wire capture lifecycle* (`wire/lifecycle.py`, `finalize.py`, `recovery.py`,
  `spool.py`): its own protocol over files (spool, finalize, recovery after a
  crash).  It is the largest state machine left and the first candidate for a
  module.
* *The rest of the skill evaluation* (`skill_eval/`): capture of events, artifacts and
  their status, drafts, releases, experiments, comparisons and reruns are data around
  a run; how several runs share the slots of the worker (the oldest job first) needs
  a model of several runs.
* *Research reconciliation*: rebuilds derived projections, repeatable, dispatches
  nothing.
* Data transformation (normalizers, ATIF, analysis, insights, statistics, pricing,
  rubric evolution), drivers of external programs (adapters, processes, sandbox),
  rules over recorded events (security classification), the web client, tools and
  packaging.  They have no protocol state of their own; the models see them as an
  input ("the execution ends with this verdict", "the judge raises").

Most of the code by lines is of the last kind, so the map covers a small share of
the files: it names the code of the protocols, not what they call.  PROJECT.json
lists every component with its reason.

## 2. How the model corresponds to the code

### Steps

A step is what runs without a scheduling point: the code between two awaits of a
coroutine, or one `with _open_sync(...)` block in a worker thread.  A call
`await asyncio.to_thread(f)` is therefore three steps — start the thread, its
transaction, the resumption of the coroutine — and `thread` (calls whose
transaction has not run) is a variable of its own, because cancelling the
coroutine leaves its thread running.

### ScoringQueue

`worker[<<a, n>>]` is the place of the task of scoring job `n` of attempt `a`;
number 0 is the execution of the attempt: `dispatched`, or `resumed` by a startup,
in which case `run_attempt` judges synchronously and commits without a job.

| place | code it stands before |
|---|---|
| `waiting` | `async with _slot` in `_execute_job` |
| `claiming`, `claimed` | `_claim_job` in a thread; `_job_cancelled`, `_job_already_committed` |
| `preparing` | `materialize`, key lookup; the last check before the judge |
| `judging`, `checked` | `wait_for(judge)`; the verification of the snapshot |
| `failing` | `_finish_failure` in a thread (judge infrastructure error) |
| `committing`, `committed` | `commit_scoring_result` in a thread |
| `recording`, `recorded` | `record_judge_run` in a thread, best effort |
| `notifying`, `notified` | `consume_score_outbox` in a thread; `_refresh_run_status` |

`cancelled` holds the tasks whose `cancel()` was called and whose
`CancelledError` has not been delivered.  `At(j, place)` is the guard of every
normal resumption: a task with a pending cancel does not resume normally.  Which
handler then runs depends on the place (`HandleCancel`), as do the faults
(`Raise`): `RaisedAt`, `FaultStatus` and `Uncaught` are the table of the
`except` clauses at `scoring_queue.py:745-840`.

Abstractions:

* A score is the number of the job that produced it (0 without a job), `NoScore`
  is NULL.  Whether a displayed score was committed, and by which job, is all the
  properties ask.
* `job[a].n` is the identity of the current row: `UNIQUE(attempt_id,
  scorer_version)` allows one row per attempt and a purge deletes it, so a task
  of an older number finds its row gone.  Ids are not reused.
* Statuses that no writer tells apart are one: `cli_error` for all ends that are
  not judged, `running` also for `starting_blade_session`.
* All attempts belong to one run and one leader scope.
* `judged[a]` is the last revision of the judge history.
* One rejudge has a check, a purge and an enqueue as steps: the first two are one
  function but autocommit separately; the `_refresh_run_status` of the route is
  part of the third.  The consumption of several outbox rows is one step, since a
  row that can be consumed makes every later one consumable.  The stop's
  `cancel_dispatch_tasks` and `cancel_scoring_for_runs` run without an await in
  between that matters here and are one step; stop requests come one at a time.
* A SQLite error and a full disk are not modelled.  Time is the set `overdue`: a
  job's grace period may run out whenever no judge of it is running, since the
  worker ends the judge itself before that.

| action | code |
|---|---|
| `ExecutionEnds`, `ResumedFails`, `ResumedScores`, `ResumedNotifies` | the three ways `run_attempt` ends: enqueue, `_finalize_no_score`, synchronous commit |
| `Acquire` … `Finish` | `_execute_job`, in its order |
| `ClaimThread`, `FailThread`, `CommitThread`, `RecordThread`, `NotifyThread` | the transactions in threads |
| `Raise`, `HandleCancel` | the `except` clauses |
| `RejudgeCheck`, `RejudgePurge`, `RejudgeEnqueue` | `_prepare_rejudge`, `_rejudge_queued` and the route |
| `StopScoring`, `StopList`, `StopRead`, `StopConverge` | `stop_run`, `cancel_attempts_for_runs`, `converge_attempts` |
| `DeadlinePasses`, `SweepList`, `SweepRead`, `SweepConverge` | `_expired_scoring`, `sweep_once`, `converge_attempts` |
| `Shutdown`, `Exit`, `Crash`, `Restart` | lifespan of `main.py`, process death, startup recovery |

A convergence is three steps: the list, the SELECT of `converge_attempts`
(`Reading`: which axes of which rows are open), and its transaction of UPDATEs
(`ConvergeAll`), which writes these axes whatever they hold by then.  A commit, the
end of an execution, a rejudge or the other convergence may come between any two of
them.

`Restart` follows the startup's order: running jobs go back to the queue,
executions whose process is gone are interrupted, those of a remote session are
resumed, and the outbox is drained.  The drain raises on a row no attempt can
stand for; the startup is then aborted with what it wrote before.

### RunGroup

`worker[c]` is where the coordinator's worker of cell `c` stands: `launching`
(before `create_run_plan`), `creating` (a `create_attempt` thread is in `insert`,
or has returned), `dispatching` (awaits `_dispatch_all`).  A worker that is done
with a cell takes the next queued one in the same step (`Leave`, `TakeNext`),
because the code does not await in between.

| action | code |
|---|---|
| `BeginGroup`, `WorkerStarts`, `GroupEnds` | `run_group`: admission, workers, final projection |
| `InputMissing`, `ClaimRun`, `InsertAttempt`, `CreateFails`, `Created`, `DispatchReturns` | `_provision_cell`, `create_run_plan`, `_create_attempt_sync` |
| `Start`, `ExecutionEnds`, `ScoringEnds`, `ScoringProjects`, `TaskCancelled` | what dispatch and scoring write, and `_refresh_run_status` |
| `StopGroup` | the group's stop, one step on the loop |
| `SweepConverge`, `SweepReadCell`, `SweepWriteCell`, `SweepWriteGroup` | the sweeper's thread: projections whose reads and writes are apart |
| `Shutdown`, `WorkerCancelled`, `Exit`, `Crash`, `Restart` | lifespan, startup recovery, `recover_groups_sync` |

The projections (`RunOf`, `CellOf`, `TerminalOf`, `GroupOf`) are the functions of
the code over sets of statuses.

Abstractions: one group (the FIFO lock and the admission of several groups are
outside; AttemptDispatch has the admission seen from runs); statuses of attempts
that no projection tells apart are one; projections on the loop are one step, only
those of the sweeper's thread are split; the serial protocol, the stop of a cell's
run by `stop_run` and a rejudge of a cell's attempt are not modelled; nor are SQLite
errors.  `CellPromise` is the abstract specification: cells wait, open and close, an
agent is started once and never for a waiting cell, only an untouched cell is put
back to wait.  Here the sweeper reads and writes an attempt's row in one step; what
falls between the two is in AttemptDispatch and ScoringQueue, and the properties of
this module speak of cells and of what is started.  `CellPromise` has a step from closed to open, because the code has one: the
sweeper's late write (section 4).

### AttemptDispatch

`run[r]` is the dispatcher of a run, `task[a]` the place of `_dispatch_with_lease`:
`waiting` for the semaphore; `marking` (`_mark_low_disk` in a thread); `preparing`
(wire capture and cost key); `agent` (the adapter); `closing` (observer); `ended` or
`cut` by a cancel.  From `marking` to `closing` it holds a slot (`Held`).
`callbacks` are the sweeper's cancels between `call_soon_threadsafe` and the loop.

| action | code |
|---|---|
| `GroupBegins`, `GroupEnds`, `Launch`, `NextTask` | admission event, `_dispatch_all`, `_dispatch_serial` |
| `Acquire`, `MarkLowDisk`, `PrepareFails`, `StartAgent`, `AgentEnds`, `Leave`, `HandleCancel` | `_dispatch_with_lease`, `dispatch_attempt`, `run_attempt` |
| `StopTasks`, `StopScoring`, `StopList`, `StopRead`, `StopConverge` | `stop_run`, `cancel_attempts_for_runs`, `converge_attempts` |
| `SweepRead`, `Callback`, `SweepConverge` | `sweep_once`, execution axis |

Rows are written by the operators of `AttemptFacts`, which `ScoringQueue` uses too.
Abstractions: no restart (RunGroup and ScoringQueue have it); the deadline passes
when the sweep finds it, and every attempt that was marked has one; the sweep's list,
its cancels and the SELECT of `converge_attempts` are one step, since a row that is
closed between the list and the SELECT is left alone, as one not listed is; its UPDATEs
are a step of their own, as are the stop's list, SELECT and UPDATEs; one group passes
the gate, once (`Admits`); cancels of finished tasks are dropped; scoring jobs end in
ScoringQueue; `runs.status` is projected in RunGroup; the resize of the semaphore
and the killing of orphaned processes are not modelled.  `missed` remembers the
attempts of a run whose stop found no task (section 4).

### LeaderTimeline

A consumer is a call of `consume_score_outbox`; any number of them run at once, as
with several scoring jobs (`max_active_scoring_jobs` is 2 by default).  `Look` (next
row), `Check` (has it an event?), `Weigh` (candidates, best, comparability), `Recall`
(last event), `Number` (next sequence), then `Write` (event and mark; it rolls back
when the row has an event or the number is taken) or `Skip`.  Each is one SELECT, or
the transaction at the end; `Dies` is a crash or a dropped call between any two.  The
other actions are what the scoring side does to the rows the consumers read:
`ExecutionEnds`, `Commit`, `ScoringFails`, `Rejudge`; `Close` and `Closes` are the
SELECT and the UPDATEs of a stop or a sweep; `Begins` is work on an attempt that was
closed before it began.

Abstractions: one scope; attempts are numbers, which order ties as ids do, and the
tie-break by duration is folded into that order; the statuses a convergence writes are
one, and whether it reaches the work is left open; an outbox that blocks and
notifications are ScoringQueue's; `replay_leader_events`, which nothing calls, is left
out.  `LeaderPromise` is the abstract specification: scores arrive; each is settled by
at most one entry, which names the best of the latest scores up to it, except those of
attempts that whoever elects found away (being judged again or closed), and someone
who led before as the previous leader; or it is passed over, when an entry names that
best already.  The attempts away now (`Away`) and what each call under way found away
(`Looks`) are its variables `away` and `looks`.

### CostKeys

One scope, either of an attempt (one user) or of the judge of a run (its scoring
jobs).  `pc[u]` is the user: `due`, `queued`, `creating`, `sampling`, `waiting`,
`run` (spends on the key), `fallback` (on another one), `ghost` (a thread that goes
on after its job), `closed`.  `settle[s]` is a settlement by the background scan or by
the end of the attempt, with the snapshot of the row it started from.

| action | code |
|---|---|
| `Open`, `CreateKey`, `CreateFails`, `Register`, `WaitEnds`, `WaitTimesOut` | `open_key`, `_await_usable` |
| `Queue`, `Spend`, `Ends`, `ResumedScores` | the users |
| `Miss`, `Abandon` | a stop that finds no task of the attempt; a stop or a deadline that cuts a user |
| `ScanLease`, `ScanSettles`, `EndSettles` | `scan_ledgers_once`, `_schedule_attempt_settle` |
| `PollFails`, `PollReturns`, `Disable`, `Close`, `RetryDisable` | `settle_key`, `_list_failed_disables` |
| `Restart` | process death and startup |

Abstractions: the upstream's usage is exact and does not regress; the management
key is configured; a creator lives shorter than the lease of 300 s; a scan has one
row; a deadline that passes and the sweep that closes the row are one step
(`Abandon`).  `missed` are users whose rows a stop closed although they will still
begin: `_scope_finished` goes by the rows, so `Finished` does not ask for them, and in
the scope of an attempt the agent opens the key and spends all the same.  `strayed` are
users that spent on another key, `aside` those that spend where no row says so, named
in `AuditableIsComplete`.

### SkillSession

One run.  `task[t]` is a task of the worker: `pc` is where it stands, `job` its job,
and the rest what its coroutine holds in locals: the checkpoint as it last wrote it
(`cp`), the generation it delivers or watches, whether chat:start was seen, the last
request the stop controls acted on (`token`, `told`).  `rec` is the reconciliation of
one job with the checkpoint it has read.

| place | code it stands before |
|---|---|
| `begin`, `unsent` | the choice of `execute`; `_cancel_unsent` |
| `prepare`, `deliver`, `start` | `prepare`; `deliver`; its transaction at `worker.py:193` |
| `open_create`, `open_upload`, `open_chat` | a checkpoint with `remote_started=True` |
| `create`, `upload`, `chat`, `watch`, `collect`, `gather`, `history` | an await of the runtime |
| `created`, `uploaded`, `started`, `ended` | what follows it: a checkpoint, or the second write of chat:start |
| `turn` | `_generation_end` |
| `fix`, `complete` | the transaction that fixes the result; the job's |

The tasks and the reconciliation share the event loop, so `Turn` and `LoopFree` let a
task step only while the others are at an await.  Requests are handled in threads and
a crash comes at any time: both may cut in between two transactions.

| action | code |
|---|---|
| `Claim`, `Begin`, `Complete` | `claim`, `execute` |
| `Prepare`, `CreateSession`, `Upload`, `Deliver`, `StartGeneration`, `Send` | `prepare`, `deliver`, with `Open` and `Close` for the checkpoints |
| `ChatStarts`, `ChatAccepted`, `SeeEnd`, `GenerationEnd` | the events of the stream, `_generation_end` |
| `Control` | `controls` |
| `Collect`, `Gather`, `Fix` | `collect` |
| `Interrupted` (and `Raise`) | an await that raises, times out or is cancelled; `_uncertain` |
| `Scan` to `NotReplayed` | `Recovery.reconcile`, `_one` |
| `SendMessage`, `StopGeneration`, `Finish`, `Recollect` | the requests |
| `RemoteAccepts`, `RemoteEnds` | the remote service |
| `LeaseLapses`, `Crash`, `Shutdown`, `Start` | time and the process |

Abstractions: one attachment per message (`Attached`); a question is named by the
generation that asked it; the statuses of the session that the code treats alike are
one; `since` remembers how many stops came before a message, for a property only.
References of the run are read when they are used, where the code holds the copy
`execute` took; with one writer at a time they agree.  A working task keeps its lease
(`renew_lease`), so a lease lapses only when its process is gone.  Not modelled:
events, artifacts and their status, idempotency keys of requests, a failing database,
and with it the end of `renew_lease` or of `run_forever` by an exception, other runs.  `Restore`
is one step, where the code has three transactions in a row on the loop
(`recovery.py:78`, `88`, `96`): a crash or a request between them is not modelled.


## 3. Runs

| run | question | bounds | states |
|---|---|---|---|
| `queue` | can two jobs on one slot, a stop, the sweeper, a shutdown or crash and all caught faults break the queue, or hold a score back from the leader? | 2 attempts, capacity 1, 1 job each, 1 stop, 1 restart | 292,378 |
| `rejudge` | do rejudges keep revisions, displayed score and verdict consistent? | 1 attempt, 3 jobs, 1 request at a time, 1 restart, all verdicts and faults | 154,085 |
| `settle` | does every scoring that is due end? | 1 attempt, 2 jobs, a stop, a request, a restart | 415,913 |
| `group` | what do stop, sweeper, shutdown, crash and faults do to a group? | 2 cells of 2 attempts, 1 worker, 1 stop, 1 sweep, 1 restart | 353,725 |
| `dispatch` | do slots come back, and does a stop end what it reaches? | a serial run of 2 and a group's run of 1 on 1 slot, 1 stop, any sweeps | 426,733 |
| `timeline` | do two consumers keep the promise of the timeline? | 2 attempts, 2 scores, 2 scorer fingerprints, 1 rejudge or 1 convergence, 2 consumers | 610,163 |
| `cost` | one key, whole costs, no open ledger? | 2 due users and a rejudge, 2 requests, 2 settlements at once, 1 failed try, any stops, 1 restart | 208,197 |
| `judge_exception` | violation, finding 1 | 1 attempt | |
| `stopped_rejudge` | violation, finding 2 | 1 attempt, 2 jobs, 1 stop | |
| `stop_before_notify` | violation, finding 3 | 1 attempt, 1 stop | |
| `late_convergence` | violation, finding 4 | 1 attempt | |
| `skill` | what do cuts, requests and two tasks do to a run? | 2 slots, 2 messages with attachments, 1 stop, 1 collection, 1 restart | 385,724 |

What the passing runs show:

* `OutboxPerJob` — a job commits at most one score: not twice after a crash
  between commit and mark, not twice when a thread outlives its coroutine and the
  job is queued again, and not when an execution resumed after a restart is judged
  without a job.
* `JobHasTask` — while the process is up, a queued or running job whose stop was
  not accepted has a task.  (With the evals backend; see finding 1.)
* `NoJudgeAfterStop`, `NoJudgeAfterCommit`, `StopIsFinal` — action properties of
  the checks between claim and judge and of the startup requeue.
* `RevisionsIncrease`, `ScoreBacked`, `DisplayAgreesWithLeader`,
  `ExecutionVerdictKept` — across rejudges that succeed, fail, are cut by a
  crash, and a judge history that lags or misses entries.  The third speaks of
  behaviours up to the first stop, which takes the score away (finding 2); the run
  has none, and the theorems about the other three hold for any number.
  `ExecutionVerdictKept` is checked in `queue` too, with a stop, and exempts the one
  writer that the code does not keep from changing a verdict: a stop that has read the
  row while the execution was open (finding 4).
* `ScoringSettles` — everything due ends, unless the startup is blocked by the
  outbox (finding 3 is how it gets there).
* `ShownScoresReachLeader` — without stops a committed score does not stay behind,
  whichever notification a restart drops and whatever the sweeper overwrites, as long
  as an attempt of the scope still shows a score to elect for it.  A sweep that writes
  `scoring_failed` over the only one leaves a row like that of finding 3.
* `KeepsPromise` (group) — the refinement of `CellPromise`: across restarts that
  find a run half created, resumed groups and stops, no agent is started twice,
  none for a cell that waits, and a cell goes back to the queue only untouched.
* `ProvisioningHasWorker`, `RunningCellHasOwner` — no cell is left in a state
  nobody would take it out of.  The second, like `GroupShowsCells`, is stated for
  behaviours without a sweep: the sweeper's late write breaks both (section 4).
* `OnlySweepReopens` — what the code keeps of "terminal cancellation is never
  overwritten".
* `SlotReturns` (group) — the process-wide slot of groups is given back.
* `NoAgentAfterStop`, `StopIsTheEnd` — after a stop no agent starts and no one
  writes a row it closed, apart from the attempts in `missed`, a low-disk thread that
  was on its way, and a sweep that had read the row while it was open.
* `EveryAttemptHasItsTurn` (dispatch) — with agents that never end
  and preparations that hang, the sweeper alone frees every slot and every attempt
  is reached, except behind a cut attempt of a serial run.
* `KeepsPromise`, `FinalIsFinal` (timeline) — what two consumers keep that read, elect
  and write across each other, while attempts are scored again or closed between any
  two of their reads: no row gets two events, every leader named was the best of those
  its call could see, and a final scope grows only by what a rejudge or a late end
  explains.
* `OneKeyPerScope`, `AuditableIsComplete`, `KeyNotCut`, `LedgerEnds`,
  `PricedKeyIsDisabled` — keys across lost answers, waiters that give up, stops that
  miss an attempt, two settlements and a restart, apart from users the rows do not show
  (`aside`).
* `NothingReplayed`, `SentWhole`, `OneWriter` — the checkpoints do their work: whatever
  is cut, at every await and between requests, nothing goes out twice or incomplete,
  and no reconciliation acts beside a task.
* `WaitingIsQuiet` — of a run that no restart cuts: a stop that finds nobody at work
  may show the run waiting at once, and only then.  Section 4 tells how it, and
  `Serial`, `CompletedIsQuiet` and `FailureStays`, which no run checks, fail in a run
  that is resumed.
* `FinishServed` — a finish ends the run, with a restart anywhere; a second one may cut
  the reconciliation (section 4).

Each property has a mutant (PROJECT.json): a definition of the model replaced by
the `Wrong...` definition before it, which TLC must find out.

### Bounds

`MaxJobs`, `MaxStops` and `MaxRestarts` bound how many jobs an attempt gets, stops
and process ends; `Requests` is the set of rejudges in flight together.  They are
guards of `Enqueue`/`RejudgeCheck`, `StopScoring` and `Shutdown`/`Crash`.  Two
attempts are enough to compete for one slot and to be each other's elected row;
three jobs are enough for a rejudge after a rejudge that failed, whose saved score
is itself a restored one; one restart falls between any two steps of anything.

In RunGroup two cells with one worker give a cell in progress beside one that
waits, and two attempts a run that is half created; one stop, one sweep and one
restart meet in any order.  In AttemptDispatch one slot is contended by a serial
run and a group's run; sweeps are not bounded, since each closes rows.  In
LeaderTimeline two attempts with two scores tie, overtake each other and are
rejudged or closed; a rejudge adds a third score; two consumers overtake each other
between any two reads, and a third would repeat what one of them does.  `MaxTurns`
bounds rejudges and convergences together.  In CostKeys a third user is a rejudge that
comes at any time, two requests may fall on both sides of a poll, and two
settlements run at once; `MaxEnds` bounds the projections of an ended attempt.

In SkillSession two messages are a prompt and a follow-up or answer that waits behind
it; one restart meets a delivery at any of its steps, and the follow-up, the stop and
the finish may come before or after its reconciliation; two slots let two tasks look
for work of the run.

`CHECK_DEADLOCK FALSE`: a system where all is scored, or stopped, is quiet.
Symmetry is used only in runs without liveness properties.

### Fairness

The event loop runs a ready task and the executor a submitted call (weak fairness
of each task's steps and each thread's transaction), a cancelled task gets its
`CancelledError`, an accepted rejudge or stop request runs on, the sweeper's loop
and the cost scan come round, time passes, and a process that is down is started
again.  In RunGroup an execution and a scoring end, since each has a deadline; in
AttemptDispatch, which has the deadlines, neither the agent nor the preparation is
assumed to end.  In CostKeys attempts and judges end and the upstream grants a
disable at last.  No fairness for what nobody owes: a user's stop or rejudge, a
shutdown, a crash, in ScoringQueue the end of an execution.  In SkillSession the loop of
the worker turns and its awaits end, by an error at the latest, since the runtime's
calls and a generation have timeouts; the lease of a dead process lapses and the
process is started again; the remote service and the user owe nothing.  `LeaderTimeline` has no
liveness: that rows are consumed is ScoringQueue's `ShownScoresReachLeader`.

## 4. Findings

Each is a run that TLC refutes; the quotes are in PROJECT.json.

1. `judge_exception`: with the subprocess judge backend `except EvalsJudgeError`
   (`scoring_queue.py:807`) reads a local name that was never bound, so a plain
   exception in the judge becomes an `UnboundLocalError` that no clause handles;
   the job stays `running` without a task until its deadline.
2. `stopped_rejudge`: a stop during a rejudge clears the score and nothing gives
   the previous one back (`scoring_queue.py:911`).
3. `stop_before_notify`: a stop between a commit and its notification leaves an
   outbox row that no attempt of the scope can stand for; `max()` raises on every
   later consumption and at startup (`experiments/leader.py:129`, `main.py:204`).
   "A dropped notification is safe" (`runner.py:656`) does not hold for it.
4. `late_convergence`: `converge_attempts` SELECTs the rows in autocommit and UPDATEs
   them by id alone (`convergence.py:72-76`, `88-107`), so a row that becomes terminal
   in between is written again, where its docstring says that terminal rows stay as
   they are.  In the run a sweep writes `scoring_failed` over a scoring that has just
   ended.  In the same way it takes a freshly committed score out of the election, a
   sweep's timeout replaces a user's stop, and a stop replaces the verdict of an
   execution that has just completed; the exemptions `LateVerdict` (ScoringQueue) and
   `FoundOpen` (AttemptDispatch) name these cases.

Further disagreements the models reproduce or leave room for, without a run of
their own.

Scoring queue:

* A crash between commit and mark, then a second restart: the startup reopens the
  attempt (`scoring_queue.py:867`), the claim finds the job committed and marks the
  job only, and when a restart falls there again no queued job is left to close the
  attempt.  `ScoringSettles` fails with `MaxRestarts = 2`; `settle` keeps 1.
* A stop racing the commit thread: the commit writes a score over the row the stop
  has just closed (`experiments/scoring.py:223`; the design document, lines
  246-249 and 853-854, asks that it does not).
* The sweeper passes `scoring_failed` for the scoring axis too, so an attempt past
  its scoring deadline loses the legacy status of its execution
  (`sweeper.py:122-126`).
* The paths for a judge error and for a cancelled job return without
  `_refresh_run_status` (`scoring_queue.py:624`, `660`): `runs.status` may stay
  `scoring` after every attempt is closed.
* A stop before `record_judge_run` makes a judge history row with score 0
  (`provenance.py:338`).
* A stop inside the claim's window leaves the job row `running` with
  `cancel_requested` for ever, which blocks a rejudge of the attempt.
* Two rejudges of one attempt that both pass the check: the second purges the job
  of the first, and can leave the attempt `queued` without a job.  When the commit of
  the first is under way meanwhile and the second fails later, the score given back
  is the older one, though the leader ranks the newer: with two `Requests`,
  `DisplayAgreesWithLeader` fails.
* `_prepare_rejudge` deletes the job before it checks the artifacts, so a 409
  answer has already removed it.
* A missing attempt, task or environment (`scoring_queue.py:519-523`) raises before
  the names the handlers use are bound, with either backend; the runs exclude the
  fault `environment` for that reason.
* After a restart a local agent that is still alive keeps its attempt `running`
  with no task that waits for it (`recovery.py:541-549`).

Run groups:

* `StopSticks` fails (the definition is in the module, no run checks it): the
  sweeper's thread reads a cell, a stop cancels it, and the thread writes what it
  computed (`experiments/recovery.py:69`; the docstring at line 52 says "terminal
  cancellation is never overwritten").
* `QueuedCellsGoOn` fails: a crash while one cell is being scored and another is
  still queued finds the group projected `scoring`; the startup resumes only groups
  that are queued or running, and the queued cell waits for ever
  (`experiments/coordinator.py:291-292` calls startup recovery the "durable
  fallback").
* A cell that is stopped while it is provisioned is dispatched all the same, without
  being linked to its run, so no later stop of the group finds it
  (design document, line 231: a stop must interrupt execution and scoring).
* A group that was stopped is projected `partial` again when one of its cells had
  completed (design document, lines 678-688 and 855-856: `cancelled` wins).
* A graceful shutdown marks the cells under way `cancelled`, which the design
  document (line 140) reserves for a user's stop.
* A crash between the mark of a scoring job and `_refresh_run_status` leaves the cell
  `scoring`: no later projection comes.
* When `create_attempt` raises, the attempts created before it stay `queued` until a
  restart.

Dispatch:

* A stop of a run whose dispatcher has not created its tasks finds nothing to cancel.
  `_mark_running` then changes nothing, its result is not looked at, and the agents
  start, run without a deadline and overwrite the cancelled rows (`api.py:1965` says
  that the source of new work is stopped first).  `missed` exempts these attempts
  from `NoAgentAfterStop`, `StopIsTheEnd` and, as `Unbounded`, from liveness; the cost
  keys meet them too, below.
* A serial run is given up after the sweeper cuts one of its tasks
  (`run_service.py:722-725`; `convergence.py:188-190` explains that only the overdue
  attempt is to be cut).
* A thread of `_mark_low_disk` that a stop overtakes overwrites the cancelled row.
* An execution that ends between the sweep's write and the callback of its cancel
  overwrites the timeout (`sweeper.py:84-86` rests on writers moving non-terminal
  rows only, which `run_attempt` does not do), and a sweep that converges after the
  enqueue writes scoring `skipped` under a queued job.

Cost keys:

* The agent of an attempt that a stop missed opens a key and spends on it though its
  row reads `cancelled`; `_scope_finished` (`settler.py:318-325`) then takes the scope
  for finished, and the key is priced and disabled under the agent (`settler.py:244-246`
  says that only keys that spend no more are settled).
* A rejudge that comes during a settlement uses a key that is disabled under it, or
  spends after the cost was read (`settler.py:244-246` says only keys that spend no
  more are settled).
* The judge thread of a stopped job goes on spending; the scope counts as finished.
* The synchronous judge of a resumed attempt (`runner.py:537-543`) falls back to
  another key and notes it for the run, without marking the judge's row, as
  `_mark_judge_unaudited` does (`scoring_queue.py:971-976`).
* A row failed by `settle_exhausted` has `key_disabled` NULL, and the retry selects
  rows with 0 (`settler.py:266`, `292`): its key is never disabled.
* A dispatch cancelled between the creation of a key and its registration leaves an
  upstream key without a row that knows it.

Leader timeline:

* A sibling's row consumed during a rejudge elects without the attempt being judged
  again, and when that rejudge fails nothing corrects the timeline (`away` in
  `LeaderPromise`).
* When the last attempt of a scope ends without a score no "scope-finalized" event is
  ever written, while `final_leader_state` calls the scope final.
* `replay_leader_events` has no caller outside tests.
* The docstring of `consume_score_outbox` (`experiments/leader.py:91`) promises
  "deterministic global sequence order", and two scoring jobs, which the default
  configuration runs at once, do not keep it: a call that took an older row reads the
  number of its event after the other has written the event of a newer row
  (`experiments/leader.py:158`).  The last event of a scope may so be an election, or a
  previous leader, that the other call had overtaken.  `LeaderPromise` promises no order
  for that reason; what it keeps is what two consumers keep.

Skill evaluation:

* A stop that arrives between the end of a generation and the reconciliation of its job
  stays set and cancels a later message.
* With a restart `WaitingIsQuiet` fails: a stop while the observer is still queued
  finds nobody at work and shows the run waiting, with its generation under way.
* With a restart `Serial` fails: the observer of a generation is queued behind a
  message that was posted meanwhile, which is sent into the generation
  (`skill_eval/recovery.py:70`; `docs/specs/261021-eval-skill/design.md:252` asks that
  a session's messages are serial).
* With a restart `FailureStays` fails: behind a finish, the observer puts the run the
  finish has ended back to `finishing`, for good (`skill_eval/worker.py:267`;
  `design.md:248` calls a finish idempotent).
* With a restart `CompletedIsQuiet` fails: a run given up with a message in flight may
  be shown waiting by the observer of an earlier one, and then be completed.
* With two restarts `FinishServed` fails: one that cuts a reconciliation after its CAS
  leaves the job `reconciling`, which nobody takes up and which blocks the run
  (`skill_eval/recovery.py:17`, `36`).
* `SkillBeforeChat` fails: a stop during a preparation that a crash has cut cancels the
  job that would upload the skill; the follow-ups go to a session without it
  (`skill_eval/runs.py:226`).
* `StopCancelsQueue` fails: a stop during an upload is ignored when a finish follows,
  and one during a generation leaves the message queued behind it
  (`skill_eval/worker.py:195`; `tasks.md:378` lists the cancellation of the queue).
* `CompletedStays` fails: a recollection that cannot read the session turns a completed
  run into a failed one (`skill_eval/worker.py:382`).
* `AnsweredOnce` fails with three messages and a restart: a stop asks again a question
  whose answer was sent (`skill_eval/runs.py:227`; `design.md:98` forbids it).
* Outside the model: `renew_lease` ends at its first failed transaction while its task
  goes on (`skill_eval/worker.py:33`).  During an upload nothing else renews the lease;
  the reconciliation then puts the job back and the same process may claim it with a
  second task, which `checkpoint()` does not tell from the first, since it compares the
  owner's name only (`worker.py:61`).
* A question can be passed over: a follow-up posted before it was asked is delivered
  while it is pending (`skill_eval/runs.py:170` asks for an answer first).
* A message of a run that the reconciliation gives up keeps `pending` or `sending`
  (`docs/specs/261021-eval-skill/tasks.md:356` lists the states a user can query).
* A crash after a stop has cancelled the message of a job at its last check makes the
  run fail with `acceptance_unknown`, though nothing was sent (`skill_eval/recovery.py:50`).
* An exception in `claim()` ends `run_forever` until the next start.

## 5. Proofs

For every value of the constants that meets the assumption of the module: any
cells, agents, workers, runs and plans, attempts, users, messages, scores, faults and
bounds.
The assumptions (`ScoringQueueAssumption`, `RunGroupAssumption`,
`AttemptDispatchAssumption`, `LeaderAssumption`, `CostKeysAssumption`,
`SkillSessionAssumption`) give the
types of the constants, and that a plan names each attempt once; TLC evaluates them
on every run.  `NoJobStranded` and `DisplayIsRanked` have
an assumption each, explained below.

| module | theorem | property |
|---|---|---|
| `ScoringQueueProofs` | `TypeCorrect` | `TypeOK` |
| | `RevisionOrder` | `RevisionsIncrease` |
| `ScoringTaskProofs` | `OneCommitPerJob` | `OutboxPerJob` |
| | `CommittedIsNotJudged` | `NoJudgeAfterCommit` |
| | `StopHolds` | `StopIsFinal` |
| | `StoppedIsNotJudged` | `NoJudgeAfterStop` |
| | `DisplayedIsCommitted` | `ScoreBacked` |
| `ScoringStrandProofs` | `NoJobStranded` | `JobHasTask`, assuming the evals backend and a complete environment |
| | `VerdictStays` | `ExecutionVerdictKept` |
| | `DisplayIsRanked` | `DisplayAgreesWithLeader`, one rejudge request at a time |
| `RunGroupProofs` | `TypeCorrect` | `TypeOK` |
| | `WorkerForProvisioning` | `ProvisioningHasWorker` |
| | `CancelledStays` | `OnlySweepReopens` |
| | `PromiseKept` | `KeepsPromise` (refinement of `CellPromise`) |
| | `RunningCellOwned` | `RunningCellHasOwner` |
| | `GroupShown` | `GroupShowsCells` |
| `DispatchProofs` | `TypeCorrect` | `TypeOK`, with the slots held within the capacity |
| | `StoppedStartsNoAgent` | `NoAgentAfterStop` |
| | `StoppedRowStays` | `StopIsTheEnd` |
| `LeaderProofs` | `TypeCorrect` | `TypeOK` |
| | `FinalStays` | `FinalIsFinal` |
| | `PromiseKept` | `KeepsPromise` (refinement of `LeaderPromise`) |
| `CostProofs` | `TypeCorrect` | `TypeOK` |
| | `OneKey` | `OneKeyPerScope` |
| | `AuditableCosts` | `AuditableIsComplete` |
| | `KeyOutlivesUsers` | `KeyNotCut` |
| `SkillProofs` | `TypeCorrect` | `TypeOK` |
| | `OneWriterHolds` | `OneWriter` |
| | `NothingIsReplayed` | `NothingReplayed` |
| | `SentIsWhole` | `SentWhole` |
| | `WaitsQuietly` | `WaitingIsQuiet` |

No invariant but the types of ScoringQueue is inductive as it stands; each needs a
strengthening that says why the code is right.

* **`RevisionOrder`.**  `_next_score_revision` takes the first number above the
  judge history that the outbox lacks, so an increasing order could still have a
  hole, which a later commit would fill with a number smaller than its
  predecessor's.  `RevisionInv` rules this out: above the judge history the
  revisions of an attempt have no gap, none lies above the last one, and the last
  one is at most the history plus the number of outbox rows (so the search finds a
  number).  `record_judge_run` keeps it because it gives its row either the outbox's
  greatest revision or the next of the history.
* **The task theorems.**  The step cases are done once: `Moves` reduces every step
  to what it does to one task (`TaskMove`: it stays, ends, takes one of the
  fourteen resumptions, is created, or is scheduled by a startup), `ThreadMove` to
  the threads it starts, and `JobMoves` to what it does to one job row (schedules,
  purges, advances or stops it).  `TaskInv` is then proved from these: tasks and
  threads have a number their attempt has given out; a process that is down runs
  nothing; the coroutine of a running commit thread waits for it or was cancelled;
  a job about to be judged has not committed; an execution that has committed is
  never resumed.  The third is what makes the fourth inductive, since it is the only
  way a late thread could commit a job that is about to be judged, and with the
  fifth it gives one commit per job.  `StopDelivered` (the coroutine of a stopped
  job past its last check has a cancel pending) gives `NoJudgeAfterStop`;
  `StopIsFinal` follows from `JobMoves` alone.
* **`DisplayedIsCommitted`.**  `BackedInv` adds that the score saved in a job row
  and the one a rejudge request carries were committed too, because a failure gives
  the saved one back.
* **`NoJobStranded`.**  `StrandInv`: the task of a job that is due exists and has no
  cancel pending; a task that waits or claims finds its job queued, so its claim is
  not in vain; a coroutine that only has to notify has closed its job; the coroutine
  of a running claim waits for it.  `TaskEnds` lists every way a task may end, and
  none of them is open to a task whose job is due.  The assumption is needed:
  `judge_exception` (finding 1) is the counterexample without it.
* **`VerdictStays`.**  These store a verdict whatever the row holds: the end of an
  execution, the interruption of a lost one, the enqueue of a rejudge, and a
  convergence for the axes it has read as open.  `RowMove` says that a step leaves the
  execution axis of an attempt or is one of them, or writes a row that is open.
  `VerdictInv` then says why none of them but the exempt stop meets a verdict it would
  change: a coroutine of an execution that may store its end has a fresh row (legacy
  status queued or running) and no stop under way; a fresh row is open, has no scoring
  job, and is not on a sweeper's list, and a stop that has read it has read its
  execution as open; a sweep never finds an execution open, since what it lists is
  scored; a rejudge was asked for a verdict, which the enqueue stores again; and a stop
  does not outlive its process, so that no startup resumes an execution in the middle
  of one.
* **`DisplayIsRanked`.**  `Stands(a, s)`: `s` is the score of the last outbox row of
  `a`.  `DisplayInv` says where it is found: in the `prev` of a job that is still to be
  scored and has not committed (`OpenJob`), and then the attempt does not count as
  scored; in the request of a rejudge that has been checked; else in the attempt.
  A failure gives back `prev`, so it must be the failure of an open job (`Owning`: a
  task at work, and a commit or failure thread that runs, belong to the job the
  attempt has now, and that job is open), and a completion must not (`Owning` again:
  past its commit the row is in the outbox).  A commit thread that outlived its
  coroutine is the hard case: the job is queued again under it, and becomes settled
  by the commit while its row still says queued.  `ShowMove` names the seven moves
  of an attempt that the proof distinguishes.  Both hypotheses are needed: after a
  stop the score is gone (`stopped_rejudge`, finding 2), and two rejudges that both
  pass the check can give back a score that a commit between them has replaced
  (section 4).

* **RunGroupProofs.**  `Room`: an attempt is created only where the plan still has
  room, so the types hold though two processes create one run in pieces.  `Life`: a
  worker's cell is not queued; a process that is down has no workers; a cell in
  provisioning has a worker that launches or creates; a cell that waits or is being
  created has started nothing and has no task about to; a waiting task belongs to an
  attempt that was never started.  `Move` says what a step does to one cell (the same,
  taken, given up, shown by a projection, advanced, lost, recovered) and is proved once
  for all actions (`NextMoves`); `TaskMoves` does it for tasks.  The three theorems
  beyond the types follow from these.  The first queued cell that `TakeNext` chooses
  exists by a least counterexample (`WFMin`, `NatLessThanWellFounded`).
  `RunningCellOwned` and `GroupShown` rest on `Care`: until a sweep a running cell is
  linked to its run (`Links`); a dispatch has a row and a thread that creates one has a
  worker that waits for it (`Memory`); only attempts that are not queued any more are
  told to cancel, and only in a cancelled cell (`Cancels`), so that no cancel takes a
  running cell's last dispatch away; a queued attempt has a dispatch that waits or a
  worker that creates (`Queued`); workers belong to the group's task (`TaskWorkers`).
* **DispatchProofs.**  `StopReaches`: what a stop has closed, or is about to close, is
  missed or quiet — over, cut, or of a dispatcher that creates no further task.  It
  rests on `InPlanOrder` (tasks are created in the order of the plan, a serial one
  when the last is over), `CancelsAreLive`, `ClosedRows` and `JobsAfterAgent`, the
  last because a scoring job would have to be closed too.  `ReadCovers` bridges the
  stop's read and its write: what it found open of an attempt it did not miss covers
  what is open when it writes, and is nothing if an earlier stop closed the row.
* **LeaderProofs.**  Nothing is assumed of what another call writes between the reads
  of one.  `Carries`: what a call carries was elected from the rows up to its own and
  whom it found away (`Elected`), and the leader it read, though it need not lead any
  more, has led.  `Written`: an event comes with the mark of its row, and says whether
  the row ended the scope; so a row never has two.  `PaidFor`: the rows after one that
  ended the scope, with the work that may still add one, are no more than the rejudges
  and the attempts that were closed before their work was over (`late`).  That a field
  has a best standing is shown by a least counterexample.
* **CostProofs.**  `Lease`: one maker of a key, and none once the row has it.  `Over`:
  a settlement runs when all users but those missed or set aside are closed, and a
  disabled row keeps everybody from the key; `Unseen` says that a missed user is set
  aside, or waits for its scoring job, which takes it off `missed` when it comes.
  `Audited`: a row that can still become auditable has no stray it does not know.
  `Priced`: what a settlement has read stays what was spent.  `Alone` covers the scope
  of an attempt, `Tried` the tries of two settlements.
* **SkillProofs.**  `Writer`: one job is at work, its lease has not lapsed while a task
  of this process holds it, and a reconciliation holds the job it has chosen; `Kinds`
  says which phases of a job a place of a task can have.  `OneSession` names the case
  that matters: when a session may have been created and the run does not know it, the
  first job is over, or its checkpoint says so and no task holds it (`Spent`), so that
  the decision of the recovery cannot put it back.  `Mail`: each message has one job
  that delivers it, and waits until its generation is started; a job put back after a
  crash has a message that waits.  `Whole` carries what was looked at in `deliver` to
  the chat, past the requests that write the run's row in between.  `TaskWrites`
  reduces every action of a task to one of six moves, `RecMoves`, `RequestMoves` and
  `OutsideMoves` the others, and each part of `IInv` is proved from these.
  `WaitsQuietly` has an invariant of its own, `Calm`: without a restart no job observes
  and no lease of this process lapses, a task between its chat and its last write has
  an active run, and a generation under way is that of a chat some task holds open,
  or the chat broke off and the run has failed.

Stay with TLC: the liveness properties (`ScoringSettles`, `ShownScoresReachLeader`,
`SlotReturns`, `EveryAttemptHasItsTurn`, `LedgerEnds`, `PricedKeyIsDisabled`,
`FinishServed`; fairness and ENABLED are out of the prover's reach).  Every other
property of a passing run is stated by a theorem.

## 6. Composition and what is left

The modules meet in rows and projections.  RunGroup sees a dispatch and a scoring as
steps that end with a status; AttemptDispatch and ScoringQueue are what happens
inside them, and share `AttemptFacts`; LeaderTimeline takes the commits of
ScoringQueue as its `Commit`; CostKeys takes the jobs as its users.  SkillSession has a
database and a worker of its own and shares only the process.  The common
interfaces are checked on one side only: no run composes them all, whose product is
out of TLC's reach.

Left, in this order: several groups with their admission in one module; the wire
capture lifecycle; several runs of the skill evaluation on one worker; the iteration
controller.
