---- MODULE RunGroup ----
(***************************************************************************)
(* One run group: the coordinator that takes its cells through provisioning *)
(* and dispatch, the projection of attempts to cell to group, the group's   *)
(* stop, and what a startup makes of an unfinished group.                   *)
(*                                                                          *)
(* The coordinator, the routes, the dispatch and scoring tasks share one    *)
(* event loop: a step is the code between two awaits.  create_attempt runs  *)
(* in a thread (`insert`), and so does the deadline sweeper (`sweep`),      *)
(* whose projection reads and writes in steps of their own: a SELECT opens  *)
(* no transaction, so nothing keeps the loop from writing in between.       *)
(***************************************************************************)
EXTENDS Naturals, FiniteSets, Sequences

CONSTANTS
  CellCount,    \* cells of the group, in the order of created_at, id
  AgentCount,   \* agents of the protocol: attempts of each run
  Workers,      \* cell_workers
  ExecEnds,     \* how executions end
  ScoreEnds,    \* how scorings end
  Faults,       \* "input": no frozen input; "create": create_attempt raises
  MaxStops,     \* bound: group stops
  MaxSweeps,    \* bound: attempts the sweeper converges
  MaxRestarts   \* bound: shutdowns and crashes

ASSUME RunGroupAssumption ==
  /\ {CellCount, AgentCount, Workers} \subseteq Nat \ {0}
  /\ ExecEnds \subseteq {"scoring", "scoring_failed", "failed"}
  /\ ScoreEnds \subseteq {"completed", "unscored", "failed"}
  /\ Faults \subseteq {"input", "create"}
  /\ {MaxStops, MaxSweeps, MaxRestarts} \subseteq Nat

VARIABLES
  \* the database
  attempt,    \* the attempts of each cell's run in the order of creation
  run,        \* runs.status of each cell's run
  claim,      \* the idempotency key of each cell's run
  cell,       \* run_group_cells: status, and whether run_id is set
  group,      \* run_groups.status
  \* memory
  gtask,      \* the group's task
  fresh,      \* workers created that have not run yet
  todo,       \* the queue of cells
  worker,     \* where the worker of each cell stands
  insert,     \* cells for which a create_attempt thread runs
  task,       \* the dispatch task of each attempt
  scored,     \* attempts whose scoring has ended and is not projected yet
  cancelled,  \* tasks whose cancel() is not delivered yet; <<c, 0>>: a worker
  sweep,      \* the sweeper between two of its transactions
  up,
  \* history and bounds
  starts,     \* how often each attempt was started by a dispatch
  stops, sweeps, restarts

facts == <<attempt, run>>
rows == <<facts, claim, cell, group>>
coordinator == <<gtask, fresh, todo, worker, insert>>
tasks == <<task, scored, cancelled>>
clock == <<starts, stops, sweeps, restarts>>
vars == <<rows, coordinator, tasks, sweep, up, clock>>

Cells == 1..CellCount
Attempts == Cells \X (1..AgentCount)
Open == {"queued", "running"}
\* "unscored" is a completed execution without a score.
AttemptStatus == Open \union {"scoring", "completed", "unscored",
                              "scoring_failed", "failed", "cancelled"}
RunStatus == Open \union {"absent", "scoring", "completed", "cancelled", "failed"}
CellStatus == Open \union {"provisioning", "scoring", "completed", "partial",
                           "failed", "cancelled"}
GroupStatusValue == CellStatus \ {"provisioning"}
ActiveCell == {"queued", "provisioning", "running", "scoring"}
Idle == [phase |-> "idle"]

Busy(c) == {i \in 1..AgentCount : task[<<c, i>>] # "none"}
TasksOf(c) == {<<c, i>> : i \in Busy(c)}

-----------------------------------------------------------------------------
(* Projections.                                                            *)

All(rs, S) == \A i \in DOMAIN rs : rs[i] \in S
Some(rs, S) == \E i \in DOMAIN rs : rs[i] \in S

\* _refresh_run_status, the part that stores runs.status.
RunOf(rs) ==
  CASE Some(rs, Open)                               -> "running"
    [] Some(rs, {"scoring"}) /\ ~Some(rs, Open)     -> "scoring"
    [] All(rs, {"completed", "unscored"})           -> "completed"
    [] /\ Some(rs, {"cancelled"})
       /\ All(rs, {"completed", "unscored", "cancelled"}) -> "cancelled"
    [] OTHER                                        -> "failed"

\* _attempt_projection
WrongCellOf(rs) ==
  CASE rs = <<>>                              -> "failed"
    [] Some(rs, Open \union {"scoring"})      -> "running"
    [] rs # <<>> /\ All(rs, {"completed"})    -> "completed"
    [] OTHER                                  -> "failed"
CellOf(rs) ==
  CASE rs = <<>>                                -> "failed"
    [] Some(rs, Open)                           -> "running"
    [] Some(rs, {"scoring"}) /\ ~Some(rs, Open) -> "scoring"
    [] rs # <<>> /\ All(rs, {"cancelled"})      -> "cancelled"
    [] rs # <<>> /\ All(rs, {"completed"})      -> "completed"
    [] /\ ~Some(rs, Open \union {"scoring"})
       /\ ~All(rs, {"completed"})
       /\ Some(rs, {"completed", "unscored", "scoring_failed"}) -> "partial"
    [] OTHER                                    -> "failed"

\* _terminal_from_run
TerminalOf(status) == IF status \in {"completed", "cancelled"} THEN status
                      ELSE "failed"

\* _group_status
GroupOf(cells, previous) ==
  LET S == {cells[c].status : c \in Cells} IN
  IF S \intersect {"provisioning", "running"} # {} THEN "running"
  ELSE IF "scoring" \in S THEN "scoring"
  ELSE IF S = {"queued"} THEN "queued"
  ELSE IF "queued" \in S THEN "running"
  ELSE IF S = {"cancelled"} THEN "cancelled"
  ELSE IF S = {"completed"} THEN "completed"
  ELSE IF S \intersect {"completed", "partial"} # {} THEN "partial"
  ELSE IF previous = "cancelled" THEN "cancelled"
  ELSE "failed"

\* project_cell_for_run, which is given a run: a cell not linked to it, or
\* cancelled, is left alone.
Projected(c, rs, cells) ==
  IF cells[c].linked /\ cells[c].status # "cancelled"
  THEN [cells EXCEPT ![c].status = CellOf(rs)] ELSE cells

\* _refresh_run_status on the loop: run, cell and group in one step.
WrongRefresh(c) ==
  /\ run' = [run EXCEPT ![c] = RunOf(attempt'[c])]
  /\ cell' = Projected(c, attempt'[c], cell)
  /\ UNCHANGED group
Refresh(c) ==
  /\ run' = [run EXCEPT ![c] = RunOf(attempt'[c])]
  /\ cell' = Projected(c, attempt'[c], cell)
  /\ group' = IF cell[c].linked /\ cell[c].status # "cancelled"
              THEN GroupOf(cell', group) ELSE group

-----------------------------------------------------------------------------
(* run_group                                                               *)

\* transition_cell on the cells given: conditional on the status it expects.
WrongTransition(cells, c, expected, target) ==
  IF cells[c].status \in expected \ {"provisioning"}
  THEN [cells EXCEPT ![c].status = target] ELSE cells
Transition(cells, c, expected, target) ==
  IF cells[c].status \in expected
  THEN [cells EXCEPT ![c].status = target] ELSE cells

\* A worker gets cells from the queue until one of them is still queued, which
\* it takes to provisioning, or the queue is empty and it ends.
WrongFirstQueued(cells) == {i \in DOMAIN todo : TRUE}
FirstQueued(cells) == {i \in DOMAIN todo : cells[todo[i]].status = "queued"}
TakeNext(cells, places) ==
  IF FirstQueued(cells) = {}
  THEN /\ cell' = cells /\ worker' = places /\ todo' = <<>>
  ELSE LET i == CHOOSE k \in FirstQueued(cells) :
                  \A l \in FirstQueued(cells) : k <= l
           c == todo[i]
       IN  /\ cell' = [cells EXCEPT ![c].status = "provisioning"]
           /\ worker' = [places EXCEPT ![c] = "launching"]
           /\ todo' = SubSeq(todo, i + 1, Len(todo))

\* The worker of c is done with it.
WrongLeave(c, cells) == TakeNext(cells, worker)
Leave(c, cells) == TakeNext(cells, [worker EXCEPT ![c] = "none"])

\* The group's task runs: a resumed one first waits for the recovery tasks of
\* its runs and projects the group.
BeginGroup ==
  LET status == IF gtask = "resuming" THEN GroupOf(cell, group) ELSE group IN
  /\ up = "up" /\ gtask \in {"scheduled", "resuming"}
  /\ gtask = "resuming" => \A c \in Cells : cell[c].linked => Busy(c) = {}
  /\ IF status \in {"queued", "running"}
     THEN /\ group' = "running" /\ gtask' = "running"
          /\ fresh' = Workers
          /\ todo' = [c \in Cells |-> c]
     ELSE group' = status /\ gtask' = "none" /\ UNCHANGED <<fresh, todo>>
  /\ UNCHANGED <<facts, claim, cell, worker, insert, tasks, sweep, up,
                 clock>>

WorkerStarts ==
  /\ fresh > 0
  /\ fresh' = fresh - 1
  /\ TakeNext(cell, worker)
  /\ UNCHANGED <<facts, claim, group, gtask, insert, tasks, sweep, up,
                 clock>>

\* All workers have ended.  A group task that was cancelled raises instead of
\* projecting.
GroupEnds ==
  /\ gtask = "running" /\ fresh = 0
  /\ \A c \in Cells : worker[c] = "none"
  /\ gtask' = "none"
  /\ group' = IF up = "up" THEN GroupOf(cell, group) ELSE group
  /\ UNCHANGED <<facts, claim, cell, fresh, todo, worker, insert, tasks,
                 sweep, up, clock>>

-----------------------------------------------------------------------------
(* _provision_cell                                                         *)

At(c, place) == worker[c] = place /\ <<c, 0>> \notin cancelled

InputMissing(c) ==
  /\ "input" \in Faults /\ At(c, "launching")
  /\ Leave(c, Transition(cell, c, {"provisioning", "running"}, "failed"))
  /\ UNCHANGED <<facts, claim, group, gtask, fresh, insert, tasks, sweep,
                 up, clock>>

\* create_run_plan claims the key of the cell.  A run that exists already, left
\* by a process that died, is taken over without any dispatch: the cell is
\* linked to it and ends with it in this very step.
TakeOver(c) ==
  /\ attempt[c] # <<>>
  /\ claim' = [claim EXCEPT ![c] = "completed"]
  /\ Leave(c, IF cell[c].status = "provisioning"
              THEN [cell EXCEPT ![c] = [status |-> TerminalOf(run[c]),
                                        linked |-> TRUE]]
              ELSE cell)
  /\ UNCHANGED task

ClaimRun(c) ==
  /\ At(c, "launching")
  /\ IF claim[c] = "in_progress"
     THEN /\ Leave(c, Transition(cell, c, {"provisioning"}, "failed"))
          /\ UNCHANGED <<claim, insert, task>>
     ELSE \/ TakeOver(c) /\ UNCHANGED insert
          \/ /\ attempt[c] = <<>>
             /\ claim' = [claim EXCEPT ![c] = "in_progress"]
             /\ worker' = [worker EXCEPT ![c] = "creating"]
             /\ insert' = insert \union {c}
             /\ UNCHANGED <<cell, todo, task>>
  /\ UNCHANGED <<facts, group, gtask, fresh, scored, cancelled, sweep, up,
                 clock>>

\* _create_attempt_sync: the run's row with its first attempt.
InsertAttempt(c) ==
  /\ c \in insert
  /\ insert' = insert \ {c}
  /\ attempt' = [attempt EXCEPT ![c] = Append(@, "queued")]
  /\ run' = [run EXCEPT ![c] = IF @ = "absent" THEN "queued" ELSE @]
  /\ UNCHANGED <<claim, cell, group, gtask, fresh, todo, worker, tasks,
                 sweep, up, clock>>

\* The thread raises: the cell fails, the claim and the attempts created so far
\* stay.
CreateFails(c) ==
  /\ "create" \in Faults /\ At(c, "creating") /\ c \in insert
  /\ insert' = insert \ {c}
  /\ Leave(c, Transition(cell, c, {"provisioning", "running"}, "failed"))
  /\ UNCHANGED <<facts, claim, group, gtask, fresh, tasks, sweep, up,
                 clock>>

WrongPlanComplete(c) == Len(attempt[c]) > AgentCount
PlanComplete(c) == Len(attempt[c]) = AgentCount

\* create_attempt returns: the next one, or the plan is complete, the cell is
\* linked if it is still provisioning, and the dispatch begins either way.
Created(c) ==
  /\ At(c, "creating") /\ c \notin insert
  /\ IF ~PlanComplete(c)
     THEN insert' = insert \union {c} /\ UNCHANGED <<claim, cell, worker, task>>
     ELSE /\ claim' = [claim EXCEPT ![c] = "completed"]
          /\ cell' = IF cell[c].status = "provisioning"
                     THEN [cell EXCEPT ![c] = [status |-> "running",
                                               linked |-> TRUE]]
                     ELSE cell
          /\ worker' = [worker EXCEPT ![c] = "dispatching"]
          /\ task' = [a \in Attempts |->
                        IF a[1] = c THEN "waiting" ELSE task[a]]
          /\ UNCHANGED insert
  /\ UNCHANGED <<facts, group, gtask, fresh, todo, scored, cancelled, sweep, up,
                 clock>>

\* _dispatch_all returns when all its tasks have ended.
DispatchReturns(c) ==
  /\ At(c, "dispatching") /\ Busy(c) = {}
  /\ Leave(c, Transition(cell, c, {"running"}, TerminalOf(run[c])))
  /\ UNCHANGED <<facts, claim, group, gtask, fresh, insert, tasks, sweep,
                 up, clock>>

-----------------------------------------------------------------------------
(* Attempts.                                                               *)

\* A dispatch gets its lease and starts the agent.  _mark_running has a
\* condition; whether it held is not looked at.
Start(c, i) ==
  /\ task[<<c, i>>] = "waiting" /\ <<c, i>> \notin cancelled
  /\ task' = [task EXCEPT ![<<c, i>>] = "executing"]
  /\ starts' = [starts EXCEPT ![<<c, i>>] = @ + 1]
  /\ attempt' = [attempt EXCEPT ![c][i] = IF @ = "queued" THEN "running" ELSE @]
  /\ run' = [run EXCEPT ![c] = IF @ = "queued" THEN "running" ELSE @]
  /\ UNCHANGED <<claim, cell, group, coordinator, scored, cancelled, sweep, up,
                 stops, sweeps, restarts>>

\* run_attempt stores the end over whatever the row held, and projects.
ExecutionEnds(c, i) ==
  /\ task[<<c, i>>] = "executing" /\ <<c, i>> \notin cancelled
  /\ task' = [task EXCEPT ![<<c, i>>] = "none"]
  /\ \E end \in ExecEnds : attempt' = [attempt EXCEPT ![c][i] = end]
  /\ Refresh(c)
  /\ UNCHANGED <<claim, coordinator, scored, cancelled, sweep, up, clock>>

\* The scoring of an attempt stores its result and projects later.
ScoringEnds(c, i) ==
  /\ up = "up" /\ i \in DOMAIN attempt[c] /\ attempt[c][i] = "scoring"
  /\ \E end \in ScoreEnds : attempt' = [attempt EXCEPT ![c][i] = end]
  /\ scored' = scored \union {<<c, i>>}
  /\ UNCHANGED <<run, claim, cell, group, coordinator, task, cancelled, sweep,
                 up, clock>>

ScoringProjects(c, i) ==
  /\ up = "up" /\ <<c, i>> \in scored
  /\ scored' = scored \ {<<c, i>>}
  /\ UNCHANGED attempt
  /\ Refresh(c)
  /\ UNCHANGED <<claim, coordinator, task, cancelled, sweep, up, clock>>

\* CancelledError reaches a dispatch task.
TaskCancelled(c, i) ==
  /\ <<c, i>> \in cancelled
  /\ cancelled' = cancelled \ {<<c, i>>}
  /\ task' = [task EXCEPT ![<<c, i>>] = "none"]
  /\ UNCHANGED <<rows, gtask, fresh, todo, worker, insert, scored, sweep, up,
                 clock>>

-----------------------------------------------------------------------------
(* stop_group: one step on the loop.                                       *)

StopTargets == {c \in Cells : cell[c].status \in ActiveCell}

StopGroup ==
  LET runs == {c \in StopTargets : cell[c].linked}
      closed(rs) == [i \in DOMAIN rs |->
        IF rs[i] \in Open \union {"scoring"} THEN "cancelled" ELSE rs[i]]
      touched(c) == c \in runs /\ Some(attempt[c], Open \union {"scoring"})
      asked == IF group \in {"queued", "running"} THEN "cancelled" ELSE group
  IN
  /\ up = "up" /\ stops < MaxStops
  /\ stops' = stops + 1
  /\ cancelled' = cancelled \union UNION {TasksOf(c) : c \in runs}
  /\ attempt' = [c \in Cells |-> IF c \in runs THEN closed(attempt[c])
                                 ELSE attempt[c]]
  /\ run' = [c \in Cells |-> IF touched(c) THEN RunOf(attempt'[c]) ELSE run[c]]
  /\ cell' = [c \in Cells |-> IF c \in StopTargets
                              THEN [cell[c] EXCEPT !.status = "cancelled"]
                              ELSE cell[c]]
  /\ group' = GroupOf(cell', asked)
  /\ UNCHANGED <<claim, coordinator, task, scored, sweep, up, starts, sweeps,
                 restarts>>

-----------------------------------------------------------------------------
(* The deadline sweeper, execution axis, in its thread.                    *)

\* The attempt is converged, its task is told to cancel, its run is projected.
SweepConverge(c, i) ==
  /\ up = "up" /\ sweep = Idle /\ sweeps < MaxSweeps
  /\ i \in DOMAIN attempt[c] /\ attempt[c][i] = "running"
  /\ sweeps' = sweeps + 1
  /\ attempt' = [attempt EXCEPT ![c][i] = "failed"]
  /\ run' = [run EXCEPT ![c] = RunOf(attempt'[c])]
  /\ cancelled' = cancelled \union ({<<c, i>>} \intersect TasksOf(c))
  /\ sweep' = [phase |-> "converged", c |-> c]
  /\ UNCHANGED <<claim, cell, group, coordinator, task, scored, up, starts,
                 stops, restarts>>

\* project_cell_for_run reads, and later writes without a condition.
SweepReadCell ==
  /\ sweep.phase = "converged"
  /\ sweep' = IF cell[sweep.c].linked /\ cell[sweep.c].status # "cancelled"
              THEN [phase |-> "cell", c |-> sweep.c,
                    status |-> CellOf(attempt[sweep.c])]
              ELSE Idle
  /\ UNCHANGED <<rows, coordinator, tasks, up, clock>>

\* The write of the cell; rebuild_group_projection reads the cells.
SweepWriteCell ==
  /\ sweep.phase = "cell"
  /\ cell' = [cell EXCEPT ![sweep.c].status = sweep.status]
  /\ sweep' = [phase |-> "group", status |-> GroupOf(cell', group)]
  /\ UNCHANGED <<facts, claim, group, coordinator, tasks, up, clock>>

SweepWriteGroup ==
  /\ sweep.phase = "group"
  /\ group' = sweep.status
  /\ sweep' = Idle
  /\ UNCHANGED <<facts, claim, cell, coordinator, tasks, up, clock>>

-----------------------------------------------------------------------------
(* The process.                                                            *)

\* The lifespan's end cancels every registered task and waits for them.
Shutdown ==
  /\ up = "up" /\ restarts < MaxRestarts
  /\ restarts' = restarts + 1
  /\ up' = "closing"
  /\ cancelled' = {<<c, 0>> : c \in {d \in Cells : worker[d] # "none"}}
                  \union UNION {TasksOf(c) : c \in Cells}
  /\ fresh' = 0
  /\ gtask' = IF gtask = "running" THEN gtask ELSE "none"
  /\ UNCHANGED <<rows, todo, worker, insert, task, scored, sweep, starts,
                 stops, sweeps>>

\* CancelledError reaches the worker of c once its dispatch tasks have ended.
WorkerCancelled(c) ==
  /\ <<c, 0>> \in cancelled /\ Busy(c) = {}
  /\ cancelled' = cancelled \ {<<c, 0>>}
  /\ cell' = Transition(cell, c, {"provisioning", "running"}, "cancelled")
  /\ worker' = [worker EXCEPT ![c] = "none"]
  /\ UNCHANGED <<facts, claim, group, gtask, fresh, todo, insert, task, scored, sweep,
                 up, clock>>

\* What dies with the process.  A scoring that has ended is projected after the
\* restart only if its job was not marked yet.
MemoryLost ==
  /\ up' = "down"
  /\ gtask' = "none" /\ fresh' = 0 /\ todo' = <<>>
  /\ worker' = [c \in Cells |-> "none"]
  /\ insert' = {}
  /\ task' = [a \in Attempts |-> "none"]
  /\ cancelled' = {}
  /\ sweep' = Idle
  /\ scored' \in SUBSET scored
  /\ UNCHANGED <<rows, starts, stops, sweeps>>

Exit ==
  /\ up = "closing" /\ gtask = "none" /\ insert = {} /\ sweep = Idle
  /\ \A a \in Attempts : task[a] = "none"
  /\ MemoryLost
  /\ UNCHANGED restarts

Crash ==
  /\ up # "down"
  /\ up = "closing" \/ restarts < MaxRestarts
  /\ restarts' = IF up = "closing" THEN restarts ELSE restarts + 1
  /\ MemoryLost

\* reconcile_idempotency; schedule_startup_recovery: an execution whose process
\* is gone is interrupted, one that is alive goes on without a task, one with a
\* session is resumed; recover_groups_sync; then the group is resumed when it
\* is to have cells queued.
WrongRequeued(c) == cell[c].status \in {"provisioning", "cancelled"} /\ ~cell[c].linked
Requeued(c) == cell[c].status = "provisioning" /\ ~cell[c].linked

Restart ==
  LET running == {a \in Attempts : /\ a[2] \in DOMAIN attempt[a[1]]
                                   /\ attempt[a[1]][a[2]] = "running"}
  IN
  /\ up = "down" /\ up' = "up"
  /\ claim' = [c \in Cells |-> IF claim[c] = "in_progress" THEN "failed"
                               ELSE claim[c]]
  /\ \E alive \in SUBSET running : \E resumed \in SUBSET alive :
       /\ attempt' = [c \in Cells |-> [i \in DOMAIN attempt[c] |->
            IF attempt[c][i] \in Open /\ <<c, i>> \notin alive THEN "failed"
            ELSE attempt[c][i]]]
       /\ task' = [a \in Attempts |-> IF a \in resumed THEN "executing"
                                      ELSE "none"]
  /\ run' = [c \in Cells |-> IF attempt'[c] # attempt[c] THEN RunOf(attempt'[c])
                             ELSE run[c]]
  /\ cell' = [c \in Cells |->
       IF Requeued(c) THEN [cell[c] EXCEPT !.status = "queued"]
       ELSE IF attempt'[c] # attempt[c] \/ cell[c].status \in {"provisioning", "running"}
       THEN Projected(c, attempt'[c], cell)[c]
       ELSE cell[c]]
  /\ group' = GroupOf(cell', group)
  /\ gtask' = IF /\ group' \in {"queued", "running"}
                 /\ \E c \in Cells : cell'[c].status = "queued"
              THEN "resuming" ELSE "none"
  /\ UNCHANGED <<fresh, todo, worker, insert, scored, cancelled, sweep,
                 clock>>

-----------------------------------------------------------------------------
Init ==
  /\ attempt = [c \in Cells |-> <<>>]
  /\ run = [c \in Cells |-> "absent"]
  /\ claim = [c \in Cells |-> "none"]
  /\ cell = [c \in Cells |-> [status |-> "queued", linked |-> FALSE]]
  /\ group = "queued"
  /\ gtask = "scheduled" /\ fresh = 0 /\ todo = <<>>
  /\ worker = [c \in Cells |-> "none"]
  /\ insert = {}
  /\ task = [a \in Attempts |-> "none"]
  /\ scored = {} /\ cancelled = {}
  /\ sweep = Idle /\ up = "up"
  /\ starts = [a \in Attempts |-> 0]
  /\ stops = 0 /\ sweeps = 0 /\ restarts = 0

CellStep(c) ==
  \/ InputMissing(c) \/ ClaimRun(c) \/ CreateFails(c) \/ Created(c)
  \/ DispatchReturns(c) \/ WorkerCancelled(c)

AttemptStep(c, i) ==
  \/ Start(c, i) \/ ExecutionEnds(c, i) \/ TaskCancelled(c, i)

Next ==
  \/ BeginGroup \/ WorkerStarts \/ GroupEnds
  \/ \E c \in Cells : CellStep(c) \/ InsertAttempt(c)
  \/ \E c \in Cells, i \in 1..AgentCount :
       AttemptStep(c, i) \/ ScoringEnds(c, i) \/ ScoringProjects(c, i)
       \/ SweepConverge(c, i)
  \/ SweepReadCell \/ SweepWriteCell \/ SweepWriteGroup
  \/ StopGroup \/ Shutdown \/ Exit \/ Crash \/ Restart

\* The event loop runs ready tasks, threads end, an execution and a scoring end
\* within their deadlines, and a process that is down is started again.
Fairness ==
  /\ WF_vars(BeginGroup) /\ WF_vars(WorkerStarts) /\ WF_vars(GroupEnds)
  /\ \A c \in Cells : WF_vars(CellStep(c)) /\ WF_vars(InsertAttempt(c))
  /\ \A a \in Attempts : /\ WF_vars(AttemptStep(a[1], a[2]))
                         /\ WF_vars(ScoringEnds(a[1], a[2]))
                         /\ WF_vars(ScoringProjects(a[1], a[2]))
  /\ WF_vars(SweepReadCell) /\ WF_vars(SweepWriteCell)
  /\ WF_vars(SweepWriteGroup)
  /\ WF_vars(Exit) /\ WF_vars(Restart)

Spec == Init /\ [][Next]_vars /\ Fairness

-----------------------------------------------------------------------------
(* Properties.                                                             *)

\* Types: in particular a run has at most one attempt per agent, also when it
\* is created in pieces by two processes.
TypeOK ==
  /\ attempt \in [Cells -> UNION {[1..n -> AttemptStatus] : n \in 0..AgentCount}]
  /\ run \in [Cells -> RunStatus]
  /\ claim \in [Cells -> {"none", "in_progress", "failed", "completed"}]
  /\ cell \in [Cells -> [status : CellStatus, linked : BOOLEAN]]
  /\ group \in GroupStatusValue
  /\ gtask \in {"none", "scheduled", "resuming", "running"}
  /\ fresh \in 0..Workers
  /\ todo \in UNION {[1..n -> Cells] : n \in 0..CellCount}
  /\ worker \in [Cells -> {"none", "launching", "creating", "dispatching"}]
  /\ insert \in SUBSET Cells
  /\ task \in [Attempts -> {"none", "waiting", "executing"}]
  /\ scored \in SUBSET Attempts
  /\ cancelled \subseteq Cells \X (0..AgentCount)
  /\ \/ sweep = Idle
     \/ sweep \in [phase : {"converged"}, c : Cells]
     \/ sweep \in [phase : {"cell"}, c : Cells, status : CellStatus]
     \/ sweep \in [phase : {"group"}, status : GroupStatusValue]
  /\ up \in {"up", "closing", "down"}
  /\ starts \in [Attempts -> Nat]
  /\ stops \in 0..MaxStops /\ sweeps \in 0..MaxSweeps
  /\ restarts \in 0..MaxRestarts

\* No attempt is ever started twice: not when a restart takes over a run that
\* was being created, and not by a group that is resumed.
StartedOnce == \A a \in Attempts : starts[a] <= 1

\* A cell is provisioning only while a worker has it; nobody else would ever
\* take it further.
ProvisioningHasWorker ==
  up = "up" => \A c \in Cells : cell[c].status = "provisioning" =>
                 worker[c] \in {"launching", "creating"}

\* A running cell is somebody's business: a dispatch, a scoring that will
\* project it, or an agent that outlived its process and has a deadline.  (A
\* late write of the sweeper leaves cells without one: see OnlySweepReopens.)
RunningCellHasOwner ==
  (up = "up" /\ sweeps = 0) => \A c \in Cells : cell[c].status = "running" =>
    \/ worker[c] = "dispatching"
    \/ Busy(c) # {}
    \/ \E i \in 1..AgentCount : <<c, i>> \in scored
    \/ Some(attempt[c], {"running"})

\* Whenever the group's task is not at work, the group shows what its cells are:
\* what a dispatch, a scoring, a stop or a startup writes to a cell reaches the
\* group in the same step, and the task projects it when it ends.
GroupShowsCells ==
  (up = "up" /\ gtask # "running" /\ sweeps = 0) => group = GroupOf(cell, group)

\* "terminal cancellation is never overwritten" (project_cell_for_run).
StopSticks ==
  [][\A c \in Cells : cell[c].status = "cancelled" =>
                        cell'[c].status = "cancelled"]_vars

\* What the code does keep of it: a cancelled cell changes only by the write of
\* a sweeper that read the cell before it was cancelled.
OnlySweepReopens ==
  [][\A c \in Cells :
       (cell[c].status = "cancelled" /\ cell'[c].status # "cancelled")
       => sweep.phase = "cell" /\ sweep.c = c]_vars

\* The process-wide slot of run groups is given back: a group's task ends,
\* whatever is stopped, cancelled or fails under it.
SlotReturns == gtask = "running" ~> gtask = "none"

\* The whole protocol implements CellPromise: in particular a cell that was
\* closed is never queued again and a cell put back to the queue by a startup
\* has started no agent.
Phase(c) == CASE cell[c].status = "queued"                      -> "waiting"
              [] cell[c].status \in ActiveCell \ {"queued"}     -> "open"
              [] OTHER                                          -> "closed"
Promise == INSTANCE CellPromise WITH phase <- [c \in Cells |-> Phase(c)]
KeepsPromise == Promise!Spec

\* A cell that waits is provisioned or cancelled in the end, also when the
\* process exits before the group's task has finished.
QueuedCellsGoOn ==
  \A c \in Cells : cell[c].status = "queued" ~> cell[c].status # "queued"
====
