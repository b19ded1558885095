---- MODULE AttemptDispatch ----
(***************************************************************************)
(* The executions of several runs through the concurrency gate: the runs    *)
(* wait for their admission, their dispatchers create a task per attempt at *)
(* once or one after the other, a task holds a slot of the semaphore from   *)
(* the disk check to the end of the attempt, and a stop or the deadline     *)
(* sweeper cancels tasks and closes rows.                                   *)
(*                                                                         *)
(* Tasks run on the event loop, a step from one await to the next; the      *)
(* sweeper is a thread whose cancels are callbacks the loop runs later.     *)
(* What happens to a scoring job then is ScoringQueue's.                    *)
(***************************************************************************)
EXTENDS AttemptFacts, FiniteSets, Sequences

CONSTANTS
  Runs,
  Plan,       \* the attempts of a run, in their order
  Serial,     \* runs with execution = "serial"
  Legacy,     \* runs that do not belong to the group
  Capacity,   \* octagon.max_active_attempts
  MaxStops    \* bound: stop requests

AttemptsOf(r) == {Plan[r][i] : i \in DOMAIN Plan[r]}
Attempts == UNION {AttemptsOf(r) : r \in Runs}

ASSUME AttemptDispatchAssumption ==
  /\ \A r \in Runs : Plan[r] \in Seq(AttemptsOf(r)) /\ Plan[r] # <<>>
  /\ \A r \in Runs : \A i, j \in DOMAIN Plan[r] : Plan[r][i] = Plan[r][j] => i = j
  /\ \A r, s \in Runs : r # s => AttemptsOf(r) \cap AttemptsOf(s) = {}
  /\ IsFiniteSet(Attempts)
  /\ Serial \subseteq Runs /\ Legacy \subseteq Runs
  /\ Capacity \in Nat \ {0}
  /\ MaxStops \in Nat

VARIABLES
  attempt,    \* the rows
  jobs,       \* attempts with a scoring job
  run,        \* the dispatcher of a run: [phase, at], at the last task created
  task,       \* _dispatch_with_lease
  cancelled,  \* tasks whose cancel() has not been delivered yet
  callbacks,  \* cancels the sweeper has handed to the loop
  lowDisk,    \* threads of _mark_low_disk that have not written yet
  group,      \* the group: waits for its slot, runs its cells, or is over
  stop, sweep,
  stops,
  \* history
  missed      \* attempts whose stop found no task of the run to cancel

rows == <<attempt, jobs>>
control == <<run, group, stop, sweep, stops>>
vars == <<rows, control, task, cancelled, callbacks, lowDisk, missed>>

Idle == [phase |-> "idle"]
Holding == {"marking", "preparing", "agent", "closing"}
Over == {"ended", "cut"}
RunOf(a) == CHOOSE r \in Runs : a \in AttemptsOf(r)

Held == {a \in Attempts : task[a] \in Holding}
NewRow == [status |-> "queued", exec |-> "queued", scoring |-> "not_ready",
           score |-> NoScore]

\* The resumption of a task that no cancel() comes before.
WrongAt(a, phase) == task[a] = phase
At(a, phase) == task[a] = phase /\ a \notin cancelled
Goto(a, phase) == /\ task' = [task EXCEPT ![a] = phase]
                  /\ UNCHANGED <<cancelled, callbacks>>
\* The task is over; a cancel that is still to come does nothing.
End(a, phase) == /\ task' = [task EXCEPT ![a] = phase]
                 /\ cancelled' = cancelled \ {a}
                 /\ callbacks' = callbacks \ {a}

-----------------------------------------------------------------------------
(* Admission and dispatchers.                                              *)

\* run_group_admission: legacy_admission_event is clear while the group runs.
\* One group runs at a time, so the runs here are those of one group.
Admits(r) == IF r \in Legacy THEN group # "active" ELSE group = "active"

GroupBegins ==
  /\ group = "queued"
  /\ group' = "active"
  /\ UNCHANGED <<rows, run, stop, sweep, stops, task, cancelled, callbacks,
                 lowDisk, missed>>

GroupEnds ==
  /\ group = "active"
  /\ \A r \in Runs \ Legacy : run[r].phase = "done"
  /\ group' = "over"
  /\ UNCHANGED <<rows, run, stop, sweep, stops, task, cancelled, callbacks,
                 lowDisk, missed>>

\* _dispatch_all creates every task, _dispatch_serial the first.
Launch(r) ==
  LET first == IF r \in Serial THEN 1 ELSE Len(Plan[r]) IN
  /\ run[r].phase = "submitted"
  /\ Admits(r)
  /\ run' = [run EXCEPT ![r] = [phase |-> "driving", at |-> first]]
  /\ task' = [a \in Attempts |->
       IF \E i \in 1..first : a = Plan[r][i] THEN "waiting" ELSE task[a]]
  /\ UNCHANGED <<rows, group, stop, sweep, stops, cancelled,
                 callbacks, lowDisk, missed>>

\* _dispatch_serial goes on after a task that ended, not after one that was cut.
WrongGoesOn(a) == task[a] = "ended" /\ a \in jobs
GoesOn(a) == task[a] = "ended"

NextTask(r) ==
  LET i == run[r].at IN
  /\ run[r].phase = "driving"
  /\ \A k \in 1..i : task[Plan[r][k]] \in Over
  /\ IF r \in Serial /\ i < Len(Plan[r]) /\ GoesOn(Plan[r][i])
     THEN /\ run' = [run EXCEPT ![r].at = i + 1]
          /\ Goto(Plan[r][i + 1], "waiting")
     ELSE /\ run' = [run EXCEPT ![r].phase = "done"]
          /\ UNCHANGED <<task, cancelled, callbacks>>
  /\ UNCHANGED <<rows, group, stop, sweep, stops, lowDisk, missed>>

-----------------------------------------------------------------------------
(* A task.                                                                 *)

\* _mark_running, which also sets the deadline, changes only a queued row; the
\* dispatch goes on whatever it changed.
Running(row) == IF row.status = "queued"
                THEN [row EXCEPT !.status = "running", !.exec = "running"]
                ELSE row
Finalize(a) == attempt' = [attempt EXCEPT ![a] = FinalizedNoScore("cli_error")]

WrongSlotFree == Cardinality({a \in Held : task[a] # "closing"}) < Capacity
SlotFree == Cardinality(Held) < Capacity

\* A slot, and what comes before the first await: too little disk, a check of
\* the input, environment or adapter that fails, or the mark.
Acquire(a) ==
  /\ At(a, "waiting") /\ SlotFree
  /\ \/ Goto(a, "marking") /\ lowDisk' = lowDisk \union {a} /\ UNCHANGED attempt
     \/ Finalize(a) /\ End(a, "ended") /\ UNCHANGED lowDisk
     \/ /\ attempt' = [attempt EXCEPT ![a] = Running(@)]
        /\ Goto(a, "preparing")
        /\ UNCHANGED lowDisk
  /\ UNCHANGED <<jobs, control, missed>>

\* The thread of _mark_low_disk outlives a cancelled task.
MarkLowDisk(a) ==
  /\ a \in lowDisk /\ lowDisk' = lowDisk \ {a}
  /\ Finalize(a)
  /\ IF At(a, "marking") THEN End(a, "ended")
     ELSE UNCHANGED <<task, cancelled, callbacks>>
  /\ UNCHANGED <<jobs, control, missed>>

\* The wire capture and the cost key are awaited.
PrepareFails(a) ==
  /\ At(a, "preparing")
  /\ Finalize(a) /\ End(a, "ended")
  /\ UNCHANGED <<jobs, control, lowDisk, missed>>

StartAgent(a) ==
  /\ At(a, "preparing")
  /\ Goto(a, "agent")
  /\ UNCHANGED <<rows, control, lowDisk, missed>>

\* The adapter is back: the row is overwritten, with a scoring job or without.
AgentEnds(a) ==
  /\ At(a, "agent")
  /\ \/ Finalize(a) /\ UNCHANGED jobs
     \/ /\ attempt' = [attempt EXCEPT ![a] = EnqueuedRow("completed")]
        /\ jobs' = jobs \union {a}
  /\ Goto(a, "closing")
  /\ UNCHANGED <<control, lowDisk, missed>>

\* observer.attempt_end has returned.
Leave(a) ==
  /\ At(a, "closing")
  /\ End(a, "ended")
  /\ UNCHANGED <<rows, control, lowDisk, missed>>

\* CancelledError at the await of the task; `async with` and `finally` return
\* the slot.
HandleCancel(a) ==
  /\ a \in cancelled
  /\ End(a, "cut")
  /\ UNCHANGED <<rows, control, lowDisk, missed>>

-----------------------------------------------------------------------------
(* stop_run.                                                               *)

WrongLive(r) == AttemptsOf(r) \cap Held
Live(r) == {a \in AttemptsOf(r) : task[a] \notin Over \union {"none"}}

\* cancel_dispatch_tasks: the tasks of the run that are there and not done.
StopTasks(r) ==
  /\ stop = Idle /\ stops < MaxStops
  /\ r \in Legacy \/ group # "queued"
  /\ stops' = stops + 1
  /\ stop' = [phase |-> "tasks", run |-> r]
  /\ cancelled' = cancelled \union Live(r)
  /\ missed' = IF Live(r) = {} /\ run[r].phase # "done"
               THEN missed \union {a \in AttemptsOf(r) : task[a] = "none"}
               ELSE missed
  /\ UNCHANGED <<rows, run, group, sweep, task, callbacks, lowDisk>>

\* cancel_scoring_for_runs
ScoringStopped(row) ==
  [status |-> IF row.status = "scoring" THEN "cancelled" ELSE row.status,
   exec |-> row.exec, scoring |-> "cancelled", score |-> NoScore]
StopScoring ==
  /\ stop.phase = "tasks"
  /\ stop' = [stop EXCEPT !.phase = "scoring"]
  /\ LET active == jobs \cap AttemptsOf(stop.run) IN
     /\ jobs' = jobs \ active
     /\ attempt' = [a \in Attempts |-> IF a \in active THEN ScoringStopped(attempt[a])
                                       ELSE attempt[a]]
  /\ UNCHANGED <<run, group, sweep, stops, task, cancelled,
                 callbacks, lowDisk, missed>>

\* cancel_attempts_for_runs: first open_attempt_ids_for_runs ...
StopList ==
  LET ids == {a \in AttemptsOf(stop.run) : IsOpen(attempt[a])} IN
  /\ stop.phase = "scoring"
  /\ stop' = IF ids = {} THEN Idle
             ELSE [phase |-> "listed", run |-> stop.run, ids |-> ids]
  /\ UNCHANGED <<rows, run, group, sweep, stops, task, cancelled,
                 callbacks, lowDisk, missed>>

\* ... then converge_attempts: a SELECT of the listed rows, which takes no lock,
\* and one transaction of UPDATEs that go by what was read.
Reading(ids) == [a \in Attempts |-> IF a \in ids THEN OpenAxes(attempt[a]) ELSE {}]
NothingRead == [a \in Attempts |-> {}]
ConvergeAll(open, to) ==
  attempt' = [a \in Attempts |-> Converged(attempt[a], open[a], to)]

StopRead ==
  LET open == Reading(stop.ids) IN
  /\ stop.phase = "listed"
  /\ stop' = IF open = NothingRead THEN Idle
             ELSE [phase |-> "read", run |-> stop.run, open |-> open]
  /\ UNCHANGED <<rows, run, group, sweep, stops, task, cancelled,
                 callbacks, lowDisk, missed>>

StopConverge ==
  /\ stop.phase = "read"
  /\ stop' = Idle
  /\ ConvergeAll(stop.open, UserStopped)
  /\ UNCHANGED <<jobs, run, group, sweep, stops, task, cancelled,
                 callbacks, lowDisk, missed>>

-----------------------------------------------------------------------------
(* The deadline sweeper.                                                   *)

\* The attempts whose task is registered in attempt_tasks.
WrongRegistered(ids) == {a \in ids : task[a] = "agent"}
Registered(ids) == {a \in ids : task[a] \in Holding}

\* sweep_once up to the SELECT of converge_attempts: the running attempts found
\* past their deadline and the grace period, a cancel for each that has a task,
\* and the read of their rows.  (What ends between the list and the read is left
\* alone, so one step says it.)
SweepRead(ids) ==
  /\ sweep = Idle /\ ids # {}
  /\ \A a \in ids : attempt[a].exec = "running"
  /\ sweep' = [phase |-> "read", open |-> Reading(ids)]
  /\ callbacks' = callbacks \union Registered(ids)
  /\ UNCHANGED <<rows, run, group, stop, stops, task, cancelled, lowDisk, missed>>

ExecutionOverdue == [status |-> "timeout", exec |-> "timeout",
                     scoring |-> "skipped"]

SweepConverge ==
  /\ sweep.phase = "read"
  /\ sweep' = Idle
  /\ ConvergeAll(sweep.open, ExecutionOverdue)
  /\ UNCHANGED <<jobs, run, group, stop, stops, task, cancelled,
                 callbacks, lowDisk, missed>>

Callback(a) ==
  /\ a \in callbacks /\ callbacks' = callbacks \ {a}
  /\ cancelled' = cancelled \union {a}
  /\ UNCHANGED <<rows, control, task, lowDisk, missed>>

-----------------------------------------------------------------------------
Init ==
  /\ attempt = [a \in Attempts |-> NewRow]
  /\ jobs = {}
  /\ run = [r \in Runs |-> [phase |-> "submitted", at |-> 0]]
  /\ task = [a \in Attempts |-> "none"]
  /\ cancelled = {} /\ callbacks = {} /\ lowDisk = {}
  /\ group = "queued"
  /\ stop = Idle /\ sweep = Idle
  /\ stops = 0
  /\ missed = {}

Next ==
  \/ GroupBegins \/ GroupEnds
  \/ \E r \in Runs : Launch(r) \/ NextTask(r) \/ StopTasks(r)
  \/ \E a \in Attempts :
       \/ Acquire(a) \/ MarkLowDisk(a) \/ PrepareFails(a) \/ StartAgent(a)
       \/ AgentEnds(a) \/ Leave(a) \/ HandleCancel(a) \/ Callback(a)
  \/ StopScoring \/ StopList \/ StopRead \/ StopConverge
  \/ \E ids \in SUBSET Attempts : SweepRead(ids)
  \/ SweepConverge

\* The loop runs what is ready, threads return, and the sweeper comes round to
\* every attempt that runs past its deadline.  No behaviour goes on for ever, so
\* one condition says it for all of these steps.  The preparation and the agent
\* are not among them: neither is assumed to end by itself.
Owed ==
  \/ GroupBegins \/ GroupEnds
  \/ \E r \in Runs : Launch(r) \/ NextTask(r)
  \/ \E a \in Attempts : \/ Acquire(a) \/ MarkLowDisk(a) \/ Leave(a)
                          \/ HandleCancel(a) \/ Callback(a)
  \/ StopScoring \/ StopList \/ StopRead \/ StopConverge
  \/ \E ids \in SUBSET Attempts : SweepRead(ids)
  \/ SweepConverge

Spec == Init /\ [][Next]_vars /\ WF_vars(Owed)

-----------------------------------------------------------------------------
(* Properties.                                                             *)

\* Types; in particular the slots held never exceed the capacity.
TypeOK ==
  /\ attempt \in [Attempts -> [status : LegacyStatus, exec : ExecutionStatusValue,
                               scoring : ScoringStatusValue, score : {NoScore, 1}]]
  /\ run \in [Runs -> [phase : {"submitted", "driving", "done"}, at : Nat]]
  /\ task \in [Attempts -> Holding \union Over \union {"none", "waiting"}]
  /\ UNION {jobs, cancelled, callbacks, lowDisk, missed}
       \subseteq Attempts
  /\ group \in {"queued", "active", "over"}
  /\ Cardinality(Held) <= Capacity

\* No agent starts on an attempt after a stop closed its row.  Exempt are the
\* attempts the stop found no task of: see the README.
NoAgentAfterStop ==
  [][\A a \in Attempts \ missed :
       task[a] # "agent" /\ task'[a] = "agent" => attempt[a].exec # "cancelled"]_vars

\* After a stop nothing writes the row it closed: not the execution, whose
\* cancel may still be on its way, and not a sweep that comes to it later.
\* Exempt are what read or checked the row before the stop wrote it - a thread of
\* _mark_low_disk and a sweep that found it open - and the attempts it missed.
FoundOpen(a) == sweep.phase = "read" /\ sweep.open[a] # {}
StopIsTheEnd ==
  [][\A a \in Attempts \ (missed \union lowDisk) :
       attempt[a].exec = "cancelled" /\ ~FoundOpen(a)
         => attempt'[a] = attempt[a]]_vars

\* An agent that a stop missed has no deadline: only the adapter ends it.
Unbounded == \E a \in missed : task[a] \in Holding

\* "the slot stays taken and later attempts queue for ever" (sweeper.py) does
\* not happen: every attempt that was planned is executed or closed, although
\* agents that never end hold slots, except those behind an attempt of their
\* serial run whose task was cut.
LeftBehind(a) ==
  LET r == RunOf(a) IN
  r \in Serial /\ run[r].phase = "done" /\ \E b \in AttemptsOf(r) : task[b] = "cut"
EveryAttemptHasItsTurn ==
  \A a \in Attempts :
    attempt[a].exec = "queued" ~>
      attempt[a].exec # "queued" \/ LeftBehind(a) \/ Unbounded
====
