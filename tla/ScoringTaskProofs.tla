---- MODULE ScoringTaskProofs ----
(***************************************************************************)
(* Theorems about the tasks of ScoringQueue, for every value of its         *)
(* constants: what a job may still do after its commit and after its stop,  *)
(* and the scores it leaves.                                               *)
(* Every step is first reduced to what it does to one task, then the       *)
(* invariants are proved from that.                                        *)
(***************************************************************************)
EXTENDS ScoringQueueProofs

-----------------------------------------------------------------------------
(* What a step may do to one task.                                         *)

\* The resumptions of a task: from the place it waits at to the next one.
Resumption ==
  {<<"waiting", "claiming">>, <<"claiming", "claimed">>,
   <<"claimed", "preparing">>, <<"preparing", "judging">>,
   <<"judging", "checked">>, <<"checked", "failing">>,
   <<"checked", "committing">>, <<"committing", "committed">>,
   <<"committed", "recording">>, <<"recording", "recorded">>,
   <<"recorded", "notifying">>, <<"committed", "notifying">>,
   <<"notifying", "notified">>, <<"resumed", "committing">>}

\* It stays, ends, goes on, is created with the next number of its attempt, or
\* is scheduled by a startup.
TaskMove(t) ==
  \/ worker'[t] = worker[t]
  \/ worker'[t] = "none"
  \/ /\ <<worker[t], worker'[t]>> \in Resumption
     /\ worker'[t] = "claimed" => <<t, "claim">> \notin thread'
     /\ worker'[t] = "committed" => <<t, "commit">> \notin thread'
     /\ worker'[t] = "recording" => t[2] # 0
  \/ worker'[t] = "waiting" /\ t[2] = job[t[1]].n + 1 /\ t[2] = job'[t[1]].n
  \/ worker'[t] = "waiting" /\ up = "down" /\ t[2] # 0 /\ t[2] = job[t[1]].n
                            /\ job'[t[1]].status = "queued" /\ UNCHANGED thread
  \/ worker'[t] = "resumed" /\ up = "down" /\ t[2] = 0
                            /\ UNCHANGED <<outbox, thread>>
                            /\ attempt[t[1]].status \in {"queued", "running"}

\* A thread that is started belongs to a task that runs, the commit's and the
\* failure's to one that has been judged.
ThreadMove(t) ==
  \A kind \in ThreadKind :
    <<t, kind>> \in thread' \ thread =>
      /\ worker[t] # "none"
      /\ kind = "claim" => worker'[t] = "claiming"
      /\ kind = "fail" => worker[t] = "checked" /\ worker'[t] = "failing"
      /\ kind = "commit" => /\ worker[t] \in {"checked", "resumed"}
                            /\ worker'[t] = "committing"
                            /\ t \notin cancelled /\ UNCHANGED attempt

\* The steps of a task's coroutine are such moves, of that task alone.
LEMMA StepMoves ==
  ASSUME TypeOK, NEW j \in Tasks, WorkerStep(j), NEW t \in Tasks
  PROVE  TaskMove(t) /\ ThreadMove(t)
<1>1. worker \in [Tasks -> WorkerState]
  BY DEF TypeOK
<1>2. CASE Acquire(j) \/ StartJudge(j) \/ StartFail(j) \/ StartCommit(j)
  <2>1. CASE Acquire(j) \/ StartJudge(j)
    BY <1>1, <2>1 DEF Acquire, StartJudge, At, Goto, StartThread, TaskMove,
       ThreadMove, Resumption
  <2>2. CASE StartFail(j)
    BY <1>1, <2>2 DEF StartFail, At, Goto, StartThread, TaskMove, ThreadMove, Resumption
  <2>3. CASE StartCommit(j)
    BY <1>1, <2>3 DEF StartCommit, At, Goto, StartThread, TaskMove, ThreadMove,
       Resumption, facts
  <2> QED
    BY <1>2, <2>1, <2>2, <2>3
<1>3. CASE StartRecord(j) \/ Mark(j) \/ Finish(j)
  BY <1>1, <1>3
     DEF StartRecord, Mark, Finish, At, Goto, StartThread,
         TaskMove, ThreadMove, Resumption, Jobs
<1>4. CASE Begin(j)
  BY <1>1, <1>4 DEF Begin, At, Goto, TaskMove, ThreadMove, Resumption
<1>5. CASE JudgeReturns(j)
  BY <1>1, <1>5 DEF JudgeReturns, At, Goto, TaskMove, ThreadMove, Resumption
<1>6. ASSUME NEW fault, Raise(j, fault) PROVE TaskMove(t) /\ ThreadMove(t)
  BY <1>1, <1>6 DEF Raise, Goto, TaskMove, ThreadMove
<1> QED
  BY <1>2, <1>3, <1>4, <1>5, <1>6 DEF WorkerStep

\* So are those of a thread, whose result reaches a coroutine that waits for it.
LEMMA ThreadMoves ==
  ASSUME TypeOK, NEW j \in Tasks, ThreadStep(j), NEW t \in Tasks
  PROVE  TaskMove(t) /\ ThreadMove(t)
<1>1. worker \in [Tasks -> WorkerState]
  BY DEF TypeOK
<1>2. ThreadMove(t)
  BY DEF ThreadStep, ClaimThread, FailThread, CommitThread, RecordThread,
         NotifyThread, EndThread, ThreadMove
<1>3. CASE CommitThread(j)
  BY <1>1, <1>2, <1>3 DEF CommitThread, EndThread, Deliver, TaskMove, Resumption
<1>4. CASE ClaimThread(j)
  BY <1>1, <1>2, <1>4 DEF ClaimThread, EndThread, Deliver, Return, TaskMove, Resumption
<1>5. CASE \/ Return(j, "failing") \/ Deliver(j, "recording", "recorded")
           \/ Deliver(j, "notifying", "notified")
  BY <1>1, <1>2, <1>5 DEF Deliver, Return, TaskMove, Resumption
<1> QED
  BY <1>3, <1>4, <1>5 DEF ThreadStep, FailThread, RecordThread, NotifyThread

\* The enqueue gives the attempt a new job and schedules its task.
LEMMA EnqueueMoves ==
  ASSUME TypeOK, NEW a \in Attempts, NEW verdict, NEW prev, NEW tasks,
         Enqueue(a, verdict, prev, tasks), UNCHANGED thread,
         \/ tasks = worker
         \/ tasks = [worker EXCEPT ![Execution(a)] = "none"],
         NEW t \in Tasks
  PROVE  TaskMove(t) /\ ThreadMove(t)
<1>1. worker \in [Tasks -> WorkerState] /\ job \in [Attempts -> JobRow]
  BY DEF TypeOK
<1>2. tasks[t] \in {worker[t], "none"} /\ tasks \in [Tasks -> WorkerState]
  BY <1>1 DEF WorkerState
<1>3. worker' = [tasks EXCEPT ![<<a, job[a].n + 1>>] = "waiting"]
  BY DEF Enqueue
<1>4. CASE t = <<a, job[a].n + 1>>
  <2>1. job'[a].n = job[a].n + 1
    BY <1>1 DEF Enqueue, NewJob
  <2>2. worker'[t] = "waiting"
    BY <1>2, <1>3, <1>4
  <2> QED
    BY <1>4, <2>1, <2>2 DEF TaskMove, ThreadMove
<1>5. CASE t # <<a, job[a].n + 1>>
  <2>1. worker'[t] = tasks[t]
    BY <1>2, <1>3, <1>5
  <2> QED
    BY <1>2, <2>1 DEF TaskMove, ThreadMove
<1> QED
  BY <1>4, <1>5

\* The end of an execution schedules the task of its job.
LEMMA ExecutionMoves ==
  ASSUME TypeOK, NEW a \in Attempts, ExecutionStep(a) \/ ResumedNotifies(a),
         NEW t \in Tasks
  PROVE  TaskMove(t) /\ ThreadMove(t)
<1>1. worker \in [Tasks -> WorkerState] /\ Execution(a) \in Tasks
  BY ScoresType DEF TypeOK
<1>2. ASSUME NEW verdict, ExecutionEnds(a),
             Enqueue(a, verdict, NoScore, [worker EXCEPT ![Execution(a)] = "none"])
      PROVE  TaskMove(t) /\ ThreadMove(t)
  <2>1. UNCHANGED thread
    BY <1>2 DEF ExecutionEnds
  <2> QED
    BY <1>2, <2>1, EnqueueMoves
<1>3. ASSUME UNCHANGED thread, Goto(Execution(a), "none")
      PROVE  TaskMove(t) /\ ThreadMove(t)
  BY <1>1, <1>3 DEF Goto, TaskMove, ThreadMove
<1>4. CASE ResumedScores(a)
  BY <1>1, <1>4 DEF ResumedScores, At, Goto, StartThread, TaskMove, ThreadMove,
     Resumption, facts
<1>5. CASE ResumedNotifies(a)
  BY <1>1, <1>5 DEF ResumedNotifies, At, Goto, StartThread, TaskMove, ThreadMove,
     Resumption
<1> QED
  BY <1>2, <1>3, <1>4, <1>5 DEF ExecutionStep, ExecutionEnds, ResumedFails

\* A startup schedules tasks, a crash ends all of them.
LEMMA ProcessMoves ==
  ASSUME TypeOK, Shutdown \/ Exit \/ Crash \/ Restart, NEW t \in Tasks
  PROVE  /\ TaskMove(t) /\ ThreadMove(t)
         /\ worker'[t] \in {worker[t], "none", "resumed", "waiting"}
<1>1. worker \in [Tasks -> WorkerState]
  BY DEF TypeOK
<1>2. CASE Shutdown \/ Exit \/ Crash
  BY <1>1, <1>2 DEF Shutdown, Exit, Crash, TaskMove, ThreadMove
<1>3. CASE Restart
  <2> DEFINE revived == [a \in Attempts |->
               IF job[a].status = "running" /\ ~job[a].cancelRequested
               THEN [job[a] EXCEPT !.status = "queued"] ELSE job[a]]
             requeued == [a \in Attempts |->
               IF Row(a).scoring = "running"
               THEN [Row(a) EXCEPT !.scoring = "queued", !.status = "scoring"]
               ELSE Row(a)]
  <2>1. /\ up = "down" /\ UNCHANGED <<outbox, thread>> /\ job' = revived
        /\ \/ UNCHANGED worker
           \/ \E resumed \in SUBSET {a \in Attempts :
                        requeued[a].status \in {"queued", "running"}} :
                worker' = [j \in Tasks |->
                  IF j[2] = 0
                  THEN IF j[1] \in resumed THEN "resumed" ELSE "none"
                  ELSE IF /\ revived[j[1]].n = j[2]
                          /\ revived[j[1]].status = "queued"
                          /\ ~revived[j[1]].cancelRequested
                       THEN "waiting" ELSE "none"]
    BY <1>3 DEF Restart
  <2>2. /\ t[1] \in Attempts
        /\ job \in [Attempts -> JobRow] /\ attempt \in [Attempts -> AttemptRow]
    BY ScoresType DEF TypeOK
  <2>3. revived[t[1]].n = job[t[1]].n
    BY <2>2 DEF JobRow
  <2>4. requeued[t[1]].status \in {"queued", "running"}
          => attempt[t[1]].status \in {"queued", "running"}
    BY <2>2 DEF Row, AttemptRow
  <2> HIDE DEF revived, requeued
  <2>5. ThreadMove(t)
    BY <2>1 DEF ThreadMove
  <2>6. TaskMove(t)
    BY <2>1, <2>2, <2>3, <2>4 DEF TaskMove
  <2>7. worker'[t] \in {worker[t], "none", "resumed", "waiting"}
    BY <2>1
  <2> QED
    BY <2>5, <2>6, <2>7
<1> QED
  BY <1>2, <1>3

\* Of a rejudge only the enqueue touches a task.
LEMMA RejudgeMoves ==
  ASSUME TypeOK, Rejudge, NEW t \in Tasks
  PROVE  TaskMove(t) /\ ThreadMove(t)
<1>1. ASSUME UNCHANGED <<worker, thread>> PROVE TaskMove(t) /\ ThreadMove(t)
  BY <1>1 DEF TaskMove, ThreadMove
<1>2. ASSUME NEW q \in request, RejudgeEnqueue(q)
      PROVE  TaskMove(t) /\ ThreadMove(t)
  <2>1. q.attempt \in Attempts
    BY DEF TypeOK, RequestRow
  <2>2. CASE Enqueue(q.attempt, q.exec, q.prev, worker)
    <3>1. UNCHANGED thread
      BY <1>2 DEF RejudgeEnqueue
    <3> QED
      BY <2>1, <2>2, <3>1, EnqueueMoves
  <2> QED
    BY <1>1, <1>2, <2>2 DEF RejudgeEnqueue
<1> QED
  BY <1>1, <1>2 DEF Rejudge, RejudgeCheck, RejudgePurge

\* Every step is one of these moves for every task.
LEMMA Moves ==
  ASSUME TypeOK, [Next]_vars, NEW t \in Tasks
  PROVE  TaskMove(t) /\ ThreadMove(t)
<1>1. ASSUME UNCHANGED <<worker, thread>> PROVE TaskMove(t) /\ ThreadMove(t)
  BY <1>1 DEF TaskMove, ThreadMove
<1>2. ASSUME NEW a \in Attempts, DeadlinePasses(a)
      PROVE  UNCHANGED <<worker, thread>>
  BY <1>2 DEF DeadlinePasses
<1>3. ASSUME NEW j \in Tasks, HandleCancel(j) PROVE TaskMove(t) /\ ThreadMove(t)
  <2>1. worker \in [Tasks -> WorkerState]
    BY DEF TypeOK
  <2> QED
    BY <1>3, <2>1 DEF HandleCancel, Goto, TaskMove, ThreadMove
<1>4. CASE \/ StopScoring \/ StopList \/ StopRead \/ StopConverge \/ SweepList
           \/ SweepRead \/ SweepConverge
  BY <1>1, <1>4 DEF StopScoring, StopList, StopRead, StopConverge, SweepList,
     SweepRead, SweepConverge
<1>5. CASE UNCHANGED vars
  BY <1>1, <1>5 DEF vars
<1> QED
  BY <1>1, <1>2, <1>3, <1>4, <1>5, StepMoves, ThreadMoves, ExecutionMoves,
     ProcessMoves, RejudgeMoves DEF Next

-----------------------------------------------------------------------------
(* What a step may do to the job of an attempt.                            *)

\* A scheduled job has a new number and the score its rejudge found.
Scheduled(a) ==
  /\ job'[a].n = job[a].n + 1
  /\ job'[a].status = "queued" /\ job'[a].cancelRequested = FALSE
  /\ job'[a].prev = NoScore \/ \E q \in request : q.attempt = a /\ job'[a].prev = q.prev
  /\ worker'[<<a, job'[a].n>>] = "waiting"

Purged(a) ==
  /\ job'[a].n = job[a].n /\ job'[a].status = "absent"
  /\ job'[a].cancelRequested = FALSE /\ job'[a].prev = NoScore

\* Other steps change the status only.  They open no closed job, leave a
\* stopped one as it is, and only the claim starts one.
Advanced(a) ==
  /\ job'[a].n = job[a].n /\ job'[a].prev = job[a].prev
  /\ job'[a].cancelRequested = job[a].cancelRequested
  /\ job[a].status # "absent" /\ job'[a].status # "absent"
  /\ job'[a].status \in {"queued", "running"} =>
       job[a].status \in {"queued", "running"} /\ ~job[a].cancelRequested
  /\ job'[a].status = "running" => ClaimThread(<<a, job[a].n>>)

\* A stop cancels the task it finds.
Stopped(a) ==
  /\ job'[a].n = job[a].n /\ job'[a].prev = job[a].prev
  /\ job[a].status \in {"queued", "running"} /\ job'[a].cancelRequested = TRUE
  /\ job'[a].status \in {job[a].status, "cancelled"}
  /\ \A t \in Tasks : t[1] = a /\ t[2] = job[a].n /\ worker[t] # "none"
                        => t \in cancelled'

JobMove(a) ==
  job'[a] = job[a] \/ Scheduled(a) \/ Purged(a) \/ Advanced(a) \/ Stopped(a)

\* A step that sets the status of a job that exists advances it.
LEMMA StatusAdvances ==
  ASSUME TypeOK, NEW b, NEW status,
         job' = [job EXCEPT ![b].status = status],
         job[b].status # "absent", status # "absent",
         status \in {"queued", "running"} =>
           job[b].status \in {"queued", "running"} /\ ~job[b].cancelRequested,
         status = "running" => ClaimThread(<<b, job[b].n>>),
         NEW a \in Attempts
  PROVE  JobMove(a)
<1>1. job \in [Attempts -> JobRow] /\ job[a] \in JobRow
  BY DEF TypeOK
<1>2. CASE a # b
  BY <1>1, <1>2 DEF JobMove
<1>3. CASE a = b
  <2>1. job'[a] = [job[a] EXCEPT !.status = status]
    BY <1>1, <1>3
  <2>2. /\ job'[a].n = job[a].n /\ job'[a].prev = job[a].prev
        /\ job'[a].cancelRequested = job[a].cancelRequested
        /\ job'[a].status = status
    BY <1>1, <2>1 DEF JobRow
  <2> QED
    BY <1>3, <2>2 DEF JobMove, Advanced
<1> QED
  BY <1>2, <1>3

\* The failure path closes the job.
LEMMA FailureAdvances ==
  ASSUME TypeOK, NEW j \in Tasks, NEW a \in Attempts,
         NEW status \in {"cancelled", "scoring_failed", "timed_out", "failed"},
         FinishFailure(j, status)
  PROVE  JobMove(a)
<1>1. CASE IsRowOf(j)
  <2>1. job[j[1]].status # "absent" /\ job' = [job EXCEPT ![j[1]].status = status]
    BY <1>1 DEF FinishFailure, FailedWith, IsRowOf
  <2> QED
    BY <2>1, StatusAdvances
<1>2. CASE ~IsRowOf(j)
  BY <1>2 DEF FinishFailure, FailedWith, JobMove
<1> QED
  BY <1>1, <1>2

\* The enqueue schedules a job.
LEMMA EnqueueSchedules ==
  ASSUME TypeOK, NEW b \in Attempts, NEW verdict, NEW prev, NEW tasks,
         Enqueue(b, verdict, prev, tasks),
         prev = NoScore \/ \E q \in request : q.attempt = b /\ prev = q.prev,
         tasks \in {worker, [worker EXCEPT ![Execution(b)] = "none"]},
         NEW a \in Attempts
  PROVE  JobMove(a)
<1>1. job \in [Attempts -> JobRow] /\ job[b].n \in Nat /\ job[b].n < MaxJobs
  BY ScoringQueueAssumption DEF TypeOK, JobRow, Enqueue, ScoringQueueAssumption
<1>2. worker'[<<b, job[b].n + 1>>] = "waiting"
  <2>1. <<b, job[b].n + 1>> \in Tasks
    BY <1>1, ScoringQueueAssumption DEF Tasks, ScoringQueueAssumption
  <2> QED
    BY <2>1 DEF TypeOK, Enqueue
<1>3. job' = [job EXCEPT ![b] = [n |-> job[b].n + 1, status |-> "queued",
                                 cancelRequested |-> FALSE, prev |-> prev]]
  BY DEF Enqueue, NewJob
<1>4. CASE a # b
  BY <1>1, <1>3, <1>4 DEF JobMove
<1>5. CASE a = b
  <2>1. job'[a] = [n |-> job[a].n + 1, status |-> "queued",
                   cancelRequested |-> FALSE, prev |-> prev]
    BY <1>1, <1>3, <1>5
  <2> QED
    BY <1>5, <1>2, <2>1 DEF JobMove, Scheduled
<1> QED
  BY <1>4, <1>5

\* The steps of a job's coroutine and its threads.
LEMMA TaskJobMoves ==
  ASSUME TypeOK, NEW j \in Tasks, NEW a \in Attempts,
         WorkerStep(j) \/ ThreadStep(j) \/ HandleCancel(j)
  PROVE  JobMove(a)
<1>1. ASSUME UNCHANGED job PROVE JobMove(a)
  BY <1>1 DEF JobMove
<1>2. ASSUME NEW status \in {"completed", "running", "queued"}, IsRowOf(j),
             job' = [job EXCEPT ![j[1]].status = status],
             \/ status = "completed"
             \/ /\ ~job[j[1]].cancelRequested
                /\ job[j[1]].status \in {"queued", "running"},
             status = "running" => ClaimThread(j)
      PROVE  JobMove(a)
  <2>1. j = <<j[1], j[2]>>
    BY DEF Tasks
  <2> QED
    BY <1>2, <2>1, StatusAdvances DEF IsRowOf
<1>3. CASE Begin(j)
  BY <1>1, <1>2, <1>3, FailureAdvances DEF Begin, JobCancelled, facts
<1>4. CASE JudgeReturns(j)
  BY <1>1, <1>4, FailureAdvances DEF JudgeReturns
<1>5. CASE Mark(j)
  BY <1>1, <1>2, <1>5 DEF Mark
<1>6. ASSUME NEW fault \in Faults \union {"deadline"}, Raise(j, fault) PROVE JobMove(a)
  <2>1. FaultStatus(fault) \in {"scoring_failed", "timed_out", "failed"}
    BY DEF FaultStatus
  <2> QED
    BY <1>1, <1>6, <2>1, FailureAdvances DEF Raise, facts
<1>7. CASE WorkerStep(j)
  BY <1>1, <1>3, <1>4, <1>5, <1>6, <1>7
     DEF WorkerStep, Acquire, StartJudge, StartFail, StartCommit, StartRecord,
         Finish, facts
<1>8. CASE ClaimThread(j)
  BY <1>1, <1>2, <1>8 DEF ClaimThread
<1>9. CASE ThreadStep(j)
  BY <1>1, <1>8, <1>9, FailureAdvances
     DEF ThreadStep, FailThread, CommitThread, RecordThread, NotifyThread, facts
<1>10. CASE HandleCancel(j)
  BY <1>1, <1>2, <1>10, FailureAdvances DEF HandleCancel, JobCancelled
<1> QED
  BY <1>7, <1>9, <1>10

\* Every step is one of these moves for the job of every attempt.
LEMMA JobMoves ==
  ASSUME TypeOK, [Next]_vars, NEW a \in Attempts
  PROVE  JobMove(a)
<1>1. job \in [Attempts -> JobRow] /\ job[a] \in JobRow
  BY DEF TypeOK
<1>2. ASSUME UNCHANGED job PROVE JobMove(a)
  BY <1>2 DEF JobMove
<1>3. ASSUME NEW b \in Attempts,
             ExecutionStep(b) \/ ResumedNotifies(b) \/ DeadlinePasses(b)
      PROVE  JobMove(a)
  BY <1>2, <1>3, EnqueueSchedules DEF ExecutionStep, ExecutionEnds, ResumedFails,
     ResumedScores, ResumedNotifies, DeadlinePasses, facts
<1>4. CASE Rejudge
  <2>1. ASSUME NEW q \in request, RejudgePurge(q) PROVE JobMove(a)
    <3>1. a # q.attempt => job'[a] = job[a]
      BY <1>1, <2>1 DEF RejudgePurge
    <3>2. a = q.attempt => job'[a] = [job[a] EXCEPT !.status = "absent",
                                        !.cancelRequested = FALSE, !.prev = NoScore]
      BY <1>1, <2>1 DEF RejudgePurge
    <3> QED
      BY <1>1, <3>1, <3>2 DEF JobMove, Purged, JobRow
  <2>2. ASSUME NEW q \in request, RejudgeEnqueue(q) PROVE JobMove(a)
    <3>1. q.attempt \in Attempts
      BY DEF TypeOK, RequestRow
    <3> QED
      BY <1>2, <2>2, <3>1, EnqueueSchedules DEF RejudgeEnqueue, facts
  <2> QED
    BY <1>2, <1>4, <2>1, <2>2 DEF Rejudge, RejudgeCheck, facts
<1>5. CASE StopScoring
  <2>1. CASE job[a].status \in {"queued", "running"}
    <3> DEFINE marked == [job[a] EXCEPT !.cancelRequested = TRUE]
               status == IF job[a].status = "queued" THEN "cancelled"
                         ELSE job[a].status
    <3>1. job'[a] = [marked EXCEPT !.status = status]
      BY <1>1, <1>5, <2>1 DEF StopScoring, JobRow
    <3>2. /\ marked \in JobRow /\ marked.n = job[a].n /\ marked.prev = job[a].prev
          /\ marked.cancelRequested = TRUE
      BY <1>1 DEF JobRow
    <3>3. status \in {job[a].status, "cancelled"}
      OBVIOUS
    <3> HIDE DEF marked, status
    <3>4. /\ job'[a].n = job[a].n /\ job'[a].prev = job[a].prev
          /\ job'[a].status \in {job[a].status, "cancelled"}
          /\ job'[a].cancelRequested = TRUE
      BY <3>1, <3>2, <3>3 DEF JobRow
    <3>5. \A t \in Tasks : t[1] = a /\ t[2] = job[a].n /\ worker[t] # "none"
                             => t \in cancelled'
      BY <1>5, <2>1 DEF StopScoring
    <3> QED
      BY <2>1, <3>4, <3>5 DEF JobMove, Stopped
  <2>2. CASE job[a].status \notin {"queued", "running"}
    BY <1>5, <2>2 DEF StopScoring, JobMove
  <2> QED
    BY <2>1, <2>2
<1>6. CASE Restart
  <2>1. \/ job'[a] = job[a]
        \/ /\ job'[a] = [job[a] EXCEPT !.status = "queued"]
           /\ job[a].status = "running" /\ ~job[a].cancelRequested
    BY <1>6 DEF Restart
  <2> QED
    BY <1>1, <2>1 DEF JobMove, Advanced, JobRow
<1>7. CASE \/ StopList \/ StopRead \/ StopConverge \/ SweepList \/ SweepRead
           \/ SweepConverge
           \/ Shutdown \/ Exit \/ Crash \/ UNCHANGED vars
  BY <1>2, <1>7 DEF StopList, StopRead, StopConverge, SweepList, SweepRead,
     SweepConverge, Shutdown,
     Exit, Crash, vars, facts
<1> QED
  BY <1>3, <1>4, <1>5, <1>6, <1>7, TaskJobMoves DEF Next

\* Jobs of an attempt are numbered upwards.
LEMMA NumbersGrow ==
  ASSUME TypeOK, [Next]_vars, NEW a \in Attempts
  PROVE  job[a].n \in Nat /\ job[a].n <= job'[a].n
<1>1. job[a].n \in Nat
  BY ScoringQueueAssumption DEF TypeOK, JobRow, ScoringQueueAssumption
<1>2. job'[a].n = job[a].n \/ job'[a].n = job[a].n + 1
  BY JobMoves DEF JobMove, Scheduled, Purged, Advanced, Stopped
<1> QED
  BY <1>1, <1>2

\* A task gets to `preparing` only when its job is neither stopped nor
\* committed, and to `judging` only when no cancel is pending.
LEMMA JudgeGate ==
  ASSUME TypeOK, [Next]_vars, NEW t \in Tasks
  PROVE  /\ worker[t] # "preparing" /\ worker'[t] = "preparing"
              => ~JobCancelled(t) /\ ~Committed(t) /\ UNCHANGED <<job, outbox>>
         /\ worker[t] # "judging" /\ worker'[t] = "judging"
              => worker[t] = "preparing" /\ t \notin cancelled
<1> DEFINE Gate ==
      /\ worker[t] # "preparing" /\ worker'[t] = "preparing"
           => ~JobCancelled(t) /\ ~Committed(t) /\ UNCHANGED <<job, outbox>>
      /\ worker[t] # "judging" /\ worker'[t] = "judging"
           => worker[t] = "preparing" /\ t \notin cancelled
<1> SUFFICES Gate
  OBVIOUS
<1>1. worker \in [Tasks -> WorkerState]
  BY DEF TypeOK
<1>2. ASSUME UNCHANGED worker PROVE Gate
  BY <1>2
<1>3. ASSUME NEW j \in Tasks, NEW to, worker' = [worker EXCEPT ![j] = to],
             to \notin {"preparing", "judging"}
      PROVE  Gate
  BY <1>1, <1>3
<1>4. ASSUME NEW j \in Tasks, WorkerStep(j) PROVE Gate
  <2>1. CASE Begin(j)
    BY <1>1, <2>1 DEF Begin, At, Goto, facts, scores
  <2>2. CASE StartJudge(j)
    BY <1>1, <2>2 DEF StartJudge, At, Goto
  <2>3. ASSUME NEW fault, Raise(j, fault) PROVE Gate
    BY <1>3, <2>3 DEF Raise, Goto
  <2>4. CASE JudgeReturns(j)
    BY <1>3, <2>4 DEF JudgeReturns, Goto
  <2> QED
    BY <1>3, <1>4, <2>1, <2>2, <2>3, <2>4
       DEF WorkerStep, Acquire, StartFail, StartCommit, StartRecord, Mark, Finish,
           Goto
<1>5. ASSUME NEW j \in Tasks, ThreadStep(j) PROVE Gate
  <2>1. \/ Deliver(j, "claiming", "claimed") \/ Return(j, "claiming")
        \/ Return(j, "failing") \/ Deliver(j, "committing", "committed")
        \/ Deliver(j, "recording", "recorded") \/ Deliver(j, "notifying", "notified")
    BY <1>5 DEF ThreadStep, ClaimThread, FailThread, CommitThread, RecordThread,
       NotifyThread
  <2> QED
    BY <1>1, <2>1 DEF Deliver, Return
<1>6. ASSUME NEW j \in Tasks, HandleCancel(j) PROVE Gate
  BY <1>3, <1>6 DEF HandleCancel, Goto
<1>7. ASSUME NEW a \in Attempts, NEW verdict, NEW prev, NEW tasks,
             Enqueue(a, verdict, prev, tasks),
             tasks \in {worker, [worker EXCEPT ![Execution(a)] = "none"]}
      PROVE  Gate
  BY <1>1, <1>7 DEF Enqueue
<1>8. ASSUME NEW a \in Attempts,
             ExecutionStep(a) \/ ResumedNotifies(a) \/ DeadlinePasses(a)
      PROVE  Gate
  <2>1. Execution(a) \in Tasks
    BY ScoresType
  <2> QED
    BY <1>2, <1>3, <1>7, <1>8, <2>1
       DEF ExecutionStep, ExecutionEnds, ResumedFails, ResumedScores,
           ResumedNotifies, DeadlinePasses, Goto
<1>9. CASE Rejudge
  <2>1. ASSUME NEW q \in request, RejudgeEnqueue(q) PROVE Gate
    <3>1. q.attempt \in Attempts
      BY DEF TypeOK, RequestRow
    <3> QED
      BY <1>2, <1>7, <2>1, <3>1 DEF RejudgeEnqueue
  <2> QED
    BY <1>2, <1>9, <2>1 DEF Rejudge, RejudgeCheck, RejudgePurge
<1>10. CASE Restart
  BY <1>10, ProcessMoves
<1>11. CASE Crash
  BY <1>11 DEF Crash
<1>12. CASE \/ StopScoring \/ StopList \/ StopRead \/ StopConverge \/ SweepList
            \/ SweepRead \/ SweepConverge \/ Shutdown \/ Exit \/ UNCHANGED vars
  BY <1>2, <1>12 DEF StopScoring, StopList, StopRead, StopConverge, SweepList,
     SweepRead, SweepConverge,
     Shutdown, Exit, vars
<1> HIDE DEF Gate
<1> QED
  BY <1>4, <1>5, <1>6, <1>8, <1>9, <1>10, <1>11, <1>12 DEF Next

\* A commit appends the row of its job, at most once for a scoring job;
\* nothing else writes the outbox.
CommittedTo(j) ==
  \E i \in DOMAIN outbox : outbox[i].attempt = j[1] /\ outbox[i].job = j[2]

LEMMA OutboxGrows ==
  ASSUME TypeOK, [Next]_vars
  PROVE  \/ UNCHANGED outbox
         \/ \E j \in Tasks : \E rev :
              /\ CommitThread(j) /\ ~Committed(j)
              /\ outbox' = Append(outbox, [attempt |-> j[1], job |-> j[2],
                                           rev |-> rev])
BY HistoryWriters DEF CommitThread, RecordThread

\* The legacy status of an attempt never goes back to queued or running.
LEMMA ExecutionNotReopened ==
  ASSUME TypeOK, [Next]_vars, NEW a \in Attempts,
         attempt'[a].status \in {"queued", "running"}
  PROVE  attempt[a].status \in {"queued", "running"}
<1> DEFINE Reopened == /\ attempt'[a].status \in {"queued", "running"}
                       /\ attempt[a].status \notin {"queued", "running"}
<1> SUFFICES ASSUME Reopened PROVE FALSE
  OBVIOUS
<1>1. attempt \in [Attempts -> AttemptRow] /\ attempt[a] \in AttemptRow
  BY DEF TypeOK
<1>2. ASSUME UNCHANGED attempt PROVE FALSE
  BY <1>2
<1>3. ASSUME NEW b, NEW row, attempt' = [attempt EXCEPT ![b] = row],
             row.status \notin {"queued", "running"}
      PROVE  FALSE
  BY <1>1, <1>3
<1>4. ASSUME NEW j \in Tasks, NEW status, FinishFailure(j, status) PROVE FALSE
  <2> DEFINE b == j[1]
             row == [status  |-> IF status = "cancelled" THEN "cancelled"
                                 ELSE ExecutionProjection(attempt[b].exec),
                     exec    |-> attempt[b].exec,
                     scoring |-> status,
                     score   |-> job[b].prev]
  <2>1. row.status \notin {"queued", "running"}
    BY DEF ExecutionProjection
  <2>2. UNCHANGED attempt \/ attempt' = [attempt EXCEPT ![b] = row]
    BY <1>4 DEF FinishFailure, FailedWith
  <2> HIDE DEF row
  <2> QED
    BY <1>2, <1>3, <2>1, <2>2
<1>5. ASSUME NEW b, NEW status \in Ends \union {"interrupted"},
             attempt' = [attempt EXCEPT ![b] = FinalizedNoScore(status)]
      PROVE  FALSE
  <2>1. FinalizedNoScore(status).status \notin {"queued", "running"}
    BY ScoringQueueAssumption
       DEF ScoringQueueAssumption, EndWithoutScore, FinalizedNoScore
  <2> QED
    BY <1>3, <1>5, <2>1
<1>6. ASSUME NEW b, NEW verdict, NEW prev, NEW tasks, Enqueue(b, verdict, prev, tasks)
      PROVE  FALSE
  <2>1. EnqueuedRow(verdict).status = "scoring"
    BY DEF EnqueuedRow
  <2> QED
    BY <1>3, <1>6, <2>1 DEF Enqueue
<1>7. ASSUME NEW b, NEW scoring, attempt' = [attempt EXCEPT ![b].scoring = scoring]
      PROVE  FALSE
  BY <1>1, <1>7 DEF AttemptRow
<1>8. ASSUME NEW b \in Attempts,
             ExecutionStep(b) \/ ResumedNotifies(b) \/ DeadlinePasses(b)
      PROVE  FALSE
  BY <1>2, <1>5, <1>6, <1>8 DEF ExecutionStep, ExecutionEnds, ResumedFails,
     ResumedScores, ResumedNotifies, DeadlinePasses, facts
<1>9. ASSUME NEW j \in Tasks, WorkerStep(j) PROVE FALSE
  <2>1. CASE Begin(j) \/ JudgeReturns(j) \/ Mark(j)
    BY <1>2, <1>4, <1>7, <2>1 DEF Begin, JudgeReturns, Mark, facts
  <2>2. ASSUME NEW fault, Raise(j, fault) PROVE FALSE
    BY <1>2, <1>4, <2>2 DEF Raise, facts
  <2> QED
    BY <1>2, <1>9, <2>1, <2>2
       DEF WorkerStep, Acquire, StartJudge, StartFail, StartCommit, StartRecord,
           Finish, facts
<1>10. ASSUME NEW j \in Tasks, ThreadStep(j) PROVE FALSE
  <2>1. CASE ClaimThread(j)
    <3>1. UNCHANGED attempt
            \/ attempt' = [attempt EXCEPT ![j[1]].status = "scoring",
                                          ![j[1]].scoring = "running"]
      BY <2>1 DEF ClaimThread
    <3>2. UNCHANGED attempt \/ attempt'[a] = attempt[a]
            \/ attempt'[a] = [attempt[a] EXCEPT !.status = "scoring",
                                                !.scoring = "running"]
      BY <1>1, <3>1
    <3> QED
      BY <1>1, <3>2 DEF AttemptRow
  <2>2. CASE CommitThread(j)
    <3>1. \/ UNCHANGED attempt
          \/ \E final \in Scored : \E exec : attempt' = [attempt EXCEPT ![j[1]] =
               [status |-> final, exec |-> exec, scoring |-> "completed",
                score |-> j[2]]]
      BY <2>2 DEF CommitThread
    <3>2. ASSUME NEW final \in Scored, NEW exec,
                 attempt' = [attempt EXCEPT ![j[1]] =
                   [status |-> final, exec |-> exec, scoring |-> "completed",
                    score |-> j[2]]]
          PROVE  FALSE
      <4> DEFINE row == [status |-> final, exec |-> exec, scoring |-> "completed",
                         score |-> j[2]]
      <4>1. row.status \notin {"queued", "running"}
        BY DEF Scored
      <4> HIDE DEF row
      <4> QED
        BY <1>3, <3>2, <4>1 DEF row
    <3> QED
      BY <1>2, <3>1, <3>2
  <2> QED
    BY <1>2, <1>4, <1>10, <2>1, <2>2
       DEF ThreadStep, FailThread, RecordThread, NotifyThread, facts
<1>11. ASSUME NEW j \in Tasks, HandleCancel(j) PROVE FALSE
  BY <1>2, <1>4, <1>7, <1>11 DEF HandleCancel
<1>12. CASE Rejudge
  BY <1>2, <1>6, <1>12 DEF Rejudge, RejudgeCheck, RejudgePurge, RejudgeEnqueue, facts
<1>13. CASE StopScoring
  <2>1. \/ attempt'[a] = attempt[a]
        \/ attempt'[a].status \in {attempt[a].status, "cancelled"}
    BY <1>1, <1>13 DEF StopScoring, Row, AttemptRow
  <2> QED
    BY <1>1, <2>1
<1>14. ASSUME NEW open, NEW to \in {UserStopped, ScoringOverdue}, ConvergeAll(open, to)
       PROVE  FALSE
  BY <1>1, <1>14 DEF ConvergeAll, Converged, Row, OpenLegacy, UserStopped,
     ScoringOverdue
<1>15. CASE \/ StopList \/ StopRead \/ StopConverge \/ SweepList \/ SweepRead
            \/ SweepConverge
  BY <1>2, <1>14, <1>15 DEF StopList, StopRead, StopConverge, SweepList, SweepRead,
     SweepConverge, facts
<1>16. CASE Restart
  <2> DEFINE requeued == [b \in Attempts |->
               IF Row(b).scoring = "running"
               THEN [Row(b) EXCEPT !.scoring = "queued", !.status = "scoring"]
               ELSE Row(b)]
  <2>1. \E lost : attempt' = [b \in Attempts |->
              IF b \in lost THEN FinalizedNoScore("interrupted") ELSE requeued[b]]
    BY <1>16 DEF Restart
  <2>2. requeued[a].status \in {attempt[a].status, "scoring"}
    BY <1>1 DEF Row, AttemptRow
  <2>3. FinalizedNoScore("interrupted").status = "interrupted"
    BY DEF FinalizedNoScore
  <2> HIDE DEF requeued
  <2> QED
    BY <2>1, <2>2, <2>3
<1>17. CASE Shutdown \/ Exit \/ Crash \/ UNCHANGED vars
  BY <1>2, <1>17 DEF Shutdown, Exit, Crash, vars, facts
<1> HIDE DEF Reopened
<1> QED
  BY <1>8, <1>9, <1>10, <1>11, <1>12, <1>13, <1>15, <1>16, <1>17 DEF Next

-----------------------------------------------------------------------------
(* The invariant of the tasks.                                             *)

\* Tasks and threads belong to a job of their attempt that exists or existed.
Numbered ==
  \A j \in Tasks : (worker[j] # "none" \/ \E kind \in ThreadKind : <<j, kind>> \in thread)
                     => j[2] <= job[j[1]].n

\* Nothing runs in a process that is down.
DownIsEmpty == up = "down" => thread = {} /\ \A j \in Tasks : worker[j] = "none"

\* The coroutine of a running commit waits for it or was cancelled.
CommitAwaited ==
  \A j \in Tasks : <<j, "commit">> \in thread => worker[j] \in {"committing", "none"}

\* A job about to be judged has not committed.
NotCommittedYet ==
  \A j \in Tasks : worker[j] = "preparing" => ~CommittedTo(j)

\* An execution that has committed without a job is past its commit and is
\* never resumed.
ResumedOnce ==
  \A a \in Attempts :
    /\ worker[Execution(a)] \in {"none", "dispatched", "resumed", "committing",
                                 "committed", "notifying", "notified"}
    /\ CommittedTo(Execution(a)) =>
         /\ worker[Execution(a)] \in {"none", "committed", "notifying", "notified"}
         /\ <<Execution(a), "commit">> \notin thread
         /\ attempt[a].status \notin {"queued", "running"}

TaskInv == Numbered /\ DownIsEmpty /\ CommitAwaited /\ NotCommittedYet /\ ResumedOnce

LEMMA InitTasks == Init => TaskInv
<1> SUFFICES ASSUME Init PROVE TaskInv
  OBVIOUS
<1>1. \A j \in Tasks : worker[j] # "none" => j[2] = 0
  BY DEF Init
<1>2. \A j \in Tasks : j[1] \in Attempts
  BY ScoresType
<1>3. \A j : ~CommittedTo(j)
  BY DEF Init, CommittedTo
<1>4. \A a \in Attempts : worker[Execution(a)] = "dispatched"
  BY ScoresType DEF Init, Execution
<1> QED
  BY <1>1, <1>2, <1>3, <1>4
     DEF Init, TaskInv, Numbered, DownIsEmpty, CommitAwaited, NotCommittedYet,
         ResumedOnce

\* A new task has the new number of its attempt.
LEMMA NextNumbered ==
  ASSUME TypeOK, TypeOK', Numbered, [Next]_vars
  PROVE  Numbered'
<1> SUFFICES ASSUME NEW t \in Tasks,
                    worker'[t] # "none" \/ \E kind \in ThreadKind : <<t, kind>> \in thread'
             PROVE  t[2] <= job'[t[1]].n
  BY DEF Numbered
<1>1. TaskMove(t) /\ ThreadMove(t)
  BY Moves
<1>2. t[1] \in Attempts /\ t[2] \in Nat
  BY ScoresType, ScoringQueueAssumption DEF ScoringQueueAssumption
<1>3. job[t[1]].n \in Nat /\ job[t[1]].n <= job'[t[1]].n
  BY <1>2, NumbersGrow
<1>4. job'[t[1]].n \in Nat
  BY <1>2, ScoringQueueAssumption DEF TypeOK, JobRow, ScoringQueueAssumption
<1>5. CASE worker[t] # "none" \/ \E kind \in ThreadKind : <<t, kind>> \in thread
  BY <1>2, <1>3, <1>4, <1>5 DEF Numbered
<1>6. CASE worker[t] = "none" /\ ~\E kind \in ThreadKind : <<t, kind>> \in thread
  <2>1. \A kind \in ThreadKind : <<t, kind>> \notin thread'
    BY <1>1, <1>6 DEF ThreadMove
  <2>2. worker'[t] # "none" /\ worker'[t] # worker[t]
    BY <1>6, <2>1
  <2>3. t[2] = job'[t[1]].n \/ t[2] = job[t[1]].n \/ t[2] = 0
    BY <1>1, <1>6, <2>2 DEF TaskMove, Resumption
  <2> QED
    BY <1>2, <1>3, <1>4, <2>3
<1> QED
  BY <1>5, <1>6

\* A process goes down with nothing running, and nothing starts in it before
\* it is up.
LEMMA NextDown ==
  ASSUME TypeOK, DownIsEmpty, [Next]_vars
  PROVE  DownIsEmpty'
<1> SUFFICES ASSUME up' = "down"
             PROVE  thread' = {} /\ \A j \in Tasks : worker'[j] = "none"
  BY DEF DownIsEmpty
<1>1. CASE up = "down"
  <2>1. thread = {} /\ \A j \in Tasks : worker[j] = "none"
    BY <1>1 DEF DownIsEmpty
  <2>2. worker \in [Tasks -> WorkerState]
    BY DEF TypeOK
  <2>3. ASSUME NEW j \in Tasks, WorkerStep(j) PROVE FALSE
    <3>1. \A from : At(j, from) => from = "none"
      BY <2>1 DEF At
    <3>2. \A fault \in Faults \union {"deadline"} : worker[j] \notin RaisedAt(fault)
      BY <2>1, ScoringQueueAssumption
         DEF RaisedAt, ScoringQueueAssumption, FaultKinds
    <3>3. ASSUME NEW fault \in Faults \union {"deadline"}, Raise(j, fault) PROVE FALSE
      BY <3>2, <3>3 DEF Raise
    <3> QED
      BY <2>3, <3>1, <3>3 DEF WorkerStep, Acquire, Begin, StartJudge, JudgeReturns,
         StartFail, StartCommit, StartRecord, Mark, Finish
  <2>4. ASSUME NEW j \in Tasks, ThreadStep(j) PROVE FALSE
    BY <2>1, <2>4 DEF ThreadStep, ClaimThread, FailThread, CommitThread,
       RecordThread, NotifyThread, EndThread
  <2>5. ASSUME NEW a \in Attempts, ExecutionStep(a) \/ ResumedNotifies(a) PROVE FALSE
    <3>1. Execution(a) \in Tasks
      BY ScoresType
    <3> QED
      BY <2>1, <2>5, <3>1 DEF ExecutionStep, ExecutionEnds, ResumedFails,
         ResumedScores, ResumedNotifies, At
  <2>6. ASSUME NEW j \in Tasks, HandleCancel(j)
        PROVE  thread' = {} /\ \A k \in Tasks : worker'[k] = "none"
    BY <2>1, <2>2, <2>6 DEF HandleCancel, Goto
  <2>7. ASSUME UNCHANGED <<thread, worker>>
        PROVE  thread' = {} /\ \A k \in Tasks : worker'[k] = "none"
    BY <2>1, <2>7
  <2>8. ASSUME NEW a \in Attempts, DeadlinePasses(a) PROVE UNCHANGED <<thread, worker>>
    BY <2>8 DEF DeadlinePasses
  <2>9. CASE Rejudge
    BY <1>1, <2>9 DEF Rejudge, RejudgeCheck, RejudgePurge, RejudgeEnqueue
  <2>10. CASE \/ StopScoring \/ StopList \/ StopRead \/ StopConverge \/ SweepList
              \/ SweepRead \/ SweepConverge
    BY <2>7, <2>10 DEF StopScoring, StopList, StopRead, StopConverge, SweepList,
       SweepRead, SweepConverge
  <2>11. CASE Shutdown \/ Exit \/ Crash
    BY <1>1, <2>11 DEF Shutdown, Exit, Crash
  <2>12. CASE Restart
    <3>1. UNCHANGED thread /\ (up' = "up" \/ UNCHANGED worker)
      BY <2>12 DEF Restart
    <3> QED
      BY <2>7, <3>1
  <2>13. CASE UNCHANGED vars
    BY <2>7, <2>13 DEF vars
  <2> QED
    BY <2>3, <2>4, <2>5, <2>6, <2>7, <2>8, <2>9, <2>10, <2>11, <2>12, <2>13 DEF Next
<1>2. CASE up # "down"
  <2>1. Exit \/ Crash
    <3>1. ASSUME NEW j \in Tasks, WorkerStep(j) \/ ThreadStep(j) \/ HandleCancel(j)
          PROVE  UNCHANGED up
      BY <3>1
         DEF WorkerStep, Acquire, Begin, StartJudge, JudgeReturns, StartFail,
             StartCommit, StartRecord, Mark, Finish, Raise, ThreadStep, ClaimThread,
             FailThread, CommitThread, RecordThread, NotifyThread, HandleCancel, control
    <3>2. ASSUME NEW a \in Attempts,
                 ExecutionStep(a) \/ ResumedNotifies(a) \/ DeadlinePasses(a)
          PROVE  UNCHANGED up
      BY <3>2 DEF ExecutionStep, ExecutionEnds, ResumedFails, ResumedScores,
         ResumedNotifies, DeadlinePasses, control
    <3>3. CASE Rejudge \/ UNCHANGED vars
      BY <1>2, <3>3 DEF Rejudge, RejudgeCheck, RejudgePurge, RejudgeEnqueue, vars, control
    <3>4. CASE \/ StopScoring \/ StopList \/ StopRead \/ StopConverge \/ SweepList
               \/ SweepRead \/ SweepConverge
      BY <1>2, <3>4 DEF StopScoring, StopList, StopRead, StopConverge, SweepList,
         SweepRead, SweepConverge
    <3>5. CASE Shutdown \/ Restart
      BY <1>2, <3>5 DEF Shutdown, Restart
    <3> QED
      BY <1>2, <3>1, <3>2, <3>3, <3>4, <3>5 DEF Next
  <2> QED
    BY <2>1 DEF Exit, Crash
<1> QED
  BY <1>1, <1>2

\* An appended row commits its own job and no other.
LEMMA AppendCommits ==
  ASSUME TypeOK, NEW j \in Tasks, NEW rev, NEW t \in Tasks,
         outbox' = Append(outbox, [attempt |-> j[1], job |-> j[2], rev |-> rev])
  PROVE  CommittedTo(t)' <=> CommittedTo(t) \/ t = j
<1>1. /\ DOMAIN outbox = 1..Len(outbox) /\ Len(outbox) \in Nat
      /\ outbox \in Seq(OutboxRow)
  BY DEF TypeOK
<1> DEFINE row == [attempt |-> j[1], job |-> j[2], rev |-> rev]
<1>2. /\ DOMAIN outbox' = DOMAIN outbox \union {Len(outbox) + 1}
      /\ outbox'[Len(outbox) + 1] = row
      /\ \A i \in DOMAIN outbox : outbox'[i] = outbox[i]
  BY <1>1
<1>3. (row.attempt = t[1] /\ row.job = t[2]) <=> t = j
  BY DEF Tasks
<1> HIDE DEF row
<1> QED
  BY <1>2, <1>3 DEF CommittedTo

\* Only the commit's own thread takes a coroutine past its commit, and no new
\* task has the number of a thread that runs.
LEMMA NextCommitAwaited ==
  ASSUME TypeOK, Numbered, DownIsEmpty, CommitAwaited, [Next]_vars
  PROVE  CommitAwaited'
<1> SUFFICES ASSUME NEW t \in Tasks, <<t, "commit">> \in thread'
             PROVE  worker'[t] \in {"committing", "none"}
  BY DEF CommitAwaited
<1>1. TaskMove(t) /\ ThreadMove(t) /\ "commit" \in ThreadKind
  BY Moves DEF ThreadKind
<1>2. CASE <<t, "commit">> \notin thread
  BY <1>1, <1>2 DEF ThreadMove
<1>3. CASE <<t, "commit">> \in thread
  <2>1. worker[t] \in {"committing", "none"} /\ up # "down"
    BY <1>3 DEF CommitAwaited, DownIsEmpty
  <2>2. t[2] # job[t[1]].n + 1
    <3>1. t[2] <= job[t[1]].n
      BY <1>1, <1>3 DEF Numbered
    <3>2. t[2] \in Nat /\ job[t[1]].n \in Nat
      BY ScoresType, NumbersGrow
    <3> QED
      BY <3>1, <3>2
  <2> QED
    BY <1>1, <2>1, <2>2 DEF TaskMove, Resumption
<1> QED
  BY <1>2, <1>3

\* The commit of a job about to be judged would have to be awaited.
LEMMA NextNotCommitted ==
  ASSUME TypeOK, CommitAwaited, NotCommittedYet, ResumedOnce, [Next]_vars
  PROVE  NotCommittedYet'
<1> SUFFICES ASSUME NEW t \in Tasks, worker'[t] = "preparing"
             PROVE  ~CommittedTo(t)'
  BY DEF NotCommittedYet
<1>1. CASE worker[t] # "preparing"
  <2>1. ~Committed(t) /\ UNCHANGED outbox
    BY <1>1, JudgeGate
  <2>2. worker[t] = "claimed"
    BY <1>1, Moves DEF TaskMove, Resumption
  <2>3. t[2] # 0
    <3>1. t[1] \in Attempts /\ (t[2] = 0 => t = Execution(t[1]))
      BY DEF Tasks, Execution
    <3> QED
      BY <2>2, <3>1 DEF ResumedOnce
  <2> QED
    BY <2>1, <2>3 DEF Committed, CommittedTo
<1>2. CASE worker[t] = "preparing"
  <2>1. ~CommittedTo(t) /\ <<t, "commit">> \notin thread
    BY <1>2 DEF NotCommittedYet, CommitAwaited
  <2>2. CASE UNCHANGED outbox
    BY <2>1, <2>2 DEF CommittedTo
  <2>3. ASSUME NEW j \in Tasks, NEW rev, CommitThread(j),
               outbox' = Append(outbox, [attempt |-> j[1], job |-> j[2], rev |-> rev])
        PROVE  ~CommittedTo(t)'
    <3>1. <<j, "commit">> \in thread
      BY <2>3 DEF CommitThread, EndThread
    <3> QED
      BY <2>1, <2>3, <3>1, AppendCommits
  <2> QED
    BY <2>2, <2>3, OutboxGrows
<1> QED
  BY <1>1, <1>2

\* An execution is resumed only while its attempt is queued or running, which
\* its commit ends for good.
LEMMA NextResumed ==
  ASSUME TypeOK, CommitAwaited, ResumedOnce, [Next]_vars
  PROVE  ResumedOnce'
<1> SUFFICES ASSUME NEW a \in Attempts
             PROVE  /\ worker'[Execution(a)] \in
                         {"none", "dispatched", "resumed", "committing",
                          "committed", "notifying", "notified"}
                    /\ CommittedTo(Execution(a))' =>
                         /\ worker'[Execution(a)] \in
                              {"none", "committed", "notifying", "notified"}
                         /\ <<Execution(a), "commit">> \notin thread'
                         /\ attempt'[a].status \notin {"queued", "running"}
  BY DEF ResumedOnce, Execution
<1> DEFINE e == Execution(a)
<1>1. e \in Tasks /\ e[1] = a /\ e[2] = 0
  BY ScoresType DEF Execution
<1>2. e[2] # job[a].n + 1
  BY <1>1, NumbersGrow
<1> HIDE DEF e
<1>3. TaskMove(e) /\ ThreadMove(e) /\ "commit" \in ThreadKind
  BY <1>1, Moves DEF ThreadKind
<1>4. worker[e] \in {"none", "dispatched", "resumed", "committing", "committed",
                     "notifying", "notified"}
  BY DEF ResumedOnce, e
<1>5. worker'[e] \in {"none", "dispatched", "resumed", "committing", "committed",
                      "notifying", "notified"}
  BY <1>1, <1>2, <1>3, <1>4 DEF TaskMove, Resumption
<1>6. ASSUME CommittedTo(e)
      PROVE  /\ worker'[e] \in {"none", "committed", "notifying", "notified"}
             /\ <<e, "commit">> \notin thread'
             /\ attempt'[a].status \notin {"queued", "running"}
  <2>1. /\ worker[e] \in {"none", "committed", "notifying", "notified"}
        /\ <<e, "commit">> \notin thread
        /\ attempt[a].status \notin {"queued", "running"}
    BY <1>6 DEF ResumedOnce, e
  <2>2. attempt'[a].status \notin {"queued", "running"}
    BY <2>1, ExecutionNotReopened
  <2>3. <<e, "commit">> \notin thread'
    BY <1>3, <2>1 DEF ThreadMove
  <2>4. worker'[e] \in {"none", "committed", "notifying", "notified"}
    BY <1>1, <1>2, <1>3, <2>1 DEF TaskMove, Resumption
  <2> QED
    BY <2>2, <2>3, <2>4
<1>7. ASSUME NEW j \in Tasks, NEW rev, CommitThread(j),
             outbox' = Append(outbox, [attempt |-> j[1], job |-> j[2], rev |-> rev]),
             CommittedTo(e)', ~CommittedTo(e)
      PROVE  /\ worker'[e] \in {"none", "committed", "notifying", "notified"}
             /\ <<e, "commit">> \notin thread'
             /\ attempt'[a].status \notin {"queued", "running"}
  <2>1. j = e
    BY <1>1, <1>7, AppendCommits
  <2>2. ~Committed(e)
    BY <1>1 DEF Committed
  <2>3. <<e, "commit">> \in thread /\ <<e, "commit">> \notin thread'
    BY <1>7, <2>1 DEF CommitThread, EndThread
  <2>4. worker[e] \in {"committing", "none"}
    BY <1>1, <2>3 DEF CommitAwaited
  <2>5. worker'[e] \in {"none", "committed"}
    BY <1>1, <1>7, <2>1, <2>4 DEF CommitThread, Deliver, TypeOK
  <2>6. \E final \in Scored : \E exec : attempt' = [attempt EXCEPT ![a] =
          [status |-> final, exec |-> exec, scoring |-> "completed",
           score |-> e[2]]]
    BY <1>1, <1>7, <2>1, <2>2 DEF CommitThread
  <2>7. attempt'[a].status \in Scored
    BY <2>6 DEF TypeOK
  <2> QED
    BY <2>3, <2>5, <2>7 DEF Scored
<1>8. CASE UNCHANGED outbox
  BY <1>5, <1>6, <1>8 DEF CommittedTo, e
<1> QED
  BY <1>5, <1>6, <1>7, <1>8, OutboxGrows DEF e

\* The invariant holds in every reachable state.
LEMMA TasksInvariant == Spec => [](TypeOK /\ TaskInv)
<1>1. TypeOK /\ TypeOK' /\ TaskInv /\ [Next]_vars => TaskInv'
  BY NextNumbered, NextDown, NextCommitAwaited, NextNotCommitted, NextResumed
     DEF TaskInv
<1>2. Spec => []TypeOK
  BY Histories, PTL
<1> QED
  BY <1>1, <1>2, InitTasks, PTL DEF Spec

-----------------------------------------------------------------------------
(* Theorems.                                                               *)

\* A commit keeps one row per job: the test of the transaction covers jobs,
\* ResumedOnce the executions that are judged without one.
LEMMA NextOutboxPerJob ==
  ASSUME TypeOK, TaskInv, OutboxPerJob, [Next]_vars
  PROVE  OutboxPerJob'
<1>1. CASE UNCHANGED outbox
  BY <1>1 DEF OutboxPerJob
<1>2. ASSUME NEW j \in Tasks, NEW rev, CommitThread(j), ~Committed(j),
             outbox' = Append(outbox, [attempt |-> j[1], job |-> j[2], rev |-> rev])
      PROVE  OutboxPerJob'
  <2>1. ~CommittedTo(j)
    <3>1. <<j, "commit">> \in thread
      BY <1>2 DEF CommitThread, EndThread
    <3>2. j[1] \in Attempts /\ (j[2] = 0 => j = Execution(j[1]))
      BY DEF Tasks, Execution
    <3>3. CASE j[2] = 0
      BY <3>1, <3>2, <3>3 DEF TaskInv, ResumedOnce
    <3>4. CASE j[2] # 0
      BY <1>2, <3>4 DEF Committed, CommittedTo
    <3> QED
      BY <3>3, <3>4
  <2> DEFINE row == [attempt |-> j[1], job |-> j[2], rev |-> rev]
  <2>2. /\ DOMAIN outbox = 1..Len(outbox) /\ Len(outbox) \in Nat
        /\ outbox \in Seq(OutboxRow)
    BY DEF TypeOK
  <2>3. /\ DOMAIN outbox' = DOMAIN outbox \union {Len(outbox) + 1}
        /\ outbox'[Len(outbox) + 1] = row
        /\ \A i \in DOMAIN outbox : outbox'[i] = outbox[i]
    BY <1>2, <2>2
  <2>4. row.attempt = j[1] /\ row.job = j[2]
    OBVIOUS
  <2> HIDE DEF row
  <2> QED
    BY <2>1, <2>3, <2>4 DEF OutboxPerJob, CommittedTo
<1> QED
  BY <1>1, <1>2, OutboxGrows

\* A job commits at most one score, and so does an execution judged without a
\* job, whatever is replayed after a crash or outlives its coroutine.
THEOREM OneCommitPerJob == Spec => []OutboxPerJob
<1>1. Init => OutboxPerJob
  BY DEF Init, OutboxPerJob
<1>2. TypeOK /\ TaskInv /\ OutboxPerJob /\ [Next]_vars => OutboxPerJob'
  BY NextOutboxPerJob
<1> QED
  BY <1>1, <1>2, TasksInvariant, PTL DEF Spec

\* No judge starts for a job that has committed.
THEOREM CommittedIsNotJudged == Spec => NoJudgeAfterCommit
<1>1. TypeOK /\ TaskInv /\ [Next]_vars =>
        \A j \in Jobs : worker[j] # "judging" /\ worker'[j] = "judging"
          => \A i \in DOMAIN outbox : <<outbox[i].attempt, outbox[i].job>> # j
  <2> SUFFICES ASSUME TypeOK, TaskInv, [Next]_vars, NEW j \in Jobs,
                      worker[j] # "judging", worker'[j] = "judging"
               PROVE  \A i \in DOMAIN outbox : <<outbox[i].attempt, outbox[i].job>> # j
    OBVIOUS
  <2>1. j \in Tasks
    BY ScoringQueueAssumption DEF Jobs, Tasks, ScoringQueueAssumption
  <2>2. worker[j] = "preparing"
    BY <2>1, JudgeGate
  <2>3. ~CommittedTo(j)
    BY <2>1, <2>2 DEF TaskInv, NotCommittedYet
  <2> QED
    BY <2>3 DEF CommittedTo
<1> QED
  BY <1>1, TasksInvariant, PTL DEF Spec, NoJudgeAfterCommit

\* A job whose stop was accepted is not started or queued again.
THEOREM StopHolds == Spec => StopIsFinal
<1>1. TypeOK /\ [Next]_vars =>
        \A a \in Attempts :
          /\ job[a].cancelRequested /\ job'[a].n = job[a].n
          /\ job'[a].status \in {"queued", "running"}
          => job'[a].status = job[a].status
  <2> SUFFICES ASSUME TypeOK, [Next]_vars, NEW a \in Attempts,
                      job[a].cancelRequested, job'[a].n = job[a].n,
                      job'[a].status \in {"queued", "running"}
               PROVE  job'[a].status = job[a].status
    OBVIOUS
  <2>1. job[a].n \in Nat
    BY NumbersGrow
  <2>2. JobMove(a)
    BY JobMoves
  <2>3. CASE Advanced(a)
    BY <2>3 DEF Advanced
  <2>4. CASE Stopped(a)
    BY <2>4 DEF Stopped
  <2>5. ~Purged(a)
    BY DEF Purged
  <2>6. ~Scheduled(a)
    BY <2>1 DEF Scheduled
  <2> QED
    BY <2>2, <2>3, <2>4, <2>5, <2>6 DEF JobMove
<1> QED
  BY <1>1, TasksInvariant, PTL DEF Spec, StopIsFinal

\* The coroutine of a stopped job that is about to be judged has a cancel
\* pending.
StopDelivered ==
  \A j \in Tasks : /\ worker[j] = "preparing"
                   /\ IsRowOf(j) /\ job[j[1]].cancelRequested
                   => j \in cancelled

\* A pending cancel goes only with the end of its task.
LEMMA CancelKept ==
  ASSUME TypeOK, [Next]_vars, NEW t \in Tasks, t \in cancelled, t \notin cancelled'
  PROVE  worker'[t] = "none"
<1>1. worker \in [Tasks -> WorkerState]
  BY DEF TypeOK
<1>2. ASSUME cancelled \subseteq cancelled' PROVE FALSE
  BY <1>2
<1>3. ASSUME NEW j \in Tasks, HandleCancel(j) PROVE worker'[t] = "none"
  BY <1>1, <1>3 DEF HandleCancel, Goto
<1>4. CASE Crash
  BY <1>4 DEF Crash
<1>5. CASE Shutdown
  BY <1>5 DEF Shutdown
<1>6. ASSUME NEW j \in Tasks, WorkerStep(j) \/ ThreadStep(j) PROVE FALSE
  BY <1>2, <1>6
     DEF WorkerStep, Acquire, Begin, StartJudge, JudgeReturns, StartFail,
         StartCommit, StartRecord, Mark, Finish, Raise, ThreadStep, ClaimThread,
         FailThread, CommitThread, RecordThread, NotifyThread
<1>7. ASSUME NEW a \in Attempts,
             ExecutionStep(a) \/ ResumedNotifies(a) \/ DeadlinePasses(a)
      PROVE  FALSE
  BY <1>2, <1>7 DEF ExecutionStep, ExecutionEnds, ResumedFails, ResumedScores,
     ResumedNotifies, DeadlinePasses
<1>8. CASE \/ Rejudge \/ StopScoring \/ StopList \/ StopRead \/ StopConverge \/ SweepList
           \/ SweepRead \/ SweepConverge \/ Exit \/ Restart \/ UNCHANGED vars
  BY <1>2, <1>8
     DEF Rejudge, RejudgeCheck, RejudgePurge, RejudgeEnqueue, StopScoring, StopList,
         StopRead, StopConverge, SweepList, SweepRead, SweepConverge, Exit, Restart,
         vars
<1> QED
  BY <1>3, <1>4, <1>5, <1>6, <1>7, <1>8 DEF Next

\* A stop cancels the task of every job it marks; the mark goes with the row.
LEMMA NextStopDelivered ==
  ASSUME TypeOK, TypeOK', StopDelivered, [Next]_vars
  PROVE  StopDelivered'
<1> SUFFICES ASSUME NEW t \in Tasks, worker'[t] = "preparing",
                    job'[t[1]].n = t[2], job'[t[1]].status # "absent",
                    job'[t[1]].cancelRequested
             PROVE  t \in cancelled'
  BY DEF StopDelivered, IsRowOf
<1> DEFINE a == t[1]
<1>1. JobMove(a) /\ a \in Attempts
  BY JobMoves, ScoresType
<1>2. CASE worker[t] # "preparing"
  <2>1. ~JobCancelled(t) /\ UNCHANGED job
    BY <1>2, JudgeGate
  <2> QED
    BY <2>1 DEF JobCancelled, IsRowOf
<1>3. CASE worker[t] = "preparing"
  <2>1. Stopped(a) \/ (/\ job'[a].n = job[a].n /\ job[a].status # "absent"
                       /\ job[a].cancelRequested)
    <3>1. ~Scheduled(a) /\ ~Purged(a)
      BY DEF Scheduled, Purged
    <3>2. CASE job'[a] = job[a]
      BY <3>2
    <3>3. CASE Advanced(a)
      BY <3>3, Zenon DEF Advanced
    <3> QED
      BY <1>1, <3>1, <3>2, <3>3 DEF JobMove
  <2>2. CASE Stopped(a)
    BY <1>3, <2>2 DEF Stopped
  <2>3. CASE /\ job'[a].n = job[a].n /\ job[a].status # "absent"
             /\ job[a].cancelRequested
    <3>1. t \in cancelled
      BY <1>3, <2>3 DEF StopDelivered, IsRowOf
    <3>2. worker'[t] # "none"
      OBVIOUS
    <3> QED
      BY <3>1, <3>2, CancelKept
  <2> QED
    BY <2>1, <2>2, <2>3
<1> QED
  BY <1>2, <1>3

\* No judge starts for a job whose stop was accepted.
THEOREM StoppedIsNotJudged == Spec => NoJudgeAfterStop
<1>1. Init => StopDelivered
  BY DEF Init, StopDelivered
<1>2. TypeOK /\ TypeOK' /\ StopDelivered /\ [Next]_vars => StopDelivered'
  BY NextStopDelivered
<1>3. TypeOK /\ StopDelivered /\ [Next]_vars =>
        \A j \in Jobs : worker[j] # "judging" /\ worker'[j] = "judging"
          => ~(IsRowOf(j) /\ job[j[1]].cancelRequested)
  <2> SUFFICES ASSUME TypeOK, StopDelivered, [Next]_vars, NEW j \in Jobs,
                      worker[j] # "judging", worker'[j] = "judging"
               PROVE  ~(IsRowOf(j) /\ job[j[1]].cancelRequested)
    OBVIOUS
  <2>1. j \in Tasks
    BY ScoringQueueAssumption DEF Jobs, Tasks, ScoringQueueAssumption
  <2>2. worker[j] = "preparing" /\ j \notin cancelled
    BY <2>1, JudgeGate
  <2> QED
    BY <2>1, <2>2 DEF StopDelivered
<1> QED
  BY <1>1, <1>2, <1>3, TasksInvariant, PTL DEF Spec, NoJudgeAfterStop

-----------------------------------------------------------------------------
(* Every score that is shown, saved in a job or carried by a rejudge request   *)
(* was committed to the outbox.                                                *)

\* A step clears the score of an attempt, gives back the one its job saved, or
\* commits a new one.
ScoreMove(a) ==
  \/ attempt'[a].score \in {attempt[a].score, NoScore, job[a].prev}
  \/ \E score : attempt'[a].score = score /\ CommittedTo(<<a, score>>)'

\* A write of one attempt that leaves its score or clears it is such a move.
LEMMA RowScores ==
  ASSUME TypeOK, NEW b, NEW row, attempt' = [attempt EXCEPT ![b] = row],
         row.score \in {attempt[b].score, NoScore, job[b].prev},
         NEW a \in Attempts
  PROVE  ScoreMove(a)
<1>1. attempt \in [Attempts -> AttemptRow]
  BY DEF TypeOK
<1>2. attempt'[a] = IF a = b THEN row ELSE attempt[a]
  BY <1>1
<1> QED
  BY <1>2 DEF ScoreMove

\* The failure path gives back the score the job saved.
LEMMA FailureScores ==
  ASSUME TypeOK, NEW j \in Tasks, NEW status, FinishFailure(j, status),
         NEW a \in Attempts
  PROVE  ScoreMove(a)
<1> DEFINE b == j[1]
           row == [status  |-> IF status = "cancelled" THEN "cancelled"
                               ELSE ExecutionProjection(attempt[b].exec),
                   exec    |-> attempt[b].exec,
                   scoring |-> status,
                   score   |-> job[b].prev]
<1>1. UNCHANGED attempt \/ attempt' = [attempt EXCEPT ![b] = row]
  BY DEF FinishFailure, FailedWith
<1>2. row.score = job[b].prev
  OBVIOUS
<1> HIDE DEF row
<1>3. CASE UNCHANGED attempt
  BY <1>3 DEF ScoreMove
<1>4. CASE attempt' = [attempt EXCEPT ![b] = row]
  BY <1>2, <1>4, RowScores
<1> QED
  BY <1>1, <1>3, <1>4

\* The commit shows the score it has just appended.
LEMMA CommitScores ==
  ASSUME TypeOK, NEW j \in Tasks, CommitThread(j), NEW a \in Attempts
  PROVE  ScoreMove(a)
<1>1. CASE UNCHANGED attempt
  BY <1>1 DEF ScoreMove
<1>2. CASE ~Committed(j)
  <2>1. PICK final, exec, rev :
          /\ attempt' = [attempt EXCEPT ![j[1]] =
               [status |-> final, exec |-> exec, scoring |-> "completed",
                score |-> j[2]]]
          /\ outbox' = Append(outbox, [attempt |-> j[1], job |-> j[2], rev |-> rev])
    BY <1>2 DEF CommitThread
  <2>2. CASE a # j[1]
    BY <2>1, <2>2 DEF TypeOK, ScoreMove
  <2>3. CASE a = j[1]
    <3>1. attempt'[a] = [status |-> final, exec |-> exec,
                         scoring |-> "completed", score |-> j[2]]
      BY <2>1, <2>3 DEF TypeOK
    <3>2. CommittedTo(j)'
      BY <2>1, AppendCommits
    <3>3. j = <<a, j[2]>>
      BY <2>3 DEF Tasks
    <3> QED
      BY <3>1, <3>2, <3>3 DEF ScoreMove, CommittedTo
  <2> QED
    BY <2>2, <2>3
<1> QED
  BY <1>1, <1>2 DEF CommitThread

\* A changed scoring status alone leaves the score.
LEMMA ScoringScores ==
  ASSUME TypeOK, NEW b, NEW scoring,
         attempt' = [attempt EXCEPT ![b].scoring = scoring], NEW a \in Attempts
  PROVE  ScoreMove(a)
<1>1. attempt \in [Attempts -> AttemptRow]
  BY DEF TypeOK
<1>2. \/ attempt'[a] = attempt[a]
      \/ attempt'[a] = [attempt[a] EXCEPT !.scoring = scoring]
  BY <1>1
<1> QED
  BY <1>1, <1>2 DEF ScoreMove, AttemptRow

\* Every step is such a move for every attempt.
LEMMA ScoreMoves ==
  ASSUME TypeOK, [Next]_vars, NEW a \in Attempts
  PROVE  ScoreMove(a)
<1>1. attempt \in [Attempts -> AttemptRow] /\ attempt[a] \in AttemptRow
  BY DEF TypeOK
<1>2. ASSUME UNCHANGED attempt PROVE ScoreMove(a)
  BY <1>2 DEF ScoreMove
<1>3. ASSUME NEW b, NEW status, attempt' = [attempt EXCEPT ![b] = FinalizedNoScore(status)]
      PROVE  ScoreMove(a)
  <2>1. FinalizedNoScore(status).score = NoScore
    BY DEF FinalizedNoScore
  <2> QED
    BY <1>3, <2>1, RowScores
<1>4. ASSUME NEW b, NEW verdict, NEW prev, NEW tasks, Enqueue(b, verdict, prev, tasks)
      PROVE  ScoreMove(a)
  <2>1. EnqueuedRow(verdict).score = NoScore
    BY DEF EnqueuedRow
  <2> QED
    BY <1>4, <2>1, RowScores DEF Enqueue
<1>5. ASSUME NEW b \in Attempts,
             ExecutionStep(b) \/ ResumedNotifies(b) \/ DeadlinePasses(b)
      PROVE  ScoreMove(a)
  BY <1>2, <1>3, <1>4, <1>5 DEF ExecutionStep, ExecutionEnds, ResumedFails,
     ResumedScores, ResumedNotifies, DeadlinePasses, facts
<1>6. ASSUME NEW j \in Tasks, WorkerStep(j) PROVE ScoreMove(a)
  <2>1. CASE Begin(j) \/ JudgeReturns(j) \/ Mark(j)
    BY <1>2, <2>1, FailureScores, ScoringScores DEF Begin, JudgeReturns, Mark, facts
  <2>2. ASSUME NEW fault, Raise(j, fault) PROVE ScoreMove(a)
    BY <1>2, <2>2, FailureScores DEF Raise, facts
  <2> QED
    BY <1>2, <1>6, <2>1, <2>2
       DEF WorkerStep, Acquire, StartJudge, StartFail, StartCommit, StartRecord,
           Finish, facts
<1>7. ASSUME NEW j \in Tasks, ThreadStep(j) PROVE ScoreMove(a)
  <2>1. CASE ClaimThread(j)
    <3>1. \/ UNCHANGED attempt
          \/ attempt' = [attempt EXCEPT ![j[1]].status = "scoring",
                                        ![j[1]].scoring = "running"]
      BY <2>1 DEF ClaimThread
    <3>2. \/ attempt'[a] = attempt[a]
          \/ attempt'[a] = [attempt[a] EXCEPT !.status = "scoring",
                                              !.scoring = "running"]
      BY <1>1, <3>1
    <3> QED
      BY <1>1, <3>2 DEF AttemptRow, ScoreMove
  <2> QED
    BY <1>2, <1>7, <2>1, FailureScores, CommitScores
       DEF ThreadStep, FailThread, RecordThread, NotifyThread, facts
<1>8. ASSUME NEW j \in Tasks, HandleCancel(j) PROVE ScoreMove(a)
  BY <1>2, <1>8, FailureScores, ScoringScores DEF HandleCancel
<1>9. CASE Rejudge
  BY <1>2, <1>4, <1>9 DEF Rejudge, RejudgeCheck, RejudgePurge, RejudgeEnqueue, facts
<1>10. CASE StopScoring
  BY <1>1, <1>10 DEF StopScoring, Row, AttemptRow, ScoreMove
<1>11. ASSUME NEW open, NEW to, ConvergeAll(open, to) PROVE ScoreMove(a)
  BY <1>1, <1>11 DEF ConvergeAll, Converged, Row, ScoreMove
<1>12. CASE \/ StopList \/ StopRead \/ StopConverge \/ SweepList \/ SweepRead
            \/ SweepConverge
  BY <1>2, <1>11, <1>12 DEF StopList, StopRead, StopConverge, SweepList, SweepRead,
     SweepConverge, facts
<1>13. CASE Restart
  <2> DEFINE requeued == [b \in Attempts |->
               IF Row(b).scoring = "running"
               THEN [Row(b) EXCEPT !.scoring = "queued", !.status = "scoring"]
               ELSE Row(b)]
  <2>1. \E lost : attempt' = [b \in Attempts |->
              IF b \in lost THEN FinalizedNoScore("interrupted") ELSE requeued[b]]
    BY <1>13 DEF Restart
  <2>2. requeued[a].score = attempt[a].score
    BY <1>1 DEF Row, AttemptRow
  <2>3. FinalizedNoScore("interrupted").score = NoScore
    BY DEF FinalizedNoScore
  <2> HIDE DEF requeued
  <2> QED
    BY <2>1, <2>2, <2>3 DEF ScoreMove
<1>14. CASE Shutdown \/ Exit \/ Crash \/ UNCHANGED vars
  BY <1>2, <1>14 DEF Shutdown, Exit, Crash, vars, facts
<1> QED
  BY <1>5, <1>6, <1>7, <1>8, <1>9, <1>10, <1>12, <1>13, <1>14 DEF Next

\* A rejudge request carries the score its check read.
LEMMA RequestMoves ==
  ASSUME TypeOK, [Next]_vars, NEW q \in request'
  PROVE  \/ \E p \in request : q.attempt = p.attempt /\ q.prev = p.prev
         \/ \E r \in Requests, a \in Attempts :
              RejudgeCheck(r, a) /\ q.attempt = a /\ q.prev = attempt[a].score
<1> DEFINE Kept == \E p \in request : q.attempt = p.attempt /\ q.prev = p.prev
<1>1. ASSUME request' \subseteq request PROVE Kept
  BY <1>1
<1>2. ASSUME NEW r \in Requests, NEW a \in Attempts, RejudgeCheck(r, a)
      PROVE  Kept \/ (q.attempt = a /\ q.prev = attempt[a].score)
  BY <1>2 DEF RejudgeCheck, Row
<1>3. ASSUME NEW p \in request, RejudgePurge(p) PROVE Kept
  <2>1. q \in request \/ q = [p EXCEPT !.purged = TRUE]
    BY <1>3 DEF RejudgePurge
  <2> QED
    BY <2>1 DEF TypeOK, RequestRow
<1>4. ASSUME NEW p \in request, RejudgeEnqueue(p) PROVE Kept
  BY <1>1, <1>4 DEF RejudgeEnqueue
<1>5. ASSUME NEW j \in Tasks, WorkerStep(j) \/ ThreadStep(j) \/ HandleCancel(j)
      PROVE  UNCHANGED request
  BY <1>5
     DEF WorkerStep, Acquire, Begin, StartJudge, JudgeReturns, StartFail,
         StartCommit, StartRecord, Mark, Finish, Raise, ThreadStep, ClaimThread,
         FailThread, CommitThread, RecordThread, NotifyThread, HandleCancel, control
<1>6. ASSUME NEW a \in Attempts,
             ExecutionStep(a) \/ ResumedNotifies(a) \/ DeadlinePasses(a)
      PROVE  UNCHANGED request
  BY <1>6 DEF ExecutionStep, ExecutionEnds, ResumedFails, ResumedScores,
     ResumedNotifies, DeadlinePasses, control
<1>7. CASE \/ StopScoring \/ StopList \/ StopRead \/ StopConverge \/ SweepList
           \/ SweepRead \/ SweepConverge \/ Shutdown \/ Exit \/ Crash \/ Restart \/ UNCHANGED vars
  <2>1. request' \subseteq request
    BY <1>7 DEF StopScoring, StopList, StopRead, StopConverge, SweepList, SweepRead,
       SweepConverge,
       Shutdown, Exit, Crash, Restart, vars, control
  <2> QED
    BY <1>1, <2>1
<1> HIDE DEF Kept
<1> QED
  BY <1>1, <1>2, <1>3, <1>4, <1>5, <1>6, <1>7 DEF Next, Rejudge, Kept

\* The invariant: a score, wherever it is kept, was committed.
Backed(a, score) == score # NoScore => CommittedTo(<<a, score>>)

BackedInv ==
  /\ \A a \in Attempts : Backed(a, attempt[a].score) /\ Backed(a, job[a].prev)
  /\ \A q \in request : Backed(q.attempt, q.prev)

LEMMA InitBacked == Init => BackedInv
<1> SUFFICES ASSUME Init PROVE BackedInv
  OBVIOUS
<1>1. \A a \in Attempts : attempt[a].score = NoScore /\ job[a].prev = NoScore
  BY DEF Init
<1>2. request = {}
  BY DEF Init
<1> QED
  BY <1>1, <1>2 DEF BackedInv, Backed

\* Committed rows are never taken back.
LEMMA CommittedStays ==
  ASSUME TypeOK, [Next]_vars, NEW t, CommittedTo(t)
  PROVE  CommittedTo(t)'
<1>1. DOMAIN outbox = 1..Len(outbox) /\ Len(outbox) \in Nat /\ outbox \in Seq(OutboxRow)
  BY DEF TypeOK
<1>2. CASE UNCHANGED outbox
  BY <1>2 DEF CommittedTo
<1>3. ASSUME NEW row, outbox' = Append(outbox, row) PROVE CommittedTo(t)'
  <2>1. \A i \in DOMAIN outbox : i \in DOMAIN outbox' /\ outbox'[i] = outbox[i]
    BY <1>1, <1>3
  <2> QED
    BY <2>1 DEF CommittedTo
<1> QED
  BY <1>2, <1>3, OutboxGrows

\* A step keeps every score backed.
LEMMA NextBacked ==
  ASSUME TypeOK, BackedInv, [Next]_vars
  PROVE  BackedInv'
<1>1. ASSUME NEW a, NEW score, Backed(a, score) PROVE Backed(a, score)'
  BY <1>1, CommittedStays DEF Backed
<1>2. \A a : Backed(a, NoScore)'
  BY DEF Backed
<1>3. ASSUME NEW a \in Attempts, NEW score, score = attempt'[a].score
      PROVE  Backed(a, score)'
  <2>1. CASE CommittedTo(<<a, score>>)'
    BY <2>1 DEF Backed
  <2>2. CASE score \in {attempt[a].score, NoScore, job[a].prev}
    BY <1>1, <1>2, <2>2 DEF BackedInv
  <2> QED
    BY <1>3, <2>1, <2>2, ScoreMoves DEF ScoreMove
<1>4. ASSUME NEW a \in Attempts, NEW score, score = job'[a].prev
      PROVE  Backed(a, score)'
  <2>1. \/ score \in {job[a].prev, NoScore}
        \/ \E q \in request : q.attempt = a /\ score = q.prev
    BY <1>4, JobMoves DEF JobMove, Scheduled, Purged, Advanced, Stopped
  <2> QED
    BY <1>1, <1>2, <2>1 DEF BackedInv
<1>5. ASSUME NEW q \in request' PROVE Backed(q.attempt, q.prev)'
  <2>1. Backed(q.attempt, q.prev)
    BY RequestMoves DEF BackedInv
  <2> QED
    BY <1>1, <2>1
<1>6. ASSUME NEW a \in Attempts
      PROVE  Backed(a, attempt[a].score)' /\ Backed(a, job[a].prev)'
  BY <1>3, <1>4
<1> QED
  BY <1>5, <1>6 DEF BackedInv

\* A score on display was committed by a job of its attempt.
THEOREM DisplayedIsCommitted == Spec => []ScoreBacked
<1>1. TypeOK /\ BackedInv /\ [Next]_vars => BackedInv'
  BY NextBacked
<1>2. BackedInv => ScoreBacked
  BY DEF BackedInv, Backed, CommittedTo, ScoreBacked
<1>3. Spec => []TypeOK
  BY TypeCorrect
<1> QED
  BY <1>1, <1>2, <1>3, InitBacked, PTL DEF Spec
====
