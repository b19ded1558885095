---- MODULE ScoringStrandProofs ----
(***************************************************************************)
(* What the jobs of ScoringQueue leave in the rows of their attempts.       *)
(* No job is stranded: while the process is up, a job that is due has a     *)
(* task.  This holds when every fault of the judge has a handler, that is   *)
(* with the evals backend and a complete environment; the run               *)
(* judge_exception shows that it fails without.                             *)
(* The verdict of an execution is kept, whatever happens to its scoring.    *)
(* The score on display is the one the leader ranks the attempt with, as    *)
(* long as nobody has asked for a stop and rejudges are asked for one at    *)
(* a time.                                                                  *)
(***************************************************************************)
EXTENDS ScoringTaskProofs

\* Task t scores a job that is due and was not asked to stop.
Due(t) == /\ IsRowOf(t) /\ job[t[1]].status \in {"queued", "running"}
          /\ ~job[t[1]].cancelRequested

\* Every fault a run may inject is caught and closes the job.
AllCaught == \A fault \in Faults \union {"deadline"} : ~Uncaught(fault)

LEMMA CaughtWithEvals ==
  ASSUME UseEvals, "environment" \notin Faults
  PROVE  AllCaught
BY DEF AllCaught, Uncaught

-----------------------------------------------------------------------------
(* What a step may do to a job that is due, and to its task.               *)

\* The failure path closes the row of its own task.
LEMMA FailureCloses ==
  ASSUME TypeOK, NEW j \in Tasks, FinishFailure(j, "cancelled")
                 \/ FinishFailure(j, "scoring_failed") \/ FinishFailure(j, "timed_out")
                 \/ FinishFailure(j, "failed")
  PROVE  ~Due(j)'
<1>1. job \in [Attempts -> JobRow] /\ j[1] \in Attempts
  BY ScoresType DEF TypeOK
<1>2. PICK status \in {"cancelled", "scoring_failed", "timed_out", "failed"} :
        FinishFailure(j, status)
  OBVIOUS
<1>3. CASE IsRowOf(j)
  <2>1. job' = [job EXCEPT ![j[1]].status = status]
    BY <1>2, <1>3 DEF FinishFailure, FailedWith
  <2>2. job'[j[1]].status = status
    BY <1>1, <2>1 DEF JobRow
  <2> QED
    BY <2>2 DEF Due
<1>4. CASE ~IsRowOf(j)
  BY <1>2, <1>4 DEF FinishFailure, FailedWith, Due, IsRowOf
<1> QED
  BY <1>3, <1>4

\* A job that is due was due before, or has just been scheduled with its task.
LEMMA DueMoves ==
  ASSUME TypeOK, [Next]_vars, NEW t \in Tasks, Due(t)'
  PROVE  \/ Due(t) /\ (job'[t[1]].status = "running"
                         => job[t[1]].status = "running" \/ ClaimThread(t))
         \/ /\ job'[t[1]].status = "queued" /\ worker'[t] = "waiting"
            /\ t[2] = job[t[1]].n + 1
<1> DEFINE a == t[1]
<1>1. JobMove(a) /\ a \in Attempts
  BY JobMoves, ScoresType
<1>2. t = <<a, t[2]>>
  BY DEF Tasks
<1>3. /\ job'[a].n = t[2] /\ job'[a].status \in {"queued", "running"}
      /\ ~job'[a].cancelRequested
  BY DEF Due, IsRowOf
<1>4. CASE job'[a] = job[a]
  BY <1>3, <1>4 DEF Due, IsRowOf
<1>5. CASE Scheduled(a)
  BY <1>2, <1>3, <1>5 DEF Scheduled
<1>6. CASE Advanced(a)
  <2>1. job[a].n = t[2] /\ job[a].status \in {"queued", "running"}
        /\ ~job[a].cancelRequested
    BY <1>3, <1>6 DEF Advanced
  <2>2. job'[a].status = "running" => ClaimThread(t)
    BY <1>2, <1>6, <2>1 DEF Advanced
  <2> QED
    BY <2>1, <2>2 DEF Due, IsRowOf
<1>7. ~Purged(a) /\ ~Stopped(a)
  BY <1>3 DEF Purged, Stopped
<1> QED
  BY <1>1, <1>4, <1>5, <1>6, <1>7 DEF JobMove

\* How a task may end: with its process, by its cancel, as an execution, with
\* its job closed, or finding in the claim or after the notification that
\* nothing is left to do.
Ending(t) ==
  \/ up' = "down" \/ t \in cancelled \/ t[2] = 0 \/ ~Due(t)'
  \/ /\ worker[t] = "claiming" /\ ~(Due(t) /\ job[t[1]].status = "queued")
     /\ UNCHANGED job
  \/ worker[t] = "notified" /\ UNCHANGED job

\* The coroutine of a job ends closing its job, or after its notification.
LEMMA StepEnds ==
  ASSUME TypeOK, AllCaught, NEW t \in Tasks, worker[t] # "none", worker'[t] = "none",
         NEW j \in Tasks, WorkerStep(j)
  PROVE  t \notin cancelled' /\ Ending(t)
<1>1. worker \in [Tasks -> WorkerState] /\ job \in [Attempts -> JobRow]
      /\ t[1] \in Attempts
  BY ScoresType DEF TypeOK
<1>2. ASSUME Goto(j, "none") PROVE j = t
  BY <1>1, <1>2 DEF Goto
<1>3. ASSUME NEW to, Goto(j, to), to # "none" PROVE FALSE
  BY <1>1, <1>3 DEF Goto
<1>4. CASE Begin(j)
  <2>1. t \notin cancelled' /\ j = t
    BY <1>2, <1>3, <1>4 DEF Begin, At
  <2>2. CASE FinishFailure(t, "cancelled")
    BY <2>1, <2>2, FailureCloses DEF Ending
  <2>3. CASE job' = [job EXCEPT ![t[1]].status = "completed"]
    <3>1. job'[t[1]].status = "completed"
      BY <1>1, <2>3 DEF JobRow
    <3> QED
      BY <2>1, <3>1 DEF Ending, Due
  <2> QED
    BY <1>3, <1>4, <2>1, <2>2, <2>3 DEF Begin
<1>5. CASE JudgeReturns(j)
  <2>1. j = t /\ t \notin cancelled' /\ FinishFailure(t, "cancelled")
    BY <1>2, <1>3, <1>5 DEF JudgeReturns, At
  <2> QED
    BY <2>1, FailureCloses DEF Ending
<1>6. CASE Finish(j)
  BY <1>2, <1>6 DEF Finish, At, Ending
<1>7. ASSUME NEW fault \in Faults \union {"deadline"}, Raise(j, fault)
      PROVE  t \notin cancelled' /\ Ending(t)
  <2>1. j = t /\ t \notin cancelled'
    BY <1>2, <1>7 DEF Raise
  <2>2. FinishFailure(t, FaultStatus(fault))
    BY <1>7, <2>1 DEF Raise, AllCaught
  <2>3. FaultStatus(fault) \in {"scoring_failed", "timed_out", "failed"}
    BY DEF FaultStatus
  <2> QED
    BY <2>1, <2>2, <2>3, FailureCloses DEF Ending
<1> QED
  BY <1>3, <1>4, <1>5, <1>6, <1>7
     DEF WorkerStep, Acquire, StartJudge, StartFail, StartCommit, StartRecord, Mark

\* A thread ends a task with a claim in vain or a failure it has stored.
LEMMA ThreadEnds ==
  ASSUME TypeOK, NEW t \in Tasks, worker[t] # "none", worker'[t] = "none",
         NEW j \in Tasks, ThreadStep(j)
  PROVE  t \notin cancelled' /\ Ending(t)
<1>1. worker \in [Tasks -> WorkerState]
  BY DEF TypeOK
<1>2. ASSUME NEW from, NEW to, Deliver(j, from, to), to # "none" PROVE FALSE
  BY <1>1, <1>2 DEF Deliver
<1>3. ASSUME NEW from, Return(j, from) PROVE j = t /\ worker[t] = from /\ t \notin cancelled
  BY <1>1, <1>3 DEF Return, At
<1>4. CASE ClaimThread(j)
  <2>1. Return(j, "claiming")
    BY <1>2, <1>4 DEF ClaimThread
  <2>2. j = t /\ worker[t] = "claiming" /\ t \notin cancelled
    BY <1>3, <2>1
  <2>3. /\ UNCHANGED job /\ UNCHANGED cancelled
        /\ ~(IsRowOf(t) /\ job[t[1]].status = "queued" /\ ~job[t[1]].cancelRequested)
    BY <1>2, <1>4, <2>2 DEF ClaimThread
  <2> QED
    BY <2>2, <2>3 DEF Ending, Due
<1>5. CASE FailThread(j)
  BY <1>3, <1>5, FailureCloses DEF FailThread, Ending
<1>6. CASE CommitThread(j) \/ RecordThread(j) \/ NotifyThread(j)
  BY <1>2, <1>6 DEF CommitThread, RecordThread, NotifyThread
<1> QED
  BY <1>4, <1>5, <1>6 DEF ThreadStep

\* Every task that ends does so in one of these ways, and has no cancel
\* pending afterwards.
LEMMA TaskEnds ==
  ASSUME TypeOK, DownIsEmpty, AllCaught, [Next]_vars,
         NEW t \in Tasks, worker[t] # "none", worker'[t] = "none"
  PROVE  t \notin cancelled' /\ Ending(t)
<1>1. worker \in [Tasks -> WorkerState]
  BY DEF TypeOK
<1>2. CASE UNCHANGED worker
  BY <1>2
<1>3. ASSUME NEW j \in Tasks, HandleCancel(j) PROVE t \notin cancelled' /\ Ending(t)
  <2>1. j = t
    BY <1>1, <1>3 DEF HandleCancel, Goto
  <2> QED
    BY <1>3, <2>1 DEF HandleCancel, Ending
<1>4. ASSUME NEW a \in Attempts, NEW verdict, NEW prev, NEW tasks,
             Enqueue(a, verdict, prev, tasks),
             tasks \in {worker, [worker EXCEPT ![Execution(a)] = "none"]}
      PROVE  t = Execution(a) /\ tasks # worker
  BY <1>1, <1>4 DEF Enqueue
<1>5. ASSUME NEW a \in Attempts, ExecutionStep(a) \/ ResumedNotifies(a)
      PROVE  t \notin cancelled' /\ Ending(t)
  <2>1. Execution(a) \in Tasks /\ Execution(a)[2] = 0
    BY ScoresType DEF Execution
  <2>2. ASSUME t = Execution(a), t \notin cancelled' PROVE t \notin cancelled' /\ Ending(t)
    BY <2>1, <2>2 DEF Ending
  <2>3. t = Execution(a)
    BY <1>1, <1>4, <1>5, <2>1 DEF ExecutionStep, ExecutionEnds, ResumedFails,
       ResumedScores, ResumedNotifies, Goto
  <2>4. t \notin cancelled'
    BY <1>5, <2>3 DEF ExecutionStep, ExecutionEnds, ResumedFails, ResumedScores,
       ResumedNotifies, At
  <2> QED
    BY <2>2, <2>3, <2>4
<1>6. CASE Rejudge
  <2>1. ASSUME NEW q \in request, RejudgeEnqueue(q) PROVE UNCHANGED worker
    <3>1. q.attempt \in Attempts
      BY DEF TypeOK, RequestRow
    <3> QED
      BY <1>4, <2>1, <3>1 DEF RejudgeEnqueue
  <2> QED
    BY <1>2, <1>6, <2>1 DEF Rejudge, RejudgeCheck, RejudgePurge
<1>7. CASE Crash
  BY <1>7 DEF Crash, Ending
<1>8. CASE Restart
  BY <1>8 DEF Restart, DownIsEmpty
<1>9. CASE \/ StopScoring \/ StopList \/ StopRead \/ StopConverge \/ SweepList
           \/ SweepRead \/ SweepConverge \/ Shutdown \/ Exit \/ UNCHANGED vars
  BY <1>2, <1>9 DEF StopScoring, StopList, StopRead, StopConverge, SweepList,
     SweepRead, SweepConverge,
     Shutdown, Exit, vars
<1>10. ASSUME NEW a \in Attempts, DeadlinePasses(a) PROVE UNCHANGED worker
  BY <1>10 DEF DeadlinePasses
<1> QED
  BY <1>2, <1>3, <1>5, <1>6, <1>7, <1>8, <1>9, <1>10, StepEnds, ThreadEnds DEF Next

\* A coroutine notifies only after its job was marked completed.
LEMMA NotifyingClosed ==
  ASSUME TypeOK, [Next]_vars, NEW t \in Tasks, t[2] # 0,
         worker[t] # "notifying", worker'[t] = "notifying"
  PROVE  ~Due(t)'
<1>1. worker \in [Tasks -> WorkerState] /\ job \in [Attempts -> JobRow]
      /\ t[1] \in Attempts
  BY ScoresType DEF TypeOK
<1>2. CASE UNCHANGED worker
  BY <1>2
<1>3. ASSUME NEW j \in Tasks, NEW to, Goto(j, to) PROVE j = t /\ to = "notifying"
  BY <1>1, <1>3 DEF Goto
<1>4. ASSUME NEW j \in Tasks, WorkerStep(j) PROVE ~Due(t)'
  <2>1. Mark(j)
    <3>1. ASSUME NEW fault \in Faults \union {"deadline"}, Raise(j, fault) PROVE FALSE
      BY <1>3, <3>1 DEF Raise
    <3> QED
      BY <1>3, <1>4, <3>1 DEF WorkerStep, Acquire, Begin, StartJudge, JudgeReturns,
         StartFail, StartCommit, StartRecord, Finish
  <2>2. j = t /\ job' = IF IsRowOf(t) THEN [job EXCEPT ![t[1]].status = "completed"]
                        ELSE job
    BY <1>3, <2>1 DEF Mark
  <2> QED
    BY <1>1, <2>2 DEF Due, IsRowOf, JobRow
<1>5. ASSUME NEW j \in Tasks, ThreadStep(j) PROVE FALSE
  <2>1. ASSUME NEW from, NEW to, Deliver(j, from, to), to # "notifying" PROVE FALSE
    BY <1>1, <2>1 DEF Deliver
  <2>2. ASSUME NEW from, Return(j, from) PROVE FALSE
    BY <1>1, <2>2 DEF Return
  <2> QED
    BY <1>5, <2>1, <2>2 DEF ThreadStep, ClaimThread, FailThread, CommitThread,
       RecordThread, NotifyThread
<1>6. ASSUME NEW j \in Tasks, HandleCancel(j) PROVE FALSE
  BY <1>3, <1>6 DEF HandleCancel
<1>7. ASSUME NEW a \in Attempts, NEW verdict, NEW prev, NEW tasks,
             Enqueue(a, verdict, prev, tasks),
             tasks \in {worker, [worker EXCEPT ![Execution(a)] = "none"]}
      PROVE  FALSE
  BY <1>1, <1>7 DEF Enqueue
<1>8. ASSUME NEW a \in Attempts, ExecutionStep(a) \/ ResumedNotifies(a) PROVE FALSE
  <2>1. t # Execution(a)
    BY DEF Execution
  <2> QED
    BY <1>3, <1>7, <1>8, <2>1, ScoresType DEF ExecutionStep, ExecutionEnds, ResumedFails,
       ResumedScores, ResumedNotifies
<1>9. CASE Rejudge
  <2>1. ASSUME NEW q \in request, RejudgeEnqueue(q) PROVE UNCHANGED worker
    <3>1. q.attempt \in Attempts
      BY DEF TypeOK, RequestRow
    <3> QED
      BY <1>7, <2>1, <3>1 DEF RejudgeEnqueue
  <2> QED
    BY <1>2, <1>9, <2>1 DEF Rejudge, RejudgeCheck, RejudgePurge
<1>10. CASE Shutdown \/ Exit \/ Crash \/ Restart
  BY <1>10, ProcessMoves
<1>11. CASE \/ StopScoring \/ StopList \/ StopRead \/ StopConverge \/ SweepList
            \/ SweepRead \/ SweepConverge \/ UNCHANGED vars
  BY <1>2, <1>11 DEF StopScoring, StopList, StopRead, StopConverge, SweepList,
     SweepRead, SweepConverge, vars
<1>12. ASSUME NEW a \in Attempts, DeadlinePasses(a) PROVE UNCHANGED worker
  BY <1>12 DEF DeadlinePasses
<1> QED
  BY <1>2, <1>4, <1>5, <1>6, <1>8, <1>9, <1>10, <1>11, <1>12 DEF Next

\* Only a stop and a shutdown cancel a task, one that exists; the stop has
\* marked its job first.
LEMMA CancelNew ==
  ASSUME TypeOK, [Next]_vars, NEW t \in Tasks, t \in cancelled', t \notin cancelled
  PROVE  /\ worker[t] # "none" /\ UNCHANGED worker
         /\ t[2] # 0 => up' # "up" \/ ~Due(t)'
<1>1. CASE StopScoring
  <2> DEFINE active == {a \in Attempts : job[a].status \in {"queued", "running"}}
  <2>1. /\ UNCHANGED worker /\ worker[t] # "none"
        /\ t[2] = 0 \/ t[1] \in active
        /\ job' = [a \in Attempts |->
             IF a \notin active THEN job[a]
             ELSE [job[a] EXCEPT !.cancelRequested = TRUE,
                                 !.status = IF @ = "queued" THEN "cancelled" ELSE @]]
    BY <1>1 DEF StopScoring
  <2>2. job \in [Attempts -> JobRow] /\ t[1] \in Attempts
    BY ScoresType DEF TypeOK
  <2>3. t[2] # 0 => job'[t[1]].cancelRequested
    BY <2>1, <2>2, Zenon DEF JobRow
  <2> QED
    BY <2>1, <2>3 DEF Due
<1>2. CASE Shutdown
  BY <1>2 DEF Shutdown
<1>3. ASSUME cancelled' \subseteq cancelled PROVE FALSE
  BY <1>3
<1>4. ASSUME NEW j \in Tasks, WorkerStep(j) \/ ThreadStep(j) \/ HandleCancel(j) PROVE FALSE
  BY <1>3, <1>4
     DEF WorkerStep, Acquire, Begin, StartJudge, JudgeReturns, StartFail,
         StartCommit, StartRecord, Mark, Finish, Raise, ThreadStep, ClaimThread,
         FailThread, CommitThread, RecordThread, NotifyThread, HandleCancel
<1>5. ASSUME NEW a \in Attempts,
             ExecutionStep(a) \/ ResumedNotifies(a) \/ DeadlinePasses(a)
      PROVE  FALSE
  BY <1>3, <1>5 DEF ExecutionStep, ExecutionEnds, ResumedFails, ResumedScores,
     ResumedNotifies, DeadlinePasses
<1>6. CASE \/ Rejudge \/ StopList \/ StopRead \/ StopConverge \/ SweepList
           \/ SweepRead \/ SweepConverge \/ Exit \/ Crash \/ Restart \/ UNCHANGED vars
  BY <1>3, <1>6
     DEF Rejudge, RejudgeCheck, RejudgePurge, RejudgeEnqueue, StopList,
         StopRead, StopConverge, SweepList, SweepRead, SweepConverge, Exit, Crash,
         Restart, vars
<1> QED
  BY <1>1, <1>2, <1>4, <1>5, <1>6 DEF Next

\* A startup gives every job that is due its task.
LEMMA StartsUp ==
  ASSUME TypeOK, [Next]_vars, up # "up", up' = "up"
  PROVE  /\ up = "down" /\ UNCHANGED cancelled
         /\ \A t \in Tasks : t[2] # 0 /\ Due(t)' => worker'[t] = "waiting"
<1>1. Restart
  <2>1. ASSUME NEW j \in Tasks, WorkerStep(j) \/ ThreadStep(j) \/ HandleCancel(j)
        PROVE  UNCHANGED up
    BY <2>1
       DEF WorkerStep, Acquire, Begin, StartJudge, JudgeReturns, StartFail,
           StartCommit, StartRecord, Mark, Finish, Raise, ThreadStep, ClaimThread,
           FailThread, CommitThread, RecordThread, NotifyThread, HandleCancel, control
  <2>2. ASSUME NEW a \in Attempts,
               ExecutionStep(a) \/ ResumedNotifies(a) \/ DeadlinePasses(a)
        PROVE  UNCHANGED up
    BY <2>2 DEF ExecutionStep, ExecutionEnds, ResumedFails, ResumedScores,
       ResumedNotifies, DeadlinePasses, control
  <2>3. CASE \/ Rejudge \/ StopScoring \/ StopList \/ StopRead \/ StopConverge \/ SweepList
             \/ SweepRead \/ SweepConverge \/ UNCHANGED vars
    BY <2>3 DEF Rejudge, RejudgeCheck, RejudgePurge, RejudgeEnqueue, StopScoring,
       StopList, StopRead, StopConverge, SweepList, SweepRead, SweepConverge, vars,
       control
  <2>4. CASE Shutdown \/ Exit \/ Crash
    BY <2>4 DEF Shutdown, Exit, Crash
  <2> QED
    BY <2>1, <2>2, <2>3, <2>4 DEF Next
<1> DEFINE revived == [a \in Attempts |->
             IF job[a].status = "running" /\ ~job[a].cancelRequested
             THEN [job[a] EXCEPT !.status = "queued"] ELSE job[a]]
<1>2. /\ up = "down" /\ UNCHANGED cancelled /\ job' = revived
      /\ \E resumed \in SUBSET Attempts :
           worker' = [j \in Tasks |->
             IF j[2] = 0
             THEN IF j[1] \in resumed THEN "resumed" ELSE "none"
             ELSE IF /\ revived[j[1]].n = j[2]
                     /\ revived[j[1]].status = "queued"
                     /\ ~revived[j[1]].cancelRequested
                  THEN "waiting" ELSE "none"]
  BY <1>1 DEF Restart
<1>3. ASSUME NEW t \in Tasks, t[2] # 0, Due(t)' PROVE worker'[t] = "waiting"
  <2>1. t[1] \in Attempts /\ job[t[1]] \in JobRow
    BY ScoresType DEF TypeOK
  <2>2. revived[t[1]].n = t[2] /\ ~revived[t[1]].cancelRequested
    BY <1>2, <1>3 DEF Due, IsRowOf
  <2>3. revived[t[1]].status \in {"queued", "running"}
    BY <1>2, <1>3 DEF Due
  <2>4. revived[t[1]].status = "queued"
    <3>1. CASE job[t[1]].status = "running" /\ ~job[t[1]].cancelRequested
      BY <2>1, <3>1 DEF JobRow
    <3>2. CASE ~(job[t[1]].status = "running" /\ ~job[t[1]].cancelRequested)
      <4>1. revived[t[1]] = job[t[1]]
        BY <2>1, <3>2
      <4> HIDE DEF revived
      <4> QED
        BY <2>2, <2>3, <3>2, <4>1
    <3> QED
      BY <3>1, <3>2
  <2> HIDE DEF revived
  <2> QED
    BY <1>2, <1>3, <2>2, <2>4
<1> QED
  BY <1>2, <1>3

-----------------------------------------------------------------------------
(* The invariant of the jobs that are due.                                 *)

\* The number 0 is that of the execution.
NumberedRows == \A a \in Attempts : job[a].n = 0 => job[a].status = "absent"

\* The task of a job that is due exists and is not about to be cancelled.
DueHasTask ==
  up = "up" => \A t \in Tasks : Due(t) => worker[t] # "none" /\ t \notin cancelled

CancelledExists == \A t \in Tasks : t \in cancelled => worker[t] # "none"

\* A claim is never made in vain for a job that is due.
ClaimInTime ==
  \A t \in Tasks : t[2] # 0 /\ worker[t] \in {"waiting", "claiming"} /\ Due(t)
                     => job[t[1]].status = "queued"

\* A coroutine that only has to notify has closed its job.
NotifiesClosed ==
  \A t \in Tasks : t[2] # 0 /\ worker[t] \in {"notifying", "notified"} => ~Due(t)

\* The coroutine of a running claim waits for it or was cancelled.
ClaimAwaited ==
  \A t \in Tasks : <<t, "claim">> \in thread => worker[t] \in {"claiming", "none"}

StrandInv == /\ NumberedRows /\ DueHasTask /\ CancelledExists
             /\ ClaimInTime /\ NotifiesClosed /\ ClaimAwaited

LEMMA InitStrand == Init => StrandInv
<1> SUFFICES ASSUME Init PROVE StrandInv
  OBVIOUS
<1>1. \A a \in Attempts : job[a].status = "absent"
  BY DEF Init
<1>2. \A t \in Tasks : ~Due(t)
  BY <1>1, ScoresType DEF Due
<1> QED
  BY <1>1, <1>2 DEF Init, StrandInv, NumberedRows, DueHasTask, CancelledExists,
     ClaimInTime, NotifiesClosed, ClaimAwaited

LEMMA NextNumberedRows ==
  ASSUME TypeOK, NumberedRows, [Next]_vars
  PROVE  NumberedRows'
<1> SUFFICES ASSUME NEW a \in Attempts, job'[a].n = 0, job'[a].status # "absent"
             PROVE  FALSE
  BY DEF NumberedRows
<1>1. JobMove(a) /\ job[a].n \in Nat
  BY JobMoves, NumbersGrow
<1>2. ~Scheduled(a) /\ ~Purged(a)
  BY <1>1 DEF Scheduled, Purged
<1>3. CASE job'[a] = job[a]
  BY <1>3 DEF NumberedRows
<1>4. CASE Advanced(a)
  BY <1>4 DEF NumberedRows, Advanced
<1>5. CASE Stopped(a)
  BY <1>5 DEF NumberedRows, Stopped
<1> QED
  BY <1>1, <1>2, <1>3, <1>4, <1>5 DEF JobMove

LEMMA NextCancelledExists ==
  ASSUME TypeOK, DownIsEmpty, AllCaught, CancelledExists, [Next]_vars
  PROVE  CancelledExists'
<1> SUFFICES ASSUME NEW t \in Tasks, t \in cancelled' PROVE worker'[t] # "none"
  BY DEF CancelledExists
<1>1. worker[t] # "none"
  BY CancelNew DEF CancelledExists
<1> QED
  BY <1>1, TaskEnds

LEMMA NextClaimAwaited ==
  ASSUME TypeOK, Numbered, DownIsEmpty, ClaimAwaited, [Next]_vars
  PROVE  ClaimAwaited'
<1> SUFFICES ASSUME NEW t \in Tasks, <<t, "claim">> \in thread'
             PROVE  worker'[t] \in {"claiming", "none"}
  BY DEF ClaimAwaited
<1>1. TaskMove(t) /\ ThreadMove(t) /\ "claim" \in ThreadKind
  BY Moves DEF ThreadKind
<1>2. CASE <<t, "claim">> \notin thread
  BY <1>1, <1>2 DEF ThreadMove
<1>3. CASE <<t, "claim">> \in thread
  <2>1. worker[t] \in {"claiming", "none"} /\ up # "down"
    BY <1>3 DEF ClaimAwaited, DownIsEmpty
  <2>2. t[2] # job[t[1]].n + 1
    <3>1. t[2] <= job[t[1]].n
      BY <1>1, <1>3 DEF Numbered
    <3>2. t[2] \in Nat /\ job[t[1]].n \in Nat
      BY ScoresType, NumbersGrow
    <3> QED
      BY <3>1, <3>2
  <2> QED
    BY <1>1, <2>1, <2>2 DEF TaskMove, Resumption
<1> QED
  BY <1>2, <1>3

\* A job starts running by its claim, which takes its coroutine on.
LEMMA NextClaimInTime ==
  ASSUME TypeOK, ClaimInTime, ClaimAwaited, [Next]_vars
  PROVE  ClaimInTime'
<1> SUFFICES ASSUME NEW t \in Tasks, t[2] # 0,
                    worker'[t] \in {"waiting", "claiming"}, Due(t)'
             PROVE  job'[t[1]].status = "queued"
  BY DEF ClaimInTime
<1>1. CASE job'[t[1]].status = "running"
  <2>1. Due(t) /\ (job[t[1]].status = "running" \/ ClaimThread(t))
    BY <1>1, DueMoves
  <2>2. worker[t] \in {"waiting", "claiming"}
    <3>1. TaskMove(t)
      BY Moves
    <3>2. t[2] # job[t[1]].n + 1
      BY <2>1, NumbersGrow, ScoresType DEF Due, IsRowOf
    <3> QED
      BY <1>1, <3>1, <3>2 DEF TaskMove, Resumption
  <2>3. job[t[1]].status = "queued" /\ ClaimThread(t)
    BY <2>1, <2>2 DEF ClaimInTime
  <2>4. worker[t] = "claiming"
    BY <2>2, <2>3 DEF ClaimThread, EndThread, ClaimAwaited
  <2>5. Deliver(t, "claiming", "claimed")
    BY <2>1, <2>3 DEF ClaimThread, Due
  <2>6. worker'[t] = "claimed"
    BY <2>4, <2>5 DEF Deliver, TypeOK
  <2> QED
    BY <2>6
<1> QED
  BY <1>1 DEF Due

LEMMA NextNotifiesClosed ==
  ASSUME TypeOK, NotifiesClosed, [Next]_vars
  PROVE  NotifiesClosed'
<1> SUFFICES ASSUME NEW t \in Tasks, t[2] # 0,
                    worker'[t] \in {"notifying", "notified"}, Due(t)'
             PROVE  FALSE
  BY DEF NotifiesClosed
<1>1. worker[t] \in {"notifying", "notified"}
  <2>1. TaskMove(t)
    BY Moves
  <2>2. worker'[t] # "notifying" \/ worker[t] = "notifying"
    BY NotifyingClosed
  <2> QED
    BY <2>1, <2>2 DEF TaskMove, Resumption
<1>2. ~Due(t)
  BY <1>1 DEF NotifiesClosed
<1> QED
  BY <1>2, DueMoves

\* A task that is due was not ended, and whatever cancelled it has stopped its
\* job or the process.
LEMMA NextDueHasTask ==
  ASSUME TypeOK, TaskInv, StrandInv, AllCaught, [Next]_vars
  PROVE  DueHasTask'
<1> SUFFICES ASSUME up' = "up", NEW t \in Tasks, Due(t)'
             PROVE  worker'[t] # "none" /\ t \notin cancelled'
  BY DEF DueHasTask
<1>1. t[2] \in Nat /\ job[t[1]].n \in Nat /\ t[1] \in Attempts
  BY ScoresType, NumbersGrow
<1>2. CASE ~Due(t)
  <2>1. worker'[t] = "waiting" /\ t[2] = job[t[1]].n + 1
    BY <1>2, DueMoves
  <2>2. worker[t] = "none"
    BY <1>1, <2>1 DEF TaskInv, Numbered
  <2>3. t \notin cancelled'
    BY <2>2, CancelNew DEF StrandInv, CancelledExists
  <2> QED
    BY <2>1, <2>3
<1>3. CASE Due(t) /\ up # "up"
  <2>1. t[2] # 0
    BY <1>1, <1>3 DEF StrandInv, NumberedRows, Due, IsRowOf
  <2>2. up = "down" /\ UNCHANGED cancelled /\ worker'[t] = "waiting"
    BY <1>3, <2>1, StartsUp
  <2>3. worker[t] = "none"
    BY <2>2 DEF TaskInv, DownIsEmpty
  <2> QED
    BY <2>2, <2>3 DEF StrandInv, CancelledExists
<1>4. CASE Due(t) /\ up = "up"
  <2>1. t[2] # 0
    BY <1>1, <1>4 DEF StrandInv, NumberedRows, Due, IsRowOf
  <2>2. worker[t] # "none" /\ t \notin cancelled
    BY <1>4 DEF StrandInv, DueHasTask
  <2>3. t \notin cancelled'
    BY <2>1, <2>2, CancelNew
  <2>4. ASSUME worker'[t] = "none" PROVE FALSE
    <3>1. Ending(t)
      BY <2>2, <2>4, TaskEnds DEF TaskInv
    <3>2. /\ worker[t] = "claiming" => job[t[1]].status = "queued"
          /\ worker[t] # "notified"
      BY <1>4, <2>1 DEF StrandInv, ClaimInTime, NotifiesClosed
    <3> QED
      BY <1>4, <2>1, <2>2, <3>1, <3>2 DEF Ending
  <2> QED
    BY <2>3, <2>4
<1> QED
  BY <1>2, <1>3, <1>4

\* With the evals backend and a complete environment, no job that is due is
\* without its task while the process is up.
THEOREM NoJobStranded ==
  ASSUME UseEvals, "environment" \notin Faults
  PROVE  Spec => []JobHasTask
<1>1. AllCaught
  BY CaughtWithEvals
<1>2. TypeOK /\ TaskInv /\ StrandInv /\ [Next]_vars => StrandInv'
  <2> SUFFICES ASSUME TypeOK, TaskInv, StrandInv, [Next]_vars PROVE StrandInv'
    OBVIOUS
  <2>1. NumberedRows'
    BY NextNumberedRows DEF StrandInv
  <2>2. DueHasTask'
    BY <1>1, NextDueHasTask
  <2>3. CancelledExists'
    BY <1>1, NextCancelledExists DEF StrandInv, TaskInv
  <2>4. ClaimInTime'
    BY NextClaimInTime DEF StrandInv
  <2>5. NotifiesClosed'
    BY NextNotifiesClosed DEF StrandInv
  <2>6. ClaimAwaited'
    BY NextClaimAwaited DEF StrandInv, TaskInv
  <2> QED
    BY <2>1, <2>2, <2>3, <2>4, <2>5, <2>6 DEF StrandInv
<1>3. TypeOK /\ StrandInv => JobHasTask
  <2> SUFFICES ASSUME TypeOK, StrandInv, up = "up", NEW a \in Attempts,
                      job[a].status \in {"queued", "running"}, ~job[a].cancelRequested
               PROVE  worker[<<a, job[a].n>>] # "none"
    BY DEF JobHasTask
  <2> DEFINE t == <<a, job[a].n>>
  <2>1. t \in Tasks /\ t[1] = a /\ t[2] = job[a].n
    BY ScoringQueueAssumption DEF TypeOK, JobRow, Tasks, ScoringQueueAssumption
  <2>2. Due(t)
    BY <2>1 DEF Due, IsRowOf
  <2> HIDE DEF t
  <2>3. worker[t] # "none"
    BY <2>1, <2>2 DEF StrandInv, DueHasTask
  <2> QED
    BY <2>3 DEF t
<1> QED
  BY <1>2, <1>3, InitStrand, TasksInvariant, PTL DEF Spec

-----------------------------------------------------------------------------
(* The verdict of an execution.  Three writers store one whatever the row    *)
(* holds: the end of a dispatched or resumed execution, the enqueue of a     *)
(* rejudge and the interruption of a lost execution.  The others write an    *)
(* open one.                                                                 *)

\* The legacy status says that the execution is not over.
Fresh(a) == attempt[a].status \in {"queued", "running"}

\* The coroutine of the execution may store its end.
Executes(a) == At(Execution(a), "dispatched") \/ At(Execution(a), "resumed")

\* An execution that may store its end has a fresh row and no stop under way; a
\* row is fresh as long as its execution is open, and then it has no scoring job,
\* no sweep has listed it and a stop that has read it found it fresh; a sweep
\* and a rejudge go by the row of an execution that is over; a stop does not
\* outlive its process.
Executing ==
  \A a \in Attempts : Executes(a) => Fresh(a) /\ stop.phase = "idle"
FreshIsOpen ==
  \A a \in Attempts :
    /\ attempt[a].exec \in OpenExecution <=> Fresh(a)
    /\ Fresh(a) => /\ job[a].n = 0
                   /\ attempt[a].scoring # "running"
                   /\ a \notin sweep.ids /\ sweep.open[a] = {}
                   /\ stop.open[a] = {} \/ {"status", "exec"} \subseteq stop.open[a]
SweptHaveEnded == \A a \in Attempts : "exec" \notin sweep.open[a]
AskedForVerdict == \A q \in request : attempt[q.attempt].exec \notin OpenExecution
StopEnds == up # "up" => stop.phase = "idle"

VerdictInv == /\ Executing /\ FreshIsOpen /\ SweptHaveEnded
              /\ AskedForVerdict /\ StopEnds

\* A step leaves the execution axis and does not close a fresh row ...
KeepsRow(a) ==
  /\ attempt'[a].exec = attempt[a].exec
  /\ Fresh(a) => /\ Fresh(a)' /\ job'[a].n = job[a].n
                 /\ attempt'[a].scoring = "running" => attempt[a].scoring = "running"

\* ... or it is one of the writers, all of which leave a closed one.
EndsExecution(a) == Executes(a) /\ worker'[Execution(a)] = "none"
AsksAgain(a) ==
  \E q \in RequestsFor(a) : attempt'[a].exec = AdapterVerdict(q.exec)
ClosesRow(a) ==
  \/ /\ \E t \in Tasks : t[1] = a /\ CommitThread(t)
     /\ attempt[a].exec \notin OpenExecution => attempt'[a].exec = attempt[a].exec
  \/ /\ stop.phase = "read"
     /\ "exec" \notin stop.open[a] => attempt'[a].exec = attempt[a].exec
  \/ /\ sweep.open[a] # {}
     /\ "exec" \notin sweep.open[a] => attempt'[a].exec = attempt[a].exec
LosesExecution(a) ==
  up = "down" /\ Fresh(a) /\ worker'[Execution(a)] # "resumed"

RowMove(a) ==
  \/ KeepsRow(a)
  \/ /\ ~Fresh(a)' /\ attempt'[a].exec \notin OpenExecution
     /\ EndsExecution(a) \/ AsksAgain(a) \/ ClosesRow(a) \/ LosesExecution(a)

\* A step that writes the row of a job finds none that is fresh.
LEMMA JobRowNotFresh ==
  ASSUME TypeOK, NumberedRows, FreshIsOpen, NEW j \in Tasks, IsRowOf(j)
  PROVE  j[1] \in Attempts /\ ~Fresh(j[1])
<1>1. j[1] \in Attempts
  BY ScoresType
<1> QED
  BY <1>1 DEF IsRowOf, NumberedRows, FreshIsOpen

\* A write of one row that keeps its execution axis.
LEMMA RowKept ==
  ASSUME TypeOK, NEW b, NEW row, attempt' = [attempt EXCEPT ![b] = row],
         b \in Attempts => row.exec = attempt[b].exec /\ ~Fresh(b),
         NEW a \in Attempts, job'[a].n = job[a].n
  PROVE  KeepsRow(a)
<1>1. attempt \in [Attempts -> AttemptRow]
  BY DEF TypeOK
<1>2. attempt'[a] = IF a = b THEN row ELSE attempt[a]
  BY <1>1
<1>3. CASE a = b
  BY <1>2, <1>3 DEF KeepsRow
<1>4. CASE a # b
  BY <1>2, <1>4 DEF KeepsRow, Fresh
<1> QED
  BY <1>3, <1>4

\* A write of the scoring axis alone, that does not start it.
LEMMA ScoringKept ==
  ASSUME TypeOK, NEW b, NEW scoring, scoring # "running",
         attempt' = [attempt EXCEPT ![b].scoring = scoring],
         NEW a \in Attempts, job'[a].n = job[a].n
  PROVE  KeepsRow(a)
<1>1. attempt \in [Attempts -> AttemptRow] /\ attempt[a] \in AttemptRow
  BY DEF TypeOK
<1>2. attempt'[a] = attempt[a] \/ attempt'[a] = [attempt[a] EXCEPT !.scoring = scoring]
  BY <1>1
<1> QED
  BY <1>1, <1>2 DEF KeepsRow, Fresh, AttemptRow

\* The failure path keeps the execution axis.
LEMMA FailureKeeps ==
  ASSUME TypeOK, NumberedRows, FreshIsOpen, NEW j \in Tasks, NEW status,
         FinishFailure(j, status), NEW a \in Attempts
  PROVE  KeepsRow(a)
<1>1. job \in [Attempts -> JobRow]
  BY DEF TypeOK
<1>2. CASE ~IsRowOf(j)
  BY <1>2 DEF FinishFailure, FailedWith, KeepsRow, Fresh
<1>3. CASE IsRowOf(j)
  <2> DEFINE b == j[1]
             row == [status  |-> IF status = "cancelled" THEN "cancelled"
                                 ELSE ExecutionProjection(attempt[b].exec),
                     exec    |-> attempt[b].exec,
                     scoring |-> status,
                     score   |-> job[b].prev]
  <2>1. /\ attempt' = [attempt EXCEPT ![b] = row]
        /\ job' = [job EXCEPT ![b].status = status]
    BY <1>3 DEF FinishFailure, FailedWith
  <2>2. row.exec = attempt[b].exec /\ ~Fresh(b)
    BY <1>3, JobRowNotFresh
  <2>3. job'[a].n = job[a].n
    BY <1>1, <2>1 DEF JobRow
  <2> HIDE DEF row
  <2> QED
    BY <2>1, <2>2, <2>3, RowKept
<1> QED
  BY <1>2, <1>3

\* The enqueue of the execution that ends, or of a rejudge.
LEMMA EnqueueRows ==
  ASSUME TypeOK, NEW b \in Attempts, NEW verdict, NEW prev, NEW tasks,
         Enqueue(b, verdict, prev, tasks), NEW a \in Attempts,
         a = b => \/ EndsExecution(a)
                  \/ \E q \in RequestsFor(a) : verdict = q.exec
  PROVE  RowMove(a)
<1>1. /\ attempt \in [Attempts -> AttemptRow] /\ job \in [Attempts -> JobRow]
      /\ attempt' = [attempt EXCEPT ![b] = EnqueuedRow(verdict)]
      /\ job' = NewJob(b, prev)
  BY DEF TypeOK, Enqueue
<1>2. CASE a # b
  <2>1. attempt'[a] = attempt[a] /\ job'[a] = job[a]
    BY <1>1, <1>2 DEF NewJob
  <2> QED
    BY <2>1 DEF RowMove, KeepsRow, Fresh
<1>3. CASE a = b
  <2>1. attempt'[a] = EnqueuedRow(verdict)
    BY <1>1, <1>3
  <2>2. /\ ~Fresh(a)' /\ attempt'[a].exec = AdapterVerdict(verdict)
        /\ attempt'[a].exec \notin OpenExecution
    BY <2>1 DEF Fresh, EnqueuedRow, AdapterVerdict, OpenExecution
  <2> QED
    BY <1>3, <2>2 DEF RowMove, AsksAgain
<1> QED
  BY <1>2, <1>3

\* The steps of an execution.
LEMMA ExecutionRows ==
  ASSUME TypeOK, NEW b \in Attempts, ExecutionStep(b) \/ ResumedNotifies(b),
         NEW a \in Attempts
  PROVE  RowMove(a)
<1>1. /\ attempt \in [Attempts -> AttemptRow] /\ worker \in [Tasks -> WorkerState]
      /\ Execution(b) \in Tasks
  BY ScoresType DEF TypeOK, Execution
<1>2. ASSUME UNCHANGED <<attempt, job>> PROVE RowMove(a)
  BY <1>2 DEF RowMove, KeepsRow, Fresh
<1>3. ASSUME NEW status \in Ends, UNCHANGED job, Executes(b), Goto(Execution(b), "none"),
             attempt' = [attempt EXCEPT ![b] = FinalizedNoScore(status)]
      PROVE  RowMove(a)
  <2>1. CASE a # b
    <3>1. attempt'[a] = attempt[a]
      BY <1>1, <1>3, <2>1
    <3> QED
      BY <1>3, <3>1 DEF RowMove, KeepsRow, Fresh
  <2>2. CASE a = b
    <3>1. attempt'[a] = FinalizedNoScore(status) /\ worker'[Execution(a)] = "none"
      BY <1>1, <1>3, <2>2 DEF Goto
    <3>2. ~Fresh(a)' /\ attempt'[a].exec \notin OpenExecution
      BY <3>1, ScoringQueueAssumption
         DEF Fresh, FinalizedNoScore, OpenExecution, ScoringQueueAssumption,
             EndWithoutScore
    <3> QED
      BY <1>3, <2>2, <3>1, <3>2 DEF RowMove, EndsExecution
  <2> QED
    BY <2>1, <2>2
<1>4. CASE ExecutionEnds(b)
  <2>1. Executes(b)
    BY <1>4 DEF ExecutionEnds, Executes
  <2>2. ASSUME NEW verdict,
               Enqueue(b, verdict, NoScore, [worker EXCEPT ![Execution(b)] = "none"])
        PROVE  RowMove(a)
    <3>1. Execution(b) # <<b, job[b].n + 1>>
      BY NumbersGrow DEF Execution, TypeOK, JobRow
    <3>2. worker'[Execution(b)] = "none"
      BY <1>1, <2>2, <3>1 DEF Enqueue
    <3>3. EndsExecution(b)
      BY <2>1, <3>2 DEF EndsExecution
    <3> QED
      BY <2>2, <3>3, EnqueueRows
  <2> QED
    BY <1>3, <1>4, <2>1, <2>2 DEF ExecutionEnds
<1>5. CASE ResumedFails(b)
  BY <1>3, <1>5 DEF ResumedFails, Executes
<1>6. CASE ResumedScores(b) \/ ResumedNotifies(b)
  BY <1>2, <1>6 DEF ResumedScores, ResumedNotifies, facts
<1> QED
  BY <1>4, <1>5, <1>6 DEF ExecutionStep

\* A commit closes the row of its own attempt and keeps a verdict.
LEMMA CommitRows ==
  ASSUME TypeOK, NEW j \in Tasks, CommitThread(j), NEW a \in Attempts
  PROVE  RowMove(a)
<1>1. attempt \in [Attempts -> AttemptRow] /\ UNCHANGED job
  BY DEF TypeOK, CommitThread
<1>2. CASE UNCHANGED attempt
  BY <1>1, <1>2 DEF RowMove, KeepsRow, Fresh
<1>3. ASSUME NEW final \in Scored,
             attempt' = [attempt EXCEPT ![j[1]] =
                 [status  |-> final,
                  exec    |-> IF @.exec \in OpenExecution THEN "completed" ELSE @.exec,
                  scoring |-> "completed",
                  score   |-> j[2]]]
      PROVE  RowMove(a)
  <2>1. CASE a # j[1]
    <3>1. attempt'[a] = attempt[a]
      BY <1>1, <1>3, <2>1
    <3> QED
      BY <1>1, <3>1 DEF RowMove, KeepsRow, Fresh
  <2>2. CASE a = j[1]
    <3>1. /\ attempt'[a].status = final
          /\ attempt'[a].exec = IF attempt[a].exec \in OpenExecution THEN "completed"
                                ELSE attempt[a].exec
      BY <1>1, <1>3, <2>2
    <3>2. ~Fresh(a)' /\ attempt'[a].exec \notin OpenExecution /\ ClosesRow(a)
      BY <1>1, <2>2, <3>1 DEF Fresh, Scored, OpenExecution, ClosesRow
    <3> QED
      BY <3>2 DEF RowMove
  <2> QED
    BY <2>1, <2>2
<1> QED
  BY <1>2, <1>3 DEF CommitThread

\* The steps of a scoring task.
LEMMA TaskRows ==
  ASSUME TypeOK, NumberedRows, FreshIsOpen, NEW j \in Tasks,
         WorkerStep(j) \/ ThreadStep(j) \/ HandleCancel(j), NEW a \in Attempts
  PROVE  RowMove(a)
<1>1. /\ attempt \in [Attempts -> AttemptRow] /\ job \in [Attempts -> JobRow]
      /\ j[1] \in Attempts
  BY ScoresType DEF TypeOK
<1>2. ASSUME UNCHANGED <<attempt, job>> PROVE RowMove(a)
  BY <1>2 DEF RowMove, KeepsRow, Fresh
<1>3. ASSUME NEW status, FinishFailure(j, status) PROVE RowMove(a)
  BY <1>3, FailureKeeps DEF RowMove
<1>4. ASSUME NEW status, job' = [job EXCEPT ![j[1]].status = status] \/ UNCHANGED job
      PROVE  job'[a].n = job[a].n
  BY <1>1, <1>4 DEF JobRow
<1>5. CASE Begin(j)
  <2>1. ASSUME job' = [job EXCEPT ![j[1]].status = "completed"], UNCHANGED attempt
        PROVE  RowMove(a)
    BY <1>4, <2>1 DEF RowMove, KeepsRow, Fresh
  <2> QED
    BY <1>2, <1>3, <1>5, <2>1 DEF Begin, facts
<1>6. CASE JudgeReturns(j)
  BY <1>2, <1>3, <1>6 DEF JudgeReturns
<1>7. CASE Mark(j)
  <2>1. attempt' = [attempt EXCEPT ![j[1]].scoring = "completed"]
    BY <1>7 DEF Mark
  <2>2. job'[a].n = job[a].n
    BY <1>4, <1>7 DEF Mark
  <2> QED
    BY <2>1, <2>2, ScoringKept DEF RowMove
<1>8. ASSUME NEW fault, Raise(j, fault) PROVE RowMove(a)
  BY <1>2, <1>3, <1>8 DEF Raise, facts
<1>9. CASE ClaimThread(j)
  <2>1. CASE UNCHANGED <<attempt, job>>
    BY <1>2, <2>1
  <2>2. CASE /\ IsRowOf(j) /\ job' = [job EXCEPT ![j[1]].status = "running"]
             /\ attempt' = [attempt EXCEPT ![j[1]].status = "scoring",
                                           ![j[1]].scoring = "running"]
    <3> DEFINE row == [attempt[j[1]] EXCEPT !.status = "scoring", !.scoring = "running"]
    <3>1. attempt' = [attempt EXCEPT ![j[1]] = row]
      BY <1>1, <2>2
    <3>2. row.exec = attempt[j[1]].exec /\ ~Fresh(j[1])
      BY <1>1, <2>2, JobRowNotFresh DEF AttemptRow
    <3>3. job'[a].n = job[a].n
      BY <1>4, <2>2
    <3> HIDE DEF row
    <3> QED
      BY <3>1, <3>2, <3>3, RowKept DEF RowMove
  <2> QED
    BY <1>9, <2>1, <2>2 DEF ClaimThread
<1>10. CASE HandleCancel(j)
  <2>1. ASSUME /\ job' = (IF IsRowOf(j) /\ job[j[1]].status = "running"
                          THEN [job EXCEPT ![j[1]].status = "queued"] ELSE job)
               /\ attempt' = IF Row(j[1]).scoring = "running"
                             THEN [attempt EXCEPT ![j[1]].scoring = "queued"]
                             ELSE attempt
        PROVE  RowMove(a)
    <3>1. job'[a].n = job[a].n
      BY <1>4, <2>1
    <3>2. CASE attempt' = [attempt EXCEPT ![j[1]].scoring = "queued"]
      BY <3>1, <3>2, ScoringKept DEF RowMove
    <3>3. CASE UNCHANGED attempt
      BY <3>1, <3>3 DEF RowMove, KeepsRow, Fresh
    <3> QED
      BY <2>1, <3>2, <3>3
  <2> QED
    BY <1>2, <1>3, <1>10, <2>1 DEF HandleCancel
<1>11. CASE FailThread(j) \/ CommitThread(j) \/ RecordThread(j) \/ NotifyThread(j)
  BY <1>2, <1>3, <1>11, CommitRows DEF FailThread, RecordThread, NotifyThread, facts
<1>12. CASE \/ Acquire(j) \/ StartJudge(j) \/ StartFail(j) \/ StartCommit(j)
            \/ StartRecord(j) \/ Finish(j)
  BY <1>2, <1>12 DEF Acquire, StartJudge, StartFail, StartCommit, StartRecord,
     Finish, facts
<1> QED
  BY <1>5, <1>6, <1>7, <1>8, <1>9, <1>10, <1>11, <1>12 DEF WorkerStep, ThreadStep

\* The convergence of what a stop or a sweep has read closes a row and keeps a
\* verdict that it did not read as open.
LEMMA ConvergeRows ==
  ASSUME TypeOK, FreshIsOpen, NEW open, NEW to \in {UserStopped, ScoringOverdue},
         ConvergeAll(open, to), UNCHANGED job, NEW a \in Attempts,
         \/ stop.phase = "read" /\ open[a] = stop.open[a]
         \/ open[a] = sweep.open[a]
  PROVE  RowMove(a)
<1>1. attempt'[a] = Converged(attempt[a], open[a], to) /\ attempt[a] \in AttemptRow
  BY DEF ConvergeAll, Row, TypeOK
<1>2. CASE open[a] = {}
  <2>1. attempt'[a] = attempt[a]
    BY <1>1, <1>2 DEF Converged, AttemptRow
  <2> QED
    BY <2>1 DEF RowMove, KeepsRow, Fresh
<1>3. CASE open[a] # {}
  <2>1. /\ to.status \notin {"queued", "running"}
        /\ to.exec \notin OpenExecution
    BY DEF UserStopped, ScoringOverdue, OpenExecution
  <2>2. /\ attempt'[a].status = IF "status" \in open[a] THEN to.status
                                ELSE attempt[a].status
        /\ attempt'[a].exec = IF "exec" \in open[a] THEN to.exec ELSE attempt[a].exec
    BY <1>1 DEF Converged
  <2>3. Fresh(a) => {"status", "exec"} \subseteq open[a]
    BY <1>3 DEF FreshIsOpen
  <2>4. ~Fresh(a)'
    BY <2>1, <2>2, <2>3 DEF Fresh
  <2>5. attempt'[a].exec \notin OpenExecution
    BY <2>1, <2>2, <2>3 DEF FreshIsOpen
  <2>6. ClosesRow(a)
    BY <1>3, <2>2 DEF ClosesRow
  <2> QED
    BY <2>4, <2>5, <2>6 DEF RowMove
<1> QED
  BY <1>2, <1>3

\* A startup keeps a row or interrupts its execution, which was not over.
LEMMA RestartRows ==
  ASSUME TypeOK, DownIsEmpty, FreshIsOpen, Restart, NEW a \in Attempts
  PROVE  RowMove(a)
<1> DEFINE revived == [b \in Attempts |->
             IF job[b].status = "running" /\ ~job[b].cancelRequested
             THEN [job[b] EXCEPT !.status = "queued"] ELSE job[b]]
           requeued == [b \in Attempts |->
             IF Row(b).scoring = "running"
             THEN [Row(b) EXCEPT !.scoring = "queued", !.status = "scoring"]
             ELSE Row(b)]
           stale == {b \in Attempts : requeued[b].status \in {"queued", "running"}}
<1>1. PICK lost \in SUBSET stale, resumed \in SUBSET stale :
        /\ up = "down" /\ lost \intersect resumed = {}
        /\ job' = revived
        /\ attempt' = [b \in Attempts |->
             IF b \in lost THEN FinalizedNoScore("interrupted") ELSE requeued[b]]
        /\ \/ UNCHANGED worker
           \/ worker' = [j \in Tasks |->
                IF j[2] = 0
                THEN IF j[1] \in resumed THEN "resumed" ELSE "none"
                ELSE IF /\ revived[j[1]].n = j[2]
                        /\ revived[j[1]].status = "queued"
                        /\ ~revived[j[1]].cancelRequested
                     THEN "waiting" ELSE "none"]
  BY DEF Restart
<1>2. attempt[a] \in AttemptRow /\ job[a] \in JobRow
  BY DEF TypeOK
<1>3. revived[a].n = job[a].n
  BY <1>2 DEF JobRow
<1>4. /\ requeued[a].exec = attempt[a].exec
      /\ requeued[a].status \in {attempt[a].status, "scoring"}
      /\ attempt[a].scoring # "running" => requeued[a] = attempt[a]
  BY <1>2 DEF Row, AttemptRow
<1>5. lost \subseteq Attempts /\ (a \in lost => requeued[a].status \in {"queued", "running"})
  OBVIOUS
<1> HIDE DEF revived, requeued
<1>6. CASE a \notin lost
  <2>1. attempt'[a] = requeued[a] /\ job'[a].n = job[a].n
    BY <1>1, <1>3, <1>6
  <2>2. Fresh(a) => attempt'[a] = attempt[a]
    BY <1>4, <2>1 DEF FreshIsOpen
  <2> QED
    BY <1>4, <2>1, <2>2 DEF RowMove, KeepsRow, Fresh
<1>7. CASE a \in lost
  <2>1. ~Fresh(a)' /\ attempt'[a].exec \notin OpenExecution
    BY <1>1, <1>7 DEF FinalizedNoScore, Fresh, OpenExecution
  <2>2. Fresh(a)
    BY <1>4, <1>5, <1>7 DEF Fresh
  <2>3. Execution(a) \in Tasks /\ Execution(a)[1] = a /\ Execution(a)[2] = 0
    BY ScoresType DEF Execution
  <2>4. worker'[Execution(a)] # "resumed"
    <3>1. CASE UNCHANGED worker
      BY <1>1, <2>3, <3>1 DEF DownIsEmpty
    <3>2. a \notin resumed
      BY <1>1, <1>7
    <3> QED
      BY <1>1, <2>3, <3>1, <3>2
  <2> QED
    BY <1>1, <2>1, <2>2, <2>4 DEF RowMove, LosesExecution
<1> QED
  BY <1>6, <1>7

\* Every step is such a move, for every attempt.
LEMMA RowMoves ==
  ASSUME TypeOK, DownIsEmpty, NumberedRows, FreshIsOpen, [Next]_vars, NEW a \in Attempts
  PROVE  RowMove(a)
<1>1. ASSUME UNCHANGED attempt, job'[a].n = job[a].n PROVE RowMove(a)
  BY <1>1 DEF RowMove, KeepsRow, Fresh
<1>2. attempt[a] \in AttemptRow /\ job[a] \in JobRow /\ job \in [Attempts -> JobRow]
  BY DEF TypeOK
<1>3. CASE Rejudge
  <2>1. ASSUME NEW q \in request, RejudgePurge(q) PROVE RowMove(a)
    <3>1. /\ job' = [job EXCEPT ![q.attempt].status = "absent",
                                ![q.attempt].cancelRequested = FALSE,
                                ![q.attempt].prev = NoScore]
          /\ UNCHANGED attempt
      BY <2>1 DEF RejudgePurge
    <3>2. job'[a] = job[a] \/ job'[a] = [job[a] EXCEPT !.status = "absent",
                                !.cancelRequested = FALSE, !.prev = NoScore]
      BY <1>2, <3>1
    <3>3. job'[a].n = job[a].n
      BY <1>2, <3>2 DEF JobRow
    <3> QED
      BY <1>1, <3>1, <3>3
  <2>2. ASSUME NEW q \in request, RejudgeEnqueue(q) PROVE RowMove(a)
    <3>1. q.attempt \in Attempts
      BY DEF TypeOK, RequestRow
    <3>2. CASE Enqueue(q.attempt, q.exec, q.prev, worker)
      BY <3>1, <3>2, EnqueueRows DEF RequestsFor
    <3>3. CASE UNCHANGED facts
      BY <1>1, <3>3 DEF facts
    <3> QED
      BY <2>2, <3>2, <3>3 DEF RejudgeEnqueue
  <2>3. ASSUME NEW r \in Requests, NEW b \in Attempts, RejudgeCheck(r, b) PROVE RowMove(a)
    BY <1>1, <2>3 DEF RejudgeCheck, facts
  <2> QED
    BY <1>3, <2>1, <2>2, <2>3 DEF Rejudge
<1>4. CASE StopScoring
  <2> DEFINE active == {b \in Attempts : job[b].status \in {"queued", "running"}}
  <2>1. /\ job' = [b \in Attempts |->
             IF b \notin active THEN job[b]
             ELSE [job[b] EXCEPT !.cancelRequested = TRUE,
                                 !.status = IF @ = "queued" THEN "cancelled" ELSE @]]
        /\ attempt' = [b \in Attempts |->
             IF b \notin active THEN Row(b)
             ELSE [Row(b) EXCEPT !.scoring = "cancelled", !.score = NoScore,
                                 !.status = IF @ = "scoring" THEN "cancelled" ELSE @]]
    BY <1>4 DEF StopScoring
  <2>2. job'[a].n = job[a].n
    BY <1>2, <2>1 DEF JobRow
  <2>3. /\ attempt'[a].exec = attempt[a].exec
        /\ Fresh(a) => attempt'[a].status = attempt[a].status
        /\ attempt'[a].scoring \in {attempt[a].scoring, "cancelled"}
    BY <1>2, <2>1 DEF Row, AttemptRow, Fresh
  <2> QED
    BY <2>2, <2>3 DEF RowMove, KeepsRow, Fresh
<1>5. CASE StopConverge \/ SweepConverge
  <2>1. CASE StopConverge
    BY <2>1, ConvergeRows DEF StopConverge
  <2>2. CASE SweepConverge
    BY <2>2, ConvergeRows DEF SweepConverge
  <2> QED
    BY <1>5, <2>1, <2>2
<1>6. ASSUME NEW b \in Attempts,
             ExecutionStep(b) \/ ResumedNotifies(b) \/ DeadlinePasses(b)
      PROVE  RowMove(a)
  BY <1>1, <1>6, ExecutionRows DEF DeadlinePasses, facts
<1>7. CASE \/ StopList \/ StopRead \/ SweepList \/ SweepRead \/ Shutdown \/ Exit
           \/ Crash \/ UNCHANGED vars
  BY <1>1, <1>7 DEF StopList, StopRead, SweepList, SweepRead, Shutdown, Exit, Crash,
     vars, facts
<1> QED
  BY <1>3, <1>4, <1>5, <1>6, <1>7, TaskRows, RestartRows DEF Next

\* What a step may do to the stop, the sweep and the process.
LEMMA StopMoves ==
  ASSUME TypeOK, [Next]_vars
  PROVE  /\ stop'.phase # "idle" => stop.phase # "idle" \/ StopScoring
         /\ up' # "up" => up # "up" \/ stop'.phase = "idle"
         /\ \A a \in Attempts :
              /\ stop'.open[a] \in {stop.open[a], {}, OpenAxes(attempt[a])}
              /\ a \in sweep'.ids => a \in sweep.ids \/ attempt[a].scoring = "running"
              /\ \/ sweep'.open[a] \in {sweep.open[a], {}}
                 \/ a \in sweep.ids /\ sweep'.open[a] = OpenAxes(attempt[a])
<1> DEFINE Same == UNCHANGED <<stop, sweep, up>>
<1>1. ASSUME NEW j \in Tasks, WorkerStep(j) \/ ThreadStep(j) \/ HandleCancel(j)
      PROVE  Same
  BY <1>1
     DEF WorkerStep, Acquire, Begin, StartJudge, JudgeReturns, StartFail,
         StartCommit, StartRecord, Mark, Finish, Raise, ThreadStep, ClaimThread,
         FailThread, CommitThread, RecordThread, NotifyThread, HandleCancel, control
<1>2. ASSUME NEW a \in Attempts,
             ExecutionStep(a) \/ ResumedNotifies(a) \/ DeadlinePasses(a)
      PROVE  Same
  BY <1>2 DEF ExecutionStep, ExecutionEnds, ResumedFails, ResumedScores,
     ResumedNotifies, DeadlinePasses, control
<1>3. CASE Rejudge \/ UNCHANGED vars
  BY <1>3 DEF Rejudge, RejudgeCheck, RejudgePurge, RejudgeEnqueue, vars, control
<1>4. \A a \in Attempts : Idle.open[a] = {} /\ Idle.ids = {} /\ Idle.phase = "idle"
  BY DEF Idle, NothingRead
<1>5. ASSUME NEW ids, NEW a \in Attempts
      PROVE  /\ Reading(ids).ids = {}
             /\ \/ Reading(ids).open[a] = {}
                \/ a \in ids /\ Reading(ids).open[a] = OpenAxes(attempt[a])
  BY <1>4 DEF Reading, Row
<1>6. /\ stop \in Convergence /\ sweep \in Convergence
  BY DEF TypeOK, Convergence
<1>7. CASE StopScoring
  BY <1>6, <1>7 DEF StopScoring, Convergence
<1>8. CASE StopList
  BY <1>4, <1>6, <1>8 DEF StopList, Convergence
<1>9. CASE StopRead
  BY <1>5, <1>9 DEF StopRead
<1>10. CASE StopConverge
  BY <1>4, <1>10 DEF StopConverge
<1>11. CASE SweepList
  BY <1>6, <1>11 DEF SweepList, Row, Convergence
<1>12. CASE SweepRead
  BY <1>5, <1>12 DEF SweepRead
<1>13. CASE SweepConverge
  BY <1>4, <1>13 DEF SweepConverge
<1>14. CASE Shutdown \/ Exit
  BY <1>14 DEF Shutdown, Exit
<1>15. CASE Crash
  <2>1. stop' = Idle /\ sweep' = Idle /\ up # "down"
    BY <1>15 DEF Crash
  <2>2. \A a \in Attempts : Idle.open[a] = {} /\ Idle.ids = {}
    BY <1>4
  <2>3. Idle.phase = "idle"
    BY DEF Idle
  <2>4. stop'.phase = "idle" /\ sweep'.phase = "idle"
    BY <2>1, <2>3
  <2>5. /\ sweep'.ids = {}
        /\ \A a \in Attempts : stop'.open[a] = {} /\ sweep'.open[a] = {}
    BY <2>1, <2>2 DEF Idle
  <2> QED
    BY <2>1, <2>4, <2>5
<1>16. CASE Restart
  <2>1. up = "down" /\ UNCHANGED <<stop, sweep>>
    BY <1>16 DEF Restart
  <2> QED
    BY <2>1
<1> QED
  BY <1>1, <1>2, <1>3, <1>7, <1>8, <1>9, <1>10, <1>11, <1>12, <1>13, <1>14, <1>15,
     <1>16 DEF Next

\* An execution that may store its end could do so before, or is resumed by the
\* startup of a process that was down.
LEMMA ExecutesMoves ==
  ASSUME TypeOK, [Next]_vars, NEW a \in Attempts, Executes(a)'
  PROVE  /\ ~StopScoring
         /\ worker'[Execution(a)] # "none"
         /\ \/ Executes(a)
            \/ Fresh(a) /\ up = "down" /\ worker'[Execution(a)] = "resumed"
<1> DEFINE e == Execution(a)
<1>1. e \in Tasks /\ e[1] = a /\ e[2] = 0
  BY ScoresType DEF Execution
<1>2. worker'[e] \in {"dispatched", "resumed"} /\ e \notin cancelled'
  BY DEF Executes, At, Execution
<1>3. TaskMove(e)
  BY <1>1, Moves
<1>4. Executes(a) <=> worker[e] \in {"dispatched", "resumed"} /\ e \notin cancelled
  BY DEF Executes, At
<1> HIDE DEF e
<1>5. e \notin cancelled
  BY <1>1, <1>2, CancelKept
<1>6. ~StopScoring
  BY <1>1, <1>2, <1>5 DEF StopScoring
<1>7. Executes(a) \/ (Fresh(a) /\ up = "down" /\ worker'[e] = "resumed")
  BY <1>1, <1>2, <1>3, <1>4, <1>5 DEF TaskMove, Resumption, Fresh
<1> QED
  BY <1>2, <1>6, <1>7 DEF e

\* A row whose execution may store its end stays fresh: no other writer finds
\* it.
LEMMA ExecutesAlone ==
  ASSUME TypeOK, TaskInv, NumberedRows, VerdictInv, [Next]_vars, NEW a \in Attempts,
         Fresh(a), up = "down" \/ Executes(a), Executes(a)'
  PROVE  Fresh(a)'
<1>1. worker'[Execution(a)] # "none" /\ (Executes(a) \/ worker'[Execution(a)] = "resumed")
  BY ExecutesMoves
<1>2. RowMove(a)
  BY RowMoves DEF TaskInv, VerdictInv
<1>3. attempt[a].exec \in OpenExecution /\ job[a].n = 0 /\ sweep.open[a] = {}
  BY DEF VerdictInv, FreshIsOpen
<1>4. up = "down" => ~Executes(a) /\ thread = {}
  BY ScoresType DEF TaskInv, DownIsEmpty, Executes, At, Execution
<1>5. ~AsksAgain(a)
  BY <1>3 DEF VerdictInv, AskedForVerdict, AsksAgain, RequestsFor
<1>6. ~LosesExecution(a)
  BY <1>1, <1>4 DEF LosesExecution
<1>7. stop.phase # "read"
  BY DEF VerdictInv, Executing, StopEnds
<1>8. ASSUME NEW t \in Tasks, t[1] = a, CommitThread(t) PROVE FALSE
  <2>1. <<t, "commit">> \in thread
    BY <1>8 DEF CommitThread, EndThread
  <2>2. t[2] <= job[t[1]].n
    BY <2>1 DEF TaskInv, Numbered, ThreadKind
  <2>3. t = Execution(a)
    BY <1>3, <1>8, <2>2 DEF Tasks, Execution
  <2>4. worker[Execution(a)] \in {"committing", "none"}
    BY <2>1, <2>3 DEF TaskInv, CommitAwaited
  <2> QED
    BY <1>4, <2>1, <2>4 DEF Executes, At
<1>9. ~ClosesRow(a)
  BY <1>3, <1>7, <1>8 DEF ClosesRow
<1> QED
  BY <1>1, <1>2, <1>5, <1>6, <1>9 DEF RowMove, KeepsRow, EndsExecution

\* A closed execution axis is not reopened, and only a late stop or a rejudge
\* accepted before one writes it again.
LEMMA VerdictKept ==
  ASSUME TypeOK, TaskInv, NumberedRows, VerdictInv, [Next]_vars, NEW a \in Attempts,
         attempt[a].exec \notin OpenExecution
  PROVE  /\ attempt'[a].exec \notin OpenExecution
         /\ ~LateVerdict(a) => attempt'[a].exec = attempt[a].exec
<1>1. RowMove(a)
  BY RowMoves DEF TaskInv, VerdictInv
<1>2. ~Fresh(a) /\ ~Executes(a)
  BY DEF VerdictInv, Executing, FreshIsOpen
<1>3. ASSUME AsksAgain(a), ~LateVerdict(a) PROVE attempt'[a].exec = attempt[a].exec
  <2>1. PICK q \in RequestsFor(a) : attempt'[a].exec = AdapterVerdict(q.exec)
    BY <1>3 DEF AsksAgain
  <2>2. q.exec = attempt[a].exec /\ q.exec \in {"completed", "timeout", "failed"}
    BY <1>3 DEF LateVerdict, RequestsFor, TypeOK, RequestRow
  <2> QED
    BY <2>1, <2>2 DEF AdapterVerdict
<1>4. ASSUME ClosesRow(a), ~LateVerdict(a) PROVE attempt'[a].exec = attempt[a].exec
  BY <1>4 DEF ClosesRow, LateVerdict, VerdictInv, SweptHaveEnded
<1> QED
  BY <1>1, <1>2, <1>3, <1>4 DEF RowMove, KeepsRow, EndsExecution, LosesExecution

LEMMA InitVerdict == Init => VerdictInv
<1> SUFFICES ASSUME Init PROVE VerdictInv
  OBVIOUS
<1>1. /\ \A a \in Attempts : /\ attempt[a].status = "running"
                             /\ attempt[a].exec = "running"
                             /\ attempt[a].scoring = "not_ready" /\ job[a].n = 0
      /\ request = {} /\ up = "up"
  BY DEF Init
<1>2. /\ stop.phase = "idle" /\ sweep.ids = {}
      /\ \A a \in Attempts : stop.open[a] = {} /\ sweep.open[a] = {}
  BY DEF Init, Idle, NothingRead
<1> QED
  BY <1>1, <1>2 DEF VerdictInv, Executing, FreshIsOpen, SweptHaveEnded,
     AskedForVerdict, StopEnds, Fresh, OpenExecution

LEMMA NextVerdict ==
  ASSUME TypeOK, TaskInv, NumberedRows, VerdictInv, [Next]_vars
  PROVE  VerdictInv'
<1>1. ASSUME NEW a \in Attempts, Executes(a)' PROVE Fresh(a)' /\ stop'.phase = "idle"
  <2>1. ~StopScoring /\ (Executes(a) \/ (Fresh(a) /\ up = "down"))
    BY <1>1, ExecutesMoves
  <2>2. Fresh(a) /\ stop.phase = "idle"
    BY <2>1 DEF VerdictInv, Executing, StopEnds
  <2>3. stop'.phase = "idle"
    BY <2>1, <2>2, StopMoves
  <2>4. Fresh(a)'
    BY <1>1, <2>1, <2>2, ExecutesAlone
  <2> QED
    BY <2>3, <2>4
<1>2. ASSUME NEW a \in Attempts, Fresh(a)'
      PROVE  /\ attempt'[a].exec \in OpenExecution /\ job'[a].n = 0
             /\ attempt'[a].scoring # "running"
             /\ a \notin sweep'.ids /\ sweep'.open[a] = {}
             /\ stop'.open[a] = {} \/ {"status", "exec"} \subseteq stop'.open[a]
  <2>1. Fresh(a)
    BY <1>2, ExecutionNotReopened DEF Fresh
  <2>2. KeepsRow(a)
    BY <1>2, RowMoves DEF TaskInv, VerdictInv, RowMove
  <2>3. /\ attempt[a].exec \in OpenExecution /\ job[a].n = 0
        /\ attempt[a].scoring # "running"
        /\ a \notin sweep.ids /\ sweep.open[a] = {}
        /\ stop.open[a] = {} \/ {"status", "exec"} \subseteq stop.open[a]
    BY <2>1 DEF VerdictInv, FreshIsOpen
  <2>4. a \notin sweep'.ids /\ sweep'.open[a] = {}
    BY <2>3, StopMoves
  <2>5. {"status", "exec"} \subseteq OpenAxes(attempt[a])
    BY <2>1, <2>3 DEF OpenAxes, Axes, Fresh, OpenLegacy
  <2>6. stop'.open[a] = {} \/ {"status", "exec"} \subseteq stop'.open[a]
    BY <2>3, <2>5, StopMoves
  <2> QED
    BY <2>1, <2>2, <2>3, <2>4, <2>6 DEF KeepsRow
<1>3. ASSUME NEW a \in Attempts, attempt'[a].exec \in OpenExecution PROVE Fresh(a)'
  <2>1. KeepsRow(a)
    BY <1>3, RowMoves DEF TaskInv, VerdictInv, RowMove
  <2> QED
    BY <1>3, <2>1 DEF KeepsRow, VerdictInv, FreshIsOpen
<1>4. ASSUME NEW a \in Attempts PROVE "exec" \notin sweep'.open[a]
  <2>1. a \in sweep.ids => "exec" \notin OpenAxes(attempt[a])
    BY DEF VerdictInv, FreshIsOpen, OpenAxes
  <2> QED
    BY <2>1, StopMoves DEF VerdictInv, SweptHaveEnded
<1>5. ASSUME NEW q \in request' PROVE attempt'[q.attempt].exec \notin OpenExecution
  <2>1. CASE \E p \in request : q.attempt = p.attempt
    <3>1. q.attempt \in Attempts /\ attempt[q.attempt].exec \notin OpenExecution
      BY <2>1 DEF VerdictInv, AskedForVerdict, TypeOK, RequestRow
    <3> QED
      BY <3>1, VerdictKept
  <2>2. ASSUME NEW r \in Requests, RejudgeCheck(r, q.attempt)
        PROVE  attempt'[q.attempt].exec \notin OpenExecution
    BY <2>2 DEF RejudgeCheck, Row, OpenExecution, facts
  <2> QED
    BY <2>1, <2>2, RequestMoves
<1>6. up' # "up" => stop'.phase = "idle"
  BY StopMoves DEF VerdictInv, StopEnds, StopScoring
<1> QED
  BY <1>1, <1>2, <1>3, <1>4, <1>5, <1>6
     DEF VerdictInv, Executing, FreshIsOpen, SweptHaveEnded, AskedForVerdict, StopEnds

LEMMA VerdictInvariant == Spec => [](TypeOK /\ TaskInv /\ NumberedRows /\ VerdictInv)
<1>1. Init => NumberedRows
  BY InitStrand DEF StrandInv
<1>2. TypeOK /\ TaskInv /\ NumberedRows /\ VerdictInv /\ [Next]_vars
        => NumberedRows' /\ VerdictInv'
  BY NextNumberedRows, NextVerdict
<1> QED
  BY <1>1, <1>2, InitVerdict, TasksInvariant, PTL DEF Spec

\* Scoring, its failures, its timeouts, stops, restarts and rejudges never change
\* how an execution ended, except a stop that read it before and writes after it.
THEOREM VerdictStays == Spec => ExecutionVerdictKept
<1>1. TypeOK /\ TaskInv /\ NumberedRows /\ VerdictInv /\ [Next]_vars =>
        \A a \in Attempts : attempt[a].exec \notin OpenExecution /\ ~LateVerdict(a)
          => attempt'[a].exec = attempt[a].exec
  BY VerdictKept
<1> QED
  BY <1>1, VerdictInvariant, PTL DEF Spec, ExecutionVerdictKept

-----------------------------------------------------------------------------
(* The score on display.  While no stop has been asked for and one rejudge   *)
(* is asked for at a time, an attempt whose job is still to be scored keeps   *)
(* its last committed score in the job's `prev`, any other one shows it.      *)

Unsettled == {"queued", "running"}
AtWork == {"preparing", "judging", "checked"}

\* s is the score of the last row the outbox holds for attempt a.
Stands(a, s) ==
  \/ s = NoScore /\ \A i \in DOMAIN outbox : outbox[i].attempt # a
  \/ \E i \in DOMAIN outbox :
       /\ outbox[i].attempt = a /\ outbox[i].job = s
       /\ \A k \in DOMAIN outbox : outbox[k].attempt = a => k <= i

\* The job of attempt a is still to be scored; task t may still store its
\* failure or its score.
OpenJob(a) == job[a].status \in Unsettled /\ ~CommittedTo(<<a, job[a].n>>)
Engaged(t) == worker[t] \in AtWork \/ <<t, "fail">> \in thread \/ <<t, "commit">> \in thread

NoStop == /\ stop.phase = "idle"
          /\ \A a \in Attempts : ~job[a].cancelRequested /\ job[a].status # "cancelled"
Alone == \A p, q \in request : p = q
Numbers == \A i \in DOMAIN outbox : outbox[i].job <= job[outbox[i].attempt].n
Owning ==
  \A t \in Jobs :
    /\ worker[t] = "claimed" => IsRowOf(t) /\ job[t[1]].status \in Unsettled
    /\ Engaged(t) => IsRowOf(t) /\ OpenJob(t[1])
    /\ <<t, "fail">> \in thread => /\ worker[t] \in {"failing", "none"}
                                   /\ <<t, "commit">> \notin thread
    /\ worker[t] \in {"committed", "recording", "recorded"} => CommittedTo(t)
    /\ worker[t] \notin {"dispatched", "resumed"}
Resuming == \A a \in Attempts : <<Execution(a), "commit">> \in thread => Fresh(a)
Standing ==
  \A a \in Attempts :
    /\ OpenJob(a) => Stands(a, job[a].prev) /\ attempt[a].status \notin Scored
    /\ ~OpenJob(a) => Stands(a, attempt[a].score)
Asked == \A q \in request : /\ job[q.attempt].status \notin Unsettled
                            /\ Stands(q.attempt, q.prev)

DisplayInv == NoStop /\ Alone /\ Numbers /\ Owning /\ Resuming /\ Standing /\ Asked

\* The task of the job that attempt a has.
RowTask(a) == <<a, job[a].n>>

\* A step leaves what attempt a shows and whether its job is due,
SameJob(a) == job'[a].n = job[a].n /\ job'[a].prev = job[a].prev
              /\ ~job'[a].cancelRequested
Rests(a) ==
  /\ SameJob(a) /\ job'[a].status # "cancelled"
  /\ job'[a].status \in Unsettled <=> job[a].status \in Unsettled
  /\ attempt'[a].score = attempt[a].score
  /\ attempt'[a].status \in Scored => attempt[a].status \in Scored

\* completes a job that has committed,
Settles(a) ==
  /\ SameJob(a) /\ job'[a].status = "completed"
  /\ attempt'[a].score = attempt[a].score
  /\ \/ /\ worker[RowTask(a)] = "claimed" /\ worker'[RowTask(a)] = "none"
        /\ Committed(RowTask(a))
     \/ worker[RowTask(a)] = "recorded" /\ worker'[RowTask(a)] = "notifying"

\* gives up a job and gives back the score it saved,
Fails(a) ==
  /\ SameJob(a) /\ job[a].status # "absent"
  /\ job'[a].status \in {"scoring_failed", "timed_out", "failed"}
  /\ attempt'[a].score = job[a].prev
  /\ \/ FailThread(RowTask(a))
     \/ worker[RowTask(a)] \in AtWork /\ worker'[RowTask(a)] = "none"

\* deletes a job for a rejudge, schedules one for an execution or a rejudge,
Purges(a) ==
  /\ \E q \in request : q.attempt = a
  /\ job'[a].n = job[a].n /\ job'[a].status = "absent" /\ ~job'[a].cancelRequested
  /\ attempt'[a].score = attempt[a].score
Schedules(a) ==
  /\ job'[a].n = job[a].n + 1 /\ job'[a].status = "queued" /\ ~job'[a].cancelRequested
  /\ attempt'[a].status \notin Scored
  /\ \/ Fresh(a) /\ job'[a].prev = NoScore
     \/ \E q \in request : /\ q.attempt = a /\ job'[a].prev = q.prev
                           /\ request' = request \ {q} /\ job[a].status = "absent"

\* or ends an execution without a score,
EndsBare(a) == Fresh(a) /\ job'[a] = job[a] /\ attempt'[a].score = NoScore

\* and all these commit nothing for a.  Or it commits.
SameOutbox(a) ==
  \/ UNCHANGED outbox
  \/ \E j \in Tasks : \E rev :
       /\ j[1] # a
       /\ outbox' = Append(outbox, [attempt |-> j[1], job |-> j[2], rev |-> rev])
Commits(a) ==
  \E t \in Tasks : \E rev :
    /\ t[1] = a /\ CommitThread(t) /\ ~Committed(t)
    /\ job'[a] = job[a] /\ attempt'[a].score = t[2]
    /\ outbox' = Append(outbox, [attempt |-> a, job |-> t[2], rev |-> rev])

ShowMove(a) ==
  \/ Commits(a)
  \/ /\ SameOutbox(a)
     /\ \/ Rests(a) \/ Settles(a) \/ Fails(a) \/ Purges(a) \/ Schedules(a)
        \/ EndsBare(a)

LEMMA RestsUnchanged ==
  ASSUME NoStop, UNCHANGED outbox, NEW a \in Attempts,
         attempt'[a] = attempt[a], job'[a] = job[a]
  PROVE  ShowMove(a)
BY DEF NoStop, ShowMove, SameOutbox, Rests, SameJob

\* Without a stop a job is cancelled for a task only when it is not its own, and
\* the failure path writes nothing then.
LEMMA CancelWritesNothing ==
  ASSUME NoStop, NEW j \in Tasks, JobCancelled(j), NEW status, FinishFailure(j, status)
  PROVE  UNCHANGED <<attempt, job>>
<1>1. j[1] \in Attempts
  BY ScoresType
<1>2. ~IsRowOf(j)
  BY <1>1 DEF NoStop, JobCancelled
<1> QED
  BY <1>2 DEF FinishFailure, FailedWith

\* The failure path gives back the saved score.
LEMMA FailureShows ==
  ASSUME TypeOK, NoStop, NEW j \in Tasks, UNCHANGED outbox,
         NEW status \in {"scoring_failed", "timed_out", "failed"},
         FinishFailure(j, status),
         FailThread(j) \/ (worker[j] \in AtWork /\ worker'[j] = "none"),
         NEW a \in Attempts
  PROVE  ShowMove(a)
<1>1. attempt \in [Attempts -> AttemptRow] /\ job \in [Attempts -> JobRow]
  BY DEF TypeOK
<1>2. CASE ~IsRowOf(j)
  <2>1. UNCHANGED <<attempt, job>>
    BY <1>2 DEF FinishFailure, FailedWith
  <2> QED
    BY <2>1, RestsUnchanged
<1>3. CASE IsRowOf(j)
  <2> DEFINE b == j[1]
             row == [status  |-> IF status = "cancelled" THEN "cancelled"
                                 ELSE ExecutionProjection(attempt[b].exec),
                     exec    |-> attempt[b].exec,
                     scoring |-> status,
                     score   |-> job[b].prev]
  <2>1. /\ attempt' = [attempt EXCEPT ![b] = row]
        /\ job' = [job EXCEPT ![b].status = status]
    BY <1>3 DEF FinishFailure, FailedWith
  <2>2. row.score = job[b].prev
    OBVIOUS
  <2> HIDE DEF row
  <2>3. CASE a # b
    BY <1>1, <2>1, <2>3, RestsUnchanged
  <2>4. CASE a = b
    <3>1. j = RowTask(a) /\ job[a].status # "absent"
      BY <1>3, <2>4 DEF RowTask, IsRowOf, Tasks
    <3>2. attempt'[a].score = job[a].prev
      BY <1>1, <2>1, <2>2, <2>4
    <3>3. job'[a] = [job[a] EXCEPT !.status = status]
      BY <1>1, <2>1, <2>4
    <3>4. SameJob(a) /\ job'[a].status = status
      BY <1>1, <3>3 DEF SameJob, JobRow, NoStop
    <3> QED
      BY <3>1, <3>2, <3>4 DEF ShowMove, SameOutbox, Fails
  <2> QED
    BY <2>3, <2>4
<1> QED
  BY <1>2, <1>3

\* A step that writes no row but one job's status, and the scoring axis at most.
LEMMA StatusShows ==
  ASSUME TypeOK, NoStop, NEW j \in Tasks, UNCHANGED outbox, NEW status,
         job' = [job EXCEPT ![j[1]].status = status], NEW a \in Attempts,
         attempt'[a].score = attempt[a].score,
         attempt'[a].status \in Scored => attempt[a].status \in Scored,
         IsRowOf(j),
         \/ status \in Unsettled /\ job[j[1]].status \in Unsettled
         \/ /\ status = "completed"
            /\ \/ worker[j] = "claimed" /\ worker'[j] = "none" /\ Committed(j)
               \/ worker[j] = "recorded" /\ worker'[j] = "notifying"
  PROVE  ShowMove(a)
<1>1. job \in [Attempts -> JobRow] /\ job[a] \in JobRow
  BY DEF TypeOK
<1>2. CASE a # j[1]
  <2>1. job'[a] = job[a]
    BY <1>1, <1>2
  <2> QED
    BY <2>1 DEF NoStop, ShowMove, SameOutbox, Rests, SameJob
<1>3. CASE a = j[1]
  <2>1. j = RowTask(a)
    BY <1>3 DEF RowTask, IsRowOf, Tasks
  <2>2. job'[a] = [job[a] EXCEPT !.status = status]
    BY <1>1, <1>3
  <2>3. SameJob(a) /\ job'[a].status = status
    BY <1>1, <2>2 DEF SameJob, JobRow, NoStop
  <2>4. CASE status \in Unsettled /\ job[a].status \in Unsettled
    BY <2>3, <2>4 DEF ShowMove, SameOutbox, Rests, Unsettled
  <2>5. CASE status = "completed"
    BY <2>1, <2>3, <2>5 DEF ShowMove, SameOutbox, Settles, Unsettled
  <2> QED
    BY <1>3, <2>4, <2>5
<1> QED
  BY <1>2, <1>3

\* A write of the scoring axis alone leaves the score and the legacy status.
LEMMA ScoringShows ==
  ASSUME TypeOK, NEW b, NEW scoring,
         attempt' = [attempt EXCEPT ![b].scoring = scoring], NEW a \in Attempts
  PROVE  /\ attempt'[a].score = attempt[a].score
         /\ attempt'[a].status = attempt[a].status
<1>1. attempt \in [Attempts -> AttemptRow] /\ attempt[a] \in AttemptRow
  BY DEF TypeOK
<1>2. attempt'[a] = attempt[a] \/ attempt'[a] = [attempt[a] EXCEPT !.scoring = scoring]
  BY <1>1
<1> QED
  BY <1>1, <1>2 DEF AttemptRow

\* The steps of a task.
LEMMA TaskShows ==
  ASSUME TypeOK, NoStop, NEW j \in Tasks,
         WorkerStep(j) \/ ThreadStep(j) \/ HandleCancel(j), NEW a \in Attempts
  PROVE  ShowMove(a)
<1>1. /\ attempt \in [Attempts -> AttemptRow] /\ job \in [Attempts -> JobRow]
      /\ worker \in [Tasks -> WorkerState] /\ j[1] \in Attempts
  BY ScoresType DEF TypeOK
<1>2. ASSUME UNCHANGED <<attempt, job, outbox>> PROVE ShowMove(a)
  BY <1>2, RestsUnchanged
<1>3. CASE Begin(j)
  <2>1. UNCHANGED outbox
    BY <1>3 DEF Begin, scores
  <2>2. CASE JobCancelled(j)
    <3>1. FinishFailure(j, "cancelled")
      BY <1>3, <2>2 DEF Begin
    <3> QED
      BY <1>2, <2>1, <2>2, <3>1, CancelWritesNothing
  <2>3. CASE ~JobCancelled(j) /\ Committed(j)
    <3>1. /\ job' = [job EXCEPT ![j[1]].status = "completed"] /\ UNCHANGED attempt
          /\ worker[j] = "claimed" /\ Goto(j, "none")
      BY <1>3, <2>3 DEF Begin, At
    <3>2. worker'[j] = "none" /\ IsRowOf(j)
      BY <1>1, <2>3, <3>1 DEF Goto, JobCancelled
    <3> QED
      BY <2>1, <2>3, <3>1, <3>2, StatusShows
  <2>4. CASE ~JobCancelled(j) /\ ~Committed(j)
    BY <1>2, <1>3, <2>1, <2>4 DEF Begin, facts
  <2> QED
    BY <2>2, <2>3, <2>4
<1>4. CASE JudgeReturns(j)
  <2>1. UNCHANGED outbox
    BY <1>4 DEF JudgeReturns, scores
  <2>2. CASE JobCancelled(j)
    BY <1>2, <1>4, <2>1, <2>2, CancelWritesNothing DEF JudgeReturns
  <2> QED
    BY <1>2, <1>4, <2>1, <2>2 DEF JudgeReturns
<1>5. CASE Mark(j)
  <2>1. /\ attempt' = [attempt EXCEPT ![j[1]].scoring = "completed"] /\ UNCHANGED outbox
        /\ worker[j] = "recorded" /\ Goto(j, "notifying")
        /\ job' = IF IsRowOf(j) THEN [job EXCEPT ![j[1]].status = "completed"] ELSE job
    BY <1>5 DEF Mark, At, scores
  <2>2. worker'[j] = "notifying"
    BY <1>1, <2>1 DEF Goto
  <2>3. attempt'[a].score = attempt[a].score /\ attempt'[a].status = attempt[a].status
    BY <2>1, ScoringShows
  <2>4. CASE IsRowOf(j)
    BY <2>1, <2>2, <2>3, <2>4, StatusShows
  <2>5. CASE ~IsRowOf(j)
    BY <2>1, <2>3, <2>5 DEF NoStop, ShowMove, SameOutbox, Rests, SameJob
  <2> QED
    BY <2>4, <2>5
<1>6. ASSUME NEW fault \in Faults \union {"deadline"}, Raise(j, fault) PROVE ShowMove(a)
  <2>1. /\ UNCHANGED outbox /\ worker[j] \in RaisedAt(fault) /\ Goto(j, "none")
        /\ UNCHANGED facts \/ FinishFailure(j, FaultStatus(fault))
    BY <1>6 DEF Raise, scores
  <2>2. fault \in {"environment", "mismatch", "deadline", "evals", "other"}
    BY ScoringQueueAssumption DEF ScoringQueueAssumption, FaultKinds
  <2>3. RaisedAt(fault) \subseteq AtWork
    BY <2>2 DEF RaisedAt, AtWork
  <2>4. worker[j] \in AtWork /\ worker'[j] = "none"
    BY <1>1, <2>1, <2>3 DEF Goto
  <2>5. FaultStatus(fault) \in {"scoring_failed", "timed_out", "failed"}
    BY DEF FaultStatus
  <2> QED
    BY <1>2, <2>1, <2>4, <2>5, FailureShows DEF facts
<1>7. CASE FailThread(j)
  <2>1. FinishFailure(j, "scoring_failed") /\ UNCHANGED outbox
    BY <1>7 DEF FailThread, scores
  <2> QED
    BY <1>7, <2>1, FailureShows
<1>8. CASE ClaimThread(j)
  <2>1. UNCHANGED outbox
    BY <1>8 DEF ClaimThread, scores
  <2>2. CASE UNCHANGED <<attempt, job>>
    BY <1>2, <2>1, <2>2
  <2>3. CASE /\ IsRowOf(j) /\ job[j[1]].status = "queued"
             /\ job' = [job EXCEPT ![j[1]].status = "running"]
             /\ attempt' = [attempt EXCEPT ![j[1]].status = "scoring",
                                           ![j[1]].scoring = "running"]
    <3>1. \/ attempt'[a] = attempt[a]
          \/ attempt'[a] = [attempt[a] EXCEPT !.status = "scoring", !.scoring = "running"]
      BY <1>1, <2>3
    <3>2. /\ attempt'[a].score = attempt[a].score
          /\ attempt'[a].status \in Scored => attempt[a].status \in Scored
      BY <1>1, <3>1 DEF AttemptRow, Scored
    <3> QED
      BY <2>1, <2>3, <3>2, StatusShows DEF Unsettled
  <2> QED
    BY <1>8, <2>2, <2>3 DEF ClaimThread
<1>9. CASE CommitThread(j)
  <2>1. UNCHANGED job
    BY <1>9 DEF CommitThread
  <2>2. CASE Committed(j)
    BY <1>2, <1>9, <2>2 DEF CommitThread
  <2>3. CASE ~Committed(j)
    <3>1. PICK final, exec, rev :
            /\ attempt' = [attempt EXCEPT ![j[1]] =
                 [status |-> final, exec |-> exec, scoring |-> "completed",
                  score |-> j[2]]]
            /\ outbox' = Append(outbox, [attempt |-> j[1], job |-> j[2], rev |-> rev])
      BY <1>9, <2>3 DEF CommitThread
    <3>2. CASE a # j[1]
      <4>1. attempt'[a] = attempt[a]
        BY <1>1, <3>1, <3>2
      <4>2. SameOutbox(a)
        BY <3>1, <3>2 DEF SameOutbox
      <4> QED
        BY <2>1, <4>1, <4>2 DEF NoStop, ShowMove, Rests, SameJob
    <3>3. CASE a = j[1]
      <4>1. attempt'[a].score = j[2]
        BY <1>1, <3>1, <3>3
      <4> QED
        BY <1>9, <2>1, <2>3, <3>1, <3>3, <4>1 DEF ShowMove, Commits
    <3> QED
      BY <3>2, <3>3
  <2> QED
    BY <2>2, <2>3
<1>10. CASE HandleCancel(j)
  <2>1. UNCHANGED outbox
    BY <1>10 DEF HandleCancel, scores
  <2>2. CASE j[2] = 0 \/ worker[j] \in {"waiting", "claiming", "claimed"}
    BY <1>2, <1>10, <2>1, <2>2 DEF HandleCancel
  <2>3. CASE JobCancelled(j)
    BY <1>2, <1>10, <2>1, <2>3, CancelWritesNothing DEF HandleCancel
  <2>4. CASE ~(j[2] = 0 \/ worker[j] \in {"waiting", "claiming", "claimed"})
             /\ ~JobCancelled(j)
    <3>1. /\ job' = (IF IsRowOf(j) /\ job[j[1]].status = "running"
                     THEN [job EXCEPT ![j[1]].status = "queued"] ELSE job)
          /\ \/ attempt' = [attempt EXCEPT ![j[1]].scoring = "queued"]
             \/ UNCHANGED attempt
      BY <1>10, <2>4 DEF HandleCancel
    <3>2. attempt'[a].score = attempt[a].score /\ attempt'[a].status = attempt[a].status
      BY <3>1, ScoringShows
    <3>3. CASE UNCHANGED job
      BY <2>1, <3>2, <3>3 DEF NoStop, ShowMove, SameOutbox, Rests, SameJob
    <3>4. CASE /\ IsRowOf(j) /\ job[j[1]].status = "running"
               /\ job' = [job EXCEPT ![j[1]].status = "queued"]
      BY <2>1, <3>2, <3>4, StatusShows DEF Unsettled
    <3> QED
      BY <3>1, <3>3, <3>4
  <2> QED
    BY <2>2, <2>3, <2>4
<1>11. CASE RecordThread(j) \/ NotifyThread(j)
  BY <1>2, <1>11 DEF RecordThread, NotifyThread, facts
<1>12. CASE \/ Acquire(j) \/ StartJudge(j) \/ StartFail(j) \/ StartCommit(j)
            \/ StartRecord(j) \/ Finish(j)
  BY <1>2, <1>12 DEF Acquire, StartJudge, StartFail, StartCommit, StartRecord,
     Finish, facts, scores
<1> QED
  BY <1>3, <1>4, <1>5, <1>6, <1>7, <1>8, <1>9, <1>10, <1>11, <1>12
     DEF WorkerStep, ThreadStep

\* The enqueue of an attempt.
LEMMA EnqueueShows ==
  ASSUME TypeOK, NoStop, NEW b \in Attempts, NEW verdict, NEW prev, NEW tasks,
         Enqueue(b, verdict, prev, tasks), UNCHANGED outbox, NEW a \in Attempts,
         a = b => \/ Fresh(a) /\ prev = NoScore
                  \/ \E q \in request : /\ q.attempt = a /\ prev = q.prev
                                        /\ request' = request \ {q}
                                        /\ job[a].status = "absent"
  PROVE  ShowMove(a)
<1>1. /\ attempt \in [Attempts -> AttemptRow] /\ job \in [Attempts -> JobRow]
      /\ attempt' = [attempt EXCEPT ![b] = EnqueuedRow(verdict)]
      /\ job' = [job EXCEPT ![b] = [n |-> job[b].n + 1, status |-> "queued",
                                    cancelRequested |-> FALSE, prev |-> prev]]
  BY DEF TypeOK, Enqueue, NewJob
<1>2. CASE a # b
  <2>1. attempt'[a] = attempt[a] /\ job'[a] = job[a]
    BY <1>1, <1>2
  <2> QED
    BY <2>1, RestsUnchanged
<1>3. CASE a = b
  <2>1. attempt'[a].status = "scoring"
    BY <1>1, <1>3 DEF EnqueuedRow
  <2>2. /\ job'[a].n = job[a].n + 1 /\ job'[a].status = "queued"
        /\ job'[a].cancelRequested = FALSE /\ job'[a].prev = prev
    BY <1>1, <1>3
  <2>3. attempt'[a].status \notin Scored
    BY <2>1 DEF Scored
  <2> QED
    BY <1>3, <2>2, <2>3 DEF ShowMove, SameOutbox, Schedules
<1> QED
  BY <1>2, <1>3

\* The steps of an execution.
LEMMA ExecutionShows ==
  ASSUME TypeOK, NoStop, Executing, NEW b \in Attempts,
         ExecutionStep(b) \/ ResumedNotifies(b), NEW a \in Attempts
  PROVE  ShowMove(a)
<1>1. attempt \in [Attempts -> AttemptRow]
  BY DEF TypeOK
<1>2. ASSUME UNCHANGED <<job, outbox>>, NEW status, Executes(b),
             attempt' = [attempt EXCEPT ![b] = FinalizedNoScore(status)]
      PROVE  ShowMove(a)
  <2>1. CASE a # b
    BY <1>1, <1>2, <2>1, RestsUnchanged
  <2>2. CASE a = b
    <3>1. attempt'[a].score = NoScore
      BY <1>1, <1>2, <2>2 DEF FinalizedNoScore
    <3> QED
      BY <1>2, <2>2, <3>1 DEF Executing, ShowMove, SameOutbox, EndsBare
  <2> QED
    BY <2>1, <2>2
<1>3. CASE ExecutionEnds(b)
  <2>1. Executes(b) /\ UNCHANGED outbox
    BY <1>3 DEF ExecutionEnds, Executes, scores
  <2>2. Fresh(b)
    BY <2>1 DEF Executing
  <2>3. ASSUME NEW verdict,
               Enqueue(b, verdict, NoScore, [worker EXCEPT ![Execution(b)] = "none"])
        PROVE  ShowMove(a)
    BY <2>1, <2>2, <2>3, EnqueueShows
  <2> QED
    BY <1>2, <1>3, <2>1, <2>3 DEF ExecutionEnds
<1>4. CASE ResumedFails(b)
  BY <1>2, <1>4 DEF ResumedFails, Executes, scores
<1>5. CASE ResumedScores(b) \/ ResumedNotifies(b)
  BY <1>5, RestsUnchanged DEF ResumedScores, ResumedNotifies, facts, scores
<1> QED
  BY <1>3, <1>4, <1>5 DEF ExecutionStep

\* The steps of a rejudge request.
LEMMA RejudgeShows ==
  ASSUME TypeOK, NoStop, Rejudge, NEW a \in Attempts
  PROVE  ShowMove(a)
<1>1. job \in [Attempts -> JobRow] /\ job[a] \in JobRow
  BY DEF TypeOK
<1>2. ASSUME NEW q \in request, RejudgePurge(q) PROVE ShowMove(a)
  <2>1. /\ job' = [job EXCEPT ![q.attempt].status = "absent",
                              ![q.attempt].cancelRequested = FALSE,
                              ![q.attempt].prev = NoScore]
        /\ UNCHANGED <<attempt, outbox>>
    BY <1>2 DEF RejudgePurge, scores
  <2>2. CASE a # q.attempt
    <3>1. job'[a] = job[a]
      BY <1>1, <2>1, <2>2
    <3> QED
      BY <2>1, <3>1, RestsUnchanged
  <2>3. CASE a = q.attempt
    <3>1. job'[a] = [job[a] EXCEPT !.status = "absent", !.cancelRequested = FALSE,
                                   !.prev = NoScore]
      BY <1>1, <2>1, <2>3
    <3>2. job'[a].n = job[a].n /\ job'[a].status = "absent" /\ ~job'[a].cancelRequested
      BY <1>1, <3>1 DEF JobRow
    <3> QED
      BY <2>1, <2>3, <3>2 DEF ShowMove, SameOutbox, Purges
  <2> QED
    BY <2>2, <2>3
<1>3. ASSUME NEW q \in request, RejudgeEnqueue(q) PROVE ShowMove(a)
  <2>1. q.attempt \in Attempts
    BY DEF TypeOK, RequestRow
  <2>2. UNCHANGED outbox /\ request' = request \ {q}
    BY <1>3 DEF RejudgeEnqueue, scores
  <2>3. CASE /\ job[q.attempt].status = "absent"
             /\ Enqueue(q.attempt, q.exec, q.prev, worker)
    BY <2>1, <2>2, <2>3, EnqueueShows
  <2>4. CASE UNCHANGED facts
    BY <2>2, <2>4, RestsUnchanged DEF facts
  <2> QED
    BY <1>3, <2>3, <2>4 DEF RejudgeEnqueue
<1>4. ASSUME NEW r \in Requests, NEW b \in Attempts, RejudgeCheck(r, b) PROVE ShowMove(a)
  BY <1>4, RestsUnchanged DEF RejudgeCheck, facts, scores
<1> QED
  BY <1>2, <1>3, <1>4 DEF Rejudge

\* A startup keeps the score, or interrupts an execution.
LEMMA RestartShows ==
  ASSUME TypeOK, NumberedRows, FreshIsOpen, NoStop, Restart, NEW a \in Attempts
  PROVE  ShowMove(a)
<1> DEFINE revived == [b \in Attempts |->
             IF job[b].status = "running" /\ ~job[b].cancelRequested
             THEN [job[b] EXCEPT !.status = "queued"] ELSE job[b]]
           requeued == [b \in Attempts |->
             IF Row(b).scoring = "running"
             THEN [Row(b) EXCEPT !.scoring = "queued", !.status = "scoring"]
             ELSE Row(b)]
           stale == {b \in Attempts : requeued[b].status \in {"queued", "running"}}
<1>1. PICK lost \in SUBSET stale :
        /\ job' = revived /\ UNCHANGED outbox
        /\ attempt' = [b \in Attempts |->
             IF b \in lost THEN FinalizedNoScore("interrupted") ELSE requeued[b]]
  BY DEF Restart
<1>2. attempt[a] \in AttemptRow /\ job[a] \in JobRow
  BY DEF TypeOK
<1>3. /\ revived[a].n = job[a].n /\ revived[a].prev = job[a].prev
      /\ revived[a].cancelRequested = job[a].cancelRequested
      /\ \/ revived[a].status = job[a].status
         \/ job[a].status = "running" /\ revived[a].status = "queued"
      /\ job[a].status # "running" => revived[a] = job[a]
  BY <1>2 DEF JobRow
<1>4. /\ requeued[a].score = attempt[a].score
      /\ requeued[a].status \in {attempt[a].status, "scoring"}
  BY <1>2 DEF Row, AttemptRow
<1>5. lost \subseteq Attempts /\ (a \in lost => requeued[a].status \in {"queued", "running"})
  OBVIOUS
<1> HIDE DEF revived, requeued
<1>6. CASE a \notin lost
  <2>1. attempt'[a] = requeued[a] /\ job'[a] = revived[a]
    BY <1>1, <1>6
  <2>2. attempt'[a].status \in Scored => attempt[a].status \in Scored
    BY <1>4, <2>1 DEF Scored
  <2>3. /\ job'[a].status # "cancelled"
        /\ job'[a].status \in Unsettled <=> job[a].status \in Unsettled
    BY <1>3, <2>1 DEF NoStop, Unsettled
  <2>4. SameJob(a)
    BY <1>3, <2>1 DEF SameJob, NoStop
  <2> QED
    BY <1>1, <1>4, <2>1, <2>2, <2>3, <2>4 DEF ShowMove, SameOutbox, Rests
<1>7. CASE a \in lost
  <2>1. attempt'[a].score = NoScore
    BY <1>1, <1>7 DEF FinalizedNoScore
  <2>2. Fresh(a)
    BY <1>4, <1>5, <1>7 DEF Fresh
  <2>3. job[a].status = "absent"
    BY <2>2 DEF FreshIsOpen, NumberedRows
  <2>4. job'[a] = job[a]
    BY <1>1, <1>3, <2>3
  <2> QED
    BY <1>1, <2>1, <2>2, <2>4 DEF ShowMove, SameOutbox, EndsBare
<1> QED
  BY <1>6, <1>7

\* Every step but a stop is such a move, for every attempt.
LEMMA ShowMoves ==
  ASSUME TypeOK, NumberedRows, VerdictInv, NoStop, [Next]_vars, ~StopScoring,
         NEW a \in Attempts
  PROVE  ShowMove(a)
<1>1. ASSUME UNCHANGED <<attempt, job, outbox>> PROVE ShowMove(a)
  BY <1>1, RestsUnchanged
<1>2. CASE SweepConverge
  <2>1. /\ attempt'[a] = Converged(attempt[a], sweep.open[a], ScoringOverdue)
        /\ UNCHANGED <<job, outbox>>
    BY <1>2 DEF SweepConverge, ConvergeAll, Row, scores
  <2>2. /\ attempt'[a].score = attempt[a].score
        /\ attempt'[a].status \in Scored => attempt[a].status \in Scored
    BY <2>1 DEF Converged, ScoringOverdue, Scored
  <2> QED
    BY <2>1, <2>2 DEF NoStop, ShowMove, SameOutbox, Rests, SameJob
<1>3. ~StopConverge
  BY DEF StopConverge, NoStop
<1>4. ASSUME NEW b \in Attempts, DeadlinePasses(b) PROVE ShowMove(a)
  BY <1>1, <1>4 DEF DeadlinePasses, facts, scores
<1>5. CASE \/ StopList \/ StopRead \/ SweepList \/ SweepRead \/ Shutdown \/ Exit
           \/ Crash \/ UNCHANGED vars
  BY <1>1, <1>5 DEF StopList, StopRead, SweepList, SweepRead, Shutdown, Exit, Crash,
     vars, facts, scores
<1> QED
  BY <1>2, <1>3, <1>4, <1>5, TaskShows, ExecutionShows, RejudgeShows, RestartShows
     DEF Next, VerdictInv

\* What an append does to the rows of an attempt.
LEMMA AppendRows ==
  ASSUME TypeOK, NEW row, outbox' = Append(outbox, row)
  PROVE  /\ DOMAIN outbox' = DOMAIN outbox \union {Len(outbox) + 1}
         /\ outbox'[Len(outbox) + 1] = row
         /\ \A i \in DOMAIN outbox : i <= Len(outbox) /\ outbox'[i] = outbox[i]
         /\ DOMAIN outbox \subseteq Nat /\ Len(outbox) \in Nat
BY DEF TypeOK

LEMMA StandsSame ==
  ASSUME TypeOK, NEW a, SameOutbox(a), NEW score, Stands(a, score)
  PROVE  Stands(a, score)'
<1>1. CASE UNCHANGED outbox
  BY <1>1 DEF Stands
<1>2. ASSUME NEW row, row.attempt # a, outbox' = Append(outbox, row)
      PROVE  Stands(a, score)'
  <2>1. /\ DOMAIN outbox' = DOMAIN outbox \union {Len(outbox) + 1}
        /\ outbox'[Len(outbox) + 1] = row
        /\ \A i \in DOMAIN outbox : outbox'[i] = outbox[i]
    BY <1>2, AppendRows
  <2>2. CASE score = NoScore /\ \A i \in DOMAIN outbox : outbox[i].attempt # a
    BY <1>2, <2>1, <2>2 DEF Stands
  <2>3. ASSUME NEW i \in DOMAIN outbox, outbox[i].attempt = a, outbox[i].job = score,
               \A k \in DOMAIN outbox : outbox[k].attempt = a => k <= i
        PROVE  Stands(a, score)'
    <3>1. /\ i \in DOMAIN outbox' /\ outbox'[i].attempt = a /\ outbox'[i].job = score
          /\ \A k \in DOMAIN outbox' : outbox'[k].attempt = a => k <= i
      BY <1>2, <2>1, <2>3
    <3> QED
      BY <3>1 DEF Stands
  <2> QED
    BY <2>2, <2>3 DEF Stands
<1>3. ASSUME NEW j \in Tasks, NEW rev, j[1] # a,
             outbox' = Append(outbox, [attempt |-> j[1], job |-> j[2], rev |-> rev])
      PROVE  Stands(a, score)'
  BY <1>2, <1>3
<1> QED
  BY <1>1, <1>3 DEF SameOutbox

LEMMA CommittedSame ==
  ASSUME TypeOK, NEW t \in Tasks, SameOutbox(t[1])
  PROVE  CommittedTo(t)' <=> CommittedTo(t)
<1>1. CASE UNCHANGED outbox
  BY <1>1 DEF CommittedTo
<1>2. ASSUME NEW j \in Tasks, NEW rev, j[1] # t[1],
             outbox' = Append(outbox, [attempt |-> j[1], job |-> j[2], rev |-> rev])
      PROVE  CommittedTo(t)' <=> CommittedTo(t)
  BY <1>2, AppendCommits
<1> QED
  BY <1>1, <1>2 DEF SameOutbox

LEMMA StandsCommitted ==
  ASSUME TypeOK, NEW a, NEW k, NEW rev,
         outbox' = Append(outbox, [attempt |-> a, job |-> k, rev |-> rev])
  PROVE  Stands(a, k)'
<1> DEFINE row == [attempt |-> a, job |-> k, rev |-> rev]
           last == Len(outbox) + 1
<1>1. /\ DOMAIN outbox' = DOMAIN outbox \union {last}
      /\ outbox'[last] = row
      /\ \A i \in DOMAIN outbox : i <= Len(outbox)
      /\ DOMAIN outbox \subseteq Nat /\ Len(outbox) \in Nat
  BY AppendRows
<1>2. \A i \in DOMAIN outbox' : i <= last
  BY <1>1
<1>3. row.attempt = a /\ row.job = k
  OBVIOUS
<1> HIDE DEF row, last
<1> QED
  BY <1>1, <1>2, <1>3 DEF Stands

\* A fresh attempt has committed nothing.
LEMMA FreshHasNoRows ==
  ASSUME TypeOK, TaskInv, VerdictInv, Numbers, NEW a \in Attempts, Fresh(a)
  PROVE  Stands(a, NoScore) /\ ~CommittedTo(<<a, job[a].n + 1>>)
<1>1. job[a].n = 0
  BY DEF VerdictInv, FreshIsOpen
<1>2. ~CommittedTo(Execution(a))
  BY DEF TaskInv, ResumedOnce, Fresh
<1>3. ASSUME NEW i \in DOMAIN outbox, outbox[i].attempt = a PROVE FALSE
  <2>1. outbox[i].job \in Nat /\ outbox[i].job <= 0
    <3>1. outbox[i] \in OutboxRow
      BY DEF TypeOK
    <3>2. outbox[i].job \in Nat
      BY <3>1, ScoringQueueAssumption DEF OutboxRow, ScoringQueueAssumption
    <3>3. outbox[i].job <= job[outbox[i].attempt].n
      BY DEF Numbers
    <3> QED
      BY <1>1, <1>3, <3>2, <3>3
  <2> QED
    BY <1>2, <1>3, <2>1 DEF CommittedTo, Execution
<1> QED
  BY <1>3 DEF Stands, CommittedTo

\* The score that stands is the one the leader ranks the attempt with.
LEMMA StandsIsLatest ==
  ASSUME TypeOK, NEW a, NEW score, Stands(a, score), Revisions(a) # {}
  PROVE  score = LatestJob(a)
<1> DEFINE rows == {i \in DOMAIN outbox : outbox[i].attempt = a}
<1>1. rows # {} /\ \A i \in rows : i \in Nat
  BY DEF Revisions, TypeOK
<1>2. PICK i \in rows : outbox[i].job = score /\ \A k \in rows : k <= i
  BY <1>1 DEF Stands
<1>3. (CHOOSE last \in rows : \A k \in rows : k <= last) = i
  <2>1. \A last \in rows : (\A k \in rows : k <= last) => last = i
    BY <1>1, <1>2
  <2> HIDE DEF rows
  <2> QED
    BY <1>2, <2>1
<1> QED
  BY <1>2, <1>3 DEF LatestJob

-----------------------------------------------------------------------------
(* The invariant of the score on display.                                  *)

LEMMA InitDisplay == Init => DisplayInv
<1> SUFFICES ASSUME Init PROVE DisplayInv
  OBVIOUS
<1>1. /\ outbox = <<>> /\ thread = {} /\ request = {} /\ stop.phase = "idle"
      /\ \A a \in Attempts : /\ job[a].n = 0 /\ job[a].status = "absent"
                             /\ ~job[a].cancelRequested
                             /\ attempt[a].score = NoScore
  BY DEF Init, Idle
<1>2. \A t \in Jobs : worker[t] = "none"
  BY ScoringQueueAssumption DEF Init, Jobs, Tasks, ScoringQueueAssumption
<1>3. \A a \in Attempts : ~OpenJob(a) /\ Stands(a, NoScore)
  BY <1>1 DEF OpenJob, Unsettled, Stands
<1>4. NoStop /\ Alone /\ Numbers /\ Resuming /\ Asked
  BY <1>1 DEF NoStop, Alone, Numbers, Resuming, Asked
<1>5. Owning
  BY <1>1, <1>2 DEF Owning, Engaged, AtWork
<1>6. Standing
  BY <1>1, <1>3 DEF Standing
<1> QED
  BY <1>4, <1>5, <1>6 DEF DisplayInv

\* The task of a job is one of the tasks.
LEMMA RowTaskType ==
  ASSUME TypeOK, NEW a \in Attempts
  PROVE  /\ RowTask(a) \in Tasks /\ RowTask(a)[1] = a /\ RowTask(a)[2] = job[a].n
         /\ job[a].n # 0 => RowTask(a) \in Jobs
         /\ job[a].n = 0 => RowTask(a) = Execution(a)
         /\ \A t \in Tasks : t[1] = a /\ t[2] = job[a].n => t = RowTask(a)
BY ScoringQueueAssumption
   DEF TypeOK, JobRow, RowTask, Execution, Jobs, Tasks, ScoringQueueAssumption

LEMMA JobTask ==
  ASSUME NEW t \in Jobs
  PROVE  t \in Tasks /\ t[1] \in Attempts /\ t[2] \in Nat \ {0} /\ t = <<t[1], t[2]>>
BY ScoringQueueAssumption DEF Jobs, Tasks, ScoringQueueAssumption

\* A job the step gives up was still to be scored.
LEMMA FailsOpen ==
  ASSUME TypeOK, TaskInv, NumberedRows, DisplayInv, NEW a \in Attempts, Fails(a)
  PROVE  OpenJob(a)
<1>1. RowTask(a) \in Jobs
  BY RowTaskType DEF Fails, NumberedRows
<1>2. Engaged(RowTask(a))
  BY DEF Fails, Engaged, FailThread, EndThread
<1>3. RowTask(a)[1] = a
  BY DEF RowTask
<1> QED
  BY <1>1, <1>2, <1>3 DEF DisplayInv, Owning

\* A job the step completes has committed.
LEMMA SettlesCommitted ==
  ASSUME TypeOK, TaskInv, DisplayInv, NEW a \in Attempts, Settles(a)
  PROVE  ~OpenJob(a)
<1> DEFINE t == RowTask(a)
<1>1. t \in Jobs \/ t = Execution(a)
  BY RowTaskType
<1>2. CASE Committed(t)
  BY <1>2 DEF Committed, OpenJob, CommittedTo, RowTask
<1>3. CASE worker[t] = "recorded"
  <2>1. worker[Execution(a)] # "recorded"
    BY DEF TaskInv, ResumedOnce
  <2>2. CommittedTo(t)
    BY <1>1, <1>3, <2>1 DEF DisplayInv, Owning
  <2> QED
    BY <2>2 DEF OpenJob, RowTask
<1> QED
  BY <1>2, <1>3 DEF Settles

\* A commit is that of the job of its attempt, or of an execution without one.
LEMMA CommitsOwn ==
  ASSUME TypeOK, NumberedRows, VerdictInv, DisplayInv, NEW t \in Tasks, CommitThread(t)
  PROVE  \/ t \in Jobs /\ IsRowOf(t) /\ OpenJob(t[1])
         \/ t[2] = 0 /\ Fresh(t[1]) /\ job[t[1]].status = "absent"
<1>1. <<t, "commit">> \in thread
  BY DEF CommitThread, EndThread
<1>2. t[1] \in Attempts /\ (t \in Jobs \/ t = Execution(t[1]))
  BY ScoringQueueAssumption DEF Jobs, Tasks, Execution, ScoringQueueAssumption
<1>3. CASE t \in Jobs
  <2>1. Engaged(t)
    BY <1>1 DEF Engaged
  <2> QED
    BY <1>3, <2>1 DEF DisplayInv, Owning
<1>4. CASE t = Execution(t[1])
  <2>1. Fresh(t[1])
    BY <1>1, <1>2, <1>4 DEF DisplayInv, Resuming
  <2>2. job[t[1]].status = "absent"
    BY <1>2, <2>1 DEF VerdictInv, FreshIsOpen, NumberedRows
  <2>3. t[2] = 0
    BY <1>4 DEF Execution
  <2> QED
    BY <2>1, <2>2, <2>3
<1> QED
  BY <1>2, <1>3, <1>4

\* An attempt shows the score that stands, or its job has saved it.
LEMMA NextStanding ==
  ASSUME TypeOK, TypeOK', TaskInv, NumberedRows, VerdictInv, DisplayInv, [Next]_vars,
         ~StopScoring
  PROVE  Standing'
<1> SUFFICES ASSUME NEW a \in Attempts, NEW prev, prev = job'[a].prev,
                    NEW score, score = attempt'[a].score
             PROVE  /\ OpenJob(a)' => Stands(a, prev)' /\ attempt'[a].status \notin Scored
                    /\ ~OpenJob(a)' => Stands(a, score)'
  BY DEF Standing
<1> DEFINE Good == /\ OpenJob(a)' => Stands(a, prev)' /\ attempt'[a].status \notin Scored
                   /\ ~OpenJob(a)' => Stands(a, score)'
<1> SUFFICES Good
  OBVIOUS
<1>1. ShowMove(a)
  BY ShowMoves DEF DisplayInv
<1>2. /\ OpenJob(a) => Stands(a, job[a].prev) /\ attempt[a].status \notin Scored
      /\ ~OpenJob(a) => Stands(a, attempt[a].score)
  BY DEF DisplayInv, Standing
<1>3. ASSUME job'[a].status \notin Unsettled, Stands(a, score)' PROVE Good
  BY <1>3 DEF OpenJob
<1>4. CASE Commits(a)
  <2>1. PICK t \in Tasks : \E rev :
          /\ t[1] = a /\ CommitThread(t) /\ job'[a] = job[a] /\ attempt'[a].score = t[2]
          /\ outbox' = Append(outbox, [attempt |-> a, job |-> t[2], rev |-> rev])
    BY <1>4 DEF Commits
  <2>2. PICK rev :
          /\ t[1] = a /\ CommitThread(t) /\ job'[a] = job[a] /\ attempt'[a].score = t[2]
          /\ outbox' = Append(outbox, [attempt |-> a, job |-> t[2], rev |-> rev])
    BY <2>1
  <2>3. Stands(a, score)'
    BY <2>2, StandsCommitted
  <2>4. CASE t \in Jobs /\ IsRowOf(t)
    <3>1. CommittedTo(t)'
      BY <2>2, AppendCommits
    <3>2. t[1] = a /\ t[2] = job'[a].n
      BY <2>2, <2>4 DEF IsRowOf
    <3>3. ~OpenJob(a)'
      BY <3>1, <3>2 DEF OpenJob, CommittedTo
    <3> QED
      BY <2>3, <3>3
  <2>5. CASE job[a].status = "absent"
    BY <1>3, <2>2, <2>3, <2>5 DEF Unsettled
  <2> QED
    BY <2>2, <2>4, <2>5, CommitsOwn
<1>5. CASE SameOutbox(a) /\ Rests(a)
  <2>1. OpenJob(a)' <=> OpenJob(a)
    <3>1. PICK t \in Tasks : t = RowTask(a)
      BY RowTaskType
    <3>2. CommittedTo(t)' <=> CommittedTo(t)
      BY <1>5, <3>1, CommittedSame DEF RowTask
    <3> QED
      BY <1>5, <3>1, <3>2 DEF OpenJob, Rests, SameJob, RowTask, CommittedTo
  <2> QED
    BY <1>2, <1>5, <2>1, StandsSame DEF Rests, SameJob
<1>6. CASE SameOutbox(a) /\ Settles(a)
  <2>1. Stands(a, score)'
    BY <1>2, <1>6, SettlesCommitted, StandsSame DEF Settles
  <2> QED
    BY <1>3, <1>6, <2>1 DEF Settles, Unsettled
<1>7. CASE SameOutbox(a) /\ Fails(a)
  <2>1. Stands(a, score)'
    BY <1>2, <1>7, FailsOpen, StandsSame DEF Fails
  <2> QED
    BY <1>3, <1>7, <2>1 DEF Fails, Unsettled
<1>8. CASE SameOutbox(a) /\ Purges(a)
  <2>1. ~OpenJob(a)
    BY <1>8 DEF Purges, DisplayInv, Asked, OpenJob
  <2>2. Stands(a, score)'
    BY <1>2, <1>8, <2>1, StandsSame DEF Purges
  <2> QED
    BY <1>3, <1>8, <2>2 DEF Purges, Unsettled
<1>9. CASE SameOutbox(a) /\ Schedules(a)
  <2>1. Stands(a, prev)
    BY <1>9, FreshHasNoRows DEF Schedules, DisplayInv, Asked
  <2>2. ~CommittedTo(<<a, job[a].n + 1>>)
    <3>1. job[a].n \in Nat
      BY NumbersGrow
    <3> QED
      BY <3>1 DEF CommittedTo, DisplayInv, Numbers
  <2>3. PICK t \in Tasks : t = <<a, job[a].n + 1>>
    BY <1>9 DEF Schedules, Tasks, TypeOK, JobRow
  <2>4. ~CommittedTo(t)'
    BY <1>9, <2>2, <2>3, CommittedSame
  <2>5. OpenJob(a)'
    BY <1>9, <2>3, <2>4 DEF OpenJob, Schedules, Unsettled, CommittedTo
  <2> QED
    BY <1>9, <2>1, <2>5, StandsSame DEF Schedules
<1>10. CASE SameOutbox(a) /\ EndsBare(a)
  <2>1. Stands(a, score) /\ job[a].status = "absent"
    BY <1>10, FreshHasNoRows
       DEF EndsBare, DisplayInv, VerdictInv, FreshIsOpen, NumberedRows
  <2>2. Stands(a, score)'
    BY <1>10, <2>1, StandsSame
  <2> QED
    BY <1>3, <1>10, <2>1, <2>2 DEF EndsBare, Unsettled
<1> QED
  BY <1>1, <1>4, <1>5, <1>6, <1>7, <1>8, <1>9, <1>10 DEF ShowMove

LEMMA NextNoStop ==
  ASSUME TypeOK, NumberedRows, VerdictInv, DisplayInv, [Next]_vars, ~StopScoring
  PROVE  NoStop'
<1>1. stop'.phase = "idle"
  BY StopMoves DEF DisplayInv, NoStop
<1>2. ASSUME NEW a \in Attempts
      PROVE  ~job'[a].cancelRequested /\ job'[a].status # "cancelled"
  <2>1. ShowMove(a)
    BY ShowMoves DEF DisplayInv
  <2>2. ~job[a].cancelRequested /\ job[a].status # "cancelled"
    BY DEF DisplayInv, NoStop
  <2>3. CASE Rests(a) \/ Settles(a) \/ Fails(a)
    BY <2>3 DEF Rests, Settles, Fails, SameJob
  <2>4. CASE Purges(a) \/ Schedules(a)
    BY <2>4 DEF Purges, Schedules
  <2>5. CASE EndsBare(a) \/ Commits(a)
    BY <2>2, <2>5 DEF EndsBare, Commits
  <2> QED
    BY <2>1, <2>3, <2>4, <2>5 DEF ShowMove
<1> QED
  BY <1>1, <1>2 DEF NoStop

\* One rejudge is asked for at a time when there is one caller.
LEMMA NextAlone ==
  ASSUME TypeOK, Alone, [Next]_vars, \A q, r \in Requests : q = r
  PROVE  Alone'
<1>1. ASSUME request' \subseteq request PROVE Alone'
  BY <1>1 DEF Alone
<1>2. ASSUME NEW r \in Requests, NEW a \in Attempts, RejudgeCheck(r, a) PROVE Alone'
  <2>1. \A q \in request : q.id \in Requests /\ q.id # r
    BY <1>2 DEF RejudgeCheck, TypeOK, RequestRow
  <2>2. request = {}
    BY <2>1
  <2> QED
    BY <1>2, <2>2 DEF RejudgeCheck, Alone
<1>3. ASSUME NEW q \in request, RejudgePurge(q) PROVE Alone'
  <2>1. request = {q}
    BY DEF Alone
  <2> QED
    BY <1>3, <2>1 DEF RejudgePurge, Alone
<1>4. ASSUME NEW q \in request, RejudgeEnqueue(q) PROVE Alone'
  BY <1>1, <1>4 DEF RejudgeEnqueue
<1>5. ASSUME NEW j \in Tasks, WorkerStep(j) \/ ThreadStep(j) \/ HandleCancel(j)
      PROVE  UNCHANGED request
  BY <1>5
     DEF WorkerStep, Acquire, Begin, StartJudge, JudgeReturns, StartFail,
         StartCommit, StartRecord, Mark, Finish, Raise, ThreadStep, ClaimThread,
         FailThread, CommitThread, RecordThread, NotifyThread, HandleCancel, control
<1>6. ASSUME NEW a \in Attempts,
             ExecutionStep(a) \/ ResumedNotifies(a) \/ DeadlinePasses(a)
      PROVE  UNCHANGED request
  BY <1>6 DEF ExecutionStep, ExecutionEnds, ResumedFails, ResumedScores,
     ResumedNotifies, DeadlinePasses, control
<1>7. CASE \/ StopScoring \/ StopList \/ StopRead \/ StopConverge \/ SweepList
           \/ SweepRead \/ SweepConverge \/ Shutdown \/ Exit \/ Crash \/ Restart \/ UNCHANGED vars
  <2>1. request' \subseteq request
    BY <1>7 DEF StopScoring, StopList, StopRead, StopConverge, SweepList, SweepRead,
       SweepConverge,
       Shutdown, Exit, Crash, Restart, vars, control
  <2> QED
    BY <1>1, <2>1
<1> QED
  BY <1>1, <1>2, <1>3, <1>4, <1>5, <1>6, <1>7 DEF Next, Rejudge

\* The outbox holds no number that is still to be given.
LEMMA NextNumbers ==
  ASSUME TypeOK, TypeOK', Numbered, Numbers, [Next]_vars
  PROVE  Numbers'
<1> SUFFICES ASSUME NEW i \in DOMAIN outbox'
             PROVE  outbox'[i].job <= job'[outbox'[i].attempt].n
  BY DEF Numbers
<1>1. ASSUME NEW a \in Attempts, NEW k \in Nat, k <= job[a].n PROVE k <= job'[a].n
  <2>1. job[a].n \in Nat /\ job[a].n <= job'[a].n
    BY NumbersGrow
  <2>2. job'[a].n \in Nat
    BY ScoringQueueAssumption DEF TypeOK, JobRow, ScoringQueueAssumption
  <2> QED
    BY <1>1, <2>1, <2>2
<1>2. ASSUME i \in DOMAIN outbox, outbox'[i] = outbox[i]
      PROVE  outbox'[i].job <= job'[outbox'[i].attempt].n
  <2>1. outbox[i] \in OutboxRow
    BY <1>2 DEF TypeOK
  <2>2. outbox[i].attempt \in Attempts /\ outbox[i].job \in Nat
    BY <2>1, ScoringQueueAssumption DEF OutboxRow, ScoringQueueAssumption
  <2>3. outbox[i].job <= job[outbox[i].attempt].n
    BY <1>2 DEF Numbers
  <2> QED
    BY <1>1, <1>2, <2>2, <2>3
<1>3. CASE UNCHANGED outbox
  BY <1>2, <1>3
<1>4. ASSUME NEW j \in Tasks, NEW rev, CommitThread(j),
             outbox' = Append(outbox, [attempt |-> j[1], job |-> j[2], rev |-> rev])
      PROVE  outbox'[i].job <= job'[outbox'[i].attempt].n
  <2> DEFINE row == [attempt |-> j[1], job |-> j[2], rev |-> rev]
  <2>1. /\ DOMAIN outbox' = DOMAIN outbox \union {Len(outbox) + 1}
        /\ outbox'[Len(outbox) + 1] = row
        /\ \A k \in DOMAIN outbox : outbox'[k] = outbox[k]
    BY <1>4, AppendRows
  <2>2. CASE i \in DOMAIN outbox
    BY <1>2, <2>1, <2>2
  <2>3. CASE i = Len(outbox) + 1
    <3>1. <<j, "commit">> \in thread
      BY <1>4 DEF CommitThread, EndThread
    <3>2. j[2] <= job[j[1]].n
      BY <3>1 DEF Numbered, ThreadKind
    <3>3. j[1] \in Attempts /\ j[2] \in Nat
      BY ScoresType, ScoringQueueAssumption DEF Tasks, ScoringQueueAssumption
    <3>4. j[2] <= job'[j[1]].n
      BY <1>1, <3>2, <3>3
    <3> QED
      BY <2>1, <2>3, <3>4
  <2> QED
    BY <2>1, <2>2, <2>3
<1> QED
  BY <1>3, <1>4, OutboxGrows

\* A rejudge keeps asking about a settled job and carries the score that stands.
LEMMA NextAsked ==
  ASSUME TypeOK, TypeOK', TaskInv, NumberedRows, VerdictInv, DisplayInv, [Next]_vars,
         ~StopScoring
  PROVE  Asked'
<1> SUFFICES ASSUME NEW q \in request', NEW prev, prev = q.prev
             PROVE  job'[q.attempt].status \notin Unsettled /\ Stands(q.attempt, prev)'
  BY DEF Asked
<1> DEFINE a == q.attempt
<1>1. ASSUME NEW r \in Requests, RejudgeCheck(r, a), prev = attempt[a].score, a \in Attempts
      PROVE  job'[a].status \notin Unsettled /\ Stands(a, prev)'
  <2>1. job[a].status \notin Unsettled /\ UNCHANGED <<job, outbox>>
    BY <1>1 DEF RejudgeCheck, InFlight, Unsettled, facts, scores
  <2>2. Stands(a, prev)
    BY <1>1, <2>1 DEF OpenJob, DisplayInv, Standing
  <2> QED
    BY <2>1, <2>2 DEF Stands
<1>2. ASSUME NEW p \in request, a = p.attempt, prev = p.prev
      PROVE  job'[a].status \notin Unsettled /\ Stands(a, prev)'
  <2>1. a \in Attempts
    BY <1>2 DEF TypeOK, RequestRow
  <2>2. job[a].status \notin Unsettled /\ Stands(a, prev)
    BY <1>2 DEF DisplayInv, Asked
  <2>3. ~Fresh(a)
    BY <1>2, <2>1 DEF VerdictInv, AskedForVerdict, FreshIsOpen
  <2>4. request = {p}
    BY <1>2 DEF DisplayInv, Alone
  <2>5. ~Commits(a)
    BY <2>1, <2>2, <2>3, CommitsOwn DEF Commits, OpenJob
  <2>6. ~Schedules(a)
    BY <2>3, <2>4 DEF Schedules
  <2>7. ~EndsBare(a)
    BY <2>3 DEF EndsBare
  <2>8. ShowMove(a)
    BY <2>1, ShowMoves DEF DisplayInv
  <2>9. SameOutbox(a) /\ (Rests(a) \/ Settles(a) \/ Fails(a) \/ Purges(a))
    BY <2>5, <2>6, <2>7, <2>8 DEF ShowMove
  <2>10. Stands(a, prev)'
    BY <2>2, <2>9, StandsSame
  <2>11. job'[a].status \notin Unsettled
    BY <2>2, <2>9 DEF Rests, Settles, Fails, Purges, Unsettled
  <2> QED
    BY <2>10, <2>11
<1> QED
  BY <1>1, <1>2, RequestMoves

\* A resumed execution that commits is still under way.
LEMMA NextResuming ==
  ASSUME TypeOK, TaskInv, NumberedRows, VerdictInv, DisplayInv, [Next]_vars
  PROVE  Resuming'
<1> SUFFICES ASSUME NEW a \in Attempts, NEW e \in Tasks, e = Execution(a),
                    <<e, "commit">> \in thread'
             PROVE  Fresh(a)'
  BY ScoresType DEF Resuming, Execution
<1>1. ThreadMove(e) /\ TaskMove(e)
  BY Moves
<1>2. CASE <<e, "commit">> \notin thread
  <2>1. /\ worker[e] \in {"checked", "resumed"} /\ e \notin cancelled /\ UNCHANGED attempt
    BY <1>1, <1>2 DEF ThreadMove, ThreadKind
  <2>2. Executes(a)
    BY <2>1 DEF TaskInv, ResumedOnce, Executes, At
  <2> QED
    BY <2>1, <2>2 DEF VerdictInv, Executing, Fresh
<1>3. CASE <<e, "commit">> \in thread
  <2>1. Fresh(a)
    BY <1>3 DEF DisplayInv, Resuming
  <2>2. RowMove(a)
    BY RowMoves DEF TaskInv, VerdictInv
  <2>3. attempt[a].exec \in OpenExecution /\ job[a].n = 0 /\ sweep.open[a] = {}
    BY <2>1 DEF VerdictInv, FreshIsOpen
  <2>4. worker[e] \in {"committing", "none"} /\ up # "down"
    BY <1>3 DEF TaskInv, CommitAwaited, DownIsEmpty
  <2>5. ~EndsExecution(a) /\ ~LosesExecution(a)
    BY <2>4 DEF EndsExecution, Executes, At, LosesExecution
  <2>6. ~AsksAgain(a)
    BY <2>3 DEF VerdictInv, AskedForVerdict, AsksAgain, RequestsFor
  <2>7. ASSUME NEW t \in Tasks, t[1] = a, CommitThread(t) PROVE FALSE
    <3>1. <<t, "commit">> \in thread /\ <<t, "commit">> \notin thread'
      BY <2>7 DEF CommitThread, EndThread
    <3>2. t[2] <= job[t[1]].n
      BY <3>1 DEF TaskInv, Numbered, ThreadKind
    <3>3. t = e
      BY <2>3, <2>7, <3>2 DEF Tasks, Execution
    <3> QED
      BY <3>1, <3>3
  <2>8. ~ClosesRow(a)
    BY <2>3, <2>7 DEF ClosesRow, DisplayInv, NoStop
  <2> QED
    BY <2>1, <2>2, <2>5, <2>6, <2>8 DEF RowMove, KeepsRow
<1> QED
  BY <1>2, <1>3

\* A coroutine learns of its claim and of its commit from the thread that did it.
LEMMA ThreadGate ==
  ASSUME TypeOK, [Next]_vars, NEW t \in Tasks
  PROVE  /\ worker[t] # "claimed" /\ worker'[t] = "claimed"
              => IsRowOf(t) /\ IsRowOf(t)' /\ job'[t[1]].status = "running"
         /\ worker[t] # "committed" /\ worker'[t] = "committed" => CommitThread(t)
<1> DEFINE Gate ==
      /\ worker[t] # "claimed" /\ worker'[t] = "claimed"
           => IsRowOf(t) /\ IsRowOf(t)' /\ job'[t[1]].status = "running"
      /\ worker[t] # "committed" /\ worker'[t] = "committed" => CommitThread(t)
<1> SUFFICES Gate
  OBVIOUS
<1>1. worker \in [Tasks -> WorkerState] /\ job \in [Attempts -> JobRow]
      /\ t[1] \in Attempts
  BY ScoresType DEF TypeOK
<1>2. ASSUME UNCHANGED worker PROVE Gate
  BY <1>2
<1>3. ASSUME NEW j \in Tasks, NEW to, worker' = [worker EXCEPT ![j] = to],
             to \notin {"claimed", "committed"}
      PROVE  Gate
  BY <1>1, <1>3
<1>4. ASSUME NEW j \in Tasks, WorkerStep(j) PROVE Gate
  <2>1. CASE Begin(j)
    BY <1>3, <2>1 DEF Begin, Goto
  <2>2. ASSUME NEW fault, Raise(j, fault) PROVE Gate
    BY <1>3, <2>2 DEF Raise, Goto
  <2>3. CASE JudgeReturns(j)
    BY <1>3, <2>3 DEF JudgeReturns, Goto
  <2> QED
    BY <1>3, <1>4, <2>1, <2>2, <2>3
       DEF WorkerStep, Acquire, StartJudge, StartFail, StartCommit, StartRecord, Mark,
           Finish, Goto
<1>5. ASSUME NEW j \in Tasks, ThreadStep(j) PROVE Gate
  <2>1. ASSUME NEW from, NEW to, Deliver(j, from, to), to \notin {"claimed", "committed"}
        PROVE  Gate
    BY <1>1, <2>1 DEF Deliver
  <2>2. ASSUME NEW from, Return(j, from) PROVE Gate
    BY <1>1, <2>2 DEF Return
  <2>3. CASE ClaimThread(j)
    <3>1. CASE /\ IsRowOf(j) /\ Deliver(j, "claiming", "claimed")
               /\ job' = [job EXCEPT ![j[1]].status = "running"]
      <4>1. j # t => worker'[t] = worker[t]
        BY <1>1, <3>1 DEF Deliver
      <4>2. worker[t] # "committed" => worker'[t] # "committed"
        BY <1>1, <3>1 DEF Deliver
      <4>3. j = t => IsRowOf(t)' /\ job'[t[1]].status = "running"
        BY <1>1, <3>1 DEF IsRowOf, JobRow
      <4> QED
        BY <3>1, <4>1, <4>2, <4>3
    <3> QED
      BY <2>2, <2>3, <3>1 DEF ClaimThread
  <2>4. CASE CommitThread(j)
    <3>1. Deliver(j, "committing", "committed")
      BY <2>4 DEF CommitThread
    <3>2. j # t => worker'[t] = worker[t]
      BY <1>1, <3>1 DEF Deliver
    <3>3. worker[t] # "claimed" => worker'[t] # "claimed"
      BY <1>1, <3>1 DEF Deliver
    <3> QED
      BY <2>4, <3>2, <3>3
  <2> QED
    BY <1>5, <2>1, <2>2, <2>3, <2>4 DEF ThreadStep, FailThread, RecordThread, NotifyThread
<1>6. ASSUME NEW j \in Tasks, HandleCancel(j) PROVE Gate
  BY <1>3, <1>6 DEF HandleCancel, Goto
<1>7. ASSUME NEW a \in Attempts, NEW verdict, NEW prev, NEW tasks,
             Enqueue(a, verdict, prev, tasks),
             tasks \in {worker, [worker EXCEPT ![Execution(a)] = "none"]}
      PROVE  Gate
  BY <1>1, <1>7 DEF Enqueue
<1>8. ASSUME NEW a \in Attempts,
             ExecutionStep(a) \/ ResumedNotifies(a) \/ DeadlinePasses(a)
      PROVE  Gate
  <2>1. Execution(a) \in Tasks
    BY ScoresType
  <2> QED
    BY <1>2, <1>3, <1>7, <1>8, <2>1
       DEF ExecutionStep, ExecutionEnds, ResumedFails, ResumedScores,
           ResumedNotifies, DeadlinePasses, Goto
<1>9. CASE Rejudge
  <2>1. ASSUME NEW q \in request, RejudgeEnqueue(q) PROVE Gate
    <3>1. q.attempt \in Attempts
      BY DEF TypeOK, RequestRow
    <3> QED
      BY <1>2, <1>7, <2>1, <3>1 DEF RejudgeEnqueue
  <2> QED
    BY <1>2, <1>9, <2>1 DEF Rejudge, RejudgeCheck, RejudgePurge
<1>10. CASE Restart
  <2>1. worker'[t] \in {worker[t], "none", "resumed", "waiting"}
    BY <1>10, ProcessMoves
  <2> QED
    BY <2>1
<1>11. CASE Crash
  BY <1>11 DEF Crash
<1>12. CASE \/ StopScoring \/ StopList \/ StopRead \/ StopConverge \/ SweepList
            \/ SweepRead \/ SweepConverge \/ Shutdown \/ Exit \/ UNCHANGED vars
  BY <1>2, <1>12 DEF StopScoring, StopList, StopRead, StopConverge, SweepList,
     SweepRead, SweepConverge,
     Shutdown, Exit, vars
<1> HIDE DEF Gate
<1> QED
  BY <1>4, <1>5, <1>6, <1>8, <1>9, <1>10, <1>11, <1>12 DEF Next

\* A task that is engaged keeps the row of its job, which stays open to be scored.
LEMMA StaysRow ==
  ASSUME TypeOK, TypeOK', TaskInv, NumberedRows, VerdictInv, DisplayInv, [Next]_vars,
         ~StopScoring, NEW t \in Jobs, IsRowOf(t), job[t[1]].status \in Unsettled,
         worker[t] = "claimed" \/ Engaged(t), worker'[t] = "claimed" \/ Engaged(t)'
  PROVE  IsRowOf(t)' /\ job'[t[1]].status \in Unsettled
<1> DEFINE a == t[1]
<1>1. a \in Attempts /\ t \in Tasks /\ t[2] # 0 /\ t = RowTask(a) /\ job[a].n = t[2]
  BY JobTask, RowTaskType DEF IsRowOf
<1>2. ShowMove(a)
  BY <1>1, ShowMoves DEF DisplayInv
<1>3. ~Purges(a) /\ ~Schedules(a) /\ ~EndsBare(a)
  <2>1. ~Purges(a)
    BY DEF Purges, DisplayInv, Asked
  <2>2. ~Fresh(a)
    BY <1>1 DEF VerdictInv, FreshIsOpen
  <2> QED
    BY <2>1, <2>2 DEF Schedules, EndsBare, Unsettled
<1>4. ThreadMove(t) /\ TaskMove(t)
  BY <1>1, Moves
<1>5. ~Settles(a)
  <2>1. CASE worker[t] = "claimed" /\ worker'[t] = "none"
    <3>1. <<t, "fail">> \in thread' \ thread \/ <<t, "commit">> \in thread' \ thread
            \/ <<t, "fail">> \in thread \/ <<t, "commit">> \in thread
      BY <2>1 DEF Engaged, AtWork
    <3>2. <<t, "fail">> \notin thread /\ <<t, "commit">> \notin thread
      BY <1>1, <2>1 DEF DisplayInv, Owning, TaskInv, CommitAwaited
    <3> QED
      BY <1>4, <2>1, <3>1, <3>2 DEF ThreadMove, ThreadKind
  <2>2. CASE worker[t] = "recorded"
    <3>1. <<t, "fail">> \notin thread /\ <<t, "commit">> \notin thread
      BY <1>1, <2>2 DEF DisplayInv, Owning, TaskInv, CommitAwaited
    <3> QED
      BY <2>2, <3>1 DEF Engaged, AtWork
  <2> QED
    BY <1>1, <2>1, <2>2 DEF Settles
<1>6. ~Fails(a)
  <2>1. CASE FailThread(t)
    <3>1. /\ <<t, "fail">> \in thread /\ thread' = thread \ {<<t, "fail">>}
          /\ worker'[t] \in {worker[t], "none"}
      BY <1>1, <2>1 DEF FailThread, EndThread, Return, TypeOK
    <3>2. worker[t] \in {"failing", "none"} /\ <<t, "commit">> \notin thread
      BY <3>1 DEF DisplayInv, Owning
    <3> QED
      BY <3>1, <3>2 DEF Engaged, AtWork
  <2>2. CASE worker[t] \in AtWork /\ worker'[t] = "none"
    <3>1. <<t, "fail">> \notin thread /\ <<t, "commit">> \notin thread
      BY <1>1, <2>2 DEF DisplayInv, Owning, TaskInv, CommitAwaited, AtWork
    <3>2. <<t, "fail">> \notin thread' /\ <<t, "commit">> \notin thread'
      BY <1>4, <2>2, <3>1 DEF ThreadMove, ThreadKind
    <3> QED
      BY <2>2, <3>2 DEF Engaged, AtWork
  <2> QED
    BY <1>1, <2>1, <2>2 DEF Fails
<1>7. CASE Rests(a)
  BY <1>1, <1>7 DEF Rests, SameJob, IsRowOf, Unsettled
<1>8. CASE Commits(a)
  BY <1>8 DEF Commits, IsRowOf
<1> QED
  BY <1>2, <1>3, <1>5, <1>6, <1>7, <1>8 DEF ShowMove

\* A job is open to be scored as long as its task may store a score or a failure.
LEMMA NextOwning ==
  ASSUME TypeOK, TypeOK', TaskInv, NumberedRows, VerdictInv, DisplayInv, [Next]_vars,
         ~StopScoring
  PROVE  Owning'
<1> SUFFICES ASSUME NEW t \in Jobs
             PROVE  /\ worker'[t] = "claimed" => IsRowOf(t)' /\ job'[t[1]].status \in Unsettled
                    /\ Engaged(t)' => IsRowOf(t)' /\ OpenJob(t[1])'
                    /\ <<t, "fail">> \in thread' => /\ worker'[t] \in {"failing", "none"}
                                                     /\ <<t, "commit">> \notin thread'
                    /\ worker'[t] \in {"committed", "recording", "recorded"}
                         => CommittedTo(t)'
                    /\ worker'[t] \notin {"dispatched", "resumed"}
  BY DEF Owning
<1>1. t \in Tasks /\ t[1] \in Attempts /\ t[2] # 0 /\ t = <<t[1], t[2]>>
  BY JobTask
<1>2. TaskMove(t) /\ ThreadMove(t)
  BY <1>1, Moves
<1>3. /\ worker[t] = "claimed" => IsRowOf(t) /\ job[t[1]].status \in Unsettled
      /\ Engaged(t) => IsRowOf(t) /\ OpenJob(t[1])
      /\ <<t, "fail">> \in thread => /\ worker[t] \in {"failing", "none"}
                                     /\ <<t, "commit">> \notin thread
      /\ worker[t] \in {"committed", "recording", "recorded"} => CommittedTo(t)
      /\ worker[t] \notin {"dispatched", "resumed"}
  BY DEF DisplayInv, Owning
<1>4. /\ <<t, "commit">> \in thread => worker[t] \in {"committing", "none"}
      /\ \A kind \in ThreadKind : <<t, kind>> \in thread => t[2] <= job[t[1]].n
      /\ up = "down" => thread = {}
  BY <1>1 DEF TaskInv, CommitAwaited, Numbered, DownIsEmpty
<1>5. <<t, "fail">> \in thread => t[2] # job[t[1]].n + 1 /\ up # "down"
  <2>1. job[t[1]].n \in Nat
    BY <1>1, NumbersGrow
  <2> QED
    BY <1>4, <2>1 DEF ThreadKind
<1>6. worker'[t] = "claimed" => IsRowOf(t)' /\ job'[t[1]].status \in Unsettled
  <2>1. CASE worker[t] = "claimed"
    BY <1>3, <2>1, StaysRow
  <2>2. CASE worker[t] # "claimed"
    BY <1>1, <2>2, ThreadGate DEF Unsettled
  <2> QED
    BY <2>1, <2>2
<1>7. ASSUME Engaged(t)' PROVE IsRowOf(t)' /\ OpenJob(t[1])'
  <2>1. Engaged(t) \/ (worker[t] = "claimed" /\ worker'[t] = "preparing")
    <3>1. CASE worker'[t] \in AtWork
      BY <1>2, <3>1 DEF TaskMove, Resumption, Engaged, AtWork
    <3>2. CASE <<t, "fail">> \in thread' \/ <<t, "commit">> \in thread'
      BY <1>2, <1>3, <3>2 DEF ThreadMove, ThreadKind, Engaged, AtWork
    <3> QED
      BY <1>7, <3>1, <3>2 DEF Engaged
  <2>2. IsRowOf(t) /\ job[t[1]].status \in Unsettled
    BY <1>3, <2>1 DEF OpenJob
  <2>3. IsRowOf(t)' /\ job'[t[1]].status \in Unsettled
    BY <1>7, <2>1, <2>2, StaysRow
  <2>4. ~CommittedTo(t)
    <3>1. CASE Engaged(t)
      <4>1. ~CommittedTo(<<t[1], job[t[1]].n>>)
        BY <1>3, <3>1 DEF OpenJob
      <4> QED
        BY <2>2, <4>1 DEF IsRowOf, CommittedTo
    <3>2. CASE worker[t] = "claimed" /\ worker'[t] = "preparing"
      BY <1>1, <3>2, JudgeGate DEF Committed, CommittedTo
    <3> QED
      BY <2>1, <3>1, <3>2
  <2>5. ~CommittedTo(t)'
    <3>1. CASE UNCHANGED outbox
      BY <2>4, <3>1 DEF CommittedTo
    <3>2. ASSUME NEW j \in Tasks, NEW rev, CommitThread(j),
                 outbox' = Append(outbox, [attempt |-> j[1], job |-> j[2], rev |-> rev])
          PROVE  ~CommittedTo(t)'
      <4>1. j # t
        <5>1. ASSUME CommitThread(t) PROVE FALSE
          <6>1. <<t, "commit">> \in thread /\ thread' = thread \ {<<t, "commit">>}
            BY <5>1 DEF CommitThread, EndThread
          <6>2. worker[t] \in {"committing", "none"} /\ <<t, "fail">> \notin thread
            BY <1>3, <1>4, <6>1
          <6>3. worker'[t] \in AtWork
            BY <1>7, <6>1, <6>2 DEF Engaged
          <6> QED
            BY <1>2, <6>2, <6>3 DEF TaskMove, Resumption, AtWork
        <5> QED
          BY <3>2, <5>1
      <4> QED
        BY <1>1, <2>4, <3>2, <4>1, AppendCommits
    <3> QED
      BY <3>1, <3>2, OutboxGrows
  <2>6. OpenJob(t[1])'
    BY <2>3, <2>5 DEF OpenJob, IsRowOf, CommittedTo
  <2> QED
    BY <2>3, <2>6
<1>8. ASSUME <<t, "fail">> \in thread'
      PROVE  worker'[t] \in {"failing", "none"} /\ <<t, "commit">> \notin thread'
  <2>1. CASE <<t, "fail">> \in thread
    <3>1. worker[t] \in {"failing", "none"} /\ <<t, "commit">> \notin thread
      BY <1>3, <2>1
    <3>2. <<t, "commit">> \notin thread'
      BY <1>2, <3>1 DEF ThreadMove, ThreadKind
    <3>3. worker'[t] \in {"failing", "none"}
      BY <1>1, <1>2, <1>5, <2>1, <3>1 DEF TaskMove, Resumption
    <3> QED
      BY <3>2, <3>3
  <2>2. CASE <<t, "fail">> \notin thread
    <3>1. worker[t] = "checked" /\ worker'[t] = "failing"
      BY <1>2, <1>8, <2>2 DEF ThreadMove, ThreadKind
    <3>2. <<t, "commit">> \notin thread
      BY <1>4, <3>1
    <3> QED
      BY <1>2, <3>1, <3>2 DEF ThreadMove, ThreadKind
  <2> QED
    BY <2>1, <2>2
<1>9. ASSUME worker'[t] \in {"committed", "recording", "recorded"}
      PROVE  CommittedTo(t)'
  <2>1. CASE worker[t] \in {"committed", "recording", "recorded"}
    BY <1>3, <2>1, CommittedStays
  <2>2. CASE worker[t] \notin {"committed", "recording", "recorded"}
    <3>1. worker'[t] = "committed"
      BY <1>2, <1>9, <2>2 DEF TaskMove, Resumption
    <3>2. CommitThread(t)
      BY <1>1, <2>2, <3>1, ThreadGate
    <3>3. CASE Committed(t)
      <4>1. CommittedTo(t)
        BY <3>3 DEF Committed, CommittedTo
      <4> QED
        BY <4>1, CommittedStays
    <3>4. ASSUME NEW rev,
                 outbox' = Append(outbox, [attempt |-> t[1], job |-> t[2], rev |-> rev])
          PROVE  CommittedTo(t)'
      BY <1>1, <3>4, AppendCommits
    <3> QED
      BY <3>2, <3>3, <3>4 DEF CommitThread
  <2> QED
    BY <2>1, <2>2
<1>10. worker'[t] \notin {"dispatched", "resumed"}
  BY <1>1, <1>2, <1>3 DEF TaskMove, Resumption
<1> QED
  BY <1>6, <1>7, <1>8, <1>9, <1>10

\* Only a stop counts as one.
LEMMA StopsKept ==
  ASSUME TypeOK, [Next]_vars
  PROVE  stops' = 0 => stops = 0 /\ ~StopScoring
<1>1. stops \in Nat
  <2>1. stops \in 0..MaxStops
    BY DEF TypeOK
  <2> QED
    BY <2>1, ScoringQueueAssumption DEF ScoringQueueAssumption
<1>2. ASSUME NEW j \in Tasks, WorkerStep(j) \/ ThreadStep(j) \/ HandleCancel(j)
      PROVE  UNCHANGED stops
  BY <1>2
     DEF WorkerStep, Acquire, Begin, StartJudge, JudgeReturns, StartFail,
         StartCommit, StartRecord, Mark, Finish, Raise, ThreadStep, ClaimThread,
         FailThread, CommitThread, RecordThread, NotifyThread, HandleCancel, clock
<1>3. ASSUME NEW a \in Attempts,
             ExecutionStep(a) \/ ResumedNotifies(a) \/ DeadlinePasses(a)
      PROVE  UNCHANGED stops
  BY <1>3 DEF ExecutionStep, ExecutionEnds, ResumedFails, ResumedScores,
     ResumedNotifies, DeadlinePasses, clock
<1>4. ASSUME \/ Rejudge \/ StopList \/ StopRead \/ StopConverge \/ SweepList
             \/ SweepRead \/ SweepConverge
             \/ Shutdown \/ Exit \/ Crash \/ Restart \/ UNCHANGED vars
      PROVE  UNCHANGED stops
  BY <1>4 DEF Rejudge, RejudgeCheck, RejudgePurge, RejudgeEnqueue, StopList,
     StopRead, StopConverge, SweepList, SweepRead, SweepConverge, Shutdown, Exit,
     Crash, Restart, vars, clock
<1>5. StopScoring => stops' # 0
  <2>1. StopScoring => stops' = stops + 1
    BY DEF StopScoring
  <2> QED
    BY <1>1, <2>1
<1> QED
  BY <1>2, <1>3, <1>4, <1>5 DEF Next

\* As long as nobody has asked for a stop and one caller asks for rejudges, an
\* attempt that counts as scored shows the score the leader ranks it with.
THEOREM DisplayIsRanked ==
  ASSUME \A q, r \in Requests : q = r
  PROVE  Spec => []DisplayAgreesWithLeader
<1> DEFINE Unstopped == stops = 0 => DisplayInv
<1>1. Init => Unstopped
  BY InitDisplay
<1>2. TypeOK /\ TypeOK' /\ TaskInv /\ NumberedRows /\ VerdictInv /\ Unstopped
        /\ [Next]_vars => Unstopped'
  <2> SUFFICES ASSUME TypeOK, TypeOK', TaskInv, NumberedRows, VerdictInv, [Next]_vars,
                      stops = 0 => DisplayInv, stops' = 0
               PROVE  DisplayInv'
    OBVIOUS
  <2>1. stops = 0 /\ ~StopScoring
    BY StopsKept
  <2>2. NoStop' /\ Standing' /\ Asked' /\ Owning' /\ Resuming'
    BY <2>1, NextNoStop, NextStanding, NextAsked, NextOwning, NextResuming
  <2>3. Alone' /\ Numbers'
    BY <2>1, NextAlone, NextNumbers DEF DisplayInv, TaskInv
  <2> QED
    BY <2>2, <2>3 DEF DisplayInv
<1>3. TypeOK /\ Unstopped => DisplayAgreesWithLeader
  <2> SUFFICES ASSUME TypeOK, DisplayInv, NEW a \in Attempts,
                      attempt[a].status \in Scored, Revisions(a) # {}
               PROVE  attempt[a].score = LatestJob(a)
    BY DEF DisplayAgreesWithLeader
  <2>1. Stands(a, attempt[a].score)
    BY DEF DisplayInv, Standing
  <2> QED
    BY <2>1, StandsIsLatest
<1> HIDE DEF Unstopped
<1> QED
  BY <1>1, <1>2, <1>3, VerdictInvariant, PTL DEF Spec
====
