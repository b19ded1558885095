---- MODULE ScoringQueueProofs ----
(* Theorems about ScoringQueue, for every value of its constants. *)
EXTENDS ScoringQueue, TLAPS

-----------------------------------------------------------------------------
(* What the shared operators return.                                       *)

\* The status an attempt gets when its scoring fails is a legacy status.
LEMMA ExecutionProjectionType ==
  ASSUME NEW exec
  PROVE  ExecutionProjection(exec) \in LegacyStatus
BY DEF ExecutionProjection, LegacyStatus

\* The projection of a run is a run status whatever the rows are.
LEMMA RunProjectionType ==
  ASSUME NEW rows
  PROVE  RunProjection(rows) \in RunStatusValue
BY DEF RunProjection, RunStatusValue

\* Numbers of jobs, 0 and NoScore are scores.
LEMMA ScoresType ==
  /\ NoScore \in Scores
  /\ \A n \in 0..MaxJobs : n \in Scores
  /\ \A j \in Tasks : j[1] \in Attempts /\ j[2] \in 0..MaxJobs
  /\ \A a \in Attempts : Execution(a) \in Tasks
BY ScoringQueueAssumption DEF Scores, NoScore, Tasks, Execution, ScoringQueueAssumption

\* An execution that ends without a score leaves a well-formed row.
LEMMA FinalizedType ==
  ASSUME NEW status \in EndWithoutScore \union {"interrupted"}
  PROVE  FinalizedNoScore(status) \in AttemptRow
<1>1. status \in LegacyStatus
  BY DEF EndWithoutScore, LegacyStatus
<1> QED
  BY <1>1, ScoresType
     DEF FinalizedNoScore, AttemptRow, ExecutionStatusValue, ScoringStatusValue

\* So does one that is handed to the queue.
LEMMA EnqueuedType ==
  ASSUME NEW verdict
  PROVE  EnqueuedRow(verdict) \in AttemptRow
BY ScoresType
   DEF EnqueuedRow, AdapterVerdict, AttemptRow, LegacyStatus,
       ExecutionStatusValue, ScoringStatusValue

\* Convergence keeps a row well-formed.
LEMMA ConvergedType ==
  ASSUME NEW row \in AttemptRow, NEW open, NEW to \in {UserStopped, ScoringOverdue}
  PROVE  Converged(row, open, to) \in AttemptRow
BY DEF Converged, UserStopped, ScoringOverdue, AttemptRow, LegacyStatus,
       ExecutionStatusValue, ScoringStatusValue

\* The failure path writes well-formed rows.
LEMMA FailedWithType ==
  ASSUME TypeOK, NEW j \in Tasks, NEW score \in Scores,
         NEW status \in {"cancelled", "scoring_failed", "timed_out", "failed"},
         FailedWith(j, status, score)
  PROVE  attempt' \in [Attempts -> AttemptRow] /\ job' \in [Attempts -> JobRow]
<1>1. status \in JobStatus /\ status \in ScoringStatusValue
  BY DEF JobStatus, ScoringStatusValue
<1>2. j[1] \in Attempts
  BY ScoresType
<1>3. CASE IsRowOf(j)
  <2> DEFINE a == j[1]
  <2>1. attempt[a] \in AttemptRow /\ job[a] \in JobRow
    BY <1>2 DEF TypeOK
  <2>2. [status  |-> IF status = "cancelled" THEN "cancelled"
                     ELSE ExecutionProjection(attempt[a].exec),
         exec    |-> attempt[a].exec, scoring |-> status, score |-> score]
          \in AttemptRow
    BY <2>1, <1>1, ExecutionProjectionType DEF AttemptRow, LegacyStatus
  <2>3. [job[a] EXCEPT !.status = status] \in JobRow
    BY <2>1, <1>1 DEF JobRow
  <2>4. job' \in [Attempts -> JobRow]
    <3>1. job' = [job EXCEPT ![a] = [job[a] EXCEPT !.status = status]]
      BY <1>2, <1>3 DEF FailedWith, TypeOK
    <3> QED
      BY <1>2, <2>3, <3>1 DEF TypeOK
  <2>5. attempt' \in [Attempts -> AttemptRow]
    BY <1>2, <1>3, <2>2 DEF FailedWith, TypeOK
  <2> QED
    BY <2>4, <2>5
<1>4. CASE ~IsRowOf(j)
  BY <1>4 DEF FailedWith, TypeOK
<1> QED
  BY <1>3, <1>4

\* Where a stop or the sweeper can stand in converge_attempts.
Convergence == [phase : {"idle", "scoring", "listed", "read"},
                ids : SUBSET Attempts, open : [Attempts -> SUBSET Axes]]

LEMMA ReadingType ==
  /\ Idle \in Convergence
  /\ \A ids : Reading(ids) \in Convergence
<1>1. NothingRead \in [Attempts -> SUBSET Axes]
  BY DEF NothingRead
<1>2. Idle \in Convergence
  BY <1>1 DEF Idle, Convergence
<1>3. ASSUME NEW ids
      PROVE  [a \in Attempts |-> IF a \in ids THEN OpenAxes(Row(a)) ELSE {}]
               \in [Attempts -> SUBSET Axes]
  BY DEF OpenAxes
<1> QED
  BY <1>2, <1>3 DEF Reading, Convergence

-----------------------------------------------------------------------------
(* Revisions.                                                              *)

\* The revisions of an attempt have no gap between the end of its judge
\* history and `top`, and none lies above it.
DenseUpTo(a, top) ==
  /\ judged[a] <= top /\ top <= judged[a] + Len(outbox)
  /\ Revisions(a) \subseteq 1..top
  /\ (judged[a] + 1) .. top \subseteq Revisions(a)

\* They have a greatest element unless there are none.
HasGreatest(a) ==
  \/ Revisions(a) = {}
  \/ \E m \in Revisions(a) : \A n \in Revisions(a) : n <= m

RevisionInv ==
  \A a \in Attempts : HasGreatest(a) /\ \E top \in Nat : DenseUpTo(a, top)

\* _next_score_revision returns the number after the last revision.
LEMMA NextRevisionValue ==
  ASSUME TypeOK, NEW a \in Attempts, NEW top \in Nat, DenseUpTo(a, top)
  PROVE  NextRevision(a) = top + 1
<1> DEFINE base == judged[a] + 1
           P(n) == n \notin Revisions(a) /\ base .. n - 1 \subseteq Revisions(a)
           next == CHOOSE n \in base .. base + Len(outbox) : P(n)
<1>1. judged[a] \in Nat /\ Len(outbox) \in Nat
  BY DEF TypeOK
<1>2. top + 1 \in base .. base + Len(outbox)
  BY <1>1 DEF DenseUpTo
<1>3. P(top + 1)
  BY <1>1 DEF DenseUpTo
<1>4. next \in base .. base + Len(outbox) /\ P(next)
  BY <1>2, <1>3
<1>5. next \in Nat
  BY <1>1, <1>4
<1>6. ~(next <= top)
  <2> SUFFICES ASSUME next <= top PROVE FALSE
    OBVIOUS
  <2>1. next \in (judged[a] + 1) .. top
    BY <1>1, <1>4, <1>5
  <2> QED
    BY <2>1, <1>4 DEF DenseUpTo
<1>7. ~(next > top + 1)
  <2> SUFFICES ASSUME next > top + 1 PROVE FALSE
    OBVIOUS
  <2>1. top + 1 \in base .. next - 1
    BY <1>1, <1>2, <1>5
  <2>2. top + 1 \in Revisions(a)
    BY <2>1, <1>4
  <2> QED
    BY <2>2 DEF DenseUpTo
<1>8. next = top + 1
  BY <1>5, <1>6, <1>7
<1> HIDE DEF next, P, base
<1> QED
  BY <1>8 DEF NextRevision, next, P, base

\* Appending an outbox row adds its revision to those of its attempt.
LEMMA RevisionsAppend ==
  ASSUME TypeOK, NEW row \in OutboxRow, outbox' = Append(outbox, row),
         NEW a \in Attempts
  PROVE  Revisions(a)' = IF row.attempt = a THEN Revisions(a) \union {row.rev}
                         ELSE Revisions(a)
<1>1. outbox \in Seq(OutboxRow) /\ Len(outbox) \in Nat
  BY DEF TypeOK
<1>2. /\ DOMAIN outbox' = DOMAIN outbox \union {Len(outbox) + 1}
      /\ outbox'[Len(outbox) + 1] = row
      /\ \A i \in DOMAIN outbox : outbox'[i] = outbox[i]
      /\ Len(outbox) + 1 \notin DOMAIN outbox
  BY <1>1
<1> QED
  BY <1>2 DEF Revisions

\* The revision record_judge_run gives its row is the last revision, or the
\* one after it if the judge history has caught up with the outbox.
LEMMA JudgeRevisionValue ==
  ASSUME TypeOK, NEW a \in Attempts, HasGreatest(a),
         NEW top \in Nat, DenseUpTo(a, top)
  PROVE  JudgeRevision(a) = IF judged[a] < top THEN top ELSE judged[a] + 1
<1> DEFINE IsGreatest(n) == \A m \in Revisions(a) : m <= n
           greatest == CHOOSE n \in Revisions(a) : IsGreatest(n)
           last == IF Revisions(a) = {} THEN 0 ELSE greatest
<1>1. judged[a] \in Nat
  BY DEF TypeOK
<1>4. JudgeRevision(a) = IF last > judged[a] THEN last ELSE judged[a] + 1
  BY DEF JudgeRevision
<1>2. CASE judged[a] < top
  <2>1. top \in Revisions(a) /\ IsGreatest(top)
    BY <1>1, <1>2 DEF DenseUpTo
  <2>2. greatest \in Revisions(a) /\ IsGreatest(greatest)
    BY <2>1
  <2>3. greatest \in Nat /\ greatest <= top /\ top <= greatest
    BY <2>1, <2>2 DEF DenseUpTo
  <2>4. last = top
    BY <2>1, <2>3
  <2> HIDE DEF last
  <2> QED
    BY <1>1, <1>2, <1>4, <2>4
<1>3. CASE ~(judged[a] < top)
  <2>1. judged[a] = top
    BY <1>1, <1>3 DEF DenseUpTo
  <2>2. Revisions(a) # {} => greatest \in Revisions(a)
    BY DEF HasGreatest
  <2>3. last \in Nat /\ ~(last > judged[a])
    BY <1>1, <2>1, <2>2 DEF DenseUpTo
  <2> HIDE DEF last
  <2> QED
    BY <1>1, <1>3, <1>4, <2>3
<1> QED
  BY <1>2, <1>3

-----------------------------------------------------------------------------
(* Type correctness and the numbering of revisions.                        *)

LEMMA InitTypes == Init => TypeOK /\ RevisionInv
<1> SUFFICES ASSUME Init PROVE TypeOK /\ RevisionInv
  OBVIOUS
<1>1. TypeOK
  <2>1. attempt \in [Attempts -> AttemptRow]
    BY ScoresType
       DEF Init, AttemptRow, LegacyStatus, ExecutionStatusValue, ScoringStatusValue
  <2>2. job \in [Attempts -> JobRow]
    BY ScoresType, ScoringQueueAssumption
       DEF Init, JobRow, JobStatus, ScoringQueueAssumption
  <2>3. worker \in [Tasks -> WorkerState]
    BY DEF Init, WorkerState
  <2>4. outbox \in Seq(OutboxRow) /\ consumed \in 0..Len(outbox)
    BY DEF Init
  <2>5. stops \in 0..MaxStops /\ restarts \in 0..MaxRestarts
    BY ScoringQueueAssumption DEF Init, ScoringQueueAssumption
  <2> QED
    BY <2>1, <2>2, <2>3, <2>4, <2>5, ReadingType
       DEF Init, TypeOK, RunStatusValue, Convergence
<1>2. \A a \in Attempts : Revisions(a) = {}
  BY DEF Init, Revisions
<1>3. \A a \in Attempts : DenseUpTo(a, 0)
  BY <1>2 DEF Init, DenseUpTo
<1> QED
  BY <1>1, <1>2, <1>3 DEF RevisionInv, HasGreatest

\* The moves of a task and of its threads are well-typed.
LEMMA MoveTypes ==
  ASSUME TypeOK, NEW j \in Tasks, NEW to \in WorkerState, NEW from,
         NEW kind \in ThreadKind
  PROVE  /\ Goto(j, to) => worker' \in [Tasks -> WorkerState]
         /\ Deliver(j, from, to) => worker' \in [Tasks -> WorkerState]
         /\ Return(j, from) => worker' \in [Tasks -> WorkerState]
         /\ StartThread(j, kind) => thread' \subseteq Tasks \X ThreadKind
         /\ EndThread(j, kind) => thread' \subseteq Tasks \X ThreadKind
<1>1. worker \in [Tasks -> WorkerState] /\ thread \subseteq Tasks \X ThreadKind
  BY DEF TypeOK
<1>2. "none" \in WorkerState
  BY DEF WorkerState
<1>3. /\ Goto(j, to) => worker' \in [Tasks -> WorkerState]
      /\ Deliver(j, from, to) => worker' \in [Tasks -> WorkerState]
      /\ Return(j, from) => worker' \in [Tasks -> WorkerState]
  BY <1>1, <1>2 DEF Goto, Deliver, Return
<1> QED
  BY <1>1, <1>3 DEF StartThread, EndThread

\* _finish_failure writes well-formed rows.
LEMMA FinishFailureTypes ==
  ASSUME TypeOK, NEW j \in Tasks,
         NEW status \in {"cancelled", "scoring_failed", "timed_out", "failed"},
         FinishFailure(j, status)
  PROVE  attempt' \in [Attempts -> AttemptRow] /\ job' \in [Attempts -> JobRow]
<1>1. job[j[1]].prev \in Scores
  BY ScoresType DEF TypeOK, JobRow
<1>2. FailedWith(j, status, job[j[1]].prev)
  BY DEF FinishFailure
<1> QED
  BY <1>1, <1>2, FailedWithType

\* enqueue_scoring_job writes well-formed rows and schedules a task.
LEMMA EnqueueTypes ==
  ASSUME TypeOK, NEW a \in Attempts, NEW verdict, NEW prev \in Scores,
         NEW tasks \in [Tasks -> WorkerState], Enqueue(a, verdict, prev, tasks)
  PROVE  /\ attempt' \in [Attempts -> AttemptRow]
         /\ job' \in [Attempts -> JobRow]
         /\ worker' \in [Tasks -> WorkerState]
<1>1. job[a] \in JobRow /\ job[a].n + 1 \in 0..MaxJobs
  BY ScoringQueueAssumption DEF TypeOK, JobRow, Enqueue, ScoringQueueAssumption
<1>2. [n |-> job[a].n + 1, status |-> "queued", cancelRequested |-> FALSE,
       prev |-> prev] \in JobRow
  BY <1>1 DEF JobRow, JobStatus
<1>3. job' \in [Attempts -> JobRow]
  BY <1>2 DEF Enqueue, NewJob, TypeOK
<1>4. attempt' \in [Attempts -> AttemptRow]
  BY EnqueuedType DEF Enqueue, TypeOK
<1>5. worker' \in [Tasks -> WorkerState]
  BY DEF Enqueue, WorkerState
<1> QED
  BY <1>3, <1>4, <1>5

\* The steps of an execution keep the types.
LEMMA ExecutionTypes ==
  ASSUME TypeOK, NEW a \in Attempts, ExecutionStep(a) \/ ResumedNotifies(a)
  PROVE  TypeOK'
<1>1. /\ Execution(a) \in Tasks
      /\ {"none", "committing", "notifying"} \subseteq WorkerState
      /\ {"commit", "notify"} \subseteq ThreadKind
  BY ScoresType DEF WorkerState, InSlot, ThreadKind
<1>2. ASSUME NEW status \in Ends,
             attempt' = [attempt EXCEPT ![a] = FinalizedNoScore(status)]
      PROVE  attempt' \in [Attempts -> AttemptRow]
  BY <1>2, FinalizedType, ScoringQueueAssumption DEF ScoringQueueAssumption, TypeOK
<1>3. CASE ExecutionEnds(a)
  <2>1. run' \in RunStatusValue
    BY <1>3, RunProjectionType DEF ExecutionEnds, Refresh
  <2>2. CASE \E verdict \in Verdicts :
               Enqueue(a, verdict, NoScore, [worker EXCEPT ![Execution(a)] = "none"])
    <3>1. [worker EXCEPT ![Execution(a)] = "none"] \in [Tasks -> WorkerState]
      BY <1>1 DEF TypeOK
    <3>2. /\ attempt' \in [Attempts -> AttemptRow]
          /\ job' \in [Attempts -> JobRow]
          /\ worker' \in [Tasks -> WorkerState]
      BY <2>2, <3>1, ScoresType, EnqueueTypes
    <3> QED
      BY <1>3, <2>1, <3>2 DEF TypeOK, ExecutionEnds, scores, control, clock
  <2>3. CASE /\ \E status \in Ends :
                  attempt' = [attempt EXCEPT ![a] = FinalizedNoScore(status)]
             /\ Goto(Execution(a), "none")
             /\ UNCHANGED job
    <3>1. worker' \in [Tasks -> WorkerState]
      BY <1>1, <2>3, MoveTypes
    <3> QED
      BY <1>2, <1>3, <2>1, <2>3, <3>1 DEF TypeOK, ExecutionEnds, scores, control, clock
  <2> QED
    BY <1>3, <2>2, <2>3 DEF ExecutionEnds
<1>4. CASE ResumedFails(a)
  <2>1. run' \in RunStatusValue
    BY <1>4, RunProjectionType DEF ResumedFails, Refresh
  <2>2. worker' \in [Tasks -> WorkerState]
    BY <1>1, <1>4, MoveTypes DEF ResumedFails
  <2> QED
    BY <1>2, <1>4, <2>1, <2>2 DEF TypeOK, ResumedFails, scores, control, clock
<1>5. CASE ResumedScores(a)
  <2>1. worker' \in [Tasks -> WorkerState] /\ thread' \subseteq Tasks \X ThreadKind
    BY <1>1, <1>5, MoveTypes DEF ResumedScores
  <2> QED
    BY <1>5, <2>1 DEF TypeOK, ResumedScores, facts, scores, control, clock
<1>6. CASE ResumedNotifies(a)
  <2>1. worker' \in [Tasks -> WorkerState] /\ thread' \subseteq Tasks \X ThreadKind
    BY <1>1, <1>6, MoveTypes DEF ResumedNotifies
  <2> QED
    BY <1>6, <2>1 DEF TypeOK, ResumedNotifies, facts, scores, control, clock
<1> QED
  BY <1>3, <1>4, <1>5, <1>6 DEF ExecutionStep

\* The steps of a scoring task keep the types.
LEMMA WorkerTypes ==
  ASSUME TypeOK, NEW j \in Tasks, WorkerStep(j)
  PROVE  TypeOK'
<1> DEFINE Moves == /\ worker' \in [Tasks -> WorkerState]
                    /\ thread' \subseteq Tasks \X ThreadKind
           Rows == /\ attempt' \in [Attempts -> AttemptRow]
                   /\ job' \in [Attempts -> JobRow]
<1>1. /\ {"none", "claiming", "preparing", "judging", "checked", "failing",
          "committing", "recording", "notifying"} \subseteq WorkerState
      /\ {"claim", "fail", "commit", "record", "notify"} \subseteq ThreadKind
  BY DEF WorkerState, InSlot, ThreadKind
<1>2. j[1] \in Attempts /\ attempt[j[1]] \in AttemptRow /\ job[j[1]] \in JobRow
  BY ScoresType DEF TypeOK
<1>3. [job EXCEPT ![j[1]].status = "completed"] \in [Attempts -> JobRow]
  BY <1>2 DEF TypeOK, JobRow, JobStatus
<1>4. CASE Acquire(j)
  <2>1. Moves
    BY <1>1, <1>4, MoveTypes DEF Acquire
  <2> QED
    BY <1>4, <2>1 DEF TypeOK, Acquire, facts, scores, control, clock
<1>5. CASE Begin(j)
  <2>1. worker' \in [Tasks -> WorkerState]
    BY <1>1, <1>5, MoveTypes DEF Begin
  <2>2. CASE JobCancelled(j)
    <3>1. Rows
      BY <1>5, <2>2, FinishFailureTypes DEF Begin
    <3> QED
      BY <1>5, <2>1, <2>2, <3>1 DEF TypeOK, Begin, facts, scores, control, clock
  <2>3. CASE ~JobCancelled(j) /\ Committed(j)
    <3>1. /\ job' = [job EXCEPT ![j[1]].status = "completed"]
          /\ UNCHANGED attempt /\ Refresh
      BY <1>5, <2>3 DEF Begin
    <3>2. run' \in RunStatusValue
      BY <3>1, RunProjectionType DEF Refresh
    <3>3. Rows
      BY <1>3, <3>1 DEF TypeOK
    <3> QED
      BY <1>5, <2>1, <2>3, <3>2, <3>3 DEF TypeOK, Begin, facts, scores, control, clock
  <2>4. CASE ~JobCancelled(j) /\ ~Committed(j)
    BY <1>5, <2>1, <2>4 DEF TypeOK, Begin, facts, scores, control, clock
  <2> QED
    BY <2>2, <2>3, <2>4
<1>6. CASE StartJudge(j)
  <2>1. worker' \in [Tasks -> WorkerState]
    BY <1>1, <1>6, MoveTypes DEF StartJudge
  <2> QED
    BY <1>6, <2>1 DEF TypeOK, StartJudge, facts, scores, control, clock
<1>7. CASE JudgeReturns(j)
  <2>1. worker' \in [Tasks -> WorkerState]
    BY <1>1, <1>7, MoveTypes DEF JudgeReturns
  <2>2. Rows
    BY <1>7, FinishFailureTypes DEF TypeOK, JudgeReturns
  <2> QED
    BY <1>7, <2>1, <2>2 DEF TypeOK, JudgeReturns, facts, scores, control, clock
<1>8. CASE StartFail(j)
  <2>1. Moves
    BY <1>1, <1>8, MoveTypes DEF StartFail
  <2> QED
    BY <1>8, <2>1 DEF TypeOK, StartFail, facts, scores, control, clock
<1>9. CASE StartCommit(j)
  <2>1. Moves
    BY <1>1, <1>9, MoveTypes DEF StartCommit
  <2> QED
    BY <1>9, <2>1 DEF TypeOK, StartCommit, facts, scores, control, clock
<1>10. CASE StartRecord(j)
  <2>1. Moves
    BY <1>1, <1>10, MoveTypes DEF StartRecord
  <2> QED
    BY <1>10, <2>1 DEF TypeOK, StartRecord, facts, scores, control, clock
<1>11. CASE Mark(j)
  <2>1. Moves
    BY <1>1, <1>11, MoveTypes DEF Mark
  <2>2. Rows
    BY <1>2, <1>3, <1>11 DEF TypeOK, Mark, AttemptRow, ScoringStatusValue
  <2> QED
    BY <1>11, <2>1, <2>2 DEF TypeOK, Mark, facts, scores, control, clock
<1>12. CASE Finish(j)
  <2>1. worker' \in [Tasks -> WorkerState] /\ run' \in RunStatusValue
    BY <1>1, <1>12, MoveTypes, RunProjectionType DEF Finish
  <2> QED
    BY <1>12, <2>1 DEF TypeOK, Finish, facts, scores, control, clock
<1>13. ASSUME NEW fault \in Faults \union {"deadline"}, Raise(j, fault)
       PROVE  TypeOK'
  <2>1. worker' \in [Tasks -> WorkerState]
    BY <1>1, <1>13, MoveTypes DEF Raise
  <2>2. CASE Uncaught(fault)
    BY <1>13, <2>1, <2>2 DEF TypeOK, Raise, facts, scores, control, clock
  <2>3. CASE ~Uncaught(fault)
    <3>1. FaultStatus(fault) \in {"timed_out", "scoring_failed", "failed"}
      BY DEF FaultStatus
    <3>2. Rows /\ run' \in RunStatusValue
      BY <1>13, <2>3, <3>1, FinishFailureTypes, RunProjectionType DEF Raise, Refresh
    <3> QED
      BY <1>13, <2>1, <3>2 DEF TypeOK, Raise, facts, scores, control, clock
  <2> QED
    BY <2>2, <2>3
<1> QED
  BY <1>4, <1>5, <1>6, <1>7, <1>8, <1>9, <1>10, <1>11, <1>12, <1>13 DEF WorkerStep

\* The transactions of the worker threads keep the types; a committed row gets
\* a revision because the revisions of the attempt have no gap.
LEMMA ThreadTypes ==
  ASSUME TypeOK, RevisionInv, NEW j \in Tasks, ThreadStep(j)
  PROVE  TypeOK'
<1>1. /\ {"none", "claimed", "committed", "recorded", "notified"}
            \subseteq WorkerState
      /\ {"claim", "fail", "commit", "record", "notify"} \subseteq ThreadKind
  BY DEF WorkerState, InSlot, ThreadKind
<1>2. /\ j[1] \in Attempts /\ j[2] \in 0..MaxJobs /\ j[2] \in Scores
      /\ attempt[j[1]] \in AttemptRow /\ job[j[1]] \in JobRow
      /\ Len(outbox) \in Nat
  BY ScoresType DEF TypeOK
<1>3. CASE ClaimThread(j)
  <2>1. worker' \in [Tasks -> WorkerState] /\ thread' \subseteq Tasks \X ThreadKind
    BY <1>1, <1>3, MoveTypes DEF ClaimThread
  <2>2. [job EXCEPT ![j[1]].status = "running"] \in [Attempts -> JobRow]
    BY <1>2 DEF TypeOK, JobRow, JobStatus
  <2>3. [attempt EXCEPT ![j[1]].status = "scoring", ![j[1]].scoring = "running"]
           \in [Attempts -> AttemptRow]
    BY <1>2 DEF TypeOK, AttemptRow, LegacyStatus, ScoringStatusValue
  <2>4. /\ attempt' \in [Attempts -> AttemptRow]
        /\ job' \in [Attempts -> JobRow]
        /\ overdue' \subseteq Attempts
    BY <1>3, <2>2, <2>3 DEF ClaimThread, TypeOK
  <2> QED
    BY <1>3, <2>1, <2>4 DEF TypeOK, ClaimThread, scores, control
<1>4. CASE FailThread(j)
  <2>1. worker' \in [Tasks -> WorkerState] /\ thread' \subseteq Tasks \X ThreadKind
    BY <1>1, <1>4, MoveTypes DEF FailThread
  <2>2. attempt' \in [Attempts -> AttemptRow] /\ job' \in [Attempts -> JobRow]
    BY <1>4, FinishFailureTypes DEF FailThread
  <2> QED
    BY <1>4, <2>1, <2>2 DEF TypeOK, FailThread, scores, control, clock
<1>5. CASE CommitThread(j)
  <2>1. worker' \in [Tasks -> WorkerState] /\ thread' \subseteq Tasks \X ThreadKind
    BY <1>1, <1>5, MoveTypes DEF CommitThread
  <2>2. CASE Committed(j)
    BY <1>5, <2>1, <2>2 DEF TypeOK, CommitThread, control, clock
  <2>3. CASE ~Committed(j)
    <3> DEFINE row == [attempt |-> j[1], job |-> j[2], rev |-> NextRevision(j[1])]
    <3>1. NextRevision(j[1]) \in Nat
      BY <1>2, NextRevisionValue DEF RevisionInv
    <3>2. row \in OutboxRow
      BY <1>2, <3>1 DEF OutboxRow
    <3>3. outbox' = Append(outbox, row)
      BY <1>5, <2>3 DEF CommitThread
    <3> HIDE DEF row
    <3>4. outbox' \in Seq(OutboxRow) /\ Len(outbox') = Len(outbox) + 1
      BY <3>2, <3>3 DEF TypeOK
    <3>5. consumed' \in 0..Len(outbox')
      BY <1>2, <1>5, <3>4 DEF TypeOK, CommitThread
    <3>6. PICK final \in Scored :
            attempt' = [attempt EXCEPT ![j[1]] =
              [status  |-> final,
               exec    |-> IF @.exec \in OpenExecution THEN "completed" ELSE @.exec,
               scoring |-> "completed",
               score   |-> j[2]]]
      BY <1>5, <2>3 DEF CommitThread
    <3>7. [status  |-> final,
           exec    |-> IF attempt[j[1]].exec \in OpenExecution THEN "completed"
                       ELSE attempt[j[1]].exec,
           scoring |-> "completed",
           score   |-> j[2]] \in AttemptRow
      BY <1>2 DEF AttemptRow, Scored, LegacyStatus, ScoringStatusValue,
                  ExecutionStatusValue
    <3>8. attempt' \in [Attempts -> AttemptRow]
      BY <3>6, <3>7 DEF TypeOK
    <3> QED
      BY <1>5, <2>1, <3>4, <3>5, <3>8 DEF TypeOK, CommitThread, control, clock
  <2> QED
    BY <2>2, <2>3
<1>6. CASE RecordThread(j)
  <2>1. worker' \in [Tasks -> WorkerState] /\ thread' \subseteq Tasks \X ThreadKind
    BY <1>1, <1>6, MoveTypes DEF RecordThread
  <2>2. judged[j[1]] \in Nat
    BY <1>2 DEF TypeOK
  <2>3. JudgeRevision(j[1]) \in Nat
    <3>1. PICK top \in Nat : DenseUpTo(j[1], top)
      BY <1>2 DEF RevisionInv
    <3>2. HasGreatest(j[1])
      BY <1>2 DEF RevisionInv
    <3>3. JudgeRevision(j[1]) = IF judged[j[1]] < top THEN top ELSE judged[j[1]] + 1
      BY <1>2, <3>1, <3>2, JudgeRevisionValue
    <3> QED
      BY <2>2, <3>3
  <2>4. judged' \in [Attempts -> Nat]
    BY <1>6, <2>3 DEF TypeOK, RecordThread
  <2> QED
    BY <1>6, <2>1, <2>4 DEF TypeOK, RecordThread, facts, control, clock
<1>7. CASE NotifyThread(j)
  <2>1. worker' \in [Tasks -> WorkerState] /\ thread' \subseteq Tasks \X ThreadKind
    BY <1>1, <1>7, MoveTypes DEF NotifyThread
  <2>2. consumed' \in 0..Len(outbox)
    BY <1>2, <1>7 DEF TypeOK, NotifyThread, ConsumedWith
  <2> QED
    BY <1>7, <2>1, <2>2 DEF TypeOK, NotifyThread, facts, control, clock
<1> QED
  BY <1>3, <1>4, <1>5, <1>6, <1>7 DEF ThreadStep

\* The handler of CancelledError keeps the types.
LEMMA CancelTypes ==
  ASSUME TypeOK, NEW j \in Tasks, HandleCancel(j)
  PROVE  TypeOK'
<1>1. j[1] \in Attempts /\ attempt[j[1]] \in AttemptRow /\ job[j[1]] \in JobRow
  BY ScoresType DEF TypeOK
<1>2. worker' \in [Tasks -> WorkerState] /\ cancelled' \subseteq Tasks
  <2>1. "none" \in WorkerState /\ Goto(j, "none") /\ "claim" \in ThreadKind
    BY DEF HandleCancel, WorkerState, ThreadKind
  <2> QED
    BY <2>1, MoveTypes DEF HandleCancel, TypeOK
<1>3. attempt' \in [Attempts -> AttemptRow] /\ job' \in [Attempts -> JobRow]
  <2>1. [job EXCEPT ![j[1]].status = "queued"] \in [Attempts -> JobRow]
    BY <1>1 DEF TypeOK, JobRow, JobStatus
  <2>2. [attempt EXCEPT ![j[1]].scoring = "queued"] \in [Attempts -> AttemptRow]
    BY <1>1 DEF TypeOK, AttemptRow, ScoringStatusValue
  <2>3. FinishFailure(j, "cancelled") =>
          attempt' \in [Attempts -> AttemptRow] /\ job' \in [Attempts -> JobRow]
    BY FinishFailureTypes
  <2> QED
    BY <2>1, <2>2, <2>3 DEF HandleCancel, TypeOK
<1> QED
  BY <1>2, <1>3 DEF TypeOK, HandleCancel, scores, control, clock

\* The steps of a rejudge keep the types.
LEMMA RejudgeTypes ==
  ASSUME TypeOK, Rejudge
  PROVE  TypeOK'
<1>1. ASSUME NEW r \in Requests, NEW a \in Attempts, RejudgeCheck(r, a)
      PROVE  TypeOK'
  <2>1. [id |-> r, attempt |-> a, purged |-> FALSE, exec |-> attempt[a].exec,
         prev |-> attempt[a].score] \in RequestRow
    BY <1>1 DEF TypeOK, AttemptRow, RequestRow, RejudgeCheck, Row
  <2>2. request' \subseteq RequestRow
    BY <1>1, <2>1 DEF TypeOK, RejudgeCheck, Row
  <2> QED
    BY <1>1, <2>2 DEF TypeOK, RejudgeCheck, facts, scores, clock
<1>2. ASSUME NEW q \in request, RejudgePurge(q)
      PROVE  TypeOK'
  <2>1. q \in RequestRow /\ q.attempt \in Attempts /\ job[q.attempt] \in JobRow
    BY DEF TypeOK, RequestRow
  <2>2. [q EXCEPT !.purged = TRUE] \in RequestRow
    BY <2>1 DEF RequestRow
  <2>3. request' \subseteq RequestRow
    BY <1>2, <2>2 DEF TypeOK, RejudgePurge
  <2>4. [job[q.attempt] EXCEPT !.status = "absent", !.cancelRequested = FALSE,
                               !.prev = NoScore] \in JobRow
    BY <2>1, ScoresType DEF JobRow, JobStatus
  <2>5. job' \in [Attempts -> JobRow]
    BY <1>2, <2>1, <2>4 DEF TypeOK, RejudgePurge
  <2> QED
    BY <1>2, <2>3, <2>5 DEF TypeOK, RejudgePurge, scores, clock
<1>3. ASSUME NEW q \in request, RejudgeEnqueue(q)
      PROVE  TypeOK'
  <2>1. /\ q \in RequestRow /\ q.attempt \in Attempts /\ q.prev \in Scores
        /\ worker \in [Tasks -> WorkerState]
    BY DEF TypeOK, RequestRow
  <2>2. request' \subseteq RequestRow
    BY <1>3 DEF TypeOK, RejudgeEnqueue
  <2>3. CASE job[q.attempt].status = "absent"
    <3>1. /\ Enqueue(q.attempt, q.exec, q.prev, worker)
          /\ Refresh
      BY <1>3, <2>3 DEF RejudgeEnqueue
    <3>2. /\ attempt' \in [Attempts -> AttemptRow]
          /\ job' \in [Attempts -> JobRow]
          /\ worker' \in [Tasks -> WorkerState]
      BY <2>1, <3>1, EnqueueTypes
    <3>3. run' \in RunStatusValue
      BY <3>1, RunProjectionType DEF Refresh
    <3> QED
      BY <1>3, <2>2, <3>2, <3>3 DEF TypeOK, RejudgeEnqueue, scores, clock
  <2>4. CASE job[q.attempt].status # "absent"
    BY <1>3, <2>2, <2>4 DEF TypeOK, RejudgeEnqueue, facts, scores, clock
  <2> QED
    BY <2>3, <2>4
<1> QED
  BY <1>1, <1>2, <1>3 DEF Rejudge

\* Convergence, for the stop and for the sweeper, keeps the rows well-formed.
LEMMA ConvergeAllTypes ==
  ASSUME TypeOK, NEW open, NEW to \in {UserStopped, ScoringOverdue},
         ConvergeAll(open, to)
  PROVE  attempt' \in [Attempts -> AttemptRow] /\ run' \in RunStatusValue
<1>1. attempt' = [a \in Attempts |-> Converged(attempt[a], open[a], to)]
  BY DEF ConvergeAll, Row
<1>2. \A a \in Attempts : attempt[a] \in AttemptRow
  BY DEF TypeOK
<1>3. \A a \in Attempts : Converged(attempt[a], open[a], to) \in AttemptRow
  BY <1>2, ConvergedType
<1>4. Refresh
  BY DEF ConvergeAll
<1>5. run' \in RunStatusValue
  BY <1>4, RunProjectionType DEF Refresh, TypeOK
<1> QED
  BY <1>1, <1>2, <1>3, <1>5

\* The steps of a stop keep the types.
LEMMA StopTypes ==
  ASSUME TypeOK, StopScoring \/ StopList \/ StopRead \/ StopConverge
  PROVE  TypeOK'
<1>1. CASE StopScoring
  <2>1. \A a \in Attempts : attempt[a] \in AttemptRow /\ job[a] \in JobRow
    BY DEF TypeOK
  <2>2. \A a \in Attempts :
          [job[a] EXCEPT !.cancelRequested = TRUE,
                         !.status = IF @ = "queued" THEN "cancelled" ELSE @]
            \in JobRow
    BY <2>1 DEF JobRow, JobStatus
  <2>3. \A a \in Attempts :
          [attempt[a] EXCEPT !.scoring = "cancelled", !.score = NoScore,
                             !.status = IF @ = "scoring" THEN "cancelled" ELSE @]
            \in AttemptRow
    BY <2>1, ScoresType DEF AttemptRow, LegacyStatus, ScoringStatusValue
  <2>4. job' \in [Attempts -> JobRow]
    BY <1>1, <2>1, <2>2 DEF StopScoring
  <2>5. attempt' \in [Attempts -> AttemptRow]
    <3>1. \E active \in SUBSET Attempts :
            attempt' = [a \in Attempts |->
              IF a \notin active THEN attempt[a]
              ELSE [attempt[a] EXCEPT
                      !.scoring = "cancelled", !.score = NoScore,
                      !.status = IF @ = "scoring" THEN "cancelled" ELSE @]]
      BY <1>1 DEF StopScoring, Row
    <3> DEFINE stopped == [a \in Attempts |->
                 [attempt[a] EXCEPT
                    !.scoring = "cancelled", !.score = NoScore,
                    !.status = IF @ = "scoring" THEN "cancelled" ELSE @]]
    <3>2. \A a \in Attempts : stopped[a] \in AttemptRow
      BY <2>3
    <3>3. \E active \in SUBSET Attempts :
            attempt' = [a \in Attempts |->
              IF a \notin active THEN attempt[a] ELSE stopped[a]]
      BY <3>1
    <3> HIDE DEF stopped
    <3> QED
      BY <2>1, <3>2, <3>3
  <2>6. cancelled' \subseteq Tasks
    BY <1>1 DEF StopScoring, TypeOK
  <2>7. stops' \in 0..MaxStops
    <3>1. stops \in 0..MaxStops /\ stops < MaxStops /\ stops' = stops + 1
      BY <1>1 DEF StopScoring, TypeOK
    <3> QED
      BY <3>1, ScoringQueueAssumption DEF ScoringQueueAssumption
  <2>8. stop' \in Convergence
    BY <1>1 DEF StopScoring, TypeOK, Convergence
  <2> QED
    BY <1>1, <2>4, <2>5, <2>6, <2>7, <2>8 DEF StopScoring, TypeOK, Convergence, scores
<1>2. CASE StopList
  <2>1. stop' \in Convergence
    BY <1>2, ReadingType DEF StopList, TypeOK, Convergence
  <2> QED
    BY <1>2, <2>1 DEF StopList, TypeOK, Convergence, facts, scores, clock
<1>3. CASE StopRead
  <2>1. stop' \in Convergence
    BY <1>3, ReadingType DEF StopRead
  <2> QED
    BY <1>3, <2>1 DEF StopRead, TypeOK, Convergence, facts, scores, clock
<1>4. CASE StopConverge
  <2>1. ConvergeAll(stop.open, UserStopped) /\ stop' \in Convergence
    BY <1>4, ReadingType DEF StopConverge
  <2>2. attempt' \in [Attempts -> AttemptRow] /\ run' \in RunStatusValue
    BY <2>1, ConvergeAllTypes
  <2> QED
    BY <1>4, <2>1, <2>2 DEF StopConverge, TypeOK, Convergence, scores, clock
<1> QED
  BY <1>1, <1>2, <1>3, <1>4

\* The steps of the sweeper keep the types.
LEMMA SweepTypes ==
  ASSUME TypeOK,
         \/ \E a \in Attempts : DeadlinePasses(a)
         \/ SweepList \/ SweepRead \/ SweepConverge
  PROVE  TypeOK'
<1>1. ASSUME NEW a \in Attempts, DeadlinePasses(a) PROVE TypeOK'
  BY <1>1 DEF DeadlinePasses, TypeOK, facts, scores, control
<1>2. CASE SweepList
  <2>1. sweep' \in Convergence
    BY <1>2 DEF SweepList, TypeOK, Convergence
  <2> QED
    BY <1>2, <2>1 DEF SweepList, TypeOK, Convergence, facts, scores, clock
<1>3. CASE SweepRead
  <2>1. sweep' \in Convergence
    BY <1>3, ReadingType DEF SweepRead
  <2> QED
    BY <1>3, <2>1 DEF SweepRead, TypeOK, Convergence, facts, scores, clock
<1>4. CASE SweepConverge
  <2>1. ConvergeAll(sweep.open, ScoringOverdue) /\ sweep' \in Convergence
    BY <1>4, ReadingType DEF SweepConverge
  <2>2. attempt' \in [Attempts -> AttemptRow] /\ run' \in RunStatusValue
    BY <2>1, ConvergeAllTypes
  <2> QED
    BY <1>4, <2>1, <2>2 DEF SweepConverge, TypeOK, Convergence, scores, clock
<1> QED
  BY <1>1, <1>2, <1>3, <1>4

\* Shutdown, exit, crash and startup keep the types.
LEMMA ProcessTypes ==
  ASSUME TypeOK, Shutdown \/ Exit \/ Crash \/ Restart
  PROVE  TypeOK'
<1>1. ASSUME restarts < MaxRestarts, restarts' = restarts + 1
      PROVE  restarts' \in 0..MaxRestarts
  <2>1. restarts \in 0..MaxRestarts
    BY DEF TypeOK
  <2> QED
    BY <1>1, <2>1, ScoringQueueAssumption DEF ScoringQueueAssumption
<1>2. CASE Shutdown
  <2>1. restarts' \in 0..MaxRestarts
    BY <1>1, <1>2 DEF Shutdown
  <2>2. cancelled' \subseteq Tasks
    BY <1>2 DEF Shutdown
  <2> QED
    BY <1>2, <2>1, <2>2 DEF Shutdown, TypeOK, facts, scores
<1>3. CASE Exit
  BY <1>3 DEF Exit, TypeOK, facts, scores, clock
<1>4. CASE Crash
  <2>1. restarts' \in 0..MaxRestarts
    BY <1>1, <1>4 DEF Crash
  <2>2. worker' \in [Tasks -> WorkerState]
    BY <1>4 DEF Crash, WorkerState
  <2> QED
    BY <1>4, <2>1, <2>2, ReadingType DEF Crash, TypeOK, Convergence, facts, scores
<1>5. CASE Restart
  <2> DEFINE revived == [a \in Attempts |->
               IF job[a].status = "running" /\ ~job[a].cancelRequested
               THEN [job[a] EXCEPT !.status = "queued"] ELSE job[a]]
             requeued == [a \in Attempts |->
               IF Row(a).scoring = "running"
               THEN [Row(a) EXCEPT !.scoring = "queued", !.status = "scoring"]
               ELSE Row(a)]
  <2>1. \A a \in Attempts : attempt[a] \in AttemptRow /\ job[a] \in JobRow
    BY DEF TypeOK
  <2>2. revived \in [Attempts -> JobRow]
    BY <2>1 DEF JobRow, JobStatus
  <2>3. \A a \in Attempts :
          [attempt[a] EXCEPT !.scoring = "queued", !.status = "scoring"] \in AttemptRow
    BY <2>1 DEF AttemptRow, LegacyStatus, ScoringStatusValue
  <2>4. requeued \in [Attempts -> AttemptRow]
    BY <2>1, <2>3 DEF Row
  <2>5. /\ job' = revived
        /\ \E lost : attempt' = [a \in Attempts |->
              IF a \in lost THEN FinalizedNoScore("interrupted") ELSE requeued[a]]
        /\ UNCHANGED run \/ Refresh
        /\ consumed' = ConsumedWith(attempt')
        /\ up' \in {up, "up"}
        /\ UNCHANGED <<outbox, judged, cancelled, thread, request, stop, sweep, clock>>
    BY <1>5 DEF Restart
  <2>6. worker' \in [Tasks -> WorkerState]
    <3>1. \/ UNCHANGED worker
          \/ \E resumed :
               worker' = [j \in Tasks |->
                 IF j[2] = 0
                 THEN IF j[1] \in resumed THEN "resumed" ELSE "none"
                 ELSE IF /\ revived[j[1]].n = j[2]
                         /\ revived[j[1]].status = "queued"
                         /\ ~revived[j[1]].cancelRequested
                      THEN "waiting" ELSE "none"]
      BY <1>5 DEF Restart
    <3>2. {"none", "resumed", "waiting"} \subseteq WorkerState
      BY DEF WorkerState
    <3> QED
      BY <3>1, <3>2 DEF TypeOK
  <2> HIDE DEF revived, requeued
  <2>7. FinalizedNoScore("interrupted") \in AttemptRow
    BY FinalizedType
  <2>8. attempt' \in [Attempts -> AttemptRow]
    BY <2>4, <2>5, <2>7
  <2>9. run' \in RunStatusValue
    <3>1. run' = run \/ run' = RunProjection(attempt')
      BY <2>5 DEF Refresh
    <3> QED
      BY <3>1, RunProjectionType DEF TypeOK
  <2>10. consumed' \in 0..Len(outbox)
    <3>1. Len(outbox) \in Nat /\ consumed \in 0..Len(outbox)
      BY DEF TypeOK
    <3>2. consumed' \in {Len(outbox), consumed}
      BY <2>5 DEF ConsumedWith
    <3> QED
      BY <3>1, <3>2
  <2> QED
    BY <2>2, <2>5, <2>6, <2>8, <2>9, <2>10 DEF TypeOK, clock
<1> QED
  BY <1>2, <1>3, <1>4, <1>5

\* A step keeps the types.
LEMMA NextTypes ==
  ASSUME TypeOK, RevisionInv, [Next]_vars
  PROVE  TypeOK'
<1>1. ASSUME NEW a \in Attempts,
             ExecutionStep(a) \/ ResumedNotifies(a) \/ DeadlinePasses(a)
      PROVE  TypeOK'
  BY <1>1, ExecutionTypes, SweepTypes
<1>2. ASSUME NEW j \in Tasks, WorkerStep(j) \/ ThreadStep(j) \/ HandleCancel(j)
      PROVE  TypeOK'
  BY <1>2, WorkerTypes, ThreadTypes, CancelTypes
<1>3. CASE Rejudge
  BY <1>3, RejudgeTypes
<1>4. CASE StopScoring \/ StopList \/ StopRead \/ StopConverge
  BY <1>4, StopTypes
<1>5. CASE SweepList \/ SweepRead \/ SweepConverge
  BY <1>5, SweepTypes
<1>6. CASE Shutdown \/ Exit \/ Crash \/ Restart
  BY <1>6, ProcessTypes
<1>7. CASE UNCHANGED vars
  BY <1>7 DEF vars, facts, scores, control, clock, TypeOK
<1> QED
  BY <1>1, <1>2, <1>3, <1>4, <1>5, <1>6, <1>7 DEF Next

\* Only the commit and the judge history write the tables the revisions are
\* counted from.
LEMMA HistoryWriters ==
  ASSUME [Next]_vars
  PROVE  \/ UNCHANGED <<outbox, judged>>
         \/ \E j \in Tasks : CommitThread(j) \/ RecordThread(j)
<1>1. ASSUME NEW a \in Attempts,
             ExecutionStep(a) \/ ResumedNotifies(a) \/ DeadlinePasses(a)
      PROVE  UNCHANGED <<outbox, judged>>
  BY <1>1 DEF ExecutionStep, ExecutionEnds, ResumedFails, ResumedScores,
              ResumedNotifies, DeadlinePasses, scores
<1>2. ASSUME NEW j \in Tasks, WorkerStep(j) \/ HandleCancel(j)
      PROVE  UNCHANGED <<outbox, judged>>
  BY <1>2 DEF WorkerStep, Acquire, Begin, StartJudge, JudgeReturns, StartFail,
              StartCommit, StartRecord, Mark, Finish, Raise, HandleCancel, scores
<1>3. ASSUME NEW j \in Tasks, ThreadStep(j)
      PROVE  \/ UNCHANGED <<outbox, judged>>
             \/ CommitThread(j) \/ RecordThread(j)
  BY <1>3 DEF ThreadStep, ClaimThread, FailThread, NotifyThread, scores
<1>4. CASE Rejudge
  BY <1>4 DEF Rejudge, RejudgeCheck, RejudgePurge, RejudgeEnqueue, scores
<1>5. CASE \/ StopScoring \/ StopList \/ StopRead \/ StopConverge
           \/ SweepList \/ SweepRead \/ SweepConverge
  BY <1>5 DEF StopScoring, StopList, StopRead, StopConverge, SweepList, SweepRead,
              SweepConverge, scores
<1>6. CASE Shutdown \/ Exit \/ Crash \/ Restart
  BY <1>6 DEF Shutdown, Exit, Crash, Restart, scores
<1>7. CASE UNCHANGED vars
  BY <1>7 DEF vars, scores
<1> QED
  BY <1>1, <1>2, <1>3, <1>4, <1>5, <1>6, <1>7 DEF Next

\* Revisions are a function of the outbox.
LEMMA RevisionsKept ==
  ASSUME UNCHANGED outbox, NEW a \in Attempts
  PROVE  Revisions(a)' = Revisions(a) /\ (HasGreatest(a) => HasGreatest(a)')
<1>1. Revisions(a)' = Revisions(a)
  BY DEF Revisions
<1> QED
  BY <1>1 DEF HasGreatest

\* A step keeps the revisions without gaps and in order.
LEMMA NextRevisions ==
  ASSUME TypeOK, RevisionInv, RevisionsIncrease, [Next]_vars
  PROVE  RevisionInv' /\ RevisionsIncrease'
<1>1. Len(outbox) \in Nat /\ outbox \in Seq(OutboxRow)
  BY DEF TypeOK
<1>2. CASE UNCHANGED <<outbox, judged>>
  <2>1. outbox' = outbox /\ judged' = judged
    BY <1>2
  <2>2. ASSUME NEW a \in Attempts
        PROVE  HasGreatest(a)' /\ \E t \in Nat : DenseUpTo(a, t)'
    <3>1. PICK t \in Nat : DenseUpTo(a, t)
      BY DEF RevisionInv
    <3>2. Revisions(a)' = Revisions(a) /\ HasGreatest(a)'
      BY <2>1, RevisionsKept DEF RevisionInv
    <3>3. DenseUpTo(a, t)'
      BY <2>1, <3>1, <3>2 DEF DenseUpTo
    <3> QED
      BY <3>2, <3>3
  <2>3. RevisionsIncrease'
    BY <2>1 DEF RevisionsIncrease
  <2> QED
    BY <2>2, <2>3 DEF RevisionInv
<1>3. ASSUME NEW j \in Tasks, CommitThread(j)
      PROVE  RevisionInv' /\ RevisionsIncrease'
  <2>1. UNCHANGED judged /\ j[1] \in Attempts /\ j[2] \in 0..MaxJobs
    BY <1>3, ScoresType DEF CommitThread
  <2>2. CASE UNCHANGED outbox
    BY <1>2, <2>1, <2>2
  <2>3. CASE outbox' # outbox
    <3> DEFINE row == [attempt |-> j[1], job |-> j[2], rev |-> NextRevision(j[1])]
    <3>1. PICK top \in Nat : DenseUpTo(j[1], top)
      BY <2>1 DEF RevisionInv
    <3>2. NextRevision(j[1]) = top + 1
      BY <2>1, <3>1, NextRevisionValue
    <3>3. outbox' = Append(outbox, row)
      BY <1>3, <2>3 DEF CommitThread
    <3>4. /\ row \in OutboxRow
          /\ row.attempt = j[1] /\ row.rev = top + 1
      BY <2>1, <3>2 DEF OutboxRow
    <3> HIDE DEF row
    <3>5. Len(outbox') = Len(outbox) + 1
      BY <1>1, <3>3
    <3>6. ASSUME NEW a \in Attempts, a # j[1]
          PROVE  HasGreatest(a)' /\ \E t \in Nat : DenseUpTo(a, t)'
      <4>1. Revisions(a)' = Revisions(a)
        BY <3>3, <3>4, <3>6, RevisionsAppend
      <4>2. PICK t \in Nat : DenseUpTo(a, t)
        BY DEF RevisionInv
      <4>3. DenseUpTo(a, t)'
        <5>1. judged[a] \in Nat
          BY DEF TypeOK
        <5> QED
          BY <1>1, <2>1, <3>5, <4>1, <4>2, <5>1 DEF DenseUpTo
      <4>4. HasGreatest(a)'
        BY <4>1 DEF RevisionInv, HasGreatest
      <4> QED
        BY <4>3, <4>4
    <3>7. Revisions(j[1])' = Revisions(j[1]) \union {top + 1}
      BY <2>1, <3>3, <3>4, RevisionsAppend
    <3>8. Revisions(j[1]) \subseteq 1..top
      BY <3>1 DEF DenseUpTo
    <3>9. HasGreatest(j[1])'
      BY <3>7, <3>8 DEF HasGreatest
    <3>10. DenseUpTo(j[1], top + 1)'
      <4>1. judged[j[1]] \in Nat /\ judged' = judged
        BY <2>1 DEF TypeOK
      <4>2. (judged[j[1]] + 1) .. (top + 1) \subseteq Revisions(j[1])'
        BY <3>1, <3>7, <4>1 DEF DenseUpTo
      <4>3. Revisions(j[1])' \subseteq 1..(top + 1)
        BY <3>7, <3>8
      <4> QED
        BY <1>1, <3>1, <3>5, <4>1, <4>2, <4>3 DEF DenseUpTo
    <3>11. RevisionInv'
      <4>1. top + 1 \in Nat
        OBVIOUS
      <4> QED
        BY <3>6, <3>9, <3>10, <4>1 DEF RevisionInv
    <3>12. RevisionsIncrease'
      <4>1. /\ DOMAIN outbox' = DOMAIN outbox \union {Len(outbox) + 1}
            /\ outbox'[Len(outbox) + 1] = row
            /\ \A i \in DOMAIN outbox : outbox'[i] = outbox[i]
            /\ DOMAIN outbox = 1..Len(outbox)
        BY <1>1, <3>3
      <4>2. \A i \in DOMAIN outbox : outbox[i].attempt = j[1] => outbox[i].rev < top + 1
        <5>1. \A i \in DOMAIN outbox : outbox[i].attempt = j[1]
                                         => outbox[i].rev \in Revisions(j[1])
          BY DEF Revisions
        <5> QED
          BY <3>8, <5>1
      <4> SUFFICES ASSUME NEW i \in DOMAIN outbox', NEW k \in DOMAIN outbox',
                          i < k, outbox'[i].attempt = outbox'[k].attempt
                   PROVE  outbox'[i].rev < outbox'[k].rev
        BY DEF RevisionsIncrease
      <4>3. i \in DOMAIN outbox
        BY <1>1, <4>1
      <4>4. CASE k \in DOMAIN outbox
        BY <4>1, <4>3, <4>4 DEF RevisionsIncrease
      <4>5. CASE k = Len(outbox) + 1
        BY <3>4, <4>1, <4>2, <4>3, <4>5
      <4> QED
        BY <4>1, <4>4, <4>5
    <3> QED
      BY <3>11, <3>12
  <2> QED
    BY <2>2, <2>3
<1>4. ASSUME NEW j \in Tasks, RecordThread(j)
      PROVE  RevisionInv' /\ RevisionsIncrease'
  <2>1. j[1] \in Attempts /\ UNCHANGED outbox
    BY <1>4, ScoresType DEF RecordThread
  <2>2. RevisionsIncrease'
    BY <2>1 DEF RevisionsIncrease
  <2>3. \A a \in Attempts : Revisions(a)' = Revisions(a) /\ HasGreatest(a)'
    BY <2>1, RevisionsKept DEF RevisionInv
  <2>4. CASE UNCHANGED judged
    BY <1>2, <2>1, <2>4
  <2>5. CASE judged' = [judged EXCEPT ![j[1]] = JudgeRevision(j[1])]
    <3>1. PICK top \in Nat : DenseUpTo(j[1], top)
      BY <2>1 DEF RevisionInv
    <3>2. HasGreatest(j[1])
      BY <2>1 DEF RevisionInv
    <3>3. /\ judged[j[1]] \in Nat
          /\ judged'[j[1]] = IF judged[j[1]] < top THEN top ELSE judged[j[1]] + 1
      BY <2>1, <2>5, <3>1, <3>2, JudgeRevisionValue DEF TypeOK
    <3>4. \E t \in Nat : DenseUpTo(j[1], t)'
      <4>1. judged'[j[1]] \in Nat /\ top <= judged'[j[1]]
        BY <3>1, <3>3 DEF DenseUpTo
      <4>2. PICK t \in Nat : t = judged'[j[1]]
        BY <4>1
      <4>3. Revisions(j[1])' \subseteq 1..t
        BY <2>1, <2>3, <3>1, <4>1, <4>2 DEF DenseUpTo
      <4>4. Len(outbox') = Len(outbox) /\ t <= t + Len(outbox)
        BY <1>1, <2>1
      <4>5. DenseUpTo(j[1], t)'
        BY <4>2, <4>3, <4>4 DEF DenseUpTo
      <4> QED
        BY <4>5
    <3>5. ASSUME NEW a \in Attempts, a # j[1]
          PROVE  \E t \in Nat : DenseUpTo(a, t)'
      <4>1. PICK t \in Nat : DenseUpTo(a, t)
        BY DEF RevisionInv
      <4>2. judged'[a] = judged[a]
        BY <2>5, <3>5 DEF TypeOK
      <4>3. DenseUpTo(a, t)'
        BY <2>1, <2>3, <4>1, <4>2 DEF DenseUpTo
      <4> QED
        BY <4>3
    <3>6. \A a \in Attempts : \E t \in Nat : DenseUpTo(a, t)'
      BY <3>4, <3>5
    <3> QED
      BY <2>2, <2>3, <3>6 DEF RevisionInv
  <2> QED
    BY <1>4, <2>4, <2>5 DEF RecordThread
<1> QED
  BY <1>2, <1>3, <1>4, HistoryWriters

\* Every variable keeps its type, and committed revisions increase.
LEMMA Histories == Spec => [](TypeOK /\ RevisionInv /\ RevisionsIncrease)
<1> DEFINE Inv == TypeOK /\ RevisionInv /\ RevisionsIncrease
<1>1. Init => Inv
  <2>1. Init => RevisionsIncrease
    BY DEF Init, RevisionsIncrease
  <2> QED
    BY <2>1, InitTypes
<1>2. Inv /\ [Next]_vars => Inv'
  BY NextTypes, NextRevisions
<1> HIDE DEF Inv
<1>3. Spec => []Inv
  BY <1>1, <1>2, PTL DEF Spec
<1> QED
  BY <1>3 DEF Inv

\* In every reachable state each variable has the type its table or its place
\* in memory has: no handler stores a status or a number it must not.
THEOREM TypeCorrect == Spec => []TypeOK
BY Histories, PTL

\* Revisions of an attempt grow in the order of the outbox, whatever the judge
\* history lacks.
THEOREM RevisionOrder == Spec => []RevisionsIncrease
BY Histories, PTL
====
