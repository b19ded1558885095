---- MODULE DispatchProofs ----
(* Theorems about AttemptDispatch, for every value of its constants. *)
EXTENDS AttemptDispatch, FiniteSetTheorems, TLAPS

-----------------------------------------------------------------------------
(* The invariant.                                                          *)

Row == [status : LegacyStatus, exec : ExecutionStatusValue,
        scoring : ScoringStatusValue, score : {NoScore, 1}]

\* TypeOK without the bound on the slots, and what TypeOK leaves out.
Types ==
  /\ attempt \in [Attempts -> Row]
  /\ run \in [Runs -> [phase : {"submitted", "driving", "done"}, at : Nat]]
  /\ task \in [Attempts -> Holding \union Over \union {"none", "waiting"}]
  /\ jobs \subseteq Attempts /\ cancelled \subseteq Attempts
  /\ callbacks \subseteq Attempts /\ lowDisk \subseteq Attempts
  /\ missed \subseteq Attempts
  /\ group \in {"queued", "active", "over"}
  /\ \/ stop = Idle
     \/ \E r \in Runs, p \in {"tasks", "scoring"} : stop = [phase |-> p, run |-> r]
     \/ \E r \in Runs, ids \in SUBSET Attempts :
          /\ stop = [phase |-> "listed", run |-> r, ids |-> ids]
          /\ ids \subseteq AttemptsOf(r)
     \/ \E r \in Runs, open \in [Attempts -> SUBSET Axes] :
          /\ stop = [phase |-> "read", run |-> r, open |-> open]
          /\ \A a \in Attempts : open[a] # {} => a \in AttemptsOf(r)
  /\ \/ sweep = Idle
     \/ \E open \in [Attempts -> SUBSET Axes] : sweep = [phase |-> "read", open |-> open]

\* A row that a stop closed is closed on every axis, unless the stop missed the
\* attempt.
ClosedRows ==
  \A a \in Attempts \ missed :
    attempt[a].exec = "cancelled" => OpenAxes(attempt[a]) = {}

\* A scoring job is there after the agent.  Its execution has ended, and only the
\* stop of an attempt it missed can have taken the verdict.
JobsAfterAgent ==
  \A a \in jobs : /\ task[a] \in Over \union {"closing"}
                  /\ attempt[a].exec \notin OpenExecution
                  /\ attempt[a].exec = "cancelled" => a \in missed

\* What a stop read of an attempt it did not miss still covers what is open when
\* it writes, and is nothing if an earlier stop closed the row.
ReadCovers ==
  stop.phase = "read" =>
    \A a \in Attempts \ missed :
      /\ "exec" \in stop.open[a] =>
           a \notin jobs /\ OpenAxes(attempt[a]) \subseteq stop.open[a]
      /\ attempt[a].exec = "cancelled" => stop.open[a] = {}

\* A cancel on its way is for a task that is there and not over.
CancelsAreLive ==
  \A a \in cancelled \union callbacks : task[a] \notin Over \union {"none"}

\* A dispatcher has created its tasks in the order of the plan, a serial one
\* the next when the last was over.
InPlanOrder ==
  \A r \in Runs :
    /\ run[r].phase = "submitted" => \A a \in AttemptsOf(r) : task[a] = "none"
    /\ run[r].phase # "submitted" =>
         /\ run[r].at \in DOMAIN Plan[r]
         /\ r \notin Serial => run[r].at = Len(Plan[r])
         /\ \A i \in DOMAIN Plan[r] :
              /\ i > run[r].at <=> task[Plan[r][i]] = "none"
              /\ r \in Serial /\ i < run[r].at => task[Plan[r][i]] \in Over

\* The dispatcher of r creates no further task.
Dead(r) ==
  \/ run[r].phase = "done"
  \/ /\ r \in Serial /\ run[r].phase = "driving"
     /\ \/ Plan[r][run[r].at] \in cancelled
        \/ task[Plan[r][run[r].at]] = "cut"

\* Nothing goes on for a: its task is over, about to be cut, or never created.
Quiet(a) ==
  \/ task[a] \in Over
  \/ a \in cancelled
  \/ task[a] = "none" /\ \A r \in Runs : a \in AttemptsOf(r) => Dead(r)

\* What a stop closes, or is about to close, is quiet unless the stop missed it.
StopReaches ==
  \A a \in Attempts :
    \/ attempt[a].exec = "cancelled"
    \/ stop # Idle /\ a \in AttemptsOf(stop.run)
    => a \in missed \/ Quiet(a)

IInv == /\ Types /\ ClosedRows /\ JobsAfterAgent /\ ReadCovers /\ CancelsAreLive
        /\ InPlanOrder /\ StopReaches

-----------------------------------------------------------------------------
(* Rows and plans.                                                         *)

\* Every attempt of a plan is an attempt, and belongs to one place of one plan.
LEMMA PlanFacts ==
  /\ \A r \in Runs : DOMAIN Plan[r] = 1..Len(Plan[r]) /\ Len(Plan[r]) \in Nat \ {0}
  /\ \A r \in Runs : \A i \in DOMAIN Plan[r] :
       Plan[r][i] \in AttemptsOf(r) /\ Plan[r][i] \in Attempts
  /\ \A r \in Runs : AttemptsOf(r) \subseteq Attempts
  /\ \A r \in Runs : \A i, j \in DOMAIN Plan[r] : Plan[r][i] = Plan[r][j] => i = j
  /\ \A r, s \in Runs : \A a : a \in AttemptsOf(r) /\ a \in AttemptsOf(s) => r = s
<1>1. ASSUME NEW r \in Runs
      PROVE  DOMAIN Plan[r] = 1..Len(Plan[r]) /\ Len(Plan[r]) \in Nat \ {0}
  <2>1. Plan[r] \in Seq(AttemptsOf(r)) /\ Plan[r] # <<>>
    BY AttemptDispatchAssumption DEF AttemptDispatchAssumption
  <2> HIDE DEF AttemptsOf
  <2> QED
    BY <2>1
<1>2. ASSUME NEW r \in Runs
      PROVE  AttemptsOf(r) \subseteq Attempts
  BY DEF Attempts
<1>3. ASSUME NEW r \in Runs, NEW i \in DOMAIN Plan[r]
      PROVE  Plan[r][i] \in AttemptsOf(r)
  BY DEF AttemptsOf
<1>4. \A r \in Runs : \A i, j \in DOMAIN Plan[r] : Plan[r][i] = Plan[r][j] => i = j
  BY AttemptDispatchAssumption DEF AttemptDispatchAssumption
<1>5. ASSUME NEW r \in Runs, NEW s \in Runs, NEW a,
             a \in AttemptsOf(r), a \in AttemptsOf(s)
      PROVE  r = s
  <2> HIDE DEF AttemptsOf
  <2> QED
    BY <1>5, AttemptDispatchAssumption DEF AttemptDispatchAssumption
<1> HIDE DEF AttemptsOf, Attempts
<1> QED
  BY <1>1, <1>2, <1>3, <1>4, <1>5

\* The writers keep a row well-formed.
LEMMA RowTypes ==
  /\ FinalizedNoScore("cli_error") \in Row /\ EnqueuedRow("completed") \in Row
  /\ NewRow \in Row
  /\ \A row \in Row : Running(row) \in Row
  /\ \A row \in Row, open \in SUBSET Axes :
       Converged(row, open, UserStopped) \in Row
  /\ \A row \in Row, open \in SUBSET Axes :
       Converged(row, open, ExecutionOverdue) \in Row
  /\ \A row \in Row : ScoringStopped(row) \in Row
<1>1. FinalizedNoScore("cli_error") \in Row /\ EnqueuedRow("completed") \in Row
      /\ NewRow \in Row
  BY DEF Row, FinalizedNoScore, EnqueuedRow, AdapterVerdict, NewRow,
         LegacyStatus, ExecutionStatusValue, ScoringStatusValue, NoScore
<1>2. ASSUME NEW row \in Row
      PROVE  Running(row) \in Row
  <2> DEFINE begun == [row EXCEPT !.status = "running"]
  <2>1. begun \in Row
    BY DEF Row, LegacyStatus
  <2> HIDE DEF begun
  <2>2. [begun EXCEPT !.exec = "running"] \in Row
    BY <2>1 DEF Row, ExecutionStatusValue
  <2> USE DEF begun
  <2> QED
    BY <2>2, Zenon DEF Running
<1>3. ASSUME NEW row \in Row, NEW open \in SUBSET Axes
      PROVE  /\ Converged(row, open, UserStopped) \in Row
             /\ Converged(row, open, ExecutionOverdue) \in Row
             /\ ScoringStopped(row) \in Row
  BY DEF Row, Converged, UserStopped, ExecutionOverdue, ScoringStopped,
         LegacyStatus, ExecutionStatusValue, ScoringStatusValue
<1> QED
  BY <1>1, <1>2, <1>3

-----------------------------------------------------------------------------
(* The types.                                                              *)

Places == Holding \union Over \union {"none", "waiting"}

\* A read finds axes.
LEMMA ReadingType == \A ids : Reading(ids) \in [Attempts -> SUBSET Axes]
<1>1. \A row : OpenAxes(row) \in SUBSET Axes
  BY DEF OpenAxes
<1> QED
  BY <1>1 DEF Reading

\* Going on, and ending, keep the types of what they change.
LEMMA GotoTypes ==
  ASSUME Types, NEW a \in Attempts, NEW phase \in Places,
         Goto(a, phase) \/ End(a, phase)
  PROVE  /\ task' \in [Attempts -> Places]
         /\ cancelled' \subseteq Attempts /\ callbacks' \subseteq Attempts
BY DEF Types, Places, Goto, End

LEMMA NextTypes == Types /\ [Next]_vars => Types'
<1> SUFFICES ASSUME Types, [Next]_vars
             PROVE  Types'
  OBVIOUS
<1> USE DEF Places
<1>1. CASE UNCHANGED vars
  BY <1>1 DEF Types, vars, rows, control
<1>2. CASE GroupBegins \/ GroupEnds
  BY <1>2 DEF Types, GroupBegins, GroupEnds, rows
<1>3. ASSUME NEW r \in Runs, Launch(r)
      PROVE  Types'
  <2>1. Len(Plan[r]) \in Nat
    BY PlanFacts
  <2> DEFINE first == IF r \in Serial THEN 1 ELSE Len(Plan[r])
  <2>2. first \in Nat
    BY <2>1
  <2>3. task' \in [Attempts -> Places]
    BY <1>3 DEF Types, Launch
  <2>4. run' = [run EXCEPT ![r] = [phase |-> "driving", at |-> first]]
    BY <1>3 DEF Launch
  <2>5. run' \in [Runs -> [phase : {"submitted", "driving", "done"}, at : Nat]]
    BY <2>2, <2>4 DEF Types
  <2> QED
    BY <1>3, <2>3, <2>5 DEF Types, Launch, rows
<1>4. ASSUME NEW r \in Runs, NextTask(r)
      PROVE  Types'
  <2>1. run[r].at \in Nat /\ Len(Plan[r]) \in Nat /\ DOMAIN Plan[r] = 1..Len(Plan[r])
    BY PlanFacts DEF Types
  <2>2. CASE r \in Serial /\ run[r].at < Len(Plan[r]) /\ GoesOn(Plan[r][run[r].at])
    <3>1. /\ run' = [run EXCEPT ![r].at = run[r].at + 1]
          /\ Goto(Plan[r][run[r].at + 1], "waiting")
      BY <1>4, <2>2 DEF NextTask
    <3>2. Plan[r][run[r].at + 1] \in Attempts
      BY <2>1, <2>2, PlanFacts
    <3>3. task' \in [Attempts -> Places] /\ UNCHANGED <<cancelled, callbacks>>
      BY <3>1, <3>2 DEF Types, Goto
    <3>4. run' \in [Runs -> [phase : {"submitted", "driving", "done"}, at : Nat]]
      <4> DEFINE next == [run[r] EXCEPT !.at = run[r].at + 1]
      <4>1. next \in [phase : {"submitted", "driving", "done"}, at : Nat]
        BY <2>1 DEF Types
      <4>2. run' = [run EXCEPT ![r] = next]
        BY <3>1
      <4> HIDE DEF next
      <4> QED
        BY <4>1, <4>2 DEF Types
    <3> QED
      BY <1>4, <3>3, <3>4 DEF Types, NextTask, rows
  <2>3. CASE ~(r \in Serial /\ run[r].at < Len(Plan[r]) /\ GoesOn(Plan[r][run[r].at]))
    <3>1. /\ run' = [run EXCEPT ![r].phase = "done"]
          /\ UNCHANGED <<rows, group, stop, sweep, task, cancelled, callbacks, lowDisk,
                         missed>>
      BY <1>4, <2>3 DEF NextTask
    <3>2. run' \in [Runs -> [phase : {"submitted", "driving", "done"}, at : Nat]]
      BY <3>1 DEF Types
    <3> QED
      BY <3>1, <3>2 DEF Types, rows
  <2> QED
    BY <2>2, <2>3
<1>5. ASSUME NEW a \in Attempts, Acquire(a)
      PROVE  Types'
  <2>1. attempt[a] \in Row
    BY DEF Types
  <2>2. attempt' \in [Attempts -> Row] /\ lowDisk' \subseteq Attempts
    BY <1>5, <2>1, RowTypes DEF Types, Acquire, Finalize
  <2>3. Goto(a, "marking") \/ End(a, "ended") \/ Goto(a, "preparing")
    BY <1>5 DEF Acquire
  <2>4. /\ task' \in [Attempts -> Places]
        /\ cancelled' \subseteq Attempts /\ callbacks' \subseteq Attempts
    BY <2>3, GotoTypes DEF Holding, Over
  <2> QED
    BY <1>5, <2>2, <2>4 DEF Types, Acquire, control
<1>6. ASSUME NEW a \in Attempts, MarkLowDisk(a)
      PROVE  Types'
  <2>1. attempt' \in [Attempts -> Row] /\ lowDisk' \subseteq Attempts
    BY <1>6, RowTypes DEF Types, MarkLowDisk, Finalize
  <2>2. End(a, "ended") \/ UNCHANGED <<task, cancelled, callbacks>>
    BY <1>6 DEF MarkLowDisk
  <2>3. /\ task' \in [Attempts -> Places]
        /\ cancelled' \subseteq Attempts /\ callbacks' \subseteq Attempts
    BY <2>2, GotoTypes DEF Over, Types
  <2> QED
    BY <1>6, <2>1, <2>3 DEF Types, MarkLowDisk, control
<1>7. ASSUME NEW a \in Attempts,
             PrepareFails(a) \/ StartAgent(a) \/ AgentEnds(a) \/ Leave(a) \/ HandleCancel(a)
      PROVE  Types'
  <2>1. attempt' \in [Attempts -> Row] /\ jobs' \subseteq Attempts
    BY <1>7, RowTypes
       DEF Types, PrepareFails, StartAgent, AgentEnds, Leave, HandleCancel, Finalize, rows
  <2>2. \E phase \in {"ended", "agent", "closing", "cut"} : Goto(a, phase) \/ End(a, phase)
    BY <1>7 DEF PrepareFails, StartAgent, AgentEnds, Leave, HandleCancel
  <2>3. /\ task' \in [Attempts -> Places]
        /\ cancelled' \subseteq Attempts /\ callbacks' \subseteq Attempts
    BY <2>2, GotoTypes DEF Holding, Over
  <2> QED
    BY <1>7, <2>1, <2>3
       DEF Types, PrepareFails, StartAgent, AgentEnds, Leave, HandleCancel, control
<1>8. ASSUME NEW a \in Attempts, Callback(a)
      PROVE  Types'
  BY <1>8 DEF Types, Callback, rows, control
<1>9. ASSUME NEW r \in Runs, StopTasks(r)
      PROVE  Types'
  <2>1. AttemptsOf(r) \subseteq Attempts
    BY PlanFacts
  <2>2. cancelled' \subseteq Attempts /\ missed' \subseteq Attempts
    BY <1>9, <2>1 DEF StopTasks, Live, Types
  <2>3. stop' = [phase |-> "tasks", run |-> r]
    BY <1>9 DEF StopTasks
  <2> QED
    BY <1>9, <2>2, <2>3 DEF Types, StopTasks, rows
<1>10. CASE StopScoring
  <2>1. PICK r \in Runs : stop = [phase |-> "tasks", run |-> r]
    BY <1>10 DEF Types, StopScoring, Idle
  <2>2. stop' = [phase |-> "scoring", run |-> r]
    BY <1>10, <2>1 DEF StopScoring
  <2>3. attempt' \in [Attempts -> Row] /\ jobs' \subseteq Attempts
    BY <1>10, RowTypes DEF StopScoring, Types
  <2> QED
    BY <1>10, <2>2, <2>3 DEF Types, StopScoring
<1>11. CASE StopList
  <2>1. PICK r \in Runs : stop.run = r
    BY <1>11 DEF Types, StopList, Idle
  <2>2. stop' = Idle \/ \E ids \in SUBSET Attempts :
          /\ stop' = [phase |-> "listed", run |-> r, ids |-> ids]
          /\ ids \subseteq AttemptsOf(r)
    <3> DEFINE ids == {a \in AttemptsOf(r) : IsOpen(attempt[a])}
    <3>1. ids \in SUBSET Attempts /\ ids \subseteq AttemptsOf(r)
      BY PlanFacts
    <3>2. stop' = Idle \/ stop' = [phase |-> "listed", run |-> r, ids |-> ids]
      BY <1>11, <2>1 DEF StopList
    <3> QED
      BY <3>1, <3>2
  <2> QED
    BY <1>11, <2>2 DEF Types, StopList, rows
<1>12. CASE StopRead
  <2>1. PICK r \in Runs : /\ stop.run = r /\ stop.ids \subseteq AttemptsOf(r)
                           /\ stop.ids \subseteq Attempts
    BY <1>12 DEF Types, StopRead, Idle
  <2>2. /\ stop' = Idle \/ stop' = [phase |-> "read", run |-> r,
                                    open |-> Reading(stop.ids)]
        /\ UNCHANGED <<rows, run, group, sweep, stops, task, cancelled,
                       callbacks, lowDisk, missed>>
    BY <1>12, <2>1 DEF StopRead
  <2>3. \A a \in Attempts : Reading(stop.ids)[a] # {} => a \in AttemptsOf(r)
    BY <2>1 DEF Reading
  <2>4. Reading(stop.ids) \in [Attempts -> SUBSET Axes]
    BY ReadingType
  <2>5. stop' = Idle \/ \E open \in [Attempts -> SUBSET Axes] :
          /\ stop' = [phase |-> "read", run |-> r, open |-> open]
          /\ \A a \in Attempts : open[a] # {} => a \in AttemptsOf(r)
    BY <2>2, <2>3, <2>4
  <2> HIDE DEF AttemptsOf
  <2> QED
    BY <2>2, <2>5 DEF Types, rows
<1>13. CASE StopConverge
  <2>1. stop.open \in [Attempts -> SUBSET Axes]
    BY <1>13 DEF Types, StopConverge, Idle
  <2>2. attempt' \in [Attempts -> Row]
    BY <1>13, <2>1, RowTypes DEF Types, StopConverge, ConvergeAll
  <2> QED
    BY <1>13, <2>2 DEF Types, StopConverge
<1>14. ASSUME NEW ids \in SUBSET Attempts, SweepRead(ids)
       PROVE  Types'
  <2>1. callbacks' \subseteq Attempts
    BY <1>14 DEF SweepRead, Registered, Types
  <2>2. sweep' = [phase |-> "read", open |-> Reading(ids)]
    BY <1>14 DEF SweepRead
  <2>3. Reading(ids) \in [Attempts -> SUBSET Axes]
    BY ReadingType
  <2>4. \E open \in [Attempts -> SUBSET Axes] : sweep' = [phase |-> "read", open |-> open]
    BY <2>2, <2>3
  <2> QED
    BY <1>14, <2>1, <2>4 DEF Types, SweepRead, rows
<1>15. CASE SweepConverge
  <2>1. sweep.open \in [Attempts -> SUBSET Axes]
    BY <1>15 DEF Types, SweepConverge, Idle
  <2>2. attempt' \in [Attempts -> Row]
    BY <1>15, <2>1, RowTypes DEF Types, SweepConverge, ConvergeAll
  <2> QED
    BY <1>15, <2>2 DEF Types, SweepConverge
<1> QED
  BY <1>1, <1>2, <1>3, <1>4, <1>5, <1>6, <1>7, <1>8, <1>9, <1>10, <1>11, <1>12,
     <1>13, <1>14, <1>15 DEF Next

-----------------------------------------------------------------------------
(* The tasks.                                                              *)

\* What a step does to one task: it may be created, go on, or be cut, and goes
\* on only if no cancel is on its way.
TaskMove(a) ==
  \/ task'[a] = task[a] /\ (a \in cancelled => a \in cancelled')
  \/ task[a] = "none" /\ task'[a] = "waiting" /\ run' # run
  \/ /\ a \notin cancelled /\ task[a] \in Holding \union {"waiting"}
     /\ task'[a] \in Holding \union {"ended"}
     /\ task[a] = "closing" => task'[a] = "ended"
  \/ a \in cancelled /\ task[a] # "none" /\ task'[a] = "cut"

\* A task that goes on, or ends, moves so; the others stay.
LEMMA OneTaskMoves ==
  ASSUME Types, NEW a \in Attempts, NEW phase \in Places,
         \/ Goto(a, phase) \/ End(a, phase),
         \/ /\ a \notin cancelled /\ task[a] \in Holding \union {"waiting"}
            /\ phase \in Holding \union {"ended"}
            /\ task[a] = "closing" => phase = "ended"
         \/ a \in cancelled /\ task[a] # "none" /\ phase = "cut"
  PROVE  \A b \in Attempts : TaskMove(b)
BY DEF Types, TaskMove, Goto, End

LEMMA TasksMove ==
  ASSUME Types, InPlanOrder, CancelsAreLive, [Next]_vars
  PROVE  \A a \in Attempts : TaskMove(a)
<1>1. CASE UNCHANGED <<task, cancelled>>
  BY <1>1 DEF TaskMove
<1>2. CASE UNCHANGED task /\ cancelled \subseteq cancelled'
  BY <1>2 DEF TaskMove
<1>3. ASSUME NEW r \in Runs, Launch(r)
      PROVE  \A a \in Attempts : TaskMove(a)
  <2> DEFINE first == IF r \in Serial THEN 1 ELSE Len(Plan[r])
  <2>1. /\ task' = [a \in Attempts |->
              IF \E i \in 1..first : a = Plan[r][i] THEN "waiting" ELSE task[a]]
        /\ cancelled' = cancelled /\ run[r].phase = "submitted"
        /\ run' = [run EXCEPT ![r] = [phase |-> "driving", at |-> first]]
    BY <1>3 DEF Launch
  <2>2. \A i \in 1..first : i \in DOMAIN Plan[r]
    BY PlanFacts
  <2>3. \A i \in 1..first : task[Plan[r][i]] = "none"
    BY <2>1, <2>2, PlanFacts DEF InPlanOrder
  <2>4. run'[r].phase # run[r].phase
    BY <2>1 DEF Types
  <2> QED
    BY <2>1, <2>3, <2>4 DEF TaskMove
<1>4. ASSUME NEW r \in Runs, NextTask(r)
      PROVE  \A a \in Attempts : TaskMove(a)
  <2> DEFINE i == run[r].at
  <2>1. run[r].phase = "driving" /\ i \in DOMAIN Plan[r] /\ i \in Nat
    BY <1>4 DEF NextTask, InPlanOrder, Types
  <2>2. CASE r \in Serial /\ i < Len(Plan[r]) /\ GoesOn(Plan[r][i])
    <3>1. i + 1 \in DOMAIN Plan[r]
      BY <2>1, <2>2, PlanFacts
    <3>2. task[Plan[r][i + 1]] = "none"
      BY <2>1, <3>1, PlanFacts DEF InPlanOrder
    <3>3. /\ task' = [task EXCEPT ![Plan[r][i + 1]] = "waiting"]
          /\ cancelled' = cancelled /\ run' = [run EXCEPT ![r].at = i + 1]
      BY <1>4, <2>2 DEF NextTask, Goto
    <3>4. run'[r].at = i + 1
      BY <3>3 DEF Types
    <3>5. run' # run
      BY <2>1, <3>4
    <3> QED
      BY <3>2, <3>3, <3>5 DEF TaskMove, Types
  <2>3. CASE ~(r \in Serial /\ i < Len(Plan[r]) /\ GoesOn(Plan[r][i]))
    BY <1>4, <2>3 DEF NextTask, TaskMove
  <2> QED
    BY <2>2, <2>3
<1>5. ASSUME NEW a \in Attempts, Acquire(a)
      PROVE  \A b \in Attempts : TaskMove(b)
  <2>1. \/ Goto(a, "marking") \/ End(a, "ended") \/ Goto(a, "preparing")
    BY <1>5 DEF Acquire
  <2>2. a \notin cancelled /\ task[a] = "waiting"
    BY <1>5 DEF Acquire, At
  <2> QED
    BY <2>1, <2>2, OneTaskMoves DEF Places, Holding, Over
<1>6. ASSUME NEW a \in Attempts, MarkLowDisk(a)
      PROVE  \A b \in Attempts : TaskMove(b)
  <2>1. CASE At(a, "marking")
    BY <1>6, <2>1, OneTaskMoves DEF MarkLowDisk, At, Places, Holding, Over
  <2>2. CASE ~At(a, "marking")
    BY <1>6, <2>2 DEF MarkLowDisk, TaskMove
  <2> QED
    BY <2>1, <2>2
<1>7. ASSUME NEW a \in Attempts, PrepareFails(a) \/ StartAgent(a) \/ AgentEnds(a) \/ Leave(a)
      PROVE  \A b \in Attempts : TaskMove(b)
  <2>1. \E phase \in {"ended", "agent", "closing"} :
          /\ Goto(a, phase) \/ End(a, phase)
          /\ a \notin cancelled /\ task[a] \in {"preparing", "agent", "closing"}
          /\ task[a] = "closing" => phase = "ended"
    BY <1>7 DEF PrepareFails, StartAgent, AgentEnds, Leave, At
  <2> QED
    BY <2>1, OneTaskMoves DEF Places, Holding, Over
<1>8. ASSUME NEW a \in Attempts, HandleCancel(a)
      PROVE  \A b \in Attempts : TaskMove(b)
  BY <1>8, OneTaskMoves DEF HandleCancel, CancelsAreLive, Places, Over
<1> QED
  <2>1. ASSUME NEW a \in Attempts, Callback(a)
        PROVE  UNCHANGED task /\ cancelled \subseteq cancelled'
    BY <2>1 DEF Callback
  <2>2. ASSUME NEW r \in Runs, StopTasks(r)
        PROVE  UNCHANGED task /\ cancelled \subseteq cancelled'
    BY <2>2 DEF StopTasks
  <2>3. CASE \/ UNCHANGED vars \/ GroupBegins \/ GroupEnds \/ StopScoring
             \/ StopList \/ StopRead \/ StopConverge \/ SweepConverge
    BY <2>3, <1>1 DEF vars, GroupBegins, GroupEnds, StopScoring, StopList, StopRead,
                      StopConverge, SweepConverge
  <2>4. ASSUME NEW ids \in SUBSET Attempts, SweepRead(ids)
        PROVE  UNCHANGED <<task, cancelled>>
    BY <2>4 DEF SweepRead
  <2> QED
    BY <1>1, <1>2, <1>3, <1>4, <1>5, <1>6, <1>7, <1>8, <2>1, <2>2, <2>3, <2>4
       DEF Next

-----------------------------------------------------------------------------
(* The rows.                                                               *)

\* What a step does to one row.
RowMove(a) ==
  \/ attempt'[a] = attempt[a]
  \/ /\ attempt'[a] = FinalizedNoScore("cli_error")
     /\ \/ a \in lowDisk
        \/ a \notin cancelled /\ task[a] \in {"waiting", "preparing", "agent"}
  \/ /\ attempt'[a] = EnqueuedRow("completed")
     /\ a \notin cancelled /\ task[a] = "agent"
  \/ /\ attempt'[a] = Running(attempt[a])
     /\ a \notin cancelled /\ task[a] = "waiting"
  \/ attempt'[a] = ScoringStopped(attempt[a]) /\ a \in jobs
  \/ /\ attempt'[a] = Converged(attempt[a], stop.open[a], UserStopped)
     /\ stop.phase = "read" /\ stop' = Idle
  \/ /\ attempt'[a] = Converged(attempt[a], sweep.open[a], ExecutionOverdue)
     /\ sweep.phase = "read"

LEMMA RowsMove ==
  ASSUME Types, [Next]_vars
  PROVE  \A a \in Attempts : RowMove(a)
<1>1. CASE UNCHANGED attempt
  BY <1>1 DEF RowMove
<1>2. ASSUME NEW a \in Attempts, Acquire(a)
      PROVE  \A b \in Attempts : RowMove(b)
  BY <1>2 DEF Acquire, At, Finalize, RowMove, Types
<1>3. ASSUME NEW a \in Attempts, MarkLowDisk(a)
      PROVE  \A b \in Attempts : RowMove(b)
  BY <1>3 DEF MarkLowDisk, Finalize, RowMove, Types
<1>4. ASSUME NEW a \in Attempts, PrepareFails(a)
      PROVE  \A b \in Attempts : RowMove(b)
  BY <1>4 DEF PrepareFails, At, Finalize, RowMove, Types
<1>5. ASSUME NEW a \in Attempts, AgentEnds(a)
      PROVE  \A b \in Attempts : RowMove(b)
  BY <1>5 DEF AgentEnds, At, Finalize, RowMove, Types
<1>6. CASE StopScoring
  BY <1>6 DEF StopScoring, RowMove
<1>7. CASE StopConverge
  BY <1>7 DEF StopConverge, ConvergeAll, RowMove
<1>8. CASE SweepConverge
  BY <1>8 DEF SweepConverge, ConvergeAll, RowMove
<1> QED
  <2>1. ASSUME NEW a \in Attempts,
               StartAgent(a) \/ Leave(a) \/ HandleCancel(a) \/ Callback(a)
        PROVE  UNCHANGED attempt
    BY <2>1 DEF StartAgent, Leave, HandleCancel, Callback, rows
  <2>2. ASSUME NEW r \in Runs, Launch(r) \/ NextTask(r) \/ StopTasks(r)
        PROVE  UNCHANGED attempt
    BY <2>2 DEF Launch, NextTask, StopTasks, rows
  <2>3. CASE UNCHANGED vars \/ GroupBegins \/ GroupEnds \/ StopList \/ StopRead
    BY <2>3, <1>1 DEF vars, rows, GroupBegins, GroupEnds, StopList, StopRead
  <2>4. ASSUME NEW ids \in SUBSET Attempts, SweepRead(ids)
        PROVE  UNCHANGED attempt
    BY <2>4 DEF SweepRead, rows
  <2> QED
    BY <1>1, <1>2, <1>3, <1>4, <1>5, <1>6, <1>7, <1>8, <2>1, <2>2, <2>3, <2>4
       DEF Next

\* What the writers store on the execution axis, and what they leave open.
LEMMA WrittenFields ==
  /\ FinalizedNoScore("cli_error").exec = "failed"
  /\ OpenAxes(FinalizedNoScore("cli_error")) = {}
  /\ EnqueuedRow("completed").exec = "completed"
  /\ \A row \in Row :
       /\ Running(row).exec # "cancelled" \/ Running(row) = row
       /\ ScoringStopped(row).exec = row.exec
       /\ OpenAxes(ScoringStopped(row)) \subseteq OpenAxes(row)
       /\ row.exec \in OpenExecution => "exec" \in OpenAxes(row)
<1>1. /\ FinalizedNoScore("cli_error").exec = "failed"
      /\ OpenAxes(FinalizedNoScore("cli_error")) = {}
  BY DEF FinalizedNoScore, OpenAxes, OpenLegacy, OpenExecution, OpenScoring
<1>2. EnqueuedRow("completed").exec = "completed"
  BY DEF EnqueuedRow, AdapterVerdict
<1>3. ASSUME NEW row \in Row
      PROVE  Running(row).exec # "cancelled" \/ Running(row) = row
  <2> DEFINE begun == [row EXCEPT !.status = "running"]
  <2>1. begun \in Row
    BY DEF Row, LegacyStatus
  <2> HIDE DEF begun
  <2>2. [begun EXCEPT !.exec = "running"].exec = "running"
    BY <2>1 DEF Row
  <2> USE DEF begun
  <2>3. row.status = "queued" => Running(row).exec = "running"
    BY <2>2, Zenon DEF Running
  <2>4. row.status # "queued" => Running(row) = row
    BY DEF Running
  <2> QED
    BY <2>3, <2>4
<1>4. ASSUME NEW row \in Row
      PROVE  /\ ScoringStopped(row).exec = row.exec
             /\ OpenAxes(ScoringStopped(row)) \subseteq OpenAxes(row)
             /\ row.exec \in OpenExecution => "exec" \in OpenAxes(row)
  BY DEF ScoringStopped, OpenAxes, Axes, OpenLegacy, OpenExecution, OpenScoring
<1> QED
  BY <1>1, <1>2, <1>3, <1>4

\* What converge_attempts stores: nothing where it read nothing, and no axis is
\* open afterwards that was not before.
LEMMA ConvergedFields ==
  ASSUME NEW row \in Row, NEW open \in SUBSET Axes
  PROVE  /\ Converged(row, open, UserStopped).exec =
              IF "exec" \in open THEN "cancelled" ELSE row.exec
         /\ Converged(row, open, ExecutionOverdue).exec =
              IF "exec" \in open THEN "timeout" ELSE row.exec
         /\ OpenAxes(Converged(row, open, UserStopped)) \subseteq OpenAxes(row) \ open
         /\ OpenAxes(Converged(row, open, ExecutionOverdue)) \subseteq OpenAxes(row) \ open
         /\ open = {} => /\ Converged(row, open, UserStopped) = row
                        /\ Converged(row, open, ExecutionOverdue) = row
<1>1. /\ Converged(row, open, UserStopped).exec =
           IF "exec" \in open THEN "cancelled" ELSE row.exec
      /\ Converged(row, open, ExecutionOverdue).exec =
           IF "exec" \in open THEN "timeout" ELSE row.exec
  BY DEF Converged, UserStopped, ExecutionOverdue
<1>2. OpenAxes(Converged(row, open, UserStopped)) \subseteq OpenAxes(row) \ open
  BY DEF OpenAxes, Axes, Converged, UserStopped, OpenLegacy, OpenExecution, OpenScoring
<1>3. OpenAxes(Converged(row, open, ExecutionOverdue)) \subseteq OpenAxes(row) \ open
  BY DEF OpenAxes, Axes, Converged, ExecutionOverdue, OpenLegacy, OpenExecution,
         OpenScoring
<1>4. open = {} => /\ Converged(row, open, UserStopped) = row
                   /\ Converged(row, open, ExecutionOverdue) = row
  BY DEF Row, Converged
<1> QED
  BY <1>1, <1>2, <1>3, <1>4

\* What is read is there.
LEMMA ReadTypes ==
  ASSUME Types, NEW a \in Attempts
  PROVE  /\ stop.phase = "read" =>
              /\ stop # Idle /\ stop.open[a] \in SUBSET Axes
              /\ stop.open[a] # {} => a \in AttemptsOf(stop.run)
         /\ sweep.phase = "read" => sweep.open[a] \in SUBSET Axes
<1>1. Idle.phase # "read"
  BY DEF Idle
<1> HIDE DEF AttemptsOf
<1> QED
  BY <1>1 DEF Types

\* What no stop missed and a stop has reached, or is about to close.
Reached(a) == \/ attempt[a].exec = "cancelled"
              \/ stop # Idle /\ a \in AttemptsOf(stop.run)

\* No step adds an open axis to the row of such an attempt.
LEMMA ReachedShrinks ==
  ASSUME Types, StopReaches, [Next]_vars, NEW a \in Attempts \ missed, Reached(a)
  PROVE  OpenAxes(attempt'[a]) \subseteq OpenAxes(attempt[a])
<1>1. attempt[a] \in Row /\ RowMove(a)
  BY RowsMove DEF Types
<1>2. Quiet(a)
  BY DEF StopReaches, Reached
<1>3. ~(a \notin cancelled /\ task[a] \in {"waiting", "preparing", "agent"})
  BY <1>2 DEF Quiet, Over
<1>4. CASE stop.phase = "read"
           /\ attempt'[a] = Converged(attempt[a], stop.open[a], UserStopped)
  BY <1>1, <1>4, ReadTypes, ConvergedFields
<1>5. CASE sweep.phase = "read"
           /\ attempt'[a] = Converged(attempt[a], sweep.open[a], ExecutionOverdue)
  BY <1>1, <1>5, ReadTypes, ConvergedFields
<1>6. CASE attempt'[a] = FinalizedNoScore("cli_error")
  BY <1>6, WrittenFields
<1>7. CASE attempt'[a] = ScoringStopped(attempt[a])
  BY <1>1, <1>7, WrittenFields
<1> QED
  BY <1>1, <1>3, <1>4, <1>5, <1>6, <1>7 DEF RowMove

\* A row becomes "cancelled" by a stop that read its execution as open.
LEMMA BecomesCancelled ==
  ASSUME Types, [Next]_vars, NEW a \in Attempts,
         attempt'[a].exec = "cancelled", attempt[a].exec # "cancelled"
  PROVE  /\ stop.phase = "read" /\ stop' = Idle /\ "exec" \in stop.open[a]
         /\ attempt'[a] = Converged(attempt[a], stop.open[a], UserStopped)
         /\ Reached(a)
<1>1. attempt[a] \in Row /\ RowMove(a)
  BY RowsMove DEF Types
<1>2. CASE sweep.phase = "read"
           /\ attempt'[a] = Converged(attempt[a], sweep.open[a], ExecutionOverdue)
  BY <1>1, <1>2, ReadTypes, ConvergedFields
<1>3. /\ stop.phase = "read" /\ stop' = Idle
      /\ attempt'[a] = Converged(attempt[a], stop.open[a], UserStopped)
  <2>1. attempt'[a] # FinalizedNoScore("cli_error") /\ attempt'[a] # EnqueuedRow("completed")
    BY WrittenFields
  <2>2. attempt'[a] # Running(attempt[a]) /\ attempt'[a] # ScoringStopped(attempt[a])
    BY <1>1, WrittenFields
  <2> QED
    BY <1>1, <1>2, <2>1, <2>2 DEF RowMove
<1>4. "exec" \in stop.open[a]
  BY <1>1, <1>3, ReadTypes, ConvergedFields
<1> QED
  BY <1>3, <1>4, ReadTypes DEF Reached

\* The attempts a stop missed stay missed.
LEMMA MissedStays == [Next]_vars => missed \subseteq missed'
BY DEF Next, vars, GroupBegins, GroupEnds, Launch, NextTask, StopTasks, Acquire,
       MarkLowDisk, PrepareFails, StartAgent, AgentEnds, Leave, HandleCancel, Callback,
       StopScoring, StopList, StopRead, StopConverge, SweepRead, SweepConverge

LEMMA NextClosedRows ==
  ASSUME Types, ClosedRows, ReadCovers, StopReaches, [Next]_vars
  PROVE  ClosedRows'
<1> SUFFICES ASSUME NEW a \in Attempts \ missed', attempt'[a].exec = "cancelled"
             PROVE  OpenAxes(attempt'[a]) = {}
  BY DEF ClosedRows, OpenAxes
<1>1. a \in Attempts \ missed /\ attempt[a] \in Row
  BY MissedStays DEF Types
<1>2. CASE attempt[a].exec = "cancelled"
  BY <1>1, <1>2, ReachedShrinks DEF ClosedRows, Reached
<1>3. CASE attempt[a].exec # "cancelled"
  <2>1. /\ stop.phase = "read" /\ "exec" \in stop.open[a]
        /\ attempt'[a] = Converged(attempt[a], stop.open[a], UserStopped)
    BY <1>1, <1>3, BecomesCancelled
  <2>2. OpenAxes(attempt[a]) \subseteq stop.open[a]
    BY <1>1, <2>1 DEF ReadCovers
  <2> QED
    BY <1>1, <2>1, <2>2, ReadTypes, ConvergedFields
<1> QED
  BY <1>2, <1>3

\* A job is new only after the agent of an attempt that no stop has reached.
LEMMA NewJob ==
  ASSUME Types, StopReaches, [Next]_vars, NEW a \in jobs', a \notin jobs
  PROVE  /\ a \in Attempts /\ task'[a] = "closing"
         /\ attempt'[a] = EnqueuedRow("completed") /\ UNCHANGED stop
         /\ a \in missed \/ ~Reached(a)
<1>1. a \in Attempts /\ AgentEnds(a)
  BY DEF Next, vars, rows, GroupBegins, GroupEnds, Launch, NextTask, StopTasks,
         Acquire, MarkLowDisk, PrepareFails, StartAgent, AgentEnds, Leave,
         HandleCancel, Callback, StopScoring, StopList, StopRead, StopConverge,
         SweepRead, SweepConverge
<1>2. task'[a] = "closing"
  BY <1>1 DEF AgentEnds, Goto, Types
<1>3. attempt'[a] = EnqueuedRow("completed") /\ UNCHANGED stop
  BY <1>1 DEF AgentEnds, Types, control
<1>4. ~Quiet(a)
  BY <1>1 DEF AgentEnds, At, Quiet, Over
<1> QED
  BY <1>1, <1>2, <1>3, <1>4 DEF StopReaches, Reached

LEMMA NextJobsAfterAgent ==
  ASSUME Types, JobsAfterAgent, ReadCovers, StopReaches, InPlanOrder, CancelsAreLive,
         [Next]_vars
  PROVE  JobsAfterAgent'
<1> SUFFICES ASSUME NEW a \in jobs'
             PROVE  /\ task'[a] \in Over \union {"closing"}
                    /\ attempt'[a].exec \notin OpenExecution
                    /\ attempt'[a].exec = "cancelled" => a \in missed'
  BY DEF JobsAfterAgent
<1>1. CASE a \in jobs
  <2>1. a \in Attempts /\ attempt[a] \in Row
    BY <1>1 DEF Types
  <2>2. /\ task[a] \in Over \union {"closing"}
        /\ attempt[a].exec \notin OpenExecution
        /\ attempt[a].exec = "cancelled" => a \in missed
    BY <1>1 DEF JobsAfterAgent
  <2>3. TaskMove(a) /\ RowMove(a)
    BY <2>1, TasksMove, RowsMove
  <2>4. task'[a] \in Over \union {"closing"}
    BY <2>2, <2>3 DEF TaskMove, Over, Holding
  <2>5. attempt'[a].exec \notin OpenExecution
    <3>1. CASE stop.phase = "read"
               /\ attempt'[a] = Converged(attempt[a], stop.open[a], UserStopped)
      BY <2>1, <2>2, <3>1, ReadTypes, ConvergedFields DEF OpenExecution
    <3>2. CASE sweep.phase = "read"
               /\ attempt'[a] = Converged(attempt[a], sweep.open[a], ExecutionOverdue)
      BY <2>1, <2>2, <3>2, ReadTypes, ConvergedFields DEF OpenExecution
    <3> QED
      BY <2>1, <2>2, <2>3, <3>1, <3>2, WrittenFields DEF RowMove, Over, OpenExecution
  <2>6. attempt'[a].exec = "cancelled" => a \in missed
    BY <1>1, <2>1, <2>2, BecomesCancelled DEF ReadCovers
  <2> QED
    BY <2>4, <2>5, <2>6, MissedStays
<1>2. CASE a \notin jobs
  BY <1>2, NewJob, WrittenFields DEF OpenExecution
<1> QED
  BY <1>1, <1>2

LEMMA NextReadCovers ==
  ASSUME Types, ClosedRows, JobsAfterAgent, ReadCovers, StopReaches, [Next]_vars
  PROVE  ReadCovers'
<1> SUFFICES ASSUME stop'.phase = "read", NEW a \in Attempts \ missed'
             PROVE  /\ "exec" \in stop'.open[a] =>
                         /\ a \notin jobs'
                         /\ OpenAxes(attempt'[a]) \subseteq stop'.open[a]
                    /\ attempt'[a].exec = "cancelled" => stop'.open[a] = {}
  BY DEF ReadCovers, OpenAxes
<1>1. a \in Attempts \ missed /\ attempt[a] \in Row
  BY MissedStays DEF Types
<1>2. Idle.phase # "read"
  BY DEF Idle
<1>3. CASE StopRead
  <2>1. /\ stop'.open = Reading(stop.ids) /\ attempt' = attempt /\ jobs' = jobs
    BY <1>2, <1>3 DEF StopRead, rows
  <2>2. stop'.open[a] = IF a \in stop.ids THEN OpenAxes(attempt[a]) ELSE {}
    BY <1>1, <2>1 DEF Reading
  <2>3. "exec" \in OpenAxes(attempt[a]) => a \notin jobs
    BY DEF JobsAfterAgent, OpenAxes
  <2>4. attempt[a].exec = "cancelled" => OpenAxes(attempt[a]) = {}
    BY <1>1 DEF ClosedRows
  <2> QED
    BY <2>1, <2>2, <2>3, <2>4
<1>4. CASE ~StopRead
  <2>1. UNCHANGED stop
    <3>1. ASSUME StopScoring
          PROVE  FALSE
      <4>1. PICK r \in Runs : stop = [phase |-> "tasks", run |-> r]
        BY <3>1 DEF StopScoring, Types, Idle
      <4> QED
        BY <3>1, <4>1 DEF StopScoring
    <3>2. ~StopList /\ ~StopConverge /\ \A r \in Runs : ~StopTasks(r)
      BY <1>2 DEF StopList, StopConverge, StopTasks
    <3> QED
      BY <1>4, <3>1, <3>2
         DEF Next, vars, control, GroupBegins, GroupEnds, Launch, NextTask, Acquire,
             MarkLowDisk, PrepareFails, StartAgent, AgentEnds, Leave, HandleCancel,
             Callback, SweepRead, SweepConverge
  <2>2. stop.open[a] # {} => Reached(a)
    BY <1>1, <2>1, ReadTypes DEF Reached
  <2>3. "exec" \in stop.open[a] => a \notin jobs'
    BY <1>1, <2>1, <2>2, NewJob DEF ReadCovers
  <2>4. "exec" \in stop.open[a] => OpenAxes(attempt'[a]) \subseteq stop.open[a]
    BY <1>1, <2>1, <2>2, ReachedShrinks DEF ReadCovers
  <2>5. attempt'[a].exec = "cancelled" => attempt[a].exec = "cancelled"
    BY <1>1, <1>2, <2>1, BecomesCancelled
  <2> QED
    BY <1>1, <2>1, <2>3, <2>4, <2>5 DEF ReadCovers
<1> QED
  BY <1>3, <1>4

-----------------------------------------------------------------------------
(* Cancels and dispatchers.                                                *)

\* A task that ends has no cancel on its way any more; one that goes on is not
\* over.
LEMMA EndsWithoutCancel ==
  ASSUME Types, CancelsAreLive, NEW a \in Attempts, NEW phase \in Places,
         \/ phase \notin Over \union {"none"} /\ Goto(a, phase)
         \/ End(a, phase)
  PROVE  CancelsAreLive'
BY DEF Types, CancelsAreLive, Goto, End

LEMMA NextCancelsAreLive ==
  ASSUME Types, InPlanOrder, CancelsAreLive, [Next]_vars
  PROVE  CancelsAreLive'
<1> USE DEF CancelsAreLive
<1>1. CASE UNCHANGED <<task, cancelled, callbacks>>
  BY <1>1
<1>2. ASSUME NEW r \in Runs, Launch(r)
      PROVE  CancelsAreLive'
  BY <1>2 DEF Launch, Over, Types
<1>3. ASSUME NEW r \in Runs, NextTask(r)
      PROVE  CancelsAreLive'
  BY <1>3 DEF NextTask, Goto, Over, Types
<1>4. ASSUME NEW r \in Runs, StopTasks(r)
      PROVE  CancelsAreLive'
  BY <1>4 DEF StopTasks, Live
<1>5. ASSUME NEW a \in Attempts, Callback(a)
      PROVE  CancelsAreLive'
  BY <1>5 DEF Callback
<1>6. ASSUME NEW ids \in SUBSET Attempts, SweepRead(ids)
      PROVE  CancelsAreLive'
  BY <1>6 DEF SweepRead, Registered, Holding, Over
<1>7. ASSUME NEW a \in Attempts,
             \/ Acquire(a) \/ MarkLowDisk(a) \/ PrepareFails(a) \/ StartAgent(a)
             \/ AgentEnds(a) \/ Leave(a) \/ HandleCancel(a)
      PROVE  CancelsAreLive'
  <2>1. \/ \E phase \in {"marking", "preparing", "agent", "closing"} : Goto(a, phase)
        \/ \E phase \in Over : End(a, phase)
        \/ UNCHANGED <<task, cancelled, callbacks>>
    BY <1>7 DEF Acquire, MarkLowDisk, PrepareFails, StartAgent, AgentEnds, Leave,
                HandleCancel, Over
  <2> QED
    BY <2>1, <1>1, EndsWithoutCancel DEF Places, Holding, Over
<1>8. CASE \/ UNCHANGED vars \/ GroupBegins \/ GroupEnds \/ StopScoring
           \/ StopList \/ StopRead \/ StopConverge \/ SweepConverge
  BY <1>8 DEF vars, GroupBegins, GroupEnds, StopScoring, StopList, StopRead,
              StopConverge, SweepConverge
<1> QED
  BY <1>1, <1>2, <1>3, <1>4, <1>5, <1>6, <1>7, <1>8 DEF Next

\* The order of the tasks of one run.
Ordered(r) ==
  /\ run[r].phase = "submitted" => \A a \in AttemptsOf(r) : task[a] = "none"
  /\ run[r].phase # "submitted" =>
       /\ run[r].at \in DOMAIN Plan[r]
       /\ r \notin Serial => run[r].at = Len(Plan[r])
       /\ \A i \in DOMAIN Plan[r] :
            /\ i > run[r].at <=> task[Plan[r][i]] = "none"
            /\ r \in Serial /\ i < run[r].at => task[Plan[r][i]] \in Over

\* A run keeps its order while its dispatcher does nothing and none of its
\* tasks is created.
LEMMA OrderKept ==
  ASSUME Types, NEW r \in Runs, Ordered(r), run'[r] = run[r],
         \A a \in AttemptsOf(r) : /\ task[a] = "none" <=> task'[a] = "none"
                                  /\ task[a] \in Over => task'[a] \in Over
  PROVE  Ordered(r)'
<1>1. \A i \in DOMAIN Plan[r] : Plan[r][i] \in AttemptsOf(r)
  BY PlanFacts
<1> HIDE DEF AttemptsOf
<1> QED
  BY <1>1 DEF Ordered

LEMMA NextInPlanOrder ==
  ASSUME Types, InPlanOrder, CancelsAreLive, [Next]_vars
  PROVE  InPlanOrder'
<1> SUFFICES ASSUME NEW r \in Runs
             PROVE  Ordered(r)'
  BY DEF InPlanOrder, Ordered
<1>1. Ordered(r)
  BY DEF InPlanOrder, Ordered
<1>2. \A a \in Attempts : TaskMove(a)
  BY TasksMove
<1>3. AttemptsOf(r) \subseteq Attempts
  BY PlanFacts
<1>4. CASE run' = run
  <2>1. \A a \in AttemptsOf(r) : /\ task[a] = "none" <=> task'[a] = "none"
                                 /\ task[a] \in Over => task'[a] \in Over
    BY <1>2, <1>3, <1>4 DEF TaskMove, Over, Holding
  <2> QED
    BY <1>1, <1>4, <2>1, OrderKept
<1>5. ASSUME NEW s \in Runs, s # r, Launch(s) \/ NextTask(s)
      PROVE  Ordered(r)'
  <2>1. run'[r] = run[r]
    BY <1>5 DEF Launch, NextTask, Types
  <2>2. \A a \in AttemptsOf(r) : task'[a] = task[a]
    <3>1. \A i \in DOMAIN Plan[s] : Plan[s][i] \notin AttemptsOf(r)
      BY <1>5, PlanFacts
    <3>2. CASE Launch(s)
      <4> DEFINE first == IF s \in Serial THEN 1 ELSE Len(Plan[s])
      <4>1. task' = [a \in Attempts |->
               IF \E i \in 1..first : a = Plan[s][i] THEN "waiting" ELSE task[a]]
        BY <3>2 DEF Launch
      <4>2. \A i \in 1..first : i \in DOMAIN Plan[s]
        BY PlanFacts
      <4> HIDE DEF first, AttemptsOf
      <4> QED
        BY <3>1, <4>1, <4>2, <1>3
    <3>3. CASE NextTask(s)
      <4>1. CASE s \in Serial /\ run[s].at < Len(Plan[s]) /\ GoesOn(Plan[s][run[s].at])
        <5>1. task' = [task EXCEPT ![Plan[s][run[s].at + 1]] = "waiting"]
          BY <3>3, <4>1 DEF NextTask, Goto
        <5>2. run[s].at + 1 \in DOMAIN Plan[s]
          BY <4>1, PlanFacts DEF Types
        <5> HIDE DEF AttemptsOf
        <5> QED
          BY <3>1, <5>1, <5>2, <1>3 DEF Types
      <4>2. CASE ~(s \in Serial /\ run[s].at < Len(Plan[s]) /\ GoesOn(Plan[s][run[s].at]))
        BY <3>3, <4>2 DEF NextTask
      <4> QED
        BY <4>1, <4>2
    <3> QED
      BY <1>5, <3>2, <3>3
  <2> QED
    BY <1>1, <2>1, <2>2, OrderKept
<1>6. CASE Launch(r)
  <2> DEFINE first == IF r \in Serial THEN 1 ELSE Len(Plan[r])
  <2>1. /\ task' = [a \in Attempts |->
             IF \E i \in 1..first : a = Plan[r][i] THEN "waiting" ELSE task[a]]
        /\ run' = [run EXCEPT ![r] = [phase |-> "driving", at |-> first]]
        /\ run[r].phase = "submitted"
    BY <1>6 DEF Launch
  <2>2. run'[r].phase = "driving" /\ run'[r].at = first
    BY <2>1 DEF Types
  <2>3. /\ first \in DOMAIN Plan[r] /\ first \in Nat /\ DOMAIN Plan[r] = 1..Len(Plan[r])
        /\ r \notin Serial => first = Len(Plan[r])
        /\ r \in Serial => first = 1
    BY PlanFacts
  <2>4. ASSUME NEW i \in DOMAIN Plan[r], i > first
        PROVE  task'[Plan[r][i]] = "none"
    <3>1. \A k \in 1..first : k \in DOMAIN Plan[r] /\ Plan[r][k] # Plan[r][i]
      BY <2>3, <2>4, PlanFacts
    <3>2. task[Plan[r][i]] = "none" /\ Plan[r][i] \in Attempts
      BY <1>1, <2>1, PlanFacts DEF Ordered
    <3> HIDE DEF first
    <3> QED
      BY <2>1, <3>1, <3>2
  <2>5. \A i \in DOMAIN Plan[r] : ~(r \in Serial /\ i < first)
    BY <2>3
  <2>6. \A i \in DOMAIN Plan[r] : ~(i > first) => i \in 1..first
    BY <2>3
  <2>7. ASSUME NEW i \in DOMAIN Plan[r], ~(i > first)
        PROVE  task'[Plan[r][i]] # "none"
    <3>1. Plan[r][i] \in Attempts
      BY PlanFacts
    <3> HIDE DEF first
    <3> QED
      BY <2>1, <2>6, <2>7, <3>1
  <2> HIDE DEF first
  <2> QED
    BY <2>2, <2>3, <2>4, <2>5, <2>7 DEF Ordered
<1>7. CASE NextTask(r)
  <2> DEFINE at == run[r].at
  <2>1. run[r].phase = "driving" /\ \A k \in 1..at : task[Plan[r][k]] \in Over
    BY <1>7 DEF NextTask
  <2>2. /\ at \in DOMAIN Plan[r] /\ at \in Nat /\ DOMAIN Plan[r] = 1..Len(Plan[r])
        /\ r \notin Serial => at = Len(Plan[r])
        /\ Len(Plan[r]) \in Nat
    BY <1>1, <2>1, PlanFacts DEF Ordered, Types
  <2>3. \A i \in DOMAIN Plan[r] : i > at <=> task[Plan[r][i]] = "none"
    BY <1>1, <2>1 DEF Ordered
  <2>4. CASE r \in Serial /\ at < Len(Plan[r]) /\ GoesOn(Plan[r][at])
    <3>1. /\ task' = [task EXCEPT ![Plan[r][at + 1]] = "waiting"]
          /\ run' = [run EXCEPT ![r].at = at + 1]
      BY <1>7, <2>4 DEF NextTask, Goto
    <3>2. run'[r].at = at + 1 /\ run'[r].phase = "driving"
      BY <2>1, <3>1 DEF Types
    <3>3. at + 1 \in DOMAIN Plan[r]
      BY <2>2, <2>4
    <3>4. \A i \in DOMAIN Plan[r] : i # at + 1 => task'[Plan[r][i]] = task[Plan[r][i]]
      <4>1. \A i \in DOMAIN Plan[r] :
              /\ Plan[r][i] \in Attempts
              /\ i # at + 1 => Plan[r][i] # Plan[r][at + 1]
        BY <3>3, PlanFacts
      <4> HIDE DEF at
      <4> QED
        BY <3>1, <4>1 DEF Types
    <3>5. ASSUME NEW i \in DOMAIN Plan[r]
          PROVE  /\ i > at + 1 <=> task'[Plan[r][i]] = "none"
                 /\ i < at + 1 => task'[Plan[r][i]] \in Over
      <4>1. /\ i < at + 1 => i \in 1..at /\ ~(i > at)
            /\ i > at + 1 => i > at
            /\ ~(i > at + 1) => i = at + 1 \/ i < at + 1
            /\ ~(at + 1 > at + 1) /\ ~(at + 1 < at + 1)
            /\ i < at + 1 => i # at + 1
            /\ i > at + 1 => i # at + 1
        BY <2>2
      <4>2. task'[Plan[r][at + 1]] = "waiting"
        BY <3>1, <3>3, PlanFacts DEF Types
      <4> HIDE DEF at
      <4> QED
        BY <2>1, <2>2, <2>3, <3>4, <4>1, <4>2
    <3> HIDE DEF at
    <3> QED
      BY <2>4, <3>2, <3>3, <3>5 DEF Ordered
  <2>5. CASE ~(r \in Serial /\ at < Len(Plan[r]) /\ GoesOn(Plan[r][at]))
    <3>1. task' = task /\ run' = [run EXCEPT ![r].phase = "done"]
      BY <1>7, <2>5 DEF NextTask
    <3>2. run'[r].at = at /\ run'[r].phase = "done"
      BY <3>1 DEF Types
    <3> QED
      BY <1>1, <2>1, <3>1, <3>2 DEF Ordered
  <2> QED
    BY <2>4, <2>5
<1> QED
  <2>1. \/ run' = run
        \/ \E s \in Runs : Launch(s) \/ NextTask(s)
    BY DEF Next, vars, control, GroupBegins, GroupEnds, StopTasks, Acquire, MarkLowDisk,
           PrepareFails, StartAgent, AgentEnds, Leave, HandleCancel, Callback,
           StopScoring, StopList, StopRead, StopConverge, SweepRead, SweepConverge
  <2> QED
    BY <1>4, <1>5, <1>6, <1>7, <2>1

-----------------------------------------------------------------------------
(* What a stop reaches.                                                    *)

\* A task is created by a dispatcher that is not dead.
LEMMA CreatedByLiving ==
  ASSUME Types, InPlanOrder, CancelsAreLive, [Next]_vars,
         NEW a \in Attempts, task[a] = "none", task'[a] # "none"
  PROVE  \E r \in Runs : a \in AttemptsOf(r) /\ ~Dead(r)
<1>1. TaskMove(a)
  BY TasksMove
<1>2. run' # run
  BY <1>1 DEF TaskMove, Holding
<1>3. PICK r \in Runs : Launch(r) \/ NextTask(r)
  BY <1>2 DEF Next, vars, control, GroupBegins, GroupEnds, StopTasks, Acquire,
              MarkLowDisk, PrepareFails, StartAgent, AgentEnds, Leave, HandleCancel,
              Callback, StopScoring, StopList, StopRead, StopConverge, SweepRead,
              SweepConverge
<1>4. CASE Launch(r)
  <2> DEFINE first == IF r \in Serial THEN 1 ELSE Len(Plan[r])
  <2>1. /\ task' = [b \in Attempts |->
             IF \E i \in 1..first : b = Plan[r][i] THEN "waiting" ELSE task[b]]
        /\ run[r].phase = "submitted"
    BY <1>4 DEF Launch
  <2>2. \A i \in 1..first : i \in DOMAIN Plan[r]
    BY PlanFacts
  <2>3. \E i \in 1..first : a = Plan[r][i]
    BY <2>1
  <2>4. a \in AttemptsOf(r)
    BY <2>2, <2>3, PlanFacts
  <2> QED
    BY <2>1, <2>4 DEF Dead
<1>5. CASE NextTask(r)
  <2> DEFINE at == run[r].at
  <2>1. /\ run[r].phase = "driving" /\ at \in DOMAIN Plan[r]
        /\ DOMAIN Plan[r] = 1..Len(Plan[r]) /\ at \in Nat /\ Len(Plan[r]) \in Nat
    BY <1>5, PlanFacts DEF NextTask, InPlanOrder, Types
  <2>2. r \in Serial /\ at < Len(Plan[r]) /\ GoesOn(Plan[r][at])
    BY <1>5 DEF NextTask
  <2>3. task' = [task EXCEPT ![Plan[r][at + 1]] = "waiting"]
    BY <1>5, <2>2 DEF NextTask, Goto
  <2>4. a = Plan[r][at + 1]
    BY <2>3 DEF Types
  <2>5. a \in AttemptsOf(r)
    BY <2>1, <2>2, <2>4, PlanFacts
  <2>6. task[Plan[r][at]] = "ended" /\ Plan[r][at] \notin cancelled
    BY <2>2 DEF GoesOn, CancelsAreLive, Over
  <2> QED
    BY <2>1, <2>5, <2>6 DEF Dead
<1> QED
  BY <1>3, <1>4, <1>5

\* A dead dispatcher stays dead.
LEMMA DeadStays ==
  ASSUME Types, InPlanOrder, CancelsAreLive, [Next]_vars, NEW r \in Runs, Dead(r)
  PROVE  Dead(r)'
<1> DEFINE last == Plan[r][run[r].at]
<1>1. run[r].phase # "submitted"
  BY DEF Dead
<1>2. /\ run[r].at \in DOMAIN Plan[r] /\ last \in Attempts
      /\ DOMAIN Plan[r] = 1..Len(Plan[r]) /\ run[r].at \in Nat
  BY <1>1, PlanFacts DEF InPlanOrder, Types
<1>3. TaskMove(last)
  BY <1>2, TasksMove
<1>4. CASE run'[r] = run[r]
  <2>1. last \in cancelled => last \in cancelled' \/ task'[last] = "cut"
    BY <1>3 DEF TaskMove, CancelsAreLive
  <2>2. task[last] = "cut" => task'[last] = "cut"
    BY <1>3 DEF TaskMove, Holding
  <2> QED
    BY <1>4, <2>1, <2>2 DEF Dead
<1>5. CASE NextTask(r)
  <2>1. run[r].phase = "driving" /\ \A k \in 1..run[r].at : task[Plan[r][k]] \in Over
    BY <1>5 DEF NextTask
  <2>2. task[last] \in Over
    BY <1>2, <2>1
  <2>3. task[last] = "cut"
    BY <2>1, <2>2 DEF Dead, CancelsAreLive
  <2>4. run' = [run EXCEPT ![r].phase = "done"]
    BY <1>5, <2>3 DEF NextTask, GoesOn
  <2> QED
    BY <2>4 DEF Dead, Types
<1> QED
  <2>1. \/ run'[r] = run[r]
        \/ Launch(r) \/ NextTask(r)
    <3>1. run \in [Runs -> [phase : {"submitted", "driving", "done"}, at : Nat]]
      BY DEF Types
    <3>2. ASSUME NEW s \in Runs \ {r}, Launch(s) \/ NextTask(s)
          PROVE  run'[r] = run[r]
      BY <3>1, <3>2 DEF Launch, NextTask
    <3> QED
      BY <3>2
         DEF Next, vars, control, GroupBegins, GroupEnds, StopTasks, Acquire,
             MarkLowDisk, PrepareFails, StartAgent, AgentEnds, Leave, HandleCancel,
             Callback, StopScoring, StopList, StopRead, StopConverge, SweepRead,
             SweepConverge
  <2> QED
    BY <1>1, <1>4, <1>5, <2>1 DEF Launch

\* What is quiet stays quiet.
LEMMA QuietStays ==
  ASSUME Types, InPlanOrder, CancelsAreLive, [Next]_vars,
         NEW a \in Attempts, Quiet(a)
  PROVE  Quiet(a)'
<1>1. TaskMove(a)
  BY TasksMove
<1>2. CASE task[a] \in Over
  BY <1>1, <1>2 DEF TaskMove, Over, Holding, Quiet
<1>3. CASE a \in cancelled
  BY <1>1, <1>3 DEF TaskMove, CancelsAreLive, Quiet, Over
<1>4. CASE task[a] = "none" /\ \A r \in Runs : a \in AttemptsOf(r) => Dead(r)
  <2>1. task'[a] = "none"
    BY <1>4, CreatedByLiving
  <2>2. \A r \in Runs : a \in AttemptsOf(r) => Dead(r)'
    BY <1>4, DeadStays
  <2> QED
    BY <2>1, <2>2 DEF Quiet, AttemptsOf
<1> QED
  BY <1>2, <1>3, <1>4 DEF Quiet

\* The first step of a stop cancels the tasks of the run; if there are some,
\* its dispatcher will create no other.
LEMMA StopTasksReaches ==
  ASSUME Types, InPlanOrder, CancelsAreLive, NEW r \in Runs, StopTasks(r),
         NEW a \in AttemptsOf(r)
  PROVE  a \in missed' \/ Quiet(a)'
<1>1. a \in Attempts /\ AttemptsOf(r) \subseteq Attempts
  BY PlanFacts
<1>2. task' = task /\ run' = run /\ cancelled' = cancelled \union Live(r)
  BY DEF StopTasks, rows
<1>3. CASE task[a] # "none"
  BY <1>1, <1>2, <1>3 DEF Live, Quiet
<1>4. CASE task[a] = "none" /\ Live(r) = {} /\ run[r].phase # "done"
  BY <1>4 DEF StopTasks
<1>5. CASE task[a] = "none" /\ (Live(r) # {} \/ run[r].phase = "done")
  <2>1. Dead(r)'
    <3>1. CASE run[r].phase = "done"
      BY <1>2, <3>1 DEF Dead
    <3>2. CASE Live(r) # {} /\ run[r].phase # "done"
      <4>1. PICK b \in AttemptsOf(r) : task[b] \notin Over \union {"none"}
        BY <3>2 DEF Live
      <4>2. run[r].phase = "driving"
        BY <3>2, <4>1 DEF InPlanOrder, Types
      <4>3. PICK i \in DOMAIN Plan[r] : a = Plan[r][i]
        BY DEF AttemptsOf
      <4>4. PICK j \in DOMAIN Plan[r] : b = Plan[r][j]
        BY DEF AttemptsOf
      <4>5. /\ DOMAIN Plan[r] = 1..Len(Plan[r]) /\ Len(Plan[r]) \in Nat
            /\ run[r].at \in 1..Len(Plan[r])
            /\ \A k \in DOMAIN Plan[r] :
                 /\ k > run[r].at <=> task[Plan[r][k]] = "none"
                 /\ r \in Serial /\ k < run[r].at => task[Plan[r][k]] \in Over
            /\ r \notin Serial => run[r].at = Len(Plan[r])
        BY <4>2, PlanFacts DEF InPlanOrder
      <4>6. r \in Serial
        <5>1. ASSUME r \notin Serial
              PROVE  FALSE
          <6>1. ~(i > run[r].at)
            BY <4>5, <5>1
          <6> QED
            BY <1>5, <4>3, <4>5, <6>1
        <5> QED
          BY <5>1
      <4>7. j = run[r].at
        BY <4>1, <4>4, <4>5, <4>6
      <4>8. b \in cancelled'
        BY <1>2, <4>1 DEF Live
      <4> QED
        BY <1>2, <4>2, <4>4, <4>6, <4>7, <4>8 DEF Dead
    <3> QED
      BY <1>5, <3>1, <3>2
  <2>2. \A s \in Runs : a \in AttemptsOf(s) => s = r
    BY PlanFacts
  <2> QED
    BY <1>2, <1>5, <2>1, <2>2 DEF Quiet, AttemptsOf
<1> QED
  BY <1>3, <1>4, <1>5

LEMMA NextStopReaches ==
  ASSUME IInv, [Next]_vars
  PROVE  StopReaches'
<1> USE DEF IInv
<1> SUFFICES ASSUME NEW a \in Attempts,
                    \/ attempt'[a].exec = "cancelled"
                    \/ stop' # Idle /\ a \in AttemptsOf(stop'.run)
             PROVE  a \in missed' \/ Quiet(a)'
  BY DEF StopReaches, AttemptsOf
<1>1. missed \subseteq missed'
  BY MissedStays
<1>2. CASE attempt[a].exec = "cancelled" \/ (stop # Idle /\ a \in AttemptsOf(stop.run))
  <2>1. a \in missed \/ Quiet(a)
    BY <1>2 DEF StopReaches
  <2> QED
    BY <2>1, <1>1, QuietStays
<1>3. CASE attempt'[a].exec = "cancelled"
  BY <1>2, <1>3, BecomesCancelled DEF Reached
<1>4. CASE stop' # Idle /\ a \in AttemptsOf(stop'.run)
  <2>1. CASE stop' = stop
    BY <1>2, <1>4, <2>1 DEF AttemptsOf
  <2>2. ASSUME NEW r \in Runs, StopTasks(r)
        PROVE  a \in missed' \/ Quiet(a)'
    <3>1. stop'.run = r
      BY <2>2 DEF StopTasks
    <3>2. a \in AttemptsOf(r)
      BY <1>4, <3>1 DEF AttemptsOf
    <3> QED
      BY <2>2, <3>2, StopTasksReaches
  <2>3. CASE StopScoring \/ StopList \/ StopRead
    <3>1. stop # Idle /\ stop'.run = stop.run
      <4>1. CASE StopScoring
        BY <4>1 DEF StopScoring, Idle, Types
      <4>2. CASE StopList
        BY <1>4, <4>2 DEF StopList, Idle
      <4>3. CASE StopRead
        BY <1>4, <4>3 DEF StopRead, Idle
      <4> QED
        BY <2>3, <4>1, <4>2, <4>3
    <3>2. a \in AttemptsOf(stop.run)
      BY <1>4, <3>1 DEF AttemptsOf
    <3> QED
      BY <1>2, <3>1, <3>2
  <2>4. CASE StopConverge
    BY <1>4, <2>4 DEF StopConverge
  <2> QED
    BY <2>1, <2>2, <2>3, <2>4
       DEF Next, vars, control, GroupBegins, GroupEnds, Launch, NextTask, Acquire,
           MarkLowDisk, PrepareFails, StartAgent, AgentEnds, Leave, HandleCancel,
           Callback, SweepRead, SweepConverge
<1> QED
  BY <1>3, <1>4

-----------------------------------------------------------------------------
(* The theorems.                                                           *)

LEMMA InitIInv == Init => IInv
<1> SUFFICES ASSUME Init
             PROVE  IInv
  OBVIOUS
<1>1. Types
  BY RowTypes DEF Init, Types, Idle
<1>2. \A a \in Attempts : attempt[a].exec = "queued"
  BY DEF Init, NewRow
<1>3. ClosedRows /\ JobsAfterAgent /\ ReadCovers /\ CancelsAreLive
  BY <1>2 DEF Init, ClosedRows, JobsAfterAgent, ReadCovers, CancelsAreLive, Idle
<1>4. InPlanOrder
  BY PlanFacts DEF Init, InPlanOrder
<1>5. StopReaches
  BY <1>2 DEF Init, StopReaches
<1> QED
  BY <1>1, <1>3, <1>4, <1>5 DEF IInv

LEMMA NextIInv == IInv /\ [Next]_vars => IInv'
BY NextTypes, NextClosedRows, NextJobsAfterAgent, NextReadCovers, NextCancelsAreLive,
   NextInPlanOrder, NextStopReaches DEF IInv

LEMMA Invariant == Spec => []IInv
BY InitIInv, NextIInv, PTL DEF Spec

\* No agent starts on an attempt a stop has closed, unless the stop found no
\* task of its run: the tasks the stop cancelled end at their next await, and
\* the dispatcher creates no other.
THEOREM StoppedStartsNoAgent == Spec => NoAgentAfterStop
<1>1. IInv /\ [Next]_vars =>
        \A a \in Attempts \ missed :
          task[a] # "agent" /\ task'[a] = "agent" => attempt[a].exec # "cancelled"
  <2> SUFFICES ASSUME IInv, [Next]_vars, NEW a \in Attempts \ missed,
                      task[a] # "agent", task'[a] = "agent"
               PROVE  attempt[a].exec # "cancelled"
    OBVIOUS
  <2>1. TaskMove(a)
    BY TasksMove DEF IInv
  <2>2. a \notin cancelled /\ task[a] \in Holding \union {"waiting"}
    BY <2>1 DEF TaskMove
  <2>3. ~Quiet(a)
    BY <2>2 DEF Quiet, Holding, Over
  <2> QED
    BY <2>3 DEF IInv, StopReaches
<1> QED
  BY <1>1, Invariant, PTL DEF Spec, NoAgentAfterStop

\* Nothing writes a row a stop has closed, but a thread or a sweep that came to it
\* before: every task is over or about to be cut, the row is closed on every axis
\* and was when a later stop or sweep read it, and it has no job.
THEOREM StoppedRowStays == Spec => StopIsTheEnd
<1>1. IInv /\ [Next]_vars =>
        \A a \in Attempts \ (missed \union lowDisk) :
          attempt[a].exec = "cancelled" /\ ~FoundOpen(a) => attempt'[a] = attempt[a]
  <2> SUFFICES ASSUME IInv, [Next]_vars, NEW a \in Attempts \ (missed \union lowDisk),
                      attempt[a].exec = "cancelled", ~FoundOpen(a)
               PROVE  attempt'[a] = attempt[a]
    OBVIOUS
  <2>1. RowMove(a) /\ attempt[a] \in Row
    BY RowsMove DEF IInv, Types
  <2>2. Quiet(a)
    BY DEF IInv, StopReaches
  <2>3. ~(a \notin cancelled /\ task[a] \in {"waiting", "preparing", "agent"})
    BY <2>2 DEF Quiet, Over
  <2>4. a \notin jobs
    BY DEF IInv, JobsAfterAgent
  <2>5. CASE stop.phase = "read"
             /\ attempt'[a] = Converged(attempt[a], stop.open[a], UserStopped)
    <3>1. stop.open[a] = {}
      BY <2>5 DEF IInv, ReadCovers
    <3> QED
      BY <2>1, <2>5, <3>1, ConvergedFields
  <2>6. CASE sweep.phase = "read"
             /\ attempt'[a] = Converged(attempt[a], sweep.open[a], ExecutionOverdue)
    <3>1. sweep.open[a] = {}
      BY <2>6 DEF FoundOpen
    <3> QED
      BY <2>1, <2>6, <3>1, ConvergedFields
  <2> QED
    BY <2>1, <2>3, <2>4, <2>5, <2>6 DEF RowMove
<1> QED
  BY <1>1, Invariant, PTL DEF Spec, StopIsTheEnd

\* The slots that are held are finitely many, and a step takes at most one,
\* when one is free.
LEMMA NextSlots ==
  ASSUME IInv, [Next]_vars, Cardinality(Held) <= Capacity
  PROVE  Cardinality(Held') <= Capacity
<1> USE DEF IInv
<1>1. IsFiniteSet(Held) /\ IsFiniteSet(Held')
  <2>1. IsFiniteSet(Attempts)
    BY AttemptDispatchAssumption DEF AttemptDispatchAssumption
  <2>2. Held \subseteq Attempts /\ Held' \subseteq Attempts
    BY DEF Held, Attempts, AttemptsOf
  <2> QED
    BY <2>1, <2>2, FS_Subset
<1>2. Cardinality(Held) \in Nat /\ Cardinality(Held') \in Nat /\ Capacity \in Nat
  BY <1>1, FS_CardinalityType, AttemptDispatchAssumption DEF AttemptDispatchAssumption
<1>3. CASE Held' \subseteq Held
  BY <1>1, <1>2, <1>3, FS_Subset
<1>4. ASSUME NEW a \in Attempts, Acquire(a)
      PROVE  Cardinality(Held') <= Capacity
  <2>1. Cardinality(Held) < Capacity
    BY <1>4 DEF Acquire, SlotFree
  <2>2. Held' \subseteq Held \union {a}
    BY <1>4 DEF Acquire, Goto, End, Held, Types, Attempts, AttemptsOf
  <2>3. IsFiniteSet(Held \union {a})
        /\ Cardinality(Held \union {a}) \in {Cardinality(Held), Cardinality(Held) + 1}
    BY <1>1, <1>2, FS_AddElement
  <2>4. Cardinality(Held') <= Cardinality(Held \union {a})
    BY <2>2, <2>3, FS_Subset
  <2> QED
    BY <1>2, <2>1, <2>3, <2>4
<1>5. ASSUME \A a \in Attempts : ~Acquire(a)
      PROVE  Held' \subseteq Held
  <2> SUFFICES ASSUME NEW a \in Attempts, task'[a] \in Holding, task[a] \notin Holding
               PROVE  FALSE
    BY DEF Held, Attempts, AttemptsOf
  <2>1. TaskMove(a)
    BY TasksMove
  <2>2. task[a] = "waiting"
    BY <2>1 DEF TaskMove, Holding
  <2>3. task'[a] # task[a] /\ task'[a] # "cut"
    BY <2>2 DEF Holding
  <2>4. ASSUME NEW b \in Attempts,
               MarkLowDisk(b) \/ PrepareFails(b) \/ StartAgent(b) \/ AgentEnds(b) \/ Leave(b)
        PROVE  FALSE
    BY <2>2, <2>3, <2>4 DEF MarkLowDisk, PrepareFails, StartAgent, AgentEnds, Leave, At,
                            Goto, End, Types
  <2>5. ASSUME NEW r \in Runs, Launch(r) \/ NextTask(r)
        PROVE  FALSE
    BY <2>2, <2>3, <2>5 DEF Launch, NextTask, Goto, Types, Holding
  <2>6. ASSUME NEW b \in Attempts, HandleCancel(b)
        PROVE  FALSE
    BY <2>3, <2>6 DEF HandleCancel, End, Types
  <2> QED
    BY <1>5, <2>3, <2>4, <2>5, <2>6
       DEF Next, vars, GroupBegins, GroupEnds, StopTasks, Callback, StopScoring,
           StopList, StopRead, StopConverge, SweepRead, SweepConverge
<1> QED
  BY <1>3, <1>4, <1>5

\* The semaphore is never held by more tasks than it has slots, and every row
\* and task has its type.
THEOREM TypeCorrect == Spec => []TypeOK
<1> DEFINE Slots == Cardinality(Held) <= Capacity
<1>1. Init => Slots
  <2> SUFFICES ASSUME Init
               PROVE  Slots
    OBVIOUS
  <2>1. Held = {}
    BY DEF Init, Held, Holding, Attempts, AttemptsOf
  <2> QED
    BY <2>1, FS_EmptySet, AttemptDispatchAssumption DEF AttemptDispatchAssumption
<1>2. IInv /\ Slots /\ [Next]_vars => Slots'
  BY NextSlots
<1>3. IInv /\ Slots => TypeOK
  BY DEF IInv, Types, TypeOK, Row
<1> QED
  BY <1>1, <1>2, <1>3, Invariant, PTL DEF Spec
====
