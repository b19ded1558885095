---- MODULE RunGroupProofs ----
(* Theorems about RunGroup, for any number of cells, agents and workers, any *)
(* faults and any bounds.                                                   *)
EXTENDS RunGroup, WellFoundedInduction, TLAPS

-----------------------------------------------------------------------------
(* What the projections return.                                            *)

Projection == CellStatus \ {"queued", "provisioning"}

LEMMA RunOfType == ASSUME NEW rs
                   PROVE  RunOf(rs) \in RunStatus
BY DEF RunOf, RunStatus, Open

LEMMA CellOfType == ASSUME NEW rs
                    PROVE  CellOf(rs) \in Projection
BY DEF CellOf, Projection, CellStatus, Open

LEMMA TerminalOfType ==
  ASSUME NEW status
  PROVE  TerminalOf(status) \in {"completed", "cancelled", "failed"}
BY DEF TerminalOf

LEMMA GroupOfType ==
  ASSUME NEW cells, NEW previous
  PROVE  GroupOf(cells, previous) \in GroupStatusValue
BY DEF GroupOf, GroupStatusValue, CellStatus, Open

CellRow == [status : CellStatus, linked : BOOLEAN]
CellTable == [Cells -> CellRow]

LEMMA StatusSet ==
  ASSUME NEW cells \in CellTable, NEW c \in Cells, NEW s \in CellStatus
  PROVE  /\ [cells EXCEPT ![c].status = s] \in CellTable
         /\ [cells EXCEPT ![c].status = s][c].status = s
         /\ [cells EXCEPT ![c].status = s][c].linked = cells[c].linked
         /\ \A d \in Cells : d # c => [cells EXCEPT ![c].status = s][d] = cells[d]
BY DEF CellTable, CellRow

\* A projection leaves a cell alone or gives it a status past provisioning.
LEMMA ProjectedType ==
  ASSUME NEW cells \in CellTable, NEW c \in Cells, NEW rs
  PROVE  /\ Projected(c, rs, cells) \in CellTable
         /\ \A d \in Cells : d # c => Projected(c, rs, cells)[d] = cells[d]
         /\ Projected(c, rs, cells)[c].linked = cells[c].linked
         /\ \/ /\ ~cells[c].linked \/ cells[c].status = "cancelled"
               /\ Projected(c, rs, cells)[c] = cells[c]
            \/ /\ cells[c].linked /\ cells[c].status # "cancelled"
               /\ Projected(c, rs, cells)[c].status = CellOf(rs)
               /\ CellOf(rs) \in Projection
<1>1. CellOf(rs) \in CellStatus /\ CellOf(rs) \in Projection
  BY CellOfType DEF Projection
<1> QED
  BY <1>1, StatusSet DEF Projected

LEMMA TransitionType ==
  ASSUME NEW cells \in CellTable, NEW c \in Cells, NEW expected, NEW target \in CellStatus
  PROVE  /\ Transition(cells, c, expected, target) \in CellTable
         /\ \A d \in Cells : d # c => Transition(cells, c, expected, target)[d] = cells[d]
         /\ Transition(cells, c, expected, target)[c].linked = cells[c].linked
         /\ \/ /\ cells[c].status \notin expected
               /\ Transition(cells, c, expected, target)[c] = cells[c]
            \/ /\ cells[c].status \in expected
               /\ Transition(cells, c, expected, target)[c].status = target
BY StatusSet DEF Transition

-----------------------------------------------------------------------------
(* Sequences of attempts and of cells.                                     *)

AttemptRows == Seq(AttemptStatus)
Places == {"none", "launching", "creating", "dispatching"}

LEMMA RowsMapped ==
  ASSUME NEW s \in AttemptRows, NEW t, t = [i \in DOMAIN s |-> t[i]],
         \A i \in DOMAIN s : t[i] \in AttemptStatus
  PROVE  t \in AttemptRows /\ Len(t) = Len(s)
<1>1. DOMAIN s = 1..Len(s) /\ Len(s) \in Nat
  BY DEF AttemptRows
<1>2. t \in [1..Len(s) -> AttemptStatus]
  BY <1>1
<1>3. t \in Seq(AttemptStatus)
  BY <1>1, <1>2
<1>4. DOMAIN t = 1..Len(s)
  BY <1>2
<1>5. Len(t) = Len(s)
  BY <1>1, <1>3, <1>4
<1> QED
  BY <1>3, <1>5 DEF AttemptRows

LEMMA RowAppended ==
  ASSUME NEW s \in AttemptRows
  PROVE  Append(s, "queued") \in AttemptRows /\ Len(Append(s, "queued")) = Len(s) + 1
<1>1. "queued" \in AttemptStatus
  BY DEF AttemptStatus, Open
<1> QED
  BY <1>1 DEF AttemptRows

LEMMA RowSet ==
  ASSUME NEW s \in AttemptRows, NEW i, NEW v, i \in DOMAIN s => v \in AttemptStatus
  PROVE  [s EXCEPT ![i] = v] \in AttemptRows /\ Len([s EXCEPT ![i] = v]) = Len(s)
<1> DEFINE t == [s EXCEPT ![i] = v]
<1>1. DOMAIN t = DOMAIN s /\ t = [j \in DOMAIN s |-> t[j]]
  BY DEF AttemptRows
<1>2. \A j \in DOMAIN s : s[j] \in AttemptStatus
  BY DEF AttemptRows
<1>3. \A j \in DOMAIN s : t[j] \in AttemptStatus
  BY <1>2 DEF AttemptRows
<1> HIDE DEF t
<1>4. t \in AttemptRows /\ Len(t) = Len(s)
  BY <1>1, <1>3, RowsMapped
<1> QED
  BY <1>4 DEF t

LEMMA LeastNatural ==
  ASSUME NEW T, T \subseteq Nat, T # {}
  PROVE  \E n \in T : \A m \in T : n <= m
<1> DEFINE R == OpToRel(<, Nat)
<1>1. IsWellFoundedOn(R, Nat)
  BY NatLessThanWellFounded
<1>2. \A m, n \in Nat : m < n => <<m, n>> \in R
  BY DEF OpToRel
<1> HIDE DEF R
<1>3. PICK n \in T : \A m \in T : ~ (<<m, n>> \in R)
  BY <1>1, WFMin, Zenon
<1>4. ASSUME NEW m \in T
      PROVE  n <= m
  <2>1. m \in Nat /\ n \in Nat
    OBVIOUS
  <2>2. ~(m < n)
    BY <1>2, <1>3, <2>1, Zenon
  <2> QED
    BY <2>1, <2>2
<1> QED
  BY <1>4

\* A worker that goes on ends or takes a queued cell to provisioning.
LEMMA TakeNextStep ==
  ASSUME todo \in Seq(Cells), NEW cells \in CellTable, NEW places \in [Cells -> Places],
         TakeNext(cells, places)
  PROVE  /\ todo' \in Seq(Cells) /\ Len(todo') <= Len(todo)
         /\ \/ cell' = cells /\ worker' = places
            \/ \E c \in Cells : /\ cells[c].status = "queued"
                                /\ cell' = [cells EXCEPT ![c].status = "provisioning"]
                                /\ worker' = [places EXCEPT ![c] = "launching"]
<1>1. DOMAIN todo = 1..Len(todo) /\ Len(todo) \in Nat
  OBVIOUS
<1>2. CASE FirstQueued(cells) = {}
  <2>1. todo' = <<>> /\ cell' = cells /\ worker' = places
    BY <1>2 DEF TakeNext
  <2>2. Len(<<>>) = 0 /\ <<>> \in Seq(Cells)
    OBVIOUS
  <2> QED
    BY <1>1, <2>1, <2>2
<1>3. CASE FirstQueued(cells) # {}
  <2> DEFINE Least(k) == \A l \in FirstQueued(cells) : k <= l
             i == CHOOSE k \in FirstQueued(cells) : Least(k)
  <2>1. FirstQueued(cells) \subseteq DOMAIN todo
    BY DEF FirstQueued
  <2>2. \E k \in FirstQueued(cells) : Least(k)
    <3>1. FirstQueued(cells) \subseteq Nat
      BY <1>1, <2>1
    <3> QED
      BY <1>3, <3>1, LeastNatural
  <2>3. i \in FirstQueued(cells)
    <3> HIDE DEF Least
    <3> QED
      BY <2>2
  <2>4. /\ cell' = [cells EXCEPT ![todo[i]].status = "provisioning"]
        /\ worker' = [places EXCEPT ![todo[i]] = "launching"]
        /\ todo' = SubSeq(todo, i + 1, Len(todo))
    BY <1>3 DEF TakeNext
  <2> HIDE DEF i
  <2>5. i \in 1..Len(todo) /\ todo[i] \in Cells /\ cells[todo[i]].status = "queued"
    <3>1. i \in 1..Len(todo) /\ cells[todo[i]].status = "queued"
      BY <1>1, <2>1, <2>3 DEF FirstQueued
    <3> HIDE DEF Cells
    <3> QED
      BY <1>1, <3>1
  <2>6. todo' \in Seq(Cells) /\ Len(todo') <= Len(todo)
    <3> HIDE DEF Cells
    <3>1. i + 1 \in 1..(Len(todo) + 1)
      BY <1>1, <2>5
    <3>2. SubSeq(todo, i + 1, Len(todo)) \in Seq(Cells)
      BY <1>1, <2>5
    <3>3. Len(SubSeq(todo, i + 1, Len(todo))) <= Len(todo)
      BY <1>1, <2>5
    <3> QED
      BY <2>4, <3>2, <3>3
  <2> QED
    BY <2>4, <2>5, <2>6
<1> QED
  BY <1>2, <1>3

-----------------------------------------------------------------------------
(* Types, in the form the steps need.                                      *)

SweepPlaces == {Idle} \union [phase : {"converged"}, c : Cells]
                 \union [phase : {"cell"}, c : Cells, status : Projection]
                 \union [phase : {"group"}, status : GroupStatusValue]

Types ==
  /\ attempt \in [Cells -> AttemptRows]
  /\ \A c \in Cells : Len(attempt[c]) <= AgentCount
  /\ run \in [Cells -> RunStatus]
  /\ claim \in [Cells -> {"none", "in_progress", "failed", "completed"}]
  /\ cell \in CellTable
  /\ group \in GroupStatusValue
  /\ gtask \in {"none", "scheduled", "resuming", "running"}
  /\ fresh \in 0..Workers
  /\ todo \in Seq(Cells) /\ Len(todo) <= CellCount
  /\ worker \in [Cells -> Places]
  /\ insert \in SUBSET Cells
  /\ task \in [Attempts -> {"none", "waiting", "executing"}]
  /\ scored \in SUBSET Attempts
  /\ cancelled \in SUBSET (Cells \X (0..AgentCount))
  /\ sweep \in SweepPlaces
  /\ up \in {"up", "closing", "down"}
  /\ starts \in [Attempts -> Nat]
  /\ stops \in 0..MaxStops
  /\ sweeps \in 0..MaxSweeps
  /\ restarts \in 0..MaxRestarts

\* A thread that creates an attempt adds one that the plan still lacks.
Room == \A c \in insert : Len(attempt[c]) < AgentCount

LEMMA Constants ==
  /\ CellCount \in Nat /\ AgentCount \in Nat /\ AgentCount > 0 /\ Workers \in Nat
  /\ MaxStops \in Nat /\ MaxSweeps \in Nat /\ MaxRestarts \in Nat
<1>1. \A x \in {CellCount, AgentCount, Workers} : x \in Nat \ {0}
  BY RunGroupAssumption DEF RunGroupAssumption
<1>2. \A x \in {MaxStops, MaxSweeps, MaxRestarts} : x \in Nat
  BY RunGroupAssumption DEF RunGroupAssumption
<1> QED
  BY <1>1, <1>2

\* What the steps do to the rows of attempts.
LEMMA InsertTypes ==
  ASSUME Types, Room, NEW c \in Cells, InsertAttempt(c)
  PROVE  Types' /\ Room'
<1>1. /\ c \in insert /\ insert' = insert \ {c}
      /\ attempt' = [attempt EXCEPT ![c] = Append(@, "queued")]
      /\ run' = [run EXCEPT ![c] = IF @ = "absent" THEN "queued" ELSE @]
      /\ UNCHANGED <<claim, cell, group, gtask, fresh, todo, worker, task, scored,
                     cancelled, sweep, up, starts, stops, sweeps, restarts>>
  BY DEF InsertAttempt, tasks, clock
<1>2. Append(attempt[c], "queued") \in AttemptRows
      /\ Len(Append(attempt[c], "queued")) = Len(attempt[c]) + 1
  BY RowAppended DEF Types
<1>3. Len(attempt[c]) \in Nat /\ Len(attempt[c]) < AgentCount /\ AgentCount \in Nat
  <2>1. attempt[c] \in AttemptRows
    BY DEF Types
  <2> QED
    BY <1>1, <2>1, Constants DEF Room, AttemptRows
<1>4. run' \in [Cells -> RunStatus]
  BY <1>1 DEF Types, RunStatus, Open
<1>5. attempt' \in [Cells -> AttemptRows]
  BY <1>1, <1>2 DEF Types
<1>6. \A d \in Cells : Len(attempt'[d]) <= AgentCount
  BY <1>1, <1>2, <1>3 DEF Types
<1>7. Room'
  BY <1>1 DEF Types, Room
<1>8. insert' \in SUBSET Cells
  BY <1>1 DEF Types
<1> QED
  BY <1>1, <1>4, <1>5, <1>6, <1>7, <1>8 DEF Types

\* What the steps of a worker do to cells, workers and queue.
LEMMA TakenTypes ==
  ASSUME Types, NEW cells \in CellTable, NEW places \in [Cells -> Places],
         TakeNext(cells, places)
  PROVE  /\ todo' \in Seq(Cells) /\ Len(todo') <= CellCount
         /\ cell' \in CellTable /\ worker' \in [Cells -> Places]
<1>1. /\ todo' \in Seq(Cells) /\ Len(todo') <= Len(todo)
      /\ \/ cell' = cells /\ worker' = places
         \/ \E c \in Cells : /\ cells[c].status = "queued"
                             /\ cell' = [cells EXCEPT ![c].status = "provisioning"]
                             /\ worker' = [places EXCEPT ![c] = "launching"]
  <2>1. todo \in Seq(Cells)
    BY DEF Types
  <2> QED
    BY <2>1, TakeNextStep, Zenon
<1>2. Len(todo') <= CellCount
  <2>1. Len(todo) \in Nat /\ Len(todo') \in Nat /\ Len(todo) <= CellCount
    <3> HIDE DEF Cells
    <3> QED
      BY <1>1 DEF Types
  <2> QED
    BY <1>1, <2>1, Constants
<1>3. CASE cell' = cells /\ worker' = places
  BY <1>1, <1>2, <1>3
<1>4. ASSUME NEW c \in Cells, cell' = [cells EXCEPT ![c].status = "provisioning"],
             worker' = [places EXCEPT ![c] = "launching"]
      PROVE  cell' \in CellTable /\ worker' \in [Cells -> Places]
  <2>1. "provisioning" \in CellStatus
    BY DEF CellStatus
  <2> QED
    BY <1>4, <2>1, StatusSet DEF Places
<1> QED
  BY <1>1, <1>2, <1>3, <1>4

LEMMA Left ==
  ASSUME Types, NEW c \in Cells, NEW cells \in CellTable, Leave(c, cells)
  PROVE  /\ todo' \in Seq(Cells) /\ Len(todo') <= CellCount
         /\ cell' \in CellTable /\ worker' \in [Cells -> Places]
<1>1. [worker EXCEPT ![c] = "none"] \in [Cells -> Places]
  BY DEF Types, Places
<1> QED
  BY <1>1, TakenTypes DEF Leave

LEMMA GroupTypes ==
  ASSUME Types, Room, BeginGroup \/ WorkerStarts \/ GroupEnds
  PROVE  Types' /\ Room'
<1>1. CASE BeginGroup
  <2>1. PICK status : /\ status \in GroupStatusValue
                      /\ \/ /\ group' = "running" /\ gtask' = "running"
                            /\ fresh' = Workers /\ todo' = [c \in Cells |-> c]
                         \/ group' = status /\ gtask' = "none" /\ UNCHANGED <<fresh, todo>>
    BY <1>1, GroupOfType DEF BeginGroup, Types
  <2>2. /\ UNCHANGED <<attempt, run, claim, cell, worker, insert, task, scored, cancelled,
                       sweep, up, starts, stops, sweeps, restarts>>
    BY <1>1 DEF BeginGroup, facts, tasks, clock
  <2>3. todo' \in Seq(Cells) /\ Len(todo') <= CellCount
    <3>1. CASE todo' = [c \in Cells |-> c]
      <4>1. CellCount \in Nat
        BY Constants
      <4>2. todo' \in [1..CellCount -> Cells]
        BY <3>1 DEF Cells
      <4> HIDE DEF Cells
      <4>3. todo' \in Seq(Cells)
        BY <4>1, <4>2
      <4>4. Len(todo') = CellCount
        BY <4>1, <4>2, <4>3
      <4> QED
        BY <4>1, <4>3, <4>4
    <3>2. CASE todo' = todo
      BY <3>2 DEF Types
    <3> QED
      BY <2>1, <3>1, <3>2
  <2>4. group' \in GroupStatusValue /\ gtask' \in {"none", "scheduled", "resuming", "running"}
    BY <2>1 DEF GroupStatusValue, CellStatus, Open
  <2>5. fresh' \in 0..Workers
    BY <2>1, Constants DEF Types
  <2>6. Room'
    BY <2>2 DEF Room
  <2> QED
    BY <2>2, <2>3, <2>4, <2>5, <2>6 DEF Types
<1>2. CASE WorkerStarts
  <2>1. /\ fresh > 0 /\ fresh' = fresh - 1 /\ TakeNext(cell, worker)
        /\ UNCHANGED <<attempt, run, claim, group, gtask, insert, task, scored, cancelled,
                       sweep, up, starts, stops, sweeps, restarts>>
    BY <1>2 DEF WorkerStarts, facts, tasks, clock
  <2>2. /\ todo' \in Seq(Cells) /\ Len(todo') <= CellCount
        /\ cell' \in CellTable /\ worker' \in [Cells -> Places]
    BY <2>1, TakenTypes DEF Types
  <2>3. fresh' \in 0..Workers
    BY <2>1, Constants DEF Types
  <2>4. Room'
    BY <2>1 DEF Room
  <2> QED
    BY <2>1, <2>2, <2>3, <2>4 DEF Types
<1>3. CASE GroupEnds
  <2>1. /\ gtask' = "none" /\ (group' = group \/ group' = GroupOf(cell, group))
        /\ UNCHANGED <<attempt, run, claim, cell, fresh, todo, worker, insert, task, scored,
                       cancelled, sweep, up, starts, stops, sweeps, restarts>>
    BY <1>3 DEF GroupEnds, facts, tasks, clock
  <2>2. group' \in GroupStatusValue
    BY <2>1, GroupOfType DEF Types
  <2>3. Room'
    BY <2>1 DEF Room
  <2> QED
    BY <2>1, <2>2, <2>3 DEF Types
<1> QED
  BY <1>1, <1>2, <1>3

LEMMA TaskSet ==
  ASSUME Types, NEW a \in Attempts, NEW place \in {"none", "waiting", "executing"}
  PROVE  [task EXCEPT ![a] = place] \in [Attempts -> {"none", "waiting", "executing"}]
BY DEF Types

LEMMA CellTypes ==
  ASSUME Types, Room, NEW c \in Cells, CellStep(c)
  PROVE  Types' /\ Room'
<1>0. /\ "failed" \in CellStatus /\ "cancelled" \in CellStatus /\ "running" \in CellStatus
      /\ TerminalOf(run[c]) \in CellStatus /\ cell \in CellTable
  BY TerminalOfType DEF CellStatus, Open, Types
<1>1. CASE InputMissing(c)
  <2>1. /\ Leave(c, Transition(cell, c, {"provisioning", "running"}, "failed"))
        /\ UNCHANGED <<attempt, run, claim, group, gtask, fresh, insert, task, scored,
                       cancelled, sweep, up, starts, stops, sweeps, restarts>>
    BY <1>1 DEF InputMissing, facts, tasks, clock
  <2>2. /\ todo' \in Seq(Cells) /\ Len(todo') <= CellCount
        /\ cell' \in CellTable /\ worker' \in [Cells -> Places]
    BY <1>0, <2>1, Left, TransitionType
  <2> QED
    BY <2>1, <2>2 DEF Types, Room
<1>2. CASE ClaimRun(c)
  <2>1. UNCHANGED <<attempt, run, group, gtask, fresh, scored, cancelled, sweep, up,
                    starts, stops, sweeps, restarts>>
    BY <1>2 DEF ClaimRun, facts, clock
  <2>2. CASE /\ Leave(c, Transition(cell, c, {"provisioning"}, "failed"))
             /\ UNCHANGED <<claim, insert, task>>
    <3>1. /\ todo' \in Seq(Cells) /\ Len(todo') <= CellCount
          /\ cell' \in CellTable /\ worker' \in [Cells -> Places]
      BY <1>0, <2>2, Left, TransitionType
    <3> QED
      BY <2>1, <2>2, <3>1 DEF Types, Room
  <2>3. CASE TakeOver(c) /\ UNCHANGED insert
    <3> DEFINE row == [status |-> TerminalOf(run[c]), linked |-> TRUE]
               cells == IF cell[c].status = "provisioning"
                        THEN [cell EXCEPT ![c] = row] ELSE cell
    <3>1. Leave(c, cells) /\ claim' = [claim EXCEPT ![c] = "completed"] /\ task' = task
      BY <2>3 DEF TakeOver
    <3>2. row \in CellRow
      BY <1>0 DEF CellRow
    <3>3. cells \in CellTable
      <4> HIDE DEF row
      <4> QED
        BY <1>0, <3>2 DEF CellTable
    <3> HIDE DEF cells
    <3>4. /\ todo' \in Seq(Cells) /\ Len(todo') <= CellCount
          /\ cell' \in CellTable /\ worker' \in [Cells -> Places]
      BY <3>1, <3>3, Left
    <3>5. claim' \in [Cells -> {"none", "in_progress", "failed", "completed"}]
      BY <3>1 DEF Types
    <3> QED
      BY <2>1, <2>3, <3>1, <3>4, <3>5 DEF Types, Room
  <2>4. CASE /\ attempt[c] = <<>>
             /\ claim' = [claim EXCEPT ![c] = "in_progress"]
             /\ worker' = [worker EXCEPT ![c] = "creating"]
             /\ insert' = insert \union {c}
             /\ UNCHANGED <<cell, todo, task>>
    <3>1. claim' \in [Cells -> {"none", "in_progress", "failed", "completed"}]
      BY <2>4 DEF Types
    <3>2. worker' \in [Cells -> Places] /\ insert' \in SUBSET Cells
      BY <2>4 DEF Types, Places
    <3>3. Room'
      <4>1. Len(attempt[c]) = 0
        BY <2>4
      <4> QED
        BY <2>1, <2>4, <4>1, Constants DEF Room
    <3> QED
      BY <2>1, <2>4, <3>1, <3>2, <3>3 DEF Types
  <2> QED
    BY <1>2, <2>2, <2>3, <2>4 DEF ClaimRun
<1>3. CASE CreateFails(c)
  <2>1. /\ Leave(c, Transition(cell, c, {"provisioning", "running"}, "failed"))
        /\ insert' = insert \ {c}
        /\ UNCHANGED <<attempt, run, claim, group, gtask, fresh, task, scored,
                       cancelled, sweep, up, starts, stops, sweeps, restarts>>
    BY <1>3 DEF CreateFails, facts, tasks, clock
  <2>2. /\ todo' \in Seq(Cells) /\ Len(todo') <= CellCount
        /\ cell' \in CellTable /\ worker' \in [Cells -> Places]
    BY <1>0, <2>1, Left, TransitionType
  <2>3. Room' /\ insert' \in SUBSET Cells
    BY <2>1 DEF Room, Types
  <2> QED
    BY <2>1, <2>2, <2>3 DEF Types
<1>4. CASE Created(c)
  <2>1. UNCHANGED <<attempt, run, group, gtask, fresh, todo, scored, cancelled, sweep, up,
                    starts, stops, sweeps, restarts>>
    BY <1>4 DEF Created, facts, clock
  <2>2. CASE ~PlanComplete(c)
    <3>1. insert' = insert \union {c} /\ UNCHANGED <<claim, cell, worker, task>>
      BY <1>4, <2>2 DEF Created
    <3>2. Len(attempt[c]) < AgentCount
      <4>1. Len(attempt[c]) \in Nat /\ Len(attempt[c]) <= AgentCount
        BY DEF Types, AttemptRows
      <4> QED
        BY <2>2, <4>1, Constants DEF PlanComplete
    <3>3. Room' /\ insert' \in SUBSET Cells
      BY <2>1, <3>1, <3>2 DEF Room, Types
    <3> QED
      BY <2>1, <3>1, <3>3 DEF Types
  <2>3. CASE PlanComplete(c)
    <3> DEFINE row == [status |-> "running", linked |-> TRUE]
    <3>1. /\ claim' = [claim EXCEPT ![c] = "completed"]
          /\ cell' = IF cell[c].status = "provisioning" THEN [cell EXCEPT ![c] = row]
                     ELSE cell
          /\ worker' = [worker EXCEPT ![c] = "dispatching"]
          /\ task' = [a \in Attempts |-> IF a[1] = c THEN "waiting" ELSE task[a]]
          /\ UNCHANGED insert
      BY <1>4, <2>3 DEF Created
    <3>2. row \in CellRow
      BY <1>0 DEF CellRow
    <3>3. cell' \in CellTable
      <4> HIDE DEF row
      <4> QED
        BY <1>0, <3>1, <3>2 DEF CellTable
    <3>4. /\ claim' \in [Cells -> {"none", "in_progress", "failed", "completed"}]
          /\ worker' \in [Cells -> Places]
      BY <3>1 DEF Types, Places
    <3>5. task' \in [Attempts -> {"none", "waiting", "executing"}]
      <4> HIDE DEF Attempts
      <4> QED
        BY <3>1 DEF Types
    <3> HIDE DEF row
    <3> QED
      BY <2>1, <3>1, <3>3, <3>4, <3>5 DEF Types, Room
  <2> QED
    BY <2>2, <2>3
<1>5. CASE DispatchReturns(c)
  <2>1. /\ Leave(c, Transition(cell, c, {"running"}, TerminalOf(run[c])))
        /\ UNCHANGED <<attempt, run, claim, group, gtask, fresh, insert, task, scored,
                       cancelled, sweep, up, starts, stops, sweeps, restarts>>
    BY <1>5 DEF DispatchReturns, facts, tasks, clock
  <2>2. /\ todo' \in Seq(Cells) /\ Len(todo') <= CellCount
        /\ cell' \in CellTable /\ worker' \in [Cells -> Places]
    BY <1>0, <2>1, Left, TransitionType
  <2> QED
    BY <2>1, <2>2 DEF Types, Room
<1>6. CASE WorkerCancelled(c)
  <2>1. /\ cancelled' = cancelled \ {<<c, 0>>}
        /\ cell' = Transition(cell, c, {"provisioning", "running"}, "cancelled")
        /\ worker' = [worker EXCEPT ![c] = "none"]
        /\ UNCHANGED <<attempt, run, claim, group, gtask, fresh, todo, insert, task, scored,
                       sweep, up, starts, stops, sweeps, restarts>>
    BY <1>6 DEF WorkerCancelled, facts, clock
  <2>2. cell' \in CellTable
    BY <1>0, <2>1, TransitionType
  <2>3. worker' \in [Cells -> Places] /\ cancelled' \in SUBSET (Cells \X (0..AgentCount))
    BY <2>1 DEF Types, Places
  <2> QED
    BY <2>1, <2>2, <2>3 DEF Types, Room
<1> QED
  BY <1>1, <1>2, <1>3, <1>4, <1>5, <1>6 DEF CellStep

\* A projection on the loop.
LEMMA Refreshed ==
  ASSUME Types, NEW c \in Cells, Refresh(c)
  PROVE  /\ run' \in [Cells -> RunStatus] /\ cell' \in CellTable
         /\ group' \in GroupStatusValue
<1>1. /\ run' = [run EXCEPT ![c] = RunOf(attempt'[c])]
      /\ cell' = Projected(c, attempt'[c], cell)
      /\ group' = GroupOf(cell', group) \/ group' = group
  BY DEF Refresh
<1>2. RunOf(attempt'[c]) \in RunStatus
  BY RunOfType
<1>3. cell' \in CellTable
  <2>1. \A rs : Projected(c, rs, cell) \in CellTable
    BY ProjectedType DEF Types
  <2> QED
    BY <1>1, <2>1
<1>4. group' \in GroupStatusValue
  <2>1. \A cells, previous : GroupOf(cells, previous) \in GroupStatusValue
    BY GroupOfType
  <2> QED
    BY <1>1, <2>1 DEF Types
<1> QED
  BY <1>1, <1>2, <1>3, <1>4 DEF Types

\* The row of one attempt is written.
LEMMA AttemptSet ==
  ASSUME Types, NEW c \in Cells, NEW i, NEW v,
         i \in DOMAIN attempt[c] => v \in AttemptStatus,
         attempt' = [attempt EXCEPT ![c][i] = v]
  PROVE  /\ attempt' \in [Cells -> AttemptRows]
         /\ \A d \in Cells : Len(attempt'[d]) = Len(attempt[d])
<1>1. attempt[c] \in AttemptRows
  BY DEF Types
<1> DEFINE s == [attempt[c] EXCEPT ![i] = v]
<1>2. s \in AttemptRows /\ Len(s) = Len(attempt[c])
  BY <1>1, RowSet
<1>3. attempt' = [attempt EXCEPT ![c] = s]
  OBVIOUS
<1> HIDE DEF s
<1> QED
  BY <1>2, <1>3 DEF Types

LEMMA AttemptTypes ==
  ASSUME Types, Room, NEW c \in Cells, NEW i \in 1..AgentCount,
         AttemptStep(c, i) \/ ScoringEnds(c, i) \/ ScoringProjects(c, i) \/ SweepConverge(c, i)
  PROVE  Types' /\ Room'
<1>0. <<c, i>> \in Attempts
  BY DEF Attempts
<1>1. CASE Start(c, i)
  <2>1. /\ task' = [task EXCEPT ![<<c, i>>] = "executing"]
        /\ starts' = [starts EXCEPT ![<<c, i>>] = @ + 1]
        /\ attempt' = [attempt EXCEPT ![c][i] = IF @ = "queued" THEN "running" ELSE @]
        /\ run' = [run EXCEPT ![c] = IF @ = "queued" THEN "running" ELSE @]
        /\ UNCHANGED <<claim, cell, group, gtask, fresh, todo, worker, insert, scored,
                       cancelled, sweep, up, stops, sweeps, restarts>>
    BY <1>1 DEF Start, coordinator
  <2>2. /\ attempt' \in [Cells -> AttemptRows]
        /\ \A d \in Cells : Len(attempt'[d]) = Len(attempt[d])
    <3> DEFINE v == IF attempt[c][i] = "queued" THEN "running" ELSE attempt[c][i]
    <3>1. attempt' = [attempt EXCEPT ![c][i] = v]
      BY <2>1
    <3>2. i \in DOMAIN attempt[c] => v \in AttemptStatus
      <4>1. i \in DOMAIN attempt[c] => attempt[c][i] \in AttemptStatus
        BY DEF Types, AttemptRows
      <4> QED
        BY <4>1 DEF AttemptStatus, Open
    <3> HIDE DEF v
    <3> QED
      BY <3>1, <3>2, AttemptSet
  <2>3. run' \in [Cells -> RunStatus]
    BY <2>1 DEF Types, RunStatus, Open
  <2>4. starts' \in [Attempts -> Nat]
    BY <1>0, <2>1 DEF Types
  <2>5. task' \in [Attempts -> {"none", "waiting", "executing"}]
    BY <1>0, <2>1, TaskSet
  <2> QED
    BY <2>1, <2>2, <2>3, <2>4, <2>5 DEF Types, Room
<1>2. CASE ExecutionEnds(c, i)
  <2>1. /\ task' = [task EXCEPT ![<<c, i>>] = "none"] /\ Refresh(c)
        /\ \E end \in ExecEnds : attempt' = [attempt EXCEPT ![c][i] = end]
        /\ UNCHANGED <<claim, gtask, fresh, todo, worker, insert, scored,
                       cancelled, sweep, up, starts, stops, sweeps, restarts>>
    BY <1>2 DEF ExecutionEnds, coordinator, clock
  <2>2. /\ attempt' \in [Cells -> AttemptRows]
        /\ \A d \in Cells : Len(attempt'[d]) = Len(attempt[d])
    <3>1. \A end \in ExecEnds : end \in AttemptStatus
      BY RunGroupAssumption DEF RunGroupAssumption, AttemptStatus
    <3> QED
      BY <2>1, <3>1, AttemptSet
  <2>3. task' \in [Attempts -> {"none", "waiting", "executing"}]
    BY <1>0, <2>1, TaskSet
  <2> QED
    BY <2>1, <2>2, <2>3, Refreshed DEF Types, Room
<1>3. CASE TaskCancelled(c, i)
  <2>1. /\ task' = [task EXCEPT ![<<c, i>>] = "none"]
        /\ cancelled' = cancelled \ {<<c, i>>}
        /\ UNCHANGED <<attempt, run, claim, cell, group, gtask, fresh, todo, worker, insert,
                       scored, sweep, up, starts, stops, sweeps, restarts>>
    BY <1>3 DEF TaskCancelled, rows, facts, clock
  <2>2. task' \in [Attempts -> {"none", "waiting", "executing"}]
    BY <1>0, <2>1, TaskSet
  <2>3. cancelled' \in SUBSET (Cells \X (0..AgentCount))
    BY <2>1 DEF Types
  <2> QED
    BY <2>1, <2>2, <2>3 DEF Types, Room
<1>4. CASE ScoringEnds(c, i)
  <2>1. /\ scored' = scored \union {<<c, i>>}
        /\ \E end \in ScoreEnds : attempt' = [attempt EXCEPT ![c][i] = end]
        /\ UNCHANGED <<run, claim, cell, group, gtask, fresh, todo, worker, insert, task,
                       cancelled, sweep, up, starts, stops, sweeps, restarts>>
    BY <1>4 DEF ScoringEnds, coordinator, clock
  <2>2. /\ attempt' \in [Cells -> AttemptRows]
        /\ \A d \in Cells : Len(attempt'[d]) = Len(attempt[d])
    <3>1. \A end \in ScoreEnds : end \in AttemptStatus
      BY RunGroupAssumption DEF RunGroupAssumption, AttemptStatus
    <3> QED
      BY <2>1, <3>1, AttemptSet
  <2>3. scored' \in SUBSET Attempts
    BY <1>0, <2>1 DEF Types
  <2> QED
    BY <2>1, <2>2, <2>3 DEF Types, Room
<1>5. CASE ScoringProjects(c, i)
  <2>1. /\ scored' = scored \ {<<c, i>>} /\ Refresh(c)
        /\ UNCHANGED <<attempt, claim, gtask, fresh, todo, worker, insert, task,
                       cancelled, sweep, up, starts, stops, sweeps, restarts>>
    BY <1>5 DEF ScoringProjects, coordinator, clock
  <2>2. scored' \in SUBSET Attempts
    BY <2>1 DEF Types
  <2> QED
    BY <2>1, <2>2, Refreshed DEF Types, Room
<1>6. CASE SweepConverge(c, i)
  <2>1. /\ sweeps < MaxSweeps /\ sweeps' = sweeps + 1
        /\ attempt' = [attempt EXCEPT ![c][i] = "failed"]
        /\ run' = [run EXCEPT ![c] = RunOf(attempt'[c])]
        /\ cancelled' = cancelled \union ({<<c, i>>} \intersect TasksOf(c))
        /\ sweep' = [phase |-> "converged", c |-> c]
        /\ UNCHANGED <<claim, cell, group, gtask, fresh, todo, worker, insert, task, scored,
                       up, starts, stops, restarts>>
    BY <1>6 DEF SweepConverge, coordinator
  <2>2. /\ attempt' \in [Cells -> AttemptRows]
        /\ \A d \in Cells : Len(attempt'[d]) = Len(attempt[d])
    <3>1. "failed" \in AttemptStatus
      BY DEF AttemptStatus
    <3> QED
      BY <2>1, <3>1, AttemptSet
  <2>3. run' \in [Cells -> RunStatus]
    <3>1. \A rs : RunOf(rs) \in RunStatus
      BY RunOfType
    <3> QED
      BY <2>1, <3>1 DEF Types
  <2>4. cancelled' \in SUBSET (Cells \X (0..AgentCount))
    <3>1. i \in 0..AgentCount
      BY Constants
    <3> QED
      BY <2>1, <3>1 DEF Types
  <2>5. sweep' \in SweepPlaces
    BY <2>1 DEF SweepPlaces
  <2>6. sweeps' \in 0..MaxSweeps
    BY <2>1, Constants DEF Types
  <2> QED
    BY <2>1, <2>2, <2>3, <2>4, <2>5, <2>6 DEF Types, Room
<1> QED
  BY <1>1, <1>2, <1>3, <1>4, <1>5, <1>6 DEF AttemptStep

LEMMA SweepTypes ==
  ASSUME Types, Room, SweepReadCell \/ SweepWriteCell \/ SweepWriteGroup
  PROVE  Types' /\ Room'
<1>1. CASE SweepReadCell
  <2>1. UNCHANGED <<attempt, run, claim, cell, group, gtask, fresh, todo, worker, insert, task,
                    scored, cancelled, up, starts, stops, sweeps, restarts>>
    BY <1>1 DEF SweepReadCell, rows, facts, coordinator, tasks, clock
  <2>2. sweep.c \in Cells
    BY <1>1 DEF SweepReadCell, Types, SweepPlaces, Idle
  <2>3. \/ sweep' = Idle
        \/ sweep' = [phase |-> "cell", c |-> sweep.c, status |-> CellOf(attempt[sweep.c])]
    BY <1>1 DEF SweepReadCell
  <2>4. CellOf(attempt[sweep.c]) \in Projection
    BY CellOfType
  <2>5. sweep' \in SweepPlaces
    BY <2>2, <2>3, <2>4 DEF SweepPlaces
  <2> QED
    BY <2>1, <2>5 DEF Types, Room
<1>2. CASE SweepWriteCell
  <2>1. /\ cell' = [cell EXCEPT ![sweep.c].status = sweep.status]
        /\ sweep' = [phase |-> "group", status |-> GroupOf(cell', group)]
        /\ UNCHANGED <<attempt, run, claim, group, gtask, fresh, todo, worker, insert, task,
                       scored, cancelled, up, starts, stops, sweeps, restarts>>
    BY <1>2 DEF SweepWriteCell, facts, coordinator, tasks, clock
  <2>2. sweep.c \in Cells /\ sweep.status \in CellStatus
    BY <1>2 DEF SweepWriteCell, Types, SweepPlaces, Idle, Projection
  <2>3. cell' \in CellTable
    BY <2>1, <2>2, StatusSet DEF Types
  <2>4. sweep' \in SweepPlaces
    <3>1. \A cells, previous : GroupOf(cells, previous) \in GroupStatusValue
      BY GroupOfType
    <3> QED
      BY <2>1, <3>1 DEF SweepPlaces
  <2> QED
    BY <2>1, <2>3, <2>4 DEF Types, Room
<1>3. CASE SweepWriteGroup
  <2>1. /\ group' = sweep.status /\ sweep' = Idle
        /\ UNCHANGED <<attempt, run, claim, cell, gtask, fresh, todo, worker, insert, task,
                       scored, cancelled, up, starts, stops, sweeps, restarts>>
    BY <1>3 DEF SweepWriteGroup, facts, coordinator, tasks, clock
  <2>2. group' \in GroupStatusValue
    BY <1>3, <2>1 DEF SweepWriteGroup, Types, SweepPlaces, Idle
  <2>3. sweep' \in SweepPlaces
    BY <2>1 DEF SweepPlaces
  <2> QED
    BY <2>1, <2>2, <2>3 DEF Types, Room
<1> QED
  BY <1>1, <1>2, <1>3

\* All rows of attempts are written at once, in place.
LEMMA RowsSet ==
  ASSUME Types, NEW new, new = [c \in Cells |-> new[c]],
         \A c \in Cells : /\ new[c] = [i \in DOMAIN attempt[c] |-> new[c][i]]
                          /\ \A i \in DOMAIN attempt[c] : new[c][i] \in AttemptStatus
  PROVE  /\ new \in [Cells -> AttemptRows]
         /\ \A c \in Cells : Len(new[c]) = Len(attempt[c])
<1>1. ASSUME NEW c \in Cells
      PROVE  new[c] \in AttemptRows /\ Len(new[c]) = Len(attempt[c])
  <2>1. PICK s, t : s = attempt[c] /\ t = new[c]
    OBVIOUS
  <2>2. s \in AttemptRows
    BY <2>1 DEF Types
  <2>3. t = [i \in DOMAIN s |-> t[i]] /\ \A i \in DOMAIN s : t[i] \in AttemptStatus
    BY <2>1
  <2>4. t \in AttemptRows /\ Len(t) = Len(s)
    BY <2>2, <2>3, RowsMapped
  <2> QED
    BY <2>1, <2>4
<1> QED
  BY <1>1

LEMMA TasksInRange ==
  ASSUME NEW c \in Cells, NEW x \in TasksOf(c)
  PROVE  x \in Cells \X (0..AgentCount)
<1>1. PICK i \in 1..AgentCount : x = <<c, i>>
  BY DEF TasksOf, Busy
<1>2. i \in 0..AgentCount
  BY Constants
<1> QED
  BY <1>1, <1>2

LEMMA StopTypes == ASSUME Types, Room, StopGroup
                   PROVE  Types' /\ Room'
<1>1. /\ stops < MaxStops /\ stops' = stops + 1
      /\ UNCHANGED <<claim, gtask, fresh, todo, worker, insert, task, scored, sweep, up,
                     starts, sweeps, restarts>>
  BY DEF StopGroup, coordinator
<1>2. stops' \in 0..MaxStops
  BY <1>1, Constants DEF Types
<1>3. /\ attempt' \in [Cells -> AttemptRows]
      /\ \A c \in Cells : Len(attempt'[c]) = Len(attempt[c])
  <2>1. PICK runs : attempt' = [c \in Cells |->
               IF c \in runs
               THEN [i \in DOMAIN attempt[c] |->
                       IF attempt[c][i] \in Open \union {"scoring"} THEN "cancelled"
                       ELSE attempt[c][i]]
               ELSE attempt[c]]
    BY DEF StopGroup
  <2>2. ASSUME NEW c \in Cells
        PROVE  /\ attempt'[c] = [i \in DOMAIN attempt[c] |-> attempt'[c][i]]
               /\ \A i \in DOMAIN attempt[c] : attempt'[c][i] \in AttemptStatus
    <3>1. attempt[c] \in AttemptRows
      BY DEF Types
    <3>2. /\ \A i \in DOMAIN attempt[c] : attempt[c][i] \in AttemptStatus
          /\ attempt[c] = [i \in DOMAIN attempt[c] |-> attempt[c][i]]
      BY <3>1 DEF AttemptRows
    <3>3. "cancelled" \in AttemptStatus
      BY DEF AttemptStatus
    <3> QED
      BY <2>1, <3>2, <3>3
  <2>3. attempt' = [c \in Cells |-> attempt'[c]]
    BY <2>1
  <2>4. PICK new : new = attempt'
    OBVIOUS
  <2> QED
    BY <2>2, <2>3, <2>4, RowsSet
<1>4. run' \in [Cells -> RunStatus]
  <2>1. \A rs : RunOf(rs) \in RunStatus
    BY RunOfType
  <2>2. PICK S : run' = [c \in Cells |-> IF c \in S THEN RunOf(attempt'[c]) ELSE run[c]]
    <3> DEFINE T == {c \in StopTargets : cell[c].linked /\ Some(attempt[c], Open \union {"scoring"})}
    <3>1. run' = [c \in Cells |-> IF c \in T THEN RunOf(attempt'[c]) ELSE run[c]]
      BY DEF StopGroup
    <3> QED
      BY <3>1
  <2> QED
    BY <2>1, <2>2 DEF Types
<1>5. cell' \in CellTable
  <2>1. cell' = [c \in Cells |-> IF c \in StopTargets
                                 THEN [cell[c] EXCEPT !.status = "cancelled"] ELSE cell[c]]
    BY DEF StopGroup
  <2>2. \A c \in Cells : cell[c] \in CellRow /\ [cell[c] EXCEPT !.status = "cancelled"] \in CellRow
    BY DEF Types, CellTable, CellRow, CellStatus
  <2> QED
    BY <2>1, <2>2 DEF CellTable
<1>6. group' \in GroupStatusValue
  <2>1. \A cells, previous : GroupOf(cells, previous) \in GroupStatusValue
    BY GroupOfType
  <2>2. \E previous : group' = GroupOf(cell', previous)
    BY DEF StopGroup
  <2> QED
    BY <2>1, <2>2
<1>7. cancelled' \in SUBSET (Cells \X (0..AgentCount))
  <2>1. \A x \in cancelled' : x \in cancelled \/ \E c \in Cells : x \in TasksOf(c)
    BY DEF StopGroup, StopTargets
  <2>2. \A c \in Cells : \A x \in TasksOf(c) : x \in Cells \X (0..AgentCount)
    BY TasksInRange
  <2> QED
    BY <2>1, <2>2 DEF Types
<1>8. Room'
  BY <1>1, <1>3 DEF Room, Types
<1> QED
  BY <1>1, <1>2, <1>3, <1>4, <1>5, <1>6, <1>7, <1>8 DEF Types

LEMMA ProcessTypes ==
  ASSUME Types, Room, Shutdown \/ Exit \/ Crash
  PROVE  Types' /\ Room'
<1>1. CASE Shutdown
  <2>1. /\ restarts < MaxRestarts /\ restarts' = restarts + 1 /\ up' = "closing"
        /\ fresh' = 0 /\ gtask' \in {gtask, "none"}
        /\ UNCHANGED <<attempt, run, claim, cell, group, todo, worker, insert, task, scored,
                       sweep, starts, stops, sweeps>>
    BY <1>1 DEF Shutdown, rows, facts
  <2>2. cancelled' \in SUBSET (Cells \X (0..AgentCount))
    <3>1. \A x \in cancelled' : \/ \E c \in Cells : x = <<c, 0>>
                                \/ \E c \in Cells : x \in TasksOf(c)
      BY <1>1 DEF Shutdown
    <3>2. \A c \in Cells : \A x \in TasksOf(c) : x \in Cells \X (0..AgentCount)
      BY TasksInRange
    <3>3. 0 \in 0..AgentCount
      BY Constants
    <3> QED
      BY <3>1, <3>2, <3>3
  <2>3. restarts' \in 0..MaxRestarts /\ fresh' \in 0..Workers
    BY <2>1, Constants DEF Types
  <2> QED
    BY <2>1, <2>2, <2>3 DEF Types, Room
<1>2. CASE Exit \/ Crash
  <2>1. /\ up' = "down" /\ gtask' = "none" /\ fresh' = 0 /\ todo' = <<>>
        /\ worker' = [c \in Cells |-> "none"] /\ insert' = {}
        /\ task' = [a \in Attempts |-> "none"] /\ cancelled' = {} /\ sweep' = Idle
        /\ scored' \in SUBSET scored
        /\ UNCHANGED <<attempt, run, claim, cell, group, starts, stops, sweeps>>
    BY <1>2 DEF Exit, Crash, MemoryLost, rows, facts
  <2>2. restarts' \in 0..MaxRestarts
    BY <1>2, Constants DEF Exit, Crash, Types
  <2>3. fresh' \in 0..Workers /\ Len(todo') <= CellCount /\ todo' \in Seq(Cells)
    <3>1. Len(<<>>) = 0 /\ <<>> \in Seq(Cells)
      OBVIOUS
    <3> QED
      BY <2>1, <3>1, Constants
  <2>4. scored' \in SUBSET Attempts /\ insert' \in SUBSET Cells
    BY <2>1 DEF Types
  <2>5. worker' \in [Cells -> Places] /\ task' \in [Attempts -> {"none", "waiting", "executing"}]
    <3> HIDE DEF Attempts, Cells
    <3> QED
      BY <2>1 DEF Places
  <2>6. sweep' \in SweepPlaces
    BY <2>1 DEF SweepPlaces
  <2>7. Room'
    BY <2>1 DEF Room
  <2> QED
    BY <2>1, <2>2, <2>3, <2>4, <2>5, <2>6, <2>7 DEF Types
<1> QED
  BY <1>1, <1>2

\* The cell takes the status that its attempts give it.
Reprojected(c) ==
  /\ cell[c].linked /\ cell[c].status # "cancelled"
  /\ cell'[c].status = CellOf(attempt'[c]) /\ cell'[c].status \in Projection

\* What a restart does to one cell.
LEMMA RestartCell ==
  ASSUME Types, Restart, NEW c \in Cells
  PROVE  /\ cell'[c] \in CellRow /\ cell'[c].linked = cell[c].linked
         /\ \/ /\ cell'[c] = cell[c] /\ cell[c].status # "provisioning"
               /\ cell[c].status = "running" => ~cell[c].linked
            \/ Requeued(c) /\ cell'[c].status = "queued"
            \/ Reprojected(c)
<1>1. cell' = [d \in Cells |->
        IF Requeued(d) THEN [cell[d] EXCEPT !.status = "queued"]
        ELSE IF attempt'[d] # attempt[d] \/ cell[d].status \in {"provisioning", "running"}
        THEN Projected(d, attempt'[d], cell)[d]
        ELSE cell[d]]
  BY DEF Restart
<1>2. cell \in CellTable /\ cell[c] \in CellRow
  BY DEF Types, CellTable
<1>3. CASE Requeued(c)
  <2>1. cell'[c] = [cell[c] EXCEPT !.status = "queued"]
    BY <1>1, <1>3
  <2> QED
    BY <1>2, <1>3, <2>1 DEF CellRow, CellStatus, Open
<1>4. CASE ~Requeued(c) /\ (attempt'[c] # attempt[c] \/ cell[c].status \in {"provisioning", "running"})
  <2>1. PICK rs : rs = attempt'[c] /\ cell'[c] = Projected(c, rs, cell)[c]
    BY <1>1, <1>4
  <2>2. /\ Projected(c, rs, cell) \in CellTable
        /\ Projected(c, rs, cell)[c].linked = cell[c].linked
        /\ \/ /\ ~cell[c].linked \/ cell[c].status = "cancelled"
              /\ Projected(c, rs, cell)[c] = cell[c]
           \/ /\ cell[c].linked /\ cell[c].status # "cancelled"
              /\ Projected(c, rs, cell)[c].status = CellOf(rs)
              /\ CellOf(rs) \in Projection
    BY <1>2, ProjectedType
  <2>3. cell'[c] \in CellRow
    BY <2>1, <2>2 DEF CellTable
  <2>4. cell[c].status = "provisioning" => Projected(c, rs, cell)[c].status \in Projection
    <3>1. cell[c].status = "provisioning" => cell[c].linked
      BY <1>2, <1>4 DEF Requeued, CellRow
    <3>2. cell[c].status = "provisioning" =>
            Projected(c, rs, cell)[c].status = CellOf(rs)
      BY <1>2, <3>1, StatusSet DEF Projected, CellTable, CellRow
    <3> QED
      BY <3>2, CellOfType
  <2> QED
    BY <2>1, <2>2, <2>3, <2>4 DEF Projection, Reprojected
<1>5. CASE ~Requeued(c) /\ ~(attempt'[c] # attempt[c] \/ cell[c].status \in {"provisioning", "running"})
  BY <1>1, <1>2, <1>5
<1> QED
  BY <1>3, <1>4, <1>5

LEMMA RestartTypes == ASSUME Types, Room, Restart
                      PROVE  Types' /\ Room'
<1>1. UNCHANGED <<fresh, todo, worker, insert, scored, cancelled, sweep,
                  starts, stops, sweeps, restarts>> /\ up' = "up"
  BY DEF Restart, clock
<1> DEFINE running == {a \in Attempts : /\ a[2] \in DOMAIN attempt[a[1]]
                                        /\ attempt[a[1]][a[2]] = "running"}
           After(alive) == [c \in Cells |-> [i \in DOMAIN attempt[c] |->
             IF attempt[c][i] \in Open /\ <<c, i>> \notin alive THEN "failed"
             ELSE attempt[c][i]]]
           Resumed(resumed) == [a \in Attempts |-> IF a \in resumed THEN "executing"
                                                   ELSE "none"]
<1>r. PICK alive \in SUBSET running : \E resumed \in SUBSET alive :
        attempt' = After(alive) /\ task' = Resumed(resumed)
  BY Zenon DEF Restart
<1>s. PICK resumed \in SUBSET alive : attempt' = After(alive) /\ task' = Resumed(resumed)
  BY <1>r
<1>2. /\ attempt' = After(alive) /\ task' = Resumed(resumed)
  BY <1>s
<1> HIDE DEF running
<1>3. /\ attempt' \in [Cells -> AttemptRows]
      /\ \A c \in Cells : Len(attempt'[c]) = Len(attempt[c])
  <2>1. ASSUME NEW c \in Cells
        PROVE  /\ attempt'[c] = [i \in DOMAIN attempt[c] |-> attempt'[c][i]]
               /\ \A i \in DOMAIN attempt[c] : attempt'[c][i] \in AttemptStatus
    <3>1. attempt[c] \in AttemptRows
      BY DEF Types
    <3>2. \A i \in DOMAIN attempt[c] : attempt[c][i] \in AttemptStatus
      BY <3>1 DEF AttemptRows
    <3>3. "failed" \in AttemptStatus
      BY DEF AttemptStatus
    <3> QED
      BY <1>2, <3>2, <3>3
  <2>2. attempt' = [c \in Cells |-> attempt'[c]]
    BY <1>2
  <2>3. PICK new : new = attempt'
    OBVIOUS
  <2> QED
    BY <2>1, <2>2, <2>3, RowsSet
<1>4. run' \in [Cells -> RunStatus]
  <2>1. \A rs : RunOf(rs) \in RunStatus
    BY RunOfType
  <2>2. run' = [c \in Cells |-> IF attempt'[c] # attempt[c] THEN RunOf(attempt'[c]) ELSE run[c]]
    BY DEF Restart
  <2> QED
    BY <2>1, <2>2 DEF Types
<1>5. claim' \in [Cells -> {"none", "in_progress", "failed", "completed"}]
  <2>1. claim' = [c \in Cells |-> IF claim[c] = "in_progress" THEN "failed" ELSE claim[c]]
    BY DEF Restart
  <2> QED
    BY <2>1 DEF Types
<1>6. cell' \in CellTable
  <2>1. cell' = [c \in Cells |-> cell'[c]]
    BY DEF Restart
  <2> QED
    BY <2>1, RestartCell DEF CellTable
<1>7. group' \in GroupStatusValue
  <2>1. \A cells, previous : GroupOf(cells, previous) \in GroupStatusValue
    BY GroupOfType
  <2>2. group' = GroupOf(cell', group)
    BY DEF Restart
  <2> QED
    BY <2>1, <2>2
<1>8. gtask' \in {"none", "scheduled", "resuming", "running"}
  BY DEF Restart
<1>9. task' \in [Attempts -> {"none", "waiting", "executing"}]
  <2> HIDE DEF Attempts
  <2> QED
    BY <1>2
<1>10. Room'
  BY <1>1, <1>3 DEF Room, Types
<1> QED
  BY <1>1, <1>3, <1>4, <1>5, <1>6, <1>7, <1>8, <1>9, <1>10 DEF Types

LEMMA NextTypes == Types /\ Room /\ [Next]_vars => Types' /\ Room'
<1> SUFFICES ASSUME Types, Room, [Next]_vars
             PROVE  Types' /\ Room'
  OBVIOUS
<1>1. CASE UNCHANGED vars
  BY <1>1 DEF Types, Room, vars, rows, facts, coordinator, tasks, clock
<1>2. ASSUME NEW c \in Cells, NEW i \in 1..AgentCount,
             AttemptStep(c, i) \/ ScoringEnds(c, i) \/ ScoringProjects(c, i)
             \/ SweepConverge(c, i)
      PROVE  Types' /\ Room'
  BY <1>2, AttemptTypes
<1>3. ASSUME NEW c \in Cells, CellStep(c) \/ InsertAttempt(c)
      PROVE  Types' /\ Room'
  BY <1>3, CellTypes, InsertTypes
<1> QED
  BY <1>1, <1>2, <1>3, GroupTypes, SweepTypes, StopTypes, ProcessTypes, RestartTypes
     DEF Next

LEMMA InitTypes == Init => Types /\ Room
<1> SUFFICES ASSUME Init
             PROVE  Types /\ Room
  OBVIOUS
<1>1. /\ <<>> \in AttemptRows /\ Len(<<>>) = 0 /\ <<>> \in Seq(Cells)
  BY DEF AttemptRows
<1>2. attempt \in [Cells -> AttemptRows] /\ \A c \in Cells : Len(attempt[c]) <= AgentCount
  BY <1>1, Constants DEF Init
<1>3. /\ run \in [Cells -> RunStatus] /\ worker \in [Cells -> Places]
      /\ claim \in [Cells -> {"none", "in_progress", "failed", "completed"}]
  BY DEF Init, RunStatus, Places
<1>4. cell \in CellTable
  BY DEF Init, CellTable, CellRow, CellStatus, Open
<1>5. task \in [Attempts -> {"none", "waiting", "executing"}] /\ starts \in [Attempts -> Nat]
  <2> HIDE DEF Attempts
  <2> QED
    BY DEF Init
<1>6. sweep \in SweepPlaces /\ group \in GroupStatusValue
  BY DEF Init, SweepPlaces, GroupStatusValue, CellStatus, Open
<1>7. fresh \in 0..Workers /\ stops \in 0..MaxStops /\ sweeps \in 0..MaxSweeps
      /\ restarts \in 0..MaxRestarts /\ todo \in Seq(Cells) /\ Len(todo) <= CellCount
  BY <1>1, Constants DEF Init
<1>8. Room
  BY DEF Init, Room
<1> QED
  BY <1>2, <1>3, <1>4, <1>5, <1>6, <1>7, <1>8 DEF Init, Types

-----------------------------------------------------------------------------
\* Every value of a run group is of its type.  In particular no run has more
\* attempts than its protocol has agents, also when it was created by a process
\* that died and its creation is tried again.
THEOREM TypeCorrect == Spec => []TypeOK
<1>1. Init => Types /\ Room
  BY InitTypes
<1>2. (Types /\ Room) /\ [Next]_vars => (Types /\ Room)'
  BY NextTypes
<1>3. Types => TypeOK
  <2> SUFFICES ASSUME Types
               PROVE  TypeOK
    OBVIOUS
  <2>1. attempt \in [Cells -> UNION {[1..n -> AttemptStatus] : n \in 0..AgentCount}]
    <3>1. ASSUME NEW c \in Cells
          PROVE  attempt[c] \in UNION {[1..n -> AttemptStatus] : n \in 0..AgentCount}
      <4>1. attempt[c] \in Seq(AttemptStatus) /\ Len(attempt[c]) <= AgentCount
        BY DEF Types, AttemptRows
      <4>2. /\ attempt[c] \in [1..Len(attempt[c]) -> AttemptStatus]
            /\ Len(attempt[c]) \in 0..AgentCount
        BY <4>1, Constants
      <4> QED
        BY <4>2
    <3> QED
      BY <3>1 DEF Types
  <2>2. todo \in UNION {[1..n -> Cells] : n \in 0..CellCount}
    <3> HIDE DEF Cells
    <3>1. todo \in [1..Len(todo) -> Cells] /\ Len(todo) \in 0..CellCount
      BY Constants DEF Types
    <3> QED
      BY <3>1
  <2>3. cell \in [Cells -> [status : CellStatus, linked : BOOLEAN]]
    BY DEF Types, CellTable, CellRow
  <2>4. \/ sweep = Idle
        \/ sweep \in [phase : {"converged"}, c : Cells]
        \/ sweep \in [phase : {"cell"}, c : Cells, status : CellStatus]
        \/ sweep \in [phase : {"group"}, status : GroupStatusValue]
    BY DEF Types, SweepPlaces, Projection
  <2> QED
    BY <2>1, <2>2, <2>3, <2>4 DEF Types, TypeOK, Places
<1> QED
  BY <1>1, <1>2, <1>3, PTL DEF Spec

-----------------------------------------------------------------------------
(* What a step does to one cell and its worker.                            *)

Same(c) == cell'[c] = cell[c] /\ worker'[c] = worker[c]

Taken(c) ==
  /\ up # "down" /\ cell[c].status = "queued"
  /\ cell'[c].status = "provisioning" /\ worker'[c] = "launching"
  /\ cell'[c].linked = cell[c].linked

\* The worker gives the cell up.  It leaves it alone unless the cell is still
\* as the worker expects.
Ended == {"completed", "cancelled", "failed"}

GivenUp(c) ==
  /\ worker[c] # "none" /\ worker'[c] = "none"
  /\ \/ /\ cell'[c] = cell[c]
        /\ cell[c].status = "provisioning" => worker[c] = "dispatching"
        /\ cell[c].status = "running" => worker[c] # "dispatching"
     \/ /\ cell[c].status # "cancelled" /\ cell'[c].status \in Ended
        /\ \/ cell'[c].linked = cell[c].linked
           \/ /\ worker[c] = "launching" /\ cell[c].status = "provisioning"
              /\ cell'[c].linked

\* Projections and stops.
Shown(c) ==
  /\ worker'[c] = worker[c] /\ cell'[c].linked = cell[c].linked
  /\ cell'[c].status \in Projection
  /\ \/ Reprojected(c)
     \/ cell'[c].status = "cancelled"
     \/ sweep.phase = "cell" /\ sweep.c = c

Advanced(c) ==
  \/ /\ worker[c] = "launching" /\ worker'[c] = "creating"
     /\ cell'[c] = cell[c]
  \/ /\ worker[c] = "creating" /\ worker'[c] = "dispatching"
     /\ \A i \in 1..AgentCount : task'[<<c, i>>] = "waiting"
     /\ \/ cell'[c] = cell[c] /\ cell[c].status # "provisioning"
        \/ /\ cell[c].status = "provisioning"
           /\ cell'[c] = [status |-> "running", linked |-> TRUE]

Lost(c) == up' = "down" /\ worker'[c] = "none" /\ cell'[c] = cell[c]

Recovered(c) ==
  /\ up = "down" /\ worker'[c] = worker[c] /\ cell'[c].linked = cell[c].linked
  /\ \/ /\ cell'[c] = cell[c] /\ cell[c].status # "provisioning"
        /\ cell[c].status = "running" => ~cell[c].linked
     \/ Requeued(c) /\ cell'[c].status = "queued"
     \/ Reprojected(c)

Move(c) ==
  \/ up' \in {up, "closing"} /\ (Same(c) \/ Taken(c) \/ GivenUp(c) \/ Shown(c) \/ Advanced(c))
  \/ Lost(c)
  \/ Recovered(c)

\* A worker has no cell that is queued, and a process that is down no workers.
Workless ==
  /\ \A c \in Cells : worker[c] # "none" => cell[c].status # "queued"
  /\ up = "down" => fresh = 0 /\ \A c \in Cells : worker[c] = "none"

LEMMA LeaveMoves ==
  ASSUME Types, Workless, NEW c \in Cells, NEW cells \in CellTable, worker[c] # "none",
         Leave(c, cells), \A d \in Cells : d # c => cells[d] = cell[d],
         cells[c].status # "queued", NEW d \in Cells
  PROVE  \/ d # c /\ (Same(d) \/ Taken(d))
         \/ d = c /\ worker'[c] = "none" /\ cell'[c] = cells[c]
<1> DEFINE places == [worker EXCEPT ![c] = "none"]
<1>1. places \in [Cells -> Places] /\ todo \in Seq(Cells)
  BY DEF Types, Places
<1>2. TakeNext(cells, places)
  BY DEF Leave
<1>3. up # "down"
  BY DEF Workless
<1>4. places[c] = "none" /\ (d # c => places[d] = worker[d])
  BY DEF Types
<1> HIDE DEF places
<1>5. \/ cell' = cells /\ worker' = places
      \/ \E e \in Cells : /\ cells[e].status = "queued"
                          /\ cell' = [cells EXCEPT ![e].status = "provisioning"]
                          /\ worker' = [places EXCEPT ![e] = "launching"]
  BY <1>1, <1>2, TakeNextStep, Zenon
<1>6. CASE cell' = cells /\ worker' = places
  BY <1>4, <1>6 DEF Same
<1>7. ASSUME NEW e \in Cells, cells[e].status = "queued",
             cell' = [cells EXCEPT ![e].status = "provisioning"],
             worker' = [places EXCEPT ![e] = "launching"]
      PROVE  \/ d # c /\ (Same(d) \/ Taken(d))
             \/ d = c /\ worker'[c] = "none" /\ cell'[c] = cells[c]
  <2>1. e # c /\ cell[e].status = "queued"
    BY <1>7
  <2>2. /\ cell'[e].status = "provisioning" /\ worker'[e] = "launching"
        /\ cell'[e].linked = cells[e].linked
        /\ \A f \in Cells : f # e => cell'[f] = cells[f] /\ worker'[f] = places[f]
    <3>1. "provisioning" \in CellStatus
      BY DEF CellStatus
    <3> QED
      BY <1>1, <1>7, <3>1, StatusSet
  <2> QED
    BY <1>3, <1>4, <2>1, <2>2 DEF Same, Taken
<1> QED
  BY <1>5, <1>6, <1>7

LEMMA CellMoves ==
  ASSUME Types, Workless, NEW c \in Cells, CellStep(c), NEW d \in Cells
  PROVE  /\ up' = up
         /\ \/ d # c /\ (Same(d) \/ Taken(d))
            \/ d = c /\ (Same(c) \/ GivenUp(c) \/ Shown(c) \/ Advanced(c))
<1> DEFINE Goal == \/ d # c /\ (Same(d) \/ Taken(d))
                   \/ d = c /\ (Same(c) \/ GivenUp(c) \/ Shown(c) \/ Advanced(c))
<1>0. /\ "failed" \in Ended /\ "cancelled" \in Ended /\ "cancelled" \in Projection
      /\ TerminalOf(run[c]) \in Ended /\ cell \in CellTable
      /\ \A s \in Ended : s \in CellStatus /\ s # "queued"
  BY TerminalOfType DEF Ended, Projection, CellStatus, Open, Types
<1>u. CellStep(c) => up' = up
  BY DEF CellStep, InputMissing, ClaimRun, CreateFails, Created, DispatchReturns,
         WorkerCancelled
<1>1. ASSUME NEW expected, NEW target \in Ended, worker[c] # "none",
             "cancelled" \notin expected,
             "provisioning" \in expected \/ worker[c] = "dispatching",
             "running" \in expected \/ worker[c] # "dispatching",
             Leave(c, Transition(cell, c, expected, target))
      PROVE  Goal
  <2> DEFINE cells == Transition(cell, c, expected, target)
  <2>1. /\ cells \in CellTable /\ \A e \in Cells : e # c => cells[e] = cell[e]
        /\ cells[c].linked = cell[c].linked
        /\ \/ cell[c].status \notin expected /\ cells[c] = cell[c]
           \/ cell[c].status \in expected /\ cells[c].status = target
    BY <1>0, TransitionType
  <2>2. cells[c].status # "queued"
    BY <1>0, <1>1, <2>1 DEF Workless
  <2>3. \/ d # c /\ (Same(d) \/ Taken(d))
        \/ d = c /\ worker'[c] = "none" /\ cell'[c] = cells[c]
    <3> HIDE DEF cells
    <3>1. Leave(c, cells)
      BY <1>1 DEF cells
    <3> QED
      BY <1>1, <2>1, <2>2, <3>1, LeaveMoves
  <2>4. d = c /\ worker'[c] = "none" /\ cell'[c] = cells[c] => GivenUp(c)
    BY <1>1, <2>1 DEF GivenUp
  <2> QED
    BY <2>3, <2>4
<1>2. CASE InputMissing(c)
  <2>1. worker[c] # "none" /\ Leave(c, Transition(cell, c, {"provisioning", "running"}, "failed"))
    BY <1>2 DEF InputMissing, At
  <2> QED
    BY <1>u, <1>0, <1>1, <2>1
<1>3. CASE CreateFails(c)
  <2>1. worker[c] # "none" /\ Leave(c, Transition(cell, c, {"provisioning", "running"}, "failed"))
    BY <1>3 DEF CreateFails, At
  <2> QED
    BY <1>u, <1>0, <1>1, <2>1
<1>4. CASE DispatchReturns(c)
  <2>1. worker[c] = "dispatching" /\ Leave(c, Transition(cell, c, {"running"}, TerminalOf(run[c])))
    BY <1>4 DEF DispatchReturns, At
  <2> QED
    BY <1>u, <1>0, <1>1, <2>1
<1>5. CASE ClaimRun(c)
  <2>0. worker[c] = "launching"
    BY <1>5 DEF ClaimRun, At
  <2>1. CASE Leave(c, Transition(cell, c, {"provisioning"}, "failed"))
    BY <1>u, <1>0, <1>1, <2>0, <2>1
  <2>2. CASE TakeOver(c)
    <3> DEFINE row == [status |-> TerminalOf(run[c]), linked |-> TRUE]
               cells == IF cell[c].status = "provisioning"
                        THEN [cell EXCEPT ![c] = row] ELSE cell
    <3>1. Leave(c, cells)
      BY <2>2 DEF TakeOver
    <3>2. row \in CellRow /\ row.linked /\ row.status \in Ended
      BY <1>0 DEF CellRow
    <3>3. /\ cells \in CellTable /\ \A e \in Cells : e # c => cells[e] = cell[e]
          /\ \/ cell[c].status = "provisioning" /\ cells[c] = row
             \/ cell[c].status # "provisioning" /\ cells[c] = cell[c]
      <4> HIDE DEF row
      <4> QED
        BY <1>0, <3>2 DEF CellTable
    <3>4. cells[c].status # "queued"
      BY <1>0, <2>0, <3>2, <3>3 DEF Workless
    <3>5. \/ d # c /\ (Same(d) \/ Taken(d))
          \/ d = c /\ worker'[c] = "none" /\ cell'[c] = cells[c]
      <4> HIDE DEF cells
      <4> QED
        BY <2>0, <3>1, <3>3, <3>4, LeaveMoves
    <3>6. d = c /\ worker'[c] = "none" /\ cell'[c] = cells[c] => GivenUp(c)
      BY <2>0, <3>2, <3>3 DEF GivenUp
    <3> QED
      BY <1>u, <3>5, <3>6
  <2>3. CASE worker' = [worker EXCEPT ![c] = "creating"] /\ cell' = cell
    BY <1>u, <2>0, <2>3 DEF Same, Advanced, Types
  <2> QED
    BY <1>5, <2>1, <2>2, <2>3 DEF ClaimRun
<1>6. CASE Created(c)
  <2>0. worker[c] = "creating"
    BY <1>6 DEF Created, At
  <2>1. CASE ~PlanComplete(c)
    BY <1>6, <2>1 DEF Created, Same
  <2>2. CASE PlanComplete(c)
    <3> DEFINE row == [status |-> "running", linked |-> TRUE]
    <3>1. /\ cell' = IF cell[c].status = "provisioning" THEN [cell EXCEPT ![c] = row]
                     ELSE cell
          /\ worker' = [worker EXCEPT ![c] = "dispatching"]
          /\ task' = [a \in Attempts |-> IF a[1] = c THEN "waiting" ELSE task[a]]
      BY <1>6, <2>2 DEF Created
    <3>2. /\ worker'[c] = "dispatching" /\ (d # c => worker'[d] = worker[d])
          /\ d # c => cell'[d] = cell[d]
          /\ \/ cell[c].status # "provisioning" /\ cell'[c] = cell[c]
             \/ cell[c].status = "provisioning" /\ cell'[c] = row
      <4> HIDE DEF row
      <4> QED
        BY <3>1 DEF Types, CellTable
    <3>3. \A i \in 1..AgentCount : task'[<<c, i>>] = "waiting"
      BY <3>1 DEF Attempts
    <3> QED
      BY <1>u, <2>0, <3>2, <3>3 DEF Same, Advanced
  <2> QED
    BY <2>1, <2>2
<1>7. CASE WorkerCancelled(c)
  <2>1. /\ cell' = Transition(cell, c, {"provisioning", "running"}, "cancelled")
        /\ worker' = [worker EXCEPT ![c] = "none"]
    BY <1>7 DEF WorkerCancelled
  <2>2. /\ \A e \in Cells : e # c => cell'[e] = cell[e]
        /\ \/ cell[c].status \notin {"provisioning", "running"} /\ cell'[c] = cell[c]
           \/ /\ cell[c].status \in {"provisioning", "running"}
              /\ cell'[c].status = "cancelled" /\ cell'[c].linked = cell[c].linked
    <3>1. "cancelled" \in CellStatus
      BY <1>0
    <3> QED
      BY <1>0, <2>1, <3>1, TransitionType
  <2>3. worker'[c] = "none" /\ (d # c => worker'[d] = worker[d])
    BY <2>1 DEF Types
  <2>4. worker[c] = "none" /\ cell'[c] = cell[c] => Same(c)
    BY <2>3 DEF Same
  <2>5. worker[c] # "none" => GivenUp(c)
    BY <1>0, <2>2, <2>3 DEF GivenUp
  <2>6. ASSUME worker[c] = "none", cell'[c].status = "cancelled",
               cell'[c].linked = cell[c].linked
        PROVE  Shown(c)
    BY <1>0, <2>3, <2>6 DEF Shown
  <2> QED
    BY <1>u, <1>7, <2>2, <2>3, <2>4, <2>5, <2>6 DEF Same
<1> QED
  BY <1>u, <1>2, <1>3, <1>4, <1>5, <1>6, <1>7 DEF CellStep

LEMMA RefreshMoves ==
  ASSUME Types, NEW c \in Cells, Refresh(c), worker' = worker, up' = up, NEW d \in Cells
  PROVE  Move(d)
<1>1. PICK rs : rs = attempt'[c] /\ cell' = Projected(c, rs, cell)
  BY DEF Refresh
<1>2. /\ d # c => cell'[d] = cell[d]
      /\ cell'[c].linked = cell[c].linked
      /\ \/ cell'[c] = cell[c]
         \/ Reprojected(c)
  <2>1. cell \in CellTable
    BY DEF Types
  <2> QED
    BY <1>1, <2>1, ProjectedType DEF Reprojected
<1> QED
  BY <1>2 DEF Move, Same, Shown, Reprojected

LEMMA NextMoves ==
  ASSUME Types, Workless, [Next]_vars, NEW d \in Cells
  PROVE  Move(d)
<1>1. CASE WorkerStarts
  <2>1. fresh > 0 /\ TakeNext(cell, worker) /\ up' = up
    BY <1>1 DEF WorkerStarts
  <2>2. up # "down"
    BY <2>1 DEF Workless
  <2>3. cell \in CellTable /\ worker \in [Cells -> Places] /\ todo \in Seq(Cells)
    BY DEF Types
  <2>4. \/ cell' = cell /\ worker' = worker
        \/ \E e \in Cells : /\ cell[e].status = "queued"
                            /\ cell' = [cell EXCEPT ![e].status = "provisioning"]
                            /\ worker' = [worker EXCEPT ![e] = "launching"]
    BY <2>1, <2>3, TakeNextStep, Zenon
  <2>5. CASE cell' = cell /\ worker' = worker
    BY <2>1, <2>5 DEF Move, Same
  <2>6. ASSUME NEW e \in Cells, cell[e].status = "queued",
               cell' = [cell EXCEPT ![e].status = "provisioning"],
               worker' = [worker EXCEPT ![e] = "launching"]
        PROVE  Move(d)
    <3>1. /\ cell'[e].status = "provisioning" /\ worker'[e] = "launching"
          /\ cell'[e].linked = cell[e].linked
          /\ \A f \in Cells : f # e => cell'[f] = cell[f] /\ worker'[f] = worker[f]
      <4>1. "provisioning" \in CellStatus
        BY DEF CellStatus
      <4> QED
        BY <2>3, <2>6, <4>1, StatusSet
    <3> QED
      BY <2>1, <2>2, <2>6, <3>1 DEF Move, Same, Taken
  <2> QED
    BY <2>4, <2>5, <2>6
<1>2. CASE \/ BeginGroup \/ GroupEnds \/ SweepReadCell \/ SweepWriteGroup \/ UNCHANGED vars
  <2>1. UNCHANGED <<cell, worker, up>>
    BY <1>2 DEF BeginGroup, GroupEnds, SweepReadCell, SweepWriteGroup, vars, rows, coordinator
  <2> QED
    BY <2>1 DEF Move, Same
<1>3. ASSUME NEW c \in Cells, CellStep(c)
      PROVE  Move(d)
  BY <1>3, CellMoves DEF Move
<1>4. ASSUME NEW c \in Cells, InsertAttempt(c)
      PROVE  Move(d)
  BY <1>4 DEF InsertAttempt, Move, Same
<1>5. ASSUME NEW c \in Cells, NEW i \in 1..AgentCount,
             AttemptStep(c, i) \/ ScoringEnds(c, i) \/ ScoringProjects(c, i)
             \/ SweepConverge(c, i)
      PROVE  Move(d)
  <2>1. CASE Start(c, i) \/ TaskCancelled(c, i) \/ ScoringEnds(c, i) \/ SweepConverge(c, i)
    <3>1. UNCHANGED <<cell, worker, up>>
      BY <2>1 DEF Start, TaskCancelled, ScoringEnds, SweepConverge, coordinator, rows
    <3> QED
      BY <3>1 DEF Move, Same
  <2>2. CASE ExecutionEnds(c, i) \/ ScoringProjects(c, i)
    <3>1. Refresh(c) /\ worker' = worker /\ up' = up
      BY <2>2 DEF ExecutionEnds, ScoringProjects, coordinator
    <3> QED
      BY <3>1, RefreshMoves
  <2> QED
    BY <1>5, <2>1, <2>2 DEF AttemptStep
<1>6. CASE SweepWriteCell
  <2>1. /\ sweep.phase = "cell" /\ cell' = [cell EXCEPT ![sweep.c].status = sweep.status]
        /\ UNCHANGED <<worker, up>>
    BY <1>6 DEF SweepWriteCell, coordinator
  <2>2. sweep.c \in Cells /\ sweep.status \in Projection
    BY <2>1 DEF Types, SweepPlaces, Idle
  <2>3. /\ cell'[sweep.c].status = sweep.status
        /\ cell'[sweep.c].linked = cell[sweep.c].linked
        /\ \A e \in Cells : e # sweep.c => cell'[e] = cell[e]
    <3>1. cell \in CellTable /\ sweep.status \in CellStatus
      BY <2>2 DEF Types, Projection
    <3> QED
      BY <2>1, <2>2, <3>1, StatusSet
  <2> QED
    BY <2>1, <2>2, <2>3 DEF Move, Same, Shown
<1>7. CASE StopGroup
  <2>1. UNCHANGED <<worker, up>>
    BY <1>7 DEF StopGroup, coordinator
  <2>2. cell'[d] = cell[d] \/ cell'[d] = [cell[d] EXCEPT !.status = "cancelled"]
    BY <1>7 DEF StopGroup
  <2>3. cell[d] \in CellRow
    BY DEF Types, CellTable
  <2>4. \/ cell'[d] = cell[d]
        \/ cell'[d].status = "cancelled" /\ cell'[d].linked = cell[d].linked
    BY <2>2, <2>3 DEF CellRow
  <2>5. "cancelled" \in Projection
    BY DEF Projection, CellStatus
  <2> QED
    BY <2>1, <2>4, <2>5 DEF Move, Same, Shown
<1>8. CASE Shutdown
  <2>1. UNCHANGED <<cell, worker>> /\ up' = "closing"
    BY <1>8 DEF Shutdown, rows
  <2> QED
    BY <2>1 DEF Move, Same
<1>9. CASE Exit \/ Crash
  <2>1. cell' = cell /\ up' = "down" /\ worker' = [c \in Cells |-> "none"]
    BY <1>9 DEF Exit, Crash, MemoryLost, rows
  <2> QED
    BY <2>1 DEF Move, Lost
<1>10. CASE Restart
  <2>1. up = "down" /\ worker' = worker
    BY <1>10 DEF Restart
  <2>2. /\ cell'[d].linked = cell[d].linked
        /\ \/ /\ cell'[d] = cell[d] /\ cell[d].status # "provisioning"
              /\ cell[d].status = "running" => ~cell[d].linked
           \/ Requeued(d) /\ cell'[d].status = "queued"
           \/ Reprojected(d)
    BY <1>10, RestartCell
  <2> QED
    BY <2>1, <2>2 DEF Move, Recovered
<1> QED
  BY <1>1, <1>2, <1>3, <1>4, <1>5, <1>6, <1>7, <1>8, <1>9, <1>10 DEF Next

-----------------------------------------------------------------------------
(* The life of a cell.                                                     *)

\* Nothing was started for the cell, and nothing is about to be.
Unstarted(c) ==
  \A i \in 1..AgentCount : starts[<<c, i>>] = 0 /\ task[<<c, i>>] # "waiting"

InCreation(c) ==
  \/ cell[c].status \in {"queued", "provisioning"}
  \/ worker[c] \in {"launching", "creating"}

Life ==
  /\ Workless
  /\ up = "up" => \A c \in Cells : cell[c].status = "provisioning" =>
                    worker[c] \in {"launching", "creating"}
  /\ \A c \in Cells : InCreation(c) => Unstarted(c)
  /\ \A a \in Attempts : task[a] = "waiting" => starts[a] = 0

IInv == Types /\ Room /\ Life

\* Agents start from waiting tasks, and tasks wait when the run of their cell is
\* complete.
LEMMA TaskMoves ==
  ASSUME Types, Workless, [Next]_vars, NEW a \in Attempts
  PROVE  /\ \/ starts'[a] = starts[a]
            \/ /\ task[a] = "waiting" /\ task'[a] # "waiting"
               /\ starts'[a] = starts[a] + 1 /\ cell' = cell
               /\ starts' = [starts EXCEPT ![a] = @ + 1]
         /\ task'[a] = "waiting" => \/ task[a] = "waiting"
                                    \/ /\ worker[a[1]] = "creating" /\ starts' = starts
                                       /\ worker'[a[1]] = "dispatching"
<1>0. task \in [Attempts -> {"none", "waiting", "executing"}] /\ starts \in [Attempts -> Nat]
  BY DEF Types
<1>1. CASE \/ BeginGroup \/ GroupEnds \/ SweepReadCell \/ SweepWriteGroup \/ UNCHANGED vars
           \/ WorkerStarts \/ SweepWriteCell \/ StopGroup \/ Shutdown
  BY <1>1 DEF BeginGroup, GroupEnds, SweepReadCell, SweepWriteGroup, vars, tasks, clock,
              WorkerStarts, SweepWriteCell, StopGroup, Shutdown
<1>2. CASE Exit \/ Crash
  <2>1. task' = [b \in Attempts |-> "none"] /\ starts' = starts
    BY <1>2 DEF Exit, Crash, MemoryLost
  <2> HIDE DEF Attempts
  <2> QED
    BY <2>1
<1>3. CASE Restart
  <2>1. \E S : task' = [b \in Attempts |-> IF b \in S THEN "executing" ELSE "none"]
    <3> DEFINE Running == {b \in Attempts : /\ b[2] \in DOMAIN attempt[b[1]]
                                            /\ attempt[b[1]][b[2]] = "running"}
               Tasks(S) == [b \in Attempts |-> IF b \in S THEN "executing" ELSE "none"]
    <3>1. \E alive \in SUBSET Running : \E resumed \in SUBSET alive : task' = Tasks(resumed)
      BY <1>3, Zenon DEF Restart
    <3> QED
      BY <3>1
  <2>2. starts' = starts
    BY <1>3 DEF Restart, clock
  <2>3. task'[a] # "waiting"
    <3> HIDE DEF Attempts
    <3> QED
      BY <2>1
  <2> QED
    BY <2>2, <2>3
<1>4. ASSUME NEW c \in Cells, CellStep(c) \/ InsertAttempt(c)
      PROVE  /\ starts' = starts
             /\ task'[a] = "waiting" => \/ task[a] = "waiting"
                                        \/ /\ worker[a[1]] = "creating"
                                           /\ worker'[a[1]] = "dispatching"
  <2>1. CASE \/ InputMissing(c) \/ ClaimRun(c) \/ CreateFails(c) \/ DispatchReturns(c)
             \/ WorkerCancelled(c) \/ InsertAttempt(c)
    BY <2>1 DEF InputMissing, ClaimRun, TakeOver, CreateFails, DispatchReturns,
                WorkerCancelled, InsertAttempt, tasks, clock
  <2>2. CASE Created(c)
    <3>1. starts' = starts /\ worker[c] = "creating"
      BY <2>2 DEF Created, clock, At
    <3>2. CASE PlanComplete(c)
      <4>1. /\ worker' = [worker EXCEPT ![c] = "dispatching"]
            /\ task' = [b \in Attempts |-> IF b[1] = c THEN "waiting" ELSE task[b]]
        BY <2>2, <3>2 DEF Created
      <4>2. worker'[c] = "dispatching"
        BY <4>1 DEF Types
      <4>3. task'[a] = IF a[1] = c THEN "waiting" ELSE task[a]
        <5> HIDE DEF Attempts
        <5> QED
          BY <4>1
      <4> QED
        BY <3>1, <4>2, <4>3
    <3>3. CASE ~PlanComplete(c)
      BY <2>2, <3>1, <3>3 DEF Created
    <3> QED
      BY <3>2, <3>3
  <2> QED
    BY <1>4, <2>1, <2>2 DEF CellStep
<1>5. ASSUME NEW c \in Cells, NEW i \in 1..AgentCount,
             AttemptStep(c, i) \/ ScoringEnds(c, i) \/ ScoringProjects(c, i)
             \/ SweepConverge(c, i)
      PROVE  /\ \/ starts'[a] = starts[a]
                \/ /\ task[a] = "waiting" /\ task'[a] # "waiting"
                   /\ starts'[a] = starts[a] + 1 /\ cell' = cell
                   /\ starts' = [starts EXCEPT ![a] = @ + 1]
             /\ task'[a] = "waiting" => task[a] = "waiting"
  <2>0. PICK b : b = <<c, i>>
    OBVIOUS
  <2>1. CASE Start(c, i)
    <3>1. /\ task[b] = "waiting" /\ task' = [task EXCEPT ![b] = "executing"] /\ cell' = cell
          /\ starts' = [starts EXCEPT ![b] = @ + 1]
      BY <2>0, <2>1 DEF Start
    <3> HIDE DEF Attempts
    <3> QED
      BY <1>0, <3>1
  <2>2. CASE ExecutionEnds(c, i) \/ TaskCancelled(c, i)
    <3>1. task' = [task EXCEPT ![b] = "none"] /\ starts' = starts
      BY <2>0, <2>2 DEF ExecutionEnds, TaskCancelled, clock
    <3> HIDE DEF Attempts
    <3> QED
      BY <1>0, <3>1
  <2>3. CASE ScoringEnds(c, i) \/ ScoringProjects(c, i) \/ SweepConverge(c, i)
    BY <2>3 DEF ScoringEnds, ScoringProjects, SweepConverge, clock
  <2> QED
    BY <1>5, <2>1, <2>2, <2>3 DEF AttemptStep
<1> QED
  BY <1>1, <1>2, <1>3, <1>4, <1>5 DEF Next

LEMMA ProjectionExcludes ==
  /\ \A s \in Projection : s # "queued" /\ s # "provisioning"
  /\ \A s \in Ended : s # "queued" /\ s # "provisioning" /\ s # "running"
  /\ \A c \in Cells : Reprojected(c) =>
       cell[c].status # "cancelled" /\ cell'[c].status \in Projection
BY DEF Projection, Ended, Reprojected

LEMMA NoWorkersWhenDown ==
  ASSUME Types, Workless, [Next]_vars
  PROVE  up' = "down" => fresh' = 0
<1>1. CASE fresh' = fresh /\ up' = up
  BY <1>1 DEF Workless
<1>2. CASE BeginGroup \/ Shutdown \/ Restart
  BY <1>2 DEF BeginGroup, Shutdown, Restart
<1>3. CASE WorkerStarts
  <2>1. fresh > 0 /\ up' = up
    BY <1>3 DEF WorkerStarts
  <2> QED
    BY <2>1 DEF Workless
<1>4. CASE Exit \/ Crash
  BY <1>4 DEF Exit, Crash, MemoryLost
<1>5. CASE \/ GroupEnds \/ SweepReadCell \/ SweepWriteCell \/ SweepWriteGroup
           \/ StopGroup \/ UNCHANGED vars
  BY <1>1, <1>5 DEF GroupEnds, SweepReadCell, SweepWriteCell, SweepWriteGroup, StopGroup,
                    vars, coordinator
<1>6. ASSUME NEW c \in Cells, CellStep(c) \/ InsertAttempt(c)
      PROVE  fresh' = fresh /\ up' = up
  BY <1>6 DEF CellStep, InputMissing, ClaimRun, CreateFails, Created, DispatchReturns,
              WorkerCancelled, InsertAttempt
<1>7. ASSUME NEW c \in Cells, NEW i \in 1..AgentCount,
             AttemptStep(c, i) \/ ScoringEnds(c, i) \/ ScoringProjects(c, i)
             \/ SweepConverge(c, i)
      PROVE  fresh' = fresh /\ up' = up
  BY <1>7 DEF AttemptStep, Start, ExecutionEnds, TaskCancelled, ScoringEnds,
              ScoringProjects, SweepConverge, coordinator
<1> QED
  BY <1>1, <1>2, <1>3, <1>4, <1>5, <1>6, <1>7 DEF Next

LEMMA NextWorkless ==
  ASSUME Types, Workless, [Next]_vars
  PROVE  Workless'
<1>1. up' = "down" => fresh' = 0
  BY NoWorkersWhenDown
<1>2. ASSUME NEW c \in Cells
      PROVE  /\ worker'[c] # "none" => cell'[c].status # "queued"
             /\ up' = "down" => worker'[c] = "none"
  <2>1. Move(c)
    BY NextMoves
  <2> QED
    BY <2>1, ProjectionExcludes
       DEF Move, Same, Taken, GivenUp, Shown, Advanced, Lost, Recovered, Workless
<1> QED
  BY <1>1, <1>2 DEF Workless

LEMMA NextLife ==
  ASSUME Types, Life, [Next]_vars
  PROVE  Life'
<1>0. Workless
  BY DEF Life
<1>1. Workless'
  BY <1>0, NextWorkless
<1>2. ASSUME NEW c \in Cells, up' = "up", cell'[c].status = "provisioning"
      PROVE  worker'[c] \in {"launching", "creating"}
  <2>1. Move(c)
    BY <1>0, NextMoves
  <2>2. up = "up" /\ cell[c].status = "provisioning" => worker[c] \in {"launching", "creating"}
    BY DEF Life
  <2> QED
    BY <1>2, <2>1, <2>2, ProjectionExcludes
       DEF Move, Same, Taken, GivenUp, Shown, Advanced, Lost, Recovered
<1>3. ASSUME NEW c \in Cells, InCreation(c)'
      PROVE  Unstarted(c)'
  <2>1. Move(c)
    BY <1>0, NextMoves
  <2>2. InCreation(c)
    BY <1>3, <2>1, ProjectionExcludes
       DEF Move, Same, Taken, GivenUp, Shown, Advanced, Lost, Recovered, InCreation, Requeued
  <2>3. ~(worker[c] = "creating" /\ worker'[c] = "dispatching")
    <3> SUFFICES ASSUME worker[c] = "creating", worker'[c] = "dispatching"
                 PROVE  FALSE
      OBVIOUS
    <3>1. cell[c].status # "queued"
      BY <1>0 DEF Workless
    <3>2. Advanced(c)
      BY <2>1 DEF Move, Same, Taken, GivenUp, Shown, Lost, Recovered
    <3>3. cell'[c].status \notin {"queued", "provisioning"}
      BY <3>1, <3>2 DEF Advanced
    <3> QED
      BY <1>3, <3>3 DEF InCreation
  <2>4. ASSUME NEW i \in 1..AgentCount
        PROVE  starts'[<<c, i>>] = 0 /\ task'[<<c, i>>] # "waiting"
    <3>0. <<c, i>> \in Attempts /\ <<c, i>>[1] = c
      BY DEF Attempts
    <3>1. PICK a \in Attempts : a = <<c, i>> /\ a[1] = c
      BY <3>0, Zenon
    <3>2. starts[a] = 0 /\ task[a] # "waiting"
      BY <2>2, <3>1 DEF Life, Unstarted
    <3>3. starts'[a] = 0 /\ task'[a] # "waiting"
      BY <1>0, <2>3, <3>1, <3>2, TaskMoves
    <3> QED
      BY <3>1, <3>3
  <2> QED
    BY <2>4 DEF Unstarted
<1>4. ASSUME NEW a \in Attempts, task'[a] = "waiting"
      PROVE  starts'[a] = 0
  <2>1. CASE task[a] = "waiting"
    <3>1. starts'[a] = starts[a]
      BY <1>0, <1>4, TaskMoves
    <3> QED
      BY <2>1, <3>1 DEF Life
  <2>2. CASE task[a] # "waiting"
    <3>1. worker[a[1]] = "creating" /\ starts' = starts
      BY <1>0, <1>4, <2>2, TaskMoves
    <3>2. PICK c \in Cells, i \in 1..AgentCount : a = <<c, i>>
      BY DEF Attempts
    <3>3. Unstarted(c)
      BY <3>1, <3>2 DEF Life, InCreation
    <3> QED
      BY <3>1, <3>2, <3>3 DEF Unstarted
  <2> QED
    BY <2>1, <2>2
<1> QED
  BY <1>1, <1>2, <1>3, <1>4 DEF Life

LEMMA InitLife == Init => Life
<1> SUFFICES ASSUME Init
             PROVE  Life
  OBVIOUS
<1>1. \A a \in Attempts : starts[a] = 0 /\ task[a] = "none"
  <2> HIDE DEF Attempts
  <2> QED
    BY DEF Init
<1>2. \A c \in Cells : Unstarted(c)
  BY <1>1 DEF Unstarted, Attempts
<1>3. \A c \in Cells : worker[c] = "none" /\ cell[c].status = "queued"
  BY DEF Init
<1>4. up = "up"
  BY DEF Init
<1> QED
  BY <1>1, <1>2, <1>3, <1>4 DEF Life, Workless

LEMMA AlwaysInv == Spec => []IInv
<1>1. Init => IInv
  BY InitTypes, InitLife DEF IInv
<1>2. IInv /\ [Next]_vars => IInv'
  BY NextTypes, NextLife DEF IInv
<1> QED
  BY <1>1, <1>2, PTL DEF Spec

\* A cell in provisioning has a worker that will take it further, whatever is
\* stopped, swept or restarted.
THEOREM WorkerForProvisioning == Spec => []ProvisioningHasWorker
<1>1. IInv => ProvisioningHasWorker
  BY DEF IInv, Life, ProvisioningHasWorker
<1> QED
  BY <1>1, AlwaysInv, PTL

\* The cancellation of a cell is undone only by a sweeper that has read the cell
\* before.
THEOREM CancelledStays == Spec => OnlySweepReopens
<1>1. IInv /\ [Next]_vars =>
        [\A c \in Cells :
           (cell[c].status = "cancelled" /\ cell'[c].status # "cancelled")
           => sweep.phase = "cell" /\ sweep.c = c]_vars
  <2> SUFFICES ASSUME IInv, [Next]_vars, NEW c \in Cells,
                      cell[c].status = "cancelled", cell'[c].status # "cancelled"
               PROVE  sweep.phase = "cell" /\ sweep.c = c
    OBVIOUS
  <2>1. Move(c)
    BY NextMoves DEF IInv, Life
  <2> QED
    BY <2>1 DEF Move, Same, Taken, GivenUp, Shown, Advanced, Lost, Recovered, Requeued,
                Reprojected
<1> QED
  BY <1>1, AlwaysInv, PTL DEF Spec, OnlySweepReopens

\* The group implements CellPromise: a cell waits, is open, closes; each attempt
\* is started once, never for a cell that waits; and a cell that is put back to
\* wait has started nothing.
THEOREM PromiseKept == Spec => KeepsPromise
<1>1. Init => Promise!Init
  <2> SUFFICES ASSUME Init
               PROVE  Promise!Init
    OBVIOUS
  <2>1. \A c \in Cells : Phase(c) = "waiting"
    BY DEF Init, Phase
  <2> QED
    BY <2>1 DEF Init, Promise!Init
<1>2. IInv /\ [Next]_vars => [Promise!Move \/ Promise!StartAgent]_Promise!vars
  <2> SUFFICES ASSUME IInv, [Next]_vars
               PROVE  [Promise!Move \/ Promise!StartAgent]_Promise!vars
    OBVIOUS
  <2>0. Types /\ Life /\ Workless
    BY DEF IInv, Life
  <2>1. CASE starts' = starts
    <3> DEFINE next == [c \in Cells |-> Phase(c)']
    <3>1. next \in [Cells -> {"waiting", "open", "closed"}]
      BY DEF Phase
    <3>2. ASSUME NEW c \in Cells
          PROVE  Phase(c)' = Phase(c) \/ Promise!Moves(c, Phase(c)')
      <4>1. Move(c)
        BY <2>0, NextMoves
      <4>2. Phase(c)' = "waiting" <=> cell'[c].status = "queued"
        BY DEF Phase
      <4>3. Phase(c) = "waiting" <=> cell[c].status = "queued"
        BY DEF Phase
      <4>4. CASE cell'[c].status = "queued" /\ cell[c].status # "queued"
        <5>1. cell[c].status = "provisioning"
          BY <4>1, <4>4, ProjectionExcludes
             DEF Move, Same, Taken, GivenUp, Shown, Advanced, Lost, Recovered, Requeued
        <5>2. Unstarted(c)
          BY <2>0, <5>1 DEF Life, InCreation
        <5>3. Promise!Untouched(c)
          BY <5>2 DEF Promise!Untouched, Unstarted, Attempts
        <5>4. Phase(c) = "open" /\ Phase(c)' = "waiting"
          BY <4>4, <5>1 DEF Phase, ActiveCell
        <5> QED
          BY <5>3, <5>4 DEF Promise!Moves
      <4>5. CASE ~(cell'[c].status = "queued" /\ cell[c].status # "queued")
        <5>1. /\ Phase(c) \in {"waiting", "open", "closed"}
              /\ Phase(c)' \in {"waiting", "open", "closed"}
          BY DEF Phase
        <5> QED
          BY <4>2, <4>3, <4>5, <5>1 DEF Promise!Moves
      <4> QED
        BY <4>4, <4>5
    <3>3. \E n \in [Cells -> {"waiting", "open", "closed"}] :
            /\ \A c \in Cells : n[c] = Phase(c) \/ Promise!Moves(c, n[c])
            /\ n = [c \in Cells |-> Phase(c)']
      BY <3>1, <3>2
    <3> QED
      BY <2>1, <3>3 DEF Promise!Move, Promise!Moves
  <2>2. CASE starts' # starts
    <3>1. PICK a \in Attempts : starts'[a] # starts[a]
      <4>1. starts \in [Attempts -> Nat] /\ starts' \in [Attempts -> Nat]
        <5>1. Types'
          BY NextTypes DEF IInv
        <5> QED
          BY <2>0, <5>1 DEF Types
      <4> HIDE DEF Attempts
      <4> QED
        BY <2>2, <4>1
    <3>2. /\ task[a] = "waiting" /\ cell' = cell
          /\ starts' = [starts EXCEPT ![a] = @ + 1]
      BY <2>0, <3>1, TaskMoves
    <3>3. starts[a] = 0
      BY <2>0, <3>2 DEF Life
    <3>4. PICK c \in Cells, i \in 1..AgentCount : a = <<c, i>> /\ a[1] = c
      BY DEF Attempts
    <3>5. Phase(c) # "waiting"
      <4>1. cell[c].status # "queued"
        BY <2>0, <3>2, <3>4 DEF Life, InCreation, Unstarted
      <4> QED
        BY <4>1 DEF Phase
    <3>6. [d \in Cells |-> Phase(d)'] = [d \in Cells |-> Phase(d)]
      BY <3>2 DEF Phase
    <3>7. starts' = [starts EXCEPT ![a] = 1]
      BY <3>2, <3>3
    <3> QED
      BY <3>3, <3>4, <3>5, <3>6, <3>7 DEF Promise!StartAgent
  <2> QED
    BY <2>1, <2>2
<1> QED
  BY <1>1, <1>2, AlwaysInv, PTL DEF Spec, KeepsPromise, Promise!Spec

-----------------------------------------------------------------------------
(* Who goes on with a cell.                                                *)

\* A cell is linked to its run when its creation is over, and one that shows
\* "running" is linked unless a sweeper wrote it.
Links ==
  /\ \A c \in Cells : cell[c].status \in {"queued", "provisioning"} => ~cell[c].linked
  /\ \A c \in Cells : worker[c] \in {"launching", "creating"} => ~cell[c].linked
  /\ sweeps = 0 => /\ sweep = Idle
                   /\ \A c \in Cells : cell[c].status = "running" => cell[c].linked

\* A dispatch has a row, a thread that creates one has a worker that waits for it.
Memory ==
  /\ up = "down" => insert = {} /\ cancelled = {}
  /\ up = "up" => \A c \in insert : worker[c] = "creating"
  /\ \A c \in Cells : \A i \in 1..AgentCount :
       task[<<c, i>>] # "none" => i \in DOMAIN attempt[c]

\* Until the process ends it is dispatches that are told to cancel, not workers:
\* those of attempts that are not queued any more, and of cells that are
\* cancelled unless a sweeper told them.
Told(c, i) ==
  /\ i \in DOMAIN attempt[c] /\ attempt[c][i] # "queued"
  /\ sweeps = 0 => cell[c].status = "cancelled"
Cancels ==
  up = "up" => \A c \in Cells : \A i \in 0..AgentCount :
                 <<c, i>> \in cancelled => Told(c, i)

\* A queued attempt has a dispatch that waits, or a worker that still creates its
\* run, or nobody: then the cell was given up before it was linked.
Awaited(c, i) ==
  \/ i \in 1..AgentCount /\ task[<<c, i>>] = "waiting"
  \/ worker[c] = "creating"
  \/ ~cell[c].linked /\ cell[c].status \notin {"queued", "provisioning"}
Queued ==
  up = "up" => \A c \in Cells : \A i \in DOMAIN attempt[c] :
                 attempt[c][i] = "queued" => Awaited(c, i)

\* Workers belong to the group's task.
TaskWorkers ==
  up = "up" /\ gtask # "running" =>
    fresh = 0 /\ \A c \in Cells : worker[c] = "none"

Owned(c) ==
  \/ worker[c] = "dispatching"
  \/ Busy(c) # {}
  \/ \E i \in 1..AgentCount : <<c, i>> \in scored
  \/ Some(attempt[c], {"running"})

\* What the sweeper does to the count of what it converged.
LEMMA SweepMoves ==
  ASSUME Types, [Next]_vars, sweeps' = 0
  PROVE  sweeps = 0 /\ (sweep = Idle => sweep' = Idle)
<1>1. CASE SweepReadCell \/ SweepWriteCell \/ SweepWriteGroup
  <2>1. sweeps' = sweeps /\ sweep.phase \in {"converged", "cell", "group"}
    BY <1>1 DEF SweepReadCell, SweepWriteCell, SweepWriteGroup, clock
  <2>2. sweep # Idle
    BY <2>1 DEF Idle
  <2> QED
    BY <2>1, <2>2
<1>2. CASE \/ BeginGroup \/ WorkerStarts \/ GroupEnds \/ StopGroup \/ Shutdown \/ Exit \/ Crash
           \/ Restart \/ UNCHANGED vars
  BY <1>2 DEF BeginGroup, WorkerStarts, GroupEnds, StopGroup, Shutdown, Exit, Crash,
              MemoryLost, Restart, vars, clock
<1>3. ASSUME NEW c \in Cells, CellStep(c) \/ InsertAttempt(c)
      PROVE  sweeps' = sweeps /\ sweep' = sweep
  BY <1>3 DEF CellStep, InputMissing, ClaimRun, CreateFails, Created, DispatchReturns,
              WorkerCancelled, InsertAttempt, clock
<1>4. ASSUME NEW c \in Cells, NEW i \in 1..AgentCount,
             AttemptStep(c, i) \/ ScoringEnds(c, i) \/ ScoringProjects(c, i)
      PROVE  sweeps' = sweeps /\ sweep' = sweep
  BY <1>4 DEF AttemptStep, Start, ExecutionEnds, TaskCancelled, ScoringEnds,
              ScoringProjects, clock
<1>5. ASSUME NEW c \in Cells, NEW i \in 1..AgentCount, SweepConverge(c, i)
      PROVE  FALSE
  <2>1. sweeps \in Nat /\ sweeps' = sweeps + 1
    BY <1>5 DEF SweepConverge, Types
  <2> QED
    BY <2>1
<1> QED
  BY <1>1, <1>2, <1>3, <1>4, <1>5 DEF Next

LEMMA NextLinks ==
  ASSUME Types, Workless, Links, [Next]_vars
  PROVE  Links'
<1>1. ASSUME NEW c \in Cells
      PROVE  /\ \/ cell'[c].status \in {"queued", "provisioning"}
                \/ worker'[c] \in {"launching", "creating"}
                => ~cell'[c].linked
             /\ cell'[c].status = "running" /\ sweep = Idle /\ sweeps = 0 => cell'[c].linked
  <2>1. Move(c)
    BY NextMoves
  <2>2. sweep = Idle => sweep.phase # "cell"
    BY DEF Idle
  <2>3. CASE Same(c) \/ Taken(c)
    BY <2>3 DEF Same, Taken, Links
  <2>4. CASE GivenUp(c)
    <3>1. cell'[c] = cell[c] \/ cell'[c].status \in Ended
      BY <2>4 DEF GivenUp
    <3> QED
      BY <2>4, <3>1, ProjectionExcludes DEF GivenUp, Links
  <2>5. CASE Shown(c)
    BY <2>2, <2>5, ProjectionExcludes DEF Shown, Links, Reprojected
  <2>6. CASE Advanced(c)
    BY <2>6 DEF Advanced, Links
  <2>7. CASE Lost(c)
    BY <2>7 DEF Lost, Links
  <2>8. CASE Recovered(c)
    <3>1. worker[c] = "none"
      BY <2>8 DEF Recovered, Workless
    <3> QED
      BY <2>8, <3>1, ProjectionExcludes DEF Recovered, Links, Reprojected, Requeued
  <2> QED
    BY <2>1, <2>3, <2>4, <2>5, <2>6, <2>7, <2>8 DEF Move
<1>2. sweeps' = 0 => sweeps = 0 /\ sweep = Idle /\ sweep' = Idle
  BY SweepMoves DEF Links
<1> QED
  BY <1>1, <1>2 DEF Links

LEMMA UpMoves ==
  ASSUME [Next]_vars, up' = "up"
  PROVE  up = "up" \/ Restart
<1>1. CASE \/ BeginGroup \/ WorkerStarts \/ GroupEnds \/ StopGroup \/ Shutdown \/ Exit \/ Crash
           \/ UNCHANGED vars \/ SweepReadCell \/ SweepWriteCell \/ SweepWriteGroup
  BY <1>1 DEF BeginGroup, WorkerStarts, GroupEnds, StopGroup, Shutdown, Exit, Crash,
              MemoryLost, vars, SweepReadCell, SweepWriteCell, SweepWriteGroup
<1>2. ASSUME NEW c \in Cells, CellStep(c) \/ InsertAttempt(c)
      PROVE  up' = up
  BY <1>2 DEF CellStep, InputMissing, ClaimRun, CreateFails, Created, DispatchReturns,
              WorkerCancelled, InsertAttempt
<1>3. ASSUME NEW c \in Cells, NEW i \in 1..AgentCount,
             AttemptStep(c, i) \/ ScoringEnds(c, i) \/ ScoringProjects(c, i)
             \/ SweepConverge(c, i)
      PROVE  up' = up
  BY <1>3 DEF AttemptStep, Start, ExecutionEnds, TaskCancelled, ScoringEnds,
              ScoringProjects, SweepConverge
<1> QED
  BY <1>1, <1>2, <1>3 DEF Next

\* No row disappears, and a row becomes queued only when a thread creates it.
RowKept(c) ==
  /\ \A i \in DOMAIN attempt[c] : i \in DOMAIN attempt'[c]
  /\ \A i \in DOMAIN attempt'[c] : attempt'[c][i] = "queued" =>
       \/ i \in DOMAIN attempt[c] /\ attempt[c][i] = "queued" /\ ~Restart
       \/ i \notin DOMAIN attempt[c] /\ c \in insert /\ worker' = worker /\ up' = up

LEMMA RowWritten ==
  ASSUME Types, ~Restart, NEW e \in Cells, NEW k, NEW v,
         attempt' = [attempt EXCEPT ![e][k] = v], v # "queued", NEW c \in Cells
  PROVE  RowKept(c)
<1> DEFINE row == [attempt[e] EXCEPT ![k] = v]
<1>1. /\ DOMAIN row = DOMAIN attempt[e]
      /\ \A i \in DOMAIN row : row[i] = "queued" => attempt[e][i] = "queued"
  OBVIOUS
<1>2. attempt' = [attempt EXCEPT ![e] = row]
  OBVIOUS
<1> HIDE DEF row
<1>3. attempt'[e] = row /\ \A d \in Cells : d # e => attempt'[d] = attempt[d]
  BY <1>2 DEF Types
<1> QED
  BY <1>1, <1>3 DEF RowKept

LEMMA RowsKept ==
  ASSUME Types, [Next]_vars, NEW c \in Cells
  PROVE  RowKept(c)
<1>r. CASE Restart
  <2> DEFINE running == {a \in Attempts : /\ a[2] \in DOMAIN attempt[a[1]]
                                          /\ attempt[a[1]][a[2]] = "running"}
             After(alive) == [d \in Cells |-> [i \in DOMAIN attempt[d] |->
               IF attempt[d][i] \in Open /\ <<d, i>> \notin alive THEN "failed"
               ELSE attempt[d][i]]]
  <2>1. PICK alive \in SUBSET running : attempt' = After(alive)
    BY <1>r, Zenon DEF Restart
  <2>2. DOMAIN attempt'[c] = DOMAIN attempt[c]
    BY <2>1
  <2>3. ASSUME NEW i \in DOMAIN attempt[c], attempt'[c][i] = "queued"
        PROVE  FALSE
    <3>1. attempt'[c][i] = IF attempt[c][i] \in Open /\ <<c, i>> \notin alive THEN "failed"
                           ELSE attempt[c][i]
      BY <2>1
    <3>2. <<c, i>> \in alive /\ attempt[c][i] = "queued"
      BY <2>3, <3>1 DEF Open
    <3>3. <<c, i>> \in running
      BY <3>2
    <3> QED
      BY <3>2, <3>3
  <2> QED
    BY <2>2, <2>3 DEF RowKept
<1>n. CASE ~Restart /\ attempt' = attempt
  BY <1>n DEF RowKept
<1> SUFFICES ASSUME ~Restart, attempt' # attempt
             PROVE  RowKept(c)
  BY <1>r, <1>n
<1>1. CASE StopGroup
  <2>1. PICK runs : attempt' = [d \in Cells |->
          IF d \in runs
          THEN [i \in DOMAIN attempt[d] |->
                  IF attempt[d][i] \in Open \union {"scoring"} THEN "cancelled"
                  ELSE attempt[d][i]]
          ELSE attempt[d]]
    BY <1>1 DEF StopGroup
  <2>2. \/ attempt'[c] = attempt[c]
        \/ attempt'[c] = [i \in DOMAIN attempt[c] |->
             IF attempt[c][i] \in Open \union {"scoring"} THEN "cancelled" ELSE attempt[c][i]]
    BY <2>1
  <2> QED
    BY <2>2 DEF RowKept
<1>2. ASSUME NEW e \in Cells, InsertAttempt(e)
      PROVE  RowKept(c)
  <2>1. /\ e \in insert /\ attempt' = [attempt EXCEPT ![e] = Append(@, "queued")]
        /\ worker' = worker /\ up' = up
    BY <1>2 DEF InsertAttempt
  <2>2. attempt[e] \in AttemptRows
    BY DEF Types
  <2>3. PICK n \in Nat : /\ DOMAIN attempt[e] = 1..n
                         /\ DOMAIN Append(attempt[e], "queued") = 1..(n + 1)
                         /\ \A i \in 1..n : Append(attempt[e], "queued")[i] = attempt[e][i]
    BY <2>2 DEF AttemptRows
  <2>4. /\ attempt'[e] = Append(attempt[e], "queued")
        /\ \A d \in Cells : d # e => attempt'[d] = attempt[d]
    BY <2>1 DEF Types
  <2>5. \A i \in 1..n : i \in 1..(n + 1)
    OBVIOUS
  <2> QED
    BY <2>1, <2>3, <2>4, <2>5 DEF RowKept
<1>3. ASSUME NEW e \in Cells, NEW k \in 1..AgentCount,
             AttemptStep(e, k) \/ ScoringEnds(e, k) \/ ScoringProjects(e, k)
             \/ SweepConverge(e, k)
      PROVE  RowKept(c)
  <2>1. \E v : v # "queued" /\ attempt' = [attempt EXCEPT ![e][k] = v]
    <3>1. CASE Start(e, k)
      <4>1. attempt' = [attempt EXCEPT ![e][k] = IF @ = "queued" THEN "running" ELSE @]
        BY <3>1 DEF Start
      <4> DEFINE v == IF attempt[e][k] = "queued" THEN "running" ELSE attempt[e][k]
      <4>2. v # "queued" /\ attempt' = [attempt EXCEPT ![e][k] = v]
        BY <4>1
      <4> QED
        BY <4>2
    <3>2. CASE ExecutionEnds(e, k) \/ ScoringEnds(e, k)
      <4>1. "queued" \notin ExecEnds /\ "queued" \notin ScoreEnds
        BY RunGroupAssumption DEF RunGroupAssumption
      <4> QED
        BY <3>2, <4>1 DEF ExecutionEnds, ScoringEnds
    <3>3. CASE TaskCancelled(e, k) \/ ScoringProjects(e, k)
      BY <3>3 DEF TaskCancelled, ScoringProjects, rows, facts
    <3>4. CASE SweepConverge(e, k)
      BY <3>4 DEF SweepConverge
    <3> QED
      BY <1>3, <3>1, <3>2, <3>3, <3>4 DEF AttemptStep
  <2> QED
    BY <2>1, RowWritten
<1>4. CASE \/ BeginGroup \/ WorkerStarts \/ GroupEnds \/ Shutdown \/ Exit \/ Crash
           \/ UNCHANGED vars \/ SweepReadCell \/ SweepWriteCell \/ SweepWriteGroup
  BY <1>4 DEF BeginGroup, WorkerStarts, GroupEnds, Shutdown, Exit, Crash, facts, rows,
              MemoryLost, vars, SweepReadCell, SweepWriteCell, SweepWriteGroup
<1>5. ASSUME NEW e \in Cells, CellStep(e)
      PROVE  FALSE
  BY <1>5 DEF CellStep, InputMissing, ClaimRun, CreateFails, Created, DispatchReturns,
              WorkerCancelled, facts
<1> QED
  BY <1>1, <1>2, <1>3, <1>4, <1>5 DEF Next

\* A thread creates an attempt while the worker of its cell waits for it.
LEMMA InsertMoves ==
  ASSUME Types, Workless, Memory, Cancels, [Next]_vars, NEW c \in Cells, c \in insert'
  PROVE  /\ up' # "down"
         /\ up' = "up" => worker'[c] = "creating"
<1>1. CASE Exit \/ Crash
  BY <1>1 DEF Exit, Crash, MemoryLost
<1>2. CASE Restart
  BY <1>2 DEF Restart, Memory
<1>3. ASSUME NEW e \in Cells, CellStep(e)
      PROVE  /\ up' # "down"
             /\ up' = "up" => worker'[c] = "creating"
  <2>1. up' = up /\ (c # e => Same(c) \/ Taken(c))
    BY <1>3, CellMoves
  <2>2. CASE c # e
    <3>1. c \in insert
      BY <1>3, <2>2 DEF CellStep, InputMissing, ClaimRun, CreateFails, Created,
                        DispatchReturns, WorkerCancelled
    <3>2. up # "down" /\ (up = "up" => worker[c] = "creating")
      BY <3>1 DEF Memory
    <3>3. up = "up" => cell[c].status # "queued"
      BY <3>2 DEF Workless
    <3> QED
      BY <2>1, <2>2, <3>2, <3>3 DEF Same, Taken
  <2>3. CASE c = e
    <3>1. CASE InputMissing(c) \/ CreateFails(c) \/ DispatchReturns(c)
      <4>1. (c \in insert /\ worker[c] # "creating") \/ c \notin insert'
        BY <3>1 DEF InputMissing, CreateFails, DispatchReturns, At
      <4> QED
        BY <2>1, <4>1 DEF Memory
    <3>2. CASE ClaimRun(c)
      <4>1. worker[c] = "launching"
        BY <3>2 DEF ClaimRun, At
      <4>2. up # "down"
        BY <4>1 DEF Workless
      <4>3. c \in insert \/ worker' = [worker EXCEPT ![c] = "creating"]
        BY <3>2 DEF ClaimRun
      <4>4. c \in insert => up # "up"
        BY <4>1 DEF Memory
      <4> QED
        BY <2>1, <4>2, <4>3, <4>4 DEF Types
    <3>3. CASE Created(c)
      <4>1. worker[c] = "creating" /\ worker' = worker
        BY <3>3 DEF Created, At
      <4> QED
        BY <2>1, <4>1 DEF Workless
    <3>4. CASE WorkerCancelled(c)
      <4>1. c \in insert /\ <<c, 0>> \in cancelled
        BY <3>4 DEF WorkerCancelled
      <4>2. 0 \in 0..AgentCount
        BY Constants
      <4>3. up # "down"
        BY <4>1 DEF Memory
      <4>4. up # "up"
        <5>1. 0 \notin DOMAIN attempt[c]
          <6>1. attempt[c] \in AttemptRows
            BY DEF Types
          <6> QED
            BY <6>1 DEF AttemptRows
        <5> QED
          BY <4>1, <4>2, <5>1 DEF Cancels, Told
      <4> QED
        BY <2>1, <4>3, <4>4
    <3> QED
      BY <1>3, <2>3, <3>1, <3>2, <3>3, <3>4 DEF CellStep
  <2> QED
    BY <2>2, <2>3
<1>4. CASE \/ BeginGroup \/ WorkerStarts \/ GroupEnds \/ StopGroup \/ Shutdown
           \/ UNCHANGED vars \/ SweepReadCell \/ SweepWriteCell \/ SweepWriteGroup
           \/ (\E e \in Cells : InsertAttempt(e))
           \/ (\E e \in Cells, i \in 1..AgentCount :
                 AttemptStep(e, i) \/ ScoringEnds(e, i) \/ ScoringProjects(e, i)
                 \/ SweepConverge(e, i))
  <2>1. insert' \subseteq insert /\ up' \in {up, "closing"}
    <3>1. CASE \/ BeginGroup \/ WorkerStarts \/ GroupEnds \/ StopGroup \/ Shutdown
               \/ UNCHANGED vars \/ SweepReadCell \/ SweepWriteCell \/ SweepWriteGroup
      BY <3>1 DEF BeginGroup, WorkerStarts, GroupEnds, StopGroup, Shutdown, coordinator,
                  vars, SweepReadCell, SweepWriteCell, SweepWriteGroup
    <3>2. ASSUME NEW e \in Cells, InsertAttempt(e)
          PROVE  insert' \subseteq insert /\ up' = up
      BY <3>2 DEF InsertAttempt
    <3>3. ASSUME NEW e \in Cells, NEW i \in 1..AgentCount,
                 AttemptStep(e, i) \/ ScoringEnds(e, i) \/ ScoringProjects(e, i)
                 \/ SweepConverge(e, i)
          PROVE  insert' = insert /\ up' = up
      BY <3>3 DEF AttemptStep, Start, ExecutionEnds, TaskCancelled, ScoringEnds,
                  ScoringProjects, SweepConverge, coordinator
    <3> QED
      BY <1>4, <3>1, <3>2, <3>3
  <2>2. up # "down" /\ (up = "up" => worker[c] = "creating")
    BY <2>1 DEF Memory
  <2>3. up = "up" => cell[c].status # "queued"
    BY <2>2 DEF Workless
  <2>4. worker' = worker \/ WorkerStarts
    <3>1. CASE \/ BeginGroup \/ GroupEnds \/ StopGroup \/ Shutdown
               \/ UNCHANGED vars \/ SweepReadCell \/ SweepWriteCell \/ SweepWriteGroup
      BY <3>1 DEF BeginGroup, GroupEnds, StopGroup, Shutdown, coordinator,
                  vars, SweepReadCell, SweepWriteCell, SweepWriteGroup
    <3>2. ASSUME NEW e \in Cells, InsertAttempt(e)
          PROVE  worker' = worker
      BY <3>2 DEF InsertAttempt
    <3>3. ASSUME NEW e \in Cells, NEW i \in 1..AgentCount,
                 AttemptStep(e, i) \/ ScoringEnds(e, i) \/ ScoringProjects(e, i)
                 \/ SweepConverge(e, i)
          PROVE  worker' = worker
      BY <3>3 DEF AttemptStep, Start, ExecutionEnds, TaskCancelled, ScoringEnds,
                  ScoringProjects, SweepConverge, coordinator
    <3> QED
      BY <1>4, <3>1, <3>2, <3>3
  <2>5. WorkerStarts /\ up = "up" => worker'[c] = "creating"
    <3> SUFFICES ASSUME WorkerStarts, up = "up"
                 PROVE  worker'[c] = "creating"
      OBVIOUS
    <3>1. TakeNext(cell, worker)
      BY DEF WorkerStarts
    <3>2. cell \in CellTable /\ worker \in [Cells -> Places] /\ todo \in Seq(Cells)
      BY DEF Types
    <3>3. \/ cell' = cell /\ worker' = worker
          \/ \E e \in Cells : /\ cell[e].status = "queued"
                              /\ cell' = [cell EXCEPT ![e].status = "provisioning"]
                              /\ worker' = [worker EXCEPT ![e] = "launching"]
      BY <3>1, <3>2, TakeNextStep, Zenon
    <3> QED
      BY <2>2, <2>3, <3>2, <3>3
  <2> QED
    BY <2>1, <2>2, <2>4, <2>5
<1> QED
  BY <1>1, <1>2, <1>3, <1>4 DEF Next

\* A dispatch is created for a row that is there.
LEMMA DispatchMoves ==
  ASSUME Types, [Next]_vars, NEW c \in Cells, NEW i \in 1..AgentCount
  PROVE  task'[<<c, i>>] # "none" => task[<<c, i>>] # "none" \/ i \in DOMAIN attempt'[c]
<1>0. <<c, i>> \in Attempts
  BY DEF Attempts
<1>1. CASE \/ BeginGroup \/ WorkerStarts \/ GroupEnds \/ StopGroup \/ Shutdown
           \/ UNCHANGED vars \/ SweepReadCell \/ SweepWriteCell \/ SweepWriteGroup
  BY <1>1 DEF BeginGroup, WorkerStarts, GroupEnds, StopGroup, Shutdown, tasks,
              vars, SweepReadCell, SweepWriteCell, SweepWriteGroup
<1>2. CASE Exit \/ Crash
  <2>1. task' = [a \in Attempts |-> "none"]
    BY <1>2 DEF Exit, Crash, MemoryLost
  <2> QED
    BY <1>0, <2>1
<1>3. CASE Restart
  <2> DEFINE running == {a \in Attempts : /\ a[2] \in DOMAIN attempt[a[1]]
                                          /\ attempt[a[1]][a[2]] = "running"}
             Tasks(resumed) == [a \in Attempts |-> IF a \in resumed THEN "executing"
                                                   ELSE "none"]
  <2>1. \E alive \in SUBSET running : \E resumed \in SUBSET alive : task' = Tasks(resumed)
    BY <1>3, Zenon DEF Restart
  <2>2. PICK resumed \in SUBSET running : task' = Tasks(resumed)
    BY <2>1
  <2>3. task'[<<c, i>>] # "none" => <<c, i>> \in resumed
    BY <1>0, <2>2
  <2>4. <<c, i>> \in resumed => i \in DOMAIN attempt[c]
    BY <2>2
  <2> QED
    BY <2>3, <2>4, RowsKept DEF RowKept
<1>4. ASSUME NEW e \in Cells, CellStep(e) \/ InsertAttempt(e)
      PROVE  task'[<<c, i>>] # "none" => task[<<c, i>>] # "none" \/ i \in DOMAIN attempt'[c]
  <2>1. CASE Created(e) /\ PlanComplete(e)
    <3>1. task' = [a \in Attempts |-> IF a[1] = e THEN "waiting" ELSE task[a]]
          /\ attempt' = attempt
      BY <2>1 DEF Created, facts
    <3>2. CASE e = c
      <4>1. attempt[c] \in AttemptRows /\ Len(attempt[c]) = AgentCount
        BY <2>1, <3>2 DEF Types, PlanComplete
      <4>2. DOMAIN attempt[c] = 1..AgentCount
        BY <4>1 DEF AttemptRows
      <4> QED
        BY <3>1, <4>2
    <3>3. CASE e # c
      BY <1>0, <3>1, <3>3
    <3> QED
      BY <3>2, <3>3
  <2>2. CASE ~(Created(e) /\ PlanComplete(e))
    BY <1>4, <2>2 DEF CellStep, InputMissing, ClaimRun, TakeOver, CreateFails, Created,
                      DispatchReturns, WorkerCancelled, InsertAttempt, tasks
  <2> QED
    BY <2>1, <2>2
<1>5. ASSUME NEW e \in Cells, NEW k \in 1..AgentCount,
             AttemptStep(e, k) \/ ScoringEnds(e, k) \/ ScoringProjects(e, k)
             \/ SweepConverge(e, k)
      PROVE  task'[<<c, i>>] # "none" => task[<<c, i>>] # "none"
  <2>0. PICK a, b : a = <<c, i>> /\ b = <<e, k>>
    OBVIOUS
  <2>1. \/ task' = task
        \/ task' = [task EXCEPT ![b] = "none"]
        \/ task' = [task EXCEPT ![b] = "executing"] /\ task[b] = "waiting"
    BY <1>5, <2>0 DEF AttemptStep, Start, ExecutionEnds, TaskCancelled, ScoringEnds,
                      ScoringProjects, SweepConverge
  <2>2. task'[a] # "none" => task[a] # "none"
    <3> HIDE DEF Attempts
    <3> QED
      BY <1>0, <2>0, <2>1 DEF Types
  <2> QED
    BY <2>0, <2>2
<1> QED
  BY <1>1, <1>2, <1>3, <1>4, <1>5 DEF Next

\* What is told to cancel: by the end of the process, a stop or a sweeper.
LEMMA CancelMoves ==
  ASSUME Types, [Next]_vars
  PROVE  \/ cancelled' \subseteq cancelled /\ (up' = "down" => up = "down" \/ cancelled' = {})
         \/ Shutdown /\ up' = "closing"
         \/ StopGroup /\ up' = "up"
         \/ \E c \in Cells, i \in 1..AgentCount : SweepConverge(c, i) /\ up' = "up"
<1>0. CASE Exit \/ Crash
  BY <1>0 DEF Exit, Crash, MemoryLost
<1>r. CASE Restart
  BY <1>r DEF Restart
<1>1. CASE \/ BeginGroup \/ WorkerStarts \/ GroupEnds \/ UNCHANGED vars
           \/ SweepReadCell \/ SweepWriteCell \/ SweepWriteGroup
  <2>1. cancelled' = cancelled /\ up' = up
    BY <1>1 DEF BeginGroup, WorkerStarts, GroupEnds, tasks, vars, SweepReadCell,
                SweepWriteCell, SweepWriteGroup
  <2> QED
    BY <2>1
<1>s. StopGroup => up' = "up"
  BY DEF StopGroup
<1>d. Shutdown => up' = "closing"
  BY DEF Shutdown
<1>2. ASSUME NEW c \in Cells, CellStep(c) \/ InsertAttempt(c)
      PROVE  cancelled' \subseteq cancelled /\ up' = up
  BY <1>2 DEF CellStep, InputMissing, ClaimRun, CreateFails, Created, DispatchReturns,
              WorkerCancelled, InsertAttempt, tasks
<1>3. ASSUME NEW c \in Cells, NEW i \in 1..AgentCount,
             AttemptStep(c, i) \/ ScoringEnds(c, i) \/ ScoringProjects(c, i)
      PROVE  cancelled' \subseteq cancelled /\ up' = up
  BY <1>3 DEF AttemptStep, Start, ExecutionEnds, TaskCancelled, ScoringEnds,
              ScoringProjects
<1>4. ASSUME NEW c \in Cells, NEW i \in 1..AgentCount, SweepConverge(c, i)
      PROVE  up' = "up"
  BY <1>4 DEF SweepConverge
<1> QED
  BY <1>0, <1>r, <1>1, <1>s, <1>d, <1>2, <1>3, <1>4 DEF Next

LEMMA NextMemory ==
  ASSUME Types, Room, Workless, Memory, Cancels, [Next]_vars
  PROVE  Memory'
<1>1. up' = "down" => insert' = {}
  <2>1. insert' \subseteq Cells
    BY NextTypes DEF Types
  <2> QED
    BY <2>1, InsertMoves
<1>2. up' = "down" => cancelled' = {}
  BY CancelMoves DEF Memory
<1>3. up' = "up" => \A c \in Cells : c \in insert' => worker'[c] = "creating"
  BY InsertMoves
<1>4. ASSUME NEW c \in Cells, NEW i \in 1..AgentCount, task'[<<c, i>>] # "none"
      PROVE  i \in DOMAIN attempt'[c]
  BY <1>4, DispatchMoves, RowsKept DEF Memory, RowKept
<1>5. insert' \subseteq Cells
  BY NextTypes DEF Types
<1> QED
  BY <1>1, <1>2, <1>3, <1>4, <1>5 DEF Memory

LEMMA NextCancels ==
  ASSUME Types, Room, Workless, Links, Memory, Cancels, [Next]_vars
  PROVE  Cancels'
<1> SUFFICES ASSUME up' = "up", NEW c \in Cells, NEW i \in 0..AgentCount,
                    <<c, i>> \in cancelled'
             PROVE  Told(c, i)'
  BY DEF Cancels
<1>0. RowKept(c)
  BY RowsKept
<1>1. CASE <<c, i>> \in cancelled
  <2>1. up # "down"
    BY <1>1 DEF Memory
  <2>2. up = "up"
    BY <2>1, UpMoves DEF Restart
  <2>3. Told(c, i)
    BY <1>1, <2>2 DEF Cancels
  <2>4. i \in DOMAIN attempt'[c] /\ attempt'[c][i] # "queued"
    BY <1>0, <2>3 DEF RowKept, Told
  <2>5. ASSUME sweeps' = 0
        PROVE  cell'[c].status = "cancelled"
    <3>1. sweeps = 0 /\ sweep = Idle
      BY <2>5, SweepMoves DEF Links
    <3>2. cell[c].status = "cancelled" /\ sweep.phase # "cell"
      BY <2>3, <3>1 DEF Told, Idle
    <3>3. Move(c)
      BY NextMoves
    <3> QED
      BY <3>2, <3>3 DEF Move, Same, Taken, GivenUp, Shown, Advanced, Lost, Recovered,
                        Requeued, Reprojected
  <2> QED
    BY <2>4, <2>5 DEF Told
<1>2. CASE <<c, i>> \notin cancelled /\ StopGroup
  <2> DEFINE runs == {d \in StopTargets : cell[d].linked}
             closed(rs) == [k \in DOMAIN rs |->
               IF rs[k] \in Open \union {"scoring"} THEN "cancelled" ELSE rs[k]]
  <2>1. /\ cancelled' = cancelled \union UNION {TasksOf(d) : d \in runs}
        /\ attempt' = [d \in Cells |-> IF d \in runs THEN closed(attempt[d]) ELSE attempt[d]]
        /\ cell' = [d \in Cells |-> IF d \in StopTargets
                                    THEN [cell[d] EXCEPT !.status = "cancelled"]
                                    ELSE cell[d]]
    BY <1>2 DEF StopGroup
  <2>2. PICK d \in runs : <<c, i>> \in TasksOf(d)
    BY <1>2, <2>1
  <2>3. d = c /\ i \in 1..AgentCount /\ task[<<c, i>>] # "none"
    BY <2>2 DEF TasksOf, Busy
  <2>4. c \in runs /\ i \in DOMAIN attempt[c]
    BY <2>2, <2>3 DEF Memory
  <2>5. attempt'[c] = closed(attempt[c])
    BY <2>1, <2>4
  <2>6. i \in DOMAIN attempt'[c] /\ attempt'[c][i] # "queued"
    BY <2>4, <2>5 DEF Open
  <2>7. cell'[c].status = "cancelled"
    <3>1. cell[c] \in CellRow
      BY DEF Types, CellTable
    <3> QED
      BY <2>1, <2>4, <3>1 DEF CellRow
  <2> QED
    BY <2>6, <2>7 DEF Told
<1>3. ASSUME NEW e \in Cells, NEW k \in 1..AgentCount, SweepConverge(e, k),
             <<c, i>> \notin cancelled
      PROVE  Told(c, i)'
  <2>1. /\ k \in DOMAIN attempt[e] /\ attempt' = [attempt EXCEPT ![e][k] = "failed"]
        /\ cancelled' = cancelled \union ({<<e, k>>} \intersect TasksOf(e))
        /\ sweeps' = sweeps + 1
    BY <1>3 DEF SweepConverge
  <2>2. e = c /\ k = i
    BY <1>3, <2>1
  <2>3. i \in DOMAIN attempt'[c] /\ attempt'[c][i] = "failed"
    BY <2>1, <2>2 DEF Types
  <2>4. sweeps' # 0
    <3>1. sweeps \in Nat
      BY DEF Types
    <3> QED
      BY <2>1, <3>1
  <2> QED
    BY <2>3, <2>4 DEF Told
<1>4. ~Shutdown
  BY DEF Shutdown
<1> QED
  BY <1>1, <1>2, <1>3, <1>4, CancelMoves

\* A dispatch stops to wait, or ends, by its own step or with its process.
LEMMA DispatchStays ==
  ASSUME Types, [Next]_vars, up = "up", up' = "up", NEW c \in Cells, NEW i \in 1..AgentCount
  PROVE  /\ task[<<c, i>>] = "waiting" =>
              task'[<<c, i>>] = "waiting" \/ Start(c, i) \/ TaskCancelled(c, i)
         /\ task[<<c, i>>] # "none" =>
              task'[<<c, i>>] # "none" \/ ExecutionEnds(c, i) \/ TaskCancelled(c, i)
<1>0. <<c, i>> \in Attempts
  BY DEF Attempts
<1>1. CASE \/ BeginGroup \/ WorkerStarts \/ GroupEnds \/ StopGroup \/ Shutdown
           \/ Exit \/ Crash \/ Restart
           \/ UNCHANGED vars \/ SweepReadCell \/ SweepWriteCell \/ SweepWriteGroup
  BY <1>1 DEF BeginGroup, WorkerStarts, GroupEnds, StopGroup, Shutdown, tasks, Exit, Crash,
              MemoryLost, Restart, vars, SweepReadCell, SweepWriteCell, SweepWriteGroup
<1>2. ASSUME NEW e \in Cells, CellStep(e) \/ InsertAttempt(e)
      PROVE  task'[<<c, i>>] \in {task[<<c, i>>], "waiting"}
  <2>1. CASE Created(e) /\ PlanComplete(e)
    <3>1. task' = [a \in Attempts |-> IF a[1] = e THEN "waiting" ELSE task[a]]
      BY <2>1 DEF Created
    <3> QED
      BY <1>0, <3>1
  <2>2. CASE ~(Created(e) /\ PlanComplete(e))
    BY <1>2, <2>2 DEF CellStep, InputMissing, ClaimRun, TakeOver, CreateFails, Created,
                      DispatchReturns, WorkerCancelled, InsertAttempt, tasks
  <2> QED
    BY <2>1, <2>2
<1>3. ASSUME NEW e \in Cells, NEW k \in 1..AgentCount,
             AttemptStep(e, k) \/ ScoringEnds(e, k) \/ ScoringProjects(e, k)
             \/ SweepConverge(e, k)
      PROVE  /\ task[<<c, i>>] = "waiting" =>
                  task'[<<c, i>>] = "waiting" \/ Start(c, i) \/ TaskCancelled(c, i)
             /\ task[<<c, i>>] # "none" =>
                  task'[<<c, i>>] # "none" \/ ExecutionEnds(c, i) \/ TaskCancelled(c, i)
  <2>1. CASE e = c /\ k = i
    <3>1. CASE Start(c, i)
      <4>1. task' = [task EXCEPT ![<<c, i>>] = "executing"]
        BY <3>1 DEF Start
      <4>2. task'[<<c, i>>] = "executing"
        BY <1>0, <4>1 DEF Types
      <4> QED
        BY <3>1, <4>2
    <3>2. CASE ExecutionEnds(c, i)
      BY <3>2 DEF ExecutionEnds
    <3>3. CASE ScoringEnds(c, i) \/ ScoringProjects(c, i) \/ SweepConverge(c, i)
      BY <3>3 DEF ScoringEnds, ScoringProjects, SweepConverge
    <3> QED
      BY <1>3, <2>1, <3>1, <3>2, <3>3 DEF AttemptStep
  <2>2. CASE ~(e = c /\ k = i)
    <3>0. <<c, i>> # <<e, k>>
      BY <2>2
    <3>1. PICK a, b : a = <<c, i>> /\ b = <<e, k>> /\ a # b
      BY <3>0, Zenon
    <3>2. task' = task \/ \E v : task' = [task EXCEPT ![b] = v]
      BY <1>3, <3>1 DEF AttemptStep, Start, ExecutionEnds, TaskCancelled, ScoringEnds,
                        ScoringProjects, SweepConverge
    <3>3. task'[a] = task[a]
      <4> HIDE DEF Attempts
      <4> QED
        BY <1>0, <3>1, <3>2 DEF Types
    <3> QED
      BY <3>1, <3>3
  <2> QED
    BY <2>1, <2>2
<1> QED
  BY <1>1, <1>2, <1>3 DEF Next

LEMMA NextQueued ==
  ASSUME Types, Life, Links, Memory, Cancels, Queued, [Next]_vars
  PROVE  Queued'
<1> SUFFICES ASSUME up' = "up", NEW c \in Cells, NEW i \in DOMAIN attempt'[c],
                    attempt'[c][i] = "queued"
             PROVE  Awaited(c, i)'
  BY DEF Queued
<1>0. Workless /\ Move(c)
  BY NextMoves DEF Life
<1>1. CASE i \notin DOMAIN attempt[c]
  <2>1. c \in insert /\ worker' = worker /\ up = "up"
    BY <1>1, RowsKept DEF RowKept
  <2> QED
    BY <2>1 DEF Memory, Awaited
<1>2. CASE i \in DOMAIN attempt[c]
  <2>1. attempt[c][i] = "queued" /\ ~Restart
    BY <1>2, RowsKept DEF RowKept
  <2>2. up = "up"
    BY <2>1, UpMoves
  <2>3. Awaited(c, i)
    BY <1>2, <2>1, <2>2 DEF Queued
  <2>4. i \in 1..AgentCount
    <3>1. attempt[c] \in AttemptRows /\ Len(attempt[c]) \in Nat /\ Len(attempt[c]) <= AgentCount
      BY DEF Types, AttemptRows
    <3>2. DOMAIN attempt[c] = 1..Len(attempt[c])
      BY <3>1 DEF AttemptRows
    <3> QED
      BY <1>2, <3>1, <3>2, Constants
  <2>5. CASE task[<<c, i>>] = "waiting"
    <3>1. ~Start(c, i)
      <4> SUFFICES ASSUME Start(c, i)
                   PROVE  FALSE
        OBVIOUS
      <4>1. attempt' = [attempt EXCEPT ![c][i] = IF @ = "queued" THEN "running" ELSE @]
        BY DEF Start
      <4>2. attempt[c] \in AttemptRows
        BY DEF Types
      <4>3. attempt'[c][i] = "running"
        BY <1>2, <2>1, <4>1, <4>2 DEF Types
      <4> QED
        BY <4>3
    <3>2. ~TaskCancelled(c, i)
      <4>1. i \in 0..AgentCount
        BY <2>4
      <4>2. <<c, i>> \notin cancelled
        BY <2>1, <2>2, <4>1 DEF Cancels, Told
      <4> QED
        BY <4>2 DEF TaskCancelled
    <3>3. task'[<<c, i>>] = "waiting"
      BY <2>2, <2>4, <2>5, <3>1, <3>2, DispatchStays
    <3> QED
      BY <2>4, <3>3 DEF Awaited
  <2>6. CASE worker[c] = "creating"
    <3>1. cell[c].status # "queued" /\ ~cell[c].linked
      BY <1>0, <2>6 DEF Workless, Links
    <3>2. CASE GivenUp(c)
      BY <2>6, <3>1, <3>2, ProjectionExcludes DEF GivenUp, Awaited
    <3>3. CASE ~GivenUp(c)
      BY <1>0, <2>2, <2>4, <2>6, <3>1, <3>3
         DEF Move, Same, Taken, Shown, Advanced, Lost, Recovered, Awaited
    <3> QED
      BY <3>2, <3>3
  <2>7. CASE ~cell[c].linked /\ cell[c].status \notin {"queued", "provisioning"}
    BY <1>0, <2>2, <2>4, <2>7, ProjectionExcludes
       DEF Move, Same, Taken, GivenUp, Shown, Advanced, Lost, Recovered, Awaited
  <2> QED
    BY <2>3, <2>5, <2>6, <2>7 DEF Awaited
<1> QED
  BY <1>1, <1>2

\* A cell that shows what its attempts are, and shows "running", is owned.
LEMMA ShownOwned ==
  ASSUME Links', Queued', NEW c \in Cells, up' = "up", cell'[c].linked,
         CellOf(attempt'[c]) = "running"
  PROVE  Owned(c)'
<1>1. Some(attempt'[c], Open)
  BY DEF CellOf
<1>2. PICK i \in DOMAIN attempt'[c] : attempt'[c][i] \in Open
  BY <1>1 DEF Some
<1>3. CASE attempt'[c][i] = "running"
  BY <1>3 DEF Owned, Some
<1>4. CASE attempt'[c][i] = "queued"
  <2>1. Awaited(c, i)'
    BY <1>4 DEF Queued
  <2>2. i \in 1..AgentCount /\ task'[<<c, i>>] = "waiting"
    BY <2>1 DEF Awaited, Links
  <2> QED
    BY <2>2 DEF Owned, Busy
<1> QED
  BY <1>2, <1>3, <1>4 DEF Open

\* What an owner is made of stays, but for the steps that project the cell, a
\* delivered cancellation and a stop or a sweeper.
LEMMA OwnerStays ==
  ASSUME Types, [Next]_vars, up = "up", up' = "up", sweeps' = sweeps, NEW c \in Cells,
         NEW i \in 1..AgentCount,
         ~ExecutionEnds(c, i), ~ScoringProjects(c, i), ~StopGroup
  PROVE  /\ <<c, i>> \in scored => <<c, i>> \in scored'
         /\ i \in DOMAIN attempt[c] /\ attempt[c][i] = "running" =>
              i \in DOMAIN attempt'[c] /\ attempt'[c][i] = "running"
<1>1. CASE \/ BeginGroup \/ WorkerStarts \/ GroupEnds \/ Shutdown
           \/ Exit \/ Crash \/ Restart
           \/ UNCHANGED vars \/ SweepReadCell \/ SweepWriteCell \/ SweepWriteGroup
  BY <1>1 DEF BeginGroup, WorkerStarts, GroupEnds, Shutdown, tasks, Exit, Crash, rows, facts,
              MemoryLost, Restart, vars, SweepReadCell, SweepWriteCell, SweepWriteGroup
<1>2. ASSUME NEW e \in Cells, CellStep(e)
      PROVE  UNCHANGED <<scored, attempt>>
  BY <1>2 DEF CellStep, InputMissing, ClaimRun, CreateFails, Created,
              DispatchReturns, WorkerCancelled, facts, tasks
<1>3. ASSUME NEW e \in Cells, InsertAttempt(e)
      PROVE  /\ scored' = scored
             /\ i \in DOMAIN attempt[c] => attempt'[c][i] = attempt[c][i]
  <2>1. attempt' = [attempt EXCEPT ![e] = Append(@, "queued")] /\ scored' = scored
    BY <1>3 DEF InsertAttempt, tasks
  <2>2. attempt[e] \in AttemptRows
    BY DEF Types
  <2>3. \A j \in DOMAIN attempt[e] : Append(attempt[e], "queued")[j] = attempt[e][j]
    BY <2>2 DEF AttemptRows
  <2> QED
    BY <2>1, <2>3 DEF Types
<1>4. ASSUME NEW e \in Cells, NEW k \in 1..AgentCount,
             AttemptStep(e, k) \/ ScoringEnds(e, k) \/ ScoringProjects(e, k)
      PROVE  /\ <<c, i>> \in scored => <<c, i>> \in scored'
             /\ attempt[c][i] = "running" => attempt'[c][i] = "running"
  <2>1. CASE Start(e, k)
    <3>1. /\ attempt' = [attempt EXCEPT ![e][k] = IF @ = "queued" THEN "running" ELSE @]
          /\ scored' = scored
      BY <2>1 DEF Start
    <3>2. attempt'[c][i] = attempt[c][i] \/ attempt'[c][i] = "running"
      BY <3>1 DEF Types
    <3> QED
      BY <3>1, <3>2
  <2>2. CASE TaskCancelled(e, k)
    BY <2>2 DEF TaskCancelled, rows, facts
  <2>3. CASE ExecutionEnds(e, k)
    <3>1. ~(e = c /\ k = i)
      BY <2>3
    <3>2. /\ \E v : attempt' = [attempt EXCEPT ![e][k] = v]
          /\ scored' = scored
      BY <2>3 DEF ExecutionEnds
    <3>3. attempt'[c][i] = attempt[c][i]
      BY <3>1, <3>2 DEF Types
    <3> QED
      BY <3>2, <3>3
  <2>4. CASE ScoringEnds(e, k)
    <3>1. /\ attempt[e][k] = "scoring" /\ scored' = scored \union {<<e, k>>}
          /\ \E v : attempt' = [attempt EXCEPT ![e][k] = v]
      BY <2>4 DEF ScoringEnds
    <3>2. attempt[c][i] = "running" => attempt'[c][i] = "running"
      BY <3>1 DEF Types
    <3> QED
      BY <3>1, <3>2
  <2>5. CASE ScoringProjects(e, k)
    BY <2>5 DEF ScoringProjects
  <2> QED
    BY <1>4, <2>1, <2>2, <2>3, <2>4, <2>5 DEF AttemptStep
<1>5. ASSUME NEW e \in Cells, NEW k \in 1..AgentCount, SweepConverge(e, k)
      PROVE  FALSE
  BY <1>5 DEF SweepConverge, Types
<1> QED
  BY <1>1, <1>2, <1>3, <1>4, <1>5, RowsKept DEF Next, RowKept

LEMMA NextOwned ==
  ASSUME Types, Life, Links, Memory, Cancels, RunningCellHasOwner, Links', Queued',
         [Next]_vars
  PROVE  RunningCellHasOwner'
<1> SUFFICES ASSUME up' = "up", sweeps' = 0, NEW c \in Cells, cell'[c].status = "running"
             PROVE  Owned(c)'
  BY DEF RunningCellHasOwner, Owned
<1>0. Workless /\ Move(c)
  BY NextMoves DEF Life
<1>1. cell'[c].linked
  BY DEF Links
<1>2. sweeps = 0 /\ sweep = Idle /\ sweep.phase # "cell"
  BY SweepMoves DEF Links, Idle
<1>3. CASE Reprojected(c)
  <2>1. CellOf(attempt'[c]) = "running"
    BY <1>3 DEF Reprojected
  <2> QED
    BY <1>1, <2>1, ShownOwned
<1>4. CASE ~Reprojected(c)
  <2>1. Same(c) \/ GivenUp(c) \/ Advanced(c) \/ Recovered(c)
    BY <1>0, <1>2, <1>4 DEF Move, Taken, Shown, Lost
  <2>2. CASE Advanced(c)
    BY <2>2 DEF Advanced, Links, Owned
  <2>3. CASE GivenUp(c)
    <3>1. cell'[c] = cell[c]
      BY <2>3, ProjectionExcludes DEF GivenUp
    <3>2. worker[c] \in {"launching", "creating"}
      <4>1. worker[c] \in Places
        BY DEF Types
      <4> QED
        BY <2>3, <3>1, <4>1, ProjectionExcludes DEF GivenUp, Places
    <3> QED
      BY <1>1, <3>1, <3>2 DEF Links
  <2>4. CASE Recovered(c)
    BY <1>1, <1>4, <2>4 DEF Recovered
  <2>5. CASE Same(c) /\ ~Recovered(c)
    <3>1. cell'[c] = cell[c] /\ worker'[c] = worker[c]
      BY <2>5 DEF Same
    <3>2. ~Restart
      <4>1. Restart => Recovered(c)
        BY RestartCell DEF Restart, Recovered
      <4> QED
        BY <2>5, <4>1
    <3>3. up = "up" /\ cell[c].linked /\ cell[c].status = "running"
      BY <1>1, <3>1, <3>2, UpMoves
    <3>4. Owned(c)
      BY <1>2, <3>3 DEF RunningCellHasOwner, Owned
    <3>5. ASSUME NEW i \in 1..AgentCount, ExecutionEnds(c, i) \/ ScoringProjects(c, i)
          PROVE  FALSE
      <4>1. cell' = Projected(c, attempt'[c], cell)
        BY <3>5 DEF ExecutionEnds, ScoringProjects, Refresh
      <4>2. cell[c].linked /\ cell[c].status # "cancelled" /\ cell \in CellTable
        BY <3>3 DEF Types
      <4>3. Reprojected(c)
        BY <4>1, <4>2, ProjectedType DEF Reprojected
      <4> QED
        BY <1>4, <4>3
    <3>6. ~StopGroup
      <4> SUFFICES ASSUME StopGroup
                   PROVE  FALSE
        OBVIOUS
      <4>1. c \in StopTargets /\ cell[c] \in CellRow
        BY <3>3 DEF StopTargets, ActiveCell, Types, CellTable
      <4>2. cell'[c] = [cell[c] EXCEPT !.status = "cancelled"]
        BY <4>1 DEF StopGroup
      <4> QED
        BY <3>1, <3>3, <4>1, <4>2 DEF CellRow
    <3>7. ASSUME NEW i \in 1..AgentCount
          PROVE  ~TaskCancelled(c, i)
      <4>1. i \in 0..AgentCount
        OBVIOUS
      <4>2. <<c, i>> \notin cancelled
        BY <1>2, <3>3, <4>1 DEF Cancels, Told
      <4> QED
        BY <4>2 DEF TaskCancelled
    <3>8. CASE worker[c] = "dispatching"
      BY <3>1, <3>8 DEF Owned
    <3>9. ASSUME NEW i \in 1..AgentCount, task[<<c, i>>] # "none"
          PROVE  Owned(c)'
      <4>1. task'[<<c, i>>] # "none"
        BY <3>3, <3>5, <3>7, <3>9, DispatchStays
      <4> QED
        BY <4>1 DEF Owned, Busy
    <3>10. ASSUME NEW i \in 1..AgentCount, <<c, i>> \in scored
           PROVE  Owned(c)'
      <4>1. <<c, i>> \in scored'
        BY <1>2, <3>3, <3>5, <3>6, <3>10, OwnerStays
      <4> QED
        BY <4>1 DEF Owned
    <3>11. ASSUME NEW i \in DOMAIN attempt[c], attempt[c][i] = "running"
           PROVE  Owned(c)'
      <4>1. i \in 1..AgentCount
        <5>1. attempt[c] \in AttemptRows /\ Len(attempt[c]) \in Nat
              /\ Len(attempt[c]) <= AgentCount
          BY DEF Types, AttemptRows
        <5>2. DOMAIN attempt[c] = 1..Len(attempt[c])
          BY <5>1 DEF AttemptRows
        <5> QED
          BY <5>1, <5>2, Constants
      <4>2. i \in DOMAIN attempt'[c] /\ attempt'[c][i] = "running"
        BY <1>2, <3>3, <3>5, <3>6, <3>11, <4>1, OwnerStays
      <4> QED
        BY <4>2 DEF Owned, Some
    <3> QED
      BY <3>4, <3>8, <3>9, <3>10, <3>11 DEF Owned, Busy, Some
  <2> QED
    BY <2>1, <2>2, <2>3, <2>4, <2>5
<1> QED
  BY <1>3, <1>4

-----------------------------------------------------------------------------
(* What the group shows.                                                   *)

\* To project a group a second time changes nothing.
LEMMA ProjectedTwice ==
  ASSUME NEW cells, NEW previous
  PROVE  GroupOf(cells, GroupOf(cells, previous)) = GroupOf(cells, previous)
<1> DEFINE S == {cells[c].status : c \in Cells}
<1>1. CASE \/ S \intersect {"provisioning", "running"} # {}
           \/ "scoring" \in S \/ "queued" \in S
           \/ S = {"cancelled"} \/ S = {"completed"}
           \/ S \intersect {"completed", "partial"} # {}
  <2>1. \A x, y : GroupOf(cells, x) = GroupOf(cells, y)
    <3> HIDE DEF Cells
    <3> QED
      BY <1>1 DEF GroupOf
  <2> QED
    BY <2>1
<1>2. CASE ~ ( \/ S \intersect {"provisioning", "running"} # {}
               \/ "scoring" \in S \/ "queued" \in S
               \/ S = {"cancelled"} \/ S = {"completed"}
               \/ S \intersect {"completed", "partial"} # {} )
  <2>1. \A x : GroupOf(cells, x) = IF x = "cancelled" THEN "cancelled" ELSE "failed"
    <3>1. S # {"queued"}
      BY <1>2
    <3> QED
      BY <1>2, <3>1 DEF GroupOf
  <2> QED
    BY <2>1
<1> QED
  BY <1>1, <1>2

\* The workers of the group's task end before it does.
LEMMA NextTaskWorkers ==
  ASSUME Types, Workless, Cancels, TaskWorkers, [Next]_vars
  PROVE  TaskWorkers'
<1> SUFFICES ASSUME up' = "up", gtask' # "running"
             PROVE  fresh' = 0 /\ \A c \in Cells : worker'[c] = "none"
  BY DEF TaskWorkers
<1>1. CASE BeginGroup
  BY <1>1 DEF BeginGroup, TaskWorkers
<1>2. CASE WorkerStarts
  BY <1>2 DEF WorkerStarts, TaskWorkers
<1>3. CASE GroupEnds
  BY <1>3 DEF GroupEnds
<1>4. CASE Restart
  BY <1>4 DEF Restart, Workless
<1>5. CASE \/ StopGroup \/ Shutdown \/ Exit \/ Crash
           \/ UNCHANGED vars \/ SweepReadCell \/ SweepWriteCell \/ SweepWriteGroup
  BY <1>5 DEF StopGroup, Shutdown, Exit, Crash, MemoryLost, TaskWorkers, coordinator,
              vars, SweepReadCell, SweepWriteCell, SweepWriteGroup
<1>6. ASSUME NEW c \in Cells, CellStep(c)
      PROVE  FALSE
  <2>1. gtask' = gtask /\ up' = up
    BY <1>6 DEF CellStep, InputMissing, ClaimRun, CreateFails, Created,
                DispatchReturns, WorkerCancelled
  <2>2. worker[c] = "none"
    BY <2>1 DEF TaskWorkers
  <2>3. <<c, 0>> \in cancelled
    BY <1>6, <2>2 DEF CellStep, InputMissing, ClaimRun, CreateFails, Created,
                      DispatchReturns, WorkerCancelled, At
  <2>4. 0 \in 0..AgentCount /\ 0 \notin DOMAIN attempt[c]
    <3>1. attempt[c] \in AttemptRows
      BY DEF Types
    <3> QED
      BY <3>1, Constants DEF AttemptRows
  <2> QED
    BY <2>1, <2>3, <2>4 DEF Cancels, Told
<1>7. ASSUME NEW c \in Cells, InsertAttempt(c)
      PROVE  UNCHANGED <<gtask, fresh, worker, up>>
  BY <1>7 DEF InsertAttempt
<1>8. ASSUME NEW c \in Cells, NEW i \in 1..AgentCount,
             AttemptStep(c, i) \/ ScoringEnds(c, i) \/ ScoringProjects(c, i)
             \/ SweepConverge(c, i)
      PROVE  UNCHANGED <<gtask, fresh, worker, up>>
  BY <1>8 DEF AttemptStep, Start, ExecutionEnds, TaskCancelled, ScoringEnds,
              ScoringProjects, SweepConverge, coordinator
<1> QED
  BY <1>1, <1>2, <1>3, <1>4, <1>5, <1>6, <1>7, <1>8 DEF Next, TaskWorkers

LEMMA NextGroup ==
  ASSUME Types, Workless, Links, Cancels, TaskWorkers, GroupShowsCells, [Next]_vars
  PROVE  GroupShowsCells'
<1> SUFFICES ASSUME up' = "up", gtask' # "running", sweeps' = 0
             PROVE  group' = GroupOf(cell', group')
  BY DEF GroupShowsCells
<1>0. sweeps = 0 /\ sweep.phase = "idle"
  BY SweepMoves DEF Links, Idle
<1>s. (\E x : group' = GroupOf(cell', x)) => group' = GroupOf(cell', group')
  BY ProjectedTwice
<1>k. ASSUME up = "up", gtask # "running", cell' = cell, group' = group
      PROVE  group' = GroupOf(cell', group')
  BY <1>0, <1>k DEF GroupShowsCells
<1>1. CASE BeginGroup
  <2>1. /\ up = "up" /\ gtask # "running" /\ cell' = cell
        /\ group' = group \/ group' = GroupOf(cell, group)
    BY <1>1 DEF BeginGroup
  <2> QED
    BY <1>k, <1>s, <2>1
<1>2. CASE WorkerStarts
  BY <1>2 DEF WorkerStarts, TaskWorkers
<1>3. CASE GroupEnds
  BY <1>3, <1>s DEF GroupEnds
<1>4. CASE Restart
  BY <1>4, <1>s DEF Restart
<1>5. CASE StopGroup
  BY <1>5, <1>s DEF StopGroup
<1>6. CASE Shutdown \/ Exit \/ Crash
  BY <1>6 DEF Shutdown, Exit, Crash, MemoryLost
<1>7. CASE UNCHANGED vars
  BY <1>7, <1>k DEF vars, rows, coordinator
<1>8. CASE SweepReadCell \/ SweepWriteCell \/ SweepWriteGroup
  BY <1>0, <1>8 DEF SweepReadCell, SweepWriteCell, SweepWriteGroup
<1>9. ASSUME NEW c \in Cells, CellStep(c)
      PROVE  FALSE
  <2>1. gtask' = gtask /\ up' = up
    BY <1>9 DEF CellStep, InputMissing, ClaimRun, CreateFails, Created,
                DispatchReturns, WorkerCancelled
  <2>2. worker[c] = "none"
    BY <2>1 DEF TaskWorkers
  <2>3. <<c, 0>> \in cancelled
    BY <1>9, <2>2 DEF CellStep, InputMissing, ClaimRun, CreateFails, Created,
                      DispatchReturns, WorkerCancelled, At
  <2>4. 0 \in 0..AgentCount /\ 0 \notin DOMAIN attempt[c]
    <3>1. attempt[c] \in AttemptRows
      BY DEF Types
    <3> QED
      BY <3>1, Constants DEF AttemptRows
  <2> QED
    BY <2>1, <2>3, <2>4 DEF Cancels, Told
<1>10. ASSUME NEW c \in Cells, InsertAttempt(c)
       PROVE  group' = GroupOf(cell', group')
  BY <1>10, <1>k DEF InsertAttempt
<1>11. ASSUME NEW c \in Cells, NEW i \in 1..AgentCount,
              AttemptStep(c, i) \/ ScoringEnds(c, i) \/ ScoringProjects(c, i)
              \/ SweepConverge(c, i)
       PROVE  group' = GroupOf(cell', group')
  <2>1. gtask' = gtask /\ up' = up
    BY <1>11 DEF AttemptStep, Start, ExecutionEnds, TaskCancelled, ScoringEnds,
                 ScoringProjects, SweepConverge, coordinator
  <2>2. CASE cell' = cell /\ group' = group
    BY <1>k, <2>1, <2>2
  <2>3. CASE Refresh(c)
    <3>1. CASE cell[c].linked /\ cell[c].status # "cancelled"
      BY <1>s, <2>3, <3>1 DEF Refresh
    <3>2. CASE ~(cell[c].linked /\ cell[c].status # "cancelled")
      <4>1. cell' = cell /\ group' = group
        BY <2>3, <3>2 DEF Refresh, Projected
      <4> QED
        BY <2>2, <4>1
    <3> QED
      BY <3>1, <3>2
  <2> QED
    BY <1>11, <2>2, <2>3 DEF AttemptStep, Start, ExecutionEnds, TaskCancelled, ScoringEnds,
                 ScoringProjects, SweepConverge, rows
<1> QED
  BY <1>1, <1>2, <1>3, <1>4, <1>5, <1>6, <1>7, <1>8, <1>9, <1>10, <1>11 DEF Next

\* What the two invariants rest on.
Care == Links /\ Memory /\ Cancels /\ Queued /\ TaskWorkers
        /\ RunningCellHasOwner /\ GroupShowsCells

LEMMA InitCare == Init => Care
<1> SUFFICES ASSUME Init
             PROVE  Care
  OBVIOUS
<1>1. \A c \in Cells : /\ cell[c] = [status |-> "queued", linked |-> FALSE]
                       /\ worker[c] = "none" /\ attempt[c] = <<>>
  BY DEF Init
<1>2. /\ sweep = Idle /\ cancelled = {} /\ insert = {} /\ fresh = 0 /\ up = "up"
      /\ group = "queued"
  BY DEF Init
<1>3. \A c \in Cells : \A i \in 1..AgentCount : task[<<c, i>>] = "none"
  BY DEF Init, Attempts
<1>4. Links
  BY <1>1, <1>2 DEF Links
<1>5. Memory /\ Cancels
  BY <1>2, <1>3 DEF Memory, Cancels
<1>6. Queued
  BY <1>1 DEF Queued
<1>7. TaskWorkers /\ RunningCellHasOwner
  BY <1>1, <1>2 DEF TaskWorkers, RunningCellHasOwner
<1>8. GroupShowsCells
  <2>1. 1 \in Cells
    BY RunGroupAssumption DEF RunGroupAssumption, Cells
  <2>2. {cell[c].status : c \in Cells} = {"queued"}
    BY <1>1, <2>1
  <2> QED
    BY <1>2, <2>2 DEF GroupShowsCells, GroupOf
<1> QED
  BY <1>4, <1>5, <1>6, <1>7, <1>8 DEF Care

LEMMA AlwaysCare == Spec => []Care
<1>1. Init => Care
  BY InitCare
<1>2. IInv /\ Care /\ [Next]_vars => Care'
  <2> SUFFICES ASSUME IInv, Care, [Next]_vars
               PROVE  Care'
    OBVIOUS
  <2>0. /\ Types /\ Room /\ Life /\ Workless
        /\ Links /\ Memory /\ Cancels /\ Queued /\ TaskWorkers
        /\ RunningCellHasOwner /\ GroupShowsCells
    BY DEF IInv, Life, Care
  <2>1. Links'
    BY <2>0, NextLinks
  <2>2. Memory' /\ Cancels'
    BY <2>0, NextMemory, NextCancels
  <2>3. Queued'
    BY <2>0, NextQueued
  <2>4. RunningCellHasOwner'
    BY <2>0, <2>1, <2>3, NextOwned
  <2>5. TaskWorkers' /\ GroupShowsCells'
    BY <2>0, NextTaskWorkers, NextGroup
  <2> QED
    BY <2>1, <2>2, <2>3, <2>4, <2>5 DEF Care
<1> QED
  BY <1>1, <1>2, AlwaysInv, PTL DEF Spec

\* A cell that shows "running" has a dispatch, a scoring that will project it, or
\* an agent that runs and has a deadline, unless a sweeper wrote over it.
THEOREM RunningCellOwned == Spec => []RunningCellHasOwner
<1>1. Care => RunningCellHasOwner
  BY DEF Care
<1> QED
  BY <1>1, AlwaysCare, PTL

\* While its task is not at work the group shows what its cells are, whichever of
\* the dispatches, scorings, stops and startups wrote last.
THEOREM GroupShown == Spec => []GroupShowsCells
<1>1. Care => GroupShowsCells
  BY DEF Care
<1> QED
  BY <1>1, AlwaysCare, PTL
====
