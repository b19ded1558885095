---- MODULE LeaderProofs ----
(* Theorems about LeaderTimeline, for every value of its constants: any number *)
(* of attempts, and of calls that consume the outbox at the same time.      *)
EXTENDS LeaderTimeline, FiniteSetTheorems, WellFoundedInduction, TLAPS

-----------------------------------------------------------------------------
(* The best of the rows.                                                   *)

LEMMA LeastNatural ==
  ASSUME NEW T, T \subseteq Nat, T # {}
  PROVE  \E n \in T : \A m \in T : n <= m
<1> DEFINE R == OpToRel(<, Nat)
<1>1. IsWellFoundedOn(R, Nat)
  BY NatLessThanWellFounded
<1>2. \A m, n \in Nat : m < n => <<m, n>> \in R
  BY DEF OpToRel
<1> HIDE DEF R
<1>3. PICK n \in T : \A m \in T : ~ (<<m, n>> \in R)
  BY <1>1, WFMin, Zenon
<1>4. ASSUME NEW m \in T
      PROVE  n <= m
  <2>1. m \in Nat /\ n \in Nat
    OBVIOUS
  <2>2. ~(m < n)
    BY <1>2, <1>3, <2>1, Zenon
  <2> QED
    BY <2>1, <2>2
<1> QED
  BY <1>4

Scoring == [attempt : Attempts, score : Scores]
OutboxRow == [attempt : Attempts, score : Scores, print : Prints, terminal : BOOLEAN]

LEMMA AheadOrders ==
  ASSUME NEW x \in Scoring, NEW y \in Scoring, NEW z \in Scoring
  PROVE  /\ Ahead(x, x)
         /\ Ahead(x, y) \/ Ahead(y, x)
         /\ Ahead(x, y) /\ Ahead(y, z) => Ahead(x, z)
<1>1. \A w \in Scoring : w.attempt \in Nat /\ w.score \in Nat
  BY LeaderAssumption DEF LeaderAssumption, Scoring
<1>2. /\ x.attempt \in Nat /\ x.score \in Nat /\ y.attempt \in Nat /\ y.score \in Nat
      /\ z.attempt \in Nat /\ z.score \in Nat
  BY <1>1
<1> QED
  BY <1>2 DEF Ahead

LEMMA StandingType ==
  ASSUME outbox \in Seq(OutboxRow), NEW i \in DOMAIN outbox
  PROVE  Standing(i) \in Scoring
<1>1. outbox[i] \in OutboxRow
  <2> HIDE DEF OutboxRow
  <2> QED
    OBVIOUS
<1> QED
  BY <1>1 DEF OutboxRow, Standing, Scoring

\* Some row is ahead of the others: else there is a smallest bound of a set of
\* rows without one, and to take its last row away leaves a smaller one.
LEMMA BestExists ==
  ASSUME outbox \in Seq(OutboxRow), NEW rows, rows \subseteq DOMAIN outbox, rows # {}
  PROVE  \E i \in rows : \A j \in rows : Ahead(Standing(i), Standing(j))
<1> DEFINE Led(R) == \E i \in R : \A j \in R : Ahead(Standing(i), Standing(j))
           Leaderless == {n \in Nat : \E R \in SUBSET (1..n) :
                            /\ R \subseteq DOMAIN outbox /\ R # {} /\ ~Led(R)}
<1>1. SUFFICES ASSUME ~Led(rows)
               PROVE  FALSE
  OBVIOUS
<1>2. Len(outbox) \in Leaderless
  <2>1. Len(outbox) \in Nat /\ DOMAIN outbox = 1..Len(outbox)
    OBVIOUS
  <2> HIDE DEF Led
  <2>2. rows \in SUBSET (1..Len(outbox))
    BY <2>1
  <2> QED
    BY <1>1, <2>1, <2>2
<1>3. PICK n \in Leaderless : \A m \in Leaderless : n <= m
  <2> HIDE DEF Leaderless
  <2>1. Leaderless \subseteq Nat
    BY DEF Leaderless
  <2> QED
    BY <1>2, <2>1, LeastNatural
<1>4. n \in Nat
  OBVIOUS
<1>5. PICK R \in SUBSET (1..n) : R \subseteq DOMAIN outbox /\ R # {} /\ ~Led(R)
  OBVIOUS
<1>6. n # 0
  <2> HIDE DEF Led
  <2>1. 1..0 = {}
    OBVIOUS
  <2> QED
    BY <1>5, <2>1
<1>7. n - 1 \in Nat /\ n - 1 \notin Leaderless
  <2> HIDE DEF Leaderless
  <2>1. n - 1 \in Nat /\ ~(n <= n - 1)
    BY <1>4, <1>6
  <2> QED
    BY <1>3, <2>1
<1>8. \A Q : Q \subseteq 1..(n - 1) /\ Q \subseteq DOMAIN outbox /\ Q # {} => Led(Q)
  <2> HIDE DEF Led
  <2>1. \A Q \in SUBSET (1..(n - 1)) : Q \subseteq DOMAIN outbox /\ Q # {} => Led(Q)
    BY <1>7
  <2> QED
    BY <2>1
<1>9. n \in R
  <2>1. SUFFICES ASSUME n \notin R
                 PROVE  FALSE
    OBVIOUS
  <2>2. R \subseteq 1..(n - 1)
    BY <1>4, <2>1
  <2> HIDE DEF Led
  <2> QED
    BY <1>5, <1>8, <2>2
<1>10. \A i \in R : Standing(i) \in Scoring
  BY <1>5, StandingType
<1>11. CASE R = {n}
  BY <1>5, <1>9, <1>10, <1>11, AheadOrders
<1>12. CASE R # {n}
  <2> DEFINE Q == R \ {n}
  <2>1. Q \subseteq 1..(n - 1) /\ Q \subseteq DOMAIN outbox /\ Q # {}
    BY <1>4, <1>5, <1>9, <1>12
  <2>2. Led(Q)
    <3> HIDE DEF Led, Q
    <3> QED
      BY <1>8, <2>1
  <2>3. PICK i \in Q : \A j \in Q : Ahead(Standing(i), Standing(j))
    BY <2>2
  <2>4. CASE Ahead(Standing(i), Standing(n))
    <3>1. \A j \in R : Ahead(Standing(i), Standing(j))
      BY <2>3, <2>4
    <3> QED
      BY <1>5, <3>1
  <2>5. CASE Ahead(Standing(n), Standing(i))
    <3>1. \A j \in Q : Ahead(Standing(n), Standing(j))
      BY <1>9, <1>10, <2>3, <2>5, AheadOrders
    <3>2. Ahead(Standing(n), Standing(n))
      BY <1>9, <1>10, AheadOrders
    <3>3. \A j \in R : Ahead(Standing(n), Standing(j))
      BY <3>1, <3>2
    <3> QED
      BY <1>5, <1>9, <3>3
  <2> QED
    BY <1>9, <1>10, <2>4, <2>5, AheadOrders
<1> QED
  BY <1>11, <1>12

LEMMA BestIsAhead ==
  ASSUME outbox \in Seq(OutboxRow), NEW rows, rows \subseteq DOMAIN outbox, rows # {}
  PROVE  /\ \E i \in rows : Best(Standings(rows)) = Standing(i)
         /\ \A i \in rows : Ahead(Best(Standings(rows)), Standing(i))
         /\ Best(Standings(rows)) \in Scoring
<1> DEFINE field == Standings(rows)
           Leads(x) == \A y \in field : Ahead(x, y)
<1>1. \E x \in field : Leads(x)
  BY BestExists DEF Standings
<1>2. Best(field) \in field /\ Leads(Best(field))
  <2>1. Best(field) = CHOOSE x \in field : Leads(x)
    BY DEF Best
  <2> HIDE DEF field, Leads
  <2> QED
    BY <1>1, <2>1
<1> QED
  BY <1>2, StandingType DEF Standings

-----------------------------------------------------------------------------
(* The types.                                                              *)

Anyone == [attempt : Nat, score : Nat]
Reasons == {"incomparable", "scope-finalized", "first", "upgrade", "rejudge"}
Event == [source : DOMAIN outbox, previous : Anyone, leader : Scoring,
          reason : Reasons, provisional : BOOLEAN]

\* A call before it has weighed a row, and what it carries after.
Reading == {Idle} \union [phase : {"check", "weigh"}, row : DOMAIN outbox]
Recalling == [phase : {"recall"}, row : DOMAIN outbox, best : Scoring,
              comparable : BOOLEAN, without : SUBSET Attempts]
Numbering == [phase : {"number"}, row : DOMAIN outbox, best : Scoring,
              previous : Anyone, reason : Reasons \union {"none"},
              without : SUBSET Attempts]
Writing == [phase : {"write"}, row : DOMAIN outbox, number : Nat, event : Event,
            without : SUBSET Attempts]
Call == Reading \union Recalling \union Numbering \union Writing

\* What is being judged, or is to be, has been executed.
Judged == \A a \in Attempts :
            status[a] = "scoring" \/ work[a] = "judge" => verdict[a] # "none"

Types ==
  /\ status \in [Attempts -> Terminal \union {"open", "scoring"}]
  /\ verdict \in [Attempts -> Verdicts]
  /\ work \in [Attempts -> {"execution", "judge", "none"}]
  /\ found \in [Attempts -> {"nothing", "open", "scoring"}]
  /\ outbox \in Seq(OutboxRow)
  /\ consumed \subseteq DOMAIN outbox
  /\ events \in Seq(Event)
  /\ call \in [Consumers -> Call]
  /\ late \subseteq Attempts
  /\ rejudges \in 0..MaxTurns /\ closes \in 0..MaxTurns
  /\ Judged

\* The phase tells what a call carries.
LEMMA Phases ==
  ASSUME Types, NEW c \in Consumers
  PROVE  /\ call[c] \in Call
         /\ call[c].phase = "recall" => call[c] \in Recalling
         /\ call[c].phase = "number" => call[c] \in Numbering
         /\ call[c].phase = "write" => call[c] \in Writing
         /\ call[c].phase \in {"check", "weigh", "recall", "number", "write"}
              => call[c].row \in DOMAIN outbox
<1>1. call[c] \in Call
  BY DEF Types
<1>2. CASE call[c] \in Reading
  BY <1>1, <1>2 DEF Reading, Idle
<1>3. CASE call[c] \in Recalling
  BY <1>1, <1>3 DEF Recalling
<1>4. CASE call[c] \in Numbering
  BY <1>1, <1>4 DEF Numbering
<1>5. CASE call[c] \in Writing
  BY <1>1, <1>5 DEF Writing
<1> QED
  BY <1>1, <1>2, <1>3, <1>4, <1>5 DEF Call

\* The leader so far.
LEMMA LeaderType ==
  ASSUME Types
  PROVE  Leader \in Anyone
<1>1. CASE events = <<>>
  BY <1>1 DEF Leader, Nobody, Anyone
<1>2. CASE events # <<>>
  <2>1. events[Len(events)] \in Event
    <3> HIDE DEF Event
    <3> QED
      BY <1>2 DEF Types
  <2>2. \A x \in Scoring : x \in Anyone
    BY LeaderAssumption DEF LeaderAssumption, Scoring, Anyone
  <2> QED
    BY <1>2, <2>1, <2>2 DEF Leader, Event
<1> QED
  BY <1>1, <1>2

LEMMA ReasonType ==
  ASSUME NEW c \in Consumers, NEW leader
  PROVE  Reason(c, leader) \in Reasons \union {"none"}
BY DEF Reason, Reasons

\* The rows in Candidates are rows.
LEMMA RowsAreRows ==
  ASSUME outbox \in Seq(OutboxRow), NEW k \in DOMAIN outbox
  PROVE  /\ k \in 1..Len(outbox)
         /\ Latest(k) \subseteq 1..k /\ 1..k \subseteq DOMAIN outbox
         /\ Candidates(k) \subseteq Latest(k) /\ k \in Latest(k)
<1>1. DOMAIN outbox = 1..Len(outbox) /\ Len(outbox) \in Nat
  OBVIOUS
<1> QED
  BY <1>1 DEF Latest, Candidates

\* A row more leaves the others as they are.
LEMMA OneRowMore ==
  ASSUME outbox \in Seq(OutboxRow), NEW r \in OutboxRow, outbox' = Append(outbox, r)
  PROVE  /\ outbox' \in Seq(OutboxRow)
         /\ Len(outbox') = Len(outbox) + 1
         /\ DOMAIN outbox \subseteq DOMAIN outbox'
         /\ \A i \in DOMAIN outbox : outbox'[i] = outbox[i]
         /\ outbox'[Len(outbox) + 1] = r
<1> HIDE DEF OutboxRow
<1> QED
  OBVIOUS

LEMMA EventsGrow ==
  ASSUME Types, DOMAIN outbox \subseteq DOMAIN outbox'
  PROVE  events \in Seq(Event') /\ Call \subseteq Call'
<1>1. Event \subseteq Event'
  BY DEF Event, Scoring, Anyone, Reasons
<1>2. events \in Seq(Event')
  <2> HIDE DEF Event
  <2>1. \A i \in 1..Len(events) : events[i] \in Event'
    BY <1>1 DEF Types
  <2>2. events \in [1..Len(events) -> Event'] /\ Len(events) \in Nat
    BY <2>1 DEF Types
  <2> QED
    BY <2>2
<1>3. Call \subseteq Call'
  <2>1. Reading \subseteq Reading'
    BY DEF Reading, Idle
  <2>2. Recalling \subseteq Recalling'
    BY DEF Recalling, Scoring
  <2>3. Numbering \subseteq Numbering'
    BY DEF Numbering, Scoring, Anyone, Reasons
  <2>4. Writing \subseteq Writing'
    BY <1>1 DEF Writing
  <2> QED
    BY <2>1, <2>2, <2>3, <2>4 DEF Call
<1> QED
  BY <1>2, <1>3

\* A call that goes to a place of its type.
LEMMA GotoType ==
  ASSUME Types, NEW c \in Consumers, NEW to \in Call, Goto(c, to)
  PROVE  call' \in [Consumers -> Call] /\ call'[c] = to
<1> HIDE DEF Call
<1> QED
  BY DEF Types, Goto

\* What the calls do: the facts stay, and every value keeps its type.
LEMMA CallTypes ==
  ASSUME Types, NEW c \in Consumers, Consume(c) \/ Dies(c)
  PROVE  /\ UNCHANGED facts /\ call' \in [Consumers -> Call]
         /\ consumed' \subseteq DOMAIN outbox /\ events' \in Seq(Event)
<1>0. /\ consumed \subseteq DOMAIN outbox /\ events \in Seq(Event)
      /\ outbox \in Seq(OutboxRow) /\ DOMAIN outbox = 1..Len(outbox)
  <2> HIDE DEF Event, OutboxRow
  <2> QED
    BY DEF Types
<1>1. Idle \in Call
  BY DEF Call, Reading
<1>2. CASE Dies(c)
  BY <1>0, <1>1, <1>2, GotoType DEF Dies, board
<1>3. CASE Look(c)
  <2>1. PICK k \in DOMAIN outbox : Goto(c, [phase |-> "check", row |-> k])
    BY <1>3 DEF Look, First
  <2>2. [phase |-> "check", row |-> k] \in Call
    BY DEF Call, Reading
  <2> QED
    BY <1>0, <1>3, <2>1, <2>2, GotoType DEF Look, board
<1>4. CASE Check(c)
  <2>1. call[c].row \in DOMAIN outbox
    BY <1>4, Phases DEF Check
  <2>2. [phase |-> "weigh", row |-> call[c].row] \in Call
    BY <2>1 DEF Call, Reading
  <2>3. \E to \in Call : Goto(c, to)
    BY <1>1, <1>4, <2>2 DEF Check
  <2>4. consumed' \subseteq DOMAIN outbox
    BY <1>0, <1>4, <2>1 DEF Check
  <2> QED
    BY <1>0, <1>4, <2>3, <2>4, GotoType DEF Check
<1>5. CASE Weigh(c)
  <2> DEFINE k == call[c].row
             rows == Candidates(k)
             without == {outbox[i].attempt : i \in Latest(k) \ rows}
             to == [phase |-> "recall", row |-> k, best |-> Best(Standings(rows)),
                    comparable |-> Cardinality(PrintsOf(rows)) = 1,
                    without |-> without]
  <2>1. k \in DOMAIN outbox
    BY <1>5, Phases DEF Weigh
  <2>2. /\ Latest(k) \subseteq DOMAIN outbox /\ rows \subseteq DOMAIN outbox
    BY <1>0, <2>1, RowsAreRows
  <2>3. without \subseteq Attempts
    <3>1. \A i \in DOMAIN outbox : outbox[i].attempt \in Attempts
      BY <1>0, StandingType DEF Standing, Scoring
    <3> QED
      BY <2>2, <3>1
  <2>4. rows # {} => to \in Call
    <3>1. ASSUME rows # {}
          PROVE  Best(Standings(rows)) \in Scoring
      BY <1>0, <2>2, <3>1, BestIsAhead
    <3>2. (Cardinality(PrintsOf(rows)) = 1) \in BOOLEAN
      OBVIOUS
    <3> HIDE DEF rows, k, without
    <3>3. rows # {} => to \in Recalling
      BY <2>1, <2>3, <3>1, <3>2 DEF Recalling
    <3> QED
      BY <3>3 DEF Call
  <2>5. Goto(c, IF rows = {} THEN Idle ELSE to)
    BY <1>5 DEF Weigh
  <2> HIDE DEF to, rows
  <2>6. \E x \in Call : Goto(c, x)
    BY <1>1, <2>4, <2>5
  <2> QED
    BY <1>0, <1>5, <2>6, GotoType DEF Weigh, board
<1>6. CASE Recall(c)
  <2> DEFINE to == [phase |-> "number", row |-> call[c].row, best |-> call[c].best,
                    previous |-> Leader, reason |-> Reason(c, Leader),
                    without |-> call[c].without]
  <2>1. call[c] \in Recalling
    BY <1>6, Phases DEF Recall
  <2>2. Leader \in Anyone /\ Reason(c, Leader) \in Reasons \union {"none"}
    BY LeaderType, ReasonType
  <2>3. /\ call[c].row \in DOMAIN outbox /\ call[c].best \in Scoring
        /\ call[c].without \in SUBSET Attempts
    BY <2>1 DEF Recalling
  <2>4. to \in Numbering
    BY <2>2, <2>3 DEF Numbering
  <2>5. Goto(c, to)
    BY <1>6 DEF Recall
  <2> HIDE DEF to
  <2>6. to \in Call
    BY <2>4 DEF Call
  <2> QED
    BY <1>0, <1>6, <2>5, <2>6, GotoType DEF Recall, board
<1>7. CASE Number(c)
  <2> DEFINE event == [source |-> call[c].row, previous |-> call[c].previous,
                       leader |-> call[c].best, reason |-> call[c].reason,
                       provisional |-> ~outbox[call[c].row].terminal]
             to == [phase |-> "write", row |-> call[c].row,
                    number |-> Len(events) + 1, event |-> event,
                    without |-> call[c].without]
  <2>1. call[c] \in Numbering /\ call[c].reason # "none"
    BY <1>7, Phases DEF Number, Tells
  <2>2. /\ call[c].row \in DOMAIN outbox /\ call[c].best \in Scoring
        /\ call[c].previous \in Anyone /\ call[c].reason \in Reasons
        /\ call[c].without \in SUBSET Attempts
    BY <2>1 DEF Numbering
  <2>3. event \in Event
    BY <2>2 DEF Event
  <2>4. Len(events) + 1 \in Nat
    <3> HIDE DEF Event
    <3> QED
      BY <1>0
  <2>5. Goto(c, to)
    BY <1>7 DEF Number
  <2> HIDE DEF event
  <2>6. to \in Writing
    BY <2>2, <2>3, <2>4 DEF Writing
  <2> HIDE DEF to
  <2>7. to \in Call
    BY <2>6 DEF Call
  <2> QED
    BY <1>0, <1>7, <2>5, <2>7, GotoType DEF Number, board
<1>8. CASE Skip(c)
  <2>1. call[c].row \in DOMAIN outbox
    BY <1>8, Phases DEF Skip
  <2>2. consumed' \subseteq DOMAIN outbox
    BY <1>0, <1>8, <2>1 DEF Skip
  <2> QED
    BY <1>0, <1>1, <1>8, <2>2, GotoType DEF Skip
<1>9. CASE Write(c)
  <2>1. call[c] \in Writing
    BY <1>9, Phases DEF Write
  <2>2. call[c].event \in Event /\ call[c].row \in DOMAIN outbox
    BY <2>1 DEF Writing
  <2>3. consumed' \subseteq DOMAIN outbox
    BY <1>0, <1>9, <2>2 DEF Write
  <2>4. events' \in Seq(Event)
    <3> HIDE DEF Event
    <3>1. events' = events \/ events' = Append(events, call[c].event)
      BY <1>9 DEF Write
    <3> QED
      BY <1>0, <2>2, <3>1
  <2>5. Goto(c, Idle)
    BY <1>9 DEF Write
  <2> QED
    BY <1>0, <1>1, <1>9, <2>3, <2>4, <2>5, GotoType DEF Write
<1> QED
  BY <1>2, <1>3, <1>4, <1>5, <1>6, <1>7, <1>8, <1>9 DEF Consume

\* What the attempts do: a commit adds a row.
LEMMA AttemptTypes ==
  ASSUME Types, NEW a \in Attempts, AttemptStep(a)
  PROVE  /\ UNCHANGED <<board, call>>
         /\ status' \in [Attempts -> Terminal \union {"open", "scoring"}]
         /\ verdict' \in [Attempts -> Verdicts]
         /\ work' \in [Attempts -> {"execution", "judge", "none"}]
         /\ found' \in [Attempts -> {"nothing", "open", "scoring"}]
         /\ late' \subseteq Attempts
         /\ rejudges' \in 0..MaxTurns /\ closes' \in 0..MaxTurns
         /\ Judged'
         /\ \/ outbox' = outbox
            \/ /\ Commit(a)
               /\ \E r \in OutboxRow : /\ outbox' = Append(outbox, r)
                                       /\ r.terminal = ScopeTerminal(status')
<1>0. /\ status \in [Attempts -> Terminal \union {"open", "scoring"}]
      /\ verdict \in [Attempts -> Verdicts]
      /\ work \in [Attempts -> {"execution", "judge", "none"}]
      /\ found \in [Attempts -> {"nothing", "open", "scoring"}]
      /\ late \subseteq Attempts /\ MaxTurns \in Nat
      /\ rejudges \in 0..MaxTurns /\ closes \in 0..MaxTurns
      /\ Judged
  BY LeaderAssumption DEF LeaderAssumption, Types
<1>1. CASE Commit(a)
  <2>1. /\ UNCHANGED <<board, call, verdict, found, rejudges, closes, late>>
        /\ status' = [status EXCEPT ![a] = "completed"]
        /\ work' = [work EXCEPT ![a] = "none"]
    BY <1>1 DEF Commit
  <2>2. PICK s \in Scores, f \in Prints :
          outbox' = Append(outbox, [attempt |-> a, score |-> s, print |-> f,
                                    terminal |-> ScopeTerminal(status')])
    BY <1>1 DEF Commit
  <2> DEFINE r == [attempt |-> a, score |-> s, print |-> f,
                   terminal |-> ScopeTerminal(status')]
  <2>3. r \in OutboxRow /\ r.terminal = ScopeTerminal(status')
    BY DEF OutboxRow, ScopeTerminal
  <2>4. outbox' = Append(outbox, r)
    BY <2>2
  <2> HIDE DEF r
  <2>5. /\ status' \in [Attempts -> Terminal \union {"open", "scoring"}]
        /\ work' \in [Attempts -> {"execution", "judge", "none"}]
    BY <1>0, <2>1 DEF Terminal
  <2>6. Judged'
    BY <1>0, <2>1 DEF Judged
  <2> QED
    BY <1>0, <1>1, <2>1, <2>3, <2>4, <2>5, <2>6
<1>2. CASE ExecutionEnds(a)
  <2>1. /\ status' \in [Attempts -> Terminal \union {"open", "scoring"}]
        /\ verdict' \in [Attempts -> Verdicts]
        /\ work' \in [Attempts -> {"execution", "judge", "none"}]
    BY <1>0, <1>2 DEF ExecutionEnds, Terminal, Verdicts
  <2>2. Judged'
    BY <1>0, <1>2 DEF ExecutionEnds, Judged
  <2> QED
    BY <1>0, <1>2, <2>1, <2>2 DEF ExecutionEnds
<1>3. CASE ScoringFails(a)
  <2>1. verdict[a] \in {"completed", "failed", "cancelled"}
    BY <1>0, <1>3 DEF ScoringFails, Judged, Verdicts
  <2>2. /\ status' \in [Attempts -> Terminal \union {"open", "scoring"}]
        /\ work' \in [Attempts -> {"execution", "judge", "none"}]
    BY <1>0, <1>3, <2>1 DEF ScoringFails, Terminal
  <2>3. Judged'
    BY <1>0, <1>3, <2>1 DEF ScoringFails, Judged
  <2> QED
    BY <1>0, <1>3, <2>2, <2>3 DEF ScoringFails
<1>4. CASE Close(a)
  <2>1. found' \in [Attempts -> {"nothing", "open", "scoring"}]
    BY <1>0, <1>4 DEF Close
  <2>2. work' \in [Attempts -> {"execution", "judge", "none"}]
    BY <1>0, <1>4 DEF Close
  <2>3. closes' \in 0..MaxTurns
    BY <1>0, <1>4 DEF Close
  <2>4. Judged'
    BY <1>0, <1>4 DEF Close, Judged
  <2> QED
    BY <1>0, <1>4, <2>1, <2>2, <2>3, <2>4 DEF Close
<1>5. CASE Closes(a)
  <2>1. /\ status' \in [Attempts -> Terminal \union {"open", "scoring"}]
        /\ found' \in [Attempts -> {"nothing", "open", "scoring"}]
    BY <1>0, <1>5 DEF Closes, Terminal
  <2>2. verdict' \in [Attempts -> Verdicts] /\ late' \subseteq Attempts
    BY <1>0, <1>5 DEF Closes, Verdicts
  <2>3. Judged'
    BY <1>0, <1>5 DEF Closes, Judged
  <2> QED
    BY <1>0, <1>5, <2>1, <2>2, <2>3 DEF Closes
<1>6. CASE Begins(a)
  <2>1. /\ status' \in [Attempts -> Terminal \union {"open", "scoring"}]
        /\ verdict' \in [Attempts -> Verdicts]
    BY <1>0, <1>6 DEF Begins, Verdicts
  <2>2. Judged'
    BY <1>0, <1>6 DEF Begins, Judged
  <2> QED
    BY <1>0, <1>6, <2>1, <2>2 DEF Begins
<1>7. CASE Rejudge(a)
  <2>1. /\ status' \in [Attempts -> Terminal \union {"open", "scoring"}]
        /\ work' \in [Attempts -> {"execution", "judge", "none"}]
    BY <1>0, <1>7 DEF Rejudge
  <2>2. rejudges' \in 0..MaxTurns
    BY <1>0, <1>7 DEF Rejudge
  <2>3. Judged'
    BY <1>0, <1>7 DEF Rejudge, Judged
  <2> QED
    BY <1>0, <1>7, <2>1, <2>2, <2>3 DEF Rejudge
<1> QED
  BY <1>1, <1>2, <1>3, <1>4, <1>5, <1>6, <1>7 DEF AttemptStep

LEMMA NextTypes == Types /\ [Next]_vars => Types'
<1> SUFFICES ASSUME Types, [Next]_vars
             PROVE  Types'
  OBVIOUS
<1>1. ASSUME NEW a \in Attempts, AttemptStep(a)
      PROVE  Types'
  <2>1. /\ UNCHANGED <<board, call>>
        /\ status' \in [Attempts -> Terminal \union {"open", "scoring"}]
        /\ verdict' \in [Attempts -> Verdicts]
        /\ work' \in [Attempts -> {"execution", "judge", "none"}]
        /\ found' \in [Attempts -> {"nothing", "open", "scoring"}]
        /\ late' \subseteq Attempts
        /\ rejudges' \in 0..MaxTurns /\ closes' \in 0..MaxTurns
        /\ Judged'
    BY <1>1, AttemptTypes
  <2>2. outbox' \in Seq(OutboxRow) /\ DOMAIN outbox \subseteq DOMAIN outbox'
    <3>1. CASE outbox' = outbox
      BY <3>1 DEF Types
    <3>2. CASE \E r \in OutboxRow : outbox' = Append(outbox, r)
      BY <3>2, OneRowMore DEF Types
    <3> QED
      BY <1>1, <3>1, <3>2, AttemptTypes
  <2>3. events \in Seq(Event') /\ Call \subseteq Call'
    BY <2>2, EventsGrow
  <2>4. call \in [Consumers -> Call']
    <3> HIDE DEF Call
    <3> QED
      BY <2>3 DEF Types
  <2> HIDE DEF Call, Event, OutboxRow
  <2>5. consumed \subseteq DOMAIN outbox'
    BY <2>2 DEF Types
  <2> QED
    BY <2>1, <2>2, <2>3, <2>4, <2>5 DEF Types, board
<1>2. ASSUME NEW c \in Consumers, Consume(c) \/ Dies(c)
      PROVE  Types'
  <2>1. /\ UNCHANGED facts /\ call' \in [Consumers -> Call]
        /\ consumed' \subseteq DOMAIN outbox /\ events' \in Seq(Event)
    BY <1>2, CallTypes
  <2>2. Call' = Call /\ Event' = Event
    <3>1. outbox' = outbox
      BY <2>1 DEF facts
    <3> QED
      BY <3>1 DEF Call, Event, Reading, Recalling, Numbering, Writing, Scoring, Anyone,
         Reasons, Idle
  <2> HIDE DEF Call, Event, OutboxRow
  <2>3. Judged'
    BY <2>1 DEF Types, Judged, facts
  <2> QED
    BY <2>1, <2>2, <2>3 DEF Types, facts
<1>3. CASE UNCHANGED vars
  <2>1. outbox' = outbox
    BY <1>3 DEF vars, facts
  <2>2. Call' = Call /\ Event' = Event
    BY <2>1 DEF Call, Event, Reading, Recalling, Numbering, Writing, Scoring, Anyone,
         Reasons, Idle
  <2> HIDE DEF Call, Event, OutboxRow
  <2>3. Judged'
    BY <1>3 DEF Types, Judged, vars, facts
  <2> QED
    BY <1>3, <2>2, <2>3 DEF Types, vars, facts, board
<1> QED
  BY <1>1, <1>2, <1>3 DEF Next

LEMMA InitTypes == Init => Types
<1> SUFFICES ASSUME Init
             PROVE  Types
  OBVIOUS
<1>1. 0 \in 0..MaxTurns
  BY LeaderAssumption DEF LeaderAssumption
<1>2. Idle \in Call
  BY DEF Call, Reading
<1>3. Judged
  BY DEF Init, Judged
<1> HIDE DEF Call, Event, OutboxRow
<1> QED
  BY <1>1, <1>2, <1>3 DEF Init, Types, Verdicts

-----------------------------------------------------------------------------
(* What the calls carry, and what is written.                              *)

HaveLed == {events[i].leader : i \in DOMAIN events}

\* x is the latest score of its attempt by row k, and ahead of those of the
\* others but the ones that were no candidates.
Elected(k, x, without) ==
  /\ \E i \in Latest(k) : x = Standing(i)
  /\ \A i \in Latest(k) : outbox[i].attempt \in without \/ Ahead(x, Standing(i))

\* What a call carries is what it has weighed and read; others may have written
\* since then.
Carries(c) ==
  /\ call[c].phase \in {"recall", "number"} =>
       Elected(call[c].row, call[c].best, call[c].without)
  /\ call[c].phase = "number" =>
       /\ call[c].previous \in HaveLed \union {Nobody}
       /\ call[c].reason = "none" => call[c].best \in HaveLed
  /\ call[c].phase = "write" =>
       /\ call[c].event.source = call[c].row
       /\ call[c].event.previous \in HaveLed \union {Nobody}
       /\ Elected(call[c].row, call[c].event.leader, call[c].without)
       /\ call[c].event.provisional <=> ~outbox[call[c].row].terminal

\* An event is written with the mark of its row.
Written == \A i \in DOMAIN events :
             /\ events[i].source \in consumed
             /\ events[i].provisional <=> ~outbox[events[i].source].terminal

\* The rows after the one that ended the scope are paid for: by the rejudges,
\* and by the attempts that are closed and go on.
Working == {a \in Attempts : work[a] # "none"}
GoingOn == \A a \in Attempts : status[a] \in Terminal /\ work[a] # "none" => a \in late
PaidFor ==
  /\ GoingOn
  /\ \A k \in DOMAIN outbox : outbox[k].terminal =>
       Len(outbox) - k + Cardinality(Working) <= rejudges + Cardinality(late)

Carrying == \A c \in Consumers : Carries(c)

IInv == Types /\ Carrying /\ Written /\ PaidFor

-----------------------------------------------------------------------------
\* The rows, the calls and the events as sequences and functions.
LEMMA Shape ==
  ASSUME Types
  PROVE  /\ outbox \in Seq(OutboxRow) /\ DOMAIN outbox = 1..Len(outbox)
         /\ Len(outbox) \in Nat
         /\ events \in Seq(Event) /\ DOMAIN events = 1..Len(events)
         /\ Len(events) \in Nat
         /\ \A i \in DOMAIN events : events[i] \in Event
         /\ call \in [Consumers -> Call]
<1> HIDE DEF OutboxRow, Event, Call
<1> QED
  BY DEF Types

\* A row more does not change what was weighed.
LEMMA StillElected ==
  ASSUME outbox \in Seq(OutboxRow), NEW r \in OutboxRow, outbox' = Append(outbox, r),
         NEW k \in DOMAIN outbox, NEW x, NEW without, Elected(k, x, without)
  PROVE  Elected(k, x, without)'
<1>1. \A i \in 1..k : i \in DOMAIN outbox /\ outbox'[i] = outbox[i]
  BY OneRowMore, RowsAreRows
<1>2. Latest(k)' = Latest(k)
  BY <1>1 DEF Latest
<1>3. Latest(k) \subseteq 1..k
  BY RowsAreRows
<1>4. \A i \in Latest(k) : Standing(i)' = Standing(i) /\ outbox'[i] = outbox[i]
  BY <1>1, <1>3 DEF Standing
<1>5. (\E i \in Latest(k) : x = Standing(i))'
  BY <1>2, <1>4 DEF Elected
<1>6. (\A i \in Latest(k) : outbox[i].attempt \in without \/ Ahead(x, Standing(i)))'
  <2>1. \A i \in Latest(k)' : outbox'[i].attempt \in without \/ Ahead(x, Standing(i)')
    BY <1>2, <1>4 DEF Elected
  <2> QED
    BY <2>1 DEF Ahead
<1> QED
  BY <1>5, <1>6 DEF Elected

LEMMA ElectedStays ==
  ASSUME outbox' = outbox, NEW k, NEW x, NEW without, Elected(k, x, without)
  PROVE  Elected(k, x, without)'
BY DEF Elected, Latest, Standing, Ahead

\* A row more keeps the first ones, in number and place.
LEMMA StepOfAttempt ==
  ASSUME Types, NEW a \in Attempts, AttemptStep(a)
  PROVE  /\ UNCHANGED <<consumed, events, call>>
         /\ outbox' = outbox \/ \E r \in OutboxRow : outbox' = Append(outbox, r)
         /\ \A i \in DOMAIN outbox : outbox'[i] = outbox[i]
<1>1. outbox' = outbox \/ \E r \in OutboxRow : outbox' = Append(outbox, r)
  BY AttemptTypes
<1>2. outbox \in Seq(OutboxRow)
  BY DEF Types
<1>3. UNCHANGED <<consumed, events, call>>
  BY AttemptTypes DEF board
<1> HIDE DEF OutboxRow
<1>4. CASE outbox' = outbox
  BY <1>1, <1>3, <1>4
<1>5. CASE \E r \in OutboxRow : outbox' = Append(outbox, r)
  BY <1>1, <1>2, <1>3, <1>5, OneRowMore
<1> QED
  BY <1>1, <1>4, <1>5

\* A call keeps what it carries while rows and events are added.
LEMMA OthersCarry ==
  ASSUME Types, NEW c \in Consumers, Carries(c), call'[c] = call[c],
         outbox' = outbox \/ \E r \in OutboxRow : outbox' = Append(outbox, r),
         \A i \in DOMAIN outbox : outbox'[i] = outbox[i],
         HaveLed \subseteq HaveLed'
  PROVE  Carries(c)'
<1>1. ASSUME NEW k \in DOMAIN outbox, NEW x, NEW without, Elected(k, x, without)
      PROVE  Elected(k, x, without)'
  <2>1. CASE outbox' = outbox
    BY <1>1, <2>1, ElectedStays
  <2>2. CASE \E r \in OutboxRow : outbox' = Append(outbox, r)
    BY <1>1, <2>2, StillElected DEF Types
  <2> QED
    BY <2>1, <2>2
<1>2. call[c].phase \in {"recall", "number", "write"} => call[c].row \in DOMAIN outbox
  BY Phases
<1>3. (call[c].phase \in {"recall", "number"} =>
         Elected(call[c].row, call[c].best, call[c].without))'
  <2>1. call[c].phase \in {"recall", "number"} =>
          Elected(call[c].row, call[c].best, call[c].without)
    BY DEF Carries
  <2>2. ASSUME call[c].phase \in {"recall", "number"},
               NEW k, k = call[c].row, NEW x, x = call[c].best,
               NEW without, without = call[c].without
        PROVE  Elected(k, x, without)'
    BY <1>1, <1>2, <2>1, <2>2
  <2>3. call[c].phase \in {"recall", "number"} =>
          \E k, x, without : /\ k = call[c].row /\ x = call[c].best
                             /\ without = call[c].without
                             /\ Elected(k, x, without)'
    BY <2>2
  <2> QED
    BY <2>3
<1>4. (call[c].phase = "number" =>
         /\ call[c].previous \in HaveLed \union {Nobody}
         /\ call[c].reason = "none" => call[c].best \in HaveLed)'
  BY DEF Carries, Nobody
<1>5. (call[c].phase = "write" =>
         /\ call[c].event.source = call[c].row
         /\ call[c].event.previous \in HaveLed \union {Nobody}
         /\ Elected(call[c].row, call[c].event.leader, call[c].without)
         /\ call[c].event.provisional <=> ~outbox[call[c].row].terminal)'
  <2>1. SUFFICES ASSUME call[c].phase = "write"
                 PROVE  (/\ call[c].event.source = call[c].row
                         /\ call[c].event.previous \in HaveLed \union {Nobody}
                         /\ Elected(call[c].row, call[c].event.leader, call[c].without)
                         /\ call[c].event.provisional <=> ~outbox[call[c].row].terminal)'
    OBVIOUS
  <2>2. PICK k, x, without :
          /\ k \in DOMAIN outbox
          /\ k = call[c].row /\ x = call[c].event.leader /\ without = call[c].without
          /\ Elected(k, x, without)
    BY <1>2, <2>1 DEF Carries
  <2>3. Elected(k, x, without)'
    BY <1>1, <2>2
  <2>4. /\ call'[c].event.source = k
        /\ call'[c].event.previous \in HaveLed' \union {Nobody}
        /\ call'[c].event.provisional <=> ~outbox'[k].terminal
    BY <2>1, <2>2 DEF Carries
  <2> QED
    BY <2>2, <2>3, <2>4 DEF Nobody
<1> QED
  BY <1>3, <1>4, <1>5 DEF Carries

\* The events only grow.
LEMMA EventsStay ==
  ASSUME Types, NEW c \in Consumers, Consume(c) \/ Dies(c)
  PROVE  /\ UNCHANGED <<status, work, late, outbox, rejudges>>
         /\ HaveLed \subseteq HaveLed'
         /\ consumed \subseteq consumed'
         /\ \A d \in Consumers : d # c => call'[d] = call[d]
         /\ events' = events
            \/ /\ Write(c) /\ ~HasEvent(call[c].row) /\ call[c].event \in Event
               /\ events' = Append(events, call[c].event)
               /\ consumed' = consumed \union {call[c].row}
               /\ call'[c] = Idle
<1>0. /\ call \in [Consumers -> Call] /\ events \in Seq(Event)
      /\ DOMAIN events = 1..Len(events) /\ Len(events) \in Nat
  BY Shape
<1>1. UNCHANGED <<status, work, late, outbox, rejudges>>
  BY CallTypes DEF facts
<1>2. \E to : Goto(c, to)
  BY DEF Consume, Dies, Look, Check, Weigh, Recall, Number, Skip, Write
<1>3. \A d \in Consumers : d # c => call'[d] = call[d]
  BY <1>0, <1>2 DEF Goto
<1>4. CASE events' # events
  <2>1. /\ Write(c) /\ ~HasEvent(call[c].row) /\ events' = Append(events, call[c].event)
        /\ consumed' = consumed \union {call[c].row} /\ call'[c] = Idle
    BY <1>0, <1>4 DEF Consume, Dies, Look, Check, Weigh, Recall, Number, Skip, Write,
                 facts, board, Goto
  <2>2. call[c].event \in Event
    BY <2>1, Phases DEF Write, Writing
  <2>3. \A i \in DOMAIN events : i \in DOMAIN events' /\ events'[i] = events[i]
    <3> HIDE DEF Event
    <3> QED
      BY <1>0, <2>1, <2>2
  <2>4. HaveLed \subseteq HaveLed'
    BY <2>3 DEF HaveLed
  <2> QED
    BY <1>1, <1>3, <2>1, <2>2, <2>4
<1>5. CASE events' = events
  <2>1. HaveLed' = HaveLed
    BY <1>5 DEF HaveLed
  <2>2. consumed \subseteq consumed'
    BY DEF Consume, Dies, Look, Check, Weigh, Recall, Number, Skip, Write, board
  <2> QED
    BY <1>1, <1>3, <1>5, <2>1, <2>2
<1> QED
  BY <1>4, <1>5

\* The leader so far has led.
LEMMA LeaderHasLed ==
  ASSUME Types
  PROVE  Leader \in HaveLed \union {Nobody}
<1>1. CASE events = <<>>
  BY <1>1 DEF Leader
<1>2. CASE events # <<>>
  <2>1. Len(events) \in DOMAIN events
    BY <1>2, Shape
  <2> QED
    BY <1>2, <2>1 DEF Leader, HaveLed
<1> QED
  BY <1>1, <1>2

\* A call that weighs carries the best of the candidates.
LEMMA WeighCarries ==
  ASSUME Types, NEW c \in Consumers, Weigh(c)
  PROVE  Carries(c)'
<1>0. outbox \in Seq(OutboxRow) /\ call \in [Consumers -> Call]
  BY Shape
<1>1. PICK k \in DOMAIN outbox : k = call[c].row
  BY Phases DEF Weigh
<1> DEFINE rows == Candidates(k)
<1>2. PICK without : without = {outbox[i].attempt : i \in Latest(k) \ rows}
  OBVIOUS
<1>3. outbox' = outbox
  BY DEF Weigh, facts
<1>4. CASE rows = {}
  <2>1. call'[c] = Idle
    BY <1>0, <1>1, <1>4 DEF Weigh, Goto
  <2> QED
    BY <2>1 DEF Carries, Idle
<1>5. CASE rows # {}
  <2>1. PICK best : best = Best(Standings(rows))
    OBVIOUS
  <2>2. /\ call'[c].phase = "recall" /\ call'[c].row = k /\ call'[c].best = best
        /\ call'[c].without = without
    BY <1>0, <1>1, <1>5, <1>2, <2>1 DEF Weigh, Goto
  <2>3. rows \subseteq DOMAIN outbox /\ rows \subseteq Latest(k)
    BY <1>0, RowsAreRows
  <2>4. /\ \E i \in rows : best = Standing(i)
        /\ \A i \in rows : Ahead(best, Standing(i))
    BY <1>0, <1>5, <2>1, <2>3, BestIsAhead
  <2>5. \A i \in Latest(k) : i \in rows \/ outbox[i].attempt \in without
    BY <1>2
  <2> HIDE DEF rows
  <2>6. Elected(k, best, without)
    BY <2>3, <2>4, <2>5 DEF Elected
  <2>7. Elected(k, best, without)'
    BY <1>3, <2>6, ElectedStays
  <2> QED
    BY <2>2, <2>7 DEF Carries
<1> QED
  BY <1>4, <1>5
LEMMA RecallCarries ==
  ASSUME Types, NEW c \in Consumers, Carries(c), Recall(c)
  PROVE  Carries(c)'
<1>1. call \in [Consumers -> Call]
  BY Shape
<1>2. PICK k, best, reason, without, leader :
        /\ k = call[c].row /\ best = call[c].best /\ without = call[c].without
        /\ leader = Leader /\ reason = Reason(c, Leader)
        /\ Elected(k, best, without)
  BY DEF Recall, Carries
<1>3. /\ UNCHANGED <<outbox, events>>
      /\ call'[c] = [phase |-> "number", row |-> k, best |-> best,
                     previous |-> leader, reason |-> reason, without |-> without]
  BY <1>1, <1>2 DEF Recall, Goto, facts, board
<1>4. Elected(k, best, without)'
  BY <1>2, <1>3, ElectedStays
<1>5. leader \in HaveLed' \union {Nobody}
  <2>1. HaveLed' = HaveLed
    BY <1>3 DEF HaveLed
  <2> QED
    BY <1>2, <2>1, LeaderHasLed
<1>6. reason = "none" => best \in HaveLed'
  <2>1. SUFFICES ASSUME reason = "none"
                 PROVE  best \in HaveLed'
    OBVIOUS
  <2>2. best \in Scoring /\ leader \in Anyone
    BY <1>2, Phases, LeaderType DEF Recall, Recalling
  <2>3. leader # Nobody /\ leader.attempt = best.attempt /\ leader.score = best.score
    BY <1>2, <2>1 DEF Reason
  <2> QED
    BY <1>5, <2>2, <2>3 DEF Scoring, Anyone
<1> QED
  BY <1>3, <1>4, <1>5, <1>6 DEF Carries, Nobody

LEMMA NumberCarries ==
  ASSUME Types, NEW c \in Consumers, Carries(c), Number(c)
  PROVE  Carries(c)'
<1>1. call \in [Consumers -> Call]
  BY Shape
<1>2. PICK k, best, without, previous :
        /\ k = call[c].row /\ best = call[c].best /\ without = call[c].without
        /\ previous = call[c].previous /\ previous \in HaveLed \union {Nobody}
        /\ Elected(k, best, without)
  BY DEF Number, Carries
<1>3. /\ UNCHANGED <<outbox, events>> /\ call'[c].phase = "write"
      /\ call'[c].row = k /\ call'[c].without = without
      /\ call'[c].event.source = k /\ call'[c].event.previous = previous
      /\ call'[c].event.leader = best
      /\ call'[c].event.provisional = ~outbox[k].terminal
  BY <1>1, <1>2 DEF Number, Goto, facts, board
<1>4. Elected(k, best, without)'
  BY <1>2, <1>3, ElectedStays
<1>5. previous \in HaveLed' \union {Nobody}
  <2>1. HaveLed' = HaveLed
    BY <1>3 DEF HaveLed
  <2> QED
    BY <1>2, <2>1
<1> QED
  BY <1>3, <1>4, <1>5 DEF Carries, Nobody

\* What every call carries stays justified, whoever else writes.
LEMMA NextCarrying ==
  ASSUME Types, Carrying, [Next]_vars
  PROVE  Carrying'
<1>0. call \in [Consumers -> Call]
  BY Shape
<1>1. ASSUME NEW a \in Attempts, AttemptStep(a)
      PROVE  Carrying'
  <2>1. /\ call' = call
        /\ outbox' = outbox \/ \E r \in OutboxRow : outbox' = Append(outbox, r)
        /\ \A i \in DOMAIN outbox : outbox'[i] = outbox[i]
    BY <1>1, StepOfAttempt
  <2>2. HaveLed \subseteq HaveLed'
    BY <1>1, StepOfAttempt DEF HaveLed
  <2>3. ASSUME NEW c \in Consumers
        PROVE  Carries(c)'
    BY <2>1, <2>2, OthersCarry DEF Carrying
  <2> QED
    BY <2>3 DEF Carrying
<1>2. ASSUME NEW c \in Consumers, Consume(c) \/ Dies(c)
      PROVE  Carrying'
  <2>1. /\ outbox' = outbox /\ HaveLed \subseteq HaveLed'
        /\ \A d \in Consumers : d # c => call'[d] = call[d]
    BY <1>2, EventsStay
  <2>2. ASSUME NEW d \in Consumers, d # c
        PROVE  Carries(d)'
    BY <2>1, <2>2, OthersCarry DEF Carrying
  <2>3. Carries(c)'
    <3>1. CASE Weigh(c)
      BY <3>1, WeighCarries
    <3>2. CASE Recall(c)
      BY <3>2, RecallCarries DEF Carrying
    <3>3. CASE Number(c)
      BY <3>3, NumberCarries DEF Carrying
    <3>4. CASE Dies(c) \/ Look(c) \/ Check(c) \/ Skip(c) \/ Write(c)
      <4>1. call'[c].phase \notin {"recall", "number", "write"}
        BY <1>0, <3>4 DEF Dies, Look, Check, Skip, Write, Goto, Idle
      <4> QED
        BY <4>1 DEF Carries
    <3> QED
      BY <1>2, <3>1, <3>2, <3>3, <3>4 DEF Consume
  <2> QED
    BY <2>2, <2>3 DEF Carrying
<1>3. CASE UNCHANGED vars
  <2>1. UNCHANGED <<outbox, events, call>> /\ HaveLed' = HaveLed
    BY <1>3 DEF vars, facts, board, HaveLed
  <2>2. ASSUME NEW c \in Consumers
        PROVE  Carries(c)'
    BY <2>1, OthersCarry DEF Carrying
  <2> QED
    BY <2>2 DEF Carrying
<1> QED
  BY <1>1, <1>2, <1>3 DEF Next

\* An event comes with the mark of its row, and says whether the row ended the
\* scope.
LEMMA NextWritten ==
  ASSUME Types, Carrying, Written, [Next]_vars
  PROVE  Written'
<1>0. /\ events \in Seq(Event) /\ DOMAIN events = 1..Len(events) /\ Len(events) \in Nat
      /\ \A i \in DOMAIN events : events[i] \in Event
  BY Shape
<1>1. \A i \in DOMAIN events : events[i].source \in DOMAIN outbox
  BY <1>0 DEF Event
<1>2. ASSUME NEW a \in Attempts, AttemptStep(a)
      PROVE  Written'
  <2>1. UNCHANGED <<consumed, events>> /\ \A i \in DOMAIN outbox : outbox'[i] = outbox[i]
    BY <1>2, StepOfAttempt
  <2> QED
    BY <1>1, <2>1 DEF Written
<1>3. ASSUME NEW c \in Consumers, Consume(c) \/ Dies(c)
      PROVE  Written'
  <2>1. outbox' = outbox /\ consumed \subseteq consumed'
    BY <1>3, EventsStay
  <2>2. CASE events' = events
    BY <2>1, <2>2 DEF Written
  <2>3. CASE events' # events
    <3>1. PICK event \in Event :
            /\ event = call[c].event /\ events' = Append(events, event)
            /\ Write(c) /\ consumed' = consumed \union {call[c].row}
      BY <1>3, <2>3, EventsStay
    <3>2. event.source \in consumed' /\ (event.provisional <=> ~outbox[event.source].terminal)
      BY <3>1 DEF Write, Carrying, Carries
    <3>3. /\ DOMAIN events' = 1..(Len(events) + 1)
          /\ \A i \in DOMAIN events : events'[i] = events[i]
          /\ events'[Len(events) + 1] = event
      <4> HIDE DEF Event
      <4> QED
        BY <1>0, <3>1
    <3>4. ASSUME NEW i \in DOMAIN events'
          PROVE  /\ events'[i].source \in consumed'
                 /\ events'[i].provisional <=> ~outbox'[events'[i].source].terminal
      <4>1. i \in DOMAIN events \/ i = Len(events) + 1
        BY <1>0, <3>3
      <4>2. CASE i \in DOMAIN events
        BY <2>1, <3>3, <4>2 DEF Written
      <4>3. CASE i = Len(events) + 1
        BY <2>1, <3>2, <3>3, <4>3
      <4> QED
        BY <4>1, <4>2, <4>3
    <3> QED
      BY <3>4 DEF Written
  <2> QED
    BY <2>2, <2>3
<1>4. CASE UNCHANGED vars
  BY <1>4 DEF Written, vars, facts, board
<1> QED
  BY <1>2, <1>3, <1>4 DEF Next
\* How many attempts something may still write for, and how a step changes that.
LEMMA Counts ==
  ASSUME Types
  PROVE  /\ IsFiniteSet(Working) /\ Cardinality(Working) \in Nat
         /\ IsFiniteSet(late) /\ Cardinality(late) \in Nat
<1>1. IsFiniteSet(Attempts) /\ Working \subseteq Attempts /\ late \subseteq Attempts
  BY LeaderAssumption DEF LeaderAssumption, Working, Types
<1> QED
  BY <1>1, FS_Subset, FS_CardinalityType

LEMMA WorkEnds ==
  ASSUME Types, NEW a \in Attempts, work[a] # "none",
         work' = [work EXCEPT ![a] = "none"]
  PROVE  Cardinality(Working') = Cardinality(Working) - 1
<1>1. Working' = Working \ {a} /\ a \in Working
  BY DEF Working, Types
<1> QED
  BY <1>1, Counts, FS_RemoveElement

LEMMA WorkBegins ==
  ASSUME Types, NEW a \in Attempts, work[a] = "none",
         work' = [work EXCEPT ![a] = "judge"]
  PROVE  Cardinality(Working') = Cardinality(Working) + 1
<1>1. Working' = Working \union {a} /\ a \notin Working
  BY DEF Working, Types
<1> QED
  BY <1>1, Counts, FS_AddElement

\* A closed attempt that goes on is among the late ones.
LEMMA NextGoingOn ==
  ASSUME Types, GoingOn, NEW a \in Attempts, AttemptStep(a)
  PROVE  GoingOn'
<1>0. /\ status \in [Attempts -> Terminal \union {"open", "scoring"}]
      /\ work \in [Attempts -> {"execution", "judge", "none"}]
  BY DEF Types
<1>1. CASE ExecutionEnds(a)
  BY <1>0, <1>1 DEF ExecutionEnds, GoingOn, Terminal
<1>2. CASE Commit(a)
  BY <1>0, <1>2 DEF Commit, GoingOn
<1>3. CASE ScoringFails(a)
  BY <1>0, <1>3 DEF ScoringFails, GoingOn
<1>4. CASE Close(a)
  BY <1>0, <1>4 DEF Close, GoingOn
<1>5. CASE Closes(a)
  BY <1>0, <1>5 DEF Closes, GoingOn
<1>6. CASE Begins(a)
  BY <1>0, <1>6 DEF Begins, GoingOn
<1>7. CASE Rejudge(a)
  BY <1>0, <1>7 DEF Rejudge, GoingOn, Terminal
<1> QED
  BY <1>1, <1>2, <1>3, <1>4, <1>5, <1>6, <1>7 DEF AttemptStep

LEMMA NextPaidFor ==
  ASSUME Types, PaidFor, NEW a \in Attempts, AttemptStep(a)
  PROVE  PaidFor'
<1>0. /\ outbox \in Seq(OutboxRow) /\ DOMAIN outbox = 1..Len(outbox) /\ Len(outbox) \in Nat
      /\ rejudges \in Nat /\ Cardinality(Working) \in Nat /\ Cardinality(late) \in Nat
  <2>1. rejudges \in Nat
    BY LeaderAssumption DEF LeaderAssumption, Types
  <2> QED
    BY <2>1, Shape, Counts
<1>1. GoingOn'
  BY NextGoingOn DEF PaidFor
<1>2. \A k \in DOMAIN outbox : k \in Nat /\ (outbox[k].terminal =>
        Len(outbox) - k + Cardinality(Working) <= rejudges + Cardinality(late))
  BY <1>0 DEF PaidFor
<1>3. CASE ExecutionEnds(a) \/ Close(a) \/ Begins(a) \/ Closes(a) \/ ScoringFails(a)
  <2>1. UNCHANGED <<outbox, rejudges>>
    BY <1>3 DEF ExecutionEnds, Close, Begins, Closes, ScoringFails
  <2>2. late \subseteq late' /\ late' \subseteq Attempts
    <3>1. late \subseteq late'
      BY <1>3 DEF ExecutionEnds, Close, Begins, Closes, ScoringFails
    <3> QED
      BY <3>1, AttemptTypes
  <2>3. Working' \subseteq Working
    <3>1. work' = work \/ work' = [work EXCEPT ![a] = "none"]
          \/ (work[a] # "none" /\ \E w : work' = [work EXCEPT ![a] = w])
      BY <1>3 DEF ExecutionEnds, Close, Begins, Closes, ScoringFails
    <3> QED
      BY <3>1 DEF Working, Types
  <2>4. /\ Cardinality(late') \in Nat /\ Cardinality(late) <= Cardinality(late')
        /\ Cardinality(Working') \in Nat /\ Cardinality(Working') <= Cardinality(Working)
    <3>1. IsFiniteSet(late')
      BY <2>2, LeaderAssumption, FS_Subset DEF LeaderAssumption
    <3> QED
      BY <2>2, <2>3, <3>1, Counts, FS_Subset, FS_CardinalityType
  <2>5. ASSUME NEW k \in DOMAIN outbox, outbox[k].terminal
        PROVE  Len(outbox) - k + Cardinality(Working') <= rejudges + Cardinality(late')
    <3>1. Len(outbox) - k + Cardinality(Working) <= rejudges + Cardinality(late) /\ k \in Nat
      BY <1>2, <2>5
    <3> QED
      BY <1>0, <2>4, <3>1
  <2> QED
    BY <1>1, <2>1, <2>5 DEF PaidFor
<1>4. CASE Rejudge(a)
  <2>1. UNCHANGED <<outbox, late>> /\ rejudges' = rejudges + 1
    BY <1>4 DEF Rejudge
  <2>2. Cardinality(Working') = Cardinality(Working) + 1
    BY <1>4, WorkBegins DEF Rejudge
  <2>3. ASSUME NEW k \in DOMAIN outbox, outbox[k].terminal
        PROVE  Len(outbox) - k + Cardinality(Working') <= rejudges' + Cardinality(late)
    <3>1. Len(outbox) - k + Cardinality(Working) <= rejudges + Cardinality(late) /\ k \in Nat
      BY <1>2, <2>3
    <3> QED
      BY <1>0, <2>1, <2>2, <3>1
  <2> QED
    BY <1>1, <2>1, <2>3 DEF PaidFor
<1>5. CASE Commit(a)
  <2>1. /\ UNCHANGED <<rejudges, late>> /\ work[a] # "none"
        /\ work' = [work EXCEPT ![a] = "none"]
    BY <1>5 DEF Commit
  <2>2. Cardinality(Working') = Cardinality(Working) - 1
    BY <2>1, WorkEnds
  <2>3. PICK r \in OutboxRow : outbox' = Append(outbox, r) /\ r.terminal = ScopeTerminal(status')
    <3>1. outbox' # outbox
      <4>1. \E r : outbox' = Append(outbox, r)
        BY <1>5 DEF Commit
      <4> HIDE DEF OutboxRow
      <4>2. Len(outbox') = Len(outbox) + 1
        BY <1>0, <4>1
      <4> QED
        BY <1>0, <4>2
    <3> QED
      BY <3>1, AttemptTypes
  <2>4. /\ Len(outbox') = Len(outbox) + 1 /\ DOMAIN outbox' = 1..(Len(outbox) + 1)
        /\ \A k \in DOMAIN outbox : outbox'[k] = outbox[k]
        /\ outbox'[Len(outbox) + 1] = r
    <3> HIDE DEF OutboxRow
    <3> QED
      BY <1>0, <2>3
  <2>5. ASSUME NEW k \in DOMAIN outbox, outbox'[k].terminal
        PROVE  Len(outbox') - k + Cardinality(Working') <= rejudges' + Cardinality(late')
    <3>1. Len(outbox) - k + Cardinality(Working) <= rejudges + Cardinality(late) /\ k \in Nat
      BY <1>2, <2>4, <2>5
    <3> QED
      BY <1>0, <2>1, <2>2, <2>4, <3>1
  <2>6. ASSUME ScopeTerminal(status')
        PROVE  Cardinality(Working') <= Cardinality(late)
    <3>1. Working' \subseteq late
      BY <1>1, <2>1, <2>6 DEF ScopeTerminal, GoingOn, Working
    <3> QED
      BY <3>1, Counts, FS_Subset
  <2>7. ASSUME NEW k \in DOMAIN outbox', outbox'[k].terminal
        PROVE  Len(outbox') - k + Cardinality(Working') <= rejudges' + Cardinality(late')
    <3>1. k \in DOMAIN outbox \/ k = Len(outbox) + 1
      BY <1>0, <2>4
    <3>2. CASE k = Len(outbox) + 1
      <4>1. ScopeTerminal(status')
        BY <2>3, <2>4, <2>7, <3>2
      <4>2. Cardinality(Working') \in Int
        BY <1>0, <2>2
      <4> QED
        BY <1>0, <2>1, <2>4, <2>6, <3>2, <4>1, <4>2
    <3> QED
      BY <2>5, <2>7, <3>1, <3>2
  <2> QED
    BY <1>1, <2>7 DEF PaidFor
<1> QED
  BY <1>3, <1>4, <1>5 DEF AttemptStep

-----------------------------------------------------------------------------
(* The theorems.                                                           *)

LEMMA InitInv == Init => IInv
<1> SUFFICES ASSUME Init
             PROVE  IInv
  OBVIOUS
<1>1. Types
  BY InitTypes
<1>2. \A c \in Consumers : call[c] = Idle /\ Idle.phase = "idle"
  BY DEF Init, Idle
<1>3. Carrying
  BY <1>2 DEF Carrying, Carries
<1>4. DOMAIN events = {} /\ DOMAIN outbox = {}
  BY DEF Init
<1>5. Written /\ PaidFor
  BY <1>4 DEF Init, Written, PaidFor, GoingOn, Terminal
<1> QED
  BY <1>1, <1>3, <1>5 DEF IInv

LEMMA NextInv == IInv /\ [Next]_vars => IInv'
<1> SUFFICES ASSUME IInv, [Next]_vars
             PROVE  IInv'
  OBVIOUS
<1>1. Types /\ Carrying /\ Written /\ PaidFor
  BY DEF IInv
<1>2. Types' /\ Carrying' /\ Written'
  BY <1>1, NextTypes, NextCarrying, NextWritten
<1>3. PaidFor'
  <2>1. ASSUME NEW a \in Attempts, AttemptStep(a)
        PROVE  PaidFor'
    BY <1>1, <2>1, NextPaidFor
  <2>2. CASE UNCHANGED <<status, work, late, outbox, rejudges>>
    BY <1>1, <2>2 DEF PaidFor, GoingOn, Working
  <2>3. ASSUME NEW c \in Consumers, Consume(c) \/ Dies(c)
        PROVE  PaidFor'
    BY <1>1, <2>2, <2>3, EventsStay
  <2>4. CASE UNCHANGED vars
    BY <2>2, <2>4 DEF vars, facts
  <2> QED
    BY <2>1, <2>3, <2>4 DEF Next
<1> QED
  BY <1>2, <1>3 DEF IInv

LEMMA AlwaysInv == Spec => []IInv
BY InitInv, NextInv, PTL DEF Spec

\* The variables have their types, however many calls consume at once: the
\* row a consumer works on is in the outbox.
THEOREM TypeCorrect == Spec => []TypeOK
<1>1. Init => Types
  BY InitTypes
<1>2. Types /\ [Next]_vars => Types'
  BY NextTypes
<1>3. Types => TypeOK
  <2> SUFFICES ASSUME Types
               PROVE  TypeOK
    OBVIOUS
  <2>1. \A c \in Consumers : "row" \in DOMAIN call[c] => call[c].row \in DOMAIN outbox
    <3> SUFFICES ASSUME NEW c \in Consumers, "row" \in DOMAIN call[c]
                 PROVE  call[c].row \in DOMAIN outbox
      OBVIOUS
    <3>1. call[c] \in Call
      <4> HIDE DEF Call
      <4> QED
        BY DEF Types
    <3> QED
      BY <3>1 DEF Call, Reading, Recalling, Numbering, Writing, Idle
  <2>2. events \in Seq([source : DOMAIN outbox, previous : [attempt : Nat, score : Nat],
                        leader : [attempt : Attempts, score : Scores],
                        reason : {"incomparable", "scope-finalized", "first",
                                  "upgrade", "rejudge"},
                        provisional : BOOLEAN])
    <3> DEFINE E == [source : DOMAIN outbox, previous : [attempt : Nat, score : Nat],
                     leader : [attempt : Attempts, score : Scores],
                     reason : {"incomparable", "scope-finalized", "first",
                               "upgrade", "rejudge"},
                     provisional : BOOLEAN]
    <3>1. Event \subseteq E
      BY LeaderAssumption DEF Event, Anyone, Reasons, Scoring, LeaderAssumption, Nobody
    <3>2. events \in Seq(Event)
      BY DEF Types
    <3> HIDE DEF E, Event
    <3>3. events \in Seq(E)
      BY <3>1, <3>2
    <3> QED
      BY <3>3 DEF E
  <2>3. \A a \in Attempts : status[a] = "scoring" => verdict[a] # "none"
    BY DEF Types, Judged
  <2> QED
    BY <2>1, <2>2, <2>3 DEF Types, TypeOK, OutboxRow
<1> QED
  BY <1>1, <1>2, <1>3, PTL DEF Spec

\* However many calls consume at once, the scores that come after the row of a
\* final event are of rejudges and of attempts closed before their work was over.
THEOREM FinalStays == Spec => []FinalIsFinal
<1>1. IInv => FinalIsFinal
  <2> SUFFICES ASSUME IInv, NEW i \in DOMAIN events, ~events[i].provisional
               PROVE  Len(outbox) - events[i].source <= rejudges + Cardinality(late)
    BY DEF FinalIsFinal
  <2>1. Types /\ Written /\ PaidFor
    BY DEF IInv
  <2>2. /\ events[i].source \in DOMAIN outbox /\ DOMAIN outbox = 1..Len(outbox)
        /\ Len(outbox) \in Nat
    BY <2>1, Shape DEF Event
  <2>3. outbox[events[i].source].terminal
    <3>1. outbox[events[i].source] \in OutboxRow
      BY <2>1, <2>2, Shape
    <3> QED
      BY <2>1, <3>1 DEF Written, OutboxRow
  <2>4. Len(outbox) - events[i].source + Cardinality(Working) <= rejudges + Cardinality(late)
    BY <2>1, <2>2, <2>3 DEF PaidFor
  <2>5. Cardinality(Working) \in Nat /\ Cardinality(late) \in Nat /\ rejudges \in Nat
    BY <2>1, Counts, LeaderAssumption DEF LeaderAssumption, Types
  <2> QED
    BY <2>2, <2>4, <2>5
<1> QED
  BY <1>1, AlwaysInv, PTL

-----------------------------------------------------------------------------
(* The timeline keeps its promise.                                         *)

\* What the promise sees of the outbox and of the events.
Scored == [i \in DOMAIN outbox |-> Standing(i)]
Entry(e) == [source |-> e.source, previous |-> e.previous, leader |-> e.leader]
Timeline == [i \in DOMAIN events |-> Entry(events[i])]
Entries == [source : Nat, previous : Anyone, leader : Scoring]

LEMMA Sight ==
  ASSUME Types
  PROVE  /\ Scored \in Seq(Scoring) /\ Len(Scored) = Len(outbox)
         /\ Timeline \in Seq(Entries) /\ Len(Timeline) = Len(events)
         /\ DOMAIN Scored = 1..Len(outbox) /\ DOMAIN Timeline = 1..Len(events)
         /\ Len(outbox) \in Nat /\ Len(events) \in Nat
<1>1. /\ outbox \in Seq(OutboxRow) /\ DOMAIN outbox = 1..Len(outbox)
      /\ Len(outbox) \in Nat /\ Len(events) \in Nat /\ DOMAIN events = 1..Len(events)
      /\ \A i \in DOMAIN events : events[i] \in Event
  <2> HIDE DEF OutboxRow, Event, Call
  <2> QED
    BY DEF Types
<1>2. \A i \in DOMAIN outbox : Standing(i) \in Scoring
  BY <1>1, StandingType
<1>3. \A i \in DOMAIN events : Entry(events[i]) \in Entries
  BY <1>1 DEF Event, Entry, Entries
<1>4. Scored \in Seq(Scoring)
  <2> HIDE DEF Scoring
  <2> QED
    BY <1>1, <1>2 DEF Scored
<1>5. Timeline \in Seq(Entries)
  <2> HIDE DEF Entries
  <2> QED
    BY <1>1, <1>3 DEF Timeline
<1>6. DOMAIN Scored = 1..Len(outbox) /\ DOMAIN Timeline = 1..Len(events)
  BY <1>1 DEF Scored, Timeline
<1>7. \A S, s : s \in Seq(S) => Len(s) \in Nat /\ DOMAIN s = 1..Len(s)
  OBVIOUS
<1>8. Len(Scored) \in Nat /\ 1..Len(Scored) = 1..Len(outbox)
  BY <1>4, <1>6, <1>7
<1>9. Len(Timeline) \in Nat /\ 1..Len(Timeline) = 1..Len(events)
  BY <1>5, <1>6, <1>7
<1>10. \A m, n \in Nat : 1..m = 1..n => m = n
  <2>1. SUFFICES ASSUME NEW m \in Nat, NEW n \in Nat, 1..m = 1..n
                 PROVE  m <= n
    OBVIOUS
  <2>2. m = 0 \/ m \in 1..n
    BY <2>1
  <2> QED
    BY <2>2
<1> QED
  BY <1>1, <1>4, <1>5, <1>6, <1>8, <1>9, <1>10

LEMMA ScoreKept ==
  ASSUME Types, Types', NEW a \in Attempts, AttemptStep(a), outbox' # outbox
  PROVE  Promise!Score
<1>1. PICK r \in OutboxRow : outbox' = Append(outbox, r)
  BY AttemptTypes
<1>2. /\ DOMAIN outbox' = 1..(Len(outbox) + 1) /\ outbox'[Len(outbox) + 1] = r
      /\ \A i \in DOMAIN outbox : outbox'[i] = outbox[i]
      /\ DOMAIN outbox = 1..Len(outbox)
  <2>1. outbox \in Seq(OutboxRow)
    BY DEF Types
  <2> HIDE DEF OutboxRow
  <2> QED
    BY <1>1, <2>1
<1>3. UNCHANGED <<events, call>>
  BY StepOfAttempt
<1> DEFINE x == [attempt |-> r.attempt, score |-> r.score]
<1>4. Scored' = Append(Scored, x)
  <2>1. /\ Scored \in Seq(Scoring) /\ Len(Scored) = Len(outbox)
        /\ DOMAIN Scored = 1..Len(outbox) /\ Len(outbox) \in Nat
    BY Sight
  <2>2. x \in Scoring
    BY DEF OutboxRow, Scoring
  <2> DEFINE longer == Append(Scored, x)
  <2>3. /\ DOMAIN longer = 1..(Len(outbox) + 1) /\ longer[Len(outbox) + 1] = x
        /\ \A i \in 1..Len(outbox) : longer[i] = Scored[i]
        /\ longer = [i \in 1..(Len(outbox) + 1) |-> longer[i]]
    <3> HIDE DEF x, Scoring, Scored
    <3>1. /\ longer \in Seq(Scoring) /\ Len(longer) = Len(Scored) + 1
          /\ longer[Len(Scored) + 1] = x
      BY <2>1, <2>2
    <3>2. \A i \in 1..Len(Scored) : longer[i] = Scored[i]
      BY <2>1, <2>2
    <3> HIDE DEF longer
    <3>3. DOMAIN longer = 1..Len(longer) /\ longer = [i \in DOMAIN longer |-> longer[i]]
      BY <3>1
    <3> QED
      BY <2>1, <3>1, <3>2, <3>3
  <2>4. Scored' = [i \in 1..(Len(outbox) + 1) |-> Standing(i)']
    BY <1>2 DEF Scored
  <2>5. \A i \in 1..(Len(outbox) + 1) : i \in 1..Len(outbox) \/ i = Len(outbox) + 1
    BY <2>1
  <2>6. ASSUME NEW i \in 1..(Len(outbox) + 1)
        PROVE  Standing(i)' = longer[i]
    <3>1. CASE i \in 1..Len(outbox)
      <4>1. Standing(i)' = Standing(i) /\ Scored[i] = Standing(i)
        BY <1>2, <3>1 DEF Standing, Scored
      <4> HIDE DEF longer
      <4> QED
        BY <2>3, <3>1, <4>1
    <3>2. CASE i = Len(outbox) + 1
      <4>1. Standing(i)' = x
        BY <1>2, <3>2 DEF Standing
      <4> HIDE DEF longer
      <4> QED
        BY <2>3, <3>2, <4>1
    <3> QED
      BY <2>5, <3>1, <3>2
  <2> HIDE DEF longer
  <2>7. longer = [i \in 1..(Len(outbox) + 1) |-> Standing(i)']
    BY <2>3, <2>6
  <2> QED
    BY <2>4, <2>7 DEF longer
<1>5. r.attempt \in Attempts /\ r.score \in Scores
  BY DEF OutboxRow
<1>6. Timeline' = Timeline
  BY <1>3 DEF Timeline, Entry
<1>7. Looks' = Looks /\ consumed' = consumed
  BY <1>3, StepOfAttempt DEF Looks, Weighing
<1>8. Away' = Away \ {r.attempt}
  <2>1. Commit(a) /\ \E s \in OutboxRow : outbox' = Append(outbox, s) /\ s.attempt = a
    <3>1. Commit(a)
      BY AttemptTypes
    <3>2. PICK n \in Scores, f \in Prints :
            outbox' = Append(outbox, [attempt |-> a, score |-> n, print |-> f,
                                      terminal |-> ScopeTerminal(status')])
      BY <3>1 DEF Commit
    <3> DEFINE row == [attempt |-> a, score |-> n, print |-> f,
                       terminal |-> ScopeTerminal(status')]
    <3>3. row \in OutboxRow /\ row.attempt = a
      BY DEF OutboxRow, ScopeTerminal
    <3>4. outbox' = Append(outbox, row)
      BY <3>2
    <3> HIDE DEF row
    <3> QED
      BY <3>1, <3>3, <3>4
  <2>2. r.attempt = a
    <3>1. PICK s \in OutboxRow : outbox' = Append(outbox, s) /\ s.attempt = a
      BY <2>1
    <3>2. outbox'[Len(outbox) + 1] = s
      BY <3>1, OneRowMore DEF Types
    <3> QED
      BY <1>2, <3>1, <3>2
  <2>3. status' = [status EXCEPT ![a] = "completed"]
    BY <2>1 DEF Commit
  <2> QED
    BY <2>2, <2>3 DEF Away, Types
<1> QED
  BY <1>4, <1>5, <1>6, <1>7, <1>8 DEF Promise!Score, Scored, Timeline, Entry
\* What the promise sees is what the program sees.
LEMMA SameLatest ==
  ASSUME Types, NEW k \in DOMAIN outbox
  PROVE  Promise!Latest(k) = Standings(Latest(k))
<1>1. /\ DOMAIN outbox = 1..Len(outbox) /\ Len(outbox) \in Nat
  BY Shape
<1>2. \A i \in 1..k : i \in DOMAIN outbox
  BY <1>1
<1>3. {j \in 1..k : \A l \in j + 1 .. k : Scored[l].attempt # Scored[j].attempt}
        = Latest(k)
  <2>1. \A j \in 1..k : \A l \in j + 1 .. k : l \in 1..k
    BY <1>1
  <2>2. \A j \in 1..k : Scored[j].attempt = outbox[j].attempt
    BY <1>2 DEF Scored, Standing
  <2> QED
    BY <2>1, <2>2 DEF Latest
<1>4. Promise!Latest(k) = {Scored[i] : i \in Latest(k)}
  BY <1>3 DEF Promise!Latest, Scored
<1>5. \A i \in Latest(k) : Scored[i] = Standing(i)
  BY <1>2 DEF Scored, Latest
<1> QED
  BY <1>4, <1>5 DEF Standings

LEMMA SameLed ==
  ASSUME Types
  PROVE  Promise!HaveLed = HaveLed /\ Promise!Nobody = Nobody
<1>1. DOMAIN Timeline = DOMAIN events
      /\ \A i \in DOMAIN events : Timeline[i].leader = events[i].leader
  BY DEF Timeline, Entry
<1>2. Promise!HaveLed = {Timeline[i].leader : i \in DOMAIN Timeline}
  BY DEF Promise!HaveLed, Timeline, Entry
<1> QED
  BY <1>1, <1>2 DEF HaveLed, Promise!Nobody, Nobody

\* What a call under way has elected leads, as the promise means it.
LEMMA ElectedLeads ==
  ASSUME Types, NEW k \in DOMAIN outbox, NEW x, NEW without,
         Elected(k, x, without), without \in Looks
  PROVE  Promise!Leads(x, k)
<1>1. x \in Promise!Latest(k)
  BY SameLatest DEF Elected, Standings
<1>2. \A y \in Promise!Latest(k) : y.attempt \in without \/ Promise!Ahead(x, y)
  BY SameLatest DEF Elected, Standings, Standing, Ahead, Promise!Ahead
<1> QED
  BY <1>1, <1>2 DEF Promise!Leads

\* A call that goes somewhere sees what it saw before, or something new.
LEMMA LooksGrow ==
  ASSUME Types, NEW c \in Consumers, NEW to, Goto(c, to), NEW new,
         "without" \in DOMAIN to => to.without \in Looks \union new
  PROVE  Looks' \subseteq Looks \union new
<1>1. call \in [Consumers -> Call]
  BY Shape
<1>2. call'[c] = to /\ \A d \in Consumers : d # c => call'[d] = call[d]
  BY <1>1 DEF Goto
<1>3. ASSUME NEW d \in Consumers, "without" \in DOMAIN call'[d]
      PROVE  call'[d].without \in Looks \union new
  <2>1. CASE d = c
    BY <1>2, <1>3, <2>1
  <2>2. CASE d # c
    BY <1>2, <1>3, <2>2 DEF Looks, Weighing
  <2> QED
    BY <2>1, <2>2
<1> QED
  BY <1>3 DEF Looks, Weighing

LEMMA LessLooks ==
  ASSUME Types, NEW c \in Consumers, Goto(c, Idle)
  PROVE  Looks' \subseteq Looks
<1>1. "without" \notin DOMAIN Idle
  BY DEF Idle
<1> HIDE DEF Idle
<1>2. Looks' \subseteq Looks \union {}
  BY <1>1, LooksGrow
<1> QED
  BY <1>2

LEMMA IsLook ==
  ASSUME NEW c \in Consumers, "without" \in DOMAIN call[c]
  PROVE  call[c].without \in Looks
BY DEF Looks, Weighing

\* A row that is passed over has a leader already.
LEMMA PassKept ==
  ASSUME IInv, NEW c \in Consumers, Skip(c)
  PROVE  Promise!Pass
<1>1. Types /\ Carries(c)
  BY DEF IInv, Carrying
<1>2. PICK k, best, without :
        /\ k = call[c].row /\ best = call[c].best /\ without = call[c].without
        /\ Elected(k, best, without) /\ best \in HaveLed
  BY <1>1 DEF Skip, Carries, Tells
<1>3. call[c] \in Numbering /\ k \in DOMAIN outbox
  BY <1>1, <1>2, Phases DEF Skip
<1>4. without \in Looks
  BY <1>2, <1>3, IsLook DEF Numbering
<1>5. Promise!Leads(best, k) /\ best \in Promise!HaveLed
  BY <1>1, <1>2, <1>3, <1>4, ElectedLeads, SameLed
<1>6. /\ UNCHANGED <<outbox, events>> /\ consumed' = consumed \union {k} /\ Goto(c, Idle)
  BY <1>2 DEF Skip, facts
<1>7. Looks' \subseteq Looks /\ Away' = Away
  BY <1>1, <1>6, LessLooks DEF Skip, facts, Away
<1>8. k \in DOMAIN Scored /\ Scored' = Scored /\ Timeline' = Timeline
  BY <1>3, <1>6 DEF Scored, Standing, Timeline, Entry
<1> QED
  BY <1>5, <1>6, <1>7, <1>8 DEF Promise!Pass, Scored, Timeline, Entry

LEMMA ElectKept ==
  ASSUME IInv, NEW c \in Consumers, Write(c), events' # events
  PROVE  Promise!Elect
<1>1. Types /\ Carries(c)
  BY DEF IInv, Carrying
<1>2. PICK k, event, best, without :
        /\ k = call[c].row /\ event = call[c].event /\ best = event.leader
        /\ without = call[c].without /\ Elected(k, best, without)
        /\ event.source = k /\ event.previous \in HaveLed \union {Nobody}
  BY <1>1 DEF Write, Carries
<1>3. call[c] \in Writing /\ event \in Event /\ k \in DOMAIN outbox
  BY <1>1, <1>2, Phases DEF Write, Writing
<1>4. /\ ~HasEvent(k) /\ events' = Append(events, event) /\ outbox' = outbox
      /\ consumed' = consumed \union {k} /\ Goto(c, Idle)
  BY <1>2 DEF Write, facts
<1>5. /\ Scored \in Seq(Scoring) /\ Len(Scored) = Len(outbox)
      /\ Timeline \in Seq(Entries) /\ Len(Timeline) = Len(events)
      /\ DOMAIN Scored = 1..Len(outbox) /\ DOMAIN Timeline = 1..Len(events)
      /\ Len(outbox) \in Nat /\ Len(events) \in Nat
      /\ DOMAIN outbox = 1..Len(outbox) /\ DOMAIN events = 1..Len(events)
  BY <1>1, Sight, Shape
<1>6. Promise!Leads(best, k)
  <2>1. without \in Looks
    BY <1>2, <1>3, IsLook DEF Writing
  <2> QED
    BY <1>1, <1>2, <1>3, <2>1, ElectedLeads
<1>7. k \in DOMAIN Scored /\ \A i \in DOMAIN Timeline : Timeline[i].source # k
  BY <1>3, <1>4, <1>5 DEF HasEvent, Timeline, Entry
<1>8. event.previous \in Promise!HaveLed \union {Promise!Nobody}
  BY <1>1, <1>2, SameLed
<1>9. best \in [attempt : Attempts, score : Scores]
  BY <1>2, <1>3 DEF Event, Scoring
<1>10. Looks' \subseteq Looks /\ Away' = Away
  BY <1>1, <1>4, LessLooks DEF Write, facts, Away
<1>11. Timeline' = Append(Timeline, [source |-> k, previous |-> event.previous,
                                     leader |-> best])
  <2> DEFINE x == Entry(event)
             longer == Append(Timeline, x)
  <2>1. x = [source |-> k, previous |-> event.previous, leader |-> best] /\ x \in Entries
    <3>1. x = [source |-> k, previous |-> event.previous, leader |-> best]
      BY <1>2 DEF Entry
    <3>2. event.source \in Nat /\ event.previous \in Anyone /\ event.leader \in Scoring
      BY <1>3, <1>5 DEF Event
    <3> QED
      BY <3>1, <3>2 DEF Entry, Entries
  <2>2. /\ DOMAIN longer = 1..(Len(events) + 1) /\ longer[Len(events) + 1] = x
        /\ \A i \in 1..Len(events) : longer[i] = Timeline[i]
        /\ longer = [i \in 1..(Len(events) + 1) |-> longer[i]]
    <3> HIDE DEF x, Entries, Timeline
    <3> QED
      BY <1>5, <2>1
  <2>3. /\ DOMAIN events' = 1..(Len(events) + 1) /\ events'[Len(events) + 1] = event
        /\ \A i \in 1..Len(events) : events'[i] = events[i]
    <3>1. events \in Seq(Event)
      BY <1>1 DEF Types
    <3> HIDE DEF Event
    <3> QED
      BY <1>3, <1>4, <3>1
  <2>4. Timeline' = [i \in 1..(Len(events) + 1) |-> Entry(events'[i])]
    BY <2>3 DEF Timeline, Entry
  <2>5. ASSUME NEW i \in 1..(Len(events) + 1)
        PROVE  Entry(events'[i]) = longer[i]
    <3>1. i \in 1..Len(events) \/ i = Len(events) + 1
      BY <1>5
    <3>2. CASE i \in 1..Len(events)
      <4>1. Timeline[i] = Entry(events[i])
        BY <1>5, <3>2 DEF Timeline
      <4> HIDE DEF longer
      <4> QED
        BY <2>2, <2>3, <3>2, <4>1
    <3>3. CASE i = Len(events) + 1
      <4> HIDE DEF longer
      <4> QED
        BY <2>2, <2>3, <3>3
    <3> QED
      BY <3>1, <3>2, <3>3
  <2> HIDE DEF longer
  <2>6. longer = [i \in 1..(Len(events) + 1) |-> Entry(events'[i])]
    BY <2>2, <2>5
  <2> QED
    BY <2>1, <2>4, <2>6 DEF longer
<1>12. Scored' = Scored
  BY <1>4 DEF Scored, Standing
<1>13. consumed' = consumed \union {k}
  BY <1>4
<1> HIDE DEF Promise!Leads
<1> QED
  BY <1>6, <1>7, <1>8, <1>9, <1>10, <1>11, <1>12, <1>13
     DEF Promise!Elect, Scored, Timeline, Entry

\* A step of a call that tells nothing: at most it looks who is away.
LEMMA LookUpKept ==
  ASSUME Types, NEW c \in Consumers, Consume(c) \/ Dies(c),
         UNCHANGED <<outbox, events, consumed>>
  PROVE  Promise!LookUp
<1>1. Away' = Away
  BY EventsStay DEF Away
<1>2. Looks' \subseteq Looks \union SUBSET Away
  <2>1. CASE Weigh(c)
    <3>1. PICK to : /\ Goto(c, to)
                    /\ "without" \in DOMAIN to => to.without \subseteq Away
      <4>1. call[c].row \in DOMAIN outbox /\ outbox \in Seq(OutboxRow)
        BY <2>1, Phases, Shape DEF Weigh
      <4>2. PICK k \in DOMAIN outbox : k = call[c].row
        BY <4>1
      <4>3. PICK without : without = {outbox[i].attempt : i \in Latest(k) \ Candidates(k)}
        OBVIOUS
      <4>4. without \subseteq Away
        <5>1. \A i \in DOMAIN outbox : outbox[i].attempt \in Attempts
          BY <4>1, StandingType DEF Standing, Scoring
        <5>2. \A i \in Latest(k) \ Candidates(k) :
                i \in DOMAIN outbox /\ status[outbox[i].attempt] # "completed"
          BY <4>1, RowsAreRows DEF Candidates
        <5> QED
          BY <4>3, <5>1, <5>2 DEF Away
      <4>5. CASE Candidates(k) = {}
        BY <2>1, <4>2, <4>5 DEF Weigh, Idle
      <4>6. CASE Candidates(k) # {}
        <5>1. \E best, comparable :
                Goto(c, [phase |-> "recall", row |-> k, best |-> best,
                         comparable |-> comparable, without |-> without])
          BY <2>1, <4>2, <4>3, <4>6 DEF Weigh
        <5> QED
          BY <4>4, <5>1
      <4> QED
        BY <4>5, <4>6
    <3> QED
      BY <3>1, LooksGrow
  <2>2. CASE Recall(c) \/ Number(c)
    <3>1. "without" \in DOMAIN call[c]
      BY <2>2, Phases DEF Recall, Number, Recalling, Numbering
    <3>2. PICK to : Goto(c, to) /\ to.without = call[c].without
      BY <2>2 DEF Recall, Number
    <3>3. Looks' \subseteq Looks \union {}
      BY <3>1, <3>2, IsLook, LooksGrow
    <3> QED
      BY <3>3
  <2>3. CASE Look(c) \/ Check(c)
    <3>1. PICK to : Goto(c, to) /\ "without" \notin DOMAIN to
      <4>1. CASE Look(c)
        <5>1. PICK k : Goto(c, [phase |-> "check", row |-> k])
          BY <4>1 DEF Look
        <5> QED
          BY <5>1
      <4>2. CASE Check(c)
        <5>1. Goto(c, Idle) \/ Goto(c, [phase |-> "weigh", row |-> call[c].row])
          BY <4>2 DEF Check
        <5> QED
          BY <5>1 DEF Idle
      <4> QED
        BY <2>3, <4>1, <4>2
    <3>2. Looks' \subseteq Looks \union {}
      BY <3>1, LooksGrow
    <3> QED
      BY <3>2
  <2>4. CASE Dies(c) \/ Skip(c) \/ Write(c)
    BY <2>4, LessLooks DEF Dies, Skip, Write
  <2> QED
    BY <2>1, <2>2, <2>3, <2>4 DEF Consume
<1> QED
  BY <1>1, <1>2 DEF Promise!LookUp, Standing

\* However many calls consume the outbox at once, every event names an attempt
\* that led when its row was weighed, and every row passed over one that has led;
\* the attempts that are no candidates then are left out.
THEOREM PromiseKept == Spec => KeepsPromise
<1> DEFINE Step == \/ Promise!Score \/ Promise!ComeAndGo \/ Promise!LookUp
                   \/ Promise!Elect \/ Promise!Pass
<1>1. Init => Promise!Init
  BY DEF Init, Promise!Init, Looks, Weighing, Idle, Away
<1>2. IInv /\ [Next]_vars => [Step]_Promise!vars
  <2> SUFFICES ASSUME IInv, [Next]_vars
               PROVE  [Step]_Promise!vars
    OBVIOUS
  <2>1. Types /\ Types' /\ Written
    BY NextTypes DEF IInv
  <2>2. ASSUME NEW a \in Attempts, AttemptStep(a)
        PROVE  Promise!Score \/ Promise!ComeAndGo
    <3>1. CASE outbox' = outbox
      <4>1. UNCHANGED <<outbox, events, consumed, call>>
        BY <2>1, <2>2, <3>1, StepOfAttempt
      <4>2. Looks' = Looks /\ Away' \in SUBSET Attempts
        BY <4>1 DEF Looks, Weighing, Away
      <4> QED
        BY <4>1, <4>2 DEF Promise!ComeAndGo, Standing
    <3>2. CASE outbox' # outbox
      BY <2>1, <2>2, <3>2, ScoreKept
    <3> QED
      BY <3>1, <3>2
  <2>3. ASSUME NEW c \in Consumers, Skip(c)
        PROVE  Promise!Pass
    BY <2>3, PassKept
  <2>4. ASSUME NEW c \in Consumers, Write(c), events' # events
        PROVE  Promise!Elect
    BY <2>4, ElectKept
  <2>5. ASSUME NEW c \in Consumers, Check(c)
        PROVE  UNCHANGED <<outbox, events, consumed>>
    <3>1. HasEvent(call[c].row) => call[c].row \in consumed
      BY <2>1 DEF Written, HasEvent
    <3> QED
      BY <2>5, <3>1 DEF Check, facts
  <2>6. ASSUME NEW c \in Consumers,
               \/ Dies(c) \/ Look(c) \/ Weigh(c) \/ Recall(c) \/ Number(c)
               \/ (Write(c) /\ events' = events)
        PROVE  UNCHANGED <<outbox, events, consumed>>
    <3>1. CASE Write(c) /\ events' = events
      <4>1. events' # Append(events, call[c].event)
        <5>1. events \in Seq(Event) /\ call[c].event \in Event
          BY <2>1, <3>1, Phases, Shape DEF Write, Writing
        <5> HIDE DEF Event
        <5>2. Len(Append(events, call[c].event)) = Len(events) + 1 /\ Len(events) \in Nat
          BY <5>1
        <5> QED
          BY <3>1, <5>2
      <4> QED
        BY <3>1, <4>1 DEF Write, facts
    <3> QED
      BY <2>6, <3>1 DEF Dies, Look, Weigh, Recall, Number, facts, board
  <2>7. ASSUME NEW c \in Consumers, Consume(c) \/ Dies(c)
        PROVE  Step
    <3>1. CASE UNCHANGED <<outbox, events, consumed>>
      BY <2>1, <2>7, <3>1, LookUpKept
    <3> HIDE DEF Step
    <3> QED
      BY <2>3, <2>4, <2>5, <2>6, <2>7, <3>1 DEF Consume, Step
  <2>8. CASE UNCHANGED vars
    BY <2>8 DEF vars, facts, board, Promise!vars, Standing, Away, Looks, Weighing
  <2> QED
    BY <2>2, <2>7, <2>8 DEF Next
<1> QED
  BY <1>1, <1>2, AlwaysInv, PTL DEF Spec, KeepsPromise, Promise!Spec
====
