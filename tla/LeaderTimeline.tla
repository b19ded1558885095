---- MODULE LeaderTimeline ----
(***************************************************************************)
(* The leader of one scope (a cell of an experiment): attempts are scored,  *)
(* rejudged, stopped; each commit of a score appends a row to the outbox;   *)
(* consume_score_outbox turns rows into the events of the timeline.         *)
(*                                                                         *)
(* A consumer is a call of consume_score_outbox on a thread: by a scoring   *)
(* job after its commit, by the startup or by the reconciliation.  It reads *)
(* in autocommit mode, so each of its SELECTs is a step and sees what was   *)
(* committed by then; only its INSERT and the mark of the row are one       *)
(* transaction.                                                            *)
(***************************************************************************)
EXTENDS Integers, FiniteSets, Sequences

CONSTANTS
  Attempts,    \* numbers, ordered as their ids are
  Scores,
  Prints,      \* scorer_fingerprint
  Consumers,   \* calls of consume_score_outbox under way at once
  MaxTurns     \* bound: rejudges, and rows a stop or a sweep finds open

ASSUME LeaderAssumption ==
  /\ Attempts \subseteq Nat \ {0} /\ IsFiniteSet(Attempts)
  /\ Scores \subseteq Nat
  /\ MaxTurns \in Nat

VARIABLES
  status,     \* attempts.status
  verdict,    \* execution_status, "none" while it is open
  work,       \* what may still write for the attempt
  found,      \* what the SELECT of a stop or a sweep found open
  outbox,     \* the rows of the scope, by seq
  consumed,   \* rows with consumed_at
  events,     \* leader_events, by sequence
  call,       \* the consumers
  rejudges, closes,
  \* history
  late        \* attempts that were closed before their work was over

facts == <<status, verdict, work, found, outbox, rejudges, closes, late>>
board == <<consumed, events>>
vars == <<facts, board, call>>

Nobody == [attempt |-> 0, score |-> 0]
Idle == [phase |-> "idle"]

\* TERMINAL_ATTEMPT_STATUSES; "failed" stands for those without a score, and
\* "completed" also for gave_up.
Terminal == {"completed", "failed", "cancelled"}
Verdicts == {"none", "completed", "failed", "cancelled"}

-----------------------------------------------------------------------------
(* The attempts.                                                           *)

ExecutionEnds(a) ==
  /\ work[a] = "execution"
  /\ \E v \in {"completed", "failed"} :
       /\ verdict' = [verdict EXCEPT ![a] = v]
       /\ \/ /\ status' = [status EXCEPT ![a] = "scoring"]
             /\ work' = [work EXCEPT ![a] = "judge"]
          \/ /\ v = "failed"
             /\ status' = [status EXCEPT ![a] = "failed"]
             /\ work' = [work EXCEPT ![a] = "none"]
  /\ UNCHANGED <<found, outbox, rejudges, closes, late, board, call>>

\* commit_scoring_result stores with the row whether every attempt of the
\* run's cell has ended.
WrongScopeTerminal(statuses) == \A a \in Attempts : statuses[a] # "open"
ScopeTerminal(statuses) == \A a \in Attempts : statuses[a] \in Terminal

Commit(a) ==
  /\ work[a] = "judge"
  /\ status' = [status EXCEPT ![a] = "completed"]
  /\ work' = [work EXCEPT ![a] = "none"]
  /\ \E s \in Scores, f \in Prints :
       outbox' = Append(outbox, [attempt |-> a, score |-> s, print |-> f,
                                 terminal |-> ScopeTerminal(status')])
  /\ UNCHANGED <<verdict, found, rejudges, closes, late, board, call>>

\* _finish_failure: no row, and no notification.
ScoringFails(a) ==
  /\ work[a] = "judge"
  /\ status' = [status EXCEPT ![a] = IF verdict[a] = "cancelled" THEN "failed"
                                     ELSE verdict[a]]
  /\ work' = [work EXCEPT ![a] = "none"]
  /\ UNCHANGED <<verdict, found, outbox, rejudges, closes, late, board, call>>

\* A stop or a sweep cancels the work, which may be on a thread already or
\* unknown to it, and reads the row.
Close(a) ==
  /\ status[a] \in {"open", "scoring"} /\ found[a] = "nothing"
  /\ found' = [found EXCEPT ![a] = status[a]]
  /\ work' \in {work, [work EXCEPT ![a] = "none"]}
  /\ rejudges + closes < MaxTurns /\ closes' = closes + 1
  /\ UNCHANGED <<status, verdict, outbox, rejudges, late, board, call>>

\* It writes what it found open, whatever the row says by now.  "cancelled"
\* stands for every status it gives; a sweep leaves the execution "failed".
Closes(a) ==
  /\ found[a] # "nothing"
  /\ found' = [found EXCEPT ![a] = "nothing"]
  /\ status' = [status EXCEPT ![a] = "cancelled"]
  /\ \E v \in {"cancelled", "failed"} :
       verdict' = IF found[a] = "open" THEN [verdict EXCEPT ![a] = v] ELSE verdict
  /\ late' = IF work[a] # "none" THEN late \union {a} ELSE late
  /\ UNCHANGED <<work, outbox, rejudges, closes, board, call>>

\* The execution, or the scoring job, of a closed attempt begins all the same.
Begins(a) ==
  /\ work[a] # "none" /\ status[a] \in Terminal
  /\ IF work[a] = "execution"
     THEN /\ status' = [status EXCEPT ![a] = "open"]
          /\ verdict' = [verdict EXCEPT ![a] = "none"]
     ELSE /\ status' = [status EXCEPT ![a] = "scoring"]
          /\ UNCHANGED verdict
  /\ UNCHANGED <<work, found, outbox, rejudges, closes, late, board, call>>

Rejudge(a) ==
  /\ verdict[a] \in {"completed", "failed"}
  /\ work[a] = "none" /\ status[a] # "scoring"
  /\ rejudges + closes < MaxTurns /\ rejudges' = rejudges + 1
  /\ status' = [status EXCEPT ![a] = "scoring"]
  /\ work' = [work EXCEPT ![a] = "judge"]
  /\ UNCHANGED <<verdict, found, outbox, closes, late, board, call>>

-----------------------------------------------------------------------------
(* consume_score_outbox.                                                   *)

\* Rows up to k of attempts that a later one of these does not replace.
Latest(k) == {i \in 1..k :
  \A j \in i + 1 .. k : outbox[j].attempt # outbox[i].attempt}

\* _candidates_through
Candidates(k) == {i \in Latest(k) : status[outbox[i].attempt] = "completed"}

\* _rank
Ahead(x, y) == \/ x.score > y.score
               \/ x.score = y.score /\ x.attempt >= y.attempt
Standing(i) == [attempt |-> outbox[i].attempt, score |-> outbox[i].score]
Standings(rows) == {Standing(i) : i \in rows}
Best(field) == CHOOSE x \in field : \A y \in field : Ahead(x, y)

PrintsOf(rows) == {outbox[i].print : i \in rows}

Leader == IF events = <<>> THEN Nobody ELSE events[Len(events)].leader

Goto(c, to) == call' = [call EXCEPT ![c] = to]

\* ORDER BY seq
First(rows) == {k \in rows : \A j \in rows : k <= j}

\* A call, or its loop, begins: the first row that is not consumed; the next step
\* asks whether it has an event, as it has when another call was faster.
Look(c) ==
  /\ call[c] = Idle
  /\ LET left == DOMAIN outbox \ consumed IN
     \E k \in First(left) : Goto(c, [phase |-> "check", row |-> k])
  /\ UNCHANGED <<facts, board>>

HasEvent(k) == \E i \in DOMAIN events : events[i].source = k

Check(c) ==
  /\ call[c].phase = "check"
  /\ LET k == call[c].row IN
     IF HasEvent(k)
     THEN consumed' = consumed \union {k} /\ Goto(c, Idle)
     ELSE Goto(c, [phase |-> "weigh", row |-> k]) /\ UNCHANGED consumed
  /\ UNCHANGED <<facts, events>>

\* Without candidates max() raises.
Weigh(c) ==
  LET k == call[c].row
      rows == Candidates(k)
  IN
  /\ call[c].phase = "weigh"
  /\ Goto(c, IF rows = {} THEN Idle
             ELSE [phase |-> "recall", row |-> k, best |-> Best(Standings(rows)),
                   comparable |-> Cardinality(PrintsOf(rows)) = 1,
                   without |-> {outbox[i].attempt : i \in Latest(k) \ rows}])
  /\ UNCHANGED <<facts, board>>

\* The reason for an event of the call c, given the leader so far; "none" if
\* there is none.
WrongReason(c, leader) ==
  IF ~call[c].comparable THEN "incomparable"
  ELSE IF outbox[call[c].row].terminal THEN "scope-finalized"
  ELSE IF leader = Nobody THEN "first"
  ELSE IF leader.attempt # call[c].best.attempt THEN "upgrade" ELSE "none"
Reason(c, leader) ==
  LET final == outbox[call[c].row].terminal
      best == call[c].best
  IN
  IF ~call[c].comparable THEN "incomparable"
  ELSE IF final THEN "scope-finalized"
  ELSE IF leader = Nobody THEN "first"
  ELSE IF leader.attempt # best.attempt THEN "upgrade"
  ELSE IF leader.score # best.score THEN "rejudge" ELSE "none"

\* Is there something to tell?
WrongTells(reason) == TRUE
Tells(reason) == reason # "none"

\* The last event is read, then the number of the next one.
Recall(c) ==
  /\ call[c].phase = "recall"
  /\ Goto(c, [phase |-> "number", row |-> call[c].row, best |-> call[c].best,
              previous |-> Leader, reason |-> Reason(c, Leader),
              without |-> call[c].without])
  /\ UNCHANGED <<facts, board>>

Number(c) ==
  /\ call[c].phase = "number" /\ Tells(call[c].reason)
  /\ Goto(c, [phase |-> "write", row |-> call[c].row, number |-> Len(events) + 1,
              event |-> [source |-> call[c].row, previous |-> call[c].previous,
                         leader |-> call[c].best, reason |-> call[c].reason,
                         provisional |-> ~outbox[call[c].row].terminal],
              without |-> call[c].without])
  /\ UNCHANGED <<facts, board>>

\* The row is consumed without an event.
Skip(c) ==
  /\ call[c].phase = "number" /\ ~Tells(call[c].reason)
  /\ consumed' = consumed \union {call[c].row}
  /\ Goto(c, Idle)
  /\ UNCHANGED <<facts, events>>

\* The event and the mark.  A second event of the row, or of its number, is an
\* IntegrityError.
Write(c) ==
  /\ call[c].phase = "write"
  /\ IF HasEvent(call[c].row) \/ call[c].number # Len(events) + 1
     THEN Goto(c, Idle) /\ UNCHANGED <<consumed, events>>
     ELSE /\ events' = Append(events, call[c].event)
          /\ consumed' = consumed \union {call[c].row}
          /\ Goto(c, Idle)
  /\ UNCHANGED facts

\* The process ends under the call; what it wrote was committed.
Dies(c) ==
  /\ call[c] # Idle
  /\ Goto(c, Idle)
  /\ UNCHANGED <<facts, board>>

-----------------------------------------------------------------------------
Init ==
  /\ status = [a \in Attempts |-> "open"]
  /\ verdict = [a \in Attempts |-> "none"]
  /\ work = [a \in Attempts |-> "execution"]
  /\ found = [a \in Attempts |-> "nothing"]
  /\ outbox = <<>> /\ events = <<>>
  /\ consumed = {} /\ late = {}
  /\ call = [c \in Consumers |-> Idle]
  /\ rejudges = 0 /\ closes = 0

AttemptStep(a) == \/ ExecutionEnds(a) \/ Commit(a) \/ ScoringFails(a)
                  \/ Close(a) \/ Closes(a) \/ Begins(a) \/ Rejudge(a)

Consume(c) == Look(c) \/ Check(c) \/ Weigh(c) \/ Recall(c) \/ Number(c) \/ Skip(c) \/ Write(c)

Next ==
  \/ \E a \in Attempts : AttemptStep(a)
  \/ \E c \in Consumers : Consume(c) \/ Dies(c)

Spec == Init /\ [][Next]_vars

-----------------------------------------------------------------------------
(* Properties.                                                             *)

\* Types; in particular an attempt whose execution is open is not judged, and
\* every event has a reason.
TypeOK ==
  /\ status \in [Attempts -> Terminal \union {"open", "scoring"}]
  /\ verdict \in [Attempts -> Verdicts]
  /\ work \in [Attempts -> {"execution", "judge", "none"}]
  /\ found \in [Attempts -> {"nothing", "open", "scoring"}]
  /\ \A a \in Attempts : status[a] = "scoring" => verdict[a] # "none"
  /\ outbox \in Seq([attempt : Attempts, score : Scores, print : Prints,
                     terminal : BOOLEAN])
  /\ consumed \subseteq DOMAIN outbox
  /\ events \in Seq([source : DOMAIN outbox, previous : [attempt : Nat, score : Nat],
                     leader : [attempt : Attempts, score : Scores],
                     reason : {"incomparable", "scope-finalized", "first",
                               "upgrade", "rejudge"},
                     provisional : BOOLEAN])
  /\ \A c \in Consumers : "row" \in DOMAIN call[c] => call[c].row \in DOMAIN outbox
  /\ late \subseteq Attempts
  /\ rejudges \in 0..MaxTurns /\ closes \in 0..MaxTurns

\* Once an event says that the scope is final, the scores that come after it
\* are of rejudges, and of attempts that were closed before their work was over.
FinalIsFinal ==
  \A i \in DOMAIN events :
    ~events[i].provisional =>
      Len(outbox) - events[i].source <= rejudges + Cardinality(late)

\* The attempts that are no candidates, and those each call under way found so.
Away == {a \in Attempts : status[a] # "completed"}
Weighing == {c \in Consumers : "without" \in DOMAIN call[c]}
Looks == {call[c].without : c \in Weighing}

\* However many calls consume the outbox, the timeline does what LeaderPromise
\* says.
Promise == INSTANCE LeaderPromise WITH
  scored <- [i \in DOMAIN outbox |-> Standing(i)],
  settled <- consumed,
  timeline <- [i \in DOMAIN events |->
    [source |-> events[i].source, previous |-> events[i].previous,
     leader |-> events[i].leader]],
  away <- Away, looks <- Looks
KeepsPromise == Promise!Spec
====
