---- MODULE LeaderPromise ----
(***************************************************************************)
(* What the leader timeline of a scope promises: scores arrive one after    *)
(* the other, and each is settled.  It gets one entry, which names the best *)
(* of the attempts scored by then, by their latest scores, and who led when *)
(* it was written or before; or it is passed over, because an entry names   *)
(* that best already.  Attempts that are away, being judged again or closed *)
(* by a stop, when someone looks up who is there, need not be compared with *)
(* by whoever looked.  In what order the scores are settled is not promised.*)
(***************************************************************************)
EXTENDS Integers, Sequences

CONSTANTS Attempts,  \* numbers: of two equal scores the higher one leads
          Scores

VARIABLES
  scored, settled, timeline,
  away,    \* attempts without a standing
  looks    \* whom those who are about to elect found away
vars == <<scored, settled, timeline, away, looks>>

Nobody == [attempt |-> 0, score |-> 0]

Init == /\ scored = <<>> /\ settled = {} /\ timeline = <<>>
        /\ away = Attempts /\ looks = {}

Score ==
  /\ \E a \in Attempts, s \in Scores :
       /\ scored' = Append(scored, [attempt |-> a, score |-> s])
       /\ away' = away \ {a}
  /\ UNCHANGED <<settled, timeline, looks>>

ComeAndGo == /\ away' \in SUBSET Attempts
             /\ UNCHANGED <<scored, settled, timeline, looks>>

\* Someone looks, or forgets what was seen.
LookUp == /\ \A seen \in looks' : seen \in looks \/ seen \subseteq away
          /\ UNCHANGED <<scored, settled, timeline, away>>

\* The latest scores among the first k: no later one of the same attempt.
Latest(k) == {scored[i] : i \in {j \in 1..k :
                \A l \in j + 1 .. k : scored[l].attempt # scored[j].attempt}}

Ahead(x, y) == \/ x.score > y.score
               \/ x.score = y.score /\ x.attempt >= y.attempt

Leads(x, k) ==
  /\ x \in Latest(k)
  /\ \E seen \in looks :
       \A y \in Latest(k) : y.attempt \in seen \/ Ahead(x, y)

HaveLed == {timeline[i].leader : i \in DOMAIN timeline}

Elect ==
  /\ \E k \in DOMAIN scored, best \in [attempt : Attempts, score : Scores] :
       /\ \A i \in DOMAIN timeline : timeline[i].source # k
       /\ Leads(best, k)
       /\ settled' = settled \union {k}
       /\ \E previous \in HaveLed \union {Nobody} :
            timeline' = Append(timeline, [source |-> k, previous |-> previous,
                                          leader |-> best])
  /\ looks' \subseteq looks
  /\ UNCHANGED <<scored, away>>

Pass ==
  /\ \E k \in DOMAIN scored : /\ \E best \in HaveLed : Leads(best, k)
                              /\ settled' = settled \union {k}
  /\ looks' \subseteq looks
  /\ UNCHANGED <<scored, timeline, away>>

Spec == Init /\ [][Score \/ ComeAndGo \/ LookUp \/ Elect \/ Pass]_vars
====
