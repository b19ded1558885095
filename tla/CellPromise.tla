---- MODULE CellPromise ----
(***************************************************************************)
(* What a run group promises, without coordinator, tasks and rows: a cell   *)
(* waits, is open and closes; an agent is started at most once per attempt, *)
(* never for a cell that waits; a closed cell never waits again, and only a *)
(* cell for which nothing was started is put back to wait.                  *)
(***************************************************************************)
EXTENDS Naturals

CONSTANTS Cells, Attempts   \* an attempt is <<cell, index>>

VARIABLES phase, starts
vars == <<phase, starts>>

Init ==
  /\ phase = [c \in Cells |-> "waiting"]
  /\ starts = [a \in Attempts |-> 0]

Untouched(c) == \A a \in Attempts : a[1] = c => starts[a] = 0

\* Several cells may move at once: a stop and a startup do that.
Moves(c, to) ==
  \/ phase[c] = "waiting" /\ to \in {"open", "closed"}
  \/ phase[c] = "open" /\ to = "closed"
  \/ phase[c] = "open" /\ to = "waiting" /\ Untouched(c)
  \/ phase[c] = "closed" /\ to = "open"   \* a projection read before it closed

Move ==
  /\ \E next \in [Cells -> {"waiting", "open", "closed"}] :
       /\ \A c \in Cells : next[c] = phase[c] \/ Moves(c, next[c])
       /\ phase' = next
  /\ UNCHANGED starts

StartAgent ==
  /\ \E a \in Attempts : /\ starts[a] = 0 /\ phase[a[1]] # "waiting"
                         /\ starts' = [starts EXCEPT ![a] = 1]
  /\ UNCHANGED phase

Spec == Init /\ [][Move \/ StartAgent]_vars
====
