---- MODULE CostKeys ----
(***************************************************************************)
(* The ephemeral key of one cost scope: the ledger row that is its lease,   *)
(* the upstream key, the credential in memory, the users that spend on it,  *)
(* and the settlements that price, disable and close it.                    *)
(*                                                                          *)
(* A scope is an attempt, with one user (its agent), or the judge of a run, *)
(* whose users are the scoring jobs of the run.  All of it runs on the      *)
(* event loop: a step is the code between two awaits.  Upstream, a key has  *)
(* a number of requests charged to it; a read of its usage is exact.        *)
(***************************************************************************)
EXTENDS Integers, FiniteSets

CONSTANTS
  Users,        \* who may spend in the scope
  Due,          \* those whose attempt is under way; the others are rejudges
  Scopes,       \* "attempt", "judge"
  Downgrades,   \* values of downgrade_on_key_failure
  MaxTries,     \* max_settle_attempts
  MaxUsed,      \* bound: requests on the key
  MaxEnds,      \* bound: projections of the attempt after its end
  MaxRestarts   \* bound: restarts

ASSUME CostKeysAssumption ==
  /\ IsFiniteSet(Users) /\ Due \subseteq Users
  /\ Scopes \subseteq {"attempt", "judge"}
  /\ Downgrades \subseteq BOOLEAN
  /\ {MaxTries, MaxUsed, MaxEnds, MaxRestarts} \subseteq Nat

VARIABLES
  scope,       \* rigid
  row,         \* the row of cost_key_ledgers
  made, used, keyOff,   \* upstream: keys created, requests charged, disabled
  credential,  \* run_credentials holds the key
  pc,          \* the users
  missed,      \* those whose rows are closed although they will still begin
  settle,      \* settlements under way: of the background scan, of the end
  ends, restarts,
  \* history
  strayed,     \* users that spent on another key
  aside        \* users that spend where no row says so: see Queue, Miss,
               \* Abandon and ResumedScores

upstream == <<made, used, keyOff>>
history == <<strayed, aside>>
bounds == <<ends, restarts>>
vars == <<scope, row, upstream, credential, pc, missed, settle, bounds, history>>

NoCost == -1
NoRow == [status |-> "absent", mode |-> "ephemeral_run_key", hash |-> FALSE,
          based |-> FALSE, creating |-> FALSE, cost |-> NoCost, tries |-> 0,
          disabled |-> "null"]
Idle == [phase |-> "idle"]
Settlers == {"scan", "end"}

Modes == {"ephemeral_run_key", "shared_key_upper_bound", "ephemeral_key_unbased",
          "partial_unattributed"}
Active == {"pending", "settling"}
Terminal == {"final", "upper_bound", "failed"}
OpenPc == {"due", "queued", "creating", "sampling", "waiting", "run", "fallback"}

\* _scope_finished: no execution, or no scoring, is open in the database.
WrongFinished == \A u \in Users \ missed : pc[u] \notin OpenPc \ {"due", "run"}
Finished == \A u \in Users \ missed : pc[u] \notin OpenPc

-----------------------------------------------------------------------------
(* Opening the key.                                                        *)

\* The user goes on with the row r, on the run's key if the credential c is
\* there and else on its own; a judge then marks the row (_mark_judge_unaudited).
Degraded(r, mode) == [r EXCEPT !.mode = mode, !.creating = FALSE]
WrongUnaudited(r) == r
Unaudited(r) == IF scope = "judge" /\ r.mode = "ephemeral_run_key"
                THEN Degraded(r, "partial_unattributed")
                ELSE r
Proceed(u, r, c) ==
  /\ credential' = c
  /\ IF c THEN /\ row' = r
               /\ pc' = [pc EXCEPT ![u] = "run"]
               /\ UNCHANGED strayed
     ELSE /\ row' = Unaudited(r)
          /\ pc' = [pc EXCEPT ![u] = "fallback"]
          /\ strayed' = strayed \union {u}

\* The user comes to open_key: the agent's task has its slot, or a scoring job is
\* there, after the attempt or for a rejudge.  The job opens the rows of a missed
\* attempt again.  What comes while a settlement is past its check is not seen by
\* it.
Queue(u) ==
  /\ pc[u] = (IF u \in Due THEN "due" ELSE "idle")
  /\ u \notin Due => scope = "judge"
  /\ pc' = [pc EXCEPT ![u] = "queued"]
  /\ missed' = IF scope = "judge" THEN missed \ {u} ELSE missed
  /\ aside' = IF \E s \in Settlers : settle[s] # Idle THEN aside \union {u}
              ELSE aside
  /\ UNCHANGED <<scope, row, upstream, credential, settle, bounds, strayed>>

\* open_key up to its first await: the row is the lease, whoever finds it uses
\* it or waits for the one that made it.
WrongLeased == row.status # "absent" /\ row.hash
Leased == row.status # "absent"
Open(u) ==
  /\ pc[u] = "queued"
  /\ IF ~Leased
     THEN /\ row' = [NoRow EXCEPT !.status = "pending", !.creating = TRUE]
          /\ pc' = [pc EXCEPT ![u] = "creating"]
          /\ UNCHANGED <<credential, strayed>>
     ELSE IF \/ row.status \notin Active
             \/ row.mode # "ephemeral_run_key"
             \/ credential
     THEN Proceed(u, row, credential)
     ELSE /\ pc' = [pc EXCEPT ![u] = "waiting"]
          /\ UNCHANGED <<row, credential, strayed>>
  /\ UNCHANGED <<scope, upstream, missed, settle, bounds, aside>>

CreateKey(u) ==
  /\ pc[u] = "creating"
  /\ made' = made + 1
  /\ pc' = [pc EXCEPT ![u] = "sampling"]
  /\ UNCHANGED <<scope, row, used, keyOff, credential, missed, settle, bounds, history>>

\* No key, or one whose answer is lost.  The row is degraded, or the error is
\* raised to a caller that goes on without.
CreateFails(u) ==
  /\ pc[u] = "creating"
  /\ made' \in {made, made + 1}
  /\ \E downgrade \in Downgrades :
       Proceed(u, IF downgrade THEN Degraded(row, "shared_key_upper_bound")
                  ELSE row, credential)
  /\ UNCHANGED <<scope, used, keyOff, missed, settle, bounds, aside>>

\* The row gets the key.  A first usage that is read leaves the mode that a
\* waiter may have given; one that is not overwrites it.
Unbased(r) == [Degraded(r, "ephemeral_key_unbased") EXCEPT !.hash = TRUE]
Based(r) == [r EXCEPT !.hash = TRUE, !.based = TRUE, !.creating = FALSE]
Register(u) ==
  /\ pc[u] = "sampling"
  /\ Proceed(u, Unbased(row), TRUE) \/ Proceed(u, Based(row), TRUE)
  /\ UNCHANGED <<scope, upstream, missed, settle, bounds, aside>>

\* _await_usable: one look at the row.
WaitEnds(u) ==
  /\ pc[u] = "waiting"
  /\ \/ credential \/ row.mode # "ephemeral_run_key"
     \/ row.hash /\ ~row.creating
  /\ Proceed(u, IF credential \/ row.mode # "ephemeral_run_key" THEN row
                ELSE Degraded(row, "partial_unattributed"), credential)
  /\ UNCHANGED <<scope, upstream, missed, settle, bounds, aside>>

WaitTimesOut(u) ==
  /\ pc[u] = "waiting"
  /\ Proceed(u, Degraded(row, "partial_unattributed"), credential)
  /\ UNCHANGED <<scope, upstream, missed, settle, bounds, aside>>

-----------------------------------------------------------------------------
(* Using it.                                                               *)

Spend(u) ==
  /\ pc[u] \in {"run", "ghost"} /\ ~keyOff /\ used < MaxUsed
  /\ used' = used + 1
  /\ UNCHANGED <<scope, row, made, keyOff, credential, pc, missed, settle, bounds,
                 history>>

Ends(u) ==
  /\ pc[u] \in {"run", "fallback", "ghost"}
  /\ pc' = [pc EXCEPT ![u] = "closed"]
  /\ UNCHANGED <<scope, row, upstream, credential, missed, settle, bounds, history>>

\* A stop that finds no task of a run closes the rows of its attempts all the
\* same: they begin later, whatever their rows say.  (A startup interrupts what
\* has not begun, so what is due after one is not missed.)
Miss(u) ==
  /\ pc[u] = "due" /\ u \notin missed /\ restarts = 0
  /\ missed' = missed \union {u}
  /\ aside' = IF scope = "attempt" THEN aside \union {u} ELSE aside
  /\ UNCHANGED <<scope, row, upstream, credential, pc, settle, bounds, strayed>>

\* A stop or a deadline closes the rows of a user: it dies at its await, but a
\* judge's thread, or an agent, goes on for a while.
Abandon(u) ==
  /\ pc[u] \in OpenPc
  /\ pc' = [pc EXCEPT ![u] = IF @ = "run" THEN "ghost" ELSE "closed"]
  /\ made' \in IF pc[u] = "creating" THEN {made, made + 1} ELSE {made}
  /\ aside' = IF pc[u] = "run" THEN aside \union {u} ELSE aside
  /\ UNCHANGED <<scope, row, used, keyOff, credential, missed, settle, bounds, strayed>>

\* An attempt resumed by a startup is judged by its own task: with the run's
\* key if it happens to be there, and without a word to the row if it is not.
ResumedScores(u) ==
  /\ scope = "judge" /\ restarts > 0 /\ pc[u] = "due"
  /\ IF credential
     THEN pc' = [pc EXCEPT ![u] = "run"] /\ UNCHANGED history
     ELSE /\ pc' = [pc EXCEPT ![u] = "fallback"]
          /\ strayed' = strayed \union {u}
          /\ aside' = aside \union {u}
  /\ UNCHANGED <<scope, row, upstream, credential, missed, settle, bounds>>

-----------------------------------------------------------------------------
(* Settling it.                                                            *)

\* settle_key up to its first await.  Without a key there is nothing to read.
Settle(s) ==
  IF row.hash
  THEN /\ row' = [row EXCEPT !.status = "settling"]
       /\ settle' = [settle EXCEPT ![s] = [phase |-> "polling", mode |-> row.mode,
                                           based |-> row.based]]
       /\ UNCHANGED credential
  ELSE /\ row' = [row EXCEPT !.status = "upper_bound"]
       /\ credential' = FALSE
       /\ UNCHANGED settle

\* The background scan.  A lease is stale after 300 s: no creator lives so long.
WrongStale == row.status = "settling" /\ ~row.hash /\ row.creating
Stale ==
  /\ ~row.hash /\ row.creating
  /\ \A u \in Users : pc[u] \notin {"creating", "sampling"}

ScanLease ==
  /\ settle["scan"] = Idle /\ row.status \in Active
  /\ Stale
  /\ row' = [row EXCEPT !.status = "failed"]
  /\ UNCHANGED <<scope, upstream, credential, pc, missed, settle, bounds, history>>

WrongExhausted == row.tries > MaxTries
Exhausted == row.tries >= MaxTries

ScanSettles ==
  /\ settle["scan"] = Idle /\ row.status \in Active
  /\ row.hash \/ ~row.creating
  /\ Finished
  /\ IF Exhausted
     THEN row' = [row EXCEPT !.status = "failed"] /\ UNCHANGED <<credential, settle>>
     ELSE Settle("scan")
  /\ UNCHANGED <<scope, upstream, pc, missed, bounds, history>>

\* _schedule_attempt_settle, at each projection on the event loop of an attempt
\* whose task has ended: the projections of a stop and of a sweep come from
\* threads without a loop, and schedule nothing.
EndSettles ==
  /\ scope = "attempt" /\ settle["end"] = Idle /\ row.status \in Active
  /\ \A u \in Users : pc[u] \notin OpenPc
  /\ ends < MaxEnds /\ ends' = ends + 1
  /\ Settle("end")
  /\ UNCHANGED <<scope, upstream, pc, missed, restarts, history>>

PollFails(s) ==
  /\ settle[s].phase = "polling"
  /\ row' = [row EXCEPT !.tries = @ + 1]
  /\ settle' = [settle EXCEPT ![s] = Idle]
  /\ UNCHANGED <<scope, upstream, credential, pc, missed, bounds, history>>

\* The usage is stable.
PollReturns(s) ==
  /\ settle[s].phase = "polling"
  /\ settle' = [settle EXCEPT ![s] = [phase |-> "disabling", mode |-> @.mode,
                                      based |-> @.based, usage |-> used]]
  /\ UNCHANGED <<scope, row, upstream, credential, pc, missed, bounds, history>>

\* disable_key takes effect upstream, if it does.
Disable(s) ==
  /\ settle[s].phase = "disabling"
  /\ \E off \in {keyOff, TRUE}, answer \in {"yes", "no"} :
       /\ answer = "yes" => off
       /\ keyOff' = off
       /\ settle' = [settle EXCEPT ![s] = [phase |-> "closing", mode |-> @.mode,
                        based |-> @.based, usage |-> @.usage, disabled |-> answer]]
  /\ UNCHANGED <<scope, row, made, used, credential, pc, missed, bounds, history>>

\* What is written depends on the row as it was when the settlement began.
Verdict(snap) ==
  CASE snap.mode = "ephemeral_run_key" /\ snap.based -> "final"
    [] snap.mode = "ephemeral_run_key" /\ ~snap.based -> "failed"
    [] snap.mode = "ephemeral_key_unbased"           -> "failed"
    [] OTHER                                         -> "upper_bound"

Closed(r, snap) ==
  [r EXCEPT !.status = Verdict(snap), !.disabled = snap.disabled,
            !.cost = IF Verdict(snap) # "failed" /\ snap.based THEN snap.usage ELSE @]
Close(s) ==
  /\ settle[s].phase = "closing"
  /\ row' = IF row.status = "settling" THEN Closed(row, settle[s]) ELSE row
  /\ credential' = FALSE
  /\ settle' = [settle EXCEPT ![s] = Idle]
  /\ UNCHANGED <<scope, upstream, pc, missed, bounds, history>>

\* _list_failed_disables, and the retry by the scan.
WrongStillEnabled == row.status = "final" /\ row.hash /\ row.disabled = "no"
StillEnabled == row.status \in Terminal /\ row.hash /\ row.disabled = "no"
RetryDisable ==
  /\ settle["scan"] = Idle /\ StillEnabled
  /\ keyOff' = TRUE
  /\ row' = [row EXCEPT !.disabled = "yes"]
  /\ UNCHANGED <<scope, made, used, credential, pc, missed, settle, bounds, history>>

-----------------------------------------------------------------------------
\* The plain text of the key is gone.  Scoring jobs are queued again; an agent
\* that was started may live on (in a judge scope: the attempt before its
\* scoring, unless its row is closed), one that was not is interrupted.
Outliving(u) == IF scope = "judge" THEN pc[u] = "due" /\ u \notin missed
                ELSE pc[u] \in {"run", "fallback"}

Restart ==
  /\ restarts < MaxRestarts
  /\ restarts' = restarts + 1
  /\ credential' = FALSE
  /\ settle' = [s \in Settlers |-> Idle]
  /\ made' \in {made} \union {made + 1 : u \in {v \in Users : pc[v] = "creating"}}
  /\ \E alive \in SUBSET {u \in Users : Outliving(u)} :
       pc' = [u \in Users |->
         IF pc[u] \notin OpenPc \union {"ghost"} \/ u \in alive THEN pc[u]
         ELSE IF scope = "judge" /\ pc[u] \notin {"due", "ghost"} THEN "queued"
         ELSE "closed"]
  /\ UNCHANGED <<scope, row, used, keyOff, missed, ends, history>>

Init ==
  /\ scope \in Scopes
  /\ row = NoRow
  /\ made = 0 /\ used = 0 /\ keyOff = FALSE
  /\ credential = FALSE
  /\ \E due \in SUBSET Due :
       /\ due # {}
       /\ scope = "attempt" => Cardinality(due) = 1
       /\ pc = [u \in Users |-> IF u \in due THEN "due"
                                ELSE IF u \in Due THEN "closed" ELSE "idle"]
  /\ settle = [s \in Settlers |-> Idle]
  /\ ends = 0 /\ restarts = 0
  /\ missed = {}
  /\ strayed = {} /\ aside = {}

UserStep(u) ==
  \/ Open(u) \/ CreateKey(u) \/ CreateFails(u) \/ Register(u)
  \/ WaitEnds(u) \/ WaitTimesOut(u)

SettleStep(s) == PollFails(s) \/ PollReturns(s) \/ Disable(s) \/ Close(s)

Next ==
  \/ \E u \in Users : \/ UserStep(u) \/ Queue(u) \/ Spend(u) \/ Ends(u)
                      \/ Miss(u) \/ Abandon(u) \/ ResumedScores(u)
  \/ ScanLease \/ ScanSettles \/ EndSettles
  \/ \E s \in Settlers : SettleStep(s)
  \/ RetryDisable \/ Restart

\* The loop runs its tasks, the scan comes round, attempts and judges end, and
\* the upstream grants a disable in the end.
Fairness ==
  /\ \A u \in Users : /\ WF_vars(UserStep(u)) /\ WF_vars(Ends(u))
                      /\ WF_vars(u \in Due /\ Queue(u))
  /\ WF_vars(ScanLease) /\ WF_vars(ScanSettles)
  /\ \A s \in Settlers : WF_vars(SettleStep(s))
  /\ WF_vars(RetryDisable)

Spec == Init /\ [][Next]_vars /\ Fairness

-----------------------------------------------------------------------------
(* Properties.                                                             *)

\* Types: in particular the tries of the settlements stay bounded although two
\* of them count.
TypeOK ==
  /\ scope \in Scopes
  /\ row \in [status : Active \union Terminal \union {"absent"}, mode : Modes,
              hash : BOOLEAN, based : BOOLEAN, creating : BOOLEAN,
              cost : {NoCost} \union (0..MaxUsed), tries : 0..(MaxTries + MaxEnds),
              disabled : {"null", "yes", "no"}]
  /\ made \in Nat /\ used \in 0..MaxUsed
  /\ {keyOff, credential} \subseteq BOOLEAN
  /\ pc \in [Users -> OpenPc \union {"idle", "closed", "ghost"}]
  /\ DOMAIN settle = Settlers
  /\ \A s \in Settlers : settle[s].phase \in {"idle", "polling", "disabling", "closing"}
  /\ ends \in 0..MaxEnds /\ restarts \in 0..MaxRestarts
  /\ missed \subseteq Users /\ strayed \subseteq Users /\ aside \subseteq Users

\* A scope never has two upstream keys, of which one would be nobody's: not by
\* two jobs that open it at once, a lost answer, or a restart.
OneKeyPerScope == made <= 1

\* An auditable cost is the whole cost: nobody spent on another key, and every
\* request on this one is in it.  Exempt is what the rows do not show: a job that
\* comes while a settlement runs, a thread that outlives its job, the synchronous
\* judge of a resumed attempt, and the agent of an attempt that a stop missed.
AuditableIsComplete ==
  (row.status = "final" /\ row.mode = "ephemeral_run_key") =>
    /\ strayed \subseteq aside
    /\ aside = {} => row.cost = used

\* "only keys that spend no more are settled" (scan_ledgers_once): a key is not
\* disabled under a user that spends on it, with the same exemptions.
KeyNotCut ==
  [][keyOff' /\ ~keyOff => \A u \in Users \ aside : pc[u] # "run"]_vars

\* The ledger never stays open: leases left behind, polls that fail and
\* settlements cut by a restart all come to an end.
LedgerEnds == row.status \in Active ~> row.status \in Terminal

\* A priced key does not stay usable, although its first disable may fail.
PricedKeyIsDisabled ==
  (row.status \in {"final", "upper_bound"} /\ row.hash) ~> keyOff
====
