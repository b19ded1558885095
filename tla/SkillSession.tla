---- MODULE SkillSession ----
(***************************************************************************)
(* One run of a skill evaluation: its row, messages, questions and jobs in  *)
(* the database, the worker's tasks that carry the jobs to the remote       *)
(* session, the reconciliation of jobs whose lease has lapsed, and the      *)
(* requests of the user.                                                    *)
(*                                                                          *)
(* The tasks and the reconciliation share the event loop: one of them runs  *)
(* from an await to the next, and Turn keeps the others still.  Requests    *)
(* run in threads and a crash comes at any time, so both may cut in between *)
(* two transactions.  The runtime is used as worker.py uses it.             *)
(***************************************************************************)
EXTENDS Integers, FiniteSets

CONSTANTS
  Slots,        \* tasks of the worker (max_active_runs)
  Attached,     \* the messages with an attachment
  MaxMessages,  \* bound: messages of the run
  MaxStops,     \* bound: stops of a generation
  MaxCollects,  \* bound: collections asked for after the end
  MaxRestarts   \* bound: shutdowns and crashes

ASSUME SkillSessionAssumption ==
  /\ IsFiniteSet(Slots)
  /\ MaxMessages \in Nat \ {0}
  /\ {MaxStops, MaxCollects, MaxRestarts} \subseteq Nat

Messages == 1 .. MaxMessages
Gens == 1 .. MaxMessages
Jobs == 1 .. MaxMessages + 1 + MaxCollects + MaxRestarts

VARIABLES
  run,       \* the row of skill_eval_runs; a session and a skill are refs
  msg,       \* skill_eval_messages, by seq
  question,  \* skill_eval_interactions, by the generation that asked
  job,       \* skill_eval_jobs, by rowid
  trigger,   \* skill_eval_generations: the message each one delivers
  task,      \* tasks of Worker.active
  rec,       \* Recovery.reconcile, in the loop of the worker
  up,        \* the process: "up" or "closing"
  creates,   \* external: the number of sessions created
  remote,    \* external: the generations of the session
  used       \* how much of each bound is used up

rows == <<run, msg, question, job, trigger>>
vars == <<rows, task, rec, up, creates, remote, used>>

Terminal == {"completed", "failed", "cancelled"}
AtWork == {"running", "reconciling"}

\* A checkpoint: the remote write that is open, or "rest".
Rest == [phase |-> "rest", gen |-> 0]
Started(cp) == cp.phase # "rest"

NoMessage == [state |-> "none", answers |-> 0, since |-> 0]
NoJob == [phase |-> "none", state |-> "none", msg |-> 0, gen |-> 0,
          owner |-> "none", lapsed |-> FALSE, cp |-> Rest]
Pending(phase, m, g) ==
  [NoJob EXCEPT !.phase = phase, !.state = "pending", !.msg = m, !.gen = g]
Idle == [pc |-> "idle", job |-> 0, gen |-> 0, cp |-> Rest, seen |-> FALSE,
         told |-> FALSE, token |-> <<FALSE, 0>>, quiet |-> FALSE]
NoRec == [pc |-> "idle", job |-> 0, cp |-> Rest, accepted |-> FALSE]

\* Points where a task waits: it can be overtaken there, or cancelled.
Awaits == {"create", "upload", "chat", "watch", "history", "collect", "gather"}
Parked(t) == task[t].pc \in Awaits \union {"idle", "begin"}
LoopFree == (\A t \in Slots : Parked(t)) /\ rec.pc # "taken"
Turn(t, pc) ==
  /\ task[t].pc = pc
  /\ \A u \in Slots \ {t} : Parked(u)
  /\ rec.pc # "taken"

Accepted(g) == remote[g] \in {"running", "paused", "done", "stopped"}
Ended(g) == Accepted(g) /\ remote[g] # "running"
\* runtime.session: the state of the generation under way, or of the last one.
SessionStatus ==
  IF \E g \in Gens : remote[g] = "running" THEN "running"
  ELSE IF \A g \in Gens : ~Accepted(g) THEN "idle"
  ELSE remote[CHOOSE g \in Gens :
                Accepted(g) /\ \A h \in Gens : Accepted(h) => h <= g]
Stopped(g) == [remote EXCEPT ![g] = IF @ = "running" THEN "stopped" ELSE @]

\* The least element of S, if there is one: the oldest row, or the next to come.
First(S) == {i \in S : \A j \in S : i <= j}
NextMessage == First({m \in Messages : msg[m] = NoMessage})
NextJob == First({j \in Jobs : job[j] = NoJob})
NextGen == First({g \in Gens : trigger[g] = 0})
Use(bound, max) == used[bound] < max /\ used' = [used EXCEPT ![bound] = @ + 1]

\* run_status after a turn: it waits for an answer while a question is pending.
WaitingFor(q) ==
  IF \E g \in Gens : q[g] = "pending" THEN "waiting_input" ELSE "waiting_continue"
WrongAfterTurn(paused) ==
  IF run.finish THEN "finishing"
  ELSE IF paused THEN "paused" ELSE "waiting_continue"
AfterTurn(paused) ==
  IF run.finish THEN "finishing"
  ELSE IF paused THEN "waiting_input" ELSE "waiting_continue"
WrongReopened(who) ==
  [g \in Gens |-> IF question[g] \in {"answering", "answered"} /\ g \in who
                  THEN "pending" ELSE question[g]]
Reopened(who) ==
  [g \in Gens |-> IF question[g] = "answering" /\ g \in who THEN "pending"
                  ELSE question[g]]

-----------------------------------------------------------------------------
(* Tasks of the worker.                                                     *)

GoTo(t, pc) == task' = [task EXCEPT ![t].pc = pc]
Job(t) == job[task[t].job]
Owned(t) == Job(t).owner = "me"

\* _uncertain: the handler of an error and of a cancellation.
Verdict(t, open, closed) == IF Started(task[t].cp) THEN open ELSE closed
Raise(t) ==
  LET j == task[t].job  m == job[j].msg IN
  /\ task' = [task EXCEPT ![t] = Idle]
  /\ IF Owned(t)
     THEN /\ job' = [job EXCEPT ![j].state = Verdict(t, "acceptance_unknown", "failed"),
                                ![j].owner = "none"]
          /\ run' = [run EXCEPT !.status = "failed", !.gen = "failed"]
          /\ msg' = IF m # 0 /\ msg[m].state # "sent"
                    THEN [msg EXCEPT ![m].state = Verdict(t, "unknown", "failed")]
                    ELSE msg
     ELSE UNCHANGED <<job, run, msg>>

\* checkpoint: written under the owner's name only.
Checkpoint(t, cp, pc) ==
  IF Owned(t)
  THEN /\ job' = [job EXCEPT ![task[t].job].cp = cp]
       /\ task' = [task EXCEPT ![t].cp = cp, ![t].pc = pc]
       /\ UNCHANGED <<run, msg>>
  ELSE Raise(t)

\* One job at a time for the run, the oldest first.
Waiting == {j \in Jobs : job[j].state = "pending"}
WrongClaimable == First(Waiting)
Claimable ==
  IF \E j \in Jobs : job[j].state \in AtWork THEN {} ELSE First(Waiting)
Claim(t) ==
  /\ up = "up" /\ LoopFree /\ rec.pc = "idle" /\ task[t].pc = "idle"
  /\ \E j \in Claimable :
     /\ job' = [job EXCEPT ![j].state = "running", ![j].owner = "me",
                           ![j].lapsed = FALSE]
     /\ task' = [task EXCEPT ![t] = [Idle EXCEPT !.pc = "begin", !.job = j,
                                                 !.gen = job[j].gen,
                                                 !.cp = job[j].cp]]
  /\ UNCHANGED <<run, msg, question, trigger, rec, up, creates, remote, used>>

\* execute: the phase of the job; a message nobody wants is not sent.
Unwanted == run.finish \/ run.status \in Terminal
NeverStarted == \A j \in Jobs : ~Started(job[j].cp)
Begin(t) ==
  /\ Turn(t, "begin")
  /\ LET phase == Job(t).phase IN
     task' = [task EXCEPT
       ![t].pc = CASE phase \in {"prepare", "message"} /\ Unwanted -> "unsent"
                   [] phase = "prepare" /\ ~Unwanted -> "prepare"
                   [] phase = "message" /\ ~Unwanted -> "deliver"
                   [] phase = "observe" -> "open_chat"
                   [] phase \in {"finish", "collect"} ->
                        IF run.session THEN "collect" ELSE "fix",
       ![t].quiet = ~run.session /\ NeverStarted]
  /\ UNCHANGED <<rows, rec, up, creates, remote, used>>

CancelUnsent(t) ==
  /\ Turn(t, "unsent")
  /\ msg' = [msg EXCEPT ![Job(t).msg].state =
               IF @ = "pending" THEN "cancelled" ELSE @]
  /\ GoTo(t, "complete")
  /\ UNCHANGED <<run, question, job, trigger, rec, up, creates, remote, used>>

\* prepare: a session, then the skill, each unless the run has it.
AfterSession == IF run.skill THEN "deliver" ELSE "open_upload"
Prepare(t) ==
  /\ Turn(t, "prepare")
  /\ run' = [run EXCEPT !.status = "preparing"]
  /\ GoTo(t, IF run.session THEN AfterSession ELSE "open_create")
  /\ UNCHANGED <<msg, question, job, trigger, rec, up, creates, remote, used>>

\* The checkpoint before a remote write.  A subscription counts as a chat.
Opening == {"open_create", "open_upload", "open_chat"}
OpenAt(t, pc, phase, gen, next) ==
  Turn(t, pc) /\ Checkpoint(t, [phase |-> phase, gen |-> gen], next)
Open(t) ==
  /\ \/ OpenAt(t, "open_create", "create", 0, "create")
     \/ OpenAt(t, "open_upload", "upload", 0, "upload")
     \/ OpenAt(t, "open_chat", "chat", task[t].gen,
               IF Job(t).phase = "observe" THEN "watch" ELSE "chat")
  /\ UNCHANGED <<question, trigger, rec, up, creates, remote, used>>

\* The checkpoint after it.  The session may have another model than asked for.
CloseAt(t, pc, next) ==
  Turn(t, pc) /\ Checkpoint(t, [task[t].cp EXCEPT !.phase = "rest"], next)
Close(t) ==
  /\ \/ CloseAt(t, "created", AfterSession)
     \/ CloseAt(t, "uploaded", "deliver")
     \/ CloseAt(t, "ended", "turn")
     \/ Turn(t, "created") /\ Raise(t)
  /\ UNCHANGED <<question, trigger, rec, up, creates, remote, used>>

CreateSession(t) ==
  /\ Turn(t, "create")
  /\ creates' = creates + 1
  /\ run' = [run EXCEPT !.session = TRUE]
  /\ GoTo(t, "created")
  /\ UNCHANGED <<msg, question, job, trigger, rec, up, remote, used>>

\* The skill, in prepare, or the attachment of the message.
Upload(t) ==
  /\ Turn(t, "upload")
  /\ run' = IF Job(t).phase = "prepare" /\ ~run.skill
            THEN [run EXCEPT !.skill = TRUE]
            ELSE [run EXCEPT !.inputs = @ \union {Job(t).msg}]
  /\ GoTo(t, "uploaded")
  /\ UNCHANGED <<msg, question, job, trigger, rec, up, creates, remote, used>>

\* deliver, up to the upload of the attachment.
WrongLacking(t) == Job(t).msg \in Attached /\ run.inputs = {}
Lacking(t) == Job(t).msg \in Attached \ run.inputs
Undeliverable(t) == msg[Job(t).msg].state \in {"sent", "unknown"} \/ ~run.session
Deliver(t) ==
  /\ Turn(t, "deliver")
  /\ IF Undeliverable(t) THEN Raise(t)
     ELSE /\ GoTo(t, IF Lacking(t) THEN "open_upload" ELSE "start")
          /\ UNCHANGED <<run, msg, job>>
  /\ UNCHANGED <<question, trigger, rec, up, creates, remote, used>>

\* The last look at the stop before the message goes out.
Halted == run.stop # 0 /\ ~run.finish
StartGeneration(t) ==
  LET m == Job(t).msg IN
  /\ Turn(t, "start")
  /\ \/ /\ Halted
        /\ msg' = [msg EXCEPT ![m].state = "cancelled"]
        /\ question' = Reopened({msg[m].answers})
        /\ run' = [run EXCEPT !.status = WaitingFor(question'),
                              !.gen = "stopped", !.stop = 0]
        /\ GoTo(t, "complete")
        /\ UNCHANGED trigger
     \/ \E g \in NextGen :
        /\ ~Halted
        /\ msg' = [msg EXCEPT ![m].state = "sending"]
        /\ trigger' = [trigger EXCEPT ![g] = m]
        /\ run' = [run EXCEPT !.status = IF run.finish THEN "finishing" ELSE "active",
                              !.gen = "running", !.stop = 0]
        /\ task' = [task EXCEPT ![t].pc = "open_chat", ![t].gen = g]
        /\ UNCHANGED question
  /\ UNCHANGED <<job, rec, up, creates, remote, used>>

Send(t) ==
  /\ Turn(t, "chat")
  /\ remote[task[t].gen] = "none"
  /\ remote' = [remote EXCEPT ![task[t].gen] = "sent"]
  /\ UNCHANGED <<rows, task, rec, up, creates, used>>

\* chat:start, in two transactions.
ChatStarts(t) ==
  /\ Turn(t, "chat")
  /\ Accepted(task[t].gen) /\ ~task[t].seen
  /\ run' = [run EXCEPT !.chat = task[t].gen]
  /\ task' = [task EXCEPT ![t].pc = "started", ![t].seen = TRUE]
  /\ UNCHANGED <<msg, question, job, trigger, rec, up, creates, remote, used>>

ChatAccepted(t) ==
  /\ Turn(t, "started")
  /\ msg' = [msg EXCEPT ![Job(t).msg].state = "sent"]
  /\ GoTo(t, "chat")
  /\ UNCHANGED <<run, question, job, trigger, rec, up, creates, remote, used>>

\* controls: a stop for the generation that has been accepted, once for each
\* request; it may fail.
Target(t) == IF task[t].pc = "watch" THEN run.chat
             ELSE IF task[t].seen THEN task[t].gen ELSE 0
Control(t) ==
  LET token == <<run.finish, run.stop>> IN
  /\ task[t].pc \in {"chat", "watch"} /\ LoopFree
  /\ Target(t) # 0 /\ ~task[t].told
  /\ token # task[t].token /\ (run.finish \/ run.stop # 0)
  /\ \E told \in BOOLEAN :
       /\ task' = [task EXCEPT ![t].token = token, ![t].told = told]
       /\ remote' = IF told THEN Stopped(Target(t)) ELSE remote
  /\ UNCHANGED <<rows, rec, up, creates, used>>

\* The end of the generation is seen, in the stream or by the subscription.
SeeEnd(t) ==
  /\ \/ Turn(t, "chat") /\ task[t].seen /\ GoTo(t, "ended")
     \/ Turn(t, "watch") /\ GoTo(t, "turn")
  /\ Ended(task[t].gen)
  /\ UNCHANGED <<rows, rec, up, creates, remote, used>>

\* _generation_end.  A pause without the data of its question asks nothing.
GenerationEnd(t) ==
  LET g == task[t].gen  m == Job(t).msg  paused == remote[g] = "paused" IN
  /\ Turn(t, "turn")
  /\ \E asked \in IF paused THEN BOOLEAN ELSE {FALSE} :
       question' = [h \in Gens |->
         IF h = msg[m].answers THEN "answered"
         ELSE IF h = g /\ asked /\ question[h] = "none" THEN "pending"
         ELSE question[h]]
  /\ msg' = [msg EXCEPT ![m].state = "sent"]
  /\ run' = [run EXCEPT
       !.status = AfterTurn(paused),
       !.gen = CASE remote[g] = "paused" -> "paused"
                 [] remote[g] = "stopped" -> "stopped"
                 [] OTHER -> "completed",
       !.stop = 0]
  /\ GoTo(t, "history")
  /\ UNCHANGED <<job, trigger, rec, up, creates, remote, used>>

Complete(t) ==
  /\ Turn(t, "complete") \/ Turn(t, "history")
  /\ job' = IF Owned(t) THEN [job EXCEPT ![task[t].job].state = "completed",
                                         ![task[t].job].owner = "none"]
            ELSE job
  /\ task' = [task EXCEPT ![t] = Idle]
  /\ UNCHANGED <<run, msg, question, trigger, rec, up, creates, remote, used>>

\* collect: is the session quiet, and a stop for the generation if it is not.
Quiet == SessionStatus # "running"
Collect(t) ==
  /\ Turn(t, "collect")
  /\ \/ \E quiet \in {FALSE, Quiet} :
          task' = [task EXCEPT ![t].pc = IF quiet THEN "gather" ELSE "fix",
                               ![t].quiet = quiet]
        /\ UNCHANGED remote
     \/ /\ run.chat # 0 /\ remote[run.chat] = "running"
        /\ remote' = Stopped(run.chat)
        /\ UNCHANGED task
  /\ UNCHANGED <<rows, rec, up, creates, used>>

Gather(t) ==
  /\ Turn(t, "gather")
  /\ GoTo(t, "fix")
  /\ UNCHANGED <<rows, rec, up, creates, remote, used>>

\* The result is fixed: a run that failed keeps its failure.
Final(t) == IF run.status \in {"failed", "cancelled"} THEN run.status
            ELSE IF task[t].quiet THEN "completed" ELSE "failed"
Fix(t) ==
  /\ Turn(t, "fix")
  /\ IF Owned(t)
     THEN /\ run' = [run EXCEPT !.status = Final(t)]
          /\ question' = [g \in Gens |->
               IF question[g] \in {"pending", "answering"} THEN "closed"
               ELSE question[g]]
          /\ GoTo(t, "complete")
          /\ UNCHANGED <<msg, job>>
     ELSE Raise(t) /\ UNCHANGED question
  /\ UNCHANGED <<trigger, rec, up, creates, remote, used>>

\* An await raises, or the closing worker cancels it.  The last history and the
\* state of a session to collect are read under a handler of their own.  A
\* create may have been accepted; a stream that closes may stop its generation.
Interrupted(t) ==
  /\ task[t].pc \in Awaits /\ LoopFree
  /\ task[t].pc \in {"history", "collect"} => up = "closing"
  /\ creates' \in IF task[t].pc = "create" THEN {creates, creates + 1} ELSE {creates}
  /\ remote' \in IF task[t].pc = "chat" THEN {remote, Stopped(task[t].gen)}
                 ELSE {remote}
  /\ Raise(t)
  /\ UNCHANGED <<question, trigger, rec, up, used>>

-----------------------------------------------------------------------------
(* Recovery.reconcile: a job that is running and whose lease has lapsed.    *)

WrongLapsed(j) == job[j].state = "running" /\ job[j].lapsed /\ job[j].owner = "me"
Lapsed(j) == job[j].state = "running" /\ job[j].lapsed

\* The rows are read at once and handled one after the other, so that the
\* checkpoint read here may be old when its turn comes.
Scan ==
  /\ up = "up" /\ LoopFree /\ rec.pc = "idle"
  /\ \E j \in Jobs :
       /\ Lapsed(j)
       /\ rec' = [NoRec EXCEPT !.pc = "chosen", !.job = j, !.cp = job[j].cp]
  /\ UNCHANGED <<rows, task, up, creates, remote, used>>

TakeOver ==
  /\ rec.pc = "chosen" /\ LoopFree
  /\ IF Lapsed(rec.job)
     THEN /\ job' = [job EXCEPT ![rec.job].state = "reconciling",
                                ![rec.job].owner = "none"]
          /\ rec' = [rec EXCEPT !.pc = "taken"]
     ELSE rec' = NoRec /\ UNCHANGED job
  /\ UNCHANGED <<run, msg, question, trigger, task, up, creates, remote, used>>

Outcome(state) == job' = [job EXCEPT ![rec.job].state = state]
Unknown(gen) ==
  /\ Outcome("acceptance_unknown")
  /\ run' = [run EXCEPT !.status = "failed", !.gen = gen]
  /\ rec' = NoRec

\* Nothing was sent, or only what may be sent again.
WrongSafe(m) == ~Started(rec.cp) \/ run.session
Safe(m) ==
  /\ ~Started(rec.cp) \/ (run.session /\ rec.cp.phase \in {"create", "upload"})
  /\ m = 0 \/ msg[m].state = "pending"
Decide ==
  LET row == job[rec.job] IN
  /\ rec.pc = "taken" /\ \A t \in Slots : Parked(t)
  /\ IF ~run.session /\ Started(rec.cp) THEN Unknown(run.gen)
     ELSE IF row.phase \in {"finish", "collect"} \/ Safe(row.msg)
     THEN Outcome("pending") /\ rec' = NoRec /\ UNCHANGED run
     ELSE IF run.session
     THEN /\ rec' = [rec EXCEPT !.pc = "query",
                                !.accepted = msg[row.msg].state = "sent"]
          /\ UNCHANGED <<run, job>>
     ELSE Unknown("failed")
  /\ UNCHANGED <<msg, question, trigger, task, up, creates, remote, used>>

\* The session or its history cannot be read.
QueryFails ==
  /\ rec.pc = "query" /\ LoopFree
  /\ Unknown(run.gen)
  /\ UNCHANGED <<msg, question, trigger, task, up, creates, remote, used>>

\* The generation is still under way: a job of its own goes on observing it.
RecGen == IF rec.cp.gen # 0 THEN rec.cp.gen ELSE job[rec.job].gen
Observable == SessionStatus = "running" /\ RecGen # 0 /\ run.chat # 0
Observe ==
  /\ rec.pc = "query" /\ LoopFree
  /\ rec.accepted /\ Observable
  /\ \E n \in NextJob :
       job' = [job EXCEPT ![rec.job].state = "completed",
                          ![n] = Pending("observe", job[rec.job].msg, RecGen)]
  /\ rec' = NoRec
  /\ UNCHANGED <<run, msg, question, trigger, task, up, creates, remote, used>>

\* The turn is over: the session waits again, with the question if it is found.
Restore ==
  LET paused == SessionStatus = "paused" IN
  /\ rec.pc = "query" /\ LoopFree
  /\ rec.accepted /\ SessionStatus # "running"
  /\ Outcome("completed")
  /\ \E found \in IF paused THEN BOOLEAN ELSE {FALSE} :
       question' = IF found /\ question[run.chat] = "none"
                         /\ WaitingFor(question) # "waiting_input"
                   THEN [question EXCEPT ![run.chat] = "pending"]
                   ELSE question
  /\ run' = [run EXCEPT !.status = AfterTurn(paused),
                        !.gen = IF paused THEN "paused" ELSE "completed"]
  /\ rec' = NoRec
  /\ UNCHANGED <<msg, trigger, task, up, creates, remote, used>>

NotReplayed ==
  /\ rec.pc = "query" /\ LoopFree
  /\ ~rec.accepted \/ (SessionStatus = "running" /\ ~Observable)
  /\ Unknown("failed")
  /\ UNCHANGED <<msg, question, trigger, task, up, creates, remote, used>>

-----------------------------------------------------------------------------
(* Requests.                                                                *)

TakesRequests == up = "up" /\ run.status \notin Terminal /\ ~run.finish

\* send_message: a follow-up, or the answer to the question of generation a.
SendMessage ==
  /\ TakesRequests /\ run.status \notin {"queued", "preparing"}
  /\ \E a \in Gens \union {0}, m \in NextMessage, n \in NextJob :
       /\ IF a = 0 THEN run.status # "waiting_input" ELSE question[a] = "pending"
       /\ question' = IF a = 0 THEN question
                      ELSE [question EXCEPT ![a] = "answering"]
       /\ msg' = [msg EXCEPT ![m] =
                    [state |-> "pending", answers |-> a, since |-> used.stop]]
       /\ job' = [job EXCEPT ![n] = Pending("message", m, 0)]
  /\ run' = [run EXCEPT !.gen = "queued"]
  /\ UNCHANGED <<trigger, task, rec, up, creates, remote, used>>

\* stop_generation.
Queued == run.gen = "queued" \/ run.status \in {"queued", "preparing"}
WrongNobodyAtWork == \A j \in Jobs : job[j].state # "reconciling"
NobodyAtWork == \A j \in Jobs : job[j].state \notin AtWork
CancelQueue ==
  /\ msg' = [m \in Messages |-> IF msg[m].state = "pending"
                                THEN [msg[m] EXCEPT !.state = "cancelled"]
                                ELSE msg[m]]
  /\ job' = [j \in Jobs |->
       IF job[j].state = "pending" /\ job[j].phase \in {"prepare", "message"}
       THEN [job[j] EXCEPT !.state = "completed"] ELSE job[j]]
  /\ question' = Reopened(Gens)
  /\ run' = [run EXCEPT
       !.status = IF run.status = "queued" THEN "cancelled" ELSE WaitingFor(question'),
       !.gen = "stopped"]
RecordStop ==
  /\ run' = IF Queued \/ run.gen \in {"running", "stopping"}
            THEN [run EXCEPT !.stop = used.stop + 1, !.gen = "stopping"] ELSE run
  /\ UNCHANGED <<msg, question, job>>
StopGeneration ==
  /\ up = "up" /\ run.status \notin Terminal
  /\ Use("stop", MaxStops)
  /\ IF Queued /\ NobodyAtWork THEN CancelQueue ELSE RecordStop
  /\ UNCHANGED <<trigger, task, rec, up, creates, remote>>

Finish ==
  /\ TakesRequests
  /\ run' = [run EXCEPT !.status = "finishing", !.finish = TRUE]
  /\ \E n \in NextJob : job' = [job EXCEPT ![n] = Pending("finish", 0, 0)]
  /\ UNCHANGED <<msg, question, trigger, task, rec, up, creates, remote, used>>

Recollect ==
  /\ up = "up" /\ run.status \in Terminal
  /\ Use("collect", MaxCollects)
  /\ \E n \in NextJob : job' = [job EXCEPT ![n] = Pending("collect", 0, 0)]
  /\ UNCHANGED <<run, msg, question, trigger, task, rec, up, creates, remote>>

-----------------------------------------------------------------------------
(* The remote service, the leases and the process.                          *)

RemoteAccepts(g) ==
  /\ remote[g] = "sent"
  /\ remote' = [remote EXCEPT ![g] = "running"]
  /\ UNCHANGED <<rows, task, rec, up, creates, used>>

RemoteEnds(g) ==
  /\ remote[g] = "running"
  /\ \E e \in {"done", "paused"} : remote' = [remote EXCEPT ![g] = e]
  /\ UNCHANGED <<rows, task, rec, up, creates, used>>

\* A process at work renews the leases of its jobs; nobody renews those of one
\* that is gone.
LeaseLapses(j) ==
  /\ job[j].state = "running" /\ job[j].owner = "dead" /\ ~job[j].lapsed
  /\ job' = [job EXCEPT ![j].lapsed = TRUE]
  /\ UNCHANGED <<run, msg, question, trigger, task, rec, up, creates, remote, used>>

\* The next process has another name than the one that owns these jobs.
Orphaned == [j \in Jobs |-> IF job[j].owner = "me"
                            THEN [job[j] EXCEPT !.owner = "dead"] ELSE job[j]]
Crash ==
  /\ Use("restart", MaxRestarts)
  /\ up' = "up"
  /\ task' = [t \in Slots |-> Idle]
  /\ rec' = NoRec
  /\ job' = Orphaned
  /\ creates' \in {creates} \union {creates + 1 : t \in {u \in Slots : task[u].pc = "create"}}
  /\ UNCHANGED <<run, msg, question, trigger, remote>>

\* The loop of the worker is cancelled, a reconciliation with it; then close
\* cancels its tasks, each at the point where it waits.
Shutdown ==
  /\ up = "up" /\ LoopFree
  /\ Use("restart", MaxRestarts)
  /\ up' = "closing"
  /\ rec' = NoRec
  /\ UNCHANGED <<rows, task, creates, remote>>

Start ==
  /\ up = "closing" /\ \A t \in Slots : task[t].pc = "idle"
  /\ up' = "up"
  /\ job' = Orphaned
  /\ UNCHANGED <<run, msg, question, trigger, task, rec, creates, remote, used>>

-----------------------------------------------------------------------------
\* create_run.
Init ==
  /\ run = [status |-> "queued", gen |-> "idle", finish |-> FALSE, stop |-> 0,
            session |-> FALSE, skill |-> FALSE, inputs |-> {}, chat |-> 0]
  /\ msg = [m \in Messages |-> IF m = 1 THEN [NoMessage EXCEPT !.state = "pending"]
                               ELSE NoMessage]
  /\ question = [g \in Gens |-> "none"]
  /\ job = [j \in Jobs |-> IF j = 1 THEN Pending("prepare", 1, 0) ELSE NoJob]
  /\ trigger = [g \in Gens |-> 0]
  /\ task = [t \in Slots |-> Idle]
  /\ rec = NoRec
  /\ up = "up"
  /\ creates = 0
  /\ remote = [g \in Gens |-> "none"]
  /\ used = [stop |-> 0, collect |-> 0, restart |-> 0]

TaskStep(t) ==
  \/ Begin(t) \/ CancelUnsent(t) \/ Prepare(t) \/ Open(t) \/ Close(t)
  \/ CreateSession(t) \/ Upload(t) \/ Deliver(t) \/ StartGeneration(t)
  \/ Send(t) \/ ChatStarts(t) \/ ChatAccepted(t) \/ SeeEnd(t) \/ GenerationEnd(t)
  \/ Collect(t) \/ Gather(t) \/ Fix(t) \/ Complete(t) \/ Interrupted(t)
RecStep ==
  Scan \/ TakeOver \/ Decide \/ QueryFails \/ Observe \/ Restore \/ NotReplayed

Next ==
  \/ \E t \in Slots :
       Claim(t) \/ TaskStep(t) \/ Control(t)
  \/ RecStep
  \/ SendMessage \/ StopGeneration \/ Finish \/ Recollect
  \/ \E g \in Gens : RemoteAccepts(g) \/ RemoteEnds(g)
  \/ \E j \in Jobs : LeaseLapses(j)
  \/ Crash \/ Shutdown \/ Start

Spec == Init /\ [][Next]_vars

\* The loop of the worker turns, its awaits end, and the lease of a process
\* that is gone runs out.
FairSpec ==
  /\ Spec
  /\ WF_vars(\E t \in Slots : Claim(t))
  /\ \A t \in Slots : WF_vars(TaskStep(t))
  /\ WF_vars(RecStep)
  /\ WF_vars(\E j \in Jobs : LeaseLapses(j))
  /\ WF_vars(Start)

-----------------------------------------------------------------------------
\* The types of the rows, of the tasks and of the reconciliation.
Cp == [phase : {"rest", "create", "upload", "chat"}, gen : Gens \union {0}]
RunRow ==
  [status : Terminal \union {"queued", "preparing", "active", "finishing",
                             "waiting_input", "waiting_continue"},
   gen : {"idle", "queued", "running", "stopping", "paused", "stopped", "completed",
          "failed"},
   finish : BOOLEAN, stop : 0 .. MaxStops, session : BOOLEAN, skill : BOOLEAN,
   inputs : SUBSET Messages, chat : Gens \union {0}]
MessageRow ==
  [state : {"none", "pending", "sending", "sent", "unknown", "failed", "cancelled"},
   answers : Gens \union {0}, since : 0 .. MaxStops]
JobRow ==
  [phase : {"none", "prepare", "message", "observe", "finish", "collect"},
   state : AtWork \union {"none", "pending", "completed", "failed",
                          "acceptance_unknown"},
   msg : Messages \union {0}, gen : Gens \union {0},
   owner : {"none", "me", "dead"}, lapsed : BOOLEAN, cp : Cp]
TaskRow ==
  [pc : Awaits \union Opening \union {"created", "uploaded", "ended"} \union
        {"idle", "begin", "unsent", "prepare", "deliver", "start", "started", "turn",
         "complete", "fix"},
   job : Jobs \union {0}, gen : Gens \union {0}, cp : Cp, seen : BOOLEAN,
   told : BOOLEAN, token : BOOLEAN \X (0 .. MaxStops), quiet : BOOLEAN]
TypeOK ==
  /\ run \in RunRow
  /\ msg \in [Messages -> MessageRow]
  /\ question \in [Gens -> {"none", "pending", "answering", "answered", "closed"}]
  /\ job \in [Jobs -> JobRow]
  /\ trigger \in [Gens -> Messages \union {0}]
  /\ task \in [Slots -> TaskRow]
  /\ rec \in [pc : {"idle", "chosen", "taken", "query"}, job : Jobs \union {0},
              cp : Cp, accepted : BOOLEAN]
  /\ up \in {"up", "closing"}
  /\ creates \in Nat
  /\ remote \in [Gens -> {"none", "sent", "running", "paused", "done", "stopped"}]
  /\ used \in [stop : 0 .. MaxStops, collect : 0 .. MaxCollects,
               restart : 0 .. MaxRestarts]

\* Whatever is interrupted and resumed, a run has one session and no message is
\* sent twice.
Deliveries(m) == {g \in Gens : trigger[g] = m /\ remote[g] # "none"}
NothingReplayed ==
  /\ creates <= 1
  /\ \A m \in Messages : Cardinality(Deliveries(m)) <= 1

\* A task at work owns its job, and it is the only one that acts on the run:
\* no other task does, and no reconciliation.
OneWriter ==
  \A t \in Slots : task[t].pc # "idle" =>
    /\ Job(t).state = "running" /\ Owned(t)
    /\ \A u \in Slots \ {t} : task[u].pc = "idle"
    /\ rec.pc \notin {"taken", "query"}

\* A message goes out after its session and its attachment, and not in a run that
\* is over, also when the delivery was resumed after a crash.
SentWhole ==
  [][\A g \in Gens : remote[g] = "none" /\ remote'[g] = "sent" =>
       /\ run.status \notin Terminal
       /\ run.session
       /\ {trigger[g]} \intersect Attached \subseteq run.inputs]_vars

\* While the run waits for its user, the remote session does not work, as long as
\* no job had to be resumed.
WaitingIsQuiet ==
  used.restart = 0 /\ run.status \in {"waiting_input", "waiting_continue"} =>
    \A g \in Gens : remote[g] # "running"

\* A finish that is asked for ends the run.
FinishServed ==
  (\E j \in Jobs : job[j].phase = "finish" /\ job[j].state \in AtWork \union {"pending"})
    ~> run.status \in Terminal

\* Statements of the documents that the code does not keep; no run checks them,
\* README tells how each one fails.  The first three need a restart to fail.

\* No message is sent into a generation that is under way.
Serial ==
  [][\A g \in Gens : remote[g] = "none" /\ remote'[g] = "sent" =>
       \A h \in Gens : remote[h] # "running"]_vars

\* A run that is completed has left nothing under way in the remote session.
CompletedIsQuiet ==
  run.status = "completed" => \A g \in Gens : remote[g] \notin {"sent", "running"}

\* A run that failed or was cancelled stays so.
FailureStays ==
  [][run.status \in {"failed", "cancelled"} => run'.status = run.status]_vars

\* The skill is in the session before the first prompt is.
SkillBeforeChat == \A g \in Gens : remote[g] # "none" => run.skill

\* A message that was posted before a stop and is not sent yet is not sent.
StopCancelsQueue ==
  [][\A g \in Gens : trigger[g] # trigger'[g] => msg[trigger'[g]].since = used.stop]_vars

\* A collection asked for again leaves a completed run completed.
CompletedStays == [][run.status = "completed" => run'.status = "completed"]_vars

\* A question whose answer was sent is not asked again.
AnsweredOnce ==
  \A m \in Messages : msg[m].state = "sent" /\ msg[m].answers # 0 =>
    question[msg[m].answers] # "pending"
====
