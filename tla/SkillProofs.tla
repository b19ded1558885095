---- MODULE SkillProofs ----
(***************************************************************************)
(* For any slots, messages and bounds: the types of SkillSession, that only *)
(* one task or reconciliation acts on the run at a time, and that no        *)
(* message, nor the session, is sent twice or without what it needs.        *)
(***************************************************************************)
EXTENDS SkillSession, FiniteSetTheorems, TLAPS

\* Phases of a job that concern a message, and those that deliver it.
Delivering == {"prepare", "message"}
Watching == Delivering \union {"observe"}
\* Places of a task before its message goes out, and around its chat.
Creating == {"prepare", "open_create", "create"}
Before == Creating \union {"unsent", "created", "open_upload", "upload", "uploaded",
                           "deliver", "start"}
Chatting == {"chat", "started", "ended"}
Busy(t) == task[t].pc # "idle"

\* A job and the place of its task fit each other.
Kinds ==
  /\ \A j \in Jobs :
       /\ job[j].state # "none" => job[j].phase # "none"
       /\ job[j].phase \in Watching => job[j].msg \in Messages
       /\ job[j].phase = "prepare" => j = 1
  /\ \A t \in Slots : Busy(t) =>
       /\ task[t].job \in Jobs
       /\ task[t].pc \in Before \union Chatting => Job(t).phase \in Delivering
       /\ task[t].pc \in {"open_chat", "watch", "turn"} => Job(t).phase \in Watching
       /\ task[t].pc \in Creating => Job(t).phase = "prepare"
  /\ rec.pc # "idle" => rec.job \in Jobs
  /\ rec.pc = "query" => job[rec.job].phase \in Watching /\ run.session

\* A task holds its job, a reconciliation another one or none, and one job is at work.
Writer ==
  /\ \A t \in Slots : Busy(t) =>
       /\ Job(t).state = "running" /\ Owned(t) /\ ~Job(t).lapsed
       /\ task[t].cp = Job(t).cp
  /\ \A t, u \in Slots : Busy(t) /\ Busy(u) => t = u
  /\ \A i, j \in Jobs : job[i].state \in AtWork /\ job[j].state \in AtWork => i = j
  /\ rec.pc = "chosen" => Lapsed(rec.job)
  /\ rec.pc \in {"taken", "query"} => job[rec.job].state = "reconciling"
  /\ rec.pc # "idle" => rec.cp = job[rec.job].cp

\* The job that may have created the session and did not note it is never run again.
Spent ==
  \/ job[1].state \in {"completed", "failed", "acceptance_unknown"}
  \/ /\ job[1].state \in AtWork /\ Started(job[1].cp)
     /\ \A t \in Slots : Busy(t) => task[t].job # 1
OneSession ==
  /\ creates \in {0, 1}
  /\ creates = 1 => run.session \/ Spent
  /\ \A t \in Slots : task[t].pc \in {"open_create", "create"} => creates = 0 /\ ~run.session
  /\ \A t \in Slots : task[t].pc = "create" => Started(task[t].cp)

\* Each message has one job that delivers it, and waits until its generation starts.
Mail ==
  /\ \A g \in Gens : trigger[g] # 0 => msg[trigger[g]].state \notin {"none", "pending"}
  /\ \A g, h \in Gens : trigger[g] = trigger[h] /\ trigger[g] # 0 => g = h
  /\ \A j \in Jobs : job[j].phase \in Delivering =>
       /\ msg[job[j].msg].state # "none"
       /\ job[j].state = "pending" => msg[job[j].msg].state = "pending"
  /\ \A i, j \in Jobs :
       job[i].phase \in Delivering /\ job[j].phase \in Delivering /\ job[i].msg = job[j].msg
         => i = j
  /\ \A j \in Jobs : job[j].phase \notin Watching => job[j].msg = 0
  /\ \A j \in Jobs : job[j].phase = "observe" =>
       msg[job[j].msg].state \notin {"none", "pending"}
  /\ \A t \in Slots :
       task[t].pc \in Before \/ (task[t].pc = "begin" /\ Job(t).phase \in Delivering) =>
         msg[Job(t).msg].state = "pending"
  /\ rec.pc = "query" /\ rec.accepted => msg[job[rec.job].msg].state = "sent"

\* What a message needs is there from the last look at it until it is sent.
Sending(t) ==
  \/ task[t].pc = "open_chat" /\ Job(t).phase \in Delivering
  \/ task[t].pc \in {"chat", "started"}
Whole ==
  \A t \in Slots :
    /\ task[t].pc \in (Before \ {"unsent"}) \/ Sending(t) =>
         run.status \notin Terminal
    /\ task[t].pc = "start" \/ Sending(t) =>
         run.session /\ {Job(t).msg} \intersect Attached \subseteq run.inputs
    /\ Sending(t) =>
         task[t].gen \in Gens /\ trigger[task[t].gen] = Job(t).msg

IInv == TypeOK /\ Kinds /\ Writer /\ OneSession /\ Mail /\ Whole

-----------------------------------------------------------------------------
(* Types.                                                                   *)

LEMMA Bounds ==
  /\ 1 \in Jobs /\ 1 \in Messages
  /\ 0 \in 0 .. MaxStops /\ 0 \in 0 .. MaxCollects /\ 0 \in 0 .. MaxRestarts
  /\ Jobs \subseteq Nat \ {0} /\ Messages \subseteq Nat \ {0} /\ Gens \subseteq Nat \ {0}
BY SkillSessionAssumption DEF Jobs, Messages, Gens

\* The least element of a set of numbers is one of them.
LEMMA FirstOf == \A S : First(S) \subseteq S
BY DEF First

LEMMA ConstantRows ==
  /\ Rest \in Cp /\ NoMessage \in MessageRow /\ NoJob \in JobRow /\ Idle \in TaskRow
  /\ \A phase \in {"prepare", "message", "observe", "finish", "collect"},
        m \in Messages \union {0}, g \in Gens \union {0} :
       Pending(phase, m, g) \in JobRow
<1>1. Rest \in Cp
  BY DEF Rest, Cp
<1>2. NoMessage \in MessageRow
  BY Bounds DEF NoMessage, MessageRow
<1>3. NoJob \in JobRow
  BY <1>1 DEF NoJob, JobRow
<1>4. Idle \in TaskRow
  BY <1>1, Bounds DEF Idle, TaskRow
<1>5. ASSUME NEW phase \in {"prepare", "message", "observe", "finish", "collect"},
             NEW m \in Messages \union {0}, NEW g \in Gens \union {0}
      PROVE  Pending(phase, m, g) \in JobRow
  BY <1>3 DEF Pending, JobRow
<1> QED
  BY <1>1, <1>2, <1>3, <1>4, <1>5

LEMMA InitTypes == Init => TypeOK
<1> SUFFICES ASSUME Init PROVE TypeOK
  OBVIOUS
<1>1. run \in RunRow
  BY Bounds DEF Init, RunRow
<1>2. msg \in [Messages -> MessageRow]
  BY Bounds, ConstantRows DEF Init, MessageRow
<1>3. job \in [Jobs -> JobRow]
  BY Bounds, ConstantRows DEF Init
<1>4. task \in [Slots -> TaskRow]
  BY ConstantRows DEF Init
<1>5. rec \in [pc : {"idle", "chosen", "taken", "query"}, job : Jobs \union {0},
               cp : Cp, accepted : BOOLEAN]
  BY ConstantRows DEF Init, NoRec
<1>6. used \in [stop : 0 .. MaxStops, collect : 0 .. MaxCollects, restart : 0 .. MaxRestarts]
  BY Bounds DEF Init
<1> QED
  BY <1>1, <1>2, <1>3, <1>4, <1>5, <1>6 DEF Init, TypeOK

\* The rows that a step writes with more than one field.
LEMMA Rows ==
  /\ \A r \in JobRow :
       /\ [r EXCEPT !.state = "running", !.owner = "me", !.lapsed = FALSE] \in JobRow
       /\ [r EXCEPT !.state = "completed"] \in JobRow
       /\ [r EXCEPT !.owner = "dead"] \in JobRow
       /\ \A c \in Cp : [r EXCEPT !.cp = c] \in JobRow
       /\ \A s \in {"acceptance_unknown", "failed", "reconciling"} :
            [r EXCEPT !.state = s, !.owner = "none"] \in JobRow
  /\ \A r \in TaskRow, g \in Gens :
       [r EXCEPT !.pc = "open_chat", !.gen = g] \in TaskRow
  /\ \A r \in TaskRow, c \in Cp, pc \in {"create", "upload", "watch", "chat", "deliver",
                                         "open_upload", "turn"} :
       [r EXCEPT !.cp = c, !.pc = pc] \in TaskRow
<1>1. ASSUME NEW r \in JobRow
      PROVE  [r EXCEPT !.state = "running", !.owner = "me", !.lapsed = FALSE] \in JobRow
  BY DEF JobRow, AtWork
<1>6. ASSUME NEW r \in JobRow
      PROVE  [r EXCEPT !.state = "completed"] \in JobRow
  BY DEF JobRow
<1>7. ASSUME NEW r \in JobRow
      PROVE  [r EXCEPT !.owner = "dead"] \in JobRow
  BY DEF JobRow
<1>4. ASSUME NEW r \in JobRow, NEW c \in Cp
      PROVE  [r EXCEPT !.cp = c] \in JobRow
  BY DEF JobRow
<1>5. ASSUME NEW r \in JobRow, NEW s \in {"acceptance_unknown", "failed", "reconciling"}
      PROVE  [r EXCEPT !.state = s, !.owner = "none"] \in JobRow
  BY DEF JobRow, AtWork
<1>2. ASSUME NEW r \in TaskRow, NEW g \in Gens
      PROVE  [r EXCEPT !.pc = "open_chat", !.gen = g] \in TaskRow
  BY DEF TaskRow, Opening
<1>3. ASSUME NEW r \in TaskRow, NEW c \in Cp,
             NEW pc \in {"create", "upload", "watch", "chat", "deliver", "open_upload", "turn"}
      PROVE  [r EXCEPT !.cp = c, !.pc = pc] \in TaskRow
  <2> DEFINE v == [r EXCEPT !.cp = c]
  <2>1. v \in TaskRow
    BY DEF TaskRow
  <2>2. [r EXCEPT !.cp = c, !.pc = pc] = [v EXCEPT !.pc = pc]
    OBVIOUS
  <2> HIDE DEF v
  <2> QED
    BY <2>1, <2>2 DEF TaskRow, Awaits, Opening
<1> QED
  BY <1>1, <1>2, <1>3, <1>4, <1>5, <1>6, <1>7

\* The state of a message is written.
LEMMA MessageWrite ==
  ASSUME TypeOK, NEW m \in Messages,
         NEW s \in {"sending", "sent", "unknown", "failed", "cancelled"},
         msg' = [msg EXCEPT ![m].state = s]
  PROVE  msg' \in [Messages -> MessageRow]
<1>1. msg \in [Messages -> MessageRow] /\ msg[m] \in MessageRow
  BY DEF TypeOK
<1>2. [msg[m] EXCEPT !.state = s] \in MessageRow
  BY <1>1 DEF MessageRow
<1>3. msg' = [msg EXCEPT ![m] = [msg[m] EXCEPT !.state = s]]
  BY <1>1
<1> QED
  BY <1>1, <1>2, <1>3

Places == Awaits \union Opening \union
  {"idle", "begin", "unsent", "prepare", "created", "uploaded", "deliver", "start",
   "started", "ended", "turn", "complete", "fix"}
LEMMA QuietRow ==
  ASSUME NEW r \in TaskRow, NEW pc \in Places, NEW q \in BOOLEAN
  PROVE  [r EXCEPT !.pc = pc, !.quiet = q] \in TaskRow
<1> DEFINE v == [r EXCEPT !.pc = pc]
<1>1. v \in TaskRow
  BY DEF TaskRow, Places
<1>2. [r EXCEPT !.pc = pc, !.quiet = q] = [v EXCEPT !.quiet = q]
  OBVIOUS
<1> HIDE DEF v
<1> QED
  BY <1>1, <1>2 DEF TaskRow

LEMMA TokenRow ==
  ASSUME NEW r \in TaskRow, NEW told \in BOOLEAN, NEW token \in BOOLEAN \X (0 .. MaxStops)
  PROVE  [r EXCEPT !.token = token, !.told = told] \in TaskRow
<1> DEFINE v == [r EXCEPT !.token = token]
<1>1. v \in TaskRow
  BY DEF TaskRow
<1>2. [r EXCEPT !.token = token, !.told = told] = [v EXCEPT !.told = told]
  OBVIOUS
<1> HIDE DEF v
<1> QED
  BY <1>1, <1>2 DEF TaskRow

LEMMA TaskRows ==
  ASSUME TypeOK, NEW t \in Slots
  PROVE  /\ \A pc \in Places : GoTo(t, pc) => task' \in [Slots -> TaskRow]
         /\ \A pc \in Places, q \in BOOLEAN :
              [task EXCEPT ![t].pc = pc, ![t].quiet = q] \in [Slots -> TaskRow]
         /\ \A told \in BOOLEAN, token \in BOOLEAN \X (0 .. MaxStops) :
              [task EXCEPT ![t].token = token, ![t].told = told] \in [Slots -> TaskRow]
<1>1. task \in [Slots -> TaskRow] /\ task[t] \in TaskRow
  BY DEF TypeOK
<1>2. ASSUME NEW r \in TaskRow, NEW pc \in Places
      PROVE  [r EXCEPT !.pc = pc] \in TaskRow
  BY DEF TaskRow, Places
<1>3. ASSUME NEW told \in BOOLEAN, NEW token \in BOOLEAN \X (0 .. MaxStops)
      PROVE  [task[t] EXCEPT !.token = token, !.told = told] \in TaskRow
  BY <1>1, TokenRow
<1>4. ASSUME NEW pc \in Places, GoTo(t, pc)
      PROVE  task' \in [Slots -> TaskRow]
  BY <1>1, <1>2, <1>4 DEF GoTo
<1>5. ASSUME NEW pc \in Places, NEW q \in BOOLEAN
      PROVE  [task EXCEPT ![t].pc = pc, ![t].quiet = q] \in [Slots -> TaskRow]
  <2>1. [task[t] EXCEPT !.pc = pc, !.quiet = q] \in TaskRow
    BY <1>1, QuietRow
  <2>2. [task EXCEPT ![t].pc = pc, ![t].quiet = q]
          = [task EXCEPT ![t] = [task[t] EXCEPT !.pc = pc, !.quiet = q]]
    BY <1>1
  <2> QED
    BY <1>1, <2>1, <2>2
<1>6. ASSUME NEW told \in BOOLEAN, NEW token \in BOOLEAN \X (0 .. MaxStops)
      PROVE  [task EXCEPT ![t].token = token, ![t].told = told] \in [Slots -> TaskRow]
  BY <1>1, <1>3
<1> QED
  BY <1>4, <1>5, <1>6

LEMMA RaiseTypes ==
  ASSUME TypeOK, NEW t \in Slots, task[t].job \in Jobs, Raise(t)
  PROVE  /\ task' \in [Slots -> TaskRow] /\ job' \in [Jobs -> JobRow]
         /\ run' \in RunRow /\ msg' \in [Messages -> MessageRow]
<1>1. task' \in [Slots -> TaskRow]
  BY ConstantRows DEF Raise, TypeOK
<1>2. job' \in [Jobs -> JobRow]
  <2>1. \/ job' = job
        \/ \E s \in {"acceptance_unknown", "failed"} :
             job' = [job EXCEPT ![task[t].job] = [job[task[t].job] EXCEPT !.state = s,
                                                                          !.owner = "none"]]
    BY DEF Raise, Verdict
  <2>2. job \in [Jobs -> JobRow] /\ job[task[t].job] \in JobRow
    BY DEF TypeOK
  <2>3. \A s \in {"acceptance_unknown", "failed"} :
          [job[task[t].job] EXCEPT !.state = s, !.owner = "none"] \in JobRow
    BY <2>2, Rows
  <2> QED
    BY <2>1, <2>2, <2>3
<1>3. [run EXCEPT !.status = "failed", !.gen = "failed"] \in RunRow
  BY DEF TypeOK, RunRow, Terminal
<1>4. run' \in RunRow
  BY <1>3 DEF Raise, TypeOK
<1>5. msg' \in [Messages -> MessageRow]
  <2>1. \/ msg' = msg
        \/ \E s \in {"unknown", "failed"} :
             /\ job[task[t].job].msg # 0
             /\ msg' = [msg EXCEPT ![job[task[t].job].msg].state = s]
    BY DEF Raise, Verdict
  <2>2. job[task[t].job].msg \in Messages \union {0} /\ msg \in [Messages -> MessageRow]
    BY DEF TypeOK, JobRow
  <2> QED
    BY <2>1, <2>2, MessageWrite
<1> QED
  BY <1>1, <1>2, <1>4, <1>5

LEMMA CheckpointTypes ==
  ASSUME TypeOK, NEW t \in Slots, task[t].job \in Jobs, NEW c \in Cp,
         NEW pc \in {"create", "upload", "watch", "chat", "deliver", "open_upload", "turn"},
         Checkpoint(t, c, pc)
  PROVE  /\ task' \in [Slots -> TaskRow] /\ job' \in [Jobs -> JobRow]
         /\ run' \in RunRow /\ msg' \in [Messages -> MessageRow]
<1>1. CASE ~Owned(t)
  BY <1>1, RaiseTypes DEF Checkpoint
<1>2. CASE Owned(t)
  <2>1. job' \in [Jobs -> JobRow]
    <3>1. job \in [Jobs -> JobRow] /\ [job[task[t].job] EXCEPT !.cp = c] \in JobRow
      BY Rows DEF TypeOK
    <3>2. job' = [job EXCEPT ![task[t].job] = [job[task[t].job] EXCEPT !.cp = c]]
      BY <1>2 DEF Checkpoint
    <3> QED
      BY <3>1, <3>2
  <2>2. [task[t] EXCEPT !.cp = c, !.pc = pc] \in TaskRow
    BY Rows DEF TypeOK
  <2>3. task' = [task EXCEPT ![t] = [task[t] EXCEPT !.cp = c, !.pc = pc]]
    BY <1>2 DEF Checkpoint
  <2> QED
    BY <1>2, <2>1, <2>2, <2>3 DEF Checkpoint, TypeOK
<1> QED
  BY <1>1, <1>2

\* What a task at work stands on.
LEMMA TaskJob ==
  ASSUME TypeOK, Kinds, Writer, NEW t \in Slots, Busy(t)
  PROVE  /\ task[t].job \in Jobs /\ Job(t) \in JobRow /\ Job(t).phase # "none"
         /\ task[t] \in TaskRow /\ task[t].cp \in Cp /\ task[t].gen \in Gens \union {0}
         /\ Job(t).phase \in Watching => Job(t).msg \in Messages
<1>1. task[t].job \in Jobs /\ Job(t).state = "running"
  BY DEF Kinds, Writer
<1>2. Job(t) \in JobRow /\ task[t] \in TaskRow
  BY <1>1 DEF TypeOK, Job
<1> QED
  BY <1>1, <1>2 DEF Kinds, Job, TaskRow

LEMMA TaskTypes ==
  ASSUME TypeOK, Kinds, Writer, NEW t \in Slots, Claim(t) \/ TaskStep(t) \/ Control(t)
  PROVE  TypeOK'
<1>1. CASE Claim(t)
  <2>1. PICK j \in Jobs :
          /\ job' = [job EXCEPT ![j].state = "running", ![j].owner = "me", ![j].lapsed = FALSE]
          /\ task' = [task EXCEPT ![t] = [Idle EXCEPT !.pc = "begin", !.job = j,
                                                      !.gen = job[j].gen, !.cp = job[j].cp]]
    BY <1>1, FirstOf DEF Claim, Claimable, Waiting
  <2>2. job[j] \in JobRow /\ job[j].gen \in Gens \union {0} /\ job[j].cp \in Cp
    BY DEF TypeOK, JobRow
  <2>3. [Idle EXCEPT !.pc = "begin", !.job = j, !.gen = job[j].gen, !.cp = job[j].cp]
          \in TaskRow
    BY <2>2, ConstantRows DEF TaskRow
  <2>4. job' = [job EXCEPT ![j] = [job[j] EXCEPT !.state = "running", !.owner = "me",
                                                 !.lapsed = FALSE]]
    BY <2>1
  <2>5. job' \in [Jobs -> JobRow]
    BY <2>2, <2>4, Rows DEF TypeOK
  <2>6. task' \in [Slots -> TaskRow]
    BY <2>1, <2>3 DEF TypeOK
  <2> QED
    BY <1>1, <2>5, <2>6 DEF Claim, TypeOK
<1>2. CASE Begin(t)
  <2>1. Busy(t)
    BY <1>2 DEF Begin, Turn, Busy
  <2>2. Job(t).phase \in {"prepare", "message", "observe", "finish", "collect"}
    BY <2>1, TaskJob DEF JobRow
  <2>3. PICK pc \in {"unsent", "prepare", "deliver", "open_chat", "collect", "fix"}, q \in BOOLEAN :
          task' = [task EXCEPT ![t].pc = pc, ![t].quiet = q]
    BY <1>2, <2>2 DEF Begin
  <2>4. task' \in [Slots -> TaskRow]
    BY <2>3, TaskRows DEF Places, Awaits, Opening
  <2> QED
    BY <1>2, <2>4 DEF Begin, TypeOK, rows
<1>3. CASE CancelUnsent(t)
  <2>1. Busy(t) /\ Job(t).msg \in Messages
    BY <1>3, TaskJob DEF CancelUnsent, Turn, Busy, Kinds, Before, Watching
  <2>2. msg' \in [Messages -> MessageRow]
    <3>1. \/ msg' = [msg EXCEPT ![Job(t).msg].state = "cancelled"]
          \/ msg' = [msg EXCEPT ![Job(t).msg].state = msg[Job(t).msg].state]
      BY <1>3 DEF CancelUnsent
    <3>2. [msg EXCEPT ![Job(t).msg].state = msg[Job(t).msg].state] = msg
      BY <2>1 DEF TypeOK, MessageRow
    <3>3. msg \in [Messages -> MessageRow]
      BY DEF TypeOK
    <3> QED
      BY <2>1, <3>1, <3>2, <3>3, MessageWrite
  <2>3. task' \in [Slots -> TaskRow]
    BY <1>3, TaskRows DEF CancelUnsent, Places, Opening, Awaits
  <2> QED
    BY <1>3, <2>2, <2>3 DEF CancelUnsent, TypeOK
<1>4. CASE Prepare(t)
  <2>1. run' \in RunRow
    BY <1>4 DEF Prepare, TypeOK, RunRow
  <2>2. task' \in [Slots -> TaskRow]
    BY <1>4, TaskRows DEF Prepare, AfterSession, Places, Opening, Awaits
  <2> QED
    BY <1>4, <2>1, <2>2 DEF Prepare, TypeOK
<1>5. CASE Open(t)
  <2>1. Busy(t)
    BY <1>5 DEF Open, OpenAt, Turn, Busy
  <2>2. PICK c \in Cp, pc \in {"create", "upload", "watch", "chat"} : Checkpoint(t, c, pc)
    BY <1>5, <2>1, TaskJob DEF Open, OpenAt, Cp
  <2> QED
    BY <1>5, <2>1, <2>2, TaskJob, CheckpointTypes DEF Open, TypeOK
<1>6. CASE Close(t)
  <2>1. Busy(t)
    BY <1>6 DEF Close, CloseAt, Turn, Busy
  <2>2. [task[t].cp EXCEPT !.phase = "rest"] \in Cp
    BY <2>1, TaskJob DEF Cp
  <2>3. \/ Raise(t)
        \/ \E c \in Cp, pc \in {"deliver", "open_upload", "turn"} : Checkpoint(t, c, pc)
    BY <1>6, <2>2 DEF Close, CloseAt, AfterSession
  <2> QED
    BY <1>6, <2>1, <2>3, TaskJob, CheckpointTypes, RaiseTypes DEF Close, TypeOK
<1>7. CASE CreateSession(t)
  <2>1. run' \in RunRow
    BY <1>7 DEF CreateSession, TypeOK, RunRow
  <2>2. task' \in [Slots -> TaskRow]
    BY <1>7, TaskRows DEF CreateSession, Places, Opening, Awaits
  <2> QED
    BY <1>7, <2>1, <2>2 DEF CreateSession, TypeOK
<1>8. CASE Upload(t)
  <2>1. Busy(t) /\ Job(t).msg \in Messages
    BY <1>8, TaskJob DEF Upload, Turn, Busy, Kinds, Before, Watching
  <2>2. run' \in RunRow
    BY <1>8, <2>1 DEF Upload, TypeOK, RunRow
  <2>3. task' \in [Slots -> TaskRow]
    BY <1>8, TaskRows DEF Upload, Places, Opening, Awaits
  <2> QED
    BY <1>8, <2>2, <2>3 DEF Upload, TypeOK
<1>9. CASE Deliver(t)
  <2>1. Busy(t)
    BY <1>9 DEF Deliver, Turn, Busy
  <2>2. CASE Undeliverable(t)
    BY <1>9, <2>1, <2>2, TaskJob, RaiseTypes DEF Deliver, TypeOK
  <2>3. CASE ~Undeliverable(t)
    <3>1. task' \in [Slots -> TaskRow]
      BY <1>9, <2>3, TaskRows DEF Deliver, Places, Opening, Awaits
    <3> QED
      BY <1>9, <2>3, <3>1 DEF Deliver, TypeOK
  <2> QED
    BY <2>2, <2>3
<1>10. CASE StartGeneration(t)
  <2>1. Busy(t) /\ Job(t).msg \in Messages
    BY <1>10, TaskJob DEF StartGeneration, Turn, Busy, Kinds, Before, Watching
  <2>2. CASE Halted
    <3>1. msg' \in [Messages -> MessageRow]
      BY <1>10, <2>1, <2>2, MessageWrite DEF StartGeneration
    <3>2. question' \in [Gens -> {"none", "pending", "answering", "answered", "closed"}]
      BY <1>10, <2>2 DEF StartGeneration, Reopened, TypeOK
    <3>3. run' \in RunRow
      <4>1. PICK s \in {"waiting_input", "waiting_continue"} :
              run' = [run EXCEPT !.status = s, !.gen = "stopped", !.stop = 0]
        BY <1>10, <2>2 DEF StartGeneration, WaitingFor
      <4> QED
        BY <4>1, Bounds DEF TypeOK, RunRow
    <3>4. task' \in [Slots -> TaskRow]
      BY <1>10, <2>2, TaskRows DEF StartGeneration, Places, Opening, Awaits
    <3> QED
      BY <1>10, <2>2, <3>1, <3>2, <3>3, <3>4 DEF StartGeneration, TypeOK
  <2>3. CASE ~Halted
    <3>1. PICK g \in Gens :
            /\ msg' = [msg EXCEPT ![Job(t).msg].state = "sending"]
            /\ trigger' = [trigger EXCEPT ![g] = Job(t).msg]
            /\ run' = [run EXCEPT !.status = IF run.finish THEN "finishing" ELSE "active",
                                  !.gen = "running", !.stop = 0]
            /\ task' = [task EXCEPT ![t].pc = "open_chat", ![t].gen = g]
            /\ UNCHANGED question
      BY <1>10, <2>3, FirstOf DEF StartGeneration, NextGen
    <3>2. msg' \in [Messages -> MessageRow]
      BY <2>1, <3>1, MessageWrite
    <3>3. trigger' \in [Gens -> Messages \union {0}]
      BY <2>1, <3>1 DEF TypeOK
    <3>4. run' \in RunRow
      BY <3>1, Bounds DEF TypeOK, RunRow
    <3>5. task' = [task EXCEPT ![t] = [task[t] EXCEPT !.pc = "open_chat", !.gen = g]]
      BY <3>1
    <3>6. task' \in [Slots -> TaskRow]
      BY <2>1, <3>5, TaskJob, Rows DEF TypeOK
    <3> QED
      BY <1>10, <3>1, <3>2, <3>3, <3>4, <3>6 DEF StartGeneration, TypeOK
  <2> QED
    BY <2>2, <2>3
<1>11. CASE Send(t)
  <2>1. remote' \in [Gens -> {"none", "sent", "running", "paused", "done", "stopped"}]
    BY <1>11 DEF Send, TypeOK
  <2> QED
    BY <1>11, <2>1 DEF Send, TypeOK, rows
<1>12. CASE ChatStarts(t)
  <2>1. Busy(t)
    BY <1>12 DEF ChatStarts, Turn, Busy
  <2>2. run' \in RunRow
    BY <1>12, <2>1, TaskJob DEF ChatStarts, TypeOK, RunRow
  <2>3. task' \in [Slots -> TaskRow]
    BY <1>12 DEF ChatStarts, TypeOK, TaskRow
  <2> QED
    BY <1>12, <2>2, <2>3 DEF ChatStarts, TypeOK
<1>13. CASE ChatAccepted(t)
  <2>1. Busy(t) /\ Job(t).msg \in Messages
    BY <1>13, TaskJob DEF ChatAccepted, Turn, Busy, Kinds, Chatting, Watching
  <2>2. msg' \in [Messages -> MessageRow]
    BY <1>13, <2>1, MessageWrite DEF ChatAccepted
  <2>3. task' \in [Slots -> TaskRow]
    BY <1>13, TaskRows DEF ChatAccepted, Places, Opening, Awaits
  <2> QED
    BY <1>13, <2>2, <2>3 DEF ChatAccepted, TypeOK
<1>14. CASE SeeEnd(t)
  <2>1. task' \in [Slots -> TaskRow]
    BY <1>14, TaskRows DEF SeeEnd, Places, Opening, Awaits
  <2> QED
    BY <1>14, <2>1 DEF SeeEnd, TypeOK, rows
<1>15. CASE GenerationEnd(t)
  <2>1. Busy(t) /\ Job(t).msg \in Messages
    BY <1>15, TaskJob DEF GenerationEnd, Turn, Busy, Kinds
  <2>2. question' \in [Gens -> {"none", "pending", "answering", "answered", "closed"}]
    BY <1>15 DEF GenerationEnd, TypeOK
  <2>3. msg' \in [Messages -> MessageRow]
    BY <1>15, <2>1, MessageWrite DEF GenerationEnd
  <2>4. run' \in RunRow
    BY <1>15, Bounds DEF GenerationEnd, AfterTurn, TypeOK, RunRow
  <2>5. task' \in [Slots -> TaskRow]
    BY <1>15, TaskRows DEF GenerationEnd, Places, Opening, Awaits
  <2> QED
    BY <1>15, <2>2, <2>3, <2>4, <2>5 DEF GenerationEnd, TypeOK
<1>16. CASE Collect(t)
  <2>1. remote' \in [Gens -> {"none", "sent", "running", "paused", "done", "stopped"}]
    BY <1>16 DEF Collect, Stopped, TypeOK
  <2>2. Quiet \in BOOLEAN
    BY DEF Quiet
  <2>3. CASE \E quiet \in {FALSE, Quiet} :
          task' = [task EXCEPT ![t].pc = IF quiet THEN "gather" ELSE "fix", ![t].quiet = quiet]
    <3>1. PICK quiet \in BOOLEAN :
            task' = [task EXCEPT ![t].pc = IF quiet THEN "gather" ELSE "fix", ![t].quiet = quiet]
      <4>1. {FALSE, Quiet} \subseteq BOOLEAN
        BY <2>2
      <4> QED
        BY <2>3, <4>1, Zenon
    <3>2. task' \in [Slots -> TaskRow]
      BY <3>1, TaskRows DEF Places, Awaits
    <3> QED
      BY <1>16, <2>1, <3>2 DEF Collect, TypeOK, rows
  <2>4. CASE UNCHANGED task
    BY <1>16, <2>1, <2>4 DEF Collect, TypeOK, rows
  <2> QED
    BY <1>16, <2>3, <2>4 DEF Collect
<1>17. CASE Gather(t)
  <2>1. task' \in [Slots -> TaskRow]
    BY <1>17, TaskRows DEF Gather, Places, Opening, Awaits
  <2> QED
    BY <1>17, <2>1 DEF Gather, TypeOK, rows
<1>18. CASE Fix(t)
  <2>1. Busy(t)
    BY <1>18 DEF Fix, Turn, Busy
  <2>2. CASE ~Owned(t)
    BY <1>18, <2>1, <2>2, TaskJob, RaiseTypes DEF Fix, TypeOK
  <2>3. CASE Owned(t)
    <3>1. run' \in RunRow
      BY <1>18, <2>3 DEF Fix, Final, TypeOK, RunRow, Terminal
    <3>2. question' \in [Gens -> {"none", "pending", "answering", "answered", "closed"}]
      BY <1>18, <2>3 DEF Fix, TypeOK
    <3>3. task' \in [Slots -> TaskRow]
      BY <1>18, <2>3, TaskRows DEF Fix, Places, Opening, Awaits
    <3> QED
      BY <1>18, <2>3, <3>1, <3>2, <3>3 DEF Fix, TypeOK
  <2> QED
    BY <2>2, <2>3
<1>19. CASE Complete(t)
  <2>1. Busy(t)
    BY <1>19 DEF Complete, Turn, Busy
  <2>2. job' \in [Jobs -> JobRow]
    BY <1>19, <2>1, TaskJob DEF Complete, Owned, Job, TypeOK, JobRow
  <2>3. task' \in [Slots -> TaskRow]
    BY <1>19, ConstantRows DEF Complete, TypeOK
  <2> QED
    BY <1>19, <2>2, <2>3 DEF Complete, TypeOK
<1>20. CASE Interrupted(t)
  <2>1. Busy(t)
    BY <1>20 DEF Interrupted, Awaits, Busy
  <2>2. creates' \in Nat
    BY <1>20 DEF Interrupted, TypeOK
  <2>3. remote' \in [Gens -> {"none", "sent", "running", "paused", "done", "stopped"}]
    BY <1>20 DEF Interrupted, Stopped, TypeOK
  <2> QED
    BY <1>20, <2>1, <2>2, <2>3, TaskJob, RaiseTypes DEF Interrupted, TypeOK
<1>21. CASE Control(t)
  <2>1. run.finish \in BOOLEAN /\ run.stop \in 0 .. MaxStops
    BY DEF TypeOK, RunRow
  <2>2. PICK told \in BOOLEAN, token \in BOOLEAN \X (0 .. MaxStops) :
          task' = [task EXCEPT ![t].token = token, ![t].told = told]
    BY <1>21, <2>1 DEF Control
  <2>3. task' \in [Slots -> TaskRow]
    BY <2>2, TaskRows
  <2>5. Target(t) # 0 => Target(t) \in Gens
    BY DEF Target, TypeOK, RunRow, TaskRow
  <2>4. remote' = remote \/ \E g \in Gens : remote' = Stopped(g)
    BY <1>21, <2>5 DEF Control
  <2>6. remote' \in [Gens -> {"none", "sent", "running", "paused", "done", "stopped"}]
    BY <2>4 DEF Stopped, TypeOK
  <2> QED
    BY <1>21, <2>3, <2>6 DEF Control, TypeOK, rows
<1> QED
  BY <1>1, <1>2, <1>3, <1>4, <1>5, <1>6, <1>7, <1>8, <1>9, <1>10, <1>11, <1>12, <1>13,
     <1>14, <1>15, <1>16, <1>17, <1>18, <1>19, <1>20, <1>21 DEF TaskStep

\* What the reconciliation stands on.
LEMMA RecJob ==
  ASSUME TypeOK, Kinds, rec.pc # "idle"
  PROVE  /\ rec.job \in Jobs /\ job[rec.job] \in JobRow /\ rec.cp \in Cp
         /\ job[rec.job].msg \in Messages \union {0} /\ job[rec.job].gen \in Gens \union {0}
BY DEF TypeOK, Kinds, JobRow

\* The new values of a reconciliation.
RecType == [pc : {"idle", "chosen", "taken", "query"}, job : Jobs \union {0}, cp : Cp,
            accepted : BOOLEAN]
LEMMA RecRows ==
  ASSUME TypeOK
  PROVE  /\ NoRec \in RecType
         /\ \A j \in Jobs :
              [NoRec EXCEPT !.pc = "chosen", !.job = j, !.cp = job[j].cp] \in RecType
         /\ [rec EXCEPT !.pc = "taken"] \in RecType
         /\ \A a \in BOOLEAN : [rec EXCEPT !.pc = "query", !.accepted = a] \in RecType
<1>1. rec \in RecType /\ \A j \in Jobs : job[j].cp \in Cp
  BY DEF TypeOK, RecType, JobRow
<1>2. NoRec \in RecType
  BY ConstantRows DEF NoRec, RecType
<1>3. ASSUME NEW j \in Jobs
      PROVE  [NoRec EXCEPT !.pc = "chosen", !.job = j, !.cp = job[j].cp] \in RecType
  BY <1>1, <1>2 DEF RecType
<1> QED
  BY <1>1, <1>2, <1>3 DEF RecType

LEMMA OutcomeTypes ==
  ASSUME TypeOK, Kinds, rec.pc # "idle",
         NEW s \in {"pending", "completed", "acceptance_unknown"}, Outcome(s)
  PROVE  job' \in [Jobs -> JobRow]
BY RecJob DEF Outcome, TypeOK, JobRow

LEMMA UnknownTypes ==
  ASSUME TypeOK, Kinds, rec.pc # "idle", Unknown(run.gen) \/ Unknown("failed")
  PROVE  job' \in [Jobs -> JobRow] /\ run' \in RunRow /\ rec' \in RecType
<1>1. job' \in [Jobs -> JobRow]
  BY OutcomeTypes DEF Unknown
<1>2. run' \in RunRow
  <2>1. \A g \in {run.gen, "failed"} : [run EXCEPT !.status = "failed", !.gen = g] \in RunRow
    BY DEF TypeOK, RunRow, Terminal
  <2> QED
    BY <2>1 DEF Unknown
<1> QED
  BY <1>1, <1>2, RecRows DEF Unknown

LEMMA RecTypes == ASSUME TypeOK, Kinds, RecStep PROVE TypeOK'
<1>1. CASE Scan
  <2>1. rec' \in RecType
    BY <1>1, RecRows DEF Scan
  <2> QED
    BY <1>1, <2>1 DEF Scan, TypeOK, RecType, rows
<1>2. CASE TakeOver
  <2>1. rec' \in RecType
    BY <1>2, RecRows DEF TakeOver
  <2>2. job' \in [Jobs -> JobRow]
    <3>1. job \in [Jobs -> JobRow] /\ rec.job \in Jobs
      BY <1>2, RecJob DEF TakeOver, TypeOK
    <3>2. [job[rec.job] EXCEPT !.state = "reconciling", !.owner = "none"] \in JobRow
      BY <3>1, Rows
    <3>3. \/ job' = job
          \/ job' = [job EXCEPT ![rec.job] = [job[rec.job] EXCEPT !.state = "reconciling",
                                                                 !.owner = "none"]]
      BY <1>2 DEF TakeOver
    <3> QED
      BY <3>1, <3>2, <3>3
  <2> QED
    BY <1>2, <2>1, <2>2 DEF TakeOver, TypeOK, RecType
<1>3. CASE Decide
  <2>1. job' \in [Jobs -> JobRow] /\ run' \in RunRow /\ rec' \in RecType
    <3>1. CASE Unknown(run.gen) \/ Unknown("failed")
      BY <1>3, <3>1, UnknownTypes DEF Decide
    <3>2. CASE Outcome("pending") /\ rec' = NoRec /\ UNCHANGED run
      BY <1>3, <3>2, OutcomeTypes, RecRows DEF Decide, TypeOK
    <3>3. CASE /\ rec' = [rec EXCEPT !.pc = "query",
                                     !.accepted = msg[job[rec.job].msg].state = "sent"]
               /\ UNCHANGED <<run, job>>
      <4>1. (msg[job[rec.job].msg].state = "sent") \in BOOLEAN
        OBVIOUS
      <4> QED
        BY <3>3, <4>1, RecRows DEF TypeOK
    <3> QED
      BY <1>3, <3>1, <3>2, <3>3 DEF Decide
  <2> QED
    BY <1>3, <2>1 DEF Decide, TypeOK, RecType
<1>4. CASE QueryFails
  BY <1>4, UnknownTypes DEF QueryFails, TypeOK, RecType
<1>5. CASE Observe
  <2>1. RecGen \in Gens \union {0}
    BY <1>5, RecJob DEF Observe, RecGen, Cp
  <2>2. PICK n \in Jobs :
          job' = [job EXCEPT ![rec.job].state = "completed",
                             ![n] = Pending("observe", job[rec.job].msg, RecGen)]
    BY <1>5, FirstOf DEF Observe, NextJob
  <2>3. Pending("observe", job[rec.job].msg, RecGen) \in JobRow
    BY <1>5, <2>1, RecJob, ConstantRows DEF Observe
  <2>4. job' \in [Jobs -> JobRow]
    <3>1. [job[rec.job] EXCEPT !.state = "completed"] \in JobRow /\ rec.job \in Jobs
      BY <1>5, RecJob, Rows DEF Observe
    <3>2. job' = [[job EXCEPT ![rec.job] = [job[rec.job] EXCEPT !.state = "completed"]]
                    EXCEPT ![n] = Pending("observe", job[rec.job].msg, RecGen)]
      BY <2>2, <3>1
    <3> QED
      BY <2>3, <3>1, <3>2 DEF TypeOK
  <2> QED
    BY <1>5, <2>4, RecRows DEF Observe, TypeOK, RecType
<1>6. CASE Restore
  <2>1. job' \in [Jobs -> JobRow]
    BY <1>6, OutcomeTypes DEF Restore
  <2>2. question' \in [Gens -> {"none", "pending", "answering", "answered", "closed"}]
    <3>1. question' = question \/ question' = [question EXCEPT ![run.chat] = "pending"]
      BY <1>6 DEF Restore
    <3> QED
      BY <3>1 DEF TypeOK
  <2>3. run' \in RunRow
    BY <1>6 DEF Restore, AfterTurn, TypeOK, RunRow
  <2>4. rec' \in RecType
    BY <1>6, RecRows DEF Restore
  <2> QED
    BY <1>6, <2>1, <2>2, <2>3, <2>4 DEF Restore, TypeOK, RecType
<1>7. CASE NotReplayed
  BY <1>7, UnknownTypes DEF NotReplayed, TypeOK, RecType
<1> QED
  BY <1>1, <1>2, <1>3, <1>4, <1>5, <1>6, <1>7 DEF RecStep

LEMMA RequestTypes ==
  ASSUME TypeOK, SendMessage \/ StopGeneration \/ Finish \/ Recollect
  PROVE  TypeOK'
<1>1. CASE SendMessage
  <2>1. PICK a \in Gens \union {0}, m \in Messages, n \in Jobs :
          /\ question' = IF a = 0 THEN question ELSE [question EXCEPT ![a] = "answering"]
          /\ msg' = [msg EXCEPT ![m] =
                       [state |-> "pending", answers |-> a, since |-> used.stop]]
          /\ job' = [job EXCEPT ![n] = Pending("message", m, 0)]
    BY <1>1, FirstOf DEF SendMessage, NextMessage, NextJob
  <2>2. question' \in [Gens -> {"none", "pending", "answering", "answered", "closed"}]
    BY <2>1 DEF TypeOK
  <2>3. msg' \in [Messages -> MessageRow]
    BY <2>1 DEF TypeOK, MessageRow
  <2>4. job' \in [Jobs -> JobRow]
    BY <2>1, ConstantRows DEF TypeOK
  <2>5. run' \in RunRow
    BY <1>1 DEF SendMessage, TypeOK, RunRow
  <2> QED
    BY <1>1, <2>2, <2>3, <2>4, <2>5 DEF SendMessage, TypeOK
<1>2. CASE StopGeneration
  <2>1. used' \in [stop : 0 .. MaxStops, collect : 0 .. MaxCollects, restart : 0 .. MaxRestarts]
        /\ used.stop + 1 \in 0 .. MaxStops
    BY <1>2, SkillSessionAssumption DEF StopGeneration, Use, TypeOK
  <2>2. CASE CancelQueue
    <3>1. msg' \in [Messages -> MessageRow]
      BY <2>2 DEF CancelQueue, TypeOK, MessageRow
    <3>2. \A j \in Jobs : job'[j] \in JobRow
      <4>1. \A j \in Jobs : job'[j] \in {job[j], [job[j] EXCEPT !.state = "completed"]}
        BY <2>2 DEF CancelQueue
      <4>2. \A j \in Jobs : job[j] \in JobRow
        BY DEF TypeOK
      <4>3. \A r \in JobRow : [r EXCEPT !.state = "completed"] \in JobRow
        BY Rows
      <4> QED
        BY <4>1, <4>2, <4>3
    <3>3. job' \in [Jobs -> JobRow]
      BY <2>2, <3>2 DEF CancelQueue
    <3>4. question' \in [Gens -> {"none", "pending", "answering", "answered", "closed"}]
      BY <2>2 DEF CancelQueue, Reopened, TypeOK
    <3>5. run' \in RunRow
      BY <2>2 DEF CancelQueue, WaitingFor, TypeOK, RunRow, Terminal
    <3> QED
      BY <1>2, <2>1, <3>1, <3>3, <3>4, <3>5 DEF StopGeneration, TypeOK
  <2>3. CASE RecordStop
    <3>1. run' \in RunRow
      BY <2>1, <2>3 DEF RecordStop, TypeOK, RunRow
    <3> QED
      BY <1>2, <2>1, <2>3, <3>1 DEF StopGeneration, RecordStop, TypeOK
  <2> QED
    BY <1>2, <2>2, <2>3 DEF StopGeneration
<1>3. CASE Finish
  <2>1. run' \in RunRow
    BY <1>3 DEF Finish, TypeOK, RunRow
  <2>2. PICK n \in Jobs : job' = [job EXCEPT ![n] = Pending("finish", 0, 0)]
    BY <1>3, FirstOf DEF Finish, NextJob
  <2>3. job' \in [Jobs -> JobRow]
    BY <2>2, ConstantRows DEF TypeOK
  <2> QED
    BY <1>3, <2>1, <2>3 DEF Finish, TypeOK
<1>4. CASE Recollect
  <2>1. used' \in [stop : 0 .. MaxStops, collect : 0 .. MaxCollects, restart : 0 .. MaxRestarts]
    BY <1>4, SkillSessionAssumption DEF Recollect, Use, TypeOK
  <2>2. PICK n \in Jobs : job' = [job EXCEPT ![n] = Pending("collect", 0, 0)]
    BY <1>4, FirstOf DEF Recollect, NextJob
  <2>3. job' \in [Jobs -> JobRow]
    BY <2>2, ConstantRows DEF TypeOK
  <2> QED
    BY <1>4, <2>1, <2>3 DEF Recollect, TypeOK
<1> QED
  BY <1>1, <1>2, <1>3, <1>4

LEMMA OtherTypes ==
  ASSUME TypeOK,
         \/ \E g \in Gens : RemoteAccepts(g) \/ RemoteEnds(g)
         \/ \E j \in Jobs : LeaseLapses(j)
         \/ Crash \/ Shutdown \/ Start
  PROVE  TypeOK'
<1>1. ASSUME NEW g \in Gens, RemoteAccepts(g) \/ RemoteEnds(g) PROVE TypeOK'
  <2>1. remote' \in [Gens -> {"none", "sent", "running", "paused", "done", "stopped"}]
    BY <1>1 DEF RemoteAccepts, RemoteEnds, TypeOK
  <2> QED
    BY <1>1, <2>1 DEF RemoteAccepts, RemoteEnds, TypeOK, rows
<1>2. ASSUME NEW j \in Jobs, LeaseLapses(j) PROVE TypeOK'
  <2>1. job' \in [Jobs -> JobRow]
    <3>1. job[j] \in JobRow
      BY DEF TypeOK
    <3>2. [job[j] EXCEPT !.lapsed = TRUE] \in JobRow
      BY <3>1 DEF JobRow
    <3>3. job' = [job EXCEPT ![j] = [job[j] EXCEPT !.lapsed = TRUE]]
      BY <1>2 DEF LeaseLapses
    <3> QED
      BY <3>2, <3>3 DEF TypeOK
  <2> QED
    BY <1>2, <2>1 DEF LeaseLapses, TypeOK
<1>3. ASSUME job' = Orphaned PROVE job' \in [Jobs -> JobRow]
  <2>1. \A j \in Jobs : job'[j] \in {job[j], [job[j] EXCEPT !.owner = "dead"]}
    BY <1>3 DEF Orphaned
  <2>3. \A j \in Jobs : job[j] \in JobRow
    BY DEF TypeOK
  <2>4. \A r \in JobRow : [r EXCEPT !.owner = "dead"] \in JobRow
    BY Rows
  <2>2. \A j \in Jobs : job'[j] \in JobRow
    BY <2>1, <2>3, <2>4
  <2> QED
    BY <1>3, <2>2 DEF Orphaned
<1>4. CASE Crash
  <2>1. used' \in [stop : 0 .. MaxStops, collect : 0 .. MaxCollects, restart : 0 .. MaxRestarts]
    BY <1>4, SkillSessionAssumption DEF Crash, Use, TypeOK
  <2>2. creates' \in Nat
    BY <1>4 DEF Crash, TypeOK
  <2>3. task' \in [Slots -> TaskRow]
    BY <1>4, ConstantRows DEF Crash
  <2> QED
    BY <1>3, <1>4, <2>1, <2>2, <2>3, RecRows DEF Crash, TypeOK, RecType
<1>5. CASE Shutdown
  <2>1. used' \in [stop : 0 .. MaxStops, collect : 0 .. MaxCollects, restart : 0 .. MaxRestarts]
    BY <1>5, SkillSessionAssumption DEF Shutdown, Use, TypeOK
  <2> QED
    BY <1>5, <2>1, RecRows DEF Shutdown, TypeOK, RecType, rows
<1>6. CASE Start
  BY <1>3, <1>6 DEF Start, TypeOK
<1> QED
  BY <1>1, <1>2, <1>4, <1>5, <1>6

LEMMA TypesStep == ASSUME TypeOK, Kinds, Writer, [Next]_vars PROVE TypeOK'
<1>1. CASE Next
  BY <1>1, TaskTypes, RecTypes, RequestTypes, OtherTypes DEF Next
<1>2. CASE UNCHANGED vars
  BY <1>2 DEF vars, rows, TypeOK
<1> QED
  BY <1>1, <1>2

-----------------------------------------------------------------------------
(* What a step of a task does to its job and to the others.                 *)

\* The job ends with the task, or both go on.
JobEnds(t) ==
  /\ task'[t] = Idle
  /\ job'[task[t].job].state \in {"completed", "failed", "acceptance_unknown"}
GoesOn(t) ==
  /\ task'[t].pc # "idle" /\ task'[t].job = task[t].job
  /\ job'[task[t].job].state = "running" /\ job'[task[t].job].owner = "me"
  /\ task'[t].cp = job'[task[t].job].cp
Alone(t) ==
  /\ \A u \in Slots \ {t} : task'[u] = task[u]
  /\ \A j \in Jobs \ {task[t].job} : job'[j] = job[j]
  /\ job'[task[t].job].phase = Job(t).phase /\ job'[task[t].job].msg = Job(t).msg
  /\ job'[task[t].job].lapsed = Job(t).lapsed

LEMMA Holder ==
  ASSUME TypeOK, Kinds, Writer, NEW t \in Slots, Busy(t)
  PROVE  /\ Owned(t) /\ Job(t).state = "running" /\ task[t].cp = Job(t).cp
         /\ task[t].job \in Jobs /\ ~Job(t).lapsed
BY DEF Writer, Kinds

LEMMA RaiseMoves ==
  ASSUME TypeOK, Kinds, Writer, NEW t \in Slots, Busy(t), Raise(t)
  PROVE  Alone(t) /\ JobEnds(t)
<1>1. /\ task' = [task EXCEPT ![t] = Idle]
      /\ job' = [job EXCEPT ![task[t].job].state = Verdict(t, "acceptance_unknown", "failed"),
                            ![task[t].job].owner = "none"]
  BY Holder DEF Raise
<1>2. Verdict(t, "acceptance_unknown", "failed") \in {"failed", "acceptance_unknown"}
  BY DEF Verdict
<1>3. task' \in [Slots -> TaskRow] /\ job' \in [Jobs -> JobRow]
  BY Holder, RaiseTypes
<1>4. job'[task[t].job] = [Job(t) EXCEPT !.state = Verdict(t, "acceptance_unknown", "failed"),
                                         !.owner = "none"]
  BY <1>1, Holder DEF TypeOK, Job
<1>5. Job(t) \in JobRow
  BY TaskJob
<1> QED
  BY <1>1, <1>2, <1>4, <1>5, Holder DEF Alone, JobEnds, TypeOK, Job, JobRow

LEMMA CheckpointMoves ==
  ASSUME TypeOK, Kinds, Writer, NEW t \in Slots, Busy(t), NEW c \in Cp,
         NEW pc \in Places \ {"idle"}, Checkpoint(t, c, pc)
  PROVE  /\ Alone(t) /\ GoesOn(t) /\ task'[t].pc = pc /\ UNCHANGED <<run, msg>>
         /\ task'[t].gen = task[t].gen /\ job'[task[t].job].cp = c
<1>1. /\ job' = [job EXCEPT ![task[t].job].cp = c]
      /\ task' = [task EXCEPT ![t].cp = c, ![t].pc = pc]
      /\ UNCHANGED <<run, msg>>
  BY Holder DEF Checkpoint
<1>2. job'[task[t].job] = [Job(t) EXCEPT !.cp = c] /\ Job(t) \in JobRow
  BY <1>1, Holder, TaskJob DEF TypeOK, Job
<1>3. task'[t] = [task[t] EXCEPT !.cp = c, !.pc = pc] /\ task[t] \in TaskRow
  BY <1>1, TaskJob DEF TypeOK
<1> QED
  BY <1>1, <1>2, <1>3, Holder DEF Alone, GoesOn, TypeOK, Job, JobRow, TaskRow, Owned

LEMMA PlainMoves ==
  ASSUME TypeOK, Kinds, Writer, NEW t \in Slots, Busy(t), UNCHANGED job,
         NEW r \in TaskRow, task' = [task EXCEPT ![t] = r],
         r.pc # "idle", r.job = task[t].job, r.cp = task[t].cp
  PROVE  Alone(t) /\ GoesOn(t)
BY Holder DEF Alone, GoesOn, TypeOK, Job, Owned

LEMMA GoMoves ==
  ASSUME TypeOK, Kinds, Writer, NEW t \in Slots, Busy(t), UNCHANGED job,
         NEW pc \in Places \ {"idle"}, GoTo(t, pc)
  PROVE  Alone(t) /\ GoesOn(t) /\ task'[t].pc = pc /\ task'[t].gen = task[t].gen
<1>1. task[t] \in TaskRow /\ task \in [Slots -> TaskRow]
  BY TaskJob DEF TypeOK
<1>2. [task[t] EXCEPT !.pc = pc] \in TaskRow
  BY <1>1 DEF TaskRow, Places, Awaits, Opening
<1>3. task' = [task EXCEPT ![t] = [task[t] EXCEPT !.pc = pc]]
  BY DEF GoTo
<1>4. /\ [task[t] EXCEPT !.pc = pc].pc = pc
      /\ [task[t] EXCEPT !.pc = pc].job = task[t].job
      /\ [task[t] EXCEPT !.pc = pc].cp = task[t].cp
      /\ [task[t] EXCEPT !.pc = pc].gen = task[t].gen
  BY <1>1 DEF TaskRow
<1> QED
  BY <1>1, <1>2, <1>3, <1>4, PlainMoves

LEMMA QuietMoves ==
  ASSUME TypeOK, Kinds, Writer, NEW t \in Slots, Busy(t), UNCHANGED job,
         NEW pc \in Places \ {"idle"}, NEW q \in BOOLEAN,
         task' = [task EXCEPT ![t] = [task[t] EXCEPT !.pc = pc, !.quiet = q]]
  PROVE  Alone(t) /\ GoesOn(t) /\ task'[t].pc = pc /\ task'[t].gen = task[t].gen
<1> DEFINE r == [task[t] EXCEPT !.pc = pc, !.quiet = q]
<1>1. task[t] \in TaskRow /\ task \in [Slots -> TaskRow]
  BY TaskJob DEF TypeOK
<1>2. r \in TaskRow
  BY <1>1, QuietRow
<1>4. r.pc = pc /\ r.job = task[t].job /\ r.cp = task[t].cp /\ r.gen = task[t].gen
  BY <1>1 DEF TaskRow
<1> HIDE DEF r
<1>3. task' = [task EXCEPT ![t] = r]
  BY DEF r
<1> QED
  BY <1>1, <1>2, <1>3, <1>4, PlainMoves

LEMMA TokenMoves ==
  ASSUME TypeOK, Kinds, Writer, NEW t \in Slots, Busy(t), UNCHANGED job,
         NEW told \in BOOLEAN, NEW token \in BOOLEAN \X (0 .. MaxStops),
         task' = [task EXCEPT ![t] = [task[t] EXCEPT !.token = token, !.told = told]]
  PROVE  Alone(t) /\ GoesOn(t) /\ task'[t].pc = task[t].pc /\ task'[t].gen = task[t].gen
<1> DEFINE r == [task[t] EXCEPT !.token = token, !.told = told]
<1>1. task[t] \in TaskRow /\ task \in [Slots -> TaskRow]
  BY TaskJob DEF TypeOK
<1>2. r \in TaskRow
  BY <1>1, TokenRow
<1>4. /\ r.pc = task[t].pc /\ r.job = task[t].job /\ r.cp = task[t].cp
      /\ r.gen = task[t].gen
  BY <1>1 DEF TaskRow
<1> HIDE DEF r
<1>3. task' = [task EXCEPT ![t] = r]
  BY DEF r
<1> QED
  BY <1>1, <1>2, <1>3, <1>4, PlainMoves DEF Busy

\* Where a task stands fits its job.
Fits(t, pc) ==
  /\ pc \in Before \union Chatting => Job(t).phase \in Delivering
  /\ pc \in {"open_chat", "watch", "turn"} => Job(t).phase \in Watching
  /\ pc \in Creating => Job(t).phase = "prepare"

LEMMA TaskMoves ==
  ASSUME TypeOK, Kinds, Writer, NEW t \in Slots, TaskStep(t) \/ Control(t)
  PROVE  /\ Busy(t) /\ Alone(t) /\ UNCHANGED rec
         /\ JobEnds(t) \/ (GoesOn(t) /\ Fits(t, task'[t].pc))
<1> USE DEF Places, Awaits, Opening
<1>0. Busy(t) => Fits(t, task[t].pc)
  BY DEF Kinds, Fits
<1>1. CASE Begin(t)
  <2>1. Busy(t)
    BY <1>1 DEF Begin, Turn, Busy
  <2>2. Job(t).phase \in {"prepare", "message", "observe", "finish", "collect"}
    BY <2>1, TaskJob DEF JobRow
  <2>3. PICK pc \in {"unsent", "prepare", "deliver", "open_chat", "collect", "fix"}, q \in BOOLEAN :
          /\ task' = [task EXCEPT ![t].pc = pc, ![t].quiet = q]
          /\ pc \in {"unsent", "deliver"} => Job(t).phase \in Delivering
          /\ pc = "prepare" => Job(t).phase = "prepare"
          /\ pc = "open_chat" => Job(t).phase = "observe"
    BY <1>1, <2>2 DEF Begin, Delivering
  <2>5. task' = [task EXCEPT ![t] = [task[t] EXCEPT !.pc = pc, !.quiet = q]]
    BY <2>3
  <2>7. UNCHANGED job /\ pc \in Places \ {"idle"}
    BY <1>1 DEF Begin, rows
  <2>6. Alone(t) /\ GoesOn(t) /\ task'[t].pc = pc
    BY <2>1, <2>5, <2>7, QuietMoves
  <2> QED
    BY <1>1, <2>1, <2>3, <2>6
    DEF Begin, Fits, Before, Creating, Chatting, Watching, Delivering
<1>2. CASE CancelUnsent(t) \/ Prepare(t) \/ CreateSession(t) \/ Upload(t) \/ ChatAccepted(t)
          \/ SeeEnd(t) \/ GenerationEnd(t) \/ Gather(t)
  <2>1. Busy(t) /\ UNCHANGED <<job, rec>>
    BY <1>2 DEF CancelUnsent, Prepare, CreateSession, Upload, ChatAccepted, SeeEnd,
                GenerationEnd, Gather, Turn, Busy, rows
  <2>2. PICK pc \in {"complete", "open_create", "deliver", "open_upload", "created", "uploaded",
                   "chat", "ended", "turn", "history", "fix"} : GoTo(t, pc) /\ Fits(t, pc)
    <3>1. CASE CancelUnsent(t)
      <4>1. GoTo(t, "complete") /\ Fits(t, "complete")
        BY <1>0, <2>1, <3>1
        DEF CancelUnsent, Turn, Fits, Before, Creating, Chatting, Delivering, Watching
      <4> QED
        BY <4>1
    <3>2. CASE Prepare(t)
      <4>1. PICK pc \in {"open_create", "deliver", "open_upload"} : GoTo(t, pc)
        BY <3>2 DEF Prepare, AfterSession
      <4>2. Fits(t, pc)
        BY <1>0, <2>1, <3>2, <4>1
        DEF Prepare, Turn, Fits, Before, Creating, Chatting, Delivering, Watching
      <4> QED
        BY <4>1, <4>2
    <3>3. CASE CreateSession(t)
      <4>1. GoTo(t, "created") /\ Fits(t, "created")
        BY <1>0, <2>1, <3>3
        DEF CreateSession, Turn, Fits, Before, Creating, Chatting, Delivering, Watching
      <4> QED
        BY <4>1
    <3>4. CASE Upload(t)
      <4>1. GoTo(t, "uploaded") /\ Fits(t, "uploaded")
        BY <1>0, <2>1, <3>4
        DEF Upload, Turn, Fits, Before, Creating, Chatting, Delivering, Watching
      <4> QED
        BY <4>1
    <3>5. CASE ChatAccepted(t)
      <4>1. GoTo(t, "chat") /\ Fits(t, "chat")
        BY <1>0, <2>1, <3>5
        DEF ChatAccepted, Turn, Fits, Before, Creating, Chatting, Delivering, Watching
      <4> QED
        BY <4>1
    <3>6. CASE SeeEnd(t)
      <4>1. \/ GoTo(t, "ended") /\ task[t].pc = "chat"
            \/ GoTo(t, "turn") /\ task[t].pc = "watch"
        BY <3>6 DEF SeeEnd, Turn
      <4>2. CASE GoTo(t, "ended") /\ task[t].pc = "chat"
        BY <1>0, <2>1, <4>2 DEF Fits, Before, Creating, Chatting, Delivering, Watching
      <4>3. CASE GoTo(t, "turn") /\ task[t].pc = "watch"
        BY <1>0, <2>1, <4>3 DEF Fits, Before, Creating, Chatting, Delivering, Watching
      <4> QED
        BY <4>1, <4>2, <4>3
    <3>7. CASE GenerationEnd(t)
      <4>1. GoTo(t, "history") /\ Fits(t, "history")
        BY <1>0, <2>1, <3>7
        DEF GenerationEnd, Turn, Fits, Before, Creating, Chatting, Delivering, Watching
      <4> QED
        BY <4>1
    <3>8. CASE Gather(t)
      <4>1. GoTo(t, "fix") /\ Fits(t, "fix")
        BY <1>0, <2>1, <3>8
        DEF Gather, Turn, Fits, Before, Creating, Chatting, Delivering, Watching
      <4> QED
        BY <4>1
    <3> QED
      BY <1>2, <3>1, <3>2, <3>3, <3>4, <3>5, <3>6, <3>7, <3>8
  <2> QED
    BY <2>1, <2>2, GoMoves
<1>3. CASE Open(t)
  <2>1. Busy(t) /\ UNCHANGED rec
    BY <1>3 DEF Open, OpenAt, Turn, Busy
  <2>2. PICK c \in Cp, pc \in {"create", "upload", "watch", "chat"} :
          Checkpoint(t, c, pc) /\ Fits(t, pc)
    BY <1>0, <1>3, <2>1, TaskJob DEF Open, OpenAt, Turn, Cp, Fits, Before, Creating, Chatting,
       Watching, Delivering
  <2> QED
    BY <2>1, <2>2, CheckpointMoves
<1>4. CASE Close(t)
  <2>1. Busy(t) /\ UNCHANGED rec
    BY <1>4 DEF Close, CloseAt, Turn, Busy
  <2>2. [task[t].cp EXCEPT !.phase = "rest"] \in Cp
    BY <2>1, TaskJob DEF Cp
  <2>3. \/ Raise(t)
        \/ \E c \in Cp, pc \in {"deliver", "open_upload", "turn"} :
             Checkpoint(t, c, pc) /\ Fits(t, pc)
    BY <1>0, <1>4, <2>1, <2>2 DEF Close, CloseAt, Turn, AfterSession, Fits, Before, Creating,
       Chatting, Watching, Delivering
  <2> QED
    BY <2>1, <2>3, CheckpointMoves, RaiseMoves
<1>5. CASE Deliver(t)
  <2>1. Busy(t) /\ UNCHANGED rec
    BY <1>5 DEF Deliver, Turn, Busy
  <2>2. \/ Raise(t)
        \/ UNCHANGED job /\ \E pc \in {"open_upload", "start"} : GoTo(t, pc) /\ Fits(t, pc)
    BY <1>0, <1>5, <2>1
    DEF Deliver, Turn, Fits, Before, Creating, Chatting, Watching, Delivering
  <2> QED
    BY <2>1, <2>2, GoMoves, RaiseMoves
<1>6. CASE StartGeneration(t)
  <2>1. Busy(t) /\ UNCHANGED <<job, rec>> /\ task[t] \in TaskRow
    BY <1>6, TaskJob DEF StartGeneration, Turn, Busy
  <2>2. CASE Halted
    BY <1>6, <2>1, <2>2, GoMoves
    DEF StartGeneration, Turn, Fits, Before, Creating, Chatting, Watching, Delivering
  <2>3. CASE ~Halted
    <3>1. PICK g \in Gens : task' = [task EXCEPT ![t].pc = "open_chat", ![t].gen = g]
      BY <1>6, <2>3, FirstOf DEF StartGeneration, NextGen
    <3>2. task' = [task EXCEPT ![t] = [task[t] EXCEPT !.pc = "open_chat", !.gen = g]]
      BY <3>1
    <3>3. /\ [task[t] EXCEPT !.pc = "open_chat", !.gen = g].pc = "open_chat"
          /\ [task[t] EXCEPT !.pc = "open_chat", !.gen = g].job = task[t].job
          /\ [task[t] EXCEPT !.pc = "open_chat", !.gen = g].cp = task[t].cp
      BY <2>1 DEF TaskRow
    <3>4. Alone(t) /\ GoesOn(t)
      BY <2>1, <3>2, <3>3, Rows, PlainMoves
    <3>5. task'[t].pc = "open_chat"
      BY <3>2, <3>3 DEF TypeOK
    <3> QED
      BY <1>0, <1>6, <2>1, <3>4, <3>5
      DEF StartGeneration, Turn, Fits, Before, Creating, Chatting, Watching, Delivering
  <2> QED
    BY <2>2, <2>3
<1>7. CASE Send(t)
  <2>1. Busy(t) /\ UNCHANGED <<job, task, rec>> /\ task[t] \in TaskRow
    BY <1>7, TaskJob DEF Send, Turn, Busy, rows
  <2>2. task' = [task EXCEPT ![t] = task[t]]
    BY <2>1 DEF TypeOK
  <2> QED
    BY <1>0, <2>1, <2>2, PlainMoves DEF Busy
<1>8. CASE ChatStarts(t)
  <2>1. Busy(t) /\ UNCHANGED <<job, rec>> /\ task[t] \in TaskRow
    BY <1>8, TaskJob DEF ChatStarts, Turn, Busy
  <2>2. task' = [task EXCEPT ![t] = [task[t] EXCEPT !.pc = "started", !.seen = TRUE]]
    BY <1>8 DEF ChatStarts
  <2>3. /\ [task[t] EXCEPT !.pc = "started", !.seen = TRUE] \in TaskRow
        /\ [task[t] EXCEPT !.pc = "started", !.seen = TRUE].pc = "started"
        /\ [task[t] EXCEPT !.pc = "started", !.seen = TRUE].job = task[t].job
        /\ [task[t] EXCEPT !.pc = "started", !.seen = TRUE].cp = task[t].cp
    BY <2>1 DEF TaskRow
  <2>4. Alone(t) /\ GoesOn(t)
    BY <2>1, <2>2, <2>3, PlainMoves
  <2>5. task'[t].pc = "started"
    BY <2>2, <2>3 DEF TypeOK
  <2> QED
    BY <1>0, <1>8, <2>1, <2>4, <2>5
    DEF ChatStarts, Turn, Fits, Before, Creating, Chatting, Watching, Delivering
<1>9. CASE Collect(t)
  <2>1. Busy(t) /\ UNCHANGED <<job, rec>> /\ task[t] \in TaskRow
    BY <1>9, TaskJob DEF Collect, Turn, Busy, rows
  <2>2. CASE UNCHANGED task
    <3>1. task' = [task EXCEPT ![t] = task[t]]
      BY <2>2 DEF TypeOK
    <3> QED
      BY <1>0, <2>1, <2>2, <3>1, PlainMoves DEF Busy
  <2>3. CASE \E quiet \in {FALSE, Quiet} :
          task' = [task EXCEPT ![t].pc = IF quiet THEN "gather" ELSE "fix", ![t].quiet = quiet]
    <3>1. PICK quiet \in {FALSE, Quiet} :
          task' = [task EXCEPT ![t].pc = IF quiet THEN "gather" ELSE "fix", ![t].quiet = quiet]
      BY <2>3
    <3>2. \E q \in BOOLEAN : quiet = q
      BY DEF Quiet
    <3>3. PICK q \in BOOLEAN, pc \in {"gather", "fix"} :
            task' = [task EXCEPT ![t] = [task[t] EXCEPT !.pc = pc, !.quiet = q]]
      BY <3>1, <3>2
    <3>4. Alone(t) /\ GoesOn(t) /\ task'[t].pc = pc
      BY <2>1, <3>3, QuietMoves
    <3> QED
      BY <2>1, <3>4 DEF Fits, Before, Creating, Chatting
  <2> QED
    BY <1>9, <2>2, <2>3 DEF Collect
<1>10. CASE Fix(t)
  <2>1. Busy(t) /\ UNCHANGED rec
    BY <1>10 DEF Fix, Turn, Busy
  <2>2. UNCHANGED job /\ GoTo(t, "complete")
    BY <1>10, <2>1, Holder DEF Fix
  <2> QED
    BY <2>1, <2>2, GoMoves DEF Fits, Before, Creating, Chatting
<1>11. CASE Complete(t)
  <2>1. Busy(t) /\ UNCHANGED rec
    BY <1>11 DEF Complete, Turn, Busy
  <2>2. job' = [job EXCEPT ![task[t].job].state = "completed", ![task[t].job].owner = "none"]
    BY <1>11, <2>1, Holder DEF Complete
  <2>3. job'[task[t].job] = [Job(t) EXCEPT !.state = "completed", !.owner = "none"]
        /\ Job(t) \in JobRow
    BY <2>1, <2>2, Holder, TaskJob DEF TypeOK, Job
  <2> QED
    BY <1>11, <2>1, <2>2, <2>3, Holder DEF Complete, Alone, JobEnds, TypeOK, Job, JobRow
<1>12. CASE Interrupted(t)
  <2>1. Busy(t) /\ UNCHANGED rec /\ Raise(t)
    BY <1>12 DEF Interrupted, Busy
  <2> QED
    BY <2>1, RaiseMoves
<1>13. CASE Control(t)
  <2>1. Busy(t) /\ UNCHANGED <<job, rec>> /\ task[t] \in TaskRow
    BY <1>13, TaskJob DEF Control, Busy, rows
  <2>2. run.finish \in BOOLEAN /\ run.stop \in 0 .. MaxStops
    BY DEF TypeOK, RunRow
  <2>7. PICK told \in BOOLEAN, token \in BOOLEAN \X (0 .. MaxStops) :
          task' = [task EXCEPT ![t].token = token, ![t].told = told]
    BY <1>13, <2>2 DEF Control
  <2>3. task' = [task EXCEPT ![t] = [task[t] EXCEPT !.token = token, !.told = told]]
    BY <2>7
  <2>4. Alone(t) /\ GoesOn(t) /\ task'[t].pc = task[t].pc
    BY <2>1, <2>3, TokenMoves
  <2> QED
    BY <1>0, <2>1, <2>4
<1> QED
  BY <1>1, <1>2, <1>3, <1>4, <1>5, <1>6, <1>7, <1>8, <1>9, <1>10, <1>11, <1>12, <1>13
  DEF TaskStep

-----------------------------------------------------------------------------
(* Only one of them acts on the run.                                        *)

LEMMA AloneAtWork ==
  ASSUME TypeOK, Kinds, Writer, NEW t \in Slots, Busy(t)
  PROVE  /\ rec.pc = "idle"
         /\ \A u \in Slots : u # t => task[u].pc = "idle"
         /\ \A j \in Jobs : job[j].state \in AtWork => j = task[t].job
<1>1. \A j \in Jobs : job[j].state \in AtWork => j = task[t].job
  BY Holder DEF Writer, AtWork, Job
<1>2. rec.pc # "idle" => rec.job \in Jobs
  BY DEF Kinds
<1>3. rec.pc # "chosen"
  BY <1>1, <1>2, Holder DEF Writer, Lapsed, AtWork, Job
<1>4. rec.pc \notin {"taken", "query"}
  BY <1>1, <1>2, Holder DEF Writer, AtWork, Job
<1>5. rec.pc \in {"idle", "chosen", "taken", "query"}
  BY DEF TypeOK
<1> QED
  BY <1>1, <1>3, <1>4, <1>5 DEF Writer, Busy

LEMMA TaskKeepsWriter ==
  ASSUME TypeOK, Kinds, Writer, NEW t \in Slots, TaskStep(t) \/ Control(t)
  PROVE  Kinds' /\ Writer'
<1>1. /\ Busy(t) /\ Alone(t) /\ UNCHANGED rec
      /\ JobEnds(t) \/ (GoesOn(t) /\ Fits(t, task'[t].pc))
  BY TaskMoves
<1>2. /\ rec'.pc = "idle"
      /\ \A u \in Slots : u # t => task'[u].pc = "idle"
      /\ \A j \in Jobs : job'[j].state \in AtWork => j = task[t].job
  BY <1>1, AloneAtWork DEF Alone
<1>3. task[t].job \in Jobs /\ Job(t).phase # "none" /\ ~Job(t).lapsed
  BY <1>1, TaskJob, Holder
<1>4. \A j \in Jobs : job'[j].phase = job[j].phase /\ job'[j].msg = job[j].msg
  BY <1>1 DEF Alone, Job
<1>5. \A j \in Jobs :
        /\ job'[j].state # "none" => job'[j].phase # "none"
        /\ job'[j].phase \in Watching => job'[j].msg \in Messages
        /\ job'[j].phase = "prepare" => j = 1
  BY <1>1, <1>3, <1>4 DEF Kinds, Alone, Job
<1>6. CASE JobEnds(t)
  <2>1. \A u \in Slots : ~Busy(u)'
    BY <1>2, <1>6 DEF JobEnds, Busy, Idle
  <2>2. \A j \in Jobs : job'[j].state \notin AtWork
    BY <1>2, <1>6 DEF JobEnds, AtWork
  <2> QED
    BY <1>2, <1>5, <2>1, <2>2 DEF Kinds, Writer
<1>7. CASE GoesOn(t) /\ Fits(t, task'[t].pc)
  <2>1. \A u \in Slots : Busy(u)' => u = t
    BY <1>2 DEF Busy
  <2>2. task'[t].job = task[t].job /\ Job(t)' = job'[task[t].job]
        /\ Job(t)'.phase = Job(t).phase
    BY <1>4, <1>3, <1>7 DEF GoesOn, Job
  <2>3. Kinds'
    BY <1>2, <1>3, <1>5, <1>7, <2>1, <2>2 DEF Kinds, Fits
  <2>4. /\ Job(t)'.state = "running" /\ Owned(t)' /\ ~Job(t)'.lapsed
        /\ task'[t].cp = Job(t)'.cp
    BY <1>1, <1>3, <1>7, <2>2 DEF GoesOn, Alone, Owned, Job
  <2> QED
    BY <1>2, <2>1, <2>3, <2>4 DEF Writer
<1> QED
  BY <1>1, <1>6, <1>7

LEMMA ClaimMoves ==
  ASSUME TypeOK, Kinds, Writer, NEW t \in Slots, Claim(t)
  PROVE  \E j \in Jobs :
           /\ job[j].state = "pending" /\ job[j] \in JobRow
           /\ \A i \in Jobs : job[i].state \notin AtWork
           /\ \A i \in Jobs \ {j} : job'[i] = job[i]
           /\ job' \in [Jobs -> JobRow] /\ job'[j].state = "running" /\ job'[j].owner = "me"
           /\ ~job'[j].lapsed
           /\ job'[j].phase = job[j].phase /\ job'[j].msg = job[j].msg /\ job'[j].cp = job[j].cp
           /\ rec'.pc = "idle" /\ UNCHANGED rec
           /\ \A u \in Slots : task[u].pc = "idle" /\ (u # t => task'[u] = task[u])
           /\ task'[t].pc = "begin" /\ task'[t].job = j /\ task'[t].cp = job[j].cp
           /\ task'[t].gen = job[j].gen
<1>1. PICK j \in Jobs :
        /\ job[j].state = "pending"
        /\ job' = [job EXCEPT ![j].state = "running", ![j].owner = "me", ![j].lapsed = FALSE]
        /\ task' = [task EXCEPT ![t] = [Idle EXCEPT !.pc = "begin", !.job = j,
                                                    !.gen = job[j].gen, !.cp = job[j].cp]]
  BY FirstOf DEF Claim, Claimable, Waiting
<1>2. \A i \in Jobs : job[i].state \notin AtWork
  BY DEF Claim, Claimable
<1>3. \A u \in Slots : task[u].pc = "idle"
  BY <1>2, Holder DEF Busy, AtWork, Job
<1>4. job[j] \in JobRow
  BY DEF TypeOK
<1>5. job' = [job EXCEPT ![j] = [job[j] EXCEPT !.state = "running", !.owner = "me",
                                               !.lapsed = FALSE]]
  BY <1>1
<1>6. /\ [job[j] EXCEPT !.state = "running", !.owner = "me", !.lapsed = FALSE] \in JobRow
      /\ job'[j] = [job[j] EXCEPT !.state = "running", !.owner = "me", !.lapsed = FALSE]
  BY <1>4, <1>5, Rows DEF TypeOK
<1>7. /\ job'[j].state = "running" /\ job'[j].owner = "me" /\ ~job'[j].lapsed
      /\ job'[j].phase = job[j].phase /\ job'[j].msg = job[j].msg /\ job'[j].cp = job[j].cp
  BY <1>4, <1>6 DEF JobRow
<1>8. task'[t] = [Idle EXCEPT !.pc = "begin", !.job = j, !.gen = job[j].gen, !.cp = job[j].cp]
      /\ \A u \in Slots : u # t => task'[u] = task[u]
  BY <1>1 DEF TypeOK
<1>9. task'[t].pc = "begin" /\ task'[t].job = j /\ task'[t].cp = job[j].cp
      /\ task'[t].gen = job[j].gen
  BY <1>8 DEF Idle
<1>10. job' \in [Jobs -> JobRow] /\ \A i \in Jobs \ {j} : job'[i] = job[i]
  BY <1>5, <1>6 DEF TypeOK
<1> QED
  BY <1>1, <1>2, <1>3, <1>4, <1>7, <1>8, <1>9, <1>10 DEF Claim

LEMMA ClaimKeepsWriter ==
  ASSUME TypeOK, Kinds, Writer, NEW t \in Slots, Claim(t)
  PROVE  Kinds' /\ Writer'
<1>1. PICK j \in Jobs :
        /\ job[j].state = "pending" /\ job[j] \in JobRow
        /\ \A i \in Jobs : job[i].state \notin AtWork
        /\ \A i \in Jobs \ {j} : job'[i] = job[i]
        /\ job' \in [Jobs -> JobRow] /\ job'[j].state = "running" /\ job'[j].owner = "me"
        /\ ~job'[j].lapsed
        /\ job'[j].phase = job[j].phase /\ job'[j].msg = job[j].msg /\ job'[j].cp = job[j].cp
        /\ rec'.pc = "idle" /\ UNCHANGED rec
        /\ \A u \in Slots : task[u].pc = "idle" /\ (u # t => task'[u] = task[u])
        /\ task'[t].pc = "begin" /\ task'[t].job = j /\ task'[t].cp = job[j].cp
        /\ task'[t].gen = job[j].gen
  BY ClaimMoves
<1>2. \A i \in Jobs :
        /\ job'[i].phase = job[i].phase /\ job'[i].msg = job[i].msg
        /\ job'[i].state # "none" => job[i].state # "none"
        /\ job'[i].state \in AtWork => i = j
  BY <1>1
<1>3. \A u \in Slots : Busy(u)' => u = t
  BY <1>1 DEF Busy
<1>4. Job(t)' = job'[j]
  BY <1>1 DEF Job
<1>5. Kinds'
  BY <1>1, <1>2, <1>3, <1>4 DEF Kinds, Before, Creating, Chatting
<1>6. Owned(t)'
  BY <1>1, <1>4 DEF Owned
<1> QED
  BY <1>1, <1>2, <1>3, <1>4, <1>5, <1>6 DEF Writer

\* A reconciliation acts while every task is idle, and it touches its own job and
\* the one it creates.
Outcomes == {"pending", "completed", "acceptance_unknown"}
LEMMA RecAlone ==
  ASSUME TypeOK, Kinds, Writer, rec.pc # "idle"
  PROVE  /\ \A u \in Slots : task[u].pc = "idle"
         /\ rec.job \in Jobs /\ job[rec.job].state \in AtWork
         /\ \A j \in Jobs : job[j].state \in AtWork => j = rec.job
<1>1. \A u \in Slots : task[u].pc = "idle"
  BY AloneAtWork DEF Busy
<1>2. rec.pc \in {"chosen", "taken", "query"}
  BY DEF TypeOK
<1>3. rec.job \in Jobs /\ job[rec.job].state \in AtWork
  BY <1>2 DEF Kinds, Writer, Lapsed, AtWork
<1> QED
  BY <1>1, <1>3 DEF Writer

LEMMA OutcomeMoves ==
  ASSUME TypeOK, Kinds, Writer, rec.pc # "idle", NEW s \in Outcomes, Outcome(s)
  PROVE  /\ job'[rec.job].state = s
         /\ \A j \in Jobs \ {rec.job} : job'[j] = job[j]
         /\ job'[rec.job].phase = job[rec.job].phase /\ job'[rec.job].msg = job[rec.job].msg
         /\ job'[rec.job].cp = job[rec.job].cp
<1>1. job[rec.job] \in JobRow /\ rec.job \in Jobs
  BY RecJob
<1>2. job' = [job EXCEPT ![rec.job] = [job[rec.job] EXCEPT !.state = s]]
  BY DEF Outcome
<1>3. job'[rec.job] = [job[rec.job] EXCEPT !.state = s]
      /\ \A j \in Jobs \ {rec.job} : job'[j] = job[j]
  BY <1>1, <1>2 DEF TypeOK
<1> QED
  BY <1>1, <1>3 DEF JobRow

\* What a reconciliation does to the rows, from its choice to its end.
RecEnds ==
  /\ rec.pc \in {"taken", "query"} /\ rec' = NoRec
  /\ job'[rec.job].state \in Outcomes
  /\ job'[rec.job].state = "pending" =>
       /\ run.session \/ ~Started(rec.cp)
       /\ \/ job[rec.job].phase \in {"finish", "collect"} \/ job[rec.job].msg = 0
          \/ msg[job[rec.job].msg].state = "pending"
  /\ job'[rec.job].phase = job[rec.job].phase /\ job'[rec.job].msg = job[rec.job].msg
  /\ job'[rec.job].cp = job[rec.job].cp
  /\ \A j \in Jobs \ {rec.job} :
       \/ job'[j] = job[j]
       \/ /\ job[j] = NoJob /\ job[rec.job].phase \in Watching /\ \E g \in Gens \union {0} :
             job'[j] = Pending("observe", job[rec.job].msg, g)
          /\ rec.accepted /\ rec.pc = "query" /\ job'[rec.job].state = "completed"
RecAsks ==
  /\ rec.pc = "taken" /\ rec'.pc = "query" /\ rec'.job = rec.job /\ rec'.cp = rec.cp
  /\ job[rec.job].phase \in Watching /\ run.session /\ UNCHANGED <<job, run>>
  /\ rec'.accepted = (msg[job[rec.job].msg].state = "sent")
RecTakes ==
  /\ rec.pc = "chosen" /\ rec'.pc = "taken" /\ rec'.job = rec.job /\ rec'.cp = rec.cp
  /\ job'[rec.job].state = "reconciling"
  /\ job'[rec.job].phase = job[rec.job].phase /\ job'[rec.job].msg = job[rec.job].msg
  /\ job'[rec.job].cp = job[rec.job].cp
  /\ \A j \in Jobs \ {rec.job} : job'[j] = job[j]
RecScans ==
  /\ rec.pc = "idle" /\ UNCHANGED <<run, job>>
  /\ \E j \in Jobs : /\ Lapsed(j) /\ rec'.pc = "chosen" /\ rec'.job = j /\ rec'.cp = job[j].cp

LEMMA RecMoves ==
  ASSUME TypeOK, Kinds, Writer, RecStep
  PROVE  /\ UNCHANGED <<msg, trigger, task, creates, remote>>
         /\ run'.session = run.session /\ run'.inputs = run.inputs
         /\ RecScans \/ RecTakes \/ RecAsks \/ RecEnds
<1>0. rec \in RecType /\ run \in RunRow
  BY DEF TypeOK, RecType
<1>1. CASE Scan
  <2>1. PICK j \in Jobs :
          Lapsed(j) /\ rec' = [NoRec EXCEPT !.pc = "chosen", !.job = j, !.cp = job[j].cp]
    BY <1>1 DEF Scan
  <2>2. rec'.pc = "chosen" /\ rec'.job = j /\ rec'.cp = job[j].cp
    BY <2>1 DEF NoRec
  <2> QED
    BY <1>1, <2>1, <2>2 DEF Scan, RecScans, rows
<1>2. CASE TakeOver
  <2>1. Lapsed(rec.job) /\ job[rec.job] \in JobRow /\ rec.job \in Jobs
    BY <1>2, RecJob DEF TakeOver, Writer
  <2>2. job' = [job EXCEPT ![rec.job] = [job[rec.job] EXCEPT !.state = "reconciling",
                                                             !.owner = "none"]]
        /\ rec' = [rec EXCEPT !.pc = "taken"]
    BY <1>2, <2>1 DEF TakeOver
  <2>3. job'[rec.job] = [job[rec.job] EXCEPT !.state = "reconciling", !.owner = "none"]
        /\ \A j \in Jobs \ {rec.job} : job'[j] = job[j]
    BY <2>1, <2>2 DEF TypeOK
  <2>4. rec'.pc = "taken" /\ rec'.job = rec.job /\ rec'.cp = rec.cp
    BY <1>0, <2>2 DEF RecType
  <2>5. /\ job'[rec.job].state = "reconciling"
        /\ job'[rec.job].phase = job[rec.job].phase /\ job'[rec.job].msg = job[rec.job].msg
        /\ job'[rec.job].cp = job[rec.job].cp
    BY <2>1, <2>3 DEF JobRow
  <2> QED
    BY <1>2, <2>3, <2>4, <2>5 DEF TakeOver, RecTakes
<1>3. ASSUME rec.pc \in {"taken", "query"}, Unknown(run.gen) \/ Unknown("failed")
      PROVE  RecEnds /\ run'.session = run.session /\ run'.inputs = run.inputs
  <2>1. run'.session = run.session /\ run'.inputs = run.inputs
    BY <1>0, <1>3 DEF Unknown, RunRow
  <2>2. Outcome("acceptance_unknown") /\ rec' = NoRec
    BY <1>3 DEF Unknown
  <2> QED
    BY <1>3, <2>1, <2>2, OutcomeMoves DEF RecEnds, Outcomes
<1>4. CASE Decide
  <2>1. CASE Unknown(run.gen) \/ Unknown("failed")
    BY <1>3, <1>4, <2>1 DEF Decide
  <2>2. CASE /\ Outcome("pending") /\ rec' = NoRec /\ UNCHANGED run
             /\ run.session \/ ~Started(rec.cp)
             /\ job[rec.job].phase \in {"finish", "collect"} \/ Safe(job[rec.job].msg)
    BY <1>4, <2>2, OutcomeMoves DEF Decide, RecEnds, Outcomes, Safe
  <2>3. CASE /\ run.session /\ job[rec.job].phase \notin {"finish", "collect"}
             /\ rec' = [rec EXCEPT !.pc = "query",
                                   !.accepted = msg[job[rec.job].msg].state = "sent"]
             /\ UNCHANGED <<run, job>>
    <3>1. job[rec.job].phase \in Watching
      <4>1. job[rec.job] \in JobRow /\ job[rec.job].phase # "none"
        BY <1>4, RecJob, RecAlone DEF Decide, Kinds, AtWork
      <4> QED
        BY <2>3, <4>1 DEF JobRow, Watching, Delivering
    <3>2. rec'.pc = "query" /\ rec'.job = rec.job /\ rec'.cp = rec.cp
          /\ rec'.accepted = (msg[job[rec.job].msg].state = "sent")
      BY <1>0, <2>3 DEF RecType
    <3> QED
      BY <1>4, <2>3, <3>1, <3>2 DEF Decide, RecAsks
  <2> QED
    BY <1>4, <2>1, <2>2, <2>3 DEF Decide
<1>5. CASE QueryFails
  BY <1>3, <1>5 DEF QueryFails
<1>6. CASE NotReplayed
  BY <1>3, <1>6 DEF NotReplayed
<1>7. CASE Restore
  <2>1. run'.session = run.session /\ run'.inputs = run.inputs
    BY <1>0, <1>7 DEF Restore, RunRow
  <2> QED
    BY <1>7, <2>1, OutcomeMoves DEF Restore, RecEnds, Outcomes
<1>8. CASE Observe
  <2>1. RecGen \in Gens \union {0} /\ rec.job \in Jobs /\ job[rec.job] \in JobRow
    BY <1>8, RecJob DEF Observe, RecGen, Cp
  <2>2. PICK n \in NextJob :
          job' = [job EXCEPT ![rec.job].state = "completed",
                             ![n] = Pending("observe", job[rec.job].msg, RecGen)]
    BY <1>8 DEF Observe
  <2>3. n \in Jobs /\ job[n] = NoJob
    BY FirstOf DEF NextJob
  <2>4. n # rec.job
    BY <1>8, <2>3, RecAlone DEF Observe, NoJob, AtWork
  <2>5. job' = [[job EXCEPT ![rec.job] = [job[rec.job] EXCEPT !.state = "completed"]]
                  EXCEPT ![n] = Pending("observe", job[rec.job].msg, RecGen)]
    BY <2>2
  <2>6. /\ job'[rec.job] = [job[rec.job] EXCEPT !.state = "completed"]
        /\ job'[n] = Pending("observe", job[rec.job].msg, RecGen)
        /\ \A j \in Jobs \ {rec.job, n} : job'[j] = job[j]
    BY <2>1, <2>3, <2>4, <2>5 DEF TypeOK
  <2>7. /\ job'[rec.job].state = "completed"
        /\ job'[rec.job].phase = job[rec.job].phase /\ job'[rec.job].msg = job[rec.job].msg
        /\ job'[rec.job].cp = job[rec.job].cp
    BY <2>1, <2>6 DEF JobRow
  <2>8. job[rec.job].phase \in Watching
    BY <1>8 DEF Observe, Kinds
  <2>9. \A j \in Jobs \ {rec.job} :
          \/ job'[j] = job[j]
          \/ /\ job[j] = NoJob
             /\ \E g \in Gens \union {0} : job'[j] = Pending("observe", job[rec.job].msg, g)
    BY <2>1, <2>3, <2>6
  <2> QED
    BY <1>8, <2>7, <2>8, <2>9 DEF Observe, RecEnds, Outcomes
<1> QED
  BY <1>1, <1>2, <1>4, <1>5, <1>6, <1>7, <1>8 DEF RecStep

LEMMA PendingRow ==
  \A phase, m, g : /\ Pending(phase, m, g).phase = phase /\ Pending(phase, m, g).msg = m
                   /\ Pending(phase, m, g).state = "pending"
BY DEF Pending, NoJob

LEMMA RecKeepsWriter == ASSUME TypeOK, Kinds, Writer, RecStep PROVE Kinds' /\ Writer'
<1>0. /\ UNCHANGED task /\ run'.session = run.session
      /\ RecScans \/ RecTakes \/ RecAsks \/ RecEnds
  BY RecMoves
<1>1. CASE RecScans
  BY <1>0, <1>1 DEF RecScans, Kinds, Writer, Busy, Job, Owned, Lapsed
<1>2. ASSUME rec.pc # "idle"
      PROVE  /\ \A u \in Slots : ~Busy(u)'
             /\ rec.job \in Jobs
             /\ job[rec.job].state \in AtWork
             /\ \A j \in Jobs : job[j].state \in AtWork => j = rec.job
  BY <1>0, <1>2, RecAlone DEF Busy
<1>3. CASE RecTakes
  <2>1. rec.pc # "idle"
    BY <1>3 DEF RecTakes
  <2>2. \A j \in Jobs :
          /\ job'[j].phase = job[j].phase /\ job'[j].msg = job[j].msg
          /\ job'[j].state # "none" => job[j].state # "none"
          /\ job'[j].state \in AtWork => j = rec.job
    BY <1>2, <1>3, <2>1 DEF RecTakes, AtWork
  <2> QED
    BY <1>2, <1>3, <2>1, <2>2 DEF RecTakes, Kinds, Writer
<1>4. CASE RecAsks
  <2>1. rec.pc # "idle"
    BY <1>4 DEF RecAsks
  <2> QED
    BY <1>0, <1>2, <1>4, <2>1 DEF RecAsks, Kinds, Writer
<1>5. CASE RecEnds
  <2>1. rec.pc # "idle" /\ rec'.pc = "idle"
    BY <1>5 DEF RecEnds, NoRec
  <2>2. job[rec.job].phase \in Watching => job[rec.job].msg \in Messages
    BY <1>2, <2>1 DEF Kinds
  <2>3. \A j \in Jobs :
          /\ job'[j].state # "none" => job'[j].phase # "none"
          /\ job'[j].phase \in Watching => job'[j].msg \in Messages
          /\ job'[j].phase = "prepare" => j = 1
          /\ job'[j].state \notin AtWork
    <3>1. \A j \in Jobs : j # rec.job /\ job'[j] = job[j] => job'[j].state \notin AtWork
      BY <1>2, <2>1
    <3>2. job'[rec.job].state \notin AtWork /\ job[rec.job].phase # "none"
      BY <1>2, <1>5, <2>1 DEF RecEnds, Outcomes, AtWork, Kinds
    <3> QED
      BY <1>5, <2>2, <3>1, <3>2, PendingRow DEF RecEnds, Kinds, AtWork
  <2> QED
    BY <1>2, <2>1, <2>3 DEF Kinds, Writer
<1> QED
  BY <1>0, <1>1, <1>3, <1>4, <1>5

\* What a request does: it posts a message, cancels those that wait, or asks for
\* another job.
Posts ==
  \E m \in Messages, n \in Jobs :
    /\ msg[m] = NoMessage /\ job[n] = NoJob
    /\ msg'[m].state = "pending" /\ \A k \in Messages \ {m} : msg'[k] = msg[k]
    /\ job'[n] = Pending("message", m, 0) /\ \A j \in Jobs \ {n} : job'[j] = job[j]
Cancels ==
  /\ NobodyAtWork
  /\ \A m \in Messages :
       msg'[m].state = IF msg[m].state = "pending" THEN "cancelled" ELSE msg[m].state
  /\ \A j \in Jobs :
       \/ job'[j] = job[j] /\ ~(job[j].state = "pending" /\ job[j].phase \in Delivering)
       \/ /\ job[j].state = "pending" /\ job'[j].state = "completed"
          /\ job'[j].phase = job[j].phase /\ job'[j].msg = job[j].msg
Asks ==
  /\ UNCHANGED msg
  /\ \A j \in Jobs :
       \/ job'[j] = job[j]
       \/ job[j] = NoJob /\ \E phase \in {"finish", "collect"} : job'[j] = Pending(phase, 0, 0)

LEMMA RequestMoves ==
  ASSUME TypeOK, SendMessage \/ StopGeneration \/ Finish \/ Recollect
  PROVE  /\ UNCHANGED <<trigger, task, rec, creates, remote>>
         /\ run'.session = run.session /\ run'.inputs = run.inputs
         /\ run'.status \in Terminal => run.status \in Terminal \/ NobodyAtWork
         /\ Posts \/ Cancels \/ Asks
<1>0. run \in RunRow /\ msg \in [Messages -> MessageRow] /\ job \in [Jobs -> JobRow]
  BY DEF TypeOK
<1>1. CASE SendMessage
  <2>1. PICK a \in Gens \union {0}, m \in NextMessage, n \in NextJob :
          /\ msg' = [msg EXCEPT ![m] =
                       [state |-> "pending", answers |-> a, since |-> used.stop]]
          /\ job' = [job EXCEPT ![n] = Pending("message", m, 0)]
    BY <1>1 DEF SendMessage
  <2>2. m \in Messages /\ n \in Jobs /\ msg[m] = NoMessage /\ job[n] = NoJob
    BY FirstOf DEF NextMessage, NextJob
  <2>3. Posts
    BY <1>0, <2>1, <2>2 DEF Posts
  <2>4. run'.session = run.session /\ run'.inputs = run.inputs /\ run'.status = run.status
    BY <1>0, <1>1 DEF SendMessage, RunRow
  <2> QED
    BY <1>1, <2>3, <2>4 DEF SendMessage
<1>2. CASE StopGeneration
  <2>1. CASE Queued /\ NobodyAtWork /\ CancelQueue
    <3>1. \A m \in Messages :
            msg'[m].state = IF msg[m].state = "pending" THEN "cancelled" ELSE msg[m].state
      <4>1. TAKE m \in Messages
      <4>2. msg'[m] = IF msg[m].state = "pending"
                      THEN [msg[m] EXCEPT !.state = "cancelled"] ELSE msg[m]
        BY <2>1 DEF CancelQueue
      <4>3. msg[m] \in MessageRow
        BY <1>0
      <4> QED
        BY <4>2, <4>3 DEF MessageRow
    <3>2. \A j \in Jobs :
            \/ job'[j] = job[j] /\ ~(job[j].state = "pending" /\ job[j].phase \in Delivering)
            \/ /\ job[j].state = "pending" /\ job'[j].state = "completed"
               /\ job'[j].phase = job[j].phase /\ job'[j].msg = job[j].msg
      <4>1. TAKE j \in Jobs
      <4>2. job'[j] = IF job[j].state = "pending" /\ job[j].phase \in Delivering
                      THEN [job[j] EXCEPT !.state = "completed"] ELSE job[j]
        BY <2>1 DEF CancelQueue, Delivering
      <4>3. job[j] \in JobRow
        BY <1>0
      <4> QED
        BY <4>2, <4>3 DEF JobRow
    <3>3. run'.session = run.session /\ run'.inputs = run.inputs
      BY <1>0, <2>1 DEF CancelQueue, RunRow
    <3> QED
      BY <1>2, <2>1, <3>1, <3>2, <3>3 DEF StopGeneration, Cancels
  <2>2. CASE RecordStop
    <3>1. run'.session = run.session /\ run'.inputs = run.inputs /\ run'.status = run.status
      BY <1>0, <2>2 DEF RecordStop, RunRow
    <3> QED
      BY <1>2, <2>2, <3>1 DEF StopGeneration, RecordStop, Asks
  <2> QED
    BY <1>2, <2>1, <2>2 DEF StopGeneration
<1>3. CASE Finish
  <2>1. PICK n \in NextJob : job' = [job EXCEPT ![n] = Pending("finish", 0, 0)]
    BY <1>3 DEF Finish
  <2>2. n \in Jobs /\ job[n] = NoJob
    BY FirstOf DEF NextJob
  <2>3. Asks
    BY <1>0, <1>3, <2>1, <2>2 DEF Finish, Asks
  <2>4. run'.session = run.session /\ run'.inputs = run.inputs /\ run'.status = "finishing"
    BY <1>0, <1>3 DEF Finish, RunRow
  <2> QED
    BY <1>3, <2>3, <2>4 DEF Finish, Terminal
<1>4. CASE Recollect
  <2>1. PICK n \in NextJob : job' = [job EXCEPT ![n] = Pending("collect", 0, 0)]
    BY <1>4 DEF Recollect
  <2>2. n \in Jobs /\ job[n] = NoJob
    BY FirstOf DEF NextJob
  <2>3. Asks
    BY <1>0, <1>4, <2>1, <2>2 DEF Recollect, Asks
  <2> QED
    BY <1>4, <2>3 DEF Recollect
<1> QED
  BY <1>1, <1>2, <1>3, <1>4

LEMMA RequestKeepsWriter ==
  ASSUME TypeOK, Kinds, Writer, SendMessage \/ StopGeneration \/ Finish \/ Recollect
  PROVE  Kinds' /\ Writer'
<1>0. /\ UNCHANGED <<task, rec>> /\ run'.session = run.session
      /\ Posts \/ Cancels \/ Asks
  BY RequestMoves
<1>1. NoJob.state = "none" /\ NoJob.phase = "none"
  BY DEF NoJob
<1>2. \A j \in Jobs : job[j].state \in AtWork => job'[j] = job[j]
  BY <1>0, <1>1 DEF Posts, Cancels, Asks, AtWork
<1>3. \A j \in Jobs : job'[j].state \in AtWork => job'[j] = job[j]
  BY <1>0, PendingRow DEF Posts, Cancels, Asks, AtWork
<1>4. \A j \in Jobs :
        /\ job'[j].state # "none" => job'[j].phase # "none"
        /\ job'[j].phase \in Watching => job'[j].msg \in Messages
        /\ job'[j].phase = "prepare" => j = 1
  <2>1. TAKE j \in Jobs
  <2>2. CASE job'[j] = job[j]
    BY <2>2 DEF Kinds
  <2>3. CASE \E m \in Messages : job'[j] = Pending("message", m, 0)
    BY <2>3, PendingRow
  <2>4. CASE \E phase \in {"finish", "collect"} : job'[j] = Pending(phase, 0, 0)
    BY <2>4, PendingRow DEF Watching, Delivering
  <2>5. CASE job[j].state = "pending" /\ job'[j].phase = job[j].phase /\ job'[j].msg = job[j].msg
    BY <2>5 DEF Kinds
  <2> QED
    BY <1>0, <2>2, <2>3, <2>4, <2>5 DEF Posts, Cancels, Asks
<1>5. \A t \in Slots : Busy(t) => task[t].job \in Jobs /\ Job(t).state \in AtWork
  BY Holder DEF AtWork
<1>6. \A t \in Slots : (Busy(t)' <=> Busy(t)) /\ (Busy(t) => Job(t)' = Job(t))
  BY <1>0, <1>2, <1>5 DEF Busy, Job
<1>7. rec.pc # "idle" => rec.job \in Jobs /\ job'[rec.job] = job[rec.job]
  BY <1>2, RecAlone
<1>8. rec.pc \in {"idle", "chosen", "taken", "query"}
  BY DEF TypeOK
<1>9. Kinds'
  BY <1>0, <1>4, <1>6, <1>7 DEF Kinds
<1>10. \A t \in Slots : Busy(t)' =>
         /\ Job(t)'.state = "running" /\ Owned(t)' /\ ~Job(t)'.lapsed
         /\ task'[t].cp = Job(t)'.cp
  BY <1>0, <1>6 DEF Writer, Owned
<1>11. /\ \A t, u \in Slots : Busy(t)' /\ Busy(u)' => t = u
       /\ \A i, j \in Jobs : job'[i].state \in AtWork /\ job'[j].state \in AtWork => i = j
  BY <1>3, <1>6 DEF Writer
<1>12. /\ rec'.pc = "chosen" => Lapsed(rec.job)'
       /\ rec'.pc \in {"taken", "query"} => job'[rec'.job].state = "reconciling"
       /\ rec'.pc # "idle" => rec'.cp = job'[rec'.job].cp
  BY <1>0, <1>7 DEF Writer, Lapsed
<1> QED
  BY <1>9, <1>10, <1>11, <1>12 DEF Writer

\* The service, the leases and the process.
Outside ==
  /\ UNCHANGED <<run, msg, trigger>>
  /\ \A j \in Jobs : /\ job'[j].state = job[j].state /\ job'[j].phase = job[j].phase
                     /\ job'[j].msg = job[j].msg /\ job'[j].cp = job[j].cp
                     /\ job[j].lapsed => job'[j].lapsed
  /\ rec' = rec \/ rec' = NoRec
  /\ \A t \in Slots :
       \/ task'[t] = Idle
       \/ task'[t] = task[t] /\ (Busy(t) => job'[task[t].job] = job[task[t].job])
  /\ creates' \in {creates, creates + 1}
  /\ creates' # creates => \A t \in Slots : task'[t] = Idle
  /\ creates' # creates => \E t \in Slots : task[t].pc = "create"

LEMMA OrphanedRows ==
  ASSUME TypeOK, job' = Orphaned
  PROVE  \A j \in Jobs :
           /\ job'[j].state = job[j].state /\ job'[j].phase = job[j].phase
           /\ job'[j].msg = job[j].msg /\ job'[j].cp = job[j].cp
           /\ job'[j].lapsed = job[j].lapsed
<1> TAKE j \in Jobs
<1>1. job[j] \in JobRow
  BY DEF TypeOK
<1>2. job'[j] = IF job[j].owner = "me" THEN [job[j] EXCEPT !.owner = "dead"] ELSE job[j]
  BY DEF Orphaned
<1> QED
  BY <1>1, <1>2 DEF JobRow

LEMMA OutsideMoves ==
  ASSUME TypeOK, Kinds, Writer,
         \/ \E g \in Gens : RemoteAccepts(g) \/ RemoteEnds(g)
         \/ \E j \in Jobs : LeaseLapses(j)
         \/ Crash \/ Shutdown \/ Start
  PROVE  Outside
<1>1. CASE \E g \in Gens : RemoteAccepts(g) \/ RemoteEnds(g)
  BY <1>1 DEF RemoteAccepts, RemoteEnds, rows, Outside
<1>2. ASSUME NEW j \in Jobs, LeaseLapses(j) PROVE Outside
  <2>1. job[j] \in JobRow /\ job' = [job EXCEPT ![j] = [job[j] EXCEPT !.lapsed = TRUE]]
    BY <1>2 DEF LeaseLapses, TypeOK
  <2>2. job'[j] = [job[j] EXCEPT !.lapsed = TRUE] /\ \A i \in Jobs \ {j} : job'[i] = job[i]
    BY <2>1 DEF TypeOK
  <2>3. job'[j].state = job[j].state /\ job'[j].phase = job[j].phase
        /\ job'[j].msg = job[j].msg /\ job'[j].cp = job[j].cp /\ job'[j].lapsed
    BY <2>1, <2>2 DEF JobRow
  <2>4. \A t \in Slots : Busy(t) => task[t].job # j /\ task[t].job \in Jobs
    BY <1>2, Holder DEF LeaseLapses, Owned, Job
  <2> QED
    BY <1>2, <2>2, <2>3, <2>4 DEF LeaseLapses, Outside
<1>3. CASE Crash
  <2>1. creates' \in {creates, creates + 1}
        /\ (creates' # creates => \E t \in Slots : task[t].pc = "create")
    BY <1>3 DEF Crash
  <2>2. \A t \in Slots : task'[t] = Idle
    BY <1>3 DEF Crash
  <2> QED
    BY <1>3, <2>1, <2>2, OrphanedRows DEF Crash, Outside
<1>4. CASE Shutdown
  BY <1>4 DEF Shutdown, rows, Outside
<1>5. CASE Start
  BY <1>5, OrphanedRows DEF Start, Outside, Busy
<1> QED
  BY <1>1, <1>2, <1>3, <1>4, <1>5

LEMMA OutsideKeepsWriter ==
  ASSUME TypeOK, Kinds, Writer, Outside
  PROVE  Kinds' /\ Writer'
<1>1. Idle.pc = "idle" /\ NoRec.pc = "idle"
  BY DEF Idle, NoRec
<1>2. \A t \in Slots : Busy(t)' => Busy(t) /\ task'[t] = task[t] /\ Job(t)' = Job(t)
  BY <1>1 DEF Outside, Busy, Job
<1>3. rec'.pc # "idle" => rec' = rec
  BY <1>1 DEF Outside
<1>4. rec'.pc # "idle" => rec.job \in Jobs
  BY <1>3 DEF Kinds
<1>5. Kinds'
  BY <1>2, <1>3, <1>4 DEF Kinds, Outside
<1>6. \A t \in Slots : Busy(t)' =>
        /\ Job(t)'.state = "running" /\ Owned(t)' /\ ~Job(t)'.lapsed
        /\ task'[t].cp = Job(t)'.cp
  BY <1>2 DEF Writer, Owned
<1>7. /\ \A t, u \in Slots : Busy(t)' /\ Busy(u)' => t = u
      /\ \A i, j \in Jobs : job'[i].state \in AtWork /\ job'[j].state \in AtWork => i = j
  BY <1>2 DEF Writer, Outside
<1>8. /\ rec'.pc = "chosen" => Lapsed(rec.job)'
      /\ rec'.pc \in {"taken", "query"} => job'[rec'.job].state = "reconciling"
      /\ rec'.pc # "idle" => rec'.cp = job'[rec'.job].cp
  BY <1>3, <1>4 DEF Writer, Lapsed, Outside
<1> QED
  BY <1>5, <1>6, <1>7, <1>8 DEF Writer

LEMMA WriterStep ==
  ASSUME TypeOK, Kinds, Writer, [Next]_vars PROVE Kinds' /\ Writer'
<1>1. CASE Next
  BY <1>1, TaskKeepsWriter, ClaimKeepsWriter, RecKeepsWriter, RequestKeepsWriter,
     OutsideMoves, OutsideKeepsWriter DEF Next
<1>2. CASE UNCHANGED vars
  BY <1>2 DEF vars, rows, Kinds, Writer, Busy, Job, Owned, Lapsed
<1> QED
  BY <1>1, <1>2

LEMMA WriterInit == Init => Kinds /\ Writer
<1> SUFFICES ASSUME Init PROVE Kinds /\ Writer
  OBVIOUS
<1>1. \A t \in Slots : ~Busy(t)
  BY DEF Init, Idle, Busy
<1>2. rec.pc = "idle"
  BY DEF Init, NoRec
<1>3. \A j \in Jobs : job[j] = IF j = 1 THEN Pending("prepare", 1, 0) ELSE NoJob
  BY DEF Init
<1>4. \A j \in Jobs : /\ job[j].state \notin AtWork
                      /\ job[j].state # "none" => job[j].phase # "none"
                      /\ job[j].phase \in Watching => j = 1 /\ job[j].msg = 1
  BY <1>3, PendingRow DEF NoJob, Watching, Delivering, AtWork
<1> QED
  BY <1>1, <1>2, <1>4, Bounds DEF Kinds, Writer, Watching, Delivering

-----------------------------------------------------------------------------
(* What the steps of a task write.                                          *)

OthersKept(t) == \A k \in Messages : k # Job(t).msg => msg'[k] = msg[k]
SameRun == run'.session = run.session /\ run'.inputs = run.inputs

\* It stays where it is.
Stays(t) ==
  /\ GoesOn(t) /\ task'[t].pc = task[t].pc /\ task'[t].gen = task[t].gen
  /\ task[t].pc \in {"chat", "watch", "collect"} /\ UNCHANGED <<rows, creates>>
\* It ends, in an error or completed.
Ends(t) ==
  /\ JobEnds(t) /\ SameRun /\ UNCHANGED trigger /\ OthersKept(t)
  /\ Job(t).msg \in Messages =>
       msg'[Job(t).msg].state \in {msg[Job(t).msg].state, "unknown", "failed"}
  /\ \/ UNCHANGED creates
     \/ creates' = creates + 1 /\ task[t].pc = "create"
\* It goes on, and no message moves.
Passes(t) ==
  LET q == task'[t].pc IN
  /\ GoesOn(t) /\ task'[t].gen = task[t].gen /\ UNCHANGED <<msg, trigger, creates>>
  /\ run'.session = run.session /\ run.inputs \subseteq run'.inputs
  /\ q # "complete" => run'.status \in {run.status, "preparing"}
  /\ q # "begin"
  /\ q \in Before => task[t].pc \in Before \union {"begin"}
  /\ q \in Before \ {"unsent"} =>
       task[t].pc \in Before \ {"unsent"} \/ run.status \notin Terminal
  /\ q = "start" => run.session /\ ~Lacking(t)
  /\ q = "open_chat" => Job(t).phase = "observe"
  /\ q = "chat" => task[t].pc = "open_chat" /\ Job(t).phase # "observe"
  /\ q = "started" => task[t].pc = "chat"
  /\ q = "open_create" => task[t].pc = "prepare" /\ ~run.session
  /\ q = "create" => task[t].pc = "open_create" /\ Started(task'[t].cp)
\* It notes what became of its message.
Marks(t) ==
  /\ GoesOn(t) /\ task'[t].gen = task[t].gen /\ UNCHANGED <<trigger, creates>>
  /\ SameRun /\ OthersKept(t) /\ Job(t).msg \in Messages
  /\ msg'[Job(t).msg].state \in {msg[Job(t).msg].state, "sent", "cancelled"}
  /\ task'[t].pc \in {"complete", "history", "chat"}
  /\ task'[t].pc = "chat" => task[t].pc = "started" /\ run' = run
\* It has created the session.
Creates(t) ==
  /\ GoesOn(t) /\ task[t].pc = "create" /\ task'[t].pc = "created"
  /\ creates' = creates + 1 /\ run'.session /\ run'.inputs = run.inputs
  /\ run'.status = run.status /\ UNCHANGED <<msg, trigger>>
\* It starts the generation of its message.
Starts(t) ==
  /\ GoesOn(t) /\ task[t].pc = "start" /\ task'[t].pc = "open_chat"
  /\ SameRun /\ run'.status \notin Terminal /\ UNCHANGED creates
  /\ Job(t).msg \in Messages /\ OthersKept(t) /\ msg'[Job(t).msg].state = "sending"
  /\ \E g \in Gens : /\ trigger[g] = 0 /\ task'[t].gen = g
                     /\ trigger' = [trigger EXCEPT ![g] = Job(t).msg]

LEMMA RaiseWrites ==
  ASSUME TypeOK, Kinds, Writer, NEW t \in Slots, Busy(t), Raise(t), UNCHANGED trigger,
         \/ UNCHANGED creates
         \/ creates' = creates + 1 /\ task[t].pc = "create"
  PROVE  Ends(t)
<1>1. JobEnds(t) /\ Owned(t)
  BY RaiseMoves, Holder
<1>2. run' = [run EXCEPT !.status = "failed", !.gen = "failed"] /\ run \in RunRow
  BY <1>1 DEF Raise, TypeOK
<1>3. SameRun
  BY <1>2 DEF SameRun, RunRow
<1>4. \/ msg' = msg
      \/ \E s \in {"unknown", "failed"} : msg' = [msg EXCEPT ![Job(t).msg].state = s]
  BY <1>1 DEF Raise, Verdict, Job
<1>5. /\ OthersKept(t)
      /\ Job(t).msg \in Messages =>
           msg'[Job(t).msg].state \in {msg[Job(t).msg].state, "unknown", "failed"}
  <2>1. CASE msg' = msg
    BY <2>1 DEF OthersKept
  <2>2. ASSUME NEW s \in {"unknown", "failed"}, msg' = [msg EXCEPT ![Job(t).msg].state = s]
        PROVE  /\ OthersKept(t)
               /\ Job(t).msg \in Messages =>
                    msg'[Job(t).msg].state \in {msg[Job(t).msg].state, "unknown", "failed"}
    BY <2>2 DEF OthersKept, TypeOK, MessageRow
  <2> QED
    BY <1>4, <2>1, <2>2
<1> QED
  BY <1>1, <1>3, <1>5 DEF Ends

LEMMA TaskWrites ==
  ASSUME TypeOK, Kinds, Writer, NEW t \in Slots, TaskStep(t) \/ Control(t)
  PROVE  Stays(t) \/ Ends(t) \/ Passes(t) \/ Marks(t) \/ Creates(t) \/ Starts(t)
<1> USE DEF Places, Awaits, Opening
<1>0. /\ Busy(t) /\ Alone(t)
      /\ JobEnds(t) \/ (GoesOn(t) /\ Fits(t, task'[t].pc))
      /\ task[t] \in TaskRow /\ task \in [Slots -> TaskRow] /\ run \in RunRow
      /\ msg \in [Messages -> MessageRow] /\ Owned(t)
  BY TaskMoves, TaskJob, Holder DEF TypeOK
<1>14. Job(t).phase \in Watching => Job(t).msg \in Messages
  BY <1>0, TaskJob
<1>1. CASE Begin(t)
  <2>1. Job(t).phase \in {"prepare", "message", "observe", "finish", "collect"}
    BY <1>0, TaskJob DEF JobRow
  <2>2. PICK pc \in {"unsent", "prepare", "deliver", "open_chat", "collect", "fix"}, q \in BOOLEAN :
          /\ task' = [task EXCEPT ![t].pc = pc, ![t].quiet = q]
          /\ pc \in {"prepare", "deliver"} => run.status \notin Terminal
          /\ pc = "open_chat" => Job(t).phase = "observe"
    BY <1>1, <2>1 DEF Begin, Unwanted
  <2>3. task' = [task EXCEPT ![t] = [task[t] EXCEPT !.pc = pc, !.quiet = q]]
    BY <2>2
  <2>4. task'[t] = [task[t] EXCEPT !.pc = pc, !.quiet = q]
    BY <1>0, <2>3
  <2>5. task'[t].pc = pc /\ task'[t].gen = task[t].gen
    BY <1>0, <2>4 DEF TaskRow
  <2>6. task[t].pc = "begin" /\ UNCHANGED <<run, msg, trigger, creates>>
    BY <1>1 DEF Begin, Turn, rows
  <2>7. GoesOn(t)
    BY <1>0, <2>5 DEF JobEnds, Idle
  <2> QED
    BY <2>2, <2>5, <2>6, <2>7 DEF Passes, Before, Creating
<1>2. CASE CancelUnsent(t)
  <2>1. task[t].pc = "unsent" /\ Job(t).msg \in Messages
    BY <1>0, <1>2, <1>14 DEF CancelUnsent, Turn, Kinds, Before, Watching
  <2>2. GoTo(t, "complete") /\ UNCHANGED <<run, job, trigger, creates>>
    BY <1>2 DEF CancelUnsent
  <2>3. GoesOn(t) /\ task'[t].pc = "complete" /\ task'[t].gen = task[t].gen
    BY <1>0, <2>2, GoMoves
  <2>4. /\ OthersKept(t)
        /\ msg'[Job(t).msg].state \in {msg[Job(t).msg].state, "sent", "cancelled"}
    BY <1>0, <1>2, <2>1 DEF CancelUnsent, OthersKept, MessageRow
  <2> QED
    BY <2>1, <2>2, <2>3, <2>4 DEF Marks, SameRun
<1>3. CASE Prepare(t)
  <2>1. PICK pc \in {"open_create", "deliver", "open_upload"} :
          GoTo(t, pc) /\ (pc = "open_create" => ~run.session)
    BY <1>3 DEF Prepare, AfterSession
  <2>2. GoesOn(t) /\ task'[t].pc = pc /\ task'[t].gen = task[t].gen
    BY <1>0, <1>3, <2>1, GoMoves DEF Prepare
  <2>3. run'.session = run.session /\ run'.inputs = run.inputs /\ run'.status = "preparing"
    BY <1>0, <1>3 DEF Prepare, RunRow
  <2> QED
    BY <1>3, <2>1, <2>2, <2>3 DEF Prepare, Turn, Passes, Before, Creating
<1>4. CASE Open(t)
  <2>1. PICK c \in Cp, pc \in {"create", "upload", "watch", "chat"} :
          /\ Checkpoint(t, c, pc)
          /\ pc = "create" => task[t].pc = "open_create" /\ Started(c)
          /\ pc = "upload" => task[t].pc = "open_upload"
          /\ pc = "chat" => task[t].pc = "open_chat" /\ Job(t).phase # "observe"
    BY <1>0, <1>4, TaskJob DEF Open, OpenAt, Turn, Cp, Started
  <2>2. GoesOn(t) /\ task'[t].pc = pc /\ UNCHANGED <<run, msg>>
        /\ task'[t].gen = task[t].gen /\ job'[task[t].job].cp = c
    BY <1>0, <2>1, CheckpointMoves
  <2>3. task'[t].cp = c
    BY <2>2 DEF GoesOn
  <2> QED
    BY <1>4, <2>1, <2>2, <2>3 DEF Open, Passes, Before, Creating
<1>5. CASE Close(t)
  <2>1. [task[t].cp EXCEPT !.phase = "rest"] \in Cp
    BY <1>0, TaskJob DEF Cp
  <2>2. \/ Raise(t)
        \/ \E c \in Cp, pc \in {"deliver", "open_upload", "turn"} :
             /\ Checkpoint(t, c, pc)
             /\ task[t].pc \in {"created", "uploaded", "ended"}
             /\ pc # "turn" => task[t].pc \in {"created", "uploaded"}
    BY <1>5, <2>1 DEF Close, CloseAt, Turn, AfterSession
  <2>3. CASE Raise(t)
    BY <1>0, <1>5, <2>3, RaiseWrites DEF Close
  <2>4. ASSUME NEW c \in Cp, NEW pc \in {"deliver", "open_upload", "turn"},
               Checkpoint(t, c, pc), pc # "turn" => task[t].pc \in {"created", "uploaded"}
        PROVE  Passes(t)
    <3>1. GoesOn(t) /\ task'[t].pc = pc /\ UNCHANGED <<run, msg>>
          /\ task'[t].gen = task[t].gen
      BY <1>0, <2>4, CheckpointMoves
    <3> QED
      BY <1>5, <2>4, <3>1 DEF Close, Passes, Before, Creating
  <2> QED
    BY <2>2, <2>3, <2>4
<1>6. CASE CreateSession(t)
  <2>1. GoesOn(t) /\ task'[t].pc = "created"
    BY <1>0, <1>6, GoMoves DEF CreateSession
  <2>2. run'.session /\ run'.inputs = run.inputs /\ run'.status = run.status
    BY <1>0, <1>6 DEF CreateSession, RunRow
  <2> QED
    BY <1>6, <2>1, <2>2 DEF CreateSession, Turn, Creates
<1>7. CASE Upload(t)
  <2>1. GoesOn(t) /\ task'[t].pc = "uploaded" /\ task'[t].gen = task[t].gen
    BY <1>0, <1>7, GoMoves DEF Upload
  <2>2. /\ run'.session = run.session /\ run.inputs \subseteq run'.inputs
        /\ run'.status = run.status
    BY <1>0, <1>7 DEF Upload, RunRow
  <2> QED
    BY <1>7, <2>1, <2>2 DEF Upload, Turn, Passes, Before, Creating
<1>8. CASE Deliver(t)
  <2>1. CASE Undeliverable(t)
    BY <1>0, <1>8, <2>1, RaiseWrites DEF Deliver
  <2>2. CASE ~Undeliverable(t)
    <3>1. PICK pc \in {"open_upload", "start"} :
            GoTo(t, pc) /\ (pc = "start" => ~Lacking(t))
      BY <1>8, <2>2 DEF Deliver
    <3>2. UNCHANGED <<run, msg, job, trigger, creates>> /\ task[t].pc = "deliver"
      BY <1>8, <2>2 DEF Deliver, Turn
    <3>3. GoesOn(t) /\ task'[t].pc = pc /\ task'[t].gen = task[t].gen
      BY <1>0, <3>1, <3>2, GoMoves
    <3> QED
      BY <2>2, <3>1, <3>2, <3>3 DEF Undeliverable, Passes, Before, Creating
  <2> QED
    BY <2>1, <2>2
<1>9. CASE StartGeneration(t)
  <2>1. task[t].pc = "start" /\ Job(t).msg \in Messages /\ UNCHANGED <<job, creates>>
    BY <1>0, <1>9, <1>14 DEF StartGeneration, Turn, Kinds, Before, Watching
  <2>2. CASE Halted
    <3>1. GoesOn(t) /\ task'[t].pc = "complete" /\ task'[t].gen = task[t].gen
      BY <1>0, <1>9, <2>1, <2>2, GoMoves DEF StartGeneration
    <3>2. msg' = [msg EXCEPT ![Job(t).msg].state = "cancelled"] /\ UNCHANGED trigger
      BY <1>9, <2>2 DEF StartGeneration
    <3>3. OthersKept(t) /\ msg'[Job(t).msg].state = "cancelled"
      BY <1>0, <2>1, <3>2 DEF OthersKept, MessageRow
    <3>4. SameRun
      BY <1>0, <1>9, <2>2 DEF StartGeneration, SameRun, RunRow
    <3> QED
      BY <2>1, <3>1, <3>2, <3>3, <3>4 DEF Marks
  <2>3. CASE ~Halted
    <3>1. PICK g \in NextGen :
            /\ msg' = [msg EXCEPT ![Job(t).msg].state = "sending"]
            /\ trigger' = [trigger EXCEPT ![g] = Job(t).msg]
            /\ run' = [run EXCEPT !.status = IF run.finish THEN "finishing" ELSE "active",
                                  !.gen = "running", !.stop = 0]
            /\ task' = [task EXCEPT ![t].pc = "open_chat", ![t].gen = g]
      BY <1>9, <2>3 DEF StartGeneration
    <3>2. g \in Gens /\ trigger[g] = 0
      BY FirstOf DEF NextGen
    <3>3. task' = [task EXCEPT ![t] = [task[t] EXCEPT !.pc = "open_chat", !.gen = g]]
      BY <3>1
    <3>4. task'[t] = [task[t] EXCEPT !.pc = "open_chat", !.gen = g]
      BY <1>0, <3>3
    <3>5. task'[t].pc = "open_chat" /\ task'[t].gen = g
      BY <1>0, <3>4 DEF TaskRow
    <3>6. OthersKept(t) /\ msg'[Job(t).msg].state = "sending"
      BY <1>0, <2>1, <3>1 DEF OthersKept, MessageRow
    <3>7. SameRun /\ run'.status \notin Terminal
      BY <1>0, <3>1 DEF SameRun, RunRow, Terminal
    <3>8. GoesOn(t)
      BY <1>0, <3>5 DEF JobEnds, Idle
    <3> QED
      BY <2>1, <3>1, <3>2, <3>5, <3>6, <3>7, <3>8 DEF Starts
  <2> QED
    BY <2>2, <2>3
<1>10. CASE Send(t)
  <2>1. task[t].pc = "chat" /\ task' = task /\ UNCHANGED <<rows, creates>>
    BY <1>10 DEF Send, Turn
  <2>2. task'[t] # Idle
    BY <2>1 DEF Idle
  <2>3. GoesOn(t)
    BY <1>0, <2>2 DEF JobEnds
  <2> QED
    BY <2>1, <2>3 DEF Stays
<1>11. CASE ChatStarts(t)
  <2>1. task' = [task EXCEPT ![t] = [task[t] EXCEPT !.pc = "started", !.seen = TRUE]]
    BY <1>11 DEF ChatStarts
  <2>2. task'[t] = [task[t] EXCEPT !.pc = "started", !.seen = TRUE]
    BY <1>0, <2>1
  <2>3. task'[t].pc = "started" /\ task'[t].gen = task[t].gen
    BY <1>0, <2>2 DEF TaskRow
  <2>4. GoesOn(t)
    BY <1>0, <2>3 DEF JobEnds, Idle
  <2>5. run'.session = run.session /\ run'.inputs = run.inputs /\ run'.status = run.status
    BY <1>0, <1>11 DEF ChatStarts, RunRow
  <2> QED
    BY <1>11, <2>3, <2>4, <2>5 DEF ChatStarts, Turn, Passes, Before, Creating
<1>12. CASE ChatAccepted(t)
  <2>1. task[t].pc = "started" /\ Job(t).msg \in Messages
    BY <1>0, <1>12, <1>14 DEF ChatAccepted, Turn, Kinds, Chatting, Watching
  <2>2. GoTo(t, "chat") /\ UNCHANGED <<run, job, trigger, creates>>
    BY <1>12 DEF ChatAccepted
  <2>3. GoesOn(t) /\ task'[t].pc = "chat" /\ task'[t].gen = task[t].gen
    BY <1>0, <2>2, GoMoves
  <2>4. OthersKept(t) /\ msg'[Job(t).msg].state = "sent"
    BY <1>0, <1>12, <2>1 DEF ChatAccepted, OthersKept, MessageRow
  <2> QED
    BY <2>1, <2>2, <2>3, <2>4 DEF Marks, SameRun
<1>13. CASE SeeEnd(t)
  <2>1. PICK pc \in {"ended", "turn"} : GoTo(t, pc)
    BY <1>13 DEF SeeEnd
  <2>2. GoesOn(t) /\ task'[t].pc = pc /\ task'[t].gen = task[t].gen
    BY <1>0, <1>13, <2>1, GoMoves DEF SeeEnd, rows
  <2> QED
    BY <1>13, <2>2 DEF SeeEnd, rows, Passes, Before, Creating
<1>15. CASE GenerationEnd(t)
  <2>1. task[t].pc = "turn" /\ Job(t).msg \in Messages
    BY <1>0, <1>15, <1>14 DEF GenerationEnd, Turn, Kinds
  <2>2. GoTo(t, "history") /\ UNCHANGED <<job, trigger, creates>>
    BY <1>15 DEF GenerationEnd
  <2>3. GoesOn(t) /\ task'[t].pc = "history" /\ task'[t].gen = task[t].gen
    BY <1>0, <2>2, GoMoves
  <2>4. OthersKept(t) /\ msg'[Job(t).msg].state = "sent"
    BY <1>0, <1>15, <2>1 DEF GenerationEnd, OthersKept, MessageRow
  <2>5. SameRun
    BY <1>0, <1>15 DEF GenerationEnd, SameRun, RunRow
  <2> QED
    BY <2>1, <2>2, <2>3, <2>4, <2>5 DEF Marks
<1>16. CASE Collect(t)
  <2>1. UNCHANGED <<rows, creates>> /\ task[t].pc = "collect"
    BY <1>16 DEF Collect, Turn
  <2>2. CASE task' = task
    <3>1. task'[t] # Idle
      BY <2>1, <2>2 DEF Idle
    <3>2. GoesOn(t)
      BY <1>0, <3>1 DEF JobEnds
    <3> QED
      BY <2>1, <2>2, <3>2 DEF Stays
  <2>3. CASE \E quiet \in {FALSE, Quiet} :
          task' = [task EXCEPT ![t].pc = IF quiet THEN "gather" ELSE "fix", ![t].quiet = quiet]
    <3>5. PICK q \in {FALSE, Quiet} :
            task' = [task EXCEPT ![t].pc = IF q THEN "gather" ELSE "fix", ![t].quiet = q]
      BY <2>3
    <3>1. PICK pc \in {"gather", "fix"} :
            task' = [task EXCEPT ![t] = [task[t] EXCEPT !.pc = pc, !.quiet = q]]
      BY <3>5
    <3>2. task'[t] = [task[t] EXCEPT !.pc = pc, !.quiet = q]
      BY <1>0, <3>1
    <3>3. task'[t].pc = pc /\ task'[t].gen = task[t].gen
      BY <1>0, <3>2 DEF TaskRow
    <3>4. GoesOn(t)
      BY <1>0, <3>3 DEF JobEnds, Idle
    <3> QED
      BY <2>1, <3>3, <3>4 DEF rows, Passes, Before, Creating
  <2> QED
    BY <1>16, <2>2, <2>3 DEF Collect
<1>17. CASE Gather(t)
  <2>1. GoesOn(t) /\ task'[t].pc = "fix" /\ task'[t].gen = task[t].gen
    BY <1>0, <1>17, GoMoves DEF Gather, rows
  <2> QED
    BY <1>17, <2>1 DEF Gather, rows, Passes, Before, Creating
<1>18. CASE Fix(t)
  <2>1. GoTo(t, "complete") /\ UNCHANGED <<msg, job, trigger, creates>>
        /\ run' = [run EXCEPT !.status = Final(t)]
    BY <1>0, <1>18 DEF Fix
  <2>2. GoesOn(t) /\ task'[t].pc = "complete" /\ task'[t].gen = task[t].gen
    BY <1>0, <2>1, GoMoves
  <2>3. run'.session = run.session /\ run'.inputs = run.inputs
    BY <1>0, <2>1 DEF RunRow
  <2> QED
    BY <2>1, <2>2, <2>3 DEF Passes, Before, Creating
<1>19. CASE Complete(t)
  <2>1. task'[t] = Idle /\ UNCHANGED <<run, msg, trigger, creates>>
    BY <1>0, <1>19 DEF Complete
  <2>2. JobEnds(t)
    BY <1>0, <2>1 DEF GoesOn, Idle
  <2> QED
    BY <2>1, <2>2 DEF Ends, SameRun, OthersKept
<1>20. CASE Interrupted(t)
  BY <1>0, <1>20, RaiseWrites DEF Interrupted
<1>21. CASE Control(t)
  <2>1. task[t].pc \in {"chat", "watch"} /\ UNCHANGED <<rows, creates>>
    BY <1>21 DEF Control
  <2>2. PICK told, token :
          task' = [task EXCEPT ![t].token = token, ![t].told = told]
    BY <1>21 DEF Control
  <2>3. task' = [task EXCEPT ![t] = [task[t] EXCEPT !.token = token, !.told = told]]
    BY <2>2
  <2>4. task'[t] = [task[t] EXCEPT !.token = token, !.told = told]
    BY <1>0, <2>3
  <2>5. task'[t].pc = task[t].pc /\ task'[t].gen = task[t].gen
    BY <1>0, <2>4 DEF TaskRow
  <2>6. GoesOn(t)
    BY <1>0, <2>1, <2>5 DEF JobEnds, Idle
  <2> QED
    BY <2>1, <2>5, <2>6 DEF Stays
<1> QED
  BY <1>1, <1>2, <1>3, <1>4, <1>5, <1>6, <1>7, <1>8, <1>9, <1>10, <1>11, <1>12, <1>13,
     <1>15, <1>16, <1>17, <1>18, <1>19, <1>20, <1>21 DEF TaskStep

-----------------------------------------------------------------------------
(* One session.                                                             *)

LEMMA TaskKeepsSession ==
  ASSUME TypeOK, Kinds, Writer, OneSession, NEW t \in Slots, TaskStep(t) \/ Control(t)
  PROVE  OneSession'
<1>1. /\ Busy(t) /\ Alone(t)
      /\ Stays(t) \/ Ends(t) \/ Passes(t) \/ Marks(t) \/ Creates(t) \/ Starts(t)
  BY TaskMoves, TaskWrites
<1>2. /\ task[t].job \in Jobs /\ Job(t).state = "running" /\ task[t].cp = Job(t).cp
      /\ 1 \in Jobs
  BY <1>1, Holder, Bounds
<1>3. \A u \in Slots : u # t => task'[u].pc = "idle"
  BY <1>1, AloneAtWork DEF Alone
<1>4. task[t].pc \in Creating => task[t].job = 1 /\ ~Spent
  <2>1. task[t].pc \in Creating => task[t].job = 1
    BY <1>1, <1>2 DEF Kinds, Job
  <2> QED
    BY <1>1, <1>2, <2>1 DEF Spent, Job
<1>5. Spent => Spent'
  <2>1. ASSUME job[1].state \in AtWork PROVE ~Spent
    <3>1. task[t].job = 1
      BY <1>1, <1>2, <2>1, AloneAtWork
    <3> QED
      BY <1>1, <2>1, <3>1 DEF Spent, AtWork
  <2>2. ASSUME Spent PROVE job'[1] = job[1]
    <3>1. task[t].job # 1
      BY <1>2, <2>1, <2>2 DEF Spent, AtWork, Job
    <3> QED
      BY <1>1, <1>2, <3>1 DEF Alone
  <2> QED
    BY <2>1, <2>2 DEF Spent
<1>6. CASE Ends(t)
  <2>1. task'[t].pc = "idle" /\ run'.session = run.session
    BY <1>6 DEF Ends, JobEnds, Idle, SameRun
  <2>2. creates' # creates => creates = 0 /\ creates' = 1 /\ Spent'
    BY <1>2, <1>4, <1>6 DEF Ends, JobEnds, OneSession, Spent, Creating
  <2> QED
    BY <1>3, <1>5, <2>1, <2>2 DEF OneSession
<1>7. CASE Creates(t)
  <2>1. creates' = 1 /\ run'.session /\ task'[t].pc = "created"
    BY <1>7 DEF Creates, OneSession
  <2> QED
    BY <1>3, <2>1 DEF OneSession
<1>8. CASE Stays(t) \/ Marks(t) \/ Starts(t)
  <2>1. /\ task'[t].pc \notin {"open_create", "create"} /\ creates' = creates
        /\ run'.session = run.session
    BY <1>8 DEF Stays, Marks, Starts, SameRun, rows
  <2> QED
    BY <1>3, <1>5, <2>1 DEF OneSession
<1>9. CASE Passes(t)
  <2>1. creates' = creates /\ run'.session = run.session
    BY <1>9 DEF Passes
  <2>2. task'[t].pc = "open_create" => creates = 0 /\ ~run.session
    BY <1>4, <1>9 DEF Passes, OneSession, Creating
  <2>3. task'[t].pc = "create" => creates = 0 /\ ~run.session /\ Started(task'[t].cp)
    BY <1>9 DEF Passes, OneSession
  <2> QED
    BY <1>3, <1>5, <2>1, <2>2, <2>3 DEF OneSession
<1> QED
  BY <1>1, <1>6, <1>7, <1>8, <1>9

LEMMA SessionStep ==
  ASSUME TypeOK, Kinds, Writer, OneSession, [Next]_vars PROVE OneSession'
<1>0. 1 \in Jobs
  BY Bounds
<1>1. ASSUME NEW t \in Slots, Claim(t) PROVE OneSession'
  <2>1. PICK j \in Jobs :
          /\ job[j].state = "pending"
          /\ \A i \in Jobs : job[i].state \notin AtWork
          /\ \A i \in Jobs \ {j} : job'[i] = job[i]
          /\ \A u \in Slots : task[u].pc = "idle" /\ (u # t => task'[u] = task[u])
          /\ task'[t].pc = "begin"
    BY <1>1, ClaimMoves
  <2>2. Spent => Spent'
    BY <1>0, <2>1 DEF Spent
  <2> QED
    BY <1>1, <2>1, <2>2 DEF Claim, OneSession
<1>2. CASE RecStep
  <2>1. /\ UNCHANGED <<task, creates>> /\ run'.session = run.session
        /\ RecScans \/ RecTakes \/ RecAsks \/ RecEnds
    BY <1>2, RecMoves
  <2>2. CASE RecScans \/ RecAsks
    BY <2>1, <2>2 DEF RecScans, RecAsks, OneSession, Spent, Busy
  <2>3. CASE RecTakes
    <3>1. /\ \A u \in Slots : ~Busy(u)'
          /\ rec.job \in Jobs /\ job[rec.job].state \in AtWork
      BY <2>1, <2>3, RecAlone DEF RecTakes, Busy
    <3>2. Spent => Spent'
      BY <1>0, <2>3, <3>1 DEF RecTakes, Spent, AtWork
    <3> QED
      BY <2>1, <3>2 DEF OneSession
  <2>4. CASE RecEnds
    <3>1. /\ \A u \in Slots : task[u].pc = "idle"
          /\ rec.job \in Jobs /\ job[rec.job].state \in AtWork /\ rec.cp = job[rec.job].cp
          /\ \A j \in Jobs : job[j].state \in AtWork => j = rec.job
      BY <2>4, RecAlone DEF RecEnds, Writer
    <3>2. Spent /\ ~run.session => Spent'
      <4>1. CASE rec.job = 1
        BY <2>4, <3>1, <4>1 DEF RecEnds, Outcomes, Spent, AtWork
      <4>2. CASE rec.job # 1
        <5>1. Spent => job'[1] = job[1]
          BY <1>0, <2>4, <4>2 DEF RecEnds, Spent, NoJob, AtWork
        <5> QED
          BY <1>0, <3>1, <4>2, <5>1 DEF Spent
      <4> QED
        BY <4>1, <4>2
    <3> QED
      BY <2>1, <3>2 DEF OneSession
  <2> QED
    BY <2>1, <2>2, <2>3, <2>4
<1>3. CASE SendMessage \/ StopGeneration \/ Finish \/ Recollect
  <2>1. /\ UNCHANGED <<task, creates>> /\ run'.session = run.session
        /\ Posts \/ Cancels \/ Asks
    BY <1>3, RequestMoves
  <2>2. Spent => job'[1] = job[1]
    BY <1>0, <2>1 DEF Spent, Posts, Cancels, Asks, NoJob, AtWork
  <2>3. Spent => Spent'
    BY <2>1, <2>2 DEF Spent, Busy
  <2> QED
    BY <2>1, <2>3 DEF OneSession
<1>4. CASE Outside
  <2>1. Spent => Spent'
    BY <1>0, <1>4 DEF Spent, Outside, Busy, Idle
  <2>2. CASE creates' = creates
    BY <1>4, <2>1, <2>2 DEF Outside, OneSession, Idle
  <2>3. CASE creates' # creates
    <3>1. PICK t \in Slots : task[t].pc = "create"
      BY <1>4, <2>3 DEF Outside
    <3>2. creates' = 1 /\ \A u \in Slots : task'[u] = Idle
      BY <1>4, <2>3, <3>1 DEF Outside, OneSession
    <3>3. Busy(t) /\ task[t].job = 1 /\ Started(Job(t).cp) /\ Job(t).state = "running"
      BY <3>1, Holder DEF Busy, Kinds, OneSession, Creating, Job
    <3>4. Spent'
      BY <1>0, <1>4, <3>2, <3>3 DEF Outside, Spent, AtWork, Job, Busy, Idle
    <3> QED
      BY <3>2, <3>4 DEF OneSession, Idle
  <2> QED
    BY <2>2, <2>3
<1>5. CASE UNCHANGED vars
  BY <1>5 DEF vars, rows, OneSession, Spent, Busy
<1> QED
  BY <1>1, <1>2, <1>3, <1>4, <1>5, TaskKeepsSession, OutsideMoves DEF Next

-----------------------------------------------------------------------------
(* Each message once.                                                       *)

Unsent(t) == task[t].pc \in Before \/ (task[t].pc = "begin" /\ Job(t).phase \in Delivering)
Waits == {"none", "pending"}

LEMMA TaskKeepsMail ==
  ASSUME TypeOK, Kinds, Writer, Mail, NEW t \in Slots, TaskStep(t) \/ Control(t)
  PROVE  Mail'
<1> DEFINE m == Job(t).msg
<1>1. /\ Busy(t) /\ Alone(t) /\ rec' = rec
      /\ Stays(t) \/ Ends(t) \/ Passes(t) \/ Marks(t) \/ Creates(t) \/ Starts(t)
  BY TaskMoves, TaskWrites
<1>2. /\ task[t].job \in Jobs /\ Job(t).state = "running" /\ rec.pc = "idle"
      /\ m \in Messages \union {0} /\ 0 \notin Messages
      /\ \A u \in Slots : u # t => task'[u].pc = "idle"
  BY <1>1, Holder, AloneAtWork, TaskJob, Bounds DEF Alone, JobRow
<1>3. \A j \in Jobs :
        /\ job'[j].phase = job[j].phase /\ job'[j].msg = job[j].msg
        /\ job'[j].state = "pending" => job[j].state = "pending" /\ j # task[t].job
  BY <1>1, <1>2 DEF Alone, Stays, Ends, Passes, Marks, Creates, Starts, JobEnds, GoesOn, Job
<1>4. \A k \in Messages : k # m => msg'[k] = msg[k]
  BY <1>1 DEF Stays, Ends, Passes, Marks, Creates, Starts, OthersKept, rows
<1>5. m \in Messages =>
        /\ msg'[m].state # msg[m].state => msg'[m].state \notin Waits
        /\ msg'[m].state # msg[m].state => task'[t].pc \notin Before
  BY <1>1 DEF Stays, Ends, Passes, Marks, Creates, Starts, JobEnds, Idle, rows, Before,
              Creating, Waits
<1>6. \A k \in Messages : /\ msg[k].state \notin Waits => msg'[k].state \notin Waits
                          /\ msg[k].state # "none" => msg'[k].state # "none"
  BY <1>4, <1>5 DEF Waits
<1>7. /\ \A g \in Gens : trigger'[g] # 0 => msg'[trigger'[g]].state \notin Waits
      /\ \A g, h \in Gens : trigger'[g] = trigger'[h] /\ trigger'[g] # 0 => g = h
  <2>1. CASE trigger' = trigger
    BY <1>6, <2>1 DEF Mail, Waits, TypeOK
  <2>2. CASE Starts(t)
    <3>1. PICK g \in Gens : trigger[g] = 0 /\ trigger' = [trigger EXCEPT ![g] = m]
      BY <2>2 DEF Starts
    <3>2. m \in Messages /\ msg'[m].state = "sending" /\ msg[m].state = "pending"
      BY <2>2 DEF Starts, Mail, Before
    <3>3. \A h \in Gens : trigger[h] # m
      BY <1>2, <3>2 DEF Mail
    <3> QED
      BY <1>6, <3>1, <3>2, <3>3 DEF Mail, Waits, TypeOK
  <2> QED
    BY <1>1, <2>1, <2>2 DEF Stays, Ends, Passes, Marks, Creates, rows
<1>8. \A j \in Jobs : job'[j].phase \in Delivering =>
        /\ msg'[job'[j].msg].state # "none"
        /\ job'[j].state = "pending" => msg'[job'[j].msg].state = "pending"
  <2>1. TAKE j \in Jobs
  <2>2. ASSUME job[j].phase \in Delivering
        PROVE  job[j].msg \in Messages /\ msg'[job[j].msg].state # "none"
    BY <1>6, <2>2 DEF Kinds, Mail, Watching
  <2>3. ASSUME job[j].phase \in Delivering, job'[j].state = "pending"
        PROVE  msg'[job[j].msg].state = "pending"
    <3>1. j # task[t].job /\ msg[job[j].msg].state = "pending" /\ job[j].msg \in Messages
      BY <1>3, <2>2, <2>3 DEF Mail
    <3>2. job[j].msg # m
      <4>1. CASE Job(t).phase \in Delivering
        BY <1>2, <2>3, <3>1, <4>1 DEF Mail, Job
      <4>2. CASE Job(t).phase = "observe"
        BY <1>2, <3>1, <4>2 DEF Mail, Job
      <4>3. CASE Job(t).phase \notin Watching
        BY <1>2, <3>1, <4>3 DEF Mail, Job
      <4> QED
        BY <4>1, <4>2, <4>3 DEF Watching
    <3> QED
      BY <1>4, <3>1, <3>2
  <2> QED
    BY <1>3, <2>2, <2>3
<1>9. \A j \in Jobs : job'[j].phase = "observe" => msg'[job'[j].msg].state \notin Waits
  BY <1>3, <1>6 DEF Mail, Kinds, Watching, Waits
<1>10. /\ \A j \in Jobs : job'[j].phase \notin Watching => job'[j].msg = 0
       /\ \A i, j \in Jobs :
            job'[i].phase \in Delivering /\ job'[j].phase \in Delivering
              /\ job'[i].msg = job'[j].msg => i = j
  BY <1>3 DEF Mail
<1>11. \A u \in Slots : Unsent(u)' => msg'[Job(u)'.msg].state = "pending"
  <2>1. SUFFICES ASSUME Unsent(t)' PROVE msg'[Job(t)'.msg].state = "pending"
    BY <1>2 DEF Unsent, Before, Creating
  <2>2. task'[t].pc \in Before /\ task[t].pc \in Before \union {"begin"} /\ GoesOn(t)
    BY <1>1, <2>1 DEF Unsent, Stays, Ends, Passes, Marks, Creates, Starts, JobEnds, Idle,
                      Before, Creating
  <2>3. Job(t)'.msg = m /\ Job(t).phase \in Delivering
    BY <1>1, <1>2, <1>3, <2>2, TaskMoves
    DEF GoesOn, JobEnds, Idle, Fits, Job, Before, Creating
  <2>4. msg[m].state = "pending" /\ m \in Messages
    BY <1>2, <2>2, <2>3 DEF Mail, Kinds, Watching, Job
  <2> QED
    BY <1>5, <2>2, <2>3, <2>4
<1>12. rec'.pc = "idle"
  BY <1>1, <1>2
<1> QED
  BY <1>7, <1>8, <1>9, <1>10, <1>11, <1>12 DEF Mail, Unsent, Waits

LEMMA MailStep ==
  ASSUME TypeOK, Kinds, Writer, Mail, [Next]_vars PROVE Mail'
<1>1. ASSUME NEW t \in Slots, Claim(t) PROVE Mail'
  <2>1. PICK j \in Jobs :
          /\ job[j].state = "pending"
          /\ \A i \in Jobs \ {j} : job'[i] = job[i]
          /\ job'[j].state = "running" /\ job'[j].phase = job[j].phase
          /\ job'[j].msg = job[j].msg /\ rec'.pc = "idle"
          /\ \A u \in Slots : task[u].pc = "idle" /\ (u # t => task'[u] = task[u])
          /\ task'[t].pc = "begin" /\ task'[t].job = j
    BY <1>1, ClaimMoves
  <2>2. UNCHANGED <<msg, trigger>>
    BY <1>1 DEF Claim
  <2>3. \A i \in Jobs : /\ job'[i].phase = job[i].phase /\ job'[i].msg = job[i].msg
                        /\ job'[i].state = "pending" => job[i].state = "pending"
    BY <2>1
  <2>4. \A u \in Slots : Unsent(u)' => msg'[Job(u)'.msg].state = "pending"
    BY <2>1, <2>2 DEF Unsent, Mail, Before, Creating, Job
  <2> QED
    BY <2>1, <2>2, <2>3, <2>4 DEF Mail, Unsent
<1>2. CASE RecStep
  <2>1. UNCHANGED <<msg, trigger, task>> /\ (RecScans \/ RecTakes \/ RecAsks \/ RecEnds)
    BY <1>2, RecMoves
  <2>2. CASE RecScans
    BY <2>1, <2>2 DEF RecScans, Mail, Job
  <2>3. ASSUME rec.pc # "idle"
        PROVE  /\ \A u \in Slots : ~Unsent(u)'
               /\ rec.job \in Jobs
    BY <2>1, <2>3, RecAlone DEF Unsent, Before, Creating
  <2>4. CASE RecTakes
    <3>1. \A i \in Jobs : /\ job'[i].phase = job[i].phase /\ job'[i].msg = job[i].msg
                          /\ job'[i].state = "pending" => job[i].state = "pending"
      BY <2>3, <2>4 DEF RecTakes
    <3> QED
      BY <2>1, <2>3, <2>4, <3>1 DEF RecTakes, Mail, Unsent
  <2>5. CASE RecAsks
    BY <2>1, <2>3, <2>5 DEF RecAsks, Mail, Unsent
  <2>6. CASE RecEnds
    <3>1. rec.pc # "idle" /\ rec'.pc = "idle" /\ 0 \notin Messages
      BY <2>6, Bounds DEF RecEnds, NoRec
    <3>2. job[rec.job].phase \in Watching => job[rec.job].msg \in Messages
      BY <2>3, <3>1 DEF Kinds
    <3>3. ASSUME NEW j \in Jobs
          PROVE  \/ job'[j] = job[j]
                 \/ /\ j = rec.job
                    /\ job'[j].phase = job[j].phase /\ job'[j].msg = job[j].msg
                    /\ job'[j].state = "pending" /\ job[j].phase \in Delivering =>
                         msg[job[j].msg].state = "pending"
                 \/ /\ job'[j].phase = "observe" /\ job'[j].msg = job[rec.job].msg
                    /\ job[rec.job].phase \in Watching
                    /\ msg[job[rec.job].msg].state = "sent"
      BY <2>3, <2>6, <3>1, <3>2, PendingRow DEF RecEnds, Mail, Delivering, Watching
    <3>4. \A i, j \in Jobs :
            job'[i].phase \in Delivering /\ job'[j].phase \in Delivering
              /\ job'[i].msg = job'[j].msg => i = j
      <4>1. \A j \in Jobs : job'[j].phase \in Delivering =>
              job[j].phase = job'[j].phase /\ job[j].msg = job'[j].msg
        BY <3>3 DEF Delivering
      <4> QED
        BY <4>1 DEF Mail
    <3>5. \A j \in Jobs : job'[j].phase \in Delivering =>
            /\ msg[job'[j].msg].state # "none"
            /\ job'[j].state = "pending" => msg[job'[j].msg].state = "pending"
      BY <3>3 DEF Mail, Delivering
    <3>6. \A j \in Jobs :
            /\ job'[j].phase \notin Watching => job'[j].msg = 0
            /\ job'[j].phase = "observe" => msg[job'[j].msg].state \notin {"none", "pending"}
      BY <3>3 DEF Mail, Watching
    <3> QED
      BY <2>1, <2>3, <3>1, <3>4, <3>5, <3>6 DEF Mail, Unsent
  <2> QED
    BY <2>1, <2>2, <2>4, <2>5, <2>6
<1>3. CASE SendMessage \/ StopGeneration \/ Finish \/ Recollect
  <2>1. UNCHANGED <<trigger, task, rec>> /\ (Posts \/ Cancels \/ Asks)
    BY <1>3, RequestMoves
  <2>2. NoMessage.state = "none" /\ NoJob.state = "none" /\ NoJob.phase = "none"
    BY DEF NoMessage, NoJob
  <2>3. \A t \in Slots : Unsent(t) =>
          Busy(t) /\ task[t].job \in Jobs /\ Job(t).state = "running"
          /\ Job(t).phase \in Delivering
    BY Holder DEF Unsent, Busy, Before, Creating, Kinds
  <2>4. rec.pc # "idle" => rec.job \in Jobs /\ job[rec.job].state \in AtWork
    BY RecAlone
  <2>5. CASE Posts
    <3>1. PICK m \in Messages, n \in Jobs :
            /\ msg[m] = NoMessage /\ job[n] = NoJob
            /\ msg'[m].state = "pending" /\ \A k \in Messages \ {m} : msg'[k] = msg[k]
            /\ job'[n] = Pending("message", m, 0) /\ \A j \in Jobs \ {n} : job'[j] = job[j]
      BY <2>5 DEF Posts
    <3>2. \A k \in Messages : msg[k].state # "none" => k # m /\ msg'[k] = msg[k]
      BY <2>2, <3>1
    <3>3. \A g \in Gens : trigger[g] # 0 => trigger[g] \in Messages
      BY DEF TypeOK
    <3>4. /\ \A g \in Gens : trigger'[g] # 0 => msg'[trigger'[g]].state \notin {"none", "pending"}
          /\ \A g, h \in Gens : trigger'[g] = trigger'[h] /\ trigger'[g] # 0 => g = h
      BY <2>1, <3>2, <3>3 DEF Mail
    <3>5. \A j \in Jobs : j # n /\ job[j].phase \in Watching =>
            job[j].msg \in Messages /\ job[j].msg # m /\ msg'[job[j].msg] = msg[job[j].msg]
      BY <3>2 DEF Mail, Kinds, Watching
    <3>6. job'[n].phase = "message" /\ job'[n].msg = m /\ "message" \in Delivering
          /\ "message" \in Watching /\ "message" # "observe"
      BY <3>1, PendingRow DEF Delivering, Watching
    <3>7. \A j \in Jobs : job'[j].phase \in Delivering =>
            /\ msg'[job'[j].msg].state # "none"
            /\ job'[j].state = "pending" => msg'[job'[j].msg].state = "pending"
      BY <3>1, <3>5, <3>6 DEF Mail, Watching
    <3>8. \A i, j \in Jobs :
            job'[i].phase \in Delivering /\ job'[j].phase \in Delivering
              /\ job'[i].msg = job'[j].msg => i = j
      BY <3>1, <3>5, <3>6 DEF Mail, Watching
    <3>9. \A j \in Jobs :
            /\ job'[j].phase \notin Watching => job'[j].msg = 0
            /\ job'[j].phase = "observe" => msg'[job'[j].msg].state \notin {"none", "pending"}
      BY <3>1, <3>5, <3>6 DEF Mail, Watching
    <3>10. \A t \in Slots : Unsent(t)' => msg'[Job(t)'.msg].state = "pending"
      <4>1. TAKE t \in Slots
      <4>2. Unsent(t)' => Busy(t)
        BY <2>1 DEF Unsent, Busy, Before, Creating
      <4>3. Busy(t) => task[t].job # n /\ task[t].job \in Jobs
        BY <2>2, <3>1, Holder DEF Job
      <4>4. Busy(t) => Job(t)' = Job(t)
        BY <2>1, <3>1, <4>3 DEF Job
      <4>5. Unsent(t)' => Unsent(t)
        BY <2>1, <4>2, <4>4 DEF Unsent
      <4> QED
        BY <2>3, <3>5, <4>2, <4>3, <4>4, <4>5 DEF Mail, Unsent, Watching, Job
    <3>11. rec'.pc = "query" /\ rec'.accepted => msg'[job'[rec'.job].msg].state = "sent"
      BY <2>1, <2>2, <2>4, <3>1, <3>5 DEF Mail, Kinds, AtWork
    <3> QED
      BY <3>4, <3>7, <3>8, <3>9, <3>10, <3>11 DEF Mail, Unsent
  <2>6. CASE Cancels
    <3>1. \A t \in Slots : ~Unsent(t)'
      <4>1. \A t \in Slots : ~Busy(t)
        BY <2>6, Holder DEF Cancels, NobodyAtWork, AtWork, Job
      <4> QED
        BY <2>1, <4>1 DEF Unsent, Busy, Before, Creating
    <3>2. rec'.pc = "idle"
      BY <2>1, <2>4, <2>6 DEF Cancels, NobodyAtWork
    <3>3. \A k \in Messages : /\ msg[k].state # "none" => msg'[k].state # "none"
                              /\ msg[k].state \notin {"none", "pending"} =>
                                   msg'[k].state = msg[k].state
      BY <2>6 DEF Cancels
    <3>4. \A j \in Jobs :
            /\ job'[j].phase = job[j].phase /\ job'[j].msg = job[j].msg
            /\ ~(job'[j].state = "pending" /\ job'[j].phase \in Delivering)
      BY <2>6 DEF Cancels
    <3>5. \A j \in Jobs : job[j].phase \in Watching => job[j].msg \in Messages
      BY DEF Kinds
    <3>6. \A g \in Gens : trigger[g] # 0 => trigger[g] \in Messages
      BY DEF TypeOK
    <3> QED
      BY <2>1, <3>1, <3>2, <3>3, <3>4, <3>5, <3>6 DEF Mail, Unsent, Watching
  <2>7. CASE Asks
    <3>1. \A j \in Jobs :
            \/ job'[j] = job[j]
            \/ job[j] = NoJob /\ job'[j].phase \in {"finish", "collect"} /\ job'[j].msg = 0
      BY <2>7, PendingRow DEF Asks
    <3>2. \A j \in Jobs : job'[j].phase \in Watching => job'[j] = job[j]
      BY <3>1 DEF Watching, Delivering
    <3>3. \A t \in Slots : Busy(t) => Job(t)' = Job(t)
      BY <2>1, <2>2, <3>1, Holder DEF Job
    <3>4. rec.pc # "idle" => job'[rec.job] = job[rec.job]
      BY <2>2, <2>4, <3>1 DEF AtWork
    <3>5. \A t \in Slots : Unsent(t)' => Unsent(t) /\ Job(t)' = Job(t)
      BY <2>1, <3>3 DEF Unsent, Busy, Before, Creating
    <3> QED
      BY <2>1, <2>7, <3>1, <3>2, <3>4, <3>5 DEF Asks, Mail, Unsent, Watching
  <2> QED
    BY <2>1, <2>5, <2>6, <2>7
<1>4. CASE Outside
  <2>1. UNCHANGED <<msg, trigger>> /\ (rec' = rec \/ rec'.pc = "idle")
    BY <1>4 DEF Outside, NoRec
  <2>2. \A t \in Slots : Unsent(t)' => Unsent(t) /\ Job(t)' = Job(t)
    BY <1>4 DEF Outside, Unsent, Busy, Before, Creating, Idle, Job
  <2>3. rec'.pc = "query" => rec.job \in Jobs /\ rec' = rec
    BY <2>1 DEF Kinds
  <2> QED
    BY <1>4, <2>1, <2>2, <2>3 DEF Outside, Mail, Unsent
<1>5. CASE UNCHANGED vars
  BY <1>5 DEF vars, rows, Mail, Job
<1> QED
  BY <1>1, <1>2, <1>3, <1>4, <1>5, TaskKeepsMail, OutsideMoves DEF Next

-----------------------------------------------------------------------------
(* Each message with what it needs.                                         *)

LEMMA TaskKeepsWhole ==
  ASSUME TypeOK, Kinds, Writer, Whole, NEW t \in Slots, TaskStep(t) \/ Control(t)
  PROVE  Whole'
<1>1. /\ Busy(t) /\ Alone(t)
      /\ Stays(t) \/ Ends(t) \/ Passes(t) \/ Marks(t) \/ Creates(t) \/ Starts(t)
  BY TaskMoves, TaskWrites
<1>2. \A u \in Slots : u # t => task'[u].pc = "idle"
  BY <1>1, AloneAtWork DEF Alone
<1>3. GoesOn(t) => /\ Job(t)'.phase = Job(t).phase /\ Job(t)'.msg = Job(t).msg
                   /\ Fits(t, task'[t].pc)
  BY <1>1, TaskMoves DEF Alone, GoesOn, JobEnds, Idle, Job
<1>4. /\ Before \intersect ({"open_chat", "complete", "history", "idle", "watch", "collect"}
                              \union Chatting) = {}
      /\ "observe" \notin Delivering
  BY DEF Before, Creating, Chatting, Delivering
<1>5. CASE Ends(t)
  BY <1>2, <1>5 DEF Ends, JobEnds, Idle, Whole, Sending, Before, Creating
<1>6. CASE Stays(t)
  <2>1. Job(t)' = Job(t) /\ UNCHANGED <<run, trigger>>
    BY <1>6 DEF Stays, GoesOn, Job, rows
  <2>2. Sending(t)' => Sending(t)
    BY <1>6, <2>1 DEF Stays, Sending
  <2> QED
    BY <1>2, <1>4, <1>6, <2>1, <2>2 DEF Stays, Whole, Sending
<1>7. CASE Marks(t)
  <2>1. Sending(t)' => Sending(t) /\ run' = run
    BY <1>7 DEF Marks, Sending
  <2>2. task'[t].pc \notin Before
    BY <1>4, <1>7 DEF Marks, Chatting
  <2> QED
    BY <1>2, <1>3, <1>4, <1>7, <2>1, <2>2 DEF Marks, Whole, Sending
<1>8. CASE Creates(t)
  BY <1>2, <1>3, <1>8 DEF Creates, Whole, Sending, Before, Creating
<1>9. CASE Starts(t)
  <2>1. PICK g \in Gens : /\ trigger[g] = 0 /\ task'[t].gen = g
                          /\ trigger' = [trigger EXCEPT ![g] = Job(t).msg]
    BY <1>9 DEF Starts
  <2>2. run.session /\ {Job(t).msg} \intersect Attached \subseteq run.inputs
    BY <1>9 DEF Starts, Whole
  <2>3. task'[t].gen \in Gens /\ trigger'[task'[t].gen] = Job(t).msg
    BY <2>1 DEF TypeOK
  <2> QED
    BY <1>2, <1>3, <1>4, <1>9, <2>2, <2>3 DEF Starts, SameRun, Whole, Sending
<1>10. CASE Passes(t)
  <2>1. task'[t].pc \in (Before \ {"unsent"}) => run'.status \notin Terminal
    BY <1>4, <1>10 DEF Passes, Whole, Terminal
  <2>2. task'[t].pc = "start" =>
          run'.session /\ {Job(t).msg} \intersect Attached \subseteq run'.inputs
    BY <1>10 DEF Passes, Lacking
  <2>3. Sending(t)' => Sending(t) /\ task'[t].pc \in {"chat", "started"}
    <3>1. CASE task'[t].pc = "open_chat"
      BY <1>3, <1>4, <1>10, <3>1 DEF Passes, Sending
    <3>2. CASE task'[t].pc = "chat"
      BY <1>3, <1>10, <3>2 DEF Passes, Sending, Fits, Chatting
    <3>3. CASE task'[t].pc = "started"
      BY <1>10, <3>3 DEF Passes, Sending
    <3> QED
      BY <3>1, <3>2, <3>3 DEF Sending
  <2>4. Sending(t)' =>
          /\ run'.status \notin Terminal
          /\ run'.session /\ {Job(t).msg} \intersect Attached \subseteq run'.inputs
          /\ task'[t].gen \in Gens /\ trigger'[task'[t].gen] = Job(t).msg
    BY <1>10, <2>3 DEF Passes, Whole, Terminal
  <2>5. Job(t)'.msg = Job(t).msg
    BY <1>3, <1>10 DEF Passes
  <2> QED
    BY <1>2, <2>1, <2>2, <2>4, <2>5 DEF Whole, Sending, Before, Creating
<1> QED
  BY <1>1, <1>5, <1>6, <1>7, <1>8, <1>9, <1>10

LEMMA WholeStep ==
  ASSUME TypeOK, Kinds, Writer, Whole, [Next]_vars PROVE Whole'
<1>1. ASSUME NEW t \in Slots, Claim(t) PROVE Whole'
  <2>1. \A u \in Slots : task'[u].pc \in {"idle", "begin"}
    BY <1>1, ClaimMoves
  <2> QED
    BY <2>1 DEF Whole, Sending, Before, Creating
<1>2. CASE RecStep
  <2>1. UNCHANGED <<task, trigger>> /\ (RecScans \/ RecTakes \/ RecAsks \/ RecEnds)
    BY <1>2, RecMoves
  <2>2. CASE RecScans
    BY <2>1, <2>2 DEF RecScans, Whole, Sending, Job
  <2>3. CASE rec.pc # "idle"
    BY <2>1, <2>3, RecAlone DEF Whole, Sending, Before, Creating
  <2> QED
    BY <2>1, <2>2, <2>3 DEF RecTakes, RecAsks, RecEnds
<1>3. CASE SendMessage \/ StopGeneration \/ Finish \/ Recollect
  <2>1. /\ UNCHANGED <<trigger, task>> /\ run'.session = run.session
        /\ run'.inputs = run.inputs
        /\ run'.status \in Terminal => run.status \in Terminal \/ NobodyAtWork
        /\ Posts \/ Cancels \/ Asks
    BY <1>3, RequestMoves
  <2>2. \A t \in Slots : Busy(t) => Job(t)' = Job(t) /\ ~NobodyAtWork
    BY <2>1, Holder DEF Posts, Cancels, Asks, NobodyAtWork, AtWork, NoJob, Job
  <2>3. \A t \in Slots : task[t].pc \in Before \/ task[t].pc = "start" \/ Sending(t) => Busy(t)
    BY DEF Busy, Sending, Before, Creating
  <2>4. \A t \in Slots : Sending(t)' => Sending(t)
    BY <2>1, <2>2 DEF Sending, Busy
  <2> QED
    BY <2>1, <2>2, <2>3, <2>4 DEF Whole
<1>4. CASE Outside
  <2>1. \A t \in Slots : Busy(t)' => task'[t] = task[t] /\ Job(t)' = Job(t)
    BY <1>4 DEF Outside, Busy, Idle, Job
  <2>2. \A t \in Slots : task'[t].pc \in Before \/ task'[t].pc = "start" \/ Sending(t)' => Busy(t)'
    BY DEF Busy, Sending, Before, Creating
  <2>3. \A t \in Slots : Sending(t)' => Sending(t)
    BY <2>1, <2>2 DEF Sending
  <2> QED
    BY <1>4, <2>1, <2>2, <2>3 DEF Outside, Whole
<1>5. CASE UNCHANGED vars
  BY <1>5 DEF vars, rows, Whole, Sending, Job
<1> QED
  BY <1>1, <1>2, <1>3, <1>4, <1>5, TaskKeepsWhole, OutsideMoves DEF Next

-----------------------------------------------------------------------------
(* The theorems.                                                            *)

LEMMA InvInit == Init => IInv
<1> SUFFICES ASSUME Init PROVE IInv
  OBVIOUS
<1>1. \A t \in Slots : task[t].pc = "idle"
  BY DEF Init, Idle
<1>2. rec.pc = "idle"
  BY DEF Init, NoRec
<1>3. \A j \in Jobs : job[j] = IF j = 1 THEN Pending("prepare", 1, 0) ELSE NoJob
  BY DEF Init
<1>4. msg[1].state = "pending"
  BY Bounds DEF Init, NoMessage
<1>5. \A j \in Jobs : /\ job[j].phase \in Delivering => j = 1 /\ job[j].msg = 1
                      /\ job[j].phase \notin Watching => job[j].msg = 0
                      /\ job[j].phase # "observe"
  BY <1>3, PendingRow DEF NoJob, Watching, Delivering
<1>6. Mail
  BY <1>1, <1>2, <1>4, <1>5 DEF Mail, Init, Before, Creating
<1>7. OneSession
  BY <1>1 DEF OneSession, Init
<1>8. Whole
  BY <1>1 DEF Whole, Sending, Before, Creating
<1> QED
  BY <1>6, <1>7, <1>8, InitTypes, WriterInit DEF IInv

LEMMA AlwaysIInv == Spec => []IInv
<1>1. IInv /\ [Next]_vars => IInv'
  BY TypesStep, WriterStep, SessionStep, MailStep, WholeStep DEF IInv
<1> QED
  BY <1>1, InvInit, PTL DEF Spec

\* The types of the rows, of the tasks and of the reconciliation: what worker.py,
\* service.py and recovery.py write fits its columns, and the phase of a job is
\* known wherever it decides.
THEOREM TypeCorrect == Spec => []TypeOK
<1>1. IInv => TypeOK
  BY DEF IInv
<1> QED
  BY <1>1, AlwaysIInv, PTL

\* Claims, takeovers, crashes and shutdowns never let two tasks, or a task and a
\* reconciliation, act on the run at once: the claim of store.py, the lease and
\* the take-over of recovery.py exclude each other.
THEOREM OneWriterHolds == Spec => []OneWriter
<1>1. IInv => OneWriter
  <2> SUFFICES ASSUME IInv, NEW t \in Slots, Busy(t)
               PROVE  /\ Job(t).state = "running" /\ Owned(t)
                      /\ \A u \in Slots \ {t} : task[u].pc = "idle"
                      /\ rec.pc \notin {"taken", "query"}
    BY DEF OneWriter, Busy
  <2> QED
    BY Holder, AloneAtWork DEF IInv
<1> QED
  BY <1>1, AlwaysIInv, PTL

\* However the run is interrupted and resumed, it creates one session at most and
\* starts one generation at most for each message: the checkpoints of worker.py
\* and the decision of recovery.py replay nothing that may have been accepted.
THEOREM NothingIsReplayed == Spec => []NothingReplayed
<1>1. IInv => NothingReplayed
  <2> SUFFICES ASSUME IInv PROVE NothingReplayed
    OBVIOUS
  <2>1. creates <= 1
    BY DEF IInv, OneSession
  <2>2. ASSUME NEW m \in Messages PROVE Cardinality(Deliveries(m)) <= 1
    <3>1. \A g, h \in Deliveries(m) : g = h
      BY Bounds DEF Deliveries, IInv, Mail
    <3>2. CASE Deliveries(m) = {}
      BY <3>2, FS_EmptySet
    <3>3. CASE Deliveries(m) # {}
      <4>1. PICK g : Deliveries(m) = {g}
        BY <3>1, <3>3
      <4> QED
        BY <4>1, FS_Singleton
    <3> QED
      BY <3>2, <3>3
  <2> QED
    BY <2>1, <2>2 DEF NothingReplayed
<1> QED
  BY <1>1, AlwaysIInv, PTL

\* What a message needs is looked at in several steps, the run's rows are written
\* by requests in between, and it still goes out only in a session, with its
\* attachment, and in a run that is not over (worker.py: deliver, execute).
THEOREM SentIsWhole == Spec => SentWhole
<1>1. IInv /\ [Next]_vars =>
        [\A g \in Gens : remote[g] = "none" /\ remote'[g] = "sent" =>
           /\ run.status \notin Terminal
           /\ run.session
           /\ {trigger[g]} \intersect Attached \subseteq run.inputs]_vars
  <2> SUFFICES ASSUME IInv, [Next]_vars, NEW g \in Gens,
                      remote[g] = "none", remote'[g] = "sent"
               PROVE  /\ run.status \notin Terminal /\ run.session
                      /\ {trigger[g]} \intersect Attached \subseteq run.inputs
    OBVIOUS
  <2>1. remote \in [Gens -> {"none", "sent", "running", "paused", "done", "stopped"}]
    BY DEF IInv, TypeOK
  <2>2. \A h : Stopped(h)[g] = "none"
    BY <2>1 DEF Stopped
  <2>3. ASSUME NEW t \in Slots, TaskStep(t) \/ Control(t) PROVE Send(t)
    BY <2>1, <2>2, <2>3 DEF TaskStep, Control, Begin, CancelUnsent, Prepare, Open, Close,
       CreateSession, Upload, Deliver, StartGeneration, ChatStarts, ChatAccepted, SeeEnd,
       GenerationEnd, Collect, Gather, Fix, Complete, Interrupted
  <2>4. PICK t \in Slots : Send(t)
    <3>1. CASE \E t \in Slots : TaskStep(t) \/ Control(t)
      BY <2>3, <3>1
    <3>2. CASE \E t \in Slots : Claim(t)
      BY <3>2 DEF Claim
    <3>3. CASE RecStep
      BY <3>3, RecMoves DEF IInv
    <3>4. CASE SendMessage \/ StopGeneration \/ Finish \/ Recollect
      BY <3>4, RequestMoves DEF IInv
    <3>5. CASE \E h \in Gens : RemoteAccepts(h) \/ RemoteEnds(h)
      BY <2>1, <3>5 DEF RemoteAccepts, RemoteEnds
    <3>6. CASE (\E j \in Jobs : LeaseLapses(j)) \/ Crash \/ Shutdown \/ Start
      BY <3>6 DEF LeaseLapses, Crash, Shutdown, Start
    <3>7. CASE UNCHANGED vars
      BY <3>7 DEF vars
    <3> QED
      BY <3>1, <3>2, <3>3, <3>4, <3>5, <3>6, <3>7 DEF Next
  <2>5. Sending(t)
    BY <2>4 DEF Send, Turn, Sending
  <2>6. g = task[t].gen
    BY <2>1, <2>4 DEF Send
  <2> QED
    BY <2>5, <2>6 DEF IInv, Whole
<1> QED
  BY <1>1, AlwaysIInv, PTL DEF Spec, SentWhole

-----------------------------------------------------------------------------
(* The remote session while the run waits.                                  *)

\* Without a restart, a generation under way is the one whose chat a task holds
\* open, or that of a chat which broke off: then the run has failed.
AtChat == {"open_chat", "chat", "started", "ended", "turn"}
Live(g) == remote[g] \in {"sent", "running"}
Listens(t, g) == task[t].pc \in {"chat", "started"} /\ task[t].gen = g
Calm ==
  used.restart = 0 =>
    /\ up = "up" /\ rec.pc = "idle"
    /\ \A j \in Jobs :
         /\ job[j].phase # "observe"
         /\ job[j].state = "running" => job[j].owner = "me" /\ ~job[j].lapsed
    /\ \A t \in Slots :
         /\ task[t].pc # "watch"
         /\ task[t].pc \in AtChat => run.status \in {"active", "finishing"}
    /\ \A g \in Gens : Live(g) => run.status \in Terminal \/ \E t \in Slots : Listens(t, g)

\* A stop ends a generation and starts none.
LEMMA StoppedLive ==
  ASSUME TypeOK, NEW h, NEW g \in Gens, Stopped(h)[g] \in {"sent", "running"}
  PROVE  Live(g)
BY DEF Stopped, Live, TypeOK

\* What a step of a task leaves for the chat: its place and the status of the run,
\* and who listens to the generations under way.
Kept(t) ==
  /\ task'[t].pc # "watch"
  /\ task'[t].pc \in AtChat => run'.status \in {"active", "finishing"}
  /\ \A g \in Gens : Live(g)' => run'.status \in Terminal \/ Listens(t, g)'

\* A task that breaks off leaves a run that has failed.
LEMMA RaiseKept ==
  ASSUME TypeOK, Kinds, Writer, NEW t \in Slots, Busy(t), Raise(t)
  PROVE  Kept(t)
<1>1. task'[t] = Idle
  BY RaiseMoves DEF JobEnds
<1>2. run' = [run EXCEPT !.status = "failed", !.gen = "failed"] /\ run \in RunRow
  BY Holder DEF Raise, TypeOK
<1>3. run'.status = "failed"
  BY <1>2 DEF RunRow
<1> QED
  BY <1>1, <1>3 DEF Kept, Idle, AtChat, Terminal

\* A step that leaves the status alone and starts no generation keeps a chat only
\* where there was one, and leaves it only when its generation has ended.
LEMMA PlainKept ==
  ASSUME TypeOK, Kinds, Writer, Calm, used.restart = 0, NEW t \in Slots, Busy(t),
         run'.status = run.status,
         \A g \in Gens : Live(g)' => Live(g),
         task'[t].pc # "watch",
         task'[t].pc \in AtChat => task[t].pc \in AtChat,
         \A g \in Gens : Live(g)' /\ Listens(t, g) => Listens(t, g)'
  PROVE  Kept(t)
<1>1. \A u \in Slots, g \in Gens : Listens(u, g) => u = t
  BY AloneAtWork DEF Listens
<1>2. \A g \in Gens : Live(g)' => run'.status \in Terminal \/ Listens(t, g)'
  BY <1>1 DEF Calm
<1> QED
  BY <1>2 DEF Kept, Calm

\* Before its generation starts, and after it has ended, nothing is under way.
LEMMA NothingLive ==
  ASSUME TypeOK, Kinds, Writer, Whole, Calm, used.restart = 0, NEW t \in Slots,
         task[t].pc \in (Before \ {"unsent"}) \union {"open_chat", "ended", "turn"},
         NEW g \in Gens
  PROVE  ~Live(g)
<1>1. run.status \notin Terminal
  BY DEF Whole, Calm, AtChat, Terminal
<1>2. Busy(t) /\ task[t].pc \notin {"chat", "started"}
  BY DEF Busy, Before, Creating
<1>3. \A u \in Slots : ~Listens(u, g)
  BY <1>2, AloneAtWork DEF Listens
<1> QED
  BY <1>1, <1>3 DEF Calm

LEMMA TaskKept ==
  ASSUME TypeOK, Kinds, Writer, Whole, Calm, used.restart = 0, NEW t \in Slots,
         TaskStep(t) \/ Control(t)
  PROVE  Kept(t) /\ UNCHANGED <<up, used>>
<1> USE DEF Places, Awaits, Opening
<1>0. /\ Busy(t) /\ Owned(t) /\ run \in RunRow /\ task[t] \in TaskRow
      /\ task \in [Slots -> TaskRow] /\ Job(t).phase # "observe"
      /\ UNCHANGED <<up, used>>
  <2>1. Busy(t)
    BY TaskMoves
  <2>2. UNCHANGED <<up, used>>
    BY DEF TaskStep, Control, Begin, CancelUnsent, Prepare, Open, Close, CreateSession,
       Upload, Deliver, StartGeneration, Send, ChatStarts, ChatAccepted, SeeEnd,
       GenerationEnd, Collect, Gather, Fix, Complete, Interrupted
  <2> QED
    BY <2>1, <2>2, TaskJob, Holder DEF TypeOK, Calm, Job
<1>1. \A pc \in Places \ {"idle"} :
        GoTo(t, pc) => task'[t].pc = pc /\ task'[t].gen = task[t].gen
  <2> SUFFICES ASSUME NEW pc \in Places \ {"idle"}, GoTo(t, pc)
               PROVE  task'[t].pc = pc /\ task'[t].gen = task[t].gen
    OBVIOUS
  <2>1. task'[t] = [task[t] EXCEPT !.pc = pc]
    BY <1>0 DEF GoTo
  <2> QED
    BY <1>0, <2>1 DEF TaskRow
<1>2. CASE Begin(t)
  <2>1. Job(t).phase \in {"prepare", "message", "finish", "collect"}
    BY <1>0, TaskJob DEF JobRow
  <2>2. PICK pc \in {"unsent", "prepare", "deliver", "collect", "fix"}, q \in BOOLEAN :
          task' = [task EXCEPT ![t].pc = pc, ![t].quiet = q]
    BY <1>2, <2>1 DEF Begin, Unwanted
  <2>3. task'[t] = [task[t] EXCEPT !.pc = pc, !.quiet = q]
    BY <1>0, <2>2
  <2>4. task'[t].pc = pc
    BY <1>0, <2>3 DEF TaskRow
  <2>5. task[t].pc = "begin" /\ UNCHANGED <<run, remote>>
    BY <1>2 DEF Begin, Turn, rows
  <2>6. /\ task'[t].pc # "watch" /\ task'[t].pc \notin AtChat
        /\ \A g \in Gens : ~Listens(t, g)
    BY <2>2, <2>4, <2>5 DEF AtChat, Listens
  <2> QED
    BY <1>0, <2>5, <2>6, PlainKept DEF Live
<1>3. CASE CancelUnsent(t) \/ Gather(t) \/ CreateSession(t) \/ Upload(t)
  <2>1. PICK pc \in {"complete", "fix", "created", "uploaded"} : GoTo(t, pc)
    BY <1>3 DEF CancelUnsent, Gather, CreateSession, Upload
  <2>2. task[t].pc \in {"unsent", "gather", "create", "upload"} /\ UNCHANGED remote
    BY <1>3 DEF CancelUnsent, Gather, CreateSession, Upload, Turn
  <2>3. run'.status = run.status
    BY <1>0, <1>3 DEF CancelUnsent, Gather, CreateSession, Upload, rows, RunRow
  <2>4. task'[t].pc = pc
    BY <1>1, <2>1
  <2>5. /\ task'[t].pc # "watch" /\ task'[t].pc \notin AtChat
        /\ \A g \in Gens : ~Listens(t, g)
    BY <2>2, <2>4 DEF AtChat, Listens
  <2> QED
    BY <1>0, <2>2, <2>3, <2>5, PlainKept DEF Live
<1>4. CASE Prepare(t)
  <2>1. PICK pc \in {"deliver", "open_upload", "open_create"} : GoTo(t, pc)
    BY <1>4 DEF Prepare, AfterSession
  <2>2. task'[t].pc = pc
    BY <1>1, <2>1
  <2>3. \A g \in Gens : ~Live(g)
    BY <1>4, NothingLive DEF Prepare, Turn, Before, Creating
  <2> QED
    BY <1>0, <1>4, <2>2, <2>3 DEF Prepare, Kept, Live, AtChat
<1>5. CASE Open(t) \/ Close(t)
  <2>1. CASE Raise(t)
    BY <1>0, <2>1, RaiseKept
  <2>2. CASE \E c, pc : /\ Checkpoint(t, c, pc)
                        /\ pc \in {"create", "upload", "chat", "deliver", "open_upload", "turn"}
                        /\ pc = "chat" => task[t].pc = "open_chat"
                        /\ pc = "turn" => task[t].pc = "ended"
    <3>1. PICK c, pc : /\ Checkpoint(t, c, pc)
                       /\ pc \in {"create", "upload", "chat", "deliver", "open_upload", "turn"}
                       /\ pc = "chat" => task[t].pc = "open_chat"
                       /\ pc = "turn" => task[t].pc = "ended"
      BY <2>2
    <3>2. task'[t] = [task[t] EXCEPT !.cp = c, !.pc = pc] /\ UNCHANGED run
      BY <1>0, <3>1 DEF Checkpoint
    <3>3. task'[t].pc = pc
      BY <1>0, <3>2 DEF TaskRow
    <3>4. UNCHANGED remote
         /\ task[t].pc \in Opening \union {"created", "uploaded", "ended"}
      BY <1>5 DEF Open, OpenAt, Close, CloseAt, Turn
    <3>5. /\ task'[t].pc # "watch"
          /\ task'[t].pc \in AtChat => task[t].pc \in AtChat
          /\ \A g \in Gens : ~Listens(t, g)
      BY <3>1, <3>3, <3>4 DEF AtChat, Listens
    <3> QED
      BY <1>0, <3>2, <3>4, <3>5, PlainKept DEF Live
  <2>3. CASE Open(t)
    BY <1>0, <2>2, <2>3 DEF Open, OpenAt, Turn
  <2>4. CASE Close(t)
    BY <2>1, <2>2, <2>4 DEF Close, CloseAt, Turn, AfterSession
  <2> QED
    BY <1>5, <2>3, <2>4
<1>6. CASE Deliver(t)
  <2>1. CASE Raise(t)
    BY <1>0, <2>1, RaiseKept
  <2>2. CASE ~Undeliverable(t)
    <3>1. PICK pc \in {"open_upload", "start"} : GoTo(t, pc) /\ run' = run
      BY <1>6, <2>2 DEF Deliver
    <3>2. task'[t].pc = pc
      BY <1>1, <3>1
    <3>3. task[t].pc = "deliver" /\ UNCHANGED remote
      BY <1>6 DEF Deliver, Turn
    <3>4. /\ task'[t].pc # "watch" /\ task'[t].pc \notin AtChat
          /\ \A g \in Gens : ~Listens(t, g)
      BY <3>2, <3>3 DEF AtChat, Listens
    <3> QED
      BY <1>0, <3>1, <3>3, <3>4, PlainKept DEF Live
  <2> QED
    BY <1>6, <2>1, <2>2 DEF Deliver
<1>7. CASE StartGeneration(t)
  <2>1. (\A g \in Gens : ~Live(g)) /\ UNCHANGED remote
    BY <1>7, NothingLive DEF StartGeneration, Turn, Before, Creating
  <2>2. CASE GoTo(t, "complete")
    <3>1. task'[t].pc = "complete"
      BY <1>1, <2>2
    <3>2. \A g \in Gens : ~Live(g)'
      BY <2>1 DEF Live
    <3>3. task'[t].pc # "watch" /\ task'[t].pc \notin AtChat
      BY <3>1 DEF AtChat
    <3> QED
      BY <1>0, <3>2, <3>3 DEF Kept
  <2>3. ASSUME NEW g \in Gens, task' = [task EXCEPT ![t].pc = "open_chat", ![t].gen = g],
               run' = [run EXCEPT !.status = IF run.finish THEN "finishing" ELSE "active",
                                  !.gen = "running", !.stop = 0]
        PROVE  Kept(t)
    <3>1. task'[t] = [task[t] EXCEPT !.pc = "open_chat", !.gen = g]
      BY <1>0, <2>3
    <3>2. task'[t].pc = "open_chat"
      BY <1>0, <3>1 DEF TaskRow
    <3>3. run'.status \in {"active", "finishing"}
      BY <1>0, <2>3 DEF RunRow
    <3> QED
      BY <2>1, <3>2, <3>3 DEF Kept, Live
  <2> QED
    BY <1>7, <2>2, <2>3, FirstOf DEF StartGeneration, NextGen
<1>8. CASE Send(t)
  <2>1. task[t].pc = "chat" /\ UNCHANGED <<run, task>>
        /\ remote' = [remote EXCEPT ![task[t].gen] = "sent"]
    BY <1>8 DEF Send, Turn, rows
  <2>2. \A g \in Gens : Live(g)' => Live(g) \/ g = task[t].gen
    BY <2>1 DEF Live, TypeOK
  <2>3. run.status \in {"active", "finishing"}
    BY <2>1 DEF Calm, AtChat
  <2>4. \A u \in Slots, g \in Gens : Listens(u, g) => u = t
    BY <1>0, AloneAtWork DEF Listens
  <2>5. \A g \in Gens : Live(g) => Listens(t, g)
    BY <2>3, <2>4 DEF Calm, Terminal
  <2> QED
    BY <1>0, <2>1, <2>2, <2>3, <2>5 DEF Kept, Listens
<1>9. CASE ChatStarts(t) \/ ChatAccepted(t)
  <2>1. task[t].pc \in {"chat", "started"} /\ UNCHANGED remote
    BY <1>9 DEF ChatStarts, ChatAccepted, Turn
  <2>2. run'.status = run.status
    BY <1>0, <1>9 DEF ChatStarts, ChatAccepted, RunRow
  <2>3. task'[t].pc \in {"chat", "started"} /\ task'[t].gen = task[t].gen
    <3>1. CASE ChatStarts(t)
      <4>1. task'[t] = [task[t] EXCEPT !.pc = "started", !.seen = TRUE]
        BY <1>0, <3>1 DEF ChatStarts
      <4> QED
        BY <1>0, <4>1 DEF TaskRow
    <3> QED
      BY <1>1, <1>9, <3>1 DEF ChatAccepted
  <2>4. /\ task'[t].pc # "watch" /\ task[t].pc \in AtChat
        /\ \A g \in Gens : Listens(t, g) => Listens(t, g)'
    BY <2>1, <2>3 DEF AtChat, Listens
  <2> QED
    BY <1>0, <2>1, <2>2, <2>4, PlainKept DEF Live
<1>10. CASE SeeEnd(t)
  <2>1. task[t].pc = "chat" /\ GoTo(t, "ended")
    BY <1>10 DEF SeeEnd, Turn, Calm
  <2>2. task'[t].pc = "ended"
    BY <1>1, <2>1
  <2>3. UNCHANGED <<run, remote>> /\ Ended(task[t].gen)
    BY <1>10 DEF SeeEnd, rows
  <2>4. ~Live(task[t].gen)
    BY <2>3 DEF Ended, Accepted, Live
  <2>5. /\ task'[t].pc # "watch" /\ task[t].pc \in AtChat
        /\ \A g \in Gens : Listens(t, g) => ~Live(g)
    BY <2>1, <2>2, <2>4 DEF AtChat, Listens
  <2> QED
    BY <1>0, <2>3, <2>5, PlainKept DEF Live
<1>11. CASE GenerationEnd(t)
  <2>1. task[t].pc = "turn" /\ GoTo(t, "history") /\ UNCHANGED remote
    BY <1>11 DEF GenerationEnd, Turn
  <2>2. \A g \in Gens : ~Live(g)
    BY <2>1, NothingLive
  <2>3. task'[t].pc = "history"
    BY <1>1, <2>1
  <2> QED
    BY <1>0, <2>1, <2>2, <2>3 DEF Kept, Live, AtChat
<1>12. CASE Collect(t)
  <2>1. task[t].pc = "collect" /\ UNCHANGED run
    BY <1>12 DEF Collect, Turn, rows
  <2>2. task'[t].pc \in {"collect", "gather", "fix"}
    <3>1. ASSUME NEW pc \in {"gather", "fix"}, NEW q,
                 task' = [task EXCEPT ![t].pc = pc, ![t].quiet = q]
          PROVE  task'[t].pc = pc
      <4>1. task'[t] = [task[t] EXCEPT !.pc = pc, !.quiet = q]
        BY <1>0, <3>1
      <4> QED
        BY <1>0, <4>1 DEF TaskRow
    <3> QED
      BY <1>12, <2>1, <3>1 DEF Collect
  <2>3. \A g \in Gens : Live(g)' => Live(g)
    <3>1. remote' = remote \/ remote' = Stopped(run.chat)
      BY <1>12 DEF Collect
    <3> QED
      BY <3>1, StoppedLive DEF Live
  <2>4. /\ task'[t].pc # "watch" /\ task'[t].pc \notin AtChat
        /\ \A g \in Gens : ~Listens(t, g)
    BY <2>1, <2>2 DEF AtChat, Listens
  <2> QED
    BY <1>0, <2>1, <2>3, <2>4, PlainKept
<1>13. CASE Fix(t)
  <2>1. run' = [run EXCEPT !.status = Final(t)] /\ GoTo(t, "complete")
    BY <1>0, <1>13 DEF Fix
  <2>2. run'.status \in Terminal
    BY <1>0, <2>1 DEF RunRow, Final, Terminal
  <2>3. task'[t].pc = "complete"
    BY <1>1, <2>1
  <2> QED
    BY <1>0, <2>2, <2>3 DEF Kept, AtChat
<1>14. CASE Complete(t)
  <2>1. task[t].pc \in {"complete", "history"} /\ UNCHANGED <<run, remote>>
        /\ task'[t] = Idle
    BY <1>0, <1>14 DEF Complete, Turn
  <2>2. /\ task'[t].pc # "watch" /\ task'[t].pc \notin AtChat
        /\ \A g \in Gens : ~Listens(t, g)
    BY <2>1 DEF AtChat, Listens, Idle
  <2> QED
    BY <1>0, <2>1, <2>2, PlainKept DEF Live
<1>15. CASE Interrupted(t)
  BY <1>0, <1>15, RaiseKept DEF Interrupted
<1>16. CASE Control(t)
  <2>1. task[t].pc = "chat" /\ UNCHANGED run
    BY <1>16 DEF Control, rows, Calm
  <2>2. PICK told : /\ task' = [task EXCEPT ![t].token = <<run.finish, run.stop>>,
                                            ![t].told = told]
                    /\ remote' = IF told THEN Stopped(Target(t)) ELSE remote
    BY <1>16 DEF Control
  <2>3. task'[t] = [task[t] EXCEPT !.token = <<run.finish, run.stop>>, !.told = told]
    BY <1>0, <2>2
  <2>4. task'[t].pc = task[t].pc /\ task'[t].gen = task[t].gen
    BY <1>0, <2>3 DEF TaskRow
  <2>5. \A g \in Gens : Live(g)' => Live(g)
    BY <2>2, StoppedLive DEF Live
  <2>6. /\ task'[t].pc # "watch" /\ task[t].pc \in AtChat
        /\ \A g \in Gens : Listens(t, g) => Listens(t, g)'
    BY <2>1, <2>4 DEF AtChat, Listens
  <2> QED
    BY <1>0, <2>1, <2>5, <2>6, PlainKept
<1> QED
  BY <1>0, <1>2, <1>3, <1>4, <1>5, <1>6, <1>7, <1>8, <1>9, <1>10, <1>11, <1>12, <1>13, <1>14,
     <1>15, <1>16 DEF TaskStep

LEMMA CalmStep ==
  ASSUME TypeOK, Kinds, Writer, Whole, Calm, [Next]_vars PROVE Calm'
<1> SUFFICES ASSUME used'.restart = 0 PROVE Calm'
  BY DEF Calm
<1>1. CASE \E t \in Slots : TaskStep(t) \/ Control(t)
  <2>1. PICK t \in Slots : TaskStep(t) \/ Control(t)
    BY <1>1
  <2>2. used.restart = 0
    <3>1. UNCHANGED used
      BY <2>1 DEF TaskStep, Control, Begin, CancelUnsent, Prepare, Open, Close,
         CreateSession, Upload, Deliver, StartGeneration, Send, ChatStarts, ChatAccepted,
         SeeEnd, GenerationEnd, Collect, Gather, Fix, Complete, Interrupted
    <3> QED
      BY <3>1
  <2>3. Kept(t) /\ UNCHANGED <<up, used>>
    BY <2>1, <2>2, TaskKept
  <2>4. Busy(t) /\ Alone(t) /\ UNCHANGED rec /\ (JobEnds(t) \/ GoesOn(t))
    BY <2>1, TaskMoves
  <2>5. \A u \in Slots : u # t => task'[u].pc = "idle"
    BY <2>4, AloneAtWork DEF Alone
  <2>6. task[t].job \in Jobs
    BY <2>4, Holder
  <2>7. ASSUME NEW j \in Jobs
        PROVE  /\ job'[j].phase # "observe"
               /\ job'[j].state = "running" => job'[j].owner = "me" /\ ~job'[j].lapsed
    <3>1. CASE j # task[t].job
      BY <2>2, <2>4, <3>1 DEF Alone, Calm
    <3>2. CASE j = task[t].job
      BY <2>2, <2>4, <2>6, <3>2, Holder DEF Alone, JobEnds, GoesOn, Calm, Job
    <3> QED
      BY <3>1, <3>2
  <2>8. \A u \in Slots :
          /\ task'[u].pc # "watch"
          /\ task'[u].pc \in AtChat => run'.status \in {"active", "finishing"}
    BY <2>3, <2>5 DEF Kept, AtChat
  <2>9. \A g \in Gens : Live(g)' => run'.status \in Terminal \/ \E u \in Slots : Listens(u, g)'
    BY <2>3 DEF Kept
  <2> QED
    BY <2>2, <2>3, <2>4, <2>7, <2>8, <2>9 DEF Calm
<1>2. ASSUME NEW t \in Slots, Claim(t) PROVE Calm'
  <2>1. PICK j \in Jobs :
          /\ \A i \in Jobs \ {j} : job'[i] = job[i]
          /\ job'[j].owner = "me" /\ ~job'[j].lapsed /\ job'[j].phase = job[j].phase
          /\ UNCHANGED rec
          /\ \A u \in Slots : task[u].pc = "idle" /\ (u # t => task'[u] = task[u])
          /\ task'[t].pc = "begin"
    BY <1>2, ClaimMoves
  <2>2. UNCHANGED <<run, up, remote, used>>
    BY <1>2 DEF Claim
  <2>3. \A u \in Slots : task'[u].pc \in {"idle", "begin"}
    BY <2>1
  <2>4. \A g \in Gens : Live(g)' => run'.status \in Terminal
    BY <2>1, <2>2 DEF Calm, Live, Listens
  <2> QED
    BY <2>1, <2>2, <2>3, <2>4 DEF Calm, AtChat
<1>3. CASE RecStep
  <2>1. CASE Scan
    <3>1. used.restart = 0 /\ \E j \in Jobs : Lapsed(j)
      BY <2>1 DEF Scan
    <3> QED
      BY <3>1 DEF Calm, Lapsed
  <2>2. CASE rec.pc # "idle"
    <3>1. CASE TakeOver \/ Decide \/ QueryFails
      BY <2>2, <3>1 DEF TakeOver, Decide, QueryFails, Calm
    <3>2. CASE Observe \/ Restore \/ NotReplayed
      BY <2>2, <3>2 DEF Observe, Restore, NotReplayed, Calm
    <3> QED
      BY <1>3, <2>2, <3>1, <3>2, <2>1 DEF RecStep
  <2> QED
    BY <1>3, <2>1, <2>2 DEF RecStep, TakeOver, Decide, QueryFails, Observe, Restore,
       NotReplayed
<1>4. CASE SendMessage \/ StopGeneration \/ Finish \/ Recollect
  <2>1. /\ UNCHANGED <<trigger, task, rec, creates, remote>>
        /\ Posts \/ Cancels \/ Asks
    BY <1>4, RequestMoves
  <2>2. UNCHANGED up /\ used'.restart = used.restart
    BY <1>4 DEF SendMessage, StopGeneration, Finish, Recollect, Use, TypeOK
  <2>3. used.restart = 0
    BY <2>2
  <2>4. ASSUME NEW j \in Jobs
        PROVE  /\ job'[j].phase # "observe"
               /\ job'[j].state = "running" => job'[j].owner = "me" /\ ~job'[j].lapsed
    <3>1. \/ job'[j] = job[j]
          \/ job'[j].state = "completed" /\ job'[j].phase = job[j].phase
          \/ \E m : job'[j] = Pending("message", m, 0)
          \/ \E phase \in {"finish", "collect"} : job'[j] = Pending(phase, 0, 0)
      BY <2>1 DEF Posts, Cancels, Asks
    <3>2. \A phase, m : /\ Pending(phase, m, 0).phase = phase
                        /\ Pending(phase, m, 0).state = "pending"
      BY DEF Pending, NoJob
    <3> QED
      BY <2>3, <3>1, <3>2 DEF Calm
  <2>5. \/ run'.status = run.status
        \/ run.status \notin Terminal /\ run'.status = "finishing"
        \/ run.status \notin Terminal /\ \A u \in Slots : ~Busy(u)
    <3>1. run \in RunRow
      BY DEF TypeOK
    <3>2. CASE SendMessage \/ Recollect
      BY <3>1, <3>2 DEF SendMessage, Recollect, RunRow
    <3>3. CASE Finish
      BY <3>1, <3>3 DEF Finish, TakesRequests, RunRow
    <3>4. CASE StopGeneration
      <4>1. CASE NobodyAtWork
        BY <3>4, <4>1, Holder DEF StopGeneration, NobodyAtWork, AtWork, Job
      <4>2. CASE RecordStop
        BY <3>1, <4>2 DEF RecordStop, RunRow
      <4> QED
        BY <3>4, <4>1, <4>2 DEF StopGeneration
    <3> QED
      BY <1>4, <3>2, <3>3, <3>4
  <2>6. \A u \in Slots, g \in Gens : Listens(u, g) => Busy(u)
    BY DEF Listens, Busy
  <2>7. \A g \in Gens : Live(g)' => run'.status \in Terminal \/ \E u \in Slots : Listens(u, g)'
    BY <2>1, <2>3, <2>5, <2>6 DEF Calm, Live, Listens
  <2>8. \A u \in Slots :
          /\ task'[u].pc # "watch"
          /\ task'[u].pc \in AtChat => run'.status \in {"active", "finishing"}
    BY <2>1, <2>3, <2>5 DEF Calm, Busy, AtChat
  <2> QED
    BY <2>1, <2>2, <2>3, <2>4, <2>7, <2>8 DEF Calm
<1>5. CASE \E h \in Gens : RemoteAccepts(h) \/ RemoteEnds(h)
  <2>1. UNCHANGED <<rows, task, rec, up, used>>
    BY <1>5 DEF RemoteAccepts, RemoteEnds
  <2>2. \A g \in Gens : Live(g)' => Live(g)
    BY <1>5 DEF RemoteAccepts, RemoteEnds, Live, TypeOK
  <2> QED
    BY <2>1, <2>2 DEF Calm, Listens, rows
<1>6. CASE \E j \in Jobs : LeaseLapses(j)
  BY <1>6 DEF LeaseLapses, Calm
<1>7. CASE Crash \/ Shutdown
  <2>1. used' = [used EXCEPT !.restart = @ + 1] /\ used.restart \in Nat
        /\ used \in [stop : 0 .. MaxStops, collect : 0 .. MaxCollects, restart : 0 .. MaxRestarts]
    BY <1>7 DEF Crash, Shutdown, Use, TypeOK
  <2> QED
    BY <2>1
<1>8. CASE Start
  BY <1>8 DEF Start, Calm
<1>9. CASE UNCHANGED vars
  BY <1>9 DEF vars, rows, Calm, Live, Listens
<1> QED
  BY <1>1, <1>2, <1>3, <1>4, <1>5, <1>6, <1>7, <1>8, <1>9 DEF Next

LEMMA InitCalm == Init => Calm
<1> SUFFICES ASSUME Init PROVE Calm
  OBVIOUS
<1>1. \A j \in Jobs : job[j] = IF j = 1 THEN Pending("prepare", 1, 0) ELSE NoJob
  BY DEF Init
<1>2. \A j \in Jobs : job[j].phase # "observe" /\ job[j].state # "running"
  BY <1>1, PendingRow DEF NoJob
<1>3. (\A t \in Slots : task[t].pc = "idle") /\ rec.pc = "idle" /\ up = "up"
  BY DEF Init, Idle, NoRec
<1>4. \A g \in Gens : ~Live(g)
  BY DEF Init, Live
<1> QED
  BY <1>2, <1>3, <1>4 DEF Calm, AtChat

\* While the run waits for its user, the remote session does not work, unless a job
\* was resumed: a turn is noted only when its generation has ended (worker.py:
\* _generation_end), a chat that breaks off fails the run, and a stop puts the run
\* back to waiting only when nobody is at work (service.py: stop_generation).
THEOREM WaitsQuietly == Spec => []WaitingIsQuiet
<1>1. IInv /\ Calm /\ [Next]_vars => Calm'
  BY CalmStep DEF IInv
<1>2. IInv /\ Calm => WaitingIsQuiet
  <2> SUFFICES ASSUME IInv, Calm, used.restart = 0,
                      run.status \in {"waiting_input", "waiting_continue"},
                      NEW g \in Gens
               PROVE  ~Live(g)
    BY DEF WaitingIsQuiet, Live
  <2>1. run.status \notin Terminal \union {"active", "finishing"}
    BY DEF Terminal
  <2> QED
    BY <2>1 DEF Calm, Listens, AtChat
<1> QED
  BY <1>1, <1>2, AlwaysIInv, InitCalm, PTL DEF Spec
====
