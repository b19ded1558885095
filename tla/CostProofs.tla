---- MODULE CostProofs ----
(* Theorems about CostKeys, for every value of its constants. *)
EXTENDS CostKeys, FiniteSetTheorems, TLAPS

-----------------------------------------------------------------------------
(* The invariant.                                                          *)

Row == [status : Active \union Terminal \union {"absent"}, mode : Modes,
        hash : BOOLEAN, based : BOOLEAN, creating : BOOLEAN,
        cost : {NoCost} \union (0..MaxUsed), tries : Nat,
        disabled : {"null", "yes", "no"}]

Polling == [phase : {"polling"}, mode : Modes, based : BOOLEAN]
Disabling == [phase : {"disabling"}, mode : Modes, based : BOOLEAN,
              usage : 0..MaxUsed]
Closing == [phase : {"closing"}, mode : Modes, based : BOOLEAN,
            usage : 0..MaxUsed, disabled : {"yes", "no"}]

\* TypeOK without the bound on the tries, and what TypeOK leaves out.
Types ==
  /\ scope \in {"attempt", "judge"} /\ scope \in Scopes
  /\ row \in Row
  /\ made \in Nat /\ used \in 0..MaxUsed
  /\ keyOff \in BOOLEAN /\ credential \in BOOLEAN
  /\ pc \in [Users -> OpenPc \union {"idle", "closed", "ghost"}]
  /\ settle \in [Settlers -> {Idle} \union Polling \union Disabling \union Closing]
  /\ ends \in 0..MaxEnds /\ restarts \in 0..MaxRestarts
  /\ missed \subseteq Users /\ strayed \subseteq Users /\ aside \subseteq Users

\* Who makes the key.
Maker(u) == pc[u] \in {"creating", "sampling"}

\* The lease has one maker, and none once the key is in the row.
Lease ==
  /\ row.status = "absent" => /\ row = NoRow /\ made = 0
                              /\ \A u \in Users : ~Maker(u) /\ pc[u] # "waiting"
  /\ \A u \in Users : pc[u] = "creating" => made = 0
  /\ \A u, v \in Users : Maker(u) /\ Maker(v) => u = v
  /\ row.hash => \A u \in Users : ~Maker(u)
  /\ made <= 1

\* A user that a stop missed is set aside, or waits for its job.
Unseen ==
  \A u \in missed : IF scope = "attempt" THEN u \in aside
                    ELSE /\ pc[u] \in {"due", "closed"}
                         /\ restarts > 0 => pc[u] = "closed"

\* A settlement runs when all is over but for those missed or set aside, and a
\* row that was closed with a key keeps everybody from it.
Over ==
  /\ \A u \in Users : pc[u] = "ghost" => u \in aside
  /\ \A s \in Settlers : settle[s] # Idle =>
       row.hash /\ \A u \in Users \ (aside \union missed) : pc[u] \notin OpenPc
  /\ row.disabled # "null" =>
       row.hash /\ ~credential /\ \A u \in Users \ aside : pc[u] # "run"

\* The user of an attempt is alone, and meets no row that it has not made.
Alone ==
  scope = "attempt" =>
    /\ \A u, v \in Users : pc[u] \in {"closed", "idle"} \/ pc[v] \in {"closed", "idle"}
                           \/ u = v
    /\ \A u \in Users : /\ pc[u] # "waiting"
                        /\ pc[u] \in {"due", "queued"} => row.status = "absent"

\* A row that can still become auditable knows all its strays: the key is there
\* or will be, or the next stray marks the row.
Audited ==
  (/\ row.mode = "ephemeral_run_key"
   /\ \/ scope = "judge" \/ row.status = "absent" \/ row.hash
      \/ \E u \in Users : Maker(u))
  => strayed \subseteq aside

\* What a settlement has read is what was spent, also after it.
Priced ==
  /\ \A s \in Settlers :
       settle[s].phase \in {"disabling", "closing"} /\ aside = {}
         => settle[s].usage = used
  /\ row.status = "final" => /\ row.disabled # "null"
                             /\ aside = {} => row.cost = used

\* The tries that are counted, or about to be.
Polls(s) == IF settle[s].phase = "polling" THEN 1 ELSE 0
Tried ==
  /\ row.tries + Polls("scan") + Polls("end") <= MaxTries + ends
  /\ Polls("end") <= ends

IInv == Types /\ Unseen /\ Lease /\ Over /\ Alone /\ Audited /\ Priced /\ Tried

-----------------------------------------------------------------------------
(* Rows.                                                                   *)

\* Neither what the row says of its money nor its status changes.
Keeps(r, q) == /\ q.status = r.status /\ q.cost = r.cost
               /\ q.tries = r.tries /\ q.disabled = r.disabled

LEMMA DegradedRow ==
  ASSUME NEW r \in Row, NEW mode \in Modes
  PROVE  /\ Degraded(r, mode) \in Row /\ Degraded(r, mode).mode = mode
         /\ Degraded(r, mode).hash = r.hash /\ Keeps(r, Degraded(r, mode))
<1> DEFINE moded == [r EXCEPT !.mode = mode]
<1>1. moded \in Row /\ moded.mode = mode /\ moded.hash = r.hash /\ Keeps(r, moded)
  BY DEF Row, Keeps
<1> HIDE DEF moded
<1> DEFINE made1 == [moded EXCEPT !.creating = FALSE]
<1>2. /\ made1 \in Row /\ made1.mode = moded.mode /\ made1.hash = moded.hash
      /\ Keeps(moded, made1)
  BY <1>1 DEF Row, Keeps
<1>3. Degraded(r, mode) = made1
  BY Zenon DEF Degraded, moded
<1> HIDE DEF made1
<1> QED
  BY <1>1, <1>2, <1>3 DEF Keeps

LEMMA UnbasedRow ==
  ASSUME NEW r \in Row
  PROVE  /\ Unbased(r) \in Row /\ Unbased(r).mode # "ephemeral_run_key"
         /\ Unbased(r).hash /\ Keeps(r, Unbased(r))
<1> DEFINE q == Degraded(r, "ephemeral_key_unbased")
<1>1. q \in Row /\ q.mode = "ephemeral_key_unbased" /\ Keeps(r, q)
  BY DegradedRow DEF Modes
<1> HIDE DEF q
<1>2. LET w == [q EXCEPT !.hash = TRUE]
      IN  w \in Row /\ w.mode = q.mode /\ w.hash /\ Keeps(q, w)
  BY <1>1 DEF Row, Keeps
<1>3. Unbased(r) = [q EXCEPT !.hash = TRUE]
  BY Zenon DEF Unbased, q
<1> QED
  BY <1>1, <1>2, <1>3 DEF Keeps

LEMMA BasedRow ==
  ASSUME NEW r \in Row
  PROVE  /\ Based(r) \in Row /\ Based(r).mode = r.mode
         /\ Based(r).hash /\ Keeps(r, Based(r))
<1> DEFINE q == [r EXCEPT !.hash = TRUE]
<1>1. q \in Row /\ q.mode = r.mode /\ q.hash /\ Keeps(r, q)
  BY DEF Row, Keeps
<1> HIDE DEF q
<1> DEFINE w == [q EXCEPT !.based = TRUE]
<1>2. w \in Row /\ w.mode = q.mode /\ w.hash = q.hash /\ Keeps(q, w)
  BY <1>1 DEF Row, Keeps
<1> HIDE DEF w
<1>3. LET z == [w EXCEPT !.creating = FALSE]
      IN  z \in Row /\ z.mode = w.mode /\ z.hash = w.hash /\ Keeps(w, z)
  BY <1>2 DEF Row, Keeps
<1>4. Based(r) = [w EXCEPT !.creating = FALSE]
  BY Zenon DEF Based, w, q
<1> QED
  BY <1>1, <1>2, <1>3, <1>4 DEF Keeps

\* A judge that goes on without the key leaves a row that is not auditable.
LEMMA UnauditedRow ==
  ASSUME NEW r \in Row
  PROVE  /\ Unaudited(r) \in Row /\ Unaudited(r).hash = r.hash
         /\ Keeps(r, Unaudited(r))
         /\ Unaudited(r).mode = "ephemeral_run_key" =>
              r.mode = "ephemeral_run_key" /\ scope # "judge"
<1>1. /\ Degraded(r, "partial_unattributed") \in Row
      /\ Degraded(r, "partial_unattributed").mode = "partial_unattributed"
      /\ Degraded(r, "partial_unattributed").hash = r.hash
      /\ Keeps(r, Degraded(r, "partial_unattributed"))
  BY DegradedRow DEF Modes
<1> QED
  BY <1>1 DEF Unaudited, Keeps

\* A settlement closes the row with what it has read.
LEMMA ClosedRow ==
  ASSUME NEW r \in Row, NEW snap \in Closing
  PROVE  /\ Closed(r, snap) \in Row
         /\ Closed(r, snap).status \in Terminal /\ Closed(r, snap).disabled # "null"
         /\ Closed(r, snap).mode = r.mode /\ Closed(r, snap).hash = r.hash
         /\ Closed(r, snap).tries = r.tries
         /\ Closed(r, snap).status = "final" => Closed(r, snap).cost = snap.usage
<1> DEFINE cost == IF Verdict(snap) # "failed" /\ snap.based THEN snap.usage ELSE r.cost
           q == [r EXCEPT !.status = Verdict(snap)]
<1>1. /\ Verdict(snap) \in Terminal /\ cost \in {NoCost} \union (0..MaxUsed)
      /\ Verdict(snap) = "final" => cost = snap.usage
  BY DEF Verdict, Terminal, Closing, Row
<1>2. /\ q \in Row /\ q.status = Verdict(snap) /\ q.mode = r.mode /\ q.hash = r.hash
      /\ q.tries = r.tries /\ q.cost = r.cost
  BY <1>1 DEF Row
<1> HIDE DEF q
<1> DEFINE w == [q EXCEPT !.disabled = snap.disabled]
<1>3. /\ w \in Row /\ w.status = q.status /\ w.mode = q.mode /\ w.hash = q.hash
      /\ w.tries = q.tries /\ w.disabled = snap.disabled /\ w.disabled # "null"
  BY <1>2 DEF Row, Closing
<1> HIDE DEF w, cost
<1> DEFINE z == [w EXCEPT !.cost = cost]
<1>4. /\ z \in Row /\ z.status = w.status /\ z.mode = w.mode /\ z.hash = w.hash
      /\ z.tries = w.tries /\ z.disabled = w.disabled /\ z.cost = cost
  BY <1>1, <1>3 DEF Row
<1>5. Closed(r, snap) = z
  BY Zenon DEF Closed, z, w, q, cost
<1> HIDE DEF z
<1> QED
  BY <1>1, <1>2, <1>3, <1>4, <1>5

-----------------------------------------------------------------------------
(* What the steps of a user do.                                            *)

Pcs == OpenPc \union {"idle", "closed", "ghost"}

\* Nothing of the scope but the row, the upstream key, the credential, the
\* users and the strays changes.
UserFrame ==
  UNCHANGED <<scope, used, keyOff, missed, settle, ends, restarts, aside>>

\* u goes on: on the key that is there, or on its own.
GoesOn(u) ==
  /\ Keeps(row, row') /\ row'.hash = row.hash
  /\ row'.mode = "ephemeral_run_key" => row.mode = "ephemeral_run_key"
  /\ credential' = credential
  /\ \/ /\ credential /\ pc' = [pc EXCEPT ![u] = "run"] /\ strayed' = strayed
     \/ /\ ~credential /\ pc' = [pc EXCEPT ![u] = "fallback"]
        /\ strayed' = strayed \union {u}
        /\ scope = "judge" => row'.mode # "ephemeral_run_key"

\* u takes the lease of a scope without a row.
Leases(u) ==
  /\ pc[u] = "queued" /\ row.status = "absent"
  /\ row' = [NoRow EXCEPT !.status = "pending", !.creating = TRUE]
  /\ pc' = [pc EXCEPT ![u] = "creating"]
  /\ UNCHANGED <<made, credential, strayed>>

Waits(u) ==
  /\ pc[u] = "queued" /\ row.status # "absent"
  /\ pc' = [pc EXCEPT ![u] = "waiting"]
  /\ UNCHANGED <<row, made, credential, strayed>>

\* u finds a row, or gives up making the key of its own.
Finds(u) ==
  /\ pc[u] \in {"queued", "waiting"} /\ (pc[u] = "queued" => row.status # "absent")
  /\ made' = made /\ GoesOn(u)
GivesUp(u) == pc[u] = "creating" /\ made' \in {made, made + 1} /\ GoesOn(u)

Makes(u) ==
  /\ pc[u] = "creating" /\ made' = made + 1
  /\ pc' = [pc EXCEPT ![u] = "sampling"]
  /\ UNCHANGED <<row, credential, strayed>>

Registers(u) ==
  /\ pc[u] = "sampling" /\ pc' = [pc EXCEPT ![u] = "run"]
  /\ row'.hash /\ Keeps(row, row') /\ credential'
  /\ row'.mode = "ephemeral_run_key" => row.mode = "ephemeral_run_key"
  /\ UNCHANGED <<made, strayed>>

UserMove(u) ==
  Leases(u) \/ Waits(u) \/ Finds(u) \/ GivesUp(u) \/ Makes(u) \/ Registers(u)

\* To go on from a row that keeps what it was is to go on from the row.
LEMMA ProceedGoesOn ==
  ASSUME Types, NEW u \in Users, NEW r \in Row, Proceed(u, r, credential),
         Keeps(row, r), r.hash = row.hash,
         r.mode = "ephemeral_run_key" => row.mode = "ephemeral_run_key"
  PROVE  row' \in Row /\ GoesOn(u)
<1>1. CASE credential
  BY <1>1 DEF Types, Proceed, GoesOn
<1>2. CASE ~credential
  <2>1. row' = Unaudited(r)
    BY <1>2 DEF Proceed
  <2>2. /\ Unaudited(r) \in Row /\ Unaudited(r).hash = r.hash
        /\ Keeps(r, Unaudited(r))
        /\ Unaudited(r).mode = "ephemeral_run_key" =>
             r.mode = "ephemeral_run_key" /\ scope # "judge"
    BY UnauditedRow
  <2> QED
    BY <1>2, <2>1, <2>2 DEF Proceed, GoesOn, Keeps
<1> QED
  BY <1>1, <1>2

LEMMA UserMoves ==
  ASSUME Types, NEW u \in Users, UserStep(u)
  PROVE  row' \in Row /\ UserMove(u) /\ UserFrame
<1> USE DEF UserFrame, UserMove
<1>1. row \in Row /\ Keeps(row, row)
  BY DEF Types, Keeps
<1>2. CASE Open(u)
  <2>1. CASE row.status = "absent"
    <3>1. Leases(u) /\ UserFrame
      BY <1>2, <2>1 DEF Open, Leased, Leases, upstream, bounds
    <3>2. [NoRow EXCEPT !.status = "pending", !.creating = TRUE] \in Row
      BY DEF NoRow, Row, Active, Modes
    <3> QED
      BY <3>1, <3>2 DEF Leases
  <2>2. CASE row.status # "absent" /\ Proceed(u, row, credential)
    BY <1>1, <1>2, <2>2, ProceedGoesOn DEF Open, Leased, Finds, upstream, bounds
  <2>3. CASE row.status # "absent" /\ ~Proceed(u, row, credential)
    BY <1>1, <1>2, <2>3 DEF Open, Leased, Waits, upstream, bounds
  <2> QED
    BY <2>1, <2>2, <2>3
<1>3. CASE CreateKey(u)
  BY <1>1, <1>3 DEF CreateKey, Makes, bounds, history
<1>4. CASE CreateFails(u)
  <2>1. PICK r \in {row, Degraded(row, "shared_key_upper_bound")} :
             Proceed(u, r, credential)
    BY <1>4 DEF CreateFails
  <2>2. r \in Row /\ Keeps(row, r) /\ r.hash = row.hash
        /\ (r.mode = "ephemeral_run_key" => row.mode = "ephemeral_run_key")
    BY <1>1, DegradedRow DEF Modes
  <2>3. row' \in Row /\ GoesOn(u)
    BY <2>1, <2>2, ProceedGoesOn
  <2> QED
    BY <1>4, <2>3 DEF CreateFails, GivesUp, bounds
<1>5. CASE Register(u)
  <2>1. PICK r \in {Unbased(row), Based(row)} : Proceed(u, r, TRUE)
    BY <1>5 DEF Register
  <2>2. r \in Row /\ r.hash /\ Keeps(row, r)
        /\ (r.mode = "ephemeral_run_key" => row.mode = "ephemeral_run_key")
    BY <1>1, UnbasedRow, BasedRow
  <2> QED
    BY <1>5, <2>1, <2>2 DEF Register, Registers, Proceed, upstream, bounds
<1>6. CASE WaitEnds(u) \/ WaitTimesOut(u)
  <2>1. PICK r \in {row, Degraded(row, "partial_unattributed")} :
             Proceed(u, r, credential)
    BY <1>6 DEF WaitEnds, WaitTimesOut
  <2>2. r \in Row /\ Keeps(row, r) /\ r.hash = row.hash
        /\ (r.mode = "ephemeral_run_key" => row.mode = "ephemeral_run_key")
    BY <1>1, DegradedRow DEF Modes
  <2>3. row' \in Row /\ GoesOn(u)
    BY <2>1, <2>2, ProceedGoesOn
  <2> QED
    BY <1>6, <2>3 DEF WaitEnds, WaitTimesOut, Finds, upstream, bounds
<1> QED
  BY <1>2, <1>3, <1>4, <1>5, <1>6 DEF UserStep

-----------------------------------------------------------------------------
(* What the settlements do.                                                *)

SettleFrame == UNCHANGED <<scope, made, used, pc, missed, restarts, strayed, aside>>
Settlement == {Idle} \union Polling \union Disabling \union Closing

\* Only the status of the row changes.
Remarked(r, q) == /\ q.mode = r.mode /\ q.hash = r.hash /\ q.cost = r.cost
                  /\ q.tries = r.tries /\ q.disabled = r.disabled

Counted(s) == IF s = "end" THEN ends + 1 ELSE ends

Begins(s) ==
  /\ settle[s] = Idle /\ row.status \in Active /\ Finished /\ row.hash
  /\ row'.status = "settling" /\ Remarked(row, row')
  /\ s = "scan" => row.tries < MaxTries
  /\ \E x \in Polling : settle' = [settle EXCEPT ![s] = x]
  /\ ends' = Counted(s)
  /\ UNCHANGED <<keyOff, credential>>

\* The row is closed without a settlement.
Drops ==
  /\ row.status \in Active
  /\ row'.status \in {"failed", "upper_bound"} /\ Remarked(row, row')
  /\ ends' \in {ends, ends + 1}
  /\ credential' \in {FALSE, credential}
  /\ UNCHANGED <<keyOff, settle>>

Fails(s) ==
  /\ settle[s] \in Polling /\ settle' = [settle EXCEPT ![s] = Idle]
  /\ row'.status = row.status /\ row'.tries = row.tries + 1 /\ row'.mode = row.mode
  /\ row'.hash = row.hash /\ row'.cost = row.cost /\ row'.disabled = row.disabled
  /\ UNCHANGED <<keyOff, credential, ends>>

\* The usage is read, or the key is asked to be disabled.
Advances(s) ==
  /\ \/ /\ settle[s] \in Polling /\ keyOff' = keyOff
        /\ \E x \in Disabling : x.usage = used /\ settle' = [settle EXCEPT ![s] = x]
     \/ /\ settle[s] \in Disabling
        /\ \E x \in Closing : /\ x.usage = settle[s].usage
                              /\ settle' = [settle EXCEPT ![s] = x]
  /\ UNCHANGED <<row, credential, ends>>

Closes(s) ==
  /\ settle[s] \in Closing /\ settle' = [settle EXCEPT ![s] = Idle]
  /\ \/ row' = row
     \/ /\ row'.status \in Terminal /\ row'.disabled # "null"
        /\ row'.mode = row.mode /\ row'.hash = row.hash /\ row'.tries = row.tries
        /\ row'.status = "final" => row'.cost = settle[s].usage
  /\ credential' = FALSE
  /\ UNCHANGED <<keyOff, ends>>

Retries ==
  /\ row.disabled = "no" /\ row'.disabled = "yes" /\ row'.status = row.status
  /\ row'.mode = row.mode /\ row'.hash = row.hash /\ row'.cost = row.cost
  /\ row'.tries = row.tries
  /\ UNCHANGED <<credential, settle, ends>>

SettleMove ==
  \/ \E s \in Settlers : Begins(s) \/ Fails(s) \/ Advances(s) \/ Closes(s)
  \/ Drops \/ Retries

SettleNext ==
  \/ ScanLease \/ ScanSettles \/ EndSettles \/ RetryDisable
  \/ \E s \in Settlers : SettleStep(s)

\* The phase tells the kind of a settlement.
LEMMA Phases ==
  ASSUME Types, NEW s \in Settlers
  PROVE  /\ settle[s] \in Settlement
         /\ settle[s] = Idle <=> settle[s].phase = "idle"
         /\ settle[s] \in Polling <=> settle[s].phase = "polling"
         /\ settle[s] \in Disabling <=> settle[s].phase = "disabling"
         /\ settle[s] \in Closing <=> settle[s].phase = "closing"
<1>1. settle[s] \in Settlement
  BY DEF Types, Settlement
<1>2. CASE settle[s] = Idle
  BY <1>2, <1>1 DEF Idle, Polling, Disabling, Closing
<1>3. CASE settle[s] \in Polling
  BY <1>3, <1>1 DEF Idle, Polling, Disabling, Closing
<1>4. CASE settle[s] \in Disabling
  BY <1>4, <1>1 DEF Idle, Polling, Disabling, Closing
<1>5. CASE settle[s] \in Closing
  BY <1>5, <1>1 DEF Idle, Polling, Disabling, Closing
<1> QED
  BY <1>1, <1>2, <1>3, <1>4, <1>5 DEF Settlement

\* A new status in a row.
LEMMA RemarkedRow ==
  ASSUME Types, NEW status \in Active \union Terminal,
         row' = [row EXCEPT !.status = status]
  PROVE  row' \in Row /\ row'.status = status /\ Remarked(row, row')
BY DEF Types, Row, Remarked

\* What settle_key does before its first await.
LEMMA SettleBegins ==
  ASSUME Types, NEW s \in Settlers, Settle(s), settle[s] = Idle,
         row.status \in Active, Finished, ends' = Counted(s), keyOff' = keyOff,
         s = "scan" => row.tries < MaxTries
  PROVE  row' \in Row /\ (Begins(s) \/ Drops)
<1>1. CASE row.hash
  <2> DEFINE x == [phase |-> "polling", mode |-> row.mode, based |-> row.based]
  <2>1. x \in Polling
    BY DEF Types, Row, Polling
  <2>2. /\ row' = [row EXCEPT !.status = "settling"]
        /\ settle' = [settle EXCEPT ![s] = x] /\ credential' = credential
    BY <1>1 DEF Settle
  <2>3. row' \in Row /\ row'.status = "settling" /\ Remarked(row, row')
    BY <2>2, RemarkedRow DEF Active
  <2> HIDE DEF x
  <2> QED
    BY <1>1, <2>1, <2>2, <2>3 DEF Begins
<1>2. CASE ~row.hash
  <2>1. /\ row' = [row EXCEPT !.status = "upper_bound"]
        /\ settle' = settle /\ credential' = FALSE
    BY <1>2 DEF Settle
  <2>2. row' \in Row /\ row'.status = "upper_bound" /\ Remarked(row, row')
    BY <2>1, RemarkedRow DEF Terminal
  <2> QED
    BY <2>1, <2>2 DEF Drops, Counted
<1> QED
  BY <1>1, <1>2

LEMMA SettleMoves ==
  ASSUME Types, SettleNext
  PROVE  row' \in Row /\ SettleMove /\ SettleFrame
<1> USE DEF SettleFrame, SettleMove
<1>0. row \in Row /\ "scan" \in Settlers /\ "end" \in Settlers
  BY DEF Types, Settlers
<1>1. CASE ScanLease
  <2>1. row' \in Row /\ row'.status = "failed" /\ Remarked(row, row')
    BY <1>1, RemarkedRow DEF ScanLease, Terminal
  <2> QED
    BY <1>1, <2>1 DEF ScanLease, Drops, upstream, bounds, history
<1>2. CASE ScanSettles
  <2>1. CASE Exhausted
    <3>1. row' \in Row /\ row'.status = "failed" /\ Remarked(row, row')
      BY <1>2, <2>1, RemarkedRow DEF ScanSettles, Terminal
    <3> QED
      BY <1>2, <2>1, <3>1 DEF ScanSettles, Drops, upstream, bounds, history
  <2>2. CASE ~Exhausted
    <3>1. row.tries < MaxTries
      BY <2>2, CostKeysAssumption DEF Exhausted, Types, Row, CostKeysAssumption
    <3>2. /\ Settle("scan") /\ settle["scan"] = Idle /\ row.status \in Active
          /\ Finished /\ ends' = Counted("scan") /\ keyOff' = keyOff
      BY <1>2, <2>2 DEF ScanSettles, Counted, upstream, bounds
    <3>3. row' \in Row /\ (Begins("scan") \/ Drops)
      BY <1>0, <3>1, <3>2, SettleBegins
    <3> QED
      BY <1>0, <1>2, <3>3 DEF ScanSettles, upstream, bounds, history
  <2> QED
    BY <2>1, <2>2
<1>3. CASE EndSettles
  <2>1. /\ Settle("end") /\ settle["end"] = Idle /\ row.status \in Active
        /\ Finished /\ ends' = Counted("end") /\ keyOff' = keyOff
    BY <1>3 DEF EndSettles, Finished, Counted, upstream, bounds
  <2>2. row' \in Row /\ (Begins("end") \/ Drops)
    BY <1>0, <2>1, SettleBegins
  <2> QED
    BY <1>0, <1>3, <2>2 DEF EndSettles, upstream, history
<1>4. ASSUME NEW s \in Settlers, PollFails(s)
      PROVE  row' \in Row /\ SettleMove /\ SettleFrame
  <2>1. settle[s] \in Polling
    BY <1>4, Phases DEF PollFails
  <2>2. row' \in Row /\ Fails(s)
    BY <1>4, <2>1, <1>0 DEF PollFails, Fails, Row, upstream, bounds
  <2> QED
    BY <1>4, <2>2 DEF PollFails, upstream, bounds, history
<1>5. ASSUME NEW s \in Settlers, PollReturns(s)
      PROVE  row' \in Row /\ SettleMove /\ SettleFrame
  <2>1. settle[s] \in Polling
    BY <1>5, Phases DEF PollReturns
  <2> DEFINE x == [phase |-> "disabling", mode |-> settle[s].mode,
                   based |-> settle[s].based, usage |-> used]
  <2>2. x \in Disabling /\ x.usage = used
    BY <2>1 DEF Polling, Disabling, Types
  <2>3. settle' = [settle EXCEPT ![s] = x]
    BY <1>5, Zenon DEF PollReturns
  <2> HIDE DEF x
  <2>4. Advances(s)
    BY <1>5, <2>1, <2>2, <2>3 DEF PollReturns, Advances, upstream, bounds
  <2> QED
    BY <1>0, <1>5, <2>4 DEF PollReturns, upstream, bounds, history
<1>6. ASSUME NEW s \in Settlers, Disable(s)
      PROVE  row' \in Row /\ SettleMove /\ SettleFrame
  <2>1. settle[s] \in Disabling
    BY <1>6, Phases DEF Disable
  <2>2. PICK answer \in {"yes", "no"} :
          settle' = [settle EXCEPT ![s] =
                       [phase |-> "closing", mode |-> @.mode, based |-> @.based,
                        usage |-> @.usage, disabled |-> answer]]
    BY <1>6 DEF Disable
  <2> DEFINE x == [phase |-> "closing", mode |-> settle[s].mode,
                   based |-> settle[s].based, usage |-> settle[s].usage,
                   disabled |-> answer]
  <2>3. x \in Closing /\ x.usage = settle[s].usage
    BY <2>1 DEF Disabling, Closing
  <2>4. settle' = [settle EXCEPT ![s] = x]
    BY <2>2, Zenon
  <2> HIDE DEF x
  <2>5. Advances(s)
    BY <1>6, <2>1, <2>3, <2>4 DEF Disable, Advances, bounds
  <2> QED
    BY <1>0, <1>6, <2>5 DEF Disable, bounds, history
<1>7. ASSUME NEW s \in Settlers, Close(s)
      PROVE  row' \in Row /\ SettleMove /\ SettleFrame
  <2>1. settle[s] \in Closing
    BY <1>7, Phases DEF Close
  <2>2. row' = row \/ row' = Closed(row, settle[s])
    BY <1>7 DEF Close
  <2>3. row' \in Row /\ Closes(s)
    BY <1>0, <1>7, <2>1, <2>2, ClosedRow DEF Close, Closes, upstream, bounds
  <2> QED
    BY <1>7, <2>3 DEF Close, upstream, bounds, history
<1>8. CASE RetryDisable
  <2>1. row' \in Row /\ Retries
    BY <1>0, <1>8 DEF RetryDisable, StillEnabled, Retries, Row, bounds
  <2> QED
    BY <1>8, <2>1 DEF RetryDisable, bounds, history
<1> QED
  BY <1>1, <1>2, <1>3, <1>4, <1>5, <1>6, <1>7, <1>8 DEF SettleNext, SettleStep

-----------------------------------------------------------------------------
(* The invariant holds.                                                    *)

\* The steps of a user that leave the row alone.
QuietStep(u) ==
  \/ Queue(u) \/ Spend(u) \/ Ends(u) \/ Miss(u) \/ Abandon(u) \/ ResumedScores(u)

LEMMA Steps ==
  ASSUME [Next]_vars
  PROVE  \/ \E u \in Users : UserStep(u) \/ QuietStep(u)
         \/ SettleNext \/ Restart \/ UNCHANGED vars
BY DEF Next, QuietStep, SettleNext

LEMMA InitInv == Init => IInv
<1> SUFFICES ASSUME Init
             PROVE  IInv
  OBVIOUS
<1> USE DEF Init
<1>1. PICK due \in SUBSET Due :
        /\ scope = "attempt" => Cardinality(due) = 1
        /\ pc = [u \in Users |-> IF u \in due THEN "due"
                                 ELSE IF u \in Due THEN "closed" ELSE "idle"]
  BY DEF Init
<1>2. \A u \in Users : /\ pc[u] \in {"due", "closed", "idle"}
                       /\ pc[u] = "due" <=> u \in due
  BY <1>1
<1>3. settle = [s \in Settlers |-> Idle]
  OBVIOUS
<1>4. \A s \in Settlers : settle[s] = Idle /\ settle[s].phase = "idle"
  BY <1>3 DEF Idle
<1>5. Types
  <2>1. row \in Row
    BY CostKeysAssumption DEF CostKeysAssumption, Row, NoRow, Modes
  <2>2. /\ scope \in {"attempt", "judge"} /\ 0 \in 0..MaxUsed
        /\ 0 \in 0..MaxEnds /\ 0 \in 0..MaxRestarts
    BY CostKeysAssumption DEF CostKeysAssumption
  <2>3. pc \in [Users -> OpenPc \union {"idle", "closed", "ghost"}]
    BY <1>1 DEF OpenPc
  <2>4. settle \in [Settlers -> {Idle} \union Polling \union Disabling \union Closing]
    BY <1>3
  <2> QED
    BY <2>1, <2>2, <2>3, <2>4 DEF Types
<1>6. Lease
  BY <1>2 DEF Lease, Maker, NoRow
<1>12. Unseen
  BY DEF Unseen
<1>7. Over
  BY <1>2, <1>4 DEF Over, NoRow
<1>8. Alone
  <2>1. ASSUME scope = "attempt"
        PROVE  \E v : due = {v}
    <3>1. IsFiniteSet(due)
      BY CostKeysAssumption, FS_Subset DEF CostKeysAssumption
    <3> QED
      BY <1>1, <2>1, <3>1, FS_Singleton
  <2> QED
    BY <1>2, <2>1 DEF Alone, NoRow
<1>9. Audited /\ Priced
  BY <1>4 DEF Audited, Priced, NoRow
<1>10. Tried
  <2>1. Polls("scan") = 0 /\ Polls("end") = 0
    BY <1>4 DEF Polls, Settlers
  <2> QED
    BY <2>1, CostKeysAssumption DEF CostKeysAssumption, Tried, NoRow
<1> QED
  BY <1>5, <1>6, <1>7, <1>8, <1>9, <1>10, <1>12 DEF IInv

LEMMA NextTypes ==
  ASSUME Types, [Next]_vars
  PROVE  Types'
<1>0. /\ row \in Row /\ pc \in [Users -> Pcs] /\ made \in Nat
      /\ settle \in [Settlers -> Settlement]
  BY DEF Types, Pcs, Settlement
<1>1. ASSUME NEW u \in Users, UserStep(u)
      PROVE  Types'
  <2>1. row' \in Row /\ UserMove(u) /\ UserFrame
    BY <1>1, UserMoves
  <2>2. /\ pc' \in [Users -> Pcs] /\ made' \in Nat /\ credential' \in BOOLEAN
        /\ strayed' \subseteq Users
    <3>1. CASE Leases(u) \/ Waits(u) \/ Makes(u)
      BY <1>0, <3>1 DEF Leases, Waits, Makes, Types, Pcs, OpenPc
    <3>2. CASE Finds(u) \/ GivesUp(u)
      BY <1>0, <3>2 DEF Finds, GivesUp, GoesOn, Types, Pcs, OpenPc
    <3>3. CASE Registers(u)
      <4>1. credential' = TRUE
        BY <1>1, <3>3 DEF Registers, UserStep, Open, CreateKey, CreateFails, Register,
           WaitEnds, WaitTimesOut, Proceed
      <4> QED
        BY <1>0, <3>3, <4>1 DEF Registers, Types, Pcs, OpenPc
    <3> QED
      BY <2>1, <3>1, <3>2, <3>3 DEF UserMove
  <2>3. keyOff' = keyOff
    BY <2>1 DEF UserFrame
  <2> QED
    BY <2>1, <2>2, <2>3 DEF Types, UserFrame, Pcs
<1>2. ASSUME NEW u \in Users, QuietStep(u)
      PROVE  Types'
  <2>1. pc' \in [Users -> Pcs] /\ made' \in Nat /\ used' \in 0..MaxUsed
        /\ missed' \subseteq Users /\ strayed' \subseteq Users /\ aside' \subseteq Users
    BY <1>0, <1>2, CostKeysAssumption
       DEF CostKeysAssumption, QuietStep, Queue, Spend, Ends, Miss, Abandon, ResumedScores,
           Types, Pcs, OpenPc, upstream, bounds, history
  <2>2. UNCHANGED <<scope, row, keyOff, credential, settle, ends, restarts>>
    BY <1>2 DEF QuietStep, Queue, Spend, Ends, Miss, Abandon, ResumedScores, upstream, bounds
  <2> QED
    BY <2>1, <2>2 DEF Types, Pcs
<1>3. CASE SettleNext
  <2>1. row' \in Row /\ SettleMove /\ SettleFrame
    BY <1>3, SettleMoves
  <2>2. settle' \in [Settlers -> Settlement] /\ credential' \in BOOLEAN
    <3>1. ASSUME NEW s \in Settlers, Begins(s) \/ Fails(s) \/ Advances(s) \/ Closes(s)
          PROVE  settle' \in [Settlers -> Settlement] /\ credential' \in BOOLEAN
      <4>1. \E x \in Settlement : settle' = [settle EXCEPT ![s] = x]
        BY <3>1 DEF Begins, Fails, Advances, Closes, Settlement
      <4>2. credential' \in BOOLEAN
        BY <3>1 DEF Begins, Fails, Advances, Closes, Types
      <4> QED
        BY <1>0, <4>1, <4>2
    <3>2. CASE Drops \/ Retries
      BY <1>0, <3>2 DEF Drops, Retries, Types
    <3> QED
      BY <2>1, <3>1, <3>2 DEF SettleMove
  <2>3. keyOff' \in BOOLEAN
    <3>1. keyOff \in BOOLEAN
      BY DEF Types
    <3>2. ASSUME NEW s \in Settlers, Disable(s)
          PROVE  keyOff' \in BOOLEAN
      <4>1. keyOff' = keyOff \/ keyOff' = TRUE
        BY <3>2 DEF Disable
      <4> QED
        BY <3>1, <4>1
    <3>3. RetryDisable => keyOff' = TRUE
      BY DEF RetryDisable
    <3>4. ASSUME NEW s \in Settlers, PollFails(s) \/ PollReturns(s) \/ Close(s)
          PROVE  keyOff' = keyOff
      BY <3>4 DEF PollFails, PollReturns, Close, upstream
    <3>5. ScanLease \/ ScanSettles \/ EndSettles => keyOff' = keyOff
      BY DEF ScanLease, ScanSettles, EndSettles, upstream
    <3> QED
      BY <1>3, <3>1, <3>2, <3>3, <3>4, <3>5 DEF SettleNext, SettleStep
  <2>4. ends' \in 0..MaxEnds
    <3>1. ends \in 0..MaxEnds /\ MaxEnds \in Nat
      BY CostKeysAssumption DEF CostKeysAssumption, Types
    <3>2. EndSettles => ends < MaxEnds /\ ends' = ends + 1
      BY DEF EndSettles
    <3>3. ASSUME NEW s \in Settlers, SettleStep(s)
          PROVE  ends' = ends
      BY <3>3 DEF SettleStep, PollFails, PollReturns, Disable, Close, bounds
    <3>4. ScanLease \/ ScanSettles \/ RetryDisable => ends' = ends
      BY DEF ScanLease, ScanSettles, RetryDisable, bounds
    <3> QED
      BY <1>3, <3>1, <3>2, <3>3, <3>4 DEF SettleNext
  <2> QED
    BY <2>1, <2>2, <2>3, <2>4 DEF Types, SettleFrame, Settlement
<1>4. CASE Restart
  <2>1. pc' \in [Users -> Pcs]
    BY <1>0, <1>4 DEF Restart, Pcs, OpenPc
  <2>2. made' \in Nat /\ restarts' \in 0..MaxRestarts
    BY <1>4, CostKeysAssumption DEF CostKeysAssumption, Restart, Types
  <2>3. settle' \in [Settlers -> Settlement]
    BY <1>4 DEF Restart, Settlement
  <2> QED
    BY <1>4, <2>1, <2>2, <2>3 DEF Types, Restart, Pcs, Settlement, history
<1>5. CASE UNCHANGED vars
  BY <1>5 DEF Types, vars, upstream, bounds, history
<1> QED
  BY <1>1, <1>2, <1>3, <1>4, <1>5, Steps

\* A settlement step leaves the users, the upstream keys and the strays alone,
\* and the key in the row.
LEMMA SettleKeeps ==
  ASSUME Types, SettleNext
  PROVE  /\ SettleFrame /\ row'.hash = row.hash /\ row'.mode = row.mode
         /\ row.status = "absent" <=> row'.status = "absent"
<1>1. SettleMove /\ SettleFrame
  BY SettleMoves
<1>2. ASSUME NEW s \in Settlers, Begins(s) \/ Fails(s) \/ Advances(s) \/ Closes(s)
      PROVE  row'.hash = row.hash /\ row'.mode = row.mode
  BY <1>2 DEF Begins, Fails, Advances, Closes, Remarked
<1>3. Drops \/ Retries => row'.hash = row.hash /\ row'.mode = row.mode
  BY DEF Drops, Retries, Remarked
<1>4. row.status = "absent" <=> row'.status = "absent"
  <2>1. ASSUME NEW s \in Settlers
        PROVE  row' = row \/ row.status = "settling" \/ ~Close(s)
    BY DEF Close
  <2>2. ASSUME NEW s \in Settlers, Close(s), row.status = "settling"
        PROVE  row'.status \in Terminal
    <3>1. settle[s] \in Closing /\ row \in Row
      BY <2>2, Phases DEF Close, Types
    <3> QED
      BY <2>2, <3>1, ClosedRow DEF Close
  <2>3. ASSUME NEW s \in Settlers, PollReturns(s) \/ Disable(s)
        PROVE  row' = row
    BY <2>3 DEF PollReturns, Disable
  <2>4. ASSUME NEW s \in Settlers, PollFails(s)
        PROVE  row'.status = row.status
    BY <2>4 DEF PollFails, Types, Row
  <2>5. ASSUME NEW s \in Settlers, Settle(s), row.status \in Active
        PROVE  row'.status # "absent"
    BY <2>5 DEF Settle, Types, Row
  <2>6. ScanLease \/ ScanSettles \/ EndSettles => row'.status # "absent"
    BY <2>5 DEF ScanLease, ScanSettles, EndSettles, Types, Row, Settlers
  <2>7. ScanLease \/ ScanSettles \/ EndSettles => row.status # "absent"
    BY DEF ScanLease, ScanSettles, EndSettles, Active
  <2>8. RetryDisable => row'.status = row.status
    BY DEF RetryDisable, Types, Row
  <2> QED
    BY <2>1, <2>2, <2>3, <2>4, <2>6, <2>7, <2>8 DEF SettleNext, SettleStep, Terminal
<1> QED
  BY <1>1, <1>2, <1>3, <1>4 DEF SettleMove

\* What a stop has missed is seen again when its job comes.
LEMMA NextUnseen ==
  ASSUME Types, Unseen, [Next]_vars
  PROVE  Unseen'
<1>0. pc \in [Users -> Pcs] /\ missed \subseteq Users /\ restarts \in Nat
  BY CostKeysAssumption DEF CostKeysAssumption, Types, Pcs
<1>1. ASSUME NEW u \in Users, UserStep(u)
      PROVE  Unseen'
  <2>1. UserMove(u) /\ UserFrame
    BY <1>1, UserMoves
  <2>2. pc[u] \notin {"due", "closed"}
    BY <2>1 DEF UserMove, Leases, Waits, Finds, GivesUp, Makes, Registers
  <2>3. \A v \in Users : v # u => pc'[v] = pc[v]
    BY <1>0, <2>1
       DEF UserMove, Leases, Waits, Finds, GivesUp, GoesOn, Makes, Registers
  <2> QED
    BY <1>0, <2>1, <2>2, <2>3 DEF UserFrame, Unseen
<1>2. ASSUME NEW u \in Users, QuietStep(u)
      PROVE  Unseen'
  <2>1. UNCHANGED <<scope, restarts>> /\ aside \subseteq aside'
    BY <1>2 DEF QuietStep, Queue, Spend, Ends, Miss, Abandon, ResumedScores, bounds,
       history
  <2>2. \A v \in Users : v # u => pc'[v] = pc[v]
    BY <1>0, <1>2 DEF QuietStep, Queue, Spend, Ends, Miss, Abandon, ResumedScores
  <2>3. \A v \in missed' : v = u \/ v \in missed
    BY <1>2 DEF QuietStep, Queue, Spend, Ends, Miss, Abandon, ResumedScores
  <2>4. ASSUME u \in missed', scope # "attempt"
        PROVE  /\ pc'[u] \in {"due", "closed"}
               /\ restarts > 0 => pc'[u] = "closed"
    <3>1. scope = "judge"
      BY <2>4 DEF Types
    <3>2. ~Queue(u)
      BY <2>4, <3>1 DEF Queue
    <3>3. CASE Miss(u)
      BY <1>0, <3>3 DEF Miss
    <3>4. CASE ~Miss(u)
      <4>1. u \in missed
        BY <1>2, <2>4, <3>2, <3>4 DEF QuietStep, Spend, Ends, Abandon, ResumedScores
      <4>2. /\ pc[u] \in {"due", "closed"}
            /\ restarts > 0 => pc[u] = "closed"
        BY <2>4, <4>1 DEF Unseen
      <4> QED
        BY <1>0, <1>2, <3>2, <3>4, <4>2
           DEF QuietStep, Spend, Ends, Abandon, ResumedScores, OpenPc
    <3> QED
      BY <3>3, <3>4
  <2>5. ASSUME u \in missed', scope = "attempt"
        PROVE  u \in aside'
    <3>1. CASE Miss(u)
      BY <2>5, <3>1 DEF Miss
    <3>2. CASE ~Miss(u)
      <4>1. u \in missed
        BY <1>2, <2>5, <3>2 DEF QuietStep, Queue, Spend, Ends, Abandon, ResumedScores
      <4> QED
        BY <2>1, <2>5, <4>1 DEF Unseen
    <3> QED
      BY <3>1, <3>2
  <2>6. ASSUME NEW v \in missed', v # u
        PROVE  IF scope = "attempt" THEN v \in aside'
               ELSE /\ pc'[v] \in {"due", "closed"}
                    /\ restarts > 0 => pc'[v] = "closed"
    BY <1>0, <2>1, <2>2, <2>3, <2>6 DEF Unseen
  <2> QED
    BY <2>1, <2>4, <2>5, <2>6 DEF Unseen
<1>3. CASE SettleNext
  BY <1>3, SettleKeeps DEF SettleFrame, Unseen
<1>4. CASE Restart
  <2>1. UNCHANGED <<scope, missed, aside>>
    BY <1>4 DEF Restart, history
  <2>2. ASSUME NEW v \in missed, scope # "attempt"
        PROVE  pc'[v] = "closed"
    <3>1. pc[v] \in {"due", "closed"} /\ scope = "judge"
      BY <2>2 DEF Unseen, Types
    <3> QED
      BY <1>0, <1>4, <2>2, <3>1 DEF Restart, Outliving, OpenPc
  <2> QED
    BY <2>1, <2>2 DEF Unseen
<1>5. CASE UNCHANGED vars
  BY <1>5 DEF Unseen, vars, history, bounds
<1> QED
  BY <1>1, <1>2, <1>3, <1>4, <1>5, Steps

LEMMA NextLease ==
  ASSUME Types, Lease, Over, [Next]_vars
  PROVE  Lease'
<1>0. /\ row \in Row /\ pc \in [Users -> Pcs] /\ made \in Nat
  BY DEF Types, Pcs
<1>1. ASSUME NEW u \in Users, UserStep(u)
      PROVE  Lease'
  <2>1. row' \in Row /\ UserMove(u) /\ UserFrame
    BY <1>1, UserMoves
  <2>2. CASE Leases(u)
    <3>1. row'.status = "pending" /\ row'.hash = FALSE
      BY <2>2 DEF Leases, NoRow
    <3> QED
      BY <1>0, <2>2, <3>1 DEF Leases, Lease, Maker
  <2>3. CASE Waits(u) \/ Makes(u)
    BY <1>0, <2>3 DEF Waits, Makes, Lease, Maker
  <2>4. CASE Finds(u) \/ GivesUp(u)
    <3>1. row.status # "absent" /\ row'.status = row.status /\ row'.hash = row.hash
      BY <2>4 DEF Finds, GivesUp, GoesOn, Keeps, Lease, Maker
    <3>2. \A v \in Users : /\ Maker(v)' => Maker(v) /\ v # u
                           /\ pc'[v] = "creating" => pc[v] = "creating" /\ v # u
      BY <1>0, <2>4 DEF Finds, GivesUp, GoesOn, Maker
    <3>3. CASE Finds(u)
      BY <1>0, <3>1, <3>2, <3>3 DEF Finds, Lease
    <3>4. CASE GivesUp(u)
      <4>1. made = 0 /\ made' \in {0, 1} /\ Maker(u)
        BY <3>4 DEF GivesUp, Lease, Maker
      <4>2. \A v \in Users : ~Maker(v)'
        BY <3>2, <4>1 DEF Lease
      <4> QED
        BY <3>1, <4>1, <4>2 DEF Lease, Maker
    <3> QED
      BY <2>4, <3>3, <3>4
  <2>5. CASE Registers(u)
    <3>1. row.status # "absent" /\ row'.status = row.status /\ Maker(u)
      BY <2>5 DEF Registers, Keeps, Lease, Maker
    <3>2. \A v \in Users : ~Maker(v)'
      BY <1>0, <2>5, <3>1 DEF Registers, Lease, Maker
    <3> QED
      BY <2>5, <3>1, <3>2 DEF Registers, Lease, Maker
  <2> QED
    BY <2>1, <2>2, <2>3, <2>4, <2>5 DEF UserMove
<1>2. ASSUME NEW u \in Users, QuietStep(u)
      PROVE  Lease'
  <2>1. row' = row
    BY <1>2 DEF QuietStep, Queue, Spend, Ends, Miss, Abandon, ResumedScores
  <2>2. CASE Abandon(u) /\ pc[u] = "creating"
    <3>1. made = 0 /\ made' \in {0, 1} /\ Maker(u)
      BY <2>2 DEF Abandon, Lease, Maker
    <3>2. \A v \in Users : pc'[v] = pc[v] \/ (v = u /\ pc'[v] = "closed")
      BY <1>0, <2>2 DEF Abandon
    <3>3. ASSUME NEW v \in Users
          PROVE  ~Maker(v)'
      <4>1. Maker(v) => v = u
        BY <3>1 DEF Lease
      <4>2. pc'[u] = "closed"
        BY <1>0, <2>2 DEF Abandon
      <4> QED
        BY <3>2, <4>1, <4>2 DEF Maker
    <3>4. row.status # "absent"
      BY <3>1 DEF Lease
    <3> QED
      BY <2>1, <3>1, <3>3, <3>4 DEF Lease, Maker
  <2>3. CASE ~(Abandon(u) /\ pc[u] = "creating")
    <3>1. made' = made
      BY <1>2, <2>3 DEF QuietStep, Queue, Spend, Ends, Miss, Abandon, ResumedScores, upstream
    <3>2. \A v \in Users : \/ pc'[v] = pc[v]
                           \/ pc'[v] \in {"closed", "queued", "ghost", "run", "fallback"}
      BY <1>0, <1>2 DEF QuietStep, Queue, Spend, Ends, Miss, Abandon, ResumedScores
    <3> QED
      BY <2>1, <3>1, <3>2 DEF Lease, Maker
  <2> QED
    BY <2>2, <2>3
<1>3. CASE SettleNext
  <2>1. /\ pc' = pc /\ made' = made /\ row'.hash = row.hash
        /\ row.status = "absent" <=> row'.status = "absent"
    BY <1>3, SettleKeeps DEF SettleFrame
  <2>2. row.status # "absent"
    <3>1. ASSUME NEW s \in Settlers, SettleStep(s)
          PROVE  row.hash
      <4>1. settle[s].phase # "idle"
        BY <3>1 DEF SettleStep, PollFails, PollReturns, Disable, Close
      <4> QED
        BY <4>1, Phases DEF Over
    <3>2. row.status = "absent" => ~row.hash
      BY DEF Lease, NoRow
    <3> QED
      BY <1>3, <3>1, <3>2 DEF SettleNext, ScanLease, ScanSettles, EndSettles,
         RetryDisable, StillEnabled, Active, Terminal
  <2> QED
    BY <2>1, <2>2 DEF Lease, Maker
<1>4. CASE Restart
  <2>1. row' = row /\ \A v \in Users : pc'[v] # "waiting" /\ ~Maker(v)'
    BY <1>0, <1>4 DEF Restart, Maker, Outliving, OpenPc
  <2>2. made' <= 1 /\ (row.status = "absent" => made' = made)
    BY <1>4 DEF Restart, Lease, Maker
  <2> QED
    BY <2>1, <2>2 DEF Lease, Maker
<1>5. CASE UNCHANGED vars
  BY <1>5 DEF Lease, Maker, vars, upstream
<1> QED
  BY <1>1, <1>2, <1>3, <1>4, <1>5, Steps

\* A step of a user comes from a place where it is open, or set aside.
LEMMA NextOver ==
  ASSUME Types, Unseen, Lease, Over, [Next]_vars
  PROVE  Over'
<1>0. row \in Row /\ pc \in [Users -> Pcs]
  BY DEF Types, Pcs
<1>1. ASSUME NEW u \in Users, UserStep(u)
      PROVE  Over'
  <2>1. UserMove(u) /\ UserFrame /\ pc[u] \in OpenPc
    BY <1>1, UserMoves
       DEF UserStep, Open, CreateKey, CreateFails, Register, WaitEnds, WaitTimesOut, OpenPc
  <2>2. \A v \in Users : v # u => pc'[v] = pc[v]
    BY <1>0, <2>1
       DEF UserMove, Leases, Waits, Finds, GivesUp, GoesOn, Makes, Registers
  <2>3. pc'[u] # "ghost"
    BY <1>0, <2>1
       DEF UserMove, Leases, Waits, Finds, GivesUp, GoesOn, Makes, Registers
  <2>4. row.hash => row'.hash
    <3>1. Leases(u) => ~row.hash
      BY DEF Leases, Lease, NoRow
    <3> QED
      BY <2>1, <3>1
         DEF UserMove, Waits, Finds, GivesUp, GoesOn, Makes, Registers
  <2>5. row'.disabled = row.disabled \/ row'.disabled = "null"
    BY <2>1 DEF UserMove, Leases, NoRow, Waits, Finds, GivesUp, GoesOn, Makes,
       Registers, Keeps
  <2>6. ASSUME row.disabled # "null"
        PROVE  ~credential' /\ (u \in aside \/ pc'[u] # "run")
    <3>1. row.hash /\ ~credential
      BY <2>6 DEF Over
    <3>2. ~Registers(u)
      BY <3>1 DEF Lease, Maker, Registers
    <3>3. Leases(u) \/ Waits(u) => credential' = credential /\ pc'[u] # "run"
      BY <1>0 DEF Leases, Waits
    <3>4. Finds(u) \/ GivesUp(u) => credential' = credential /\ pc'[u] # "run"
      BY <1>0, <3>1 DEF Finds, GivesUp, GoesOn
    <3>5. Makes(u) => credential' = credential /\ pc'[u] # "run"
      BY <1>0 DEF Makes
    <3> QED
      BY <2>1, <3>1, <3>2, <3>3, <3>4, <3>5 DEF UserMove
  <2>7. UNCHANGED <<missed, settle, aside>>
    BY <2>1 DEF UserFrame
  <2>8. ASSUME NEW s \in Settlers, settle'[s] # Idle
        PROVE  row'.hash /\ \A v \in Users \ (aside' \union missed') : pc'[v] \notin OpenPc
    <3>1. row.hash /\ \A v \in Users \ (aside \union missed) : pc[v] \notin OpenPc
      BY <2>7, <2>8 DEF Over
    <3> QED
      BY <2>1, <2>2, <2>4, <2>7, <3>1
  <2>9. \A v \in Users : pc'[v] = "ghost" => v \in aside'
    BY <2>2, <2>3, <2>7 DEF Over
  <2>10. row'.disabled # "null" =>
           row'.hash /\ ~credential' /\ \A v \in Users \ aside' : pc'[v] # "run"
    BY <2>2, <2>4, <2>5, <2>6, <2>7 DEF Over
  <2> QED
    BY <2>8, <2>9, <2>10 DEF Over
<1>2. ASSUME NEW u \in Users, QuietStep(u)
      PROVE  Over'
  <2>1. UNCHANGED <<row, credential, settle>> /\ aside \subseteq aside'
    BY <1>2 DEF QuietStep, Queue, Spend, Ends, Miss, Abandon, ResumedScores, history
  <2>2. \A v \in Users : v # u => pc'[v] = pc[v]
    BY <1>0, <1>2 DEF QuietStep, Queue, Spend, Ends, Miss, Abandon, ResumedScores
  <2>3. pc'[u] = "ghost" => u \in aside'
    <3>1. CASE Spend(u)
      BY <3>1 DEF Spend, Over, history
    <3>2. CASE Abandon(u)
      <4>1. pc'[u] = "ghost" => pc[u] = "run"
        BY <1>0, <3>2 DEF Abandon
      <4> QED
        BY <3>2, <4>1 DEF Abandon
    <3>3. CASE Queue(u) \/ Ends(u) \/ Miss(u) \/ ResumedScores(u)
      BY <1>0, <3>3 DEF Queue, Ends, Miss, Over, ResumedScores
    <3> QED
      BY <1>2, <3>1, <3>2, <3>3 DEF QuietStep
  <2>4. pc'[u] \in OpenPc => \/ pc[u] \in OpenPc /\ missed \subseteq missed'
                             \/ u \in aside'
                             \/ \A s \in Settlers : settle[s] = Idle
    <3>1. CASE Queue(u)
      BY <3>1 DEF Queue
    <3>2. CASE Spend(u) \/ Ends(u)
      BY <1>0, <3>2 DEF Spend, Ends, OpenPc
    <3>3. CASE Miss(u) \/ Abandon(u) \/ ResumedScores(u)
      BY <3>3 DEF Miss, Abandon, ResumedScores, OpenPc
    <3> QED
      BY <1>2, <3>1, <3>2, <3>3 DEF QuietStep
  <2>5. pc'[u] = "run" => pc[u] = "run" \/ credential
    BY <1>0, <1>2 DEF QuietStep, Queue, Spend, Ends, Miss, Abandon, ResumedScores
  <2>9. missed \ {u} \subseteq missed' \ {u}
    BY <1>2 DEF QuietStep, Queue, Spend, Ends, Miss, Abandon, ResumedScores
  <2>6. ASSUME NEW s \in Settlers, settle'[s] # Idle
        PROVE  row'.hash /\ \A v \in Users \ (aside' \union missed') : pc'[v] \notin OpenPc
    <3>1. row.hash /\ \A v \in Users \ (aside \union missed) : pc[v] \notin OpenPc
      BY <2>1, <2>6 DEF Over
    <3> QED
      BY <2>1, <2>2, <2>4, <2>6, <2>9, <3>1
  <2>7. \A v \in Users : pc'[v] = "ghost" => v \in aside'
    BY <2>1, <2>2, <2>3 DEF Over
  <2>8. row'.disabled # "null" =>
           row'.hash /\ ~credential' /\ \A v \in Users \ aside' : pc'[v] # "run"
    BY <2>1, <2>2, <2>5 DEF Over
  <2> QED
    BY <2>6, <2>7, <2>8 DEF Over
<1>3. CASE SettleNext
  <2>1. SettleMove /\ UNCHANGED <<pc, missed, aside>> /\ row'.hash = row.hash
    BY <1>3, SettleMoves, SettleKeeps DEF SettleFrame
  <2>2. \A v \in Users : pc'[v] = "ghost" => v \in aside'
    BY <2>1 DEF Over
  <2>3. ASSUME NEW s \in Settlers, settle'[s] # Idle
        PROVE  row'.hash /\ \A v \in Users \ (aside' \union missed') : pc'[v] \notin OpenPc
    <3>0. settle \in [Settlers -> Settlement]
      BY DEF Types, Settlement
    <3>1. CASE settle[s] # Idle
      BY <2>1, <3>1 DEF Over
    <3>2. CASE settle[s] = Idle
      <4>1. Begins(s)
        <5>1. ASSUME NEW t \in Settlers, Begins(t) \/ Fails(t) \/ Advances(t) \/ Closes(t),
                     ~Begins(s)
              PROVE  FALSE
          <6>1. t # s
            BY <2>3, <3>0, <3>2, <5>1, Phases DEF Fails, Advances, Closes, Idle
          <6>2. settle'[s] = settle[s]
            BY <3>0, <5>1, <6>1 DEF Begins, Fails, Advances, Closes
          <6> QED
            BY <2>3, <3>2, <6>2
        <5>2. ~Drops /\ ~Retries
          BY <2>3, <3>2 DEF Drops, Retries
        <5> QED
          BY <2>1, <5>1, <5>2 DEF SettleMove
      <4> QED
        BY <2>1, <4>1 DEF Begins, Finished
    <3> QED
      BY <3>1, <3>2
  <2>4. ASSUME row'.disabled # "null"
        PROVE  row'.hash /\ ~credential' /\ \A v \in Users \ aside' : pc'[v] # "run"
    <3>1. CASE row.disabled # "null"
      <4>1. row.hash /\ ~credential /\ \A v \in Users \ aside : pc[v] # "run"
        BY <3>1 DEF Over
      <4>2. ~credential'
        BY <2>1, <4>1 DEF SettleMove, Begins, Drops, Fails, Advances, Closes, Retries
      <4> QED
        BY <2>1, <4>1, <4>2
    <3>2. CASE row.disabled = "null"
      <4>1. PICK s \in Settlers : Closes(s)
        BY <2>1, <2>4, <3>2 DEF SettleMove, Begins, Drops, Fails, Advances, Retries, Remarked
      <4>2. settle[s] # Idle /\ ~credential'
        BY <4>1, Phases DEF Closes, Closing, Idle
      <4>3. row.hash /\ \A v \in Users \ (aside \union missed) : pc[v] \notin OpenPc
        BY <4>2 DEF Over
      <4>4. \A v \in missed : v \in aside \/ pc[v] # "run"
        BY DEF Unseen
      <4> QED
        BY <2>1, <4>2, <4>3, <4>4 DEF OpenPc
    <3> QED
      BY <3>1, <3>2
  <2> QED
    BY <2>2, <2>3, <2>4 DEF Over
<1>4. CASE Restart
  <2>1. /\ UNCHANGED <<row, aside>> /\ ~credential'
        /\ \A s \in Settlers : settle'[s] = Idle
    BY <1>4 DEF Restart, history
  <2>2. \A v \in Users : pc'[v] = pc[v] \/ pc'[v] \in {"queued", "closed"}
    BY <1>0, <1>4 DEF Restart
  <2> QED
    BY <2>1, <2>2 DEF Over
<1>5. CASE UNCHANGED vars
  BY <1>5 DEF Over, vars, history
<1> QED
  BY <1>1, <1>2, <1>3, <1>4, <1>5, Steps

\* In the scope of an attempt nobody begins twice.
LEMMA NextAlone ==
  ASSUME Types, Lease, Over, Alone, [Next]_vars
  PROVE  Alone'
<1>0. row \in Row /\ pc \in [Users -> Pcs]
  BY DEF Types, Pcs
<1>1. scope' = scope
  BY DEF Next, UserStep, Open, CreateKey, CreateFails, Register, WaitEnds,
     WaitTimesOut, Queue, Spend, Ends, Miss, Abandon, ResumedScores, ScanLease, ScanSettles,
     EndSettles, SettleStep, PollFails, PollReturns, Disable, Close, RetryDisable,
     Restart, vars
<1> SUFFICES ASSUME scope = "attempt"
             PROVE  Alone'
  BY <1>1 DEF Alone
<1>2. /\ \A u, v \in Users : pc[u] \in {"closed", "idle"} \/ pc[v] \in {"closed", "idle"}
                             \/ u = v
      /\ \A u \in Users : /\ pc[u] # "waiting"
                          /\ pc[u] \in {"due", "queued"} => row.status = "absent"
  BY DEF Alone
<1>3. ASSUME NEW u \in Users, UserStep(u) \/ QuietStep(u)
      PROVE  Alone'
  <2>1. pc[u] \notin {"closed", "idle"}
    BY <1>3 DEF UserStep, Open, CreateKey, CreateFails, Register, WaitEnds,
       WaitTimesOut, QuietStep, Queue, Spend, Ends, Miss, Abandon, ResumedScores, OpenPc
  <2>2. \A v \in Users : v # u => pc'[v] = pc[v] /\ pc[v] \in {"closed", "idle"}
    <3>1. UserStep(u) => UserMove(u)
      BY UserMoves
    <3>2. UserMove(u) => \A v \in Users : v # u => pc'[v] = pc[v]
      BY <1>0 DEF UserMove, Leases, Waits, Finds, GivesUp, GoesOn, Makes, Registers
    <3>3. QuietStep(u) => \A v \in Users : v # u => pc'[v] = pc[v]
      BY <1>0 DEF QuietStep, Queue, Spend, Ends, Miss, Abandon, ResumedScores
    <3> QED
      BY <1>2, <1>3, <2>1, <3>1, <3>2, <3>3
  <2>3. /\ pc'[u] # "waiting"
        /\ pc'[u] \in {"due", "queued"} => row'.status = "absent"
    <3>1. CASE UserStep(u)
      <4>1. UserMove(u)
        BY <3>1, UserMoves
      <4>2. ~Waits(u)
        BY <1>2 DEF Waits
      <4> QED
        BY <1>0, <4>1, <4>2 DEF UserMove, Leases, Finds, GivesUp, GoesOn, Makes, Registers
    <3>2. CASE QuietStep(u)
      <4>1. row' = row
        BY <3>2 DEF QuietStep, Queue, Spend, Ends, Miss, Abandon, ResumedScores
      <4>2. /\ pc'[u] # "waiting"
            /\ pc'[u] \in {"due", "queued"} => pc[u] \in {"due", "queued"}
        <5>1. Queue(u) => pc[u] = "due" /\ pc'[u] = "queued"
          BY <1>0, <2>1 DEF Queue
        <5>2. Spend(u) => pc' = pc
          BY DEF Spend
        <5> QED
          BY <1>0, <1>2, <3>2, <5>1, <5>2 DEF QuietStep, Ends, Miss, Abandon, ResumedScores
      <4> QED
        BY <1>2, <4>1, <4>2
    <3> QED
      BY <1>3, <3>1, <3>2
  <2> QED
    BY <1>2, <2>1, <2>2, <2>3 DEF Alone
<1>4. CASE SettleNext
  <2>1. pc' = pc /\ (row.status = "absent" <=> row'.status = "absent")
    BY <1>4, SettleKeeps DEF SettleFrame
  <2> QED
    BY <1>1, <1>2, <2>1 DEF Alone
<1>5. CASE Restart
  <2>1. row' = row /\ \A u \in Users : pc'[u] = pc[u] \/ pc'[u] = "closed"
    BY <1>0, <1>5 DEF Restart
  <2> QED
    BY <1>1, <1>2, <2>1 DEF Alone
<1>6. CASE UNCHANGED vars
  BY <1>6 DEF Alone, vars
<1> QED
  BY <1>3, <1>4, <1>5, <1>6, Steps

\* A stray of a scope whose row can still be auditable is set aside.
LEMMA NextAudited ==
  ASSUME Types, Lease, Over, Alone, Audited, [Next]_vars
  PROVE  Audited'
<1>0. row \in Row /\ pc \in [Users -> Pcs] /\ scope \in {"attempt", "judge"}
  BY DEF Types, Pcs
<1>1. ASSUME NEW u \in Users, UserStep(u)
      PROVE  Audited'
  <2>1. UserMove(u) /\ UNCHANGED <<scope, aside>>
    BY <1>1, UserMoves DEF UserFrame
  <2>2. CASE Leases(u) \/ Waits(u) \/ Makes(u)
    <3>1. strayed' = strayed
      BY <2>2 DEF Leases, Waits, Makes
    <3>2. CASE Leases(u)
      <4>1. row = NoRow
        BY <3>2 DEF Leases, Lease
      <4> QED
        BY <2>1, <3>1, <4>1 DEF Audited, NoRow
    <3>3. CASE Waits(u) \/ Makes(u)
      <4>1. row' = row
        BY <3>3 DEF Waits, Makes
      <4>2. \A v \in Users : Maker(v)' => Maker(v)
        BY <1>0, <3>3 DEF Waits, Makes, Maker
      <4> QED
        BY <2>1, <3>1, <4>1, <4>2 DEF Audited
    <3> QED
      BY <2>2, <3>2, <3>3
  <2>3. CASE Finds(u) \/ GivesUp(u)
    <3>1. GoesOn(u)
      BY <2>3 DEF Finds, GivesUp
    <3>2. \A v \in Users : Maker(v)' => Maker(v) /\ v # u
      BY <1>0, <3>1 DEF GoesOn, Maker
    <3>3. /\ row'.status = row.status /\ row'.hash = row.hash
          /\ row'.mode = "ephemeral_run_key" => row.mode = "ephemeral_run_key"
      BY <3>1 DEF GoesOn, Keeps
    <3>4. CASE strayed' = strayed
      BY <2>1, <3>2, <3>3, <3>4 DEF Audited
    <3>5. CASE scope = "judge" /\ strayed' # strayed
      BY <2>1, <3>1, <3>5 DEF Audited, GoesOn
    <3>6. CASE scope = "attempt"
      <4>1. GivesUp(u)
        BY <2>3, <3>6 DEF Finds, Alone
      <4>2. Maker(u)
        BY <4>1 DEF GivesUp, Maker
      <4>3. /\ row.status # "absent" /\ ~row.hash
            /\ \A v \in Users : ~Maker(v)'
        BY <3>2, <4>2 DEF Lease
      <4> QED
        BY <2>1, <3>3, <3>6, <4>3 DEF Audited
    <3> QED
      BY <1>0, <3>4, <3>5, <3>6
  <2>4. CASE Registers(u)
    <3>1. Maker(u) /\ strayed' = strayed
      BY <2>4 DEF Registers, Maker
    <3>2. row'.mode = "ephemeral_run_key" => row.mode = "ephemeral_run_key"
      BY <2>4 DEF Registers
    <3> QED
      BY <2>1, <3>1, <3>2 DEF Audited
  <2> QED
    BY <2>1, <2>2, <2>3, <2>4 DEF UserMove
<1>2. ASSUME NEW u \in Users, QuietStep(u)
      PROVE  Audited'
  <2>1. UNCHANGED <<row, scope>>
    BY <1>2 DEF QuietStep, Queue, Spend, Ends, Miss, Abandon, ResumedScores
  <2>2. \A v \in Users : Maker(v)' => Maker(v)
    BY <1>0, <1>2 DEF QuietStep, Queue, Spend, Ends, Miss, Abandon, ResumedScores, Maker
  <2>3. strayed \subseteq aside => strayed' \subseteq aside'
    BY <1>2 DEF QuietStep, Queue, Spend, Ends, Miss, Abandon, ResumedScores, history
  <2> QED
    BY <2>1, <2>2, <2>3 DEF Audited
<1>3. CASE SettleNext
  BY <1>3, SettleKeeps DEF SettleFrame, Audited, Maker
<1>4. CASE Restart
  <2>1. UNCHANGED <<row, scope, strayed, aside>>
    BY <1>4 DEF Restart, history
  <2>2. \A v \in Users : ~Maker(v)'
    BY <1>0, <1>4 DEF Restart, Maker, Outliving, OpenPc
  <2> QED
    BY <2>1, <2>2 DEF Audited
<1>5. CASE UNCHANGED vars
  BY <1>5 DEF Audited, Maker, vars, history
<1> QED
  BY <1>1, <1>2, <1>3, <1>4, <1>5, Steps

\* Nobody that is not set aside spends once a settlement has begun.
LEMMA NextPriced ==
  ASSUME Types, Unseen, Lease, Over, Priced, [Next]_vars
  PROVE  Priced'
<1>0. /\ row \in Row /\ pc \in [Users -> Pcs]
      /\ settle \in [Settlers -> Settlement]
  BY DEF Types, Pcs, Settlement
<1>1. ASSUME NEW u \in Users, UserStep(u)
      PROVE  Priced'
  <2>1. UserMove(u) /\ UNCHANGED <<used, settle, aside>>
    BY <1>1, UserMoves DEF UserFrame
  <2>2. row'.status = "pending" \/ Keeps(row, row')
    BY <2>1 DEF UserMove, Leases, NoRow, Waits, Finds, GivesUp, GoesOn, Makes,
       Registers, Keeps
  <2> QED
    BY <2>1, <2>2 DEF Priced, Keeps
<1>2. ASSUME NEW u \in Users, QuietStep(u)
      PROVE  Priced'
  <2>1. UNCHANGED <<row, settle>> /\ aside \subseteq aside'
    BY <1>2 DEF QuietStep, Queue, Spend, Ends, Miss, Abandon, ResumedScores, history
  <2>2. CASE used' = used
    BY <2>1, <2>2 DEF Priced
  <2>3. CASE used' # used
    <3>1. pc[u] \in {"run", "ghost"}
      BY <1>2, <2>3 DEF QuietStep, Queue, Spend, Ends, Miss, Abandon, ResumedScores, upstream
    <3>2. ASSUME aside' = {}
          PROVE  /\ \A s \in Settlers : settle[s] = Idle
                 /\ row.disabled = "null"
      <4>1. u \notin aside /\ u \notin missed /\ pc[u] = "run"
        BY <2>1, <3>1, <3>2 DEF Over, Unseen
      <4> QED
        BY <4>1 DEF Over, OpenPc
    <3> QED
      BY <2>1, <3>2 DEF Priced, Idle
  <2> QED
    BY <2>2, <2>3
<1>3. CASE SettleNext
  <2>1. SettleMove /\ UNCHANGED <<used, aside>>
    BY <1>3, SettleMoves DEF SettleFrame
  <2>2. ASSUME NEW s \in Settlers,
               settle'[s].phase \in {"disabling", "closing"}, aside = {}
        PROVE  settle'[s].usage = used
    <3>1. CASE settle'[s] = settle[s]
      BY <2>2, <3>1 DEF Priced
    <3>2. CASE settle'[s] # settle[s]
      <4>1. Begins(s) \/ Fails(s) \/ Advances(s) \/ Closes(s)
        <5>1. \A t \in Settlers :
                (Begins(t) \/ Fails(t) \/ Advances(t) \/ Closes(t)) /\ t # s
                  => settle'[s] = settle[s]
          BY <1>0 DEF Begins, Fails, Advances, Closes
        <5>2. Drops \/ Retries => settle' = settle
          BY DEF Drops, Retries
        <5> QED
          BY <2>1, <3>2, <5>1, <5>2 DEF SettleMove
      <4>2. ~Begins(s) /\ ~Fails(s) /\ ~Closes(s)
        BY <1>0, <2>2 DEF Begins, Fails, Closes, Polling, Idle
      <4>3. CASE settle[s] \in Polling
        BY <1>0, <4>1, <4>2, <4>3, Phases DEF Advances
      <4>4. CASE settle[s] \in Disabling
        <5>1. settle[s].usage = used
          BY <2>2, <4>4, Phases DEF Priced
        <5>2. settle[s] \notin Polling
          BY <4>4, Phases
        <5> QED
          BY <1>0, <4>1, <4>2, <5>1, <5>2 DEF Advances
      <4> QED
        BY <4>1, <4>2, <4>3, <4>4 DEF Advances
    <3> QED
      BY <3>1, <3>2
  <2>3. ASSUME row'.status = "final"
        PROVE  row'.disabled # "null" /\ (aside = {} => row'.cost = used)
    <3>1. CASE \E s \in Settlers : Closes(s) /\ row' # row
      <4>1. PICK s \in Settlers : Closes(s) /\ row' # row
        BY <3>1
      <4>2. settle[s].phase = "closing"
        BY <4>1, Phases DEF Closes
      <4> QED
        BY <2>3, <4>1, <4>2 DEF Closes, Priced
    <3>2. CASE ~\E s \in Settlers : Closes(s) /\ row' # row
      <4>1. /\ row.status = "final" /\ row'.cost = row.cost
            /\ row'.disabled = row.disabled \/ row'.disabled # "null"
        BY <2>1, <2>3, <3>2
           DEF SettleMove, Begins, Drops, Fails, Advances, Closes, Retries
      <4> QED
        BY <4>1 DEF Priced
    <3> QED
      BY <3>1, <3>2
  <2> QED
    BY <2>1, <2>2, <2>3 DEF Priced
<1>4. CASE Restart
  <2>1. /\ UNCHANGED <<row, used, aside>>
        /\ \A s \in Settlers : settle'[s].phase = "idle"
    BY <1>4 DEF Restart, history, Idle
  <2> QED
    BY <2>1 DEF Priced
<1>5. CASE UNCHANGED vars
  BY <1>5 DEF Priced, vars, upstream, history
<1> QED
  BY <1>1, <1>2, <1>3, <1>4, <1>5, Steps

\* A settlement of the scan begins only below the limit, one of the end is
\* counted by the end.
LEMMA NextTried ==
  ASSUME Types, Lease, Tried, [Next]_vars
  PROVE  Tried'
<1>0. /\ row \in Row /\ settle \in [Settlers -> Settlement]
      /\ "scan" \in Settlers /\ "end" \in Settlers
      /\ row.tries \in Nat /\ ends \in Nat /\ MaxTries \in Nat
  BY CostKeysAssumption DEF CostKeysAssumption, Types, Settlement, Row, Settlers
<1>1. \A s \in Settlers : /\ Polls(s) \in {0, 1}
                          /\ Polls(s) = 1 <=> settle[s] \in Polling
  BY Phases DEF Polls
<1>2. \A s \in Settlers : settle'[s] = settle[s] => Polls(s)' = Polls(s)
  BY DEF Polls
<1>3. ASSUME NEW u \in Users, UserStep(u)
      PROVE  Tried'
  <2>1. UserMove(u) /\ UNCHANGED <<settle, ends>>
    BY <1>3, UserMoves DEF UserFrame
  <2>2. row'.tries = row.tries
    BY <2>1 DEF UserMove, Leases, Lease, NoRow, Waits, Finds, GivesUp, GoesOn, Makes,
       Registers, Keeps
  <2> QED
    BY <1>0, <1>2, <2>1, <2>2 DEF Tried
<1>4. ASSUME NEW u \in Users, QuietStep(u)
      PROVE  Tried'
  <2>1. UNCHANGED <<row, settle, ends>>
    BY <1>4 DEF QuietStep, Queue, Spend, Ends, Miss, Abandon, ResumedScores, bounds
  <2> QED
    BY <1>0, <1>2, <2>1 DEF Tried
<1>5. CASE SettleNext
  <2>1. SettleMove
    BY <1>5, SettleMoves
  <2>2. ASSUME NEW s \in Settlers, NEW t \in Settlers, t # s,
               Begins(s) \/ Fails(s) \/ Advances(s) \/ Closes(s)
        PROVE  Polls(t)' = Polls(t)
    <3>1. settle'[t] = settle[t]
      BY <1>0, <2>2 DEF Begins, Fails, Advances, Closes
    <3> QED
      BY <1>2, <3>1
  <2>3. ASSUME NEW s \in Settlers, Begins(s)
        PROVE  Tried'
    <3>1. Polls(s) = 0 /\ Polls(s)' = 1 /\ row'.tries = row.tries
      <4>1. settle'[s] \in Polling
        BY <1>0, <2>3 DEF Begins
      <4>2. settle'[s].phase = "polling" /\ settle[s].phase # "polling"
        BY <2>3, <4>1 DEF Begins, Polling, Idle
      <4> QED
        BY <2>3, <4>2 DEF Begins, Remarked, Polls
    <3>2. CASE s = "scan"
      <4>1. Polls("end")' = Polls("end") /\ ends' = ends /\ row.tries < MaxTries
        BY <1>0, <2>2, <2>3, <3>2 DEF Begins, Counted
      <4> QED
        BY <1>0, <1>1, <3>1, <3>2, <4>1 DEF Tried
    <3>3. CASE s = "end"
      <4>1. Polls("scan")' = Polls("scan") /\ ends' = ends + 1
        BY <1>0, <2>2, <2>3, <3>3 DEF Begins, Counted
      <4> QED
        BY <1>0, <1>1, <3>1, <3>3, <4>1 DEF Tried
    <3> QED
      BY <3>2, <3>3 DEF Settlers
  <2>4. ASSUME NEW s \in Settlers, Fails(s)
        PROVE  Tried'
    <3>1. Polls(s) = 1 /\ Polls(s)' = 0 /\ row'.tries = row.tries + 1 /\ ends' = ends
      BY <1>0, <1>1, <2>4 DEF Fails, Polls, Idle
    <3>2. CASE s = "scan"
      BY <1>0, <1>1, <2>2, <2>4, <3>1, <3>2 DEF Tried
    <3>3. CASE s = "end"
      BY <1>0, <1>1, <2>2, <2>4, <3>1, <3>3 DEF Tried
    <3> QED
      BY <3>2, <3>3 DEF Settlers
  <2>5. ASSUME NEW s \in Settlers, Advances(s) \/ Closes(s)
        PROVE  Tried'
    <3>1. row'.tries = row.tries /\ ends' = ends
      BY <2>5 DEF Advances, Closes
    <3>2. settle'[s] \in Disabling \/ settle'[s] \in Closing \/ settle'[s] = Idle
      BY <1>0, <2>5 DEF Advances, Closes
    <3>3. Polls(s)' = 0
      BY <3>2 DEF Polls, Disabling, Closing, Idle
    <3>4. CASE s = "scan"
      BY <1>0, <1>1, <2>2, <2>5, <3>1, <3>3, <3>4 DEF Tried
    <3>5. CASE s = "end"
      BY <1>0, <1>1, <2>2, <2>5, <3>1, <3>3, <3>5 DEF Tried
    <3> QED
      BY <3>4, <3>5 DEF Settlers
  <2>6. CASE Drops \/ Retries
    <3>1. row'.tries = row.tries /\ settle' = settle /\ ends' \in {ends, ends + 1}
      BY <2>6 DEF Drops, Retries, Remarked
    <3> QED
      BY <1>0, <1>1, <1>2, <3>1 DEF Tried
  <2> QED
    BY <2>1, <2>3, <2>4, <2>5, <2>6 DEF SettleMove
<1>6. CASE Restart
  <2>1. UNCHANGED <<row, ends>> /\ \A s \in Settlers : settle'[s] = Idle
    BY <1>6 DEF Restart
  <2>2. Polls("scan")' = 0 /\ Polls("end")' = 0
    BY <1>0, <2>1 DEF Polls, Idle
  <2> QED
    BY <1>0, <1>1, <2>1, <2>2 DEF Tried
<1>7. CASE UNCHANGED vars
  BY <1>7 DEF Tried, Polls, vars, bounds
<1> QED
  BY <1>3, <1>4, <1>5, <1>6, <1>7, Steps

LEMMA InvStep == IInv /\ [Next]_vars => IInv'
BY NextTypes, NextUnseen, NextLease, NextOver, NextAlone, NextAudited, NextPriced, NextTried
   DEF IInv

-----------------------------------------------------------------------------
(* The theorems.                                                           *)

\* Every value is of its type, and the tries of the two settlements together
\* stay within the limit and the ends of the attempt.
THEOREM TypeCorrect == Spec => []TypeOK
<1>1. IInv => TypeOK
  <2> SUFFICES ASSUME IInv
               PROVE  TypeOK
    OBVIOUS
  <2>1. row.tries \in 0..(MaxTries + MaxEnds)
    <3>1. \A s \in Settlers : Polls(s) \in {0, 1}
      BY DEF Polls
    <3> QED
      BY <3>1, CostKeysAssumption
         DEF CostKeysAssumption, IInv, Tried, Types, Row, Settlers
  <2>2. \A s \in Settlers :
          settle[s].phase \in {"idle", "polling", "disabling", "closing"}
    BY Phases DEF IInv, Settlement
  <2>3. DOMAIN settle = Settlers /\ {keyOff, credential} \subseteq BOOLEAN
    BY DEF IInv, Types
  <2>4. row \in [status : Active \union Terminal \union {"absent"}, mode : Modes,
              hash : BOOLEAN, based : BOOLEAN, creating : BOOLEAN,
              cost : {NoCost} \union (0..MaxUsed), tries : 0..(MaxTries + MaxEnds),
              disabled : {"null", "yes", "no"}]
    BY <2>1 DEF IInv, Types, Row
  <2> QED
    BY <2>2, <2>3, <2>4 DEF IInv, Types, TypeOK
<1> QED
  BY InitInv, InvStep, <1>1, PTL DEF Spec

\* A scope never has two upstream keys, whoever opens it at once, however the
\* answers of the upstream are lost, and across restarts.
THEOREM OneKey == Spec => []OneKeyPerScope
<1>1. IInv => OneKeyPerScope
  BY DEF IInv, Lease, OneKeyPerScope
<1> QED
  BY InitInv, InvStep, <1>1, PTL DEF Spec

\* An auditable cost is the whole cost of the scope.
THEOREM AuditableCosts == Spec => []AuditableIsComplete
<1>1. IInv => AuditableIsComplete
  <2> SUFFICES ASSUME IInv, row.status = "final", row.mode = "ephemeral_run_key"
               PROVE  strayed \subseteq aside /\ (aside = {} => row.cost = used)
    BY DEF AuditableIsComplete
  <2>1. row.disabled # "null" /\ (aside = {} => row.cost = used)
    BY DEF IInv, Priced
  <2>2. row.hash
    BY <2>1 DEF IInv, Over
  <2> QED
    BY <2>1, <2>2 DEF IInv, Audited
<1> QED
  BY InitInv, InvStep, <1>1, PTL DEF Spec

\* No step disables the key under a user that spends on it.
THEOREM KeyOutlivesUsers == Spec => KeyNotCut
<1>1. ASSUME IInv, [Next]_vars
      PROVE  [keyOff' /\ ~keyOff => \A u \in Users \ aside : pc[u] # "run"]_vars
  <2> SUFFICES ASSUME keyOff', ~keyOff
               PROVE  \A u \in Users \ aside : pc[u] # "run"
    OBVIOUS
  <2>1. (\E s \in Settlers : Disable(s)) \/ RetryDisable
    BY <1>1 DEF Next, UserStep, Open, CreateKey, CreateFails, Register, WaitEnds,
       WaitTimesOut, Queue, Spend, Ends, Miss, Abandon, ResumedScores, ScanLease,
       ScanSettles, EndSettles, SettleStep, PollFails, PollReturns, Close, Restart,
       vars, upstream
  <2>2. ASSUME NEW s \in Settlers, Disable(s)
        PROVE  \A u \in Users \ aside : pc[u] # "run"
    <3>1. settle[s] # Idle
      BY <2>2 DEF Disable, Idle
    <3> QED
      BY <1>1, <3>1 DEF IInv, Over, Unseen, OpenPc
  <2>3. RetryDisable => \A u \in Users \ aside : pc[u] # "run"
    BY <1>1 DEF IInv, Over, RetryDisable, StillEnabled
  <2> QED
    BY <2>1, <2>2, <2>3
<1> QED
  BY InitInv, InvStep, <1>1, PTL DEF Spec, KeyNotCut
====
