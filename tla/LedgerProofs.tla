----------------------------- MODULE LedgerProofs -----------------------------
(***************************************************************************)
(* The queue implements JobLedger, for every set of lanes, jobs, payloads  *)
(* and tokens and every bound.                                             *)
(*                                                                         *)
(* EffectInv is the third layer of DurableQueueProofs: effects and         *)
(* receipts agree, because a lane that has worked and still owns its row   *)
(* is the one that worked for it since the row was claimed.  Each step     *)
(* then moves each job as the ledger allows (LedgerMoves), and that these  *)
(* moves keep effects and receipts together no longer needs the queue      *)
(* (EffectsKept).                                                          *)
(*                                                                         *)
(* The last section is about the follow-ups of a job, which must be stored *)
(* before its receipt (FollowInv).                                         *)
(***************************************************************************)
EXTENDS DurableQueueProofs

USE MessageAssumption, StageAssumption

WorkIsOwned ==
    \A w \in Worker :
        /\ pc[w] = "intx" => pending[w].job \in Transactional
        /\ pc[w] = "worked" =>
              /\ pending[w].job \notin Transactional
              /\ Owns(pending[w]) => done[pending[w].job] >= 1

EffectInv == DoneTypeOK /\ EffectMatchesReceipt /\ WorkIsOwned

(***************************************************************************)
(* One job's part of a step, in the terms of the table                     *)
(***************************************************************************)

Open == {"pending", "running"}

Keeps(j) ==
    /\ PhaseOf(rows'[j]) = PhaseOf(rows[j])
    /\ IF j \in Transactional THEN done'[j] = done[j] ELSE done'[j] >= done[j]

Accepts(j) ==
    rows[j].status = "absent" /\ rows'[j].status = "pending" /\ done'[j] = 0

Completes(j) ==
    /\ rows[j].status = "running" /\ rows'[j].status = "completed"
    /\ IF j \in Transactional THEN done[j] = 0 /\ done'[j] = 1
                              ELSE done[j] >= 1 /\ done'[j] = done[j]

Abandons(j) ==
    /\ rows[j].status \in Open /\ rows'[j].status \in {"skipped", "failed"}
    /\ done'[j] = done[j]

Reopens(j) ==
    rows[j].status = "failed" /\ rows'[j].status = "pending" /\ done'[j] = done[j]

Forgets(j) ==
    /\ rows[j].status \in {"completed", "skipped", "failed"}
    /\ rows'[j].status = "absent" /\ done'[j] = 0

Move(j) == \/ Keeps(j) \/ Accepts(j) \/ Completes(j)
           \/ Abandons(j) \/ Reopens(j) \/ Forgets(j)

LEMMA PhaseForm ==
    ASSUME NEW r \in Row
    PROVE  /\ r.status = "absent" => PhaseOf(r) = "none"
           /\ r.status \in Open => PhaseOf(r) = "open"
           /\ r.status \in {"completed", "skipped", "failed"} => PhaseOf(r) = r.status
           /\ PhaseOf(r) = "completed" => r.status = "completed"
  BY DEF Row, Status, PhaseOf, Open

\* A job that keeps its status keeps its phase.
LEMMA SameStatus ==
    ASSUME NEW r \in Row, NEW s \in Row,
           r.status = s.status \/ (r.status \in Open /\ s.status \in Open)
    PROVE  PhaseOf(r) = PhaseOf(s)
  BY DEF Row, Status, PhaseOf, Open

(***************************************************************************)
(* The journal's statements                                                *)
(***************************************************************************)

\* Statements that end no work leave the effects alone.
LEMMA QuietMove ==
    ASSUME LaneInv, LaneInv', DoneTypeOK, UNCHANGED done,
           \/ UNCHANGED jobVars
           \/ \E j \in Job, t \in FreshToken : Claim(j, t, Locked)
           \/ \E c \in Claims : Fail(c)
           \/ MaintainBlocked(Locked)
           \/ MaintainExpired(Locked)
           \/ \E j \in Job : RetryFailed(j)
           \/ JobsTime
    PROVE  \A i \in Job : Move(i)
  <1> SUFFICES ASSUME NEW i \in Job PROVE Move(i)
    OBVIOUS
  <1> USE DEF Move, Open
  <1>0. /\ rows[i] \in Row /\ rows'[i] \in Row /\ done'[i] = done[i] /\ done[i] \in Int
        /\ \A j \in Job : rows[j] \in Row
        /\ rows \in [Job -> Row]
    BY DEF LaneInv, JobsInv, JobsTypeOK, DoneTypeOK
  <1>k. ASSUME rows'[i].status = rows[i].status
               \/ (rows'[i].status \in Open /\ rows[i].status \in Open)
        PROVE  Keeps(i)
    BY <1>0, <1>k, SameStatus DEF Keeps
  <1>1. CASE UNCHANGED jobVars
    BY <1>1, <1>k DEF jobVars
  <1>2. ASSUME NEW j \in Job, NEW t \in FreshToken, Claim(j, t, Locked) PROVE Move(i)
    <2>1. rows' = [rows EXCEPT ![j] = Leased(rows[j], t)] /\ rows[j].status \in Open
      BY <1>2 DEF Claim, Claimable
    <2>2. Leased(rows[j], t).status = "running"
      BY <1>0, <1>2, LeasedForm DEF Claim, Claimable, FreshToken
    <2> QED BY <1>0, <1>k, <2>1, <2>2
  <1>3. ASSUME NEW c \in Claims, Fail(c) PROVE Move(i)
    <2>1. CASE Owns(c) /\ i = c.job
      <3>1. rows[i].status = "running" /\ rows'[i] = Released(rows[i])
        BY <1>0, <1>3, <2>1 DEF Fail, Owns
      <3>2. Released(rows[i]).status \in {"failed", "pending"}
        BY <1>0 DEF Released, Row
      <3> QED BY <1>0, <1>k, <3>1, <3>2 DEF Abandons
    <2>2. CASE ~(Owns(c) /\ i = c.job)
      BY <1>0, <1>3, <1>k, <2>2 DEF Fail
    <2> QED BY <2>1, <2>2
  <1>4. CASE MaintainBlocked(Locked)
    <2>1. \/ rows'[i] = rows[i]
          \/ rows'[i] = UpstreamUnavailable(i) /\ rows[i].status = "pending"
      BY <1>4 DEF MaintainBlocked, BlockedRows
    <2> QED BY <1>0, <1>k, <2>1, UpstreamForm DEF Abandons
  <1>5. CASE MaintainExpired(Locked)
    <2>1. \/ rows'[i] = rows[i]
          \/ rows'[i] = Expired(rows[i]) /\ rows[i].status \in Open \cup {"failed"}
      BY <1>5 DEF MaintainExpired, ExpiredRows, AttemptsExhausted, EvidenceExpired
    <2>2. Expired(rows[i]).status = "failed"
      BY <1>0, ExpiredForm
    <2> QED BY <1>0, <1>k, <2>1, <2>2 DEF Abandons
  <1>6. ASSUME NEW j \in Job, RetryFailed(j) PROVE Move(i)
    <2>1. rows[j].status = "failed" /\ Retried(rows[j]).status = "pending"
      BY <1>0, <1>6, RetriedForm DEF RetryFailed, Retryable
    <2> QED BY <1>0, <1>6, <1>k, <2>1 DEF RetryFailed, Reopens
  <1>7. CASE JobsTime
    <2>1. rows'[i].status = rows[i].status
      BY <1>0, <1>7 DEF JobsTime, LeaseLapses, BackoffEnds, RetentionEnds, Row
    <2> QED BY <1>k, <2>1
  <1> QED BY <1>1, <1>2, <1>3, <1>4, <1>5, <1>6, <1>7

\* An insert accepts the jobs it stores and resets their effects.
LEMMA EnqueueMove ==
    ASSUME LaneInv, LaneInv', DoneTypeOK, NEW K \in SUBSET Job,
           Enqueue(K), done' = DoneAfter(K, done)
    PROVE  \A i \in Job : Move(i)
  <1> SUFFICES ASSUME NEW i \in Job PROVE Move(i)
    OBVIOUS
  <1>0. rows[i] \in Row /\ rows'[i] \in Row /\ done[i] \in Int
    BY DEF LaneInv, JobsInv, JobsTypeOK, DoneTypeOK
  <1>1. CASE i \in K /\ projectLive /\ ~Present(i)
    <2>1. rows'[i] = NewRow /\ done'[i] = 0 /\ rows[i].status = "absent"
      BY <1>1 DEF Enqueue, Inserted, DoneAfter, Present
    <2> QED BY <2>1, NewRowForm DEF Move, Accepts
  <1>2. CASE ~(i \in K /\ projectLive /\ ~Present(i))
    <2>1. rows'[i] = rows[i] /\ done'[i] = done[i]
      BY <1>2 DEF Enqueue, Inserted, DoneAfter, Present
    <2> QED BY <1>0, <2>1 DEF Move, Keeps
  <1> QED BY <1>1, <1>2

\* A completion under a claim that still owns its row, with its follow-ups.
LEMMA CompleteMove ==
    ASSUME LaneInv, LaneInv', DoneTypeOK,
           NEW c \in Claims, NEW o \in Outcome, NEW K \in SUBSET Job, Complete(c, o, K),
           done' \in [Job -> 0..2],
           \A i \in Job \ {c.job} : done'[i] = DoneAfter(K, done)[i],
           IF o = "completed" /\ c.job \in Transactional
             THEN done[c.job] = 0 /\ done'[c.job] = 1
             ELSE /\ done'[c.job] = done[c.job]
                  /\ o = "completed" => done[c.job] >= 1
    PROVE  \A i \in Job : Move(i)
  <1> SUFFICES ASSUME NEW i \in Job PROVE Move(i)
    OBVIOUS
  <1>0. /\ rows[i] \in Row /\ rows'[i] \in Row /\ done[i] \in Int
        /\ c.job \in Job /\ rows[c.job] \in Row
    BY DEF LaneInv, JobsInv, JobsTypeOK, DoneTypeOK, Claims
  <1>1. CASE i = c.job
    <2>1. rows[i].status = "running" /\ rows'[i] = Receipt(rows[i], o)
      BY <1>0, <1>1 DEF Complete, Owns, Inserted
    <2>2. rows'[i].status = o
      BY <1>0, <2>1, ReceiptForm
    <2> QED BY <1>1, <2>1, <2>2 DEF Move, Completes, Abandons, Outcome, Open
  <1>2. CASE i # c.job /\ i \in K /\ projectLive /\ ~Present(i)
    <2>1. rows'[i] = NewRow /\ done'[i] = 0 /\ rows[i].status = "absent"
      BY <1>0, <1>2 DEF Complete, Inserted, DoneAfter, Present
    <2> QED BY <2>1, NewRowForm DEF Move, Accepts
  <1>3. CASE i # c.job /\ ~(i \in K /\ projectLive /\ ~Present(i))
    <2>1. rows'[i] = rows[i] /\ done'[i] = done[i]
      BY <1>0, <1>3 DEF Complete, Inserted, DoneAfter, Present
    <2> QED BY <1>0, <2>1 DEF Move, Keeps
  <1> QED BY <1>1, <1>2, <1>3

\* Removing a receipt forgets its effects with it.
LEMMA RemovedMove ==
    ASSUME LaneInv, LaneInv', DoneTypeOK, MaintainRemoved(Locked), ForgetEffects
    PROVE  \A i \in Job : Move(i)
  <1> SUFFICES ASSUME NEW i \in Job PROVE Move(i)
    OBVIOUS
  <1>0. rows[i] \in Row /\ rows'[i] \in Row /\ done[i] \in Int
    BY DEF LaneInv, JobsInv, JobsTypeOK, DoneTypeOK
  <1>1. \/ rows'[i] = rows[i]
        \/ rows'[i] = AbsentRow /\ rows[i].status \in {"completed", "skipped", "failed"}
    BY DEF MaintainRemoved, RemovableRows
  <1>2. CASE rows'[i] = rows[i]
    BY <1>0, <1>2 DEF ForgetEffects, Present, Move, Keeps
  <1>3. CASE rows'[i] = AbsentRow /\ rows[i].status \in {"completed", "skipped", "failed"}
    <2>1. rows'[i].status = "absent" /\ done'[i] = 0
      BY <1>3 DEF AbsentRow, ForgetEffects, Present
    <2> QED BY <1>3, <2>1 DEF Move, Forgets
  <1> QED BY <1>1, <1>2, <1>3

(***************************************************************************)
(* The queue's steps                                                       *)
(***************************************************************************)

Counted == \A i \in Job : Move(i)

\* Every step moves every job as the ledger allows, or erases the project's jobs.
LEMMA LedgerMoves ==
    ASSUME LaneInv, LaneInv', ClaimInv, EffectInv, [Next]_vars
    PROVE  Counted \/ ProjectDeleted
  <1> USE DEF EffectInv, Counted, historyVars
  <1>0. /\ DoneTypeOK
        /\ \A w \in Worker : pc[w] \in Claiming =>
              /\ pending[w] \in Claims /\ pending[w].job \in Job
              /\ Follow[pending[w].job] \in SUBSET Job
              /\ Owns(pending[w]) => rows[pending[w].job].status = "running"
    BY LaneClaim DEF LaneInv, Owns
  <1>q. ASSUME UNCHANGED <<rows, projectLive, done>> PROVE Counted
    BY <1>q, QuietMove, <1>0 DEF jobVars
  <1>1. ASSUME NEW w \in Worker, Dequeue(w) PROVE Counted
    <2>1. ASSUME NEW j \in Job, DequeueJournal(w, j) PROVE Counted
      BY <2>1, <1>0, QuietMove DEF DequeueJournal, TakeClaim
    <2>2. CASE AdoptIngress(w)
      <3>1. held[w] \in Message /\ Adopts[held[w]] \subseteq Job
        BY <2>2 DEF AdoptIngress, Goto, LaneInv, LaneShape
      <3>2. PICK j \in Job : Enqueue({j}) /\ done' = DoneAfter({j}, done)
        BY <2>2, <3>1 DEF AdoptIngress, AdoptedAs
      <3> QED BY <1>0, <3>2, EnqueueMove
    <2>3. CASE ClaimAgain(w)
      <3>1. UNCHANGED done
        BY <2>3 DEF ClaimAgain
      <3>2. UNCHANGED jobVars \/ \E j \in Job, t \in FreshToken : Claim(j, t, Locked)
        BY <2>3 DEF ClaimAgain, TakeClaim
      <3> QED BY <3>1, <3>2, <1>0, QuietMove
    <2>4. ASSUME NEW j \in Job, LoseClaim(w, j) PROVE Counted
      BY <2>4, <1>0, QuietMove DEF LoseClaim
    <2> QED BY <1>1, <1>q, <2>1, <2>2, <2>3, <2>4
            DEF Dequeue, DequeueMisses, ReclaimStale, RedisClaims, RedisEmpty, AckIngress,
                DequeueThrows, jobVars
  <1>2. ASSUME NEW w \in Worker, Work(w) PROVE Counted
    <2>1. CASE CommitTransaction(w)
      <3> DEFINE j == pending[w].job
                 c == pending[w]
      <3>1. /\ pc[w] = "intx" /\ j \in Transactional /\ j \in Job /\ c \in Claims
            /\ Follow[j] \in SUBSET Job /\ Owns(c) /\ rows[j].status = "running"
        BY <2>1, <1>0 DEF CommitTransaction, Claiming, WorkIsOwned, ClaimInv, TransactionOwnsRow
      <3>2. done[j] = 0
        BY <3>1 DEF EffectMatchesReceipt
      <3>3. CASE /\ Complete(c, "completed", Follow[j])
                 /\ done' = [DoneAfter(Follow[j], done) EXCEPT ![j] = More(done[j])]
        <4>1. done'[j] = 1 /\ \A i \in Job \ {j} : done'[i] = DoneAfter(Follow[j], done)[i]
          BY <3>1, <3>2, <3>3 DEF DoneAfter, More
        <4>2. done' \in [Job -> 0..2]
          BY <3>1, <3>2, <3>3, <1>0 DEF DoneAfter, More, DoneTypeOK
        <4> QED BY <1>0, <3>1, <3>2, <3>3, <4>1, <4>2, CompleteMove DEF Outcome
      <3>4. CASE Complete(c, "skipped", {}) /\ UNCHANGED done
        <4>1. \A i \in Job : done'[i] = DoneAfter({}, done)[i]
          BY <3>4 DEF DoneAfter
        <4> QED BY <1>0, <3>1, <3>4, <4>1, CompleteMove DEF Outcome, DoneTypeOK
      <3> QED BY <2>1, <3>3, <3>4 DEF CommitTransaction
    <2>2. CASE EnqueueFollowUp(w)
      <3>1. PICK k \in Job : Enqueue({k}) /\ done' = DoneAfter({k}, done)
        BY <2>2 DEF EnqueueFollowUp, LaneInv, LaneTypeOK
      <3> QED BY <1>0, <3>1, EnqueueMove
    <2>3. CASE DoWork(w)
      <3>1. /\ pending[w].job \in Job \ Transactional /\ UNCHANGED jobVars
            /\ done' = [done EXCEPT ![pending[w].job] = More(@)]
        BY <2>3, <1>0 DEF DoWork, Goto, Claiming
      <3>2. \A i \in Job : /\ rows'[i] = rows[i]
                           /\ IF i \in Transactional THEN done'[i] = done[i] ELSE done'[i] >= done[i]
        BY <3>1, <1>0 DEF DoneTypeOK, More, jobVars
      <3> QED BY <3>2 DEF Move, Keeps
    <2>4. ASSUME NEW o \in Outcome, Acknowledge(w, o), pc[w] \in {"claimed", "worked"},
                 o = "completed" => pc[w] = "worked"
          PROVE  Counted
      <3>1. CASE Complete(pending[w], o, {}) /\ UNCHANGED done
        <4>1. /\ pending[w] \in Claims /\ Owns(pending[w])
              /\ o = "completed" => /\ pending[w].job \notin Transactional
                                    /\ done[pending[w].job] >= 1
          BY <1>0, <2>4, <3>1 DEF Complete, WorkIsOwned, Claiming
        <4>2. \A i \in Job : done'[i] = DoneAfter({}, done)[i]
          BY <3>1 DEF DoneAfter
        <4> QED BY <1>0, <3>1, <4>1, <4>2, CompleteMove DEF DoneTypeOK
      <3> QED BY <2>4, <3>1, <1>q DEF Acknowledge, jobVars
    <2>5. CASE AckCompleted(w) \/ AckSkipped(w)
      BY <2>4, <2>5 DEF AckCompleted, AckSkipped, Outcome
    <2>6. CASE FailClaim(w)
      BY <2>6, <1>0, QuietMove DEF FailClaim, Claiming
    <2> QED BY <1>2, <1>q, <2>1, <2>2, <2>3, <2>5, <2>6
            DEF Work, BeginTransaction, StepThrows, FinishStep, jobVars
  <1>3. ASSUME NEW w \in Worker, Heartbeat(w) PROVE Counted
    BY <1>3, <1>q DEF Heartbeat, SendRenewal, RenewalReturns, Renew, jobVars
  <1>4. ASSUME NEW w \in Worker, Maintain(w) PROVE Counted
    <2>1. CASE SweepBlocked(w) \/ SweepExpired(w)
      BY <2>1, <1>0, QuietMove DEF SweepBlocked, SweepExpired
    <2>2. CASE SweepRemoved(w)
      BY <2>2, <1>0, RemovedMove DEF SweepRemoved
    <2>3. CASE MaintainThrows(w)
      BY <2>3, <1>q DEF MaintainThrows, jobVars
    <2> QED BY <1>4, <2>1, <2>2, <2>3 DEF Maintain
  <1>5. ASSUME NEW w \in Worker, Crash(w) PROVE Counted
    BY <1>5, <1>q DEF Crash, jobVars
  <1>6. ASSUME NEW m \in Message, Produce(m) \/ ClaimAges(m) PROVE Counted
    BY <1>6, <1>q DEF Produce, ClaimAges, jobVars
  <1>7. ASSUME NEW j \in Job, Operator(j) PROVE Counted
    BY <1>7, <1>0, QuietMove DEF Operator
  <1>8. CASE Time
    BY <1>8, <1>0, QuietMove DEF Time
  <1>9. CASE UNCHANGED vars
    BY <1>9, <1>q DEF vars
  <1> QED BY <1>1, <1>2, <1>3, <1>4, <1>5, <1>6, <1>7, <1>8, <1>9 DEF Next

(***************************************************************************)
(* Effects and receipts                                                    *)
(***************************************************************************)

\* The ledger's moves keep effects and receipts together.
LEMMA EffectsKept ==
    ASSUME EffectMatchesReceipt, LaneInv, LaneInv', DoneTypeOK, DoneTypeOK', Counted
    PROVE  EffectMatchesReceipt'
  <1> SUFFICES ASSUME NEW j \in Job
               PROVE  /\ j \in Transactional =>
                            done'[j] = IF rows'[j].status = "completed" THEN 1 ELSE 0
                      /\ rows'[j].status = "completed" => done'[j] >= 1
    BY DEF EffectMatchesReceipt
  <1>1. /\ rows[j] \in Row /\ rows'[j] \in Row /\ done[j] \in Int /\ done'[j] \in Int
        /\ j \in Transactional => done[j] = IF rows[j].status = "completed" THEN 1 ELSE 0
        /\ rows[j].status = "completed" => done[j] >= 1
    BY DEF LaneInv, JobsInv, JobsTypeOK, DoneTypeOK, EffectMatchesReceipt
  <1>2. CASE Keeps(j)
    <2>1. rows'[j].status = "completed" <=> rows[j].status = "completed"
      BY <1>1, <1>2, PhaseForm DEF Keeps
    <2>2. CASE j \in Transactional
      BY <1>1, <1>2, <2>1, <2>2 DEF Keeps
    <2>3. CASE j \notin Transactional /\ rows'[j].status # "completed"
      BY <2>3
    <2>4. CASE j \notin Transactional /\ rows'[j].status = "completed"
      BY <1>1, <1>2, <2>1, <2>4 DEF Keeps
    <2> QED BY <2>2, <2>3, <2>4
  <1>3. CASE ~Keeps(j)
    BY <1>1, <1>3 DEF Counted, Move, Accepts, Completes, Abandons, Reopens, Forgets, Open
  <1> QED BY <1>2, <1>3

\* What a step does to the count, and how a lane comes to have worked.
LEMMA WorkMoves ==
    ASSUME LaneInv, DoneTypeOK, [Next]_vars
    PROVE  /\ DoneTypeOK'
           /\ \A w \in Worker : pc'[w] = "intx" =>
                 /\ pending'[w] = pending[w]
                 /\ pc[w] = "intx" \/ pending[w].job \in Transactional
           /\ \A w \in Worker : pc'[w] = "worked" =>
                 /\ pending'[w] = pending[w]
                 /\ \/ pc[w] = "worked"
                    \/ /\ pending[w].job \in Job \ Transactional
                       /\ done'[pending[w].job] >= 1
  <1> DEFINE Shown == /\ DoneTypeOK'
                      /\ \A w \in Worker : pc'[w] = "intx" =>
                            /\ pending'[w] = pending[w]
                            /\ pc[w] = "intx" \/ pending[w].job \in Transactional
                      /\ \A w \in Worker : pc'[w] = "worked" =>
                            /\ pending'[w] = pending[w]
                            /\ \/ pc[w] = "worked"
                               \/ /\ pending[w].job \in Job \ Transactional
                                  /\ done'[pending[w].job] >= 1
  <1> USE DEF LaneTypeOK, DoneTypeOK, laneVars, historyVars, Goto
  <1>0. LaneTypeOK /\ \A K : DoneAfter(K, done) \in [Job -> 0..2]
    BY DEF LaneInv, DoneAfter
  <1>1. ASSUME NEW w \in Worker, Dequeue(w) PROVE Shown
    <2>1. CASE AdoptIngress(w)
      BY <1>0, <2>1 DEF AdoptIngress
    <2>2. CASE ClaimAgain(w)
      BY <1>0, <2>2 DEF ClaimAgain, TakeClaim
    <2>3. ASSUME NEW j \in Job, DequeueJournal(w, j) PROVE Shown
      BY <1>0, <2>3 DEF DequeueJournal, TakeClaim
    <2>4. ASSUME NEW j \in Job, LoseClaim(w, j) PROVE Shown
      BY <1>0, <2>4 DEF LoseClaim
    <2> QED BY <1>0, <1>1, <2>1, <2>2, <2>3, <2>4
            DEF Dequeue, DequeueMisses, ReclaimStale, RedisClaims, RedisEmpty, AckIngress,
                DequeueThrows
  <1>2. ASSUME NEW w \in Worker, Work(w) PROVE Shown
    <2>1. CASE CommitTransaction(w)
      <3>1. DoneTypeOK'
        BY <1>0, <2>1, LaneClaim DEF CommitTransaction, More
      <3> QED BY <1>0, <2>1, <3>1 DEF CommitTransaction
    <2>2. CASE DoWork(w)
      <3>1. pending[w].job \in Job \ Transactional
        BY <2>2, LaneClaim DEF DoWork, LaneInv, Claiming
      <3>2. DoneTypeOK' /\ done'[pending[w].job] >= 1
        BY <2>2, <3>1 DEF DoWork, More
      <3> QED BY <1>0, <2>2, <3>1, <3>2 DEF DoWork
    <2>3. CASE EnqueueFollowUp(w)
      BY <1>0, <2>3 DEF EnqueueFollowUp
    <2>4. CASE AckCompleted(w) \/ AckSkipped(w)
      BY <1>0, <2>4 DEF AckCompleted, AckSkipped, Acknowledge
    <2>5. CASE FailClaim(w) \/ FinishStep(w)
      BY <1>0, <2>5 DEF FailClaim, FinishStep, ClearClaim
    <2>6. CASE BeginTransaction(w) \/ StepThrows(w)
      BY <1>0, <2>6 DEF BeginTransaction, StepThrows
    <2> QED BY <1>2, <2>1, <2>2, <2>3, <2>4, <2>5, <2>6 DEF Work
  <1>3. ASSUME NEW w \in Worker, Heartbeat(w) \/ Maintain(w) \/ Crash(w) PROVE Shown
    BY <1>0, <1>3 DEF Heartbeat, SendRenewal, RenewalReturns, Maintain, SweepBlocked,
            SweepExpired, SweepRemoved, MaintainThrows, ForgetEffects, Crash
  <1>4. CASE UNCHANGED laneVars /\ done' \in [Job -> 0..2]
    BY <1>4
  <1>5. \/ \E w \in Worker : Dequeue(w) \/ Work(w) \/ Heartbeat(w) \/ Maintain(w) \/ Crash(w)
        \/ UNCHANGED laneVars /\ done' \in [Job -> 0..2]
    BY DEF Next, Produce, ClaimAges, Operator, ProjectDeleted, Time, vars
  <1> QED BY <1>1, <1>2, <1>3, <1>4, <1>5

LEMMA EffectStep ==
    ASSUME LaneInv, LaneInv', ClaimInv, EffectInv, [Next]_vars
    PROVE  EffectInv'
  <1> USE DEF EffectInv
  <1>1. DoneTypeOK'
    BY WorkMoves
  <1>2. CASE ProjectDeleted
    <2>1. /\ \A j \in Job : rows'[j].status = "absent" /\ done'[j] = 0
          /\ UNCHANGED <<pc, pending>>
      BY <1>2 DEF ProjectDeleted, DeleteProject, AbsentRow, laneVars
    <2>2. EffectMatchesReceipt'
      BY <2>1 DEF EffectMatchesReceipt
    <2>3. WorkIsOwned'
      <3>1. \A w \in Worker : pc[w] = "worked" => pending[w].job \in Job
        BY LaneClaim DEF LaneInv, Claiming
      <3> QED BY <2>1, <3>1 DEF WorkIsOwned, Owns
    <2> QED BY <1>1, <2>2, <2>3
  <1>3. CASE Counted
    <2>1. EffectMatchesReceipt'
      BY <1>1, <1>3, EffectsKept
    <2>2. WorkIsOwned'
      <3> SUFFICES ASSUME NEW w \in Worker
                   PROVE  /\ pc'[w] = "intx" => pending'[w].job \in Transactional
                          /\ pc'[w] = "worked" =>
                                /\ pending'[w].job \notin Transactional
                                /\ Owns(pending[w])' => done'[pending'[w].job] >= 1
        BY DEF WorkIsOwned
      <3>1. pc'[w] = "intx" => pending'[w].job \in Transactional
        BY WorkMoves DEF WorkIsOwned
      <3>2. ASSUME pc'[w] = "worked"
            PROVE  /\ pending'[w].job \notin Transactional
                   /\ Owns(pending[w])' => done'[pending'[w].job] >= 1
        <4>1. /\ pending'[w] = pending[w]
              /\ \/ pc[w] = "worked"
                 \/ /\ pending[w].job \in Job \ Transactional
                    /\ done'[pending[w].job] >= 1
          BY <3>2, WorkMoves
        <4>2. CASE pc[w] = "worked"
          <5>1. PICK c \in Claims : c = pending[w] /\ c.token \notin FreshToken
            BY <4>2, LaneClaim DEF LaneInv, Claiming, FreshToken
          <5>2. c.job \in Job /\ c.job \notin Transactional
            BY <4>2, <5>1 DEF WorkIsOwned, Claims
          <5>3. ASSUME Owns(c)' PROVE done'[c.job] >= 1
            <6>1. Owns(c)
              BY <5>1, <5>3, NoRegain
            <6>2. done[c.job] >= 1 /\ done[c.job] \in Int /\ done'[c.job] \in Int
              BY <1>1, <4>2, <5>1, <5>2, <6>1 DEF WorkIsOwned, DoneTypeOK
            <6>3. Keeps(c.job)
              BY <1>3, <5>2, <5>3, <6>1 DEF Counted, Move, Accepts, Completes, Abandons,
                    Reopens, Forgets, Open, Owns
            <6> QED BY <5>2, <6>2, <6>3 DEF Keeps
          <5> QED BY <4>1, <5>1, <5>2, <5>3 DEF Owns
        <4> QED BY <4>1, <4>2
      <3> QED BY <3>1, <3>2
    <2> QED BY <1>1, <2>1, <2>2
  <1> QED BY <1>2, <1>3, LedgerMoves

LEMMA EffectInit == Init => EffectInv
  BY DEF Init, JobsInit, EffectInv, DoneTypeOK, EffectMatchesReceipt, WorkIsOwned, AbsentRow

\* Effects and receipts agree, and a lane's work is its own while it owns the row.
THEOREM EffectsStayMatched == Spec => []EffectInv
  <1>1. LaneInv /\ LaneInv' /\ ClaimInv /\ EffectInv /\ [Next]_vars => EffectInv'
    BY EffectStep
  <1> QED BY EffectInit, <1>1, LanesKeepShape, ClaimsStayFenced, PTL DEF Spec

\* A transactional stage takes effect exactly once for a row, exactly when the row is
\* completed; other work took effect before its row was completed.
THEOREM EffectsMatchReceipts == Spec => []EffectMatchesReceipt
  <1>1. EffectInv => EffectMatchesReceipt
    BY DEF EffectInv
  <1> QED BY <1>1, EffectsStayMatched, PTL

(***************************************************************************)
(* The refinement                                                          *)
(***************************************************************************)

LEMMA LedgerInit == Init => Ledger!Init
  <1> SUFFICES ASSUME Init PROVE Ledger!Init
    OBVIOUS
  <1>1. \A j \in Job : rows[j] = AbsentRow /\ PhaseOf(AbsentRow) = "none"
    BY DEF Init, JobsInit, AbsentRow, PhaseOf
  <1> QED BY <1>1 DEF Init, Ledger!Init

\* A step moves the ledger, or leaves it alone.
LEMMA LedgerStep ==
    ASSUME LaneInv, LaneInv', ClaimInv, EffectInv, [Next]_vars
    PROVE  Ledger!Next
  <1>0. \A j \in Job : rows[j] \in Row /\ rows'[j] \in Row
    BY DEF LaneInv, JobsInv, JobsTypeOK
  <1>1. CASE ProjectDeleted
    <2>1. \A j \in Job : PhaseOf(rows'[j]) = "none"
      BY <1>1 DEF ProjectDeleted, DeleteProject, AbsentRow, PhaseOf
    <2>2. done' = [j \in Job |-> 0]
      BY <1>1 DEF ProjectDeleted
    <2> QED BY <2>1, <2>2 DEF Ledger!Next, Ledger!Erase
  <1>2. CASE Counted
    <2>1. [j \in Job |-> PhaseOf(rows'[j])] \in [Job -> Ledger!Phase]
      <3>1. ASSUME NEW j \in Job PROVE PhaseOf(rows'[j]) \in Ledger!Phase
        BY <1>0, PhaseForm DEF Row, Status, Open, Ledger!Phase
      <3> QED BY <3>1
    <2>2. ASSUME NEW j \in Job
          PROVE  \/ Ledger!Stay(j) \/ Ledger!Accept(j) \/ Ledger!Complete(j)
                 \/ Ledger!Abandon(j) \/ Ledger!Reopen(j) \/ Ledger!Forget(j)
      <3>1. CASE Keeps(j)
        BY <3>1 DEF Keeps, Ledger!Stay
      <3>2. CASE Accepts(j)
        BY <1>0, <3>2, PhaseForm DEF Accepts, Open, Ledger!Accept, Ledger!Moves
      <3>3. CASE Completes(j)
        <4>1. ParentOf[j] # NoJob => /\ ParentOf[j] \in Job
                                     /\ rows[ParentOf[j]].status = "completed"
          BY <3>3, ParentAssumption
             DEF Completes, LaneInv, JobsInv, ChildRestsOnCompletedParent
        <4>2. ParentOf[j] # NoJob => PhaseOf(rows[ParentOf[j]]) = "completed"
          BY <1>0, <4>1, PhaseForm
        <4>3. PhaseOf(rows[j]) = "open" /\ PhaseOf(rows'[j]) = "completed"
          BY <1>0, <3>3, PhaseForm DEF Completes, Open
        <4> QED BY <3>3, <4>1, <4>2, <4>3 DEF Completes, Ledger!Complete, Ledger!Moves
      <3>4. CASE Abandons(j)
        BY <1>0, <3>4, PhaseForm DEF Abandons, Ledger!Abandon, Ledger!Moves
      <3>5. CASE Reopens(j)
        BY <1>0, <3>5, PhaseForm DEF Reopens, Open, Ledger!Reopen, Ledger!Moves
      <3>6. CASE Forgets(j)
        BY <1>0, <3>6, PhaseForm DEF Forgets, Ledger!Forget, Ledger!Moves
      <3> QED BY <1>2, <3>1, <3>2, <3>3, <3>4, <3>5, <3>6 DEF Counted, Move
    <2> QED BY <2>1, <2>2 DEF Ledger!Next, Ledger!Step
  <1> QED BY <1>1, <1>2, LedgerMoves

\* The queue implements the ledger.
THEOREM QueueImplementsLedger == Spec => ImplementsLedger
  <1>1. LaneInv /\ LaneInv' /\ ClaimInv /\ EffectInv /\ [Next]_vars => Ledger!Next
    BY LedgerStep
  <1> QED BY LedgerInit, <1>1, LanesKeepShape, ClaimsStayFenced, EffectsStayMatched, PTL
          DEF Spec, ImplementsLedger, Ledger!Spec

(***************************************************************************)
(* Follow-ups                                                              *)
(***************************************************************************)

\* The retention of a receipt is days and a step minutes: a sweep removes no row while
\* a lane is between its work and its acknowledgement.
SweepsBetweenSteps == \A v, w \in Worker : SweepRemoved(v) => pc[w] # "worked"

\* A single lane keeps to this by itself: it sweeps only when it has no claim.
OneLane == \A v, w \in Worker : v = w

\* What a lane has worked for and still owns has the follow-ups it no longer lists.
FollowUpsStored ==
    \A w \in Worker : pc[w] = "worked" /\ Owns(pending[w])
                        => \A k \in Follow[pending[w].job] \ todo[w] : Present(k)

\* A deleted project has no rows.
NoRowsLeft == projectLive \/ \A j \in Job : ~Present(j)

FollowInv == FollowUpsStored /\ NoRowsLeft

\* A row leaves the table only by a sweep or with its project.
LEMMA RowsStay ==
    ASSUME LaneInv, [Next]_vars, projectLive', \A w \in Worker : ~SweepRemoved(w),
           NEW k \in Job, Present(k)
    PROVE  Present(k)'
  <1> USE DEF Present
  <1>0. rows \in [Job -> Row] /\ \A j \in Job : rows[j] \in Row
    BY DEF LaneInv, JobsInv, JobsTypeOK
  <1>1. CASE UNCHANGED jobVars
    BY <1>1 DEF jobVars
  <1>2. ASSUME NEW K \in SUBSET Job, Enqueue(K) PROVE Present(k)'
    BY <1>2, NewRowForm DEF Enqueue, Inserted
  <1>3. ASSUME NEW j \in Job, NEW t \in FreshToken, Claim(j, t, Locked) PROVE Present(k)'
    <2>1. rows' = [rows EXCEPT ![j] = Leased(rows[j], t)] /\ Leased(rows[j], t).status = "running"
      BY <1>0, <1>3, LeasedForm DEF Claim, Claimable, FreshToken
    <2> QED BY <1>0, <2>1
  <1>4. ASSUME NEW d \in Claims, Fail(d) PROVE Present(k)'
    <2>1. d.job \in Job /\ Released(rows[d.job]).status \in {"failed", "pending"}
      BY <1>0, ReleasedForm DEF Claims
    <2> QED BY <1>0, <1>4, <2>1 DEF Fail
  <1>5. ASSUME NEW d \in Claims, NEW o \in Outcome, NEW K \in SUBSET Job, Complete(d, o, K)
        PROVE Present(k)'
    <2>1. d.job \in Job /\ Receipt(rows[d.job], o).status = o
      BY <1>0, ReceiptForm DEF Claims
    <2> QED BY <1>0, <1>5, <2>1, NewRowForm DEF Complete, Inserted, Outcome
  <1>6. CASE MaintainBlocked(Locked)
    <2>1. \A j \in Job : UpstreamUnavailable(j).status \in {"skipped", "failed"}
      BY <1>0, UpstreamForm
    <2> QED BY <1>0, <1>6, <2>1 DEF MaintainBlocked
  <1>7. CASE MaintainExpired(Locked)
    BY <1>0, <1>7, ExpiredForm DEF MaintainExpired
  <1>8. CASE DeleteProject(Locked)
    BY <1>8 DEF DeleteProject
  <1>9. ASSUME NEW j \in Job, RetryFailed(j) PROVE Present(k)'
    BY <1>0, <1>9, RetriedForm DEF RetryFailed
  <1>10. CASE JobsTime
    <2>1. PICK j \in Job : LeaseLapses(j) \/ BackoffEnds(j) \/ RetentionEnds(j)
      BY <1>10 DEF JobsTime
    <2>2. \/ rows' = [rows EXCEPT ![j].live = FALSE]
          \/ rows' = [rows EXCEPT ![j].due = TRUE]
          \/ rows' = [rows EXCEPT ![j].stale = TRUE]
      BY <2>1 DEF LeaseLapses, BackoffEnds, RetentionEnds
    <2>3. rows'[k].status = rows[k].status
      BY <1>0, <2>2 DEF Row
    <2> QED BY <2>3
  <1>11. \A w \in Worker : pc[w] \in Claiming => pending[w] \in Claims
    BY LaneClaim DEF LaneInv
  <1> QED BY StatementStep, <1>1, <1>2, <1>3, <1>4, <1>5, <1>6, <1>7, <1>8, <1>9, <1>10, <1>11
          DEF Statement

\* Only the deletion ends a project, and nothing is stored for it afterwards.
LEMMA ErasedStep ==
    ASSUME LaneInv, NoRowsLeft, [Next]_vars
    PROVE  NoRowsLeft'
  <1>1. CASE projectLive'
    BY <1>1 DEF NoRowsLeft
  <1>2. CASE DeleteProject(Locked)
    BY <1>2 DEF DeleteProject, NoRowsLeft, Present, AbsentRow
  <1>3. CASE ~projectLive /\ ~DeleteProject(Locked)
    <2>1. \A j \in Job : rows[j].status = "absent" /\ ~rows[j].live
      BY <1>3 DEF NoRowsLeft, Present, LaneInv, JobsInv, OpenWorkIsRunnable
    <2>2. /\ \A w \in Worker : pc[w] \in Claiming =>
                /\ ~ \E o \in Outcome, K \in SUBSET Job : Complete(pending[w], o, K)
                /\ Fail(pending[w]) => rows' = rows
      BY <2>1, LaneClaim DEF Complete, Fail, Owns, LaneInv
    <2>3. \A j \in Job : /\ ~RetryFailed(j) /\ \A t \in FreshToken : ~Claim(j, t, Locked)
                         /\ ~LeaseLapses(j) /\ ~BackoffEnds(j) /\ ~RetentionEnds(j)
      BY <2>1 DEF RetryFailed, Retryable, Claim, Claimable, LeaseLapses, BackoffEnds,
                  RetentionEnds, Present
    <2>4. MaintainBlocked(Locked) \/ MaintainExpired(Locked) => \A j \in Job : rows'[j] = rows[j]
      BY <2>1 DEF MaintainBlocked, MaintainExpired, BlockedRows, ExpiredRows,
                  AttemptsExhausted, EvidenceExpired
    <2>5. MaintainRemoved(Locked) => \A j \in Job : rows'[j].status = "absent"
      BY <2>1 DEF MaintainRemoved, AbsentRow
    <2>6. ASSUME NEW K \in SUBSET Job, Enqueue(K) PROVE \A j \in Job : rows'[j] = rows[j]
      BY <1>3, <2>6 DEF Enqueue, Inserted
    <2>7. \A j \in Job : rows'[j].status = "absent"
      BY <1>3, <2>1, <2>2, <2>3, <2>4, <2>5, <2>6, StatementStep
         DEF Statement, jobVars, JobsTime
    <2> QED BY <2>7 DEF NoRowsLeft, Present
  <1>4. projectLive' = projectLive \/ DeleteProject(Locked)
    BY StatementStep DEF Statement, jobVars, Enqueue, Claim, Fail, Complete,
       MaintainBlocked, MaintainExpired, MaintainRemoved, RetryFailed,
       JobsTime, LeaseLapses, BackoffEnds, RetentionEnds
  <1> QED BY <1>1, <1>2, <1>3, <1>4

\* A lane that has worked lists all its follow-ups, those it listed before, or one
\* less, which it has just enqueued.
LEMMA TodoMoves ==
    ASSUME LaneInv, [Next]_vars, NEW w \in Worker, pc'[w] = "worked"
    PROVE  /\ pending'[w] = pending[w]
           /\ \/ todo'[w] = Follow[pending[w].job]
              \/ pc[w] = "worked" /\ todo'[w] = todo[w]
              \/ /\ pc[w] = "worked"
                 /\ \E k \in todo[w] : Enqueue({k}) /\ todo'[w] = todo[w] \ {k}
  <1> DEFINE Shown == /\ pending'[w] = pending[w]
                      /\ \/ todo'[w] = Follow[pending[w].job]
                         \/ pc[w] = "worked" /\ todo'[w] = todo[w]
                         \/ /\ pc[w] = "worked"
                            /\ \E k \in todo[w] : Enqueue({k}) /\ todo'[w] = todo[w] \ {k}
  <1>0. LaneTypeOK
    BY DEF LaneInv
  <1>1. ASSUME NEW v \in Worker, Dequeue(v) PROVE Shown
    <2>1. ASSUME NEW j \in Job, DequeueJournal(v, j) PROVE Shown
      BY <1>0, <2>1 DEF DequeueJournal, TakeClaim, LaneTypeOK
    <2>2. CASE ClaimAgain(v)
      BY <1>0, <2>2 DEF ClaimAgain, TakeClaim, LaneTypeOK
    <2>3. ASSUME NEW j \in Job, LoseClaim(v, j) PROVE Shown
      BY <1>0, <2>3 DEF LoseClaim, LaneTypeOK
    <2> QED BY <1>0, <1>1, <2>1, <2>2, <2>3
            DEF Dequeue, DequeueMisses, ReclaimStale, RedisClaims, RedisEmpty, AdoptIngress,
                AckIngress, DequeueThrows, Goto, LaneTypeOK
  <1>2. ASSUME NEW v \in Worker, Work(v) PROVE Shown
    <2>1. CASE EnqueueFollowUp(v)
      BY <1>0, <2>1 DEF EnqueueFollowUp, LaneTypeOK
    <2>2. CASE DoWork(v)
      BY <1>0, <2>2 DEF DoWork, Goto, LaneTypeOK
    <2> QED BY <1>0, <1>2, <2>1, <2>2
            DEF Work, BeginTransaction, CommitTransaction, AckCompleted, AckSkipped,
                Acknowledge, StepThrows, FailClaim, FinishStep, ClearClaim, LaneTypeOK
  <1>3. ASSUME NEW v \in Worker, Heartbeat(v) \/ Maintain(v) \/ Crash(v) PROVE Shown
    BY <1>0, <1>3 DEF Heartbeat, SendRenewal, RenewalReturns, Maintain, SweepBlocked,
            SweepExpired, SweepRemoved, MaintainThrows, Crash, Goto, laneVars, LaneTypeOK
  <1>4. CASE UNCHANGED laneVars
    BY <1>4 DEF laneVars
  <1> QED BY <1>1, <1>2, <1>3, <1>4
          DEF Next, Produce, ClaimAges, Operator, ProjectDeleted, Time, vars, laneVars

LEMMA FollowStep ==
    ASSUME LaneInv, LaneInv', FollowInv, [Next]_vars, [SweepsBetweenSteps]_vars
    PROVE  FollowInv'
  <1>1. NoRowsLeft'
    BY ErasedStep DEF FollowInv
  <1>2. ASSUME NEW w \in Worker, pc'[w] = "worked", Owns(pending[w])',
               NEW k \in Follow[pending'[w].job] \ todo'[w]
        PROVE  Present(k)'
    <2>1. PICK c \in Claims : c = pending[w] /\ pending'[w] = c /\ c.token \notin FreshToken
      BY <1>2, TodoMoves DEF LaneInv, LaneShape, LaneTypeOK, Claiming, FreshToken
    <2>2. c.job \in Job /\ k \in Job /\ Owns(c)
      BY <1>2, <2>1, NoRegain DEF Claims, Owns
    <2>3. projectLive /\ projectLive'
      BY <1>1, <1>2, <2>1, <2>2 DEF FollowInv, NoRowsLeft, Owns, Present
    <2>4. ASSUME k \notin todo[w], pc[w] = "worked" PROVE Present(k)'
      <3>1. Present(k)
        BY <1>2, <2>1, <2>2, <2>4 DEF FollowInv, FollowUpsStored
      <3>2. CASE UNCHANGED vars
        BY <3>1, <3>2 DEF vars, Present
      <3>3. CASE SweepsBetweenSteps
        BY <2>2, <2>3, <2>4, <3>1, <3>3, RowsStay DEF SweepsBetweenSteps
      <3> QED BY <3>2, <3>3
    <2>5. ASSUME NEW i \in todo[w], Enqueue({i}), k = i PROVE Present(k)'
      BY <2>2, <2>3, <2>5, NewRowForm DEF Enqueue, Inserted, Present
    <2> QED BY <1>2, <2>1, <2>4, <2>5, TodoMoves
  <1> QED BY <1>1, <1>2 DEF FollowInv, FollowUpsStored

\* A row is completed by a lane whose follow-ups are all in the table.
LEMMA CompletionStep ==
    ASSUME LaneInv, LaneInv', FollowInv, [Next]_vars, NEW j \in Job,
           rows[j].status # "completed", rows'[j].status = "completed",
           NEW k \in Follow[j]
    PROVE  rows'[k].status # "absent"
  <1>0. /\ rows \in [Job -> Row] /\ \A i \in Job : rows[i] \in Row
        /\ k \in Job
    BY DEF LaneInv, JobsInv, JobsTypeOK
  <1>1. ~UNCHANGED jobVars
    BY DEF jobVars
  <1>2. ASSUME NEW K \in SUBSET Job, Enqueue(K) PROVE FALSE
    BY <1>2, NewRowForm DEF Enqueue, Inserted
  <1>3. ASSUME NEW i \in Job, NEW t \in FreshToken, Claim(i, t, Locked) PROVE FALSE
    <2>1. rows' = [rows EXCEPT ![i] = Leased(rows[i], t)] /\ Leased(rows[i], t).status = "running"
      BY <1>0, <1>3, LeasedForm DEF Claim, Claimable, FreshToken
    <2> QED BY <1>0, <2>1
  <1>4. ASSUME NEW d \in Claims, Fail(d) PROVE FALSE
    <2>1. d.job \in Job /\ Released(rows[d.job]).status \in {"failed", "pending"}
      BY <1>0, ReleasedForm DEF Claims
    <2> QED BY <1>0, <1>4, <2>1 DEF Fail
  <1>5. ASSUME NEW w \in Worker, pc[w] \in Claiming, NEW o \in Outcome, NEW K \in SUBSET Job,
               Complete(pending[w], o, K), o = "completed" => Finished(w, K)
        PROVE  rows'[k].status # "absent"
    <2>1. PICK c \in Claims : c = pending[w]
      BY <1>5, LaneClaim DEF LaneInv
    <2>2. c.job \in Job /\ Receipt(rows[c.job], o).status = o /\ Owns(c)
      BY <1>0, <1>5, <2>1, ReceiptForm DEF Claims, Complete
    <2>3. c.job = j /\ o = "completed"
      BY <1>0, <1>5, <2>1, <2>2, NewRowForm DEF Complete, Inserted
    <2>4. projectLive
      BY <2>2 DEF FollowInv, NoRowsLeft, Owns, Present
    <2>5. CASE K = Follow[j]
      BY <1>0, <1>5, <2>1, <2>2, <2>3, <2>4, <2>5, NewRowForm DEF Complete, Inserted
    <2>6. CASE pc[w] = "worked" /\ todo[w] = {}
      <3>1. rows[k].status # "absent"
        BY <2>1, <2>2, <2>3, <2>6 DEF FollowInv, FollowUpsStored, Present
      <3> QED BY <1>0, <1>5, <2>1, <2>2, <2>3, <3>1, NewRowForm DEF Complete, Inserted
    <2> QED BY <1>5, <2>1, <2>3, <2>5, <2>6 DEF Finished
  <1>6. CASE MaintainBlocked(Locked)
    <2>1. \A i \in Job : UpstreamUnavailable(i).status \in {"skipped", "failed"}
      BY <1>0, UpstreamForm
    <2> QED BY <1>0, <1>6, <2>1 DEF MaintainBlocked
  <1>7. CASE MaintainExpired(Locked)
    BY <1>0, <1>7, ExpiredForm DEF MaintainExpired
  <1>8. CASE DeleteProject(Locked) \/ MaintainRemoved(Locked)
    BY <1>0, <1>8 DEF DeleteProject, MaintainRemoved, AbsentRow
  <1>9. ASSUME NEW i \in Job, RetryFailed(i) PROVE FALSE
    BY <1>0, <1>9, RetriedForm DEF RetryFailed
  <1>10. CASE JobsTime
    BY <1>0, <1>10 DEF JobsTime, LeaseLapses, BackoffEnds, RetentionEnds, Row
  <1>11. \A w \in Worker : pc[w] \in Claiming => pending[w] \in Claims
    BY LaneClaim DEF LaneInv
  <1> QED BY StatementStep, <1>1, <1>2, <1>3, <1>4, <1>5, <1>6, <1>7, <1>8, <1>9, <1>10, <1>11
          DEF Statement

LEMMA FollowInit == Init => FollowInv
  BY DEF Init, JobsInit, FollowInv, FollowUpsStored, NoRowsLeft, AbsentRow

\* With any number of lanes, crashes and lost answers, and as long as sweeps keep off
\* the work of others, a job is completed only when its follow-ups are in the table.
THEOREM FollowUpsComeFirst ==
    Spec /\ [][SweepsBetweenSteps]_vars => FollowUpsBeforeReceipt
  <1>1. LaneInv /\ LaneInv' /\ FollowInv /\ [Next]_vars /\ [SweepsBetweenSteps]_vars
            => FollowInv'
    BY FollowStep
  <1>2. LaneInv /\ LaneInv' /\ FollowInv /\ [Next]_vars =>
            [\A j \in Job : rows[j].status # "completed" /\ rows'[j].status = "completed"
                => \A k \in Follow[j] : rows'[k].status # "absent"]_vars
    BY CompletionStep
  <1> QED BY FollowInit, <1>1, <1>2, LanesKeepShape, PTL DEF Spec, FollowUpsBeforeReceipt

\* One lane by itself needs no such assumption.
THEOREM OneLaneEnqueuesFirst == ASSUME OneLane PROVE Spec => FollowUpsBeforeReceipt
  <1>1. [Next]_vars => [SweepsBetweenSteps]_vars
    BY DEF OneLane, SweepsBetweenSteps, SweepRemoved, Goto
  <1>2. Spec => [][SweepsBetweenSteps]_vars
    BY <1>1, PTL DEF Spec
  <1> QED BY <1>2, FollowUpsComeFirst, PTL
===============================================================================
