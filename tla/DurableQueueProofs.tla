-------------------------- MODULE DurableQueueProofs --------------------------
(***************************************************************************)
(* Invariants of the queue for every set of lanes, jobs, payloads and      *)
(* tokens and every bound.                                                 *)
(*                                                                         *)
(* The argument has two layers.                                            *)
(*   1. LaneInv: a lane's memory fits what it awaits.  With it every step  *)
(*      of the queue is a step of the journal's most general client, so    *)
(*      all that WorkerJobsProofs shows of the journal holds here.         *)
(*   2. ClaimInv: no two lanes hold one token, and an open transaction     *)
(*      still owns its row, which the row lock keeps from everyone else.   *)
(* LedgerProofs and IngressProofs build on these two.                      *)
(***************************************************************************)
EXTENDS DurableQueue, WorkerJobsProofs

LaneTypeOK ==
    /\ pc \in [Worker -> PC]
    /\ name \in [Worker -> Name \cup {NoName}]
    /\ held \in [Worker -> Message \cup {NoMessage}]
    /\ pending \in [Worker -> Claims \cup {NoClaim}]
    /\ todo \in [Worker -> SUBSET Job]

BeatTypeOK ==
    /\ beat \in [Worker -> Claims \cup {NoClaim}]
    /\ leaseError \in [Worker -> Claims \cup {NoClaim}]

RedisTypeOK ==
    /\ ingress \in [Message -> [at : {"none", "list", "taken", "aged"},
                                by : Worker \cup {NoWorker}]]
    /\ journaled \in [Message -> BOOLEAN]

DoneTypeOK == done \in [Job -> 0..2]

\* A lane has a claim exactly in the states that follow one, and a payload exactly
\* between its Redis claim and the acknowledgement.
Claiming == {"claimed", "intx", "worked", "failing", "settled"}

LaneShape ==
    \A w \in Worker :
        /\ pc[w] \in Claiming <=> pending[w] # NoClaim
        /\ pc[w] \in {"holding", "adopted"} => held[w] \in Message

LaneInv == JobsInv /\ LaneTypeOK /\ LaneShape

USE WorkerAssumption, MessageAssumption, StageAssumption

LEMMA LaneClaim ==
    ASSUME LaneTypeOK, LaneShape, NEW w \in Worker, pc[w] \in Claiming
    PROVE  pending[w] \in Claims /\ pending[w].job \in Job /\ pending[w].token \in Token
  BY DEF LaneTypeOK, LaneShape, Claims

LEMMA NotAClaim == NoClaim \notin Claims
  BY TokenAssumption DEF NoClaim, Claims

\* The rows that are locked are rows.
LEMMA LockedJobs == ASSUME LaneTypeOK, LaneShape PROVE Locked \in SUBSET Job
  BY LaneClaim DEF Locked, Claiming

(***************************************************************************)
(* Layer 1                                                                 *)
(***************************************************************************)

\* A lane completes its row with the follow-ups of its work, or after them.
Finished(w, K) ==
    \/ pc[w] = "intx" /\ K = Follow[pending[w].job]
    \/ pc[w] = "worked" /\ todo[w] = {}

\* What a step of the queue does to the table: one statement of the journal, with the
\* rows that are really locked, a token that is really fresh and a lane's own claim.
Statement ==
    \/ UNCHANGED jobVars
    \/ \E K \in SUBSET Job : Enqueue(K)
    \/ \E j \in Job, t \in FreshToken : Claim(j, t, Locked)
    \/ \E w \in Worker :
          /\ pc[w] \in Claiming /\ pc'[w] # pc[w]
          /\ \/ Fail(pending[w])
             \/ \E o \in Outcome, K \in SUBSET Job :
                   Complete(pending[w], o, K) /\ (o = "completed" => Finished(w, K))
    \/ MaintainBlocked(Locked)
    \/ MaintainExpired(Locked)
    \/ MaintainRemoved(Locked) /\ \E w \in Worker : SweepRemoved(w)
    \/ DeleteProject(Locked)
    \/ \E j \in Job : RetryFailed(j)
    \/ JobsTime

LEMMA StatementStep ==
    ASSUME LaneInv, [Next]_vars
    PROVE  Statement
  <1> USE DEF LaneInv, Statement
  <1>1. ASSUME NEW w \in Worker, Dequeue(w) PROVE Statement
    <2>1. ASSUME NEW j \in Job, DequeueJournal(w, j) PROVE Statement
      BY <2>1 DEF DequeueJournal, TakeClaim
    <2>2. CASE AdoptIngress(w)
      <3>1. held[w] \in Message /\ Adopts[held[w]] \subseteq Job
        BY <2>2 DEF AdoptIngress, Goto, LaneShape
      <3>2. PICK j \in Job : Enqueue({j})
        BY <2>2, <3>1 DEF AdoptIngress, AdoptedAs
      <3> QED BY <3>2
    <2>3. CASE ClaimAgain(w)
      BY <2>3 DEF ClaimAgain, TakeClaim
    <2>4. ASSUME NEW j \in Job, LoseClaim(w, j) PROVE Statement
      BY <2>4 DEF LoseClaim
    <2> QED BY <1>1, <2>1, <2>2, <2>3, <2>4
            DEF Dequeue, DequeueMisses, ReclaimStale, RedisClaims, RedisEmpty, AckIngress,
                DequeueThrows
  <1>2. ASSUME NEW w \in Worker, Work(w) PROVE Statement
    <2>1. CASE CommitTransaction(w)
      <3>1. Follow[pending[w].job] \in SUBSET Job /\ pc[w] \in Claiming /\ pc'[w] # pc[w]
        BY <2>1, LaneClaim DEF CommitTransaction, Claiming, LaneTypeOK
      <3> QED BY <2>1, <3>1 DEF CommitTransaction, Outcome, Finished
    <2>2. CASE EnqueueFollowUp(w)
      <3>1. PICK k \in Job : Enqueue({k})
        BY <2>2 DEF EnqueueFollowUp, LaneTypeOK
      <3> QED BY <3>1
    <2>3. CASE AckCompleted(w) \/ AckSkipped(w)
      <3>1. pc[w] \in Claiming /\ pc'[w] # pc[w]
        BY <2>3 DEF AckCompleted, AckSkipped, Acknowledge, Claiming, LaneTypeOK
      <3> QED BY <2>3, <3>1 DEF AckCompleted, AckSkipped, Acknowledge, Outcome, Finished
    <2>4. CASE FailClaim(w)
      <3>1. pc[w] \in Claiming /\ pc'[w] # pc[w]
        BY <2>4 DEF FailClaim, ClearClaim, Claiming, LaneTypeOK
      <3> QED BY <2>4, <3>1 DEF FailClaim
    <2> QED BY <1>2, <2>1, <2>2, <2>3, <2>4
            DEF Work, BeginTransaction, DoWork, StepThrows, FinishStep
  <1>3. ASSUME NEW w \in Worker, Heartbeat(w) PROVE Statement
    BY <1>3 DEF Heartbeat, SendRenewal, RenewalReturns, Renew
  <1>4. ASSUME NEW w \in Worker, Maintain(w) PROVE Statement
    <2>1. CASE SweepBlocked(w) \/ SweepExpired(w) \/ MaintainThrows(w)
      BY <2>1 DEF SweepBlocked, SweepExpired, MaintainThrows
    <2>2. CASE SweepRemoved(w)
      <3>1. MaintainRemoved(Locked)
        BY <2>2 DEF SweepRemoved
      <3> QED BY <2>2, <3>1
    <2> QED BY <1>4, <2>1, <2>2 DEF Maintain
  <1>5. ASSUME NEW w \in Worker, Crash(w) PROVE Statement
    BY <1>5 DEF Crash
  <1>6. ASSUME NEW m \in Message, Produce(m) \/ ClaimAges(m) PROVE Statement
    BY <1>6 DEF Produce, ClaimAges
  <1>7. ASSUME NEW j \in Job, Operator(j) PROVE Statement
    BY <1>7 DEF Operator
  <1>8. CASE ProjectDeleted
    BY <1>8 DEF ProjectDeleted
  <1>9. CASE Time
    BY <1>9 DEF Time
  <1>10. CASE UNCHANGED vars
    BY <1>10 DEF vars, jobVars
  <1> QED BY <1>1, <1>2, <1>3, <1>4, <1>5, <1>6, <1>7, <1>8, <1>9, <1>10 DEF Next

\* Hence each step of the queue is a step of the journal's most general client.
LEMMA Simulation ==
    ASSUME LaneInv, [Next]_vars
    PROVE  [JobsNext]_jobVars
  <1>1. \A w \in Worker : pc[w] \in Claiming => pending[w] \in Claims
    BY LaneClaim DEF LaneInv
  <1>2. Locked \in SUBSET Job /\ FreshToken \subseteq Token
    BY LockedJobs DEF LaneInv, FreshToken
  <1> QED BY <1>1, <1>2, StatementStep DEF Statement, JobsNext

\* A lane's memory keeps its types and fits what the lane awaits.
LEMMA LaneStep ==
    ASSUME LaneInv, [Next]_vars
    PROVE  LaneTypeOK' /\ LaneShape'
  <1> USE NotAClaim DEF LaneInv, LaneTypeOK, LaneShape, Claiming, PC, laneVars, Goto
  <1>1. ASSUME NEW w \in Worker, Dequeue(w) PROVE LaneTypeOK' /\ LaneShape'
    <2>1. ASSUME NEW j \in Job, NEW t \in FreshToken, pc[w] \in {"idle", "acked"},
                 TakeClaim(w, j, t)
          PROVE LaneTypeOK' /\ LaneShape'
      <3>1. [job |-> j, token |-> t] \in Claims
        BY <2>1 DEF FreshToken, Claims
      <3> QED BY <2>1, <3>1 DEF TakeClaim
    <2>2. ASSUME NEW j \in Job, DequeueJournal(w, j) PROVE LaneTypeOK' /\ LaneShape'
      BY <2>1, <2>2 DEF DequeueJournal
    <2>3. ASSUME NEW n \in Name, DequeueMisses(w, n) PROVE LaneTypeOK' /\ LaneShape'
      BY <2>3 DEF DequeueMisses
    <2>4. CASE RedisClaims(w)
      <3>1. PICK m \in Message : held' = [held EXCEPT ![w] = m]
        BY <2>4 DEF RedisClaims, Waiting
      <3> QED BY <2>4, <3>1 DEF RedisClaims
    <2>5. CASE RedisEmpty(w)
      BY <2>5 DEF RedisEmpty
    <2>6. CASE AdoptIngress(w)
      BY <2>6 DEF AdoptIngress
    <2>7. CASE AckIngress(w)
      BY <2>7 DEF AckIngress
    <2>8. CASE ClaimAgain(w)
      <3>1. CASE \E j \in Job, t \in FreshToken : NameOf[j] = name[w] /\ TakeClaim(w, j, t)
        BY <2>1, <2>8, <3>1 DEF ClaimAgain
      <3>2. CASE /\ pc' = [pc EXCEPT ![w] = "idle"]
                 /\ name' = [name EXCEPT ![w] = NoName]
                 /\ UNCHANGED <<held, pending, todo>>
        BY <2>8, <3>2 DEF ClaimAgain
      <3> QED BY <2>8, <3>1, <3>2 DEF ClaimAgain
    <2>9. CASE DequeueThrows(w) \/ ReclaimStale(w)
      BY <2>9 DEF DequeueThrows, ReclaimStale
    <2>10. ASSUME NEW j \in Job, LoseClaim(w, j) PROVE LaneTypeOK' /\ LaneShape'
      BY <2>10 DEF LoseClaim
    <2> QED BY <1>1, <2>2, <2>3, <2>4, <2>5, <2>6, <2>7, <2>8, <2>9, <2>10 DEF Dequeue
  <1>2. ASSUME NEW w \in Worker, Work(w) PROVE LaneTypeOK' /\ LaneShape'
    <2>1. CASE BeginTransaction(w)
      BY <2>1 DEF BeginTransaction
    <2>2. CASE CommitTransaction(w)
      BY <2>2 DEF CommitTransaction
    <2>3. CASE DoWork(w)
      <3>1. Follow[pending[w].job] \in SUBSET Job
        BY <2>3, LaneClaim DEF DoWork
      <3> QED BY <2>3, <3>1 DEF DoWork
    <2>4. CASE EnqueueFollowUp(w)
      BY <2>4 DEF EnqueueFollowUp
    <2>5. CASE AckCompleted(w) \/ AckSkipped(w)
      BY <2>5 DEF AckCompleted, AckSkipped, Acknowledge
    <2>6. CASE StepThrows(w)
      BY <2>6 DEF StepThrows
    <2>7. CASE FailClaim(w) \/ FinishStep(w)
      BY <2>7 DEF FailClaim, FinishStep, ClearClaim
    <2> QED BY <1>2, <2>1, <2>2, <2>3, <2>4, <2>5, <2>6, <2>7 DEF Work
  <1>3. ASSUME NEW w \in Worker, Heartbeat(w) PROVE LaneTypeOK' /\ LaneShape'
    BY <1>3 DEF Heartbeat, SendRenewal, RenewalReturns
  <1>4. ASSUME NEW w \in Worker, Maintain(w) PROVE LaneTypeOK' /\ LaneShape'
    BY <1>4 DEF Maintain, SweepBlocked, SweepExpired, SweepRemoved, MaintainThrows
  <1>5. ASSUME NEW w \in Worker, Crash(w) PROVE LaneTypeOK' /\ LaneShape'
    BY <1>5 DEF Crash
  <1>6. CASE UNCHANGED laneVars
    BY <1>6
  <1>7. UNCHANGED laneVars \/ \E w \in Worker : Dequeue(w) \/ Work(w) \/ Heartbeat(w)
                                                  \/ Maintain(w) \/ Crash(w)
    BY DEF Next, Produce, ClaimAges, Operator, ProjectDeleted, Time, vars
  <1> QED BY <1>1, <1>2, <1>3, <1>4, <1>5, <1>6, <1>7

LEMMA LaneInit == Init => LaneInv
  <1>1. Init => JobsInv
    BY JobsInitInv DEF Init
  <1> QED BY <1>1 DEF Init, LaneInv, LaneTypeOK, LaneShape, Claiming, PC

\* The lanes keep their shape and the journal its invariant.
THEOREM LanesKeepShape == Spec => []LaneInv
  <1>1. LaneInv /\ [Next]_vars => LaneInv'
    BY Simulation, JobsStep, LaneStep DEF LaneInv
  <1> QED BY LaneInit, <1>1, PTL DEF Spec

\* The queue drives the journal as one of its clients would.
THEOREM QueueIsAJournalClient == Spec => JobsSpec
  <1>1. Init => JobsInit
    BY DEF Init
  <1>2. LaneInv /\ [Next]_vars => [JobsNext]_jobVars
    BY Simulation
  <1> QED BY <1>1, <1>2, LanesKeepShape, PTL DEF Spec, JobsSpec

(***************************************************************************)
(* Layer 2                                                                 *)
(***************************************************************************)

TokensApart ==
    \A v, w \in Worker :
        v # w /\ pending[v] # NoClaim /\ pending[w] # NoClaim
            => pending[v].token # pending[w].token

TransactionOwnsRow == \A w \in Worker : pc[w] = "intx" => Owns(pending[w])

ClaimInv == BeatTypeOK /\ TokensApart /\ TransactionOwnsRow /\ LeaseErrorIsCurrent

\* A claim whose token someone remembers is not won back once it is lost: only claim
\* hands out ownership, and only with a fresh token.
LEMMA NoRegain ==
    ASSUME LaneInv, [Next]_vars, NEW c \in Claims, c.token \notin FreshToken
    PROVE  (Owns(c)' => Owns(c)) /\ (OwnsLive(c)' => OwnsLive(c))
  <1> DEFINE Kept == (Owns(c)' => Owns(c)) /\ (OwnsLive(c)' => OwnsLive(c))
  <1> USE DEF Owns, OwnsLive
  <1>0. /\ c.job \in Job /\ c.token \in Token /\ c.token # NoToken
        /\ \A j \in Job : rows[j] \in Row
        /\ \A j \in Job : rows[j].status # "running" => rows[j].token = NoToken /\ ~rows[j].live
    BY TokenAssumption DEF Claims, LaneInv, JobsInv, JobsTypeOK, OpenWorkIsRunnable
  <1>1. CASE UNCHANGED jobVars
    BY <1>1 DEF jobVars
  <1>2. ASSUME NEW K \in SUBSET Job, Enqueue(K) PROVE Kept
    BY <1>0, <1>2, NewRowForm DEF Enqueue, Inserted
  <1>3. ASSUME NEW j \in Job, NEW t \in FreshToken, Claim(j, t, Locked) PROVE Kept
    <2>1. rows' = [rows EXCEPT ![j] = Leased(rows[j], t)] /\ Leased(rows[j], t).token = t
      BY <1>0, <1>3, LeasedForm DEF Claim, Claimable, FreshToken
    <2> QED BY <1>0, <2>1 DEF LaneInv, JobsInv, JobsTypeOK
  <1>4. ASSUME NEW d \in Claims, Fail(d) PROVE Kept
    <2>1. d.job \in Job /\ Released(rows[d.job]).token = NoToken
      BY <1>0, ReleasedForm DEF Claims
    <2> QED BY <1>0, <1>4, <2>1 DEF Fail, LaneInv, JobsInv, JobsTypeOK
  <1>5. ASSUME NEW d \in Claims, NEW o \in Outcome, NEW K \in SUBSET Job, Complete(d, o, K)
        PROVE Kept
    <2>1. d.job \in Job /\ Receipt(rows[d.job], o).token = NoToken
      BY <1>0, ReceiptForm DEF Claims
    <2> QED BY <1>0, <1>5, <2>1, NewRowForm DEF Complete, Inserted
  <1>6. CASE MaintainBlocked(Locked)
    <2>1. \A j \in Job : rows[j].status = "pending" => UpstreamUnavailable(j).token = NoToken
      BY <1>0, UpstreamForm
    <2> QED BY <1>0, <1>6, <2>1 DEF MaintainBlocked, BlockedRows
  <1>7. CASE MaintainExpired(Locked)
    BY <1>0, <1>7, ExpiredForm DEF MaintainExpired
  <1>8. CASE MaintainRemoved(Locked) \/ DeleteProject(Locked)
    BY <1>0, <1>8 DEF MaintainRemoved, DeleteProject, AbsentRow
  <1>9. ASSUME NEW j \in Job, RetryFailed(j) PROVE Kept
    BY <1>0, <1>9, RetriedForm DEF RetryFailed, Retryable, LaneInv, JobsInv, JobsTypeOK
  <1>10. CASE JobsTime
    <2>1. PICK j \in Job : LeaseLapses(j) \/ BackoffEnds(j) \/ RetentionEnds(j)
      BY <1>10 DEF JobsTime
    <2>2. rows \in [Job -> Row]
      BY DEF LaneInv, JobsInv, JobsTypeOK
    <2> QED BY <1>0, <2>1, <2>2 DEF LeaseLapses, BackoffEnds, RetentionEnds, Row
  <1>11. \A w \in Worker : pc[w] \in Claiming => pending[w] \in Claims
    BY LaneClaim DEF LaneInv
  <1> QED BY StatementStep, <1>1, <1>2, <1>3, <1>4, <1>5, <1>6, <1>7, <1>8, <1>9, <1>10, <1>11
          DEF Statement

\* A row that is locked, or whose lease is live, changes hands only by a step of the
\* lane that holds it, or with the whole project.
LEMMA GuardedRow ==
    ASSUME LaneInv, [Next]_vars, NEW j \in Job,
           \/ j \in Locked /\ rows[j].status = "running"
           \/ rows[j].live /\ projectLive'
    PROVE  \/ rows'[j].token = rows[j].token /\ rows'[j].status = rows[j].status
           \/ \E w \in Worker : /\ pending[w] = [job |-> j, token |-> rows[j].token]
                                /\ pc'[w] # pc[w]
  <1> DEFINE Same == rows'[j].token = rows[j].token /\ rows'[j].status = rows[j].status
             Mine == \E w \in Worker : /\ pending[w] = [job |-> j, token |-> rows[j].token]
                                       /\ pc'[w] # pc[w]
  <1>0. /\ rows \in [Job -> Row] /\ rows[j].status = "running"
        /\ j \in Locked \/ rows[j].live
        /\ j \in Locked \/ projectLive'
    BY DEF LaneInv, JobsInv, JobsTypeOK, OpenWorkIsRunnable
  <1>1. CASE UNCHANGED jobVars
    BY <1>1 DEF jobVars
  <1>2. ASSUME NEW K \in SUBSET Job, Enqueue(K) PROVE Same
    BY <1>0, <1>2 DEF Enqueue, Inserted
  <1>3. ASSUME NEW i \in Job, NEW t \in FreshToken, Claim(i, t, Locked) PROVE Same
    BY <1>0, <1>3 DEF Claim, Claimable
  <1>4. ASSUME NEW w \in Worker, pc[w] \in Claiming, pc'[w] # pc[w], pending[w].job # j \/ ~Owns(pending[w]),
               \/ Fail(pending[w])
               \/ \E o \in Outcome, K \in SUBSET Job : Complete(pending[w], o, K)
        PROVE Same
    BY <1>0, <1>4 DEF Fail, Complete, Inserted, LaneInv, Owns
  <1>5. ASSUME NEW w \in Worker, pc[w] \in Claiming, pc'[w] # pc[w],
               pending[w].job = j, Owns(pending[w])
        PROVE Mine
    <2>1. pending[w] \in Claims
      BY <1>5, LaneClaim DEF LaneInv
    <2>2. pending[w] = [job |-> j, token |-> rows[j].token]
      BY <1>5, <2>1 DEF Owns, Claims
    <2> QED BY <1>5, <2>2
  <1>6. CASE MaintainBlocked(Locked)
    BY <1>0, <1>6 DEF MaintainBlocked, BlockedRows
  <1>7. CASE MaintainExpired(Locked)
    BY <1>0, <1>7 DEF MaintainExpired, ExpiredRows, AttemptsExhausted, EvidenceExpired
  <1>8. CASE MaintainRemoved(Locked)
    BY <1>0, <1>8 DEF MaintainRemoved, RemovableRows
  <1>9. CASE DeleteProject(Locked)
    BY <1>0, <1>9 DEF DeleteProject
  <1>10. ASSUME NEW i \in Job, RetryFailed(i) PROVE Same
    BY <1>0, <1>10 DEF RetryFailed, Retryable
  <1>11. CASE JobsTime
    <2>1. PICK i \in Job : LeaseLapses(i) \/ BackoffEnds(i) \/ RetentionEnds(i)
      BY <1>11 DEF JobsTime
    <2> QED BY <1>0, <2>1 DEF LeaseLapses, BackoffEnds, RetentionEnds, Row
  <1> QED BY StatementStep, <1>1, <1>2, <1>3, <1>4, <1>5, <1>6, <1>7, <1>8, <1>9, <1>10, <1>11
          DEF Statement

\* What a step does to the claim, the renewal and the error of one lane.
LaneMove(w) ==
    /\ \/ pending'[w] = pending[w]
       \/ pending'[w] = NoClaim /\ leaseError'[w] = NoClaim
       \/ /\ pending[w] = NoClaim
          /\ pending'[w] \in [job : Job, token : FreshToken]
          /\ leaseError' = leaseError
    /\ pc'[w] = "intx" => /\ pending'[w] = pending[w]
                          /\ \/ pc[w] = "intx"
                             \/ Owns(pending[w]) /\ UNCHANGED jobVars
    /\ leaseError'[w] \in {NoClaim, leaseError[w], pending'[w]}

\* A step is one lane's: the claims and states of the others do not move.
Others(w) == \A v \in Worker \ {w} : /\ pending'[v] = pending[v] /\ pc'[v] = pc[v]
                                     /\ leaseError'[v] = leaseError[v]

LEMMA LaneMoves ==
    ASSUME LaneInv, BeatTypeOK, [Next]_vars
    PROVE  /\ \A w \in Worker : LaneMove(w)
           /\ BeatTypeOK'
           /\ \/ UNCHANGED <<pending, pc>>
              \/ \E w \in Worker : Others(w)
  <1> DEFINE Here(w) == LaneMove(w) /\ Others(w) /\ BeatTypeOK'
  <1> USE NotAClaim DEF LaneInv, LaneTypeOK, BeatTypeOK, LaneMove, Others, Goto,
                        laneVars, beatVars, jobVars
  <1>1. ASSUME NEW w \in Worker, Dequeue(w) PROVE Here(w)
    <2>1. ASSUME NEW j \in Job, NEW t \in FreshToken, pc[w] \in {"idle", "acked"},
                 TakeClaim(w, j, t), UNCHANGED beatVars
          PROVE Here(w)
      <3>1. pending[w] = NoClaim
        BY <2>1 DEF LaneShape, Claiming
      <3> QED BY <2>1, <3>1 DEF TakeClaim
    <2>2. ASSUME NEW j \in Job, DequeueJournal(w, j) PROVE Here(w)
      BY <2>1, <2>2 DEF DequeueJournal
    <2>3. ASSUME NEW n \in Name, DequeueMisses(w, n) PROVE Here(w)
      BY <2>3 DEF DequeueMisses
    <2>4. CASE RedisClaims(w) \/ RedisEmpty(w)
      BY <2>4 DEF RedisClaims, RedisEmpty
    <2>5. CASE AdoptIngress(w) \/ AckIngress(w)
      BY <2>5 DEF AdoptIngress, AckIngress
    <2>6. CASE ClaimAgain(w)
      <3>1. CASE \E j \in Job, t \in FreshToken : NameOf[j] = name[w] /\ TakeClaim(w, j, t)
        BY <2>1, <2>6, <3>1 DEF ClaimAgain
      <3>2. CASE pc' = [pc EXCEPT ![w] = "idle"] /\ UNCHANGED <<held, pending, todo>>
        BY <2>6, <3>2 DEF ClaimAgain
      <3> QED BY <2>6, <3>1, <3>2 DEF ClaimAgain
    <2>7. CASE DequeueThrows(w) \/ ReclaimStale(w)
      BY <2>7 DEF DequeueThrows, ReclaimStale
    <2>8. ASSUME NEW j \in Job, LoseClaim(w, j) PROVE Here(w)
      BY <2>8 DEF LoseClaim
    <2> QED BY <1>1, <2>2, <2>3, <2>4, <2>5, <2>6, <2>7, <2>8 DEF Dequeue
  <1>2. ASSUME NEW w \in Worker, Work(w) PROVE Here(w)
    <2>1. CASE BeginTransaction(w)
      BY <2>1 DEF BeginTransaction, OwnsLive
    <2>2. CASE CommitTransaction(w)
      BY <2>2 DEF CommitTransaction
    <2>3. CASE DoWork(w) \/ EnqueueFollowUp(w)
      BY <2>3 DEF DoWork, EnqueueFollowUp
    <2>4. CASE AckCompleted(w) \/ AckSkipped(w)
      BY <2>4 DEF AckCompleted, AckSkipped, Acknowledge
    <2>5. CASE StepThrows(w)
      BY <2>5 DEF StepThrows
    <2>6. CASE FailClaim(w) \/ FinishStep(w)
      BY <2>6 DEF FailClaim, FinishStep, ClearClaim
    <2> QED BY <1>2, <2>1, <2>2, <2>3, <2>4, <2>5, <2>6 DEF Work
  <1>3. ASSUME NEW w \in Worker, Heartbeat(w) PROVE Here(w)
    <2>1. CASE SendRenewal(w)
      BY <2>1 DEF SendRenewal
    <2>2. CASE RenewalReturns(w)
      BY <2>2 DEF RenewalReturns
    <2> QED BY <1>3, <2>1, <2>2 DEF Heartbeat
  <1>4. ASSUME NEW w \in Worker, Maintain(w) PROVE Here(w)
    BY <1>4 DEF Maintain, SweepBlocked, SweepExpired, SweepRemoved, MaintainThrows
  <1>5. ASSUME NEW w \in Worker, Crash(w) PROVE Here(w)
    BY <1>5 DEF Crash
  <1>6. ASSUME UNCHANGED <<pc, pending, leaseError, beat>>
        PROVE  BeatTypeOK' /\ \A w \in Worker : LaneMove(w)
    BY <1>6
  <1>7. \/ \E w \in Worker : Dequeue(w) \/ Work(w) \/ Heartbeat(w) \/ Maintain(w) \/ Crash(w)
        \/ UNCHANGED <<pc, pending, leaseError, beat>>
    BY DEF Next, Produce, ClaimAges, Operator, ProjectDeleted, Time, vars
  <1>8. ASSUME NEW w \in Worker, Here(w) PROVE \A v \in Worker : LaneMove(v)
    BY <1>8
  <1> QED BY <1>1, <1>2, <1>3, <1>4, <1>5, <1>6, <1>7, <1>8

LEMMA ClaimInit == Init => ClaimInv
  BY DEF Init, ClaimInv, BeatTypeOK, TokensApart, TransactionOwnsRow, LeaseErrorIsCurrent

LEMMA FenceStep ==
    ASSUME LaneInv, ClaimInv, [Next]_vars
    PROVE  ClaimInv'
  <1> USE DEF ClaimInv
  <1>1. /\ \A w \in Worker : LaneMove(w)
        /\ BeatTypeOK'
        /\ UNCHANGED <<pending, pc>> \/ \E w \in Worker : Others(w)
    BY LaneMoves
  <1>2. \A w \in Worker : /\ pending[w] # NoClaim => pending[w] \in Claims
                          /\ pending[w].token \notin FreshToken
    BY DEF LaneInv, LaneTypeOK, FreshToken
  <1>3. TokensApart'
    <2> SUFFICES ASSUME NEW v \in Worker, NEW w \in Worker, v # w,
                        pending'[v] # NoClaim, pending'[w] # NoClaim
                 PROVE  pending'[v].token # pending'[w].token
      BY DEF TokensApart
    <2>1. pending'[v] = pending[v] \/ pending'[w] = pending[w]
      BY <1>1 DEF Others
    <2>2. /\ pending'[v] = pending[v] \/ pending'[v].token \in FreshToken
          /\ pending'[w] = pending[w] \/ pending'[w].token \in FreshToken
      BY <1>1 DEF LaneMove
    <2> QED BY <1>2, <2>1, <2>2 DEF TokensApart
  <1>4. TransactionOwnsRow'
    <2> SUFFICES ASSUME NEW w \in Worker, pc'[w] = "intx" PROVE Owns(pending[w])'
      BY DEF TransactionOwnsRow
    <2>1. /\ pending'[w] = pending[w]
          /\ \/ pc[w] = "intx"
             \/ Owns(pending[w]) /\ UNCHANGED jobVars
      BY <1>1 DEF LaneMove
    <2>2. CASE Owns(pending[w]) /\ UNCHANGED jobVars
      BY <2>1, <2>2 DEF Owns, jobVars
    <2>3. CASE pc[w] = "intx"
      <3> DEFINE j == pending[w].job
      <3>1. j \in Job /\ j \in Locked /\ pending[w] \in Claims /\ pending[w] # NoClaim
        BY <2>3, LaneClaim DEF LaneInv, LaneShape, Locked, Claiming
      <3>2. rows[j].status = "running" /\ rows[j].token = pending[w].token
        BY <2>3 DEF TransactionOwnsRow, Owns
      <3>3. CASE rows'[j].token = rows[j].token /\ rows'[j].status = rows[j].status
        BY <2>1, <3>2, <3>3 DEF Owns
      <3>4. ASSUME NEW v \in Worker, pending[v] = [job |-> j, token |-> rows[j].token],
                   pc'[v] # pc[v]
            PROVE  FALSE
        <4>1. v # w
          BY <2>3, <3>4
        <4>2. pending[v].token = pending[w].token
          BY <3>2, <3>4
        <4>3. pending[v] # NoClaim
          BY <3>1, <3>4, ParentAssumption DEF NoClaim
        <4> QED BY <3>1, <4>1, <4>2, <4>3 DEF TokensApart
      <3> HIDE DEF j
      <3> QED BY <3>1, <3>2, <3>3, <3>4, GuardedRow
    <2> QED BY <2>1, <2>2, <2>3
  <1>5. LeaseErrorIsCurrent'
    BY <1>1 DEF LaneMove, LeaseErrorIsCurrent
  <1> QED BY <1>1, <1>3, <1>4, <1>5

\* No two lanes hold one token, and an open transaction owns the row it has locked.
THEOREM ClaimsStayFenced == Spec => []ClaimInv
  <1>1. LaneInv /\ ClaimInv /\ [Next]_vars => ClaimInv'
    BY FenceStep
  <1> QED BY ClaimInit, <1>1, LanesKeepShape, PTL DEF Spec

\* At most one lane is inside a transaction for a row, however its lease goes.
THEOREM TransactionsAreExclusive == Spec => []ExclusiveTransaction
  <1>1. LaneInv /\ ClaimInv => ExclusiveTransaction
    <2> SUFFICES ASSUME LaneInv, ClaimInv, NEW v \in Worker, NEW w \in Worker,
                        v # w, pc[v] = "intx", pc[w] = "intx",
                        pending[v].job = pending[w].job
                 PROVE  FALSE
      BY DEF ExclusiveTransaction
    <2>1. pending[v] # NoClaim /\ pending[w] # NoClaim
      BY DEF LaneInv, LaneShape, Claiming
    <2>2. pending[v].token = pending[w].token
      BY DEF ClaimInv, TransactionOwnsRow, Owns
    <2> QED BY <2>1, <2>2 DEF ClaimInv, TokensApart
  <1> QED BY <1>1, LanesKeepShape, ClaimsStayFenced, PTL

\* An error that keeps a lane from acknowledging is about the claim it has.
THEOREM LeaseErrorsAreCurrent == Spec => []LeaseErrorIsCurrent
  <1>1. ClaimInv => LeaseErrorIsCurrent
    BY DEF ClaimInv
  <1> QED BY <1>1, ClaimsStayFenced, PTL

\* Only its holder, or the end of the project, disturbs a live lease.
THEOREM LiveLeasesAreUndisturbed == Spec => LiveLeaseUndisturbed
  <1>1. LaneInv /\ [Next]_vars =>
          [\A j \in Job :
              rows[j].live /\ projectLive' =>
                 \/ rows'[j].token = rows[j].token
                 \/ \E w \in Worker : /\ pending[w] = [job |-> j, token |-> rows[j].token]
                                      /\ pc'[w] # pc[w]]_vars
    BY GuardedRow
  <1> QED BY <1>1, LanesKeepShape, PTL DEF Spec, LiveLeaseUndisturbed

\* A lane's job runs, and stays completed, only on top of its completed parent.
THEOREM QueueKeepsDependencies == Spec => []ChildRestsOnCompletedParent
  BY QueueIsAJournalClient, DependencyIsKept, PTL
===============================================================================
