----------------------------- MODULE DurableQueue -----------------------------
(***************************************************************************)
(* The worker's queue (apps/worker/src/durable-queue.ts) over the journal  *)
(* WorkerJobs and the Redis ingress (packages/storage/src/redis-queue.ts), *)
(* driven by worker lanes (worker-steps.ts, runtime.ts).                   *)
(*                                                                         *)
(* A member of Worker is one queue object and the serial lane that drives  *)
(* it.  A lane takes one step at a time: it dequeues a job of one name,    *)
(* adopting Redis ingress when the journal has none, does the work, and    *)
(* acknowledges or fails the claim; or it maintains the journal.  Its      *)
(* heartbeat renews the lease on another connection meanwhile.             *)
(*                                                                         *)
(* Every await is a point where the others, the clock or a crash come in.  *)
(* An open database transaction is pc = "intx": what it wrote is seen only *)
(* at its commit, and its claim's row is locked until then.                *)
(*                                                                         *)
(* Simplifications: a payload lies at most once in Redis at a time; a      *)
(* lane may process any name (the code splits the names over two lanes);   *)
(* claim's ORDER BY is any order; crashes are bounded by MaxCrashes, and   *)
(* the count of repeated effects stops at 2.                               *)
(***************************************************************************)
EXTENDS WorkerJobs

CONSTANTS Worker, NoWorker,
          Message, NoMessage,  \* payloads the producers push to Redis
          Adopts,         \* the journal identities a payload may be adopted as
          NameOf,         \* job_name of each job
          Transactional,  \* jobs of the stages run by queue.transaction
          Follow,         \* the jobs each job's work enqueues
          MaxCrashes

ASSUME WorkerAssumption == NoWorker \notin Worker
ASSUME MessageAssumption ==
    NoMessage \notin Message /\ Adopts \in [Message -> SUBSET Job]
ASSUME StageAssumption == Transactional \subseteq Job /\ Follow \in [Job -> SUBSET Job]

VARIABLES
  ingress,     \* where each payload is in Redis, and whose claim it is
  pc,          \* what each lane is awaiting
  name,        \* the job name its step is for
  held,        \* the payload it claimed from Redis and has not adopted
  pending,     \* its claim of a journal row
  todo,        \* the follow-ups its work has still to enqueue
  beat,        \* the claim its renewal in flight is for
  leaseError,  \* the claim a renewal failed for, if one did
  crashes,     \* crashes so far
  \* history, read by the properties alone
  done,        \* how often a job's work took effect since its row was inserted
  journaled    \* a payload was stored in the journal since it was last produced,
               \* or never produced

laneVars == <<pc, name, held, pending, todo>>
beatVars == <<beat, leaseError>>
historyVars == <<done, journaled>>
vars == <<rows, projectLive, ingress, pc, name, held, pending, todo, beat,
          leaseError, crashes, done, journaled>>

NoName == "none"
NoClaim == [job |-> NoJob, token |-> NoToken]
Nowhere == [at |-> "none", by |-> NoWorker]

Name == {NameOf[j] : j \in Job}
MessageName(m) == {NameOf[j] : j \in Adopts[m]}
IngressName == UNION {MessageName(m) : m \in Message}

PC == {"idle", "missed", "reclaimed", "holding", "adopted", "acked", "claimed", "intx",
       "worked", "failing", "settled", "expire", "remove"}

\* A random UUID: nothing else holds it.
FreshToken == Token \ ({rows[j].token : j \in Job} \cup {pending[w].token : w \in Worker}
                       \cup {beat[w].token : w \in Worker})

\* Fault: lock without FOR UPDATE.
Locked_None == {}

\* The rows open transactions have locked.
Locked == {pending[w].job : w \in {v \in Worker : pc[v] = "intx"}}

(***************************************************************************)
(* producers and the Redis clock                                           *)
(***************************************************************************)

Produce(m) ==
    /\ ingress[m] = Nowhere
    /\ ingress' = [ingress EXCEPT ![m].at = "list"]
    /\ journaled' = [journaled EXCEPT ![m] = FALSE]
    /\ UNCHANGED <<jobVars, laneVars, beatVars, crashes, done>>

\* A processing entry grows older than DEFAULT_PROCESSING_TIMEOUT_MS.
ClaimAges(m) ==
    /\ ingress[m].at = "taken"
    /\ ingress' = [ingress EXCEPT ![m].at = "aged"]
    /\ UNCHANGED <<jobVars, laneVars, beatVars, crashes, historyVars>>

(***************************************************************************)
(* dequeue                                                                 *)
(***************************************************************************)

TakeClaim(w, j, t) ==
    /\ Claim(j, t, Locked)
    /\ pending' = [pending EXCEPT ![w] = [job |-> j, token |-> t]]
    /\ pc' = [pc EXCEPT ![w] = "claimed"]
    /\ name' = [name EXCEPT ![w] = NoName]
    /\ UNCHANGED <<held, todo>>

Goto(w, here, there) ==
    /\ pc[w] = here
    /\ pc' = [pc EXCEPT ![w] = there]

DequeueJournal(w, j) ==
    /\ pc[w] = "idle"
    /\ \E t \in FreshToken : TakeClaim(w, j, t)
    /\ UNCHANGED <<ingress, beatVars, crashes, historyVars>>

\* store.claim finds nothing and the name is not one of the four internal ones.
DequeueMisses(w, n) ==
    /\ Goto(w, "idle", "missed")
    /\ n \in IngressName
    /\ ~ \E j \in Job : NameOf[j] = n /\ Claimable(j, Locked)
    /\ name' = [name EXCEPT ![w] = n]
    /\ UNCHANGED <<jobVars, held, pending, todo, ingress, beatVars, crashes, historyVars>>

\* Fault: stale claims stay where they are.
ReclaimStale_Never(w) ==
    /\ Goto(w, "missed", "reclaimed")
    /\ UNCHANGED <<jobVars, name, held, pending, todo, ingress, beatVars, crashes,
                   historyVars>>

\* redis.claim, first script: claims that have aged go back to the list, where
\* whoever made them no longer finds them.
ReclaimStale(w) ==
    /\ Goto(w, "missed", "reclaimed")
    /\ ingress' = [m \in Message |->
           IF name[w] \in MessageName(m) /\ ingress[m].at = "aged"
             THEN [at |-> "list", by |-> NoWorker] ELSE ingress[m]]
    /\ UNCHANGED <<jobVars, name, held, pending, todo, beatVars, crashes, historyVars>>

Waiting(n) == {m \in Message : n \in MessageName(m) /\ ingress[m].at = "list"}

\* Fault: LPOP alone, as the queue's older dequeue does.
RedisClaims_Pop(w) ==
    /\ Goto(w, "reclaimed", "holding")
    /\ \E m \in Waiting(name[w]) :
          /\ held' = [held EXCEPT ![w] = m]
          /\ ingress' = [ingress EXCEPT ![m] = Nowhere]
    /\ UNCHANGED <<jobVars, name, pending, todo, beatVars, crashes, historyVars>>

\* Its second script: LPOP and ZADD of one payload.
RedisClaims(w) ==
    /\ Goto(w, "reclaimed", "holding")
    /\ \E m \in Waiting(name[w]) :
          /\ held' = [held EXCEPT ![w] = m]
          /\ ingress' = [ingress EXCEPT ![m] = [at |-> "taken", by |-> w]]
    /\ UNCHANGED <<jobVars, name, pending, todo, beatVars, crashes, historyVars>>

RedisEmpty(w) ==
    /\ Goto(w, "reclaimed", "idle")
    /\ Waiting(name[w]) = {}
    /\ name' = [name EXCEPT ![w] = NoName]
    /\ UNCHANGED <<jobVars, held, pending, todo, ingress, beatVars, crashes, historyVars>>

\* A payload has one identity, unless it asks for a regeneration: then its dedupe
\* key is the Redis claim's id, and every claim of it is adopted as a new row.
AdoptedAs(m) ==
    IF Cardinality(Adopts[m]) = 1 THEN Adopts[m] ELSE {j \in Adopts[m] : ~Present(j)}

\* A row that is inserted begins with no effects.
DoneAfter(K, count) == [j \in Job |-> IF j \in K /\ projectLive /\ ~Present(j)
                                        THEN 0 ELSE count[j]]

AdoptIngress(w) ==
    /\ Goto(w, "holding", "adopted")
    /\ \E j \in AdoptedAs(held[w]) :
          /\ Enqueue({j})
          /\ done' = DoneAfter({j}, done)
    /\ journaled' = [journaled EXCEPT ![held[w]] = @ \/ projectLive]
    /\ UNCHANGED <<name, held, pending, todo, ingress, beatVars, crashes>>

\* ZREM removes the entry of this claim, and nothing when it was reclaimed.
AckIngress(w) ==
    /\ Goto(w, "adopted", "acked")
    /\ ingress' = IF ingress[held[w]].by = w THEN [ingress EXCEPT ![held[w]] = Nowhere]
                                             ELSE ingress
    /\ held' = [held EXCEPT ![w] = NoMessage]
    /\ UNCHANGED <<jobVars, name, pending, todo, beatVars, crashes, historyVars>>

ClaimAgain(w) ==
    /\ pc[w] = "acked"
    /\ \/ \E j \in Job, t \in FreshToken : NameOf[j] = name[w] /\ TakeClaim(w, j, t)
       \/ /\ ~ \E j \in Job : NameOf[j] = name[w] /\ Claimable(j, Locked)
          /\ pc' = [pc EXCEPT ![w] = "idle"]
          /\ name' = [name EXCEPT ![w] = NoName]
          /\ UNCHANGED <<jobVars, held, pending, todo>>
    /\ UNCHANGED <<ingress, beatVars, crashes, historyVars>>

\* Redis or Postgres throws, after or without an effect: nothing is failed or dropped.
DequeueThrows(w) ==
    /\ pc[w] \in {"missed", "reclaimed", "holding", "adopted", "acked"}
    /\ pc' = [pc EXCEPT ![w] = "idle"]
    /\ name' = [name EXCEPT ![w] = NoName]
    /\ held' = [held EXCEPT ![w] = NoMessage]
    /\ UNCHANGED <<jobVars, pending, todo, ingress, beatVars, crashes, historyVars>>

\* store.claim commits and its answer is lost: the row is leased to nobody.
LoseClaim(w, j) ==
    /\ pc[w] \in {"idle", "acked"}
    /\ pc[w] = "acked" => NameOf[j] = name[w]
    /\ \E t \in FreshToken : Claim(j, t, Locked)
    /\ pc' = [pc EXCEPT ![w] = "idle"]
    /\ name' = [name EXCEPT ![w] = NoName]
    /\ UNCHANGED <<held, pending, todo, ingress, beatVars, crashes, historyVars>>

(***************************************************************************)
(* the work of a claimed job                                               *)
(***************************************************************************)

More(n) == IF n < 2 THEN n + 1 ELSE 2

\* clearClaim: the lane forgets its claim and stops its heartbeat.
ClearClaim(w) ==
    /\ pc' = [pc EXCEPT ![w] = "idle"]
    /\ pending' = [pending EXCEPT ![w] = NoClaim]
    /\ todo' = [todo EXCEPT ![w] = {}]
    /\ leaseError' = [leaseError EXCEPT ![w] = NoClaim]
    /\ UNCHANGED <<name, held, beat>>

\* txStore.lock, in a new transaction.
BeginTransaction(w) ==
    /\ pc[w] = "claimed"
    /\ pending[w].job \in Transactional
    /\ pc' = [pc EXCEPT ![w] = IF OwnsLive(pending[w]) THEN "intx" ELSE "failing"]
    /\ UNCHANGED <<jobVars, name, held, pending, todo, ingress, beatVars, crashes,
                   historyVars>>

\* Fault: an inner COMMIT in place of a savepoint ends the outer transaction.
CommitTransaction_Inner(w) ==
    /\ pc[w] = "intx"
    /\ \/ /\ Complete(pending[w], "completed", Follow[pending[w].job])
          /\ pc' = [pc EXCEPT ![w] = "settled"]
       \/ UNCHANGED jobVars /\ pc' = [pc EXCEPT ![w] = "failing"]
    /\ done' = [DoneAfter(Follow[pending[w].job], done) EXCEPT ![pending[w].job] = More(@)]
    /\ UNCHANGED <<name, held, pending, todo, ingress, beatVars, crashes, journaled>>

\* work, its follow-ups and txStore.complete commit together.  When the answer to
\* the commit is lost the lane believes it failed.
CommitTransaction(w) ==
    LET j == pending[w].job IN
    /\ pc[w] = "intx"
    /\ \/ /\ Complete(pending[w], "completed", Follow[j])
          /\ done' = [DoneAfter(Follow[j], done) EXCEPT ![j] = More(done[j])]
       \/ Complete(pending[w], "skipped", {}) /\ UNCHANGED done
    /\ \E seen \in {"settled", "failing"} : pc' = [pc EXCEPT ![w] = seen]
    /\ UNCHANGED <<name, held, pending, todo, ingress, beatVars, crashes, journaled>>

\* Work outside a transaction takes effect by itself, before any acknowledgement.
DoWork(w) ==
    LET j == pending[w].job IN
    /\ Goto(w, "claimed", "worked")
    /\ j \notin Transactional
    /\ done' = [done EXCEPT ![j] = More(@)]
    /\ todo' = [todo EXCEPT ![w] = Follow[j]]
    /\ UNCHANGED <<jobVars, name, held, pending, ingress, beatVars, crashes, journaled>>

EnqueueFollowUp(w) ==
    /\ pc[w] = "worked"
    /\ \E k \in todo[w] :
          /\ Enqueue({k})
          /\ done' = DoneAfter({k}, done)
          /\ todo' = [todo EXCEPT ![w] = @ \ {k}]
    /\ UNCHANGED <<pc, name, held, pending, ingress, beatVars, crashes, journaled>>

\* ackClaimedJobs: a failed renewal or a lost lease throws instead.
Acknowledge(w, outcome) ==
    /\ \/ /\ leaseError[w] = NoClaim
          /\ Complete(pending[w], outcome, {})
          /\ \E seen \in {"settled", "failing"} : pc' = [pc EXCEPT ![w] = seen]
       \/ /\ leaseError[w] # NoClaim \/ ~Owns(pending[w])
          /\ pc' = [pc EXCEPT ![w] = "failing"]
          /\ UNCHANGED jobVars
    /\ UNCHANGED <<name, held, pending, todo, ingress, beatVars, crashes, historyVars>>

\* Fault: the acknowledgement does not wait for the follow-ups.
AckCompleted_Early(w) == pc[w] = "worked" /\ Acknowledge(w, "completed")

AckCompleted(w) == pc[w] = "worked" /\ todo[w] = {} /\ Acknowledge(w, "completed")

\* Fault: a terminal reason skippedReason does not know.
AckSkipped_Unknown(w) ==
    /\ pc[w] = "claimed" /\ pending[w].job \notin Transactional
    /\ Acknowledge(w, "completed")

\* The processor returns a terminal reason (incident_missing, ...) and did nothing.
AckSkipped(w) ==
    /\ pc[w] = "claimed"
    /\ pending[w].job \notin Transactional
    /\ Acknowledge(w, "skipped")

\* Anything the step awaits may throw; an open transaction is rolled back.
StepThrows(w) ==
    /\ pc[w] \in {"claimed", "intx", "worked"}
    /\ pc' = [pc EXCEPT ![w] = "failing"]
    /\ UNCHANGED <<jobVars, name, held, pending, todo, ingress, beatVars, crashes,
                   historyVars>>

\* failClaimedJobs; when the statement itself throws the claim is only dropped.
FailClaim(w) ==
    /\ pc[w] = "failing"
    /\ Fail(pending[w]) \/ UNCHANGED jobVars
    /\ ClearClaim(w)
    /\ UNCHANGED <<ingress, crashes, historyVars>>

FinishStep(w) ==
    /\ pc[w] = "settled"
    /\ ClearClaim(w)
    /\ UNCHANGED <<jobVars, ingress, crashes, historyVars>>

(***************************************************************************)
(* the heartbeat                                                           *)
(***************************************************************************)

\* Every minute, unless the last renewal has not come back.
SendRenewal(w) ==
    /\ pending[w] # NoClaim
    /\ beat[w] = NoClaim
    /\ beat' = [beat EXCEPT ![w] = pending[w]]
    /\ UNCHANGED <<jobVars, laneVars, ingress, leaseError, crashes, historyVars>>

\* Fault: without the test pending === active.
RenewalReturns_AnyClaim(w) ==
    /\ beat[w] # NoClaim
    /\ \/ OwnsLive(beat[w]) /\ UNCHANGED leaseError
       \/ leaseError' = [leaseError EXCEPT ![w] = IF pending[w] = NoClaim THEN @ ELSE beat[w]]
    /\ beat' = [beat EXCEPT ![w] = NoClaim]
    /\ UNCHANGED <<jobVars, laneVars, ingress, crashes, historyVars>>

\* The renewal waits for a locked row and then succeeds, or it fails: its lease is
\* lost or the statement throws.  A failure counts against the claim it was sent
\* for, if the lane still has it.
RenewalReturns(w) ==
    /\ beat[w] # NoClaim
    /\ \/ beat[w].job \notin Locked /\ Renew(beat[w]) /\ UNCHANGED leaseError
       \/ /\ leaseError' = [leaseError EXCEPT ![w] = IF pending[w] = beat[w] THEN beat[w] ELSE @]
          /\ UNCHANGED jobVars
    /\ beat' = [beat EXCEPT ![w] = NoClaim]
    /\ UNCHANGED <<laneVars, ingress, crashes, historyVars>>

(***************************************************************************)
(* maintenance, crashes, and what the journal does by itself               *)
(***************************************************************************)

ForgetEffects ==
    done' = [j \in Job |-> IF Present(j) /\ rows'[j].status = "absent" THEN 0 ELSE done[j]]

\* maintain's three statements, in its order, each committed by itself.
SweepBlocked(w) ==
    /\ Goto(w, "idle", "expire")
    /\ MaintainBlocked(Locked)
    /\ UNCHANGED <<name, held, pending, todo, ingress, beatVars, crashes, historyVars>>

SweepExpired(w) ==
    /\ Goto(w, "expire", "remove")
    /\ MaintainExpired(Locked)
    /\ UNCHANGED <<name, held, pending, todo, ingress, beatVars, crashes, historyVars>>

SweepRemoved(w) ==
    /\ Goto(w, "remove", "idle")
    /\ MaintainRemoved(Locked)
    /\ ForgetEffects
    /\ UNCHANGED <<name, held, pending, todo, ingress, beatVars, crashes, journaled>>

MaintainThrows(w) ==
    /\ pc[w] \in {"expire", "remove"}
    /\ pc' = [pc EXCEPT ![w] = "idle"]
    /\ UNCHANGED <<jobVars, name, held, pending, todo, ingress, beatVars, crashes,
                   historyVars>>

\* The process dies: its transaction is rolled back and its memory is gone.
Crash(w) ==
    /\ crashes < MaxCrashes
    /\ crashes' = crashes + 1
    /\ pc' = [pc EXCEPT ![w] = "idle"]
    /\ name' = [name EXCEPT ![w] = NoName]
    /\ held' = [held EXCEPT ![w] = NoMessage]
    /\ pending' = [pending EXCEPT ![w] = NoClaim]
    /\ todo' = [todo EXCEPT ![w] = {}]
    /\ beat' = [beat EXCEPT ![w] = NoClaim]
    /\ leaseError' = [leaseError EXCEPT ![w] = NoClaim]
    /\ UNCHANGED <<jobVars, ingress, historyVars>>

Operator(j) ==
    /\ RetryFailed(j)
    /\ UNCHANGED <<laneVars, ingress, beatVars, crashes, historyVars>>

ProjectDeleted ==
    /\ DeleteProject(Locked)
    /\ done' = [j \in Job |-> 0]
    /\ UNCHANGED <<laneVars, ingress, beatVars, crashes, journaled>>

Time ==
    /\ JobsTime
    /\ UNCHANGED <<laneVars, ingress, beatVars, crashes, historyVars>>

Init ==
    /\ JobsInit
    /\ ingress = [m \in Message |-> Nowhere]
    /\ pc = [w \in Worker |-> "idle"]
    /\ name = [w \in Worker |-> NoName]
    /\ held = [w \in Worker |-> NoMessage]
    /\ pending = [w \in Worker |-> NoClaim]
    /\ todo = [w \in Worker |-> {}]
    /\ beat = [w \in Worker |-> NoClaim]
    /\ leaseError = [w \in Worker |-> NoClaim]
    /\ crashes = 0
    /\ done = [j \in Job |-> 0]
    /\ journaled = [m \in Message |-> TRUE]

Dequeue(w) ==
    \/ \E j \in Job : DequeueJournal(w, j)
    \/ \E n \in Name : DequeueMisses(w, n)
    \/ ReclaimStale(w) \/ RedisClaims(w) \/ RedisEmpty(w)
    \/ AdoptIngress(w) \/ AckIngress(w) \/ ClaimAgain(w)
    \/ DequeueThrows(w) \/ \E j \in Job : LoseClaim(w, j)

Work(w) ==
    \/ BeginTransaction(w) \/ CommitTransaction(w)
    \/ DoWork(w) \/ EnqueueFollowUp(w) \/ AckCompleted(w) \/ AckSkipped(w)
    \/ StepThrows(w) \/ FailClaim(w) \/ FinishStep(w)

Maintain(w) ==
    SweepBlocked(w) \/ SweepExpired(w) \/ SweepRemoved(w) \/ MaintainThrows(w)

Heartbeat(w) == SendRenewal(w) \/ RenewalReturns(w)

Next ==
    \/ \E w \in Worker : Dequeue(w) \/ Work(w) \/ Heartbeat(w) \/ Maintain(w) \/ Crash(w)
    \/ \E m \in Message : Produce(m) \/ ClaimAges(m)
    \/ \E j \in Job : Operator(j)
    \/ ProjectDeleted
    \/ Time

Spec == Init /\ [][Next]_vars

(***************************************************************************)
(* Fairness.  Crashes are finite and nothing else is: a lane's loop never  *)
(* stops (runWorkerLane), its statements and transactions time out, so a   *)
(* step it is in ends, by an answer or a throw.  The loop comes to every   *)
(* name and to maintenance again and again, and a step it comes to again   *)
(* and again does not throw every time.                                    *)
(***************************************************************************)
Fairness ==
    /\ \A w \in Worker :
          /\ WF_vars(Work(w))
          /\ WF_vars(RenewalReturns(w))
          /\ WF_vars(RedisEmpty(w))
          /\ WF_vars(ClaimAgain(w))
          /\ SF_vars(ReclaimStale(w)) /\ SF_vars(RedisClaims(w))
          /\ SF_vars(AdoptIngress(w)) /\ SF_vars(AckIngress(w))
          /\ SF_vars(SweepBlocked(w)) /\ SF_vars(SweepExpired(w))
          /\ SF_vars(SweepRemoved(w))
          /\ \A n \in Name : SF_vars(DequeueMisses(w, n))
    /\ \A j \in Job : SF_vars(\E w \in Worker : DequeueJournal(w, j))
    /\ \A m \in Message : WF_vars(ClaimAges(m))
    /\ \A j \in Job : WF_vars(LeaseLapses(j) /\ Time) /\ WF_vars(BackoffEnds(j) /\ Time)

FairSpec == Spec /\ Fairness

(***************************************************************************)
(* Safety                                                                  *)
(***************************************************************************)

\* The types of the journal, the ingress and the lanes.
QueueTypeOK ==
    /\ JobsTypeOK
    /\ ingress \in [Message -> [at : {"none", "list", "taken", "aged"},
                                by : Worker \cup {NoWorker}]]
    /\ pc \in [Worker -> PC]
    /\ name \in [Worker -> Name \cup {NoName}]
    /\ held \in [Worker -> Message \cup {NoMessage}]
    /\ pending \in [Worker -> Claims \cup {NoClaim}]
    /\ todo \in [Worker -> SUBSET Job]
    /\ beat \in [Worker -> Claims \cup {NoClaim}]
    /\ leaseError \in [Worker -> Claims \cup {NoClaim}]
    /\ crashes \in Nat
    /\ done \in [Job -> 0..2]
    /\ journaled \in [Message -> BOOLEAN]

\* The work of a transactional stage takes effect exactly once for a row, and exactly
\* when the row is completed: not twice after a lapsed lease, a crash or a lost answer
\* to the commit, and not for a row that failed or was skipped.  Other work took
\* effect at least once before its row was completed.
EffectMatchesReceipt ==
    \A j \in Job :
        /\ j \in Transactional => done[j] = IF rows[j].status = "completed" THEN 1 ELSE 0
        /\ rows[j].status = "completed" => done[j] >= 1

\* Two lanes are never inside a transaction for the same row, even when the lease
\* lapses inside the first: the row lock, and not the lease, keeps the second out.
ExclusiveTransaction ==
    \A v, w \in Worker : v # w /\ pc[v] = "intx" /\ pc[w] = "intx"
                            => pending[v].job # pending[w].job

\* A lane refuses to acknowledge only because a renewal of the claim it has now
\* failed: a renewal sent for an earlier claim, or one that overtakes the commit,
\* never spoils the next claim.
LeaseErrorIsCurrent ==
    \A w \in Worker : leaseError[w] # NoClaim => leaseError[w] = pending[w]

\* "The worker persists an ingress job before acknowledging its Redis claim; a crash
\* before or after that acknowledgement leaves the durable job": a produced payload
\* is in Redis until it was stored, unless its project is gone.
NothingLost ==
    \A m \in Message : ingress[m].at = "none" /\ projectLive => journaled[m]

\* "Active leases are not expired by cleanup", nor taken by a claim: a row with a
\* live lease changes hands only by a step of the lane that holds the lease, or when
\* the project goes.
LiveLeaseUndisturbed ==
    [][\A j \in Job :
          rows[j].live /\ projectLive' =>
             \/ rows'[j].token = rows[j].token
             \/ \E w \in Worker : /\ pending[w] = [job |-> j, token |-> rows[j].token]
                                  /\ pc'[w] # pc[w]]_vars

\* "Follow-ups are durably inserted before their job is completed": a crash or a throw
\* between the two leaves the job to be run again, never a completed job with a
\* follow-up missing.  (With several lanes a follow-up could be settled and removed
\* first, by a lane that stalls for a whole retention; the runs of this have one.)
FollowUpsBeforeReceipt ==
    [][\A j \in Job : rows[j].status # "completed" /\ rows'[j].status = "completed"
          => \A k \in Follow[j] : rows'[k].status # "absent"]_vars

(***************************************************************************)
(* Liveness, under FairSpec                                                *)
(***************************************************************************)

\* A payload in Redis is adopted and leaves it, through lanes that crash, throw or
\* stall while they hold it: at-least-once delivery.
IngressIsAdopted ==
    \A m \in Message : ingress[m].at # "none" ~> ingress[m].at = "none"

\* An open job is settled, within its attempts, without the help of its retention:
\* no crash, throw, lapsed lease or lost answer leaves a row open for good.
OpenJobsSettle ==
    \A j \in Job : rows[j].status \in {"pending", "running"}
                    ~> rows[j].status \notin {"pending", "running"}

(***************************************************************************)
(* What the queue implements                                               *)
(***************************************************************************)

PhaseOf(row) ==
    CASE row.status = "absent" -> "none"
      [] row.status \in {"pending", "running"} -> "open"
      [] OTHER -> row.status

Ledger == INSTANCE JobLedger WITH phase <- [j \in Job |-> PhaseOf(rows[j])], done <- done

\* Through all of its leases, retries, crashes and clean-ups the queue keeps the
\* promises of JobLedger.
ImplementsLedger == Ledger!Spec

===============================================================================
