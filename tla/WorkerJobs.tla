------------------------------ MODULE WorkerJobs ------------------------------
(***************************************************************************)
(* The Postgres job journal of packages/storage/src/worker-job-store.ts:   *)
(* one operator per SQL statement the store runs, over the table           *)
(* worker_jobs.                                                            *)
(*                                                                         *)
(* A row is identified by a hash of its name, payload, parent and dedupe   *)
(* key, so the parent (depends_on) is a function of the identity: the      *)
(* constant ParentOf.  Simplifications:                                    *)
(*   - now() is not a number.  A row says whether its lease is still       *)
(*     running (live), whether its back-off has elapsed (due) and whether  *)
(*     its retention has ended (stale); time moves these by actions.       *)
(*   - the random lease token is a member of Token that nothing else holds.*)
(*   - one project owns all the rows; projectLive is its row in projects.  *)
(*   - last_error_code, operator_retries and timestamps kept only for the  *)
(*     operator's listing are left out, as are inspect and summary, which  *)
(*     write nothing.                                                      *)
(*                                                                         *)
(* "locked" is the set of rows another transaction has locked FOR UPDATE:  *)
(* claim and maintain pass over them (SKIP LOCKED).                        *)
(*                                                                         *)
(* Definitions marked "Fault", named after the one they follow with an     *)
(* underscore, are slips the code could have made.  Nothing uses them: each*)
(* says what a property must be able to notice.                            *)
(***************************************************************************)
EXTENDS Integers, FiniteSets

CONSTANTS Job,          \* identities a row may have
          NoJob,        \* depends_on IS NULL
          ParentOf,     \* depends_on of each identity
          Token,        \* lease tokens
          NoToken,      \* lease_token IS NULL
          MaxAttempts,  \* MAX_ATTEMPTS, 8 in the code
          BatchLimit    \* LIMIT of a maintenance batch, 500 in the code

ASSUME ParentAssumption == NoJob \notin Job /\ ParentOf \in [Job -> Job \cup {NoJob}]
ASSUME TokenAssumption == NoToken \notin Token
ASSUME LimitAssumption == MaxAttempts \in Nat \ {0} /\ BatchLimit \in Nat \ {0}

VARIABLES rows,         \* the table worker_jobs, an absent row included
          projectLive   \* the project that owns the rows exists

jobVars == <<rows, projectLive>>

Status == {"absent", "pending", "running", "completed", "failed", "skipped"}
Outcome == {"completed", "skipped"}
Claims == [job : Job, token : Token]

Row == [status : Status, attempts : 0..MaxAttempts, token : Token \cup {NoToken},
        live : BOOLEAN, due : BOOLEAN, stale : BOOLEAN, payload : BOOLEAN]

AbsentRow == [status |-> "absent", attempts |-> 0, token |-> NoToken,
              live |-> FALSE, due |-> FALSE, stale |-> FALSE, payload |-> FALSE]

NewRow == [AbsentRow EXCEPT !.status = "pending", !.due = TRUE, !.payload = TRUE]

Present(j) == rows[j].status # "absent"

\* Fault: any settled parent will do.
ParentCompleted_Settled(j) ==
    ParentOf[j] # NoJob => rows[ParentOf[j]].status \in {"completed", "skipped"}

ParentCompleted(j) ==
    ParentOf[j] # NoJob => rows[ParentOf[j]].status = "completed"

(***************************************************************************)
(* enqueue                                                                 *)
(***************************************************************************)

\* The parent row must exist; an earlier insert of the same transaction counts,
\* unless the project is gone and that insert stored nothing.
EnqueueValid(K) ==
    \A k \in K : ParentOf[k] # NoJob =>
                    Present(ParentOf[k]) \/ (ParentOf[k] \in K /\ projectLive)

\* INSERT ... WHERE the project exists ON CONFLICT (id) DO NOTHING.
Inserted(table, K) ==
    [j \in Job |-> IF j \in K /\ projectLive /\ table[j].status = "absent"
                     THEN NewRow ELSE table[j]]

Enqueue(K) ==
    /\ EnqueueValid(K)
    /\ rows' = Inserted(rows, K)
    /\ UNCHANGED projectLive

(***************************************************************************)
(* claim, lock, renew, complete, fail                                      *)
(***************************************************************************)

\* Fault: the attempts are not counted when a lapsed lease is taken over.
Claimable_NoLimit(j, locked) ==
    /\ j \notin locked /\ ~rows[j].stale /\ ParentCompleted(j)
    /\ \/ rows[j].status = "pending" /\ rows[j].due /\ rows[j].attempts < MaxAttempts
       \/ rows[j].status = "running" /\ ~rows[j].live

Claimable(j, locked) ==
    /\ j \notin locked
    /\ rows[j].attempts < MaxAttempts
    /\ ~rows[j].stale
    /\ ParentCompleted(j)
    /\ \/ rows[j].status = "pending" /\ rows[j].due
       \/ rows[j].status = "running" /\ ~rows[j].live

Leased(row, t) ==
    [row EXCEPT !.status = "running", !.attempts = @ + 1, !.token = t,
                !.live = TRUE, !.due = TRUE]

Claim(j, t, locked) ==
    /\ Claimable(j, locked)
    /\ rows' = [rows EXCEPT ![j] = Leased(@, t)]
    /\ UNCHANGED projectLive

\* WHERE id = claim.id AND lease_token = claim.token AND status = 'running'.
Owns(c) == rows[c.job].status = "running" /\ rows[c.job].token = c.token

\* lock and renew also ask for an unexpired lease.
OwnsLive(c) == Owns(c) /\ rows[c.job].live

Renew(c) ==
    /\ OwnsLive(c)
    /\ UNCHANGED jobVars   \* lease_expires_at moves on: live stays TRUE

Receipt(row, outcome) ==
    [row EXCEPT !.status = outcome, !.payload = FALSE, !.token = NoToken,
                !.live = FALSE, !.stale = FALSE]

\* complete, in one transaction with the follow-ups K it enqueued before.
Complete(c, outcome, K) ==
    /\ Owns(c)
    /\ EnqueueValid(K)
    /\ rows' = [Inserted(rows, K) EXCEPT ![c.job] = Receipt(rows[c.job], outcome)]
    /\ UNCHANGED projectLive

Released(row) ==
    IF row.attempts >= MaxAttempts
      THEN [row EXCEPT !.status = "failed", !.token = NoToken, !.live = FALSE]
      ELSE [row EXCEPT !.status = "pending", !.token = NoToken, !.live = FALSE,
                       !.due = FALSE]

\* Fault: WHERE id = $1 alone.
Fail_Unfenced(c) ==
    /\ rows' = IF Present(c.job) THEN [rows EXCEPT ![c.job] = Released(@)] ELSE rows
    /\ UNCHANGED projectLive

\* No row count is checked here: without ownership fail changes nothing.
Fail(c) ==
    /\ rows' = IF Owns(c) THEN [rows EXCEPT ![c.job] = Released(@)] ELSE rows
    /\ UNCHANGED projectLive

(***************************************************************************)
(* maintain: three statements, each a bounded batch of its own             *)
(***************************************************************************)

\* ORDER BY ... LIMIT BatchLimit: all of a small set, a full batch of a large one.
Batch(S, eligible) ==
    /\ S \subseteq eligible
    /\ S = eligible \/ Cardinality(S) = BatchLimit

\* Fault: only a failed parent blocks its children.
BlockedRows_FailedOnly(locked) ==
    {j \in Job \ locked : /\ rows[j].status = "pending" /\ ParentOf[j] # NoJob
                          /\ rows[ParentOf[j]].status = "failed"}

BlockedRows(locked) ==
    {j \in Job \ locked : /\ rows[j].status = "pending"
                          /\ ParentOf[j] # NoJob
                          /\ rows[ParentOf[j]].status \in {"failed", "skipped"}}

UpstreamUnavailable(j) ==
    IF rows[ParentOf[j]].status = "skipped"
      THEN [rows[j] EXCEPT !.status = "skipped", !.payload = FALSE]
      ELSE [rows[j] EXCEPT !.status = "failed"]

MaintainBlocked(locked) ==
    \E S \in SUBSET BlockedRows(locked) :
        /\ Batch(S, BlockedRows(locked))
        /\ rows' = [j \in Job |-> IF j \in S THEN UpstreamUnavailable(j) ELSE rows[j]]
        /\ UNCHANGED projectLive

\* Fault: failed rows keep their payload.
EvidenceExpired_OpenOnly(j) ==
    /\ rows[j].status \in {"pending", "running"}
    /\ rows[j].payload /\ rows[j].stale /\ ~rows[j].live

\* Fault: leases are not looked at.
EvidenceExpired_AnyLease(j) ==
    /\ rows[j].status \in {"pending", "running", "failed"}
    /\ rows[j].payload /\ rows[j].stale

\* Fault: an attempt too many is waited for, which claim does not give.
AttemptsExhausted_OneMore(j) ==
    rows[j].status = "running" /\ ~rows[j].live /\ rows[j].attempts > MaxAttempts

AttemptsExhausted(j) ==
    rows[j].status = "running" /\ ~rows[j].live /\ rows[j].attempts >= MaxAttempts

EvidenceExpired(j) ==
    /\ rows[j].status \in {"pending", "running", "failed"}
    /\ rows[j].payload
    /\ rows[j].stale
    /\ ~rows[j].live

ExpiredRows(locked) ==
    {j \in Job \ locked : AttemptsExhausted(j) \/ EvidenceExpired(j)}

\* A row past its retention loses its payload and starts a second retention.
Expired(row) ==
    [row EXCEPT !.status = "failed", !.token = NoToken, !.live = FALSE,
                !.payload = @ /\ ~row.stale, !.stale = FALSE]

MaintainExpired(locked) ==
    \E S \in SUBSET ExpiredRows(locked) :
        /\ Batch(S, ExpiredRows(locked))
        /\ rows' = [j \in Job |-> IF j \in S THEN Expired(rows[j]) ELSE rows[j]]
        /\ UNCHANGED projectLive

\* Fault: only children that are still open hold their parent.
HasChild_Open(j) ==
    \E k \in Job : ParentOf[k] = j /\ rows[k].status \in {"pending", "running"}

HasChild(j) == \E k \in Job : ParentOf[k] = j /\ Present(k)

RemovableRows(locked) ==
    {j \in Job \ locked : /\ ~HasChild(j)
                          /\ rows[j].stale
                          /\ \/ rows[j].status \in {"completed", "skipped"}
                             \/ rows[j].status = "failed" /\ ~rows[j].payload}

MaintainRemoved(locked) ==
    \E S \in SUBSET RemovableRows(locked) :
        /\ Batch(S, RemovableRows(locked))
        /\ rows' = [j \in Job |-> IF j \in S THEN AbsentRow ELSE rows[j]]
        /\ UNCHANGED projectLive

(***************************************************************************)
(* the operator, the project and the clock                                 *)
(***************************************************************************)

\* Fault: the payload IS NOT NULL test is forgotten.
Retryable_NoPayload(j) ==
    rows[j].status = "failed" /\ ~rows[j].stale /\ ParentCompleted(j)

Retryable(j) ==
    /\ rows[j].status = "failed"
    /\ rows[j].payload
    /\ ~rows[j].stale
    /\ ParentCompleted(j)

\* expires_at stays: a retry has what is left of the retention.
Retried(row) == [row EXCEPT !.status = "pending", !.attempts = 0, !.due = TRUE]

RetryFailed(j) ==
    /\ Retryable(j)
    /\ rows' = [rows EXCEPT ![j] = Retried(@)]
    /\ UNCHANGED projectLive

\* ON DELETE CASCADE; the cascade waits for a row that is locked.
DeleteProject(locked) ==
    /\ projectLive
    /\ locked = {}
    /\ projectLive' = FALSE
    /\ rows' = [j \in Job |-> AbsentRow]

LeaseLapses(j) ==
    /\ rows[j].live
    /\ rows' = [rows EXCEPT ![j].live = FALSE]
    /\ UNCHANGED projectLive

BackoffEnds(j) ==
    /\ rows[j].status = "pending" /\ ~rows[j].due
    /\ rows' = [rows EXCEPT ![j].due = TRUE]
    /\ UNCHANGED projectLive

RetentionEnds(j) ==
    /\ Present(j) /\ ~rows[j].stale
    /\ rows' = [rows EXCEPT ![j].stale = TRUE]
    /\ UNCHANGED projectLive

(***************************************************************************)
(* The journal under its most general client: any statement, at any time,  *)
(* with any claim, a forgotten one included.                               *)
(***************************************************************************)

JobsInit == rows = [j \in Job |-> AbsentRow] /\ projectLive = TRUE

JobsTime == \E j \in Job : LeaseLapses(j) \/ BackoffEnds(j) \/ RetentionEnds(j)

JobsNext ==
    \/ \E K \in SUBSET Job : Enqueue(K)
    \/ \E locked \in SUBSET Job :
          \/ \E j \in Job, t \in Token : Claim(j, t, locked)
          \/ MaintainBlocked(locked)
          \/ MaintainExpired(locked)
          \/ MaintainRemoved(locked)
          \/ DeleteProject(locked)
    \/ \E c \in Claims : \/ Renew(c)
                         \/ Fail(c)
                         \/ \E o \in Outcome, K \in SUBSET Job : Complete(c, o, K)
    \/ \E j \in Job : RetryFailed(j)
    \/ JobsTime

JobsSpec == JobsInit /\ [][JobsNext]_jobVars

\* Some worker's loop maintains the journal; of its clients nothing is sure.  No
\* row needs its retention to end for what a sweep does of itself.
JobsFairSpec == JobsSpec /\ WF_jobVars(MaintainBlocked({}))

\* Leases and retentions end, and maintenance goes on to look for those that did.
RetentionPasses ==
    /\ WF_jobVars(MaintainExpired({}))
    /\ \A j \in Job : WF_jobVars(LeaseLapses(j)) /\ WF_jobVars(RetentionEnds(j))

(***************************************************************************)
(* Properties                                                              *)
(***************************************************************************)

\* The types of the table and the flag.
JobsTypeOK == rows \in [Job -> Row] /\ projectLive \in BOOLEAN

\* Work that can still run has what it needs to run, and is owned exactly when
\* it runs: a pending or running row keeps its payload and a settled one has none
\* left, a token goes with status 'running' (the table's CHECK), a live lease needs
\* one, and a pending row still has an attempt left, so it can be claimed again.
OpenWorkIsRunnable ==
    \A j \in Job :
        /\ rows[j].status \in {"pending", "running"} => rows[j].payload
        /\ rows[j].status \in {"completed", "skipped"} => ~rows[j].payload
        /\ (rows[j].status = "running") <=> (rows[j].token # NoToken)
        /\ rows[j].live => rows[j].status = "running"
        /\ rows[j].status = "pending" => rows[j].attempts < MaxAttempts

\* A job with a parent runs, and stays completed, only on top of a parent row that
\* is still there and completed: claim looks at the parent once, and neither
\* maintain nor a late statement may take the parent away under the child.
ChildRestsOnCompletedParent ==
    \A j \in Job :
        ParentOf[j] # NoJob /\ rows[j].status \in {"running", "completed"}
            => rows[ParentOf[j]].status = "completed"

\* depends_on REFERENCES worker_jobs(id): a dependency receipt outlives its children.
ParentOutlivesChild ==
    \A j \in Job : ParentOf[j] # NoJob /\ Present(j) => Present(ParentOf[j])

\* What was completed or skipped is never run again while its receipt is there,
\* whoever calls complete, fail, claim, maintain or retryFailed with whatever claim.
SettledIsFinal ==
    [][\A j \in Job : rows[j].status \in Outcome
                        => rows'[j].status \in {rows[j].status, "absent"}]_jobVars

\* spec/worker-durability.md: "Successful/skipped jobs clear their payload
\* immediately and retain a seven-day dedupe receipt": a row that becomes completed
\* or skipped starts a retention of its own.
ReceiptIsRetained ==
    [][\A j \in Job : rows[j].status \notin Outcome /\ rows'[j].status \in Outcome
                        => ~rows'[j].stale]_jobVars

\* "Pending/failed payloads expire seven days after enqueue; retry does not extend
\* that evidence window": no sequence of claims, renewals, failures and operator
\* retries keeps a payload in the journal for good, once retentions end.
EvidenceIsBounded ==
    RetentionPasses => \A j \in Job : rows[j].payload ~> ~rows[j].payload

\* "An exhausted build leaves dependent work failed and visible", and a skipped one
\* suppresses it: a child does not wait for its retention to end on a parent that
\* will not complete.
BlockedChildSettles ==
    \A j \in {k \in Job : ParentOf[k] # NoJob} :
        (rows[j].status = "pending" /\ rows[ParentOf[j]].status \in {"failed", "skipped"})
          ~> (rows[j].status # "pending"
                \/ rows[ParentOf[j]].status \in {"pending", "running", "completed"})
===============================================================================
