--------------------------- MODULE WorkerJobsProofs ---------------------------
(***************************************************************************)
(* The invariants of the journal, for every set of jobs and tokens and     *)
(* every bound, proved of its most general client.                         *)
(*                                                                         *)
(* JobsInv is inductive: the three invariants that TLC checks lean on one  *)
(* another.  A child rests on a completed parent only because a completed  *)
(* row is never running again, and the parent stays in the table only      *)
(* because removal looks for children.                                     *)
(***************************************************************************)
EXTENDS WorkerJobs, TLAPS

JobsInv ==
    /\ JobsTypeOK
    /\ OpenWorkIsRunnable
    /\ ChildRestsOnCompletedParent
    /\ ParentOutlivesChild

USE ParentAssumption, TokenAssumption, LimitAssumption

(***************************************************************************)
(* What the statements do to one row                                       *)
(***************************************************************************)

\* A row the journal inserts, and the row that stands for none.
LEMMA NewRowForm ==
    /\ AbsentRow \in Row
    /\ NewRow \in Row
    /\ NewRow = [status |-> "pending", attempts |-> 0, token |-> NoToken,
                 live |-> FALSE, due |-> TRUE, stale |-> FALSE, payload |-> TRUE]
  <1>1. AbsentRow \in Row
    BY DEF AbsentRow, Row, Status
  <1>2. NewRow = [[[AbsentRow EXCEPT !.status = "pending"] EXCEPT !.due = TRUE]
                    EXCEPT !.payload = TRUE]
    BY DEF NewRow
  <1>3. NewRow = [status |-> "pending", attempts |-> 0, token |-> NoToken,
                  live |-> FALSE, due |-> TRUE, stale |-> FALSE, payload |-> TRUE]
    BY <1>2 DEF AbsentRow
  <1> QED BY <1>1, <1>3 DEF Row, Status

\* A claimed row.
LEMMA LeasedForm ==
    ASSUME NEW r \in Row, NEW t \in Token, r.attempts < MaxAttempts
    PROVE  /\ Leased(r, t) \in Row
           /\ Leased(r, t) = [status |-> "running", attempts |-> r.attempts + 1,
                              token |-> t, live |-> TRUE, due |-> TRUE,
                              stale |-> r.stale, payload |-> r.payload]
  <1>1. Leased(r, t) = [[[[[r EXCEPT !.status = "running"] EXCEPT !.attempts = @ + 1]
                            EXCEPT !.token = t] EXCEPT !.live = TRUE] EXCEPT !.due = TRUE]
    BY DEF Leased
  <1>2. Leased(r, t) = [status |-> "running", attempts |-> r.attempts + 1,
                        token |-> t, live |-> TRUE, due |-> TRUE,
                        stale |-> r.stale, payload |-> r.payload]
    BY <1>1 DEF Row
  <1> QED BY <1>2 DEF Row, Status

\* A completed or skipped row.
LEMMA ReceiptForm ==
    ASSUME NEW r \in Row, NEW o \in Outcome
    PROVE  /\ Receipt(r, o) \in Row
           /\ Receipt(r, o) = [status |-> o, attempts |-> r.attempts,
                               token |-> NoToken, live |-> FALSE, due |-> r.due,
                               stale |-> FALSE, payload |-> FALSE]
  <1>1. Receipt(r, o) = [[[[[r EXCEPT !.status = o] EXCEPT !.payload = FALSE]
                            EXCEPT !.token = NoToken] EXCEPT !.live = FALSE]
                            EXCEPT !.stale = FALSE]
    BY DEF Receipt
  <1>2. Receipt(r, o) = [status |-> o, attempts |-> r.attempts,
                         token |-> NoToken, live |-> FALSE, due |-> r.due,
                         stale |-> FALSE, payload |-> FALSE]
    BY <1>1 DEF Row
  <1> QED BY <1>2 DEF Row, Status, Outcome

\* A row whose claim failed: open again while it has attempts left.
LEMMA ReleasedForm ==
    ASSUME NEW r \in Row
    PROVE  /\ Released(r) \in Row
           /\ Released(r).token = NoToken /\ Released(r).live = FALSE
           /\ Released(r).payload = r.payload
           /\ Released(r).attempts = r.attempts
           /\ Released(r).status = IF r.attempts >= MaxAttempts THEN "failed" ELSE "pending"
  <1>1. CASE r.attempts >= MaxAttempts
    <2>1. Released(r) = [[[r EXCEPT !.status = "failed"] EXCEPT !.token = NoToken]
                            EXCEPT !.live = FALSE]
      BY <1>1 DEF Released
    <2>2. Released(r) = [status |-> "failed", attempts |-> r.attempts, token |-> NoToken,
                         live |-> FALSE, due |-> r.due, stale |-> r.stale,
                         payload |-> r.payload]
      BY <2>1 DEF Row
    <2> QED BY <1>1, <2>2 DEF Row, Status
  <1>2. CASE ~(r.attempts >= MaxAttempts)
    <2>1. Released(r) = [[[[r EXCEPT !.status = "pending"] EXCEPT !.token = NoToken]
                            EXCEPT !.live = FALSE] EXCEPT !.due = FALSE]
      BY <1>2 DEF Released
    <2>2. Released(r) = [status |-> "pending", attempts |-> r.attempts, token |-> NoToken,
                         live |-> FALSE, due |-> FALSE, stale |-> r.stale,
                         payload |-> r.payload]
      BY <2>1 DEF Row
    <2> QED BY <1>2, <2>2 DEF Row, Status
  <1> QED BY <1>1, <1>2

\* A row that ran out of attempts or of retention.
LEMMA ExpiredForm ==
    ASSUME NEW r \in Row
    PROVE  /\ Expired(r) \in Row
           /\ Expired(r).status = "failed"
           /\ Expired(r).token = NoToken /\ Expired(r).live = FALSE
  <1>1. Expired(r) = [[[[[r EXCEPT !.status = "failed"] EXCEPT !.token = NoToken]
                          EXCEPT !.live = FALSE] EXCEPT !.payload = @ /\ ~r.stale]
                          EXCEPT !.stale = FALSE]
    BY DEF Expired
  <1>2. Expired(r) = [status |-> "failed", attempts |-> r.attempts, token |-> NoToken,
                      live |-> FALSE, due |-> r.due, stale |-> FALSE,
                      payload |-> r.payload /\ ~r.stale]
    BY <1>1 DEF Row
  <1> QED BY <1>2 DEF Row, Status

\* A row the operator retries.
LEMMA RetriedForm ==
    ASSUME NEW r \in Row
    PROVE  /\ Retried(r) \in Row
           /\ Retried(r) = [status |-> "pending", attempts |-> 0, token |-> r.token,
                            live |-> r.live, due |-> TRUE, stale |-> r.stale,
                            payload |-> r.payload]
  <1>1. Retried(r) = [[[r EXCEPT !.status = "pending"] EXCEPT !.attempts = 0]
                        EXCEPT !.due = TRUE]
    BY DEF Retried
  <1>2. Retried(r) = [status |-> "pending", attempts |-> 0, token |-> r.token,
                      live |-> r.live, due |-> TRUE, stale |-> r.stale,
                      payload |-> r.payload]
    BY <1>1 DEF Row
  <1> QED BY <1>2 DEF Row, Status

\* A child whose parent will not complete.
LEMMA UpstreamForm ==
    ASSUME NEW j \in Job, rows[j] \in Row
    PROVE  /\ UpstreamUnavailable(j) \in Row
           /\ UpstreamUnavailable(j).status \in {"skipped", "failed"}
           /\ UpstreamUnavailable(j).status = "skipped" => ~UpstreamUnavailable(j).payload
           /\ UpstreamUnavailable(j).token = rows[j].token
           /\ UpstreamUnavailable(j).live = rows[j].live
  <1>1. CASE rows[ParentOf[j]].status = "skipped"
    <2>1. UpstreamUnavailable(j) = [[rows[j] EXCEPT !.status = "skipped"]
                                      EXCEPT !.payload = FALSE]
      BY <1>1 DEF UpstreamUnavailable
    <2>2. UpstreamUnavailable(j) =
            [status |-> "skipped", attempts |-> rows[j].attempts, token |-> rows[j].token,
             live |-> rows[j].live, due |-> rows[j].due, stale |-> rows[j].stale,
             payload |-> FALSE]
      BY <2>1 DEF Row
    <2> QED BY <2>2 DEF Row, Status
  <1>2. CASE ~(rows[ParentOf[j]].status = "skipped")
    <2>1. UpstreamUnavailable(j) = [rows[j] EXCEPT !.status = "failed"]
      BY <1>2 DEF UpstreamUnavailable
    <2> QED BY <2>1 DEF Row, Status
  <1> QED BY <1>1, <1>2

(***************************************************************************)
(* Each statement preserves the invariant                                  *)
(***************************************************************************)

\* enqueue: every new row is pending, and its parent is there or comes with it.
LEMMA EnqueueStep ==
    ASSUME JobsInv, NEW K \in SUBSET Job, Enqueue(K)
    PROVE  JobsInv'
  <1>1. JobsTypeOK'
    BY NewRowForm DEF JobsInv, JobsTypeOK, Enqueue, Inserted
  <1>2. OpenWorkIsRunnable'
    BY NewRowForm DEF JobsInv, JobsTypeOK, OpenWorkIsRunnable, Enqueue, Inserted
  <1>3. ChildRestsOnCompletedParent'
    BY NewRowForm
    DEF JobsInv, JobsTypeOK, ChildRestsOnCompletedParent, Enqueue, Inserted
  <1>4. ParentOutlivesChild'
    BY NewRowForm
    DEF JobsInv, JobsTypeOK, ParentOutlivesChild, Enqueue, EnqueueValid, Inserted, Present
  <1> QED BY <1>1, <1>2, <1>3, <1>4 DEF JobsInv

\* claim: the parent is completed, and the claimed row was nobody's completed parent.
LEMMA ClaimStep ==
    ASSUME JobsInv, NEW j \in Job, NEW t \in Token, NEW locked, Claim(j, t, locked)
    PROVE  JobsInv'
  <1> DEFINE new == Leased(rows[j], t)
  <1>1. /\ new \in Row
        /\ new.status = "running" /\ new.token = t /\ new.token # NoToken
        /\ new.payload = rows[j].payload
        /\ rows[j].status \in {"pending", "running"}
    BY LeasedForm DEF JobsInv, JobsTypeOK, Claim, Claimable, Row
  <1>2. rows' = [rows EXCEPT ![j] = new] /\ projectLive' = projectLive
    BY DEF Claim
  <1> HIDE DEF new
  <1>3. JobsTypeOK'
    BY <1>1, <1>2 DEF JobsInv, JobsTypeOK
  <1>4. OpenWorkIsRunnable'
    BY <1>1, <1>2 DEF JobsInv, JobsTypeOK, OpenWorkIsRunnable
  <1>5. ChildRestsOnCompletedParent'
    BY <1>1, <1>2 DEF JobsInv, JobsTypeOK, ChildRestsOnCompletedParent, Claim, Claimable,
                      ParentCompleted
  <1>6. ParentOutlivesChild'
    BY <1>1, <1>2 DEF JobsInv, JobsTypeOK, ParentOutlivesChild, Present
  <1> QED BY <1>3, <1>4, <1>5, <1>6 DEF JobsInv

\* complete, with the follow-ups of its transaction: a row that ran had a completed
\* parent, and nothing rested on it yet.
LEMMA CompleteStep ==
    ASSUME JobsInv, NEW c \in Claims, NEW o \in Outcome, NEW K \in SUBSET Job,
           Complete(c, o, K)
    PROVE  JobsInv'
  <1> DEFINE new == Receipt(rows[c.job], o)
             table == Inserted(rows, K)
  <1>0. c.job \in Job /\ rows[c.job].status = "running"
    BY DEF Claims, Complete, Owns
  <1>1. /\ new \in Row
        /\ new.status \in {"completed", "skipped"} /\ new.token = NoToken
        /\ ~new.live /\ ~new.payload
    <2>1. rows[c.job] \in Row
      BY <1>0 DEF JobsInv, JobsTypeOK
    <2>2. new \in Row /\ new = [status |-> o, attempts |-> rows[c.job].attempts,
                               token |-> NoToken, live |-> FALSE, due |-> rows[c.job].due,
                               stale |-> FALSE, payload |-> FALSE]
      BY <2>1, ReceiptForm
    <2> QED BY <2>2 DEF Outcome
  <1>2. /\ table \in [Job -> Row]
        /\ \A j \in Job : table[j] = NewRow \/ table[j] = rows[j]
        /\ \A j \in Job : rows[j].status # "absent" => table[j] = rows[j]
        /\ \A j \in Job : table[j].status # "absent" /\ table[j] # rows[j] /\ ParentOf[j] # NoJob
                            => table[ParentOf[j]].status # "absent"
    BY NewRowForm DEF JobsInv, JobsTypeOK, Inserted, Complete, EnqueueValid, Present
  <1>3. rows' = [table EXCEPT ![c.job] = new] /\ projectLive' = projectLive
    BY DEF Complete
  <1> HIDE DEF new, table
  <1>4. JobsTypeOK'
    BY <1>0, <1>1, <1>2, <1>3 DEF JobsInv, JobsTypeOK
  <1>5. OpenWorkIsRunnable'
    BY <1>0, <1>1, <1>2, <1>3, NewRowForm DEF JobsInv, JobsTypeOK, OpenWorkIsRunnable
  <1>6. ChildRestsOnCompletedParent'
    BY <1>0, <1>1, <1>2, <1>3, NewRowForm
    DEF JobsInv, JobsTypeOK, ChildRestsOnCompletedParent
  <1>7. ParentOutlivesChild'
    BY <1>0, <1>1, <1>2, <1>3 DEF JobsInv, JobsTypeOK, ParentOutlivesChild, Present
  <1> QED BY <1>4, <1>5, <1>6, <1>7 DEF JobsInv

\* fail: back to pending with an attempt left, or failed; never under a child.
LEMMA FailStep ==
    ASSUME JobsInv, NEW c \in Claims, Fail(c)
    PROVE  JobsInv'
  <1> DEFINE new == Released(rows[c.job])
  <1>1. CASE ~Owns(c)
    BY <1>1 DEF Fail, JobsInv, JobsTypeOK, OpenWorkIsRunnable,
                ChildRestsOnCompletedParent, ParentOutlivesChild, Present
  <1>2. CASE Owns(c)
    <2>0. c.job \in Job /\ rows[c.job].status = "running"
      BY <1>2 DEF Claims, Owns
    <2>1. /\ new \in Row
          /\ new.status \in {"pending", "failed"} /\ new.token = NoToken /\ ~new.live
          /\ new.payload = rows[c.job].payload
          /\ new.status = "pending" => new.attempts < MaxAttempts
      <3>1. rows[c.job] \in Row /\ rows[c.job].attempts \in Nat
        BY <2>0 DEF JobsInv, JobsTypeOK, Row
      <3>2. /\ new \in Row /\ new.token = NoToken /\ new.live = FALSE
            /\ new.payload = rows[c.job].payload
            /\ new.attempts = rows[c.job].attempts
            /\ new.status = IF rows[c.job].attempts >= MaxAttempts THEN "failed" ELSE "pending"
        BY <3>1, ReleasedForm
      <3> HIDE DEF new
      <3> QED BY <3>1, <3>2
    <2>2. rows' = [rows EXCEPT ![c.job] = new] /\ projectLive' = projectLive
      BY <1>2 DEF Fail
    <2> HIDE DEF new
    <2>3. JobsTypeOK'
      BY <2>0, <2>1, <2>2 DEF JobsInv, JobsTypeOK
    <2>4. OpenWorkIsRunnable'
      BY <2>0, <2>1, <2>2 DEF JobsInv, JobsTypeOK, OpenWorkIsRunnable
    <2>5. ChildRestsOnCompletedParent'
      BY <2>0, <2>1, <2>2 DEF JobsInv, JobsTypeOK, ChildRestsOnCompletedParent
    <2>6. ParentOutlivesChild'
      BY <2>0, <2>1, <2>2 DEF JobsInv, JobsTypeOK, ParentOutlivesChild, Present
    <2> QED BY <2>3, <2>4, <2>5, <2>6 DEF JobsInv
  <1> QED BY <1>1, <1>2

\* maintain's first statement: only pending rows change, and no child rests on one.
LEMMA BlockedStep ==
    ASSUME JobsInv, NEW locked, MaintainBlocked(locked)
    PROVE  JobsInv'
  <1>1. PICK S \in SUBSET BlockedRows(locked) :
            /\ rows' = [j \in Job |-> IF j \in S THEN UpstreamUnavailable(j) ELSE rows[j]]
            /\ projectLive' = projectLive
    BY DEF MaintainBlocked
  <1>2. \A j \in S : /\ j \in Job /\ rows[j].status = "pending"
                     /\ UpstreamUnavailable(j) \in Row
                     /\ UpstreamUnavailable(j).status \in {"skipped", "failed"}
                     /\ UpstreamUnavailable(j).status = "skipped"
                            => ~UpstreamUnavailable(j).payload
                     /\ UpstreamUnavailable(j).token = NoToken
                     /\ ~UpstreamUnavailable(j).live
    BY UpstreamForm DEF BlockedRows, JobsInv, JobsTypeOK, OpenWorkIsRunnable
  <1>3. JobsTypeOK'
    BY <1>1, <1>2 DEF JobsInv, JobsTypeOK
  <1>4. OpenWorkIsRunnable'
    BY <1>1, <1>2 DEF JobsInv, JobsTypeOK, OpenWorkIsRunnable
  <1>5. ChildRestsOnCompletedParent'
    BY <1>1, <1>2 DEF JobsInv, JobsTypeOK, ChildRestsOnCompletedParent
  <1>6. ParentOutlivesChild'
    BY <1>1, <1>2 DEF JobsInv, JobsTypeOK, ParentOutlivesChild, Present
  <1> QED BY <1>3, <1>4, <1>5, <1>6 DEF JobsInv

\* maintain's second statement: completed rows are not among those it fails.
LEMMA ExpiredStep ==
    ASSUME JobsInv, NEW locked, MaintainExpired(locked)
    PROVE  JobsInv'
  <1>1. PICK S \in SUBSET ExpiredRows(locked) :
            /\ rows' = [j \in Job |-> IF j \in S THEN Expired(rows[j]) ELSE rows[j]]
            /\ projectLive' = projectLive
    BY DEF MaintainExpired
  <1>2. \A j \in S : /\ j \in Job /\ rows[j].status \in {"pending", "running", "failed"}
                     /\ Expired(rows[j]) \in Row
                     /\ Expired(rows[j]).status = "failed"
                     /\ Expired(rows[j]).token = NoToken
                     /\ ~Expired(rows[j]).live
    BY ExpiredForm DEF ExpiredRows, AttemptsExhausted, EvidenceExpired, JobsInv, JobsTypeOK
  <1>3. JobsTypeOK'
    BY <1>1, <1>2 DEF JobsInv, JobsTypeOK
  <1>4. OpenWorkIsRunnable'
    BY <1>1, <1>2 DEF JobsInv, JobsTypeOK, OpenWorkIsRunnable
  <1>5. ChildRestsOnCompletedParent'
    BY <1>1, <1>2 DEF JobsInv, JobsTypeOK, ChildRestsOnCompletedParent
  <1>6. ParentOutlivesChild'
    BY <1>1, <1>2 DEF JobsInv, JobsTypeOK, ParentOutlivesChild, Present
  <1> QED BY <1>3, <1>4, <1>5, <1>6 DEF JobsInv

\* maintain's third statement: a removed row had no child to rest on it.
LEMMA RemovedStep ==
    ASSUME JobsInv, NEW locked, MaintainRemoved(locked)
    PROVE  JobsInv'
  <1>1. PICK S \in SUBSET RemovableRows(locked) :
            /\ rows' = [j \in Job |-> IF j \in S THEN AbsentRow ELSE rows[j]]
            /\ projectLive' = projectLive
    BY DEF MaintainRemoved
  <1>2. \A j \in S, k \in Job : j \in Job /\ (ParentOf[k] = j => rows[k].status = "absent")
    BY <1>1 DEF RemovableRows, HasChild, Present
  <1>3. JobsTypeOK'
    BY <1>1, NewRowForm DEF JobsInv, JobsTypeOK
  <1>4. OpenWorkIsRunnable'
    BY <1>1, NewRowForm DEF JobsInv, JobsTypeOK, OpenWorkIsRunnable, AbsentRow
  <1>5. ChildRestsOnCompletedParent'
    BY <1>1, <1>2 DEF JobsInv, JobsTypeOK, ChildRestsOnCompletedParent, AbsentRow
  <1>6. ParentOutlivesChild'
    BY <1>1, <1>2 DEF JobsInv, JobsTypeOK, ParentOutlivesChild, Present, AbsentRow
  <1> QED BY <1>3, <1>4, <1>5, <1>6 DEF JobsInv

\* retryFailed: the payload is still there, and the attempts begin again.
LEMMA RetryStep ==
    ASSUME JobsInv, NEW j \in Job, RetryFailed(j)
    PROVE  JobsInv'
  <1> DEFINE new == Retried(rows[j])
  <1>1. /\ new \in Row /\ new.status = "pending" /\ new.payload
        /\ new.token = NoToken /\ ~new.live /\ new.attempts < MaxAttempts
        /\ rows[j].status = "failed"
    BY RetriedForm DEF JobsInv, JobsTypeOK, OpenWorkIsRunnable, RetryFailed, Retryable
  <1>2. rows' = [rows EXCEPT ![j] = new] /\ projectLive' = projectLive
    BY DEF RetryFailed
  <1> HIDE DEF new
  <1>3. JobsTypeOK'
    BY <1>1, <1>2 DEF JobsInv, JobsTypeOK
  <1>4. OpenWorkIsRunnable'
    BY <1>1, <1>2 DEF JobsInv, JobsTypeOK, OpenWorkIsRunnable
  <1>5. ChildRestsOnCompletedParent'
    BY <1>1, <1>2 DEF JobsInv, JobsTypeOK, ChildRestsOnCompletedParent
  <1>6. ParentOutlivesChild'
    BY <1>1, <1>2 DEF JobsInv, JobsTypeOK, ParentOutlivesChild, Present
  <1> QED BY <1>3, <1>4, <1>5, <1>6 DEF JobsInv

\* The project's deletion leaves no row at all.
LEMMA DeleteStep ==
    ASSUME JobsInv, NEW locked, DeleteProject(locked)
    PROVE  JobsInv'
  <1>1. \A j \in Job : rows'[j].status = "absent" /\ rows'[j].token = NoToken /\ ~rows'[j].live
    BY DEF DeleteProject, AbsentRow
  <1>2. JobsTypeOK'
    BY NewRowForm DEF DeleteProject, JobsTypeOK
  <1> QED BY <1>1, <1>2 DEF JobsInv, OpenWorkIsRunnable, ChildRestsOnCompletedParent,
                            ParentOutlivesChild, Present

\* Time moves flags alone, and a lease ends without ending the claim.
LEMMA TimeStep ==
    ASSUME JobsInv, JobsTime
    PROVE  JobsInv'
  <1>1. PICK j \in Job : LeaseLapses(j) \/ BackoffEnds(j) \/ RetentionEnds(j)
    BY DEF JobsTime
  <1>2. PICK new \in Row :
            /\ rows' = [rows EXCEPT ![j] = new]
            /\ projectLive' = projectLive
            /\ new.status = rows[j].status /\ new.attempts = rows[j].attempts
            /\ new.token = rows[j].token /\ new.payload = rows[j].payload
            /\ new.live => rows[j].live
    <2>1. rows[j] \in Row
      BY DEF JobsInv, JobsTypeOK
    <2>2. CASE LeaseLapses(j)
      <3> DEFINE r == [rows[j] EXCEPT !.live = FALSE]
      <3>1. /\ r \in Row /\ r.status = rows[j].status /\ r.attempts = rows[j].attempts
            /\ r.token = rows[j].token /\ r.payload = rows[j].payload
            /\ r.live => rows[j].live
        BY <2>1 DEF Row
      <3>2. rows' = [rows EXCEPT ![j] = r] /\ projectLive' = projectLive
        BY <2>2 DEF LeaseLapses
      <3> HIDE DEF r
      <3> QED BY <3>1, <3>2
    <2>3. CASE BackoffEnds(j)
      <3> DEFINE r == [rows[j] EXCEPT !.due = TRUE]
      <3>1. /\ r \in Row /\ r.status = rows[j].status /\ r.attempts = rows[j].attempts
            /\ r.token = rows[j].token /\ r.payload = rows[j].payload
            /\ r.live => rows[j].live
        BY <2>1 DEF Row
      <3>2. rows' = [rows EXCEPT ![j] = r] /\ projectLive' = projectLive
        BY <2>3 DEF BackoffEnds
      <3> HIDE DEF r
      <3> QED BY <3>1, <3>2
    <2>4. CASE RetentionEnds(j)
      <3> DEFINE r == [rows[j] EXCEPT !.stale = TRUE]
      <3>1. /\ r \in Row /\ r.status = rows[j].status /\ r.attempts = rows[j].attempts
            /\ r.token = rows[j].token /\ r.payload = rows[j].payload
            /\ r.live => rows[j].live
        BY <2>1 DEF Row
      <3>2. rows' = [rows EXCEPT ![j] = r] /\ projectLive' = projectLive
        BY <2>4 DEF RetentionEnds
      <3> HIDE DEF r
      <3> QED BY <3>1, <3>2
    <2> QED BY <1>1, <2>2, <2>3, <2>4
  <1>3. JobsTypeOK'
    BY <1>2 DEF JobsInv, JobsTypeOK
  <1>4. OpenWorkIsRunnable'
    BY <1>2 DEF JobsInv, JobsTypeOK, OpenWorkIsRunnable
  <1>5. ChildRestsOnCompletedParent'
    BY <1>2 DEF JobsInv, JobsTypeOK, ChildRestsOnCompletedParent
  <1>6. ParentOutlivesChild'
    BY <1>2 DEF JobsInv, JobsTypeOK, ParentOutlivesChild, Present
  <1> QED BY <1>3, <1>4, <1>5, <1>6 DEF JobsInv

\* Every step of the journal preserves the invariant.
LEMMA JobsStep ==
    ASSUME JobsInv, [JobsNext]_jobVars
    PROVE  JobsInv'
  <1>1. ASSUME NEW K \in SUBSET Job, Enqueue(K) PROVE JobsInv'
    BY <1>1, EnqueueStep
  <1>2. ASSUME NEW locked \in SUBSET Job, NEW j \in Job, NEW t \in Token, Claim(j, t, locked)
        PROVE JobsInv'
    BY <1>2, ClaimStep
  <1>3. ASSUME NEW locked \in SUBSET Job,
               \/ MaintainBlocked(locked) \/ MaintainExpired(locked)
               \/ MaintainRemoved(locked) \/ DeleteProject(locked)
        PROVE JobsInv'
    BY <1>3, BlockedStep, ExpiredStep, RemovedStep, DeleteStep
  <1>4. ASSUME NEW c \in Claims, Fail(c) PROVE JobsInv'
    BY <1>4, FailStep
  <1>5. ASSUME NEW c \in Claims, NEW o \in Outcome, NEW K \in SUBSET Job, Complete(c, o, K)
        PROVE JobsInv'
    BY <1>5, CompleteStep
  <1>6. ASSUME NEW j \in Job, RetryFailed(j) PROVE JobsInv'
    BY <1>6, RetryStep
  <1>7. CASE JobsTime
    BY <1>7, TimeStep
  <1>8. CASE UNCHANGED jobVars
    BY <1>8 DEF jobVars, JobsInv, JobsTypeOK, OpenWorkIsRunnable,
                ChildRestsOnCompletedParent, ParentOutlivesChild, Present
  <1>9. ASSUME NEW c \in Claims, Renew(c) PROVE JobsInv'
    BY <1>8, <1>9 DEF Renew
  <1> QED BY <1>1, <1>2, <1>3, <1>4, <1>5, <1>6, <1>7, <1>8, <1>9 DEF JobsNext

LEMMA JobsInitInv == JobsInit => JobsInv
  <1> SUFFICES ASSUME JobsInit PROVE JobsInv
    OBVIOUS
  <1>1. \A j \in Job : rows[j] = AbsentRow
    BY DEF JobsInit
  <1>2. JobsTypeOK
    BY NewRowForm DEF JobsInit, JobsTypeOK
  <1> QED BY <1>1, <1>2 DEF JobsInv, OpenWorkIsRunnable, ChildRestsOnCompletedParent,
                            ParentOutlivesChild, Present, AbsentRow

(***************************************************************************)
(* The theorems                                                            *)
(***************************************************************************)

\* The inductive invariant holds of the journal, whatever its clients do.
THEOREM JobsInvariant == JobsSpec => []JobsInv
  <1>1. JobsInit => JobsInv
    BY JobsInitInv
  <1>2. JobsInv /\ [JobsNext]_jobVars => JobsInv'
    BY JobsStep
  <1> QED BY <1>1, <1>2, PTL DEF JobsSpec

\* The table and the flag keep their types.
THEOREM JobsTypeCorrect == JobsSpec => []JobsTypeOK
  <1>1. JobsInv => JobsTypeOK
    BY DEF JobsInv
  <1> QED BY <1>1, JobsInvariant, PTL

\* Open rows can always run: they have payload, attempts and, when they run, an owner.
THEOREM OpenWorkStaysRunnable == JobsSpec => []OpenWorkIsRunnable
  <1>1. JobsInv => OpenWorkIsRunnable
    BY DEF JobsInv
  <1> QED BY <1>1, JobsInvariant, PTL

\* Dependent work runs, and stays completed, only on a completed parent.
THEOREM DependencyIsKept == JobsSpec => []ChildRestsOnCompletedParent
  <1>1. JobsInv => ChildRestsOnCompletedParent
    BY DEF JobsInv
  <1> QED BY <1>1, JobsInvariant, PTL

\* A dependency receipt is kept until its children are gone.
THEOREM ParentsOutliveChildren == JobsSpec => []ParentOutlivesChild
  <1>1. JobsInv => ParentOutlivesChild
    BY DEF JobsInv
  <1> QED BY <1>1, JobsInvariant, PTL

\* No statement re-opens or re-settles a completed or skipped row.
LEMMA SettledStep ==
    ASSUME JobsTypeOK, [JobsNext]_jobVars, NEW j \in Job, rows[j].status \in Outcome
    PROVE  rows'[j].status \in {rows[j].status, "absent"}
  <1> USE DEF Outcome, JobsTypeOK
  <1>1. ASSUME NEW K \in SUBSET Job, Enqueue(K)
        PROVE rows'[j].status \in {rows[j].status, "absent"}
    BY <1>1 DEF Enqueue, Inserted
  <1>2. ASSUME NEW locked \in SUBSET Job, NEW i \in Job, NEW t \in Token, Claim(i, t, locked)
        PROVE rows'[j].status \in {rows[j].status, "absent"}
    BY <1>2 DEF Claim, Claimable
  <1>3. ASSUME NEW locked \in SUBSET Job, MaintainBlocked(locked)
        PROVE rows'[j].status \in {rows[j].status, "absent"}
    BY <1>3 DEF MaintainBlocked, BlockedRows
  <1>4. ASSUME NEW locked \in SUBSET Job, MaintainExpired(locked)
        PROVE rows'[j].status \in {rows[j].status, "absent"}
    BY <1>4 DEF MaintainExpired, ExpiredRows, AttemptsExhausted, EvidenceExpired
  <1>5. ASSUME NEW locked \in SUBSET Job, MaintainRemoved(locked) \/ DeleteProject(locked)
        PROVE rows'[j].status \in {rows[j].status, "absent"}
    BY <1>5 DEF MaintainRemoved, DeleteProject, AbsentRow
  <1>6. ASSUME NEW c \in Claims, Renew(c) \/ Fail(c)
        PROVE rows'[j].status \in {rows[j].status, "absent"}
    BY <1>6 DEF Renew, Fail, Owns, jobVars
  <1>7. ASSUME NEW c \in Claims, NEW o \in Outcome, NEW K \in SUBSET Job, Complete(c, o, K)
        PROVE rows'[j].status \in {rows[j].status, "absent"}
    <2>1. c.job # j
      BY <1>7 DEF Complete, Owns
    <2> QED BY <1>7, <2>1 DEF Complete, Inserted
  <1>8. ASSUME NEW i \in Job, RetryFailed(i)
        PROVE rows'[j].status \in {rows[j].status, "absent"}
    BY <1>8 DEF RetryFailed, Retryable
  <1>9. ASSUME NEW i \in Job, LeaseLapses(i) \/ BackoffEnds(i) \/ RetentionEnds(i)
        PROVE rows'[j].status \in {rows[j].status, "absent"}
    <2>1. rows[i] \in Row
      OBVIOUS
    <2> QED BY <1>9, <2>1 DEF LeaseLapses, BackoffEnds, RetentionEnds, Row
  <1>10. CASE UNCHANGED jobVars
    BY <1>10 DEF jobVars
  <1> QED BY <1>1, <1>2, <1>3, <1>4, <1>5, <1>6, <1>7, <1>8, <1>9, <1>10
          DEF JobsNext, JobsTime

\* What was completed or skipped is never run again while its receipt is there.
THEOREM SettledStaysFinal == JobsSpec => SettledIsFinal
  <1>1. JobsTypeOK /\ [JobsNext]_jobVars
          => [\A j \in Job : rows[j].status \in Outcome
                                => rows'[j].status \in {rows[j].status, "absent"}]_jobVars
    BY SettledStep
  <1> QED BY <1>1, JobsTypeCorrect, PTL DEF JobsSpec, SettledIsFinal
===============================================================================
