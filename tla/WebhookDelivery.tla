---------------------------- MODULE WebhookDelivery ----------------------------
(***************************************************************************)
(* Lifecycle webhook deliveries: the tables webhook_deliveries and         *)
(* agent_webhooks (packages/storage/src/webhook-delivery-store.ts and      *)
(* webhook-management-store.ts), the scheduler that turns due deliveries   *)
(* into journal jobs, and the stage that sends them                        *)
(* (apps/worker/src/processor-delivery.ts).                                *)
(*                                                                         *)
(* A delivery is tried up to MaxTries times.  Between two tries the row    *)
(* says when it is due; the scheduler of any lane takes a due row by       *)
(* moving its time 30 seconds on and enqueues the job {delivery, attempt}. *)
(* The journal identifies a job by its payload, so a job that was taken    *)
(* once leaves a receipt, and its identity is free again a week later.     *)
(*                                                                         *)
(* Simplifications:                                                        *)
(*   - the journal and the Redis ingress are reduced to what the modules   *)
(*     WorkerJobs and DurableQueue show of them: a job is absent, open, or *)
(*     closed by a receipt, and one lane owns it while its lease lasts;    *)
(*   - next_attempt_at is null, in the future or in the past;              *)
(*   - a delivery exists once, and is retried by hand at most once;        *)
(*   - errors, lost answers, crashes and lapsed leases: MaxFaults in all;  *)
(*   - deletion (of webhooks, deliveries, projects), filters, allowances   *)
(*     and metrics are left out.                                           *)
(***************************************************************************)
EXTENDS Integers, FiniteSets

CONSTANTS Lane, NoLane,
          Webhook, Delivery,
          WebhookOf,   \* webhook_id of each delivery
          MaxTries,    \* one more than the retry delays, 6 in the code
          Threshold,   \* WEBHOOK_CONSECUTIVE_FAILURE_DISABLE_THRESHOLD, 50
          BatchSize,   \* limit of claimDueDeliveries
          MaxFaults    \* bound of the model

ASSUME LaneAssumption == NoLane \notin Lane
ASSUME WebhookAssumption == WebhookOf \in [Delivery -> Webhook]
ASSUME CountAssumption ==
    /\ MaxTries \in Nat \ {0} /\ Threshold \in Nat \ {0}
    /\ BatchSize \in Nat \ {0} /\ MaxFaults \in Nat

VARIABLES
  delivery,   \* the table webhook_deliveries, an absent row included
  later,      \* those whose last_attempted_at is later than that of each delivery
  enabled,    \* is_enabled of each webhook
  matched,    \* deliveries a publisher has matched to a webhook and not inserted
  pushed,     \* test deliveries whose job the API has still to push, or is in Redis
  job,        \* the rows of the journal for deliver-webhook
  pc, task, batch,  \* a lane: its await, its job, the due jobs it has to enqueue
  faults,
  \* history, read by the properties alone
  tried,      \* the attempts that got an answer
  accepted,   \* deliveries an endpoint accepted
  disturbed,  \* deliveries one of whose tries was interrupted, badly recorded or delayed
  retried     \* deliveries retried by hand

tableVars == <<delivery, later, enabled, matched, pushed>>
laneVars == <<pc, task, batch>>
historyVars == <<tried, accepted, disturbed, retried>>
vars == <<delivery, later, enabled, matched, pushed, job, pc, task, batch, faults,
          tried, accepted, disturbed, retried>>

Try == 1..MaxTries
Job == Delivery \X Try
NoTask == <<>>

Status == {"absent", "pending", "retrying", "delivered", "failed", "disabled"}
Row == [status : Status, attempts : 0..MaxTries, next : {"null", "future", "past"}]
AbsentRow == [status |-> "absent", attempts |-> 0, next |-> "null"]

NoJob == [state |-> "absent", owner |-> NoLane]
OpenJob == [state |-> "open", owner |-> NoLane]
Receipt == [state |-> "closed", owner |-> NoLane]

PC == {"idle", "scheduling", "sending", "accepted", "refused", "judging",
       "disabling", "stopping", "handled"}

(***************************************************************************)
(* where deliveries come from                                              *)
(***************************************************************************)

\* listMatchingWebhooks.
MatchWebhook(d) ==
    /\ delivery[d] = AbsentRow /\ d \notin matched
    /\ enabled[WebhookOf[d]]
    /\ matched' = matched \cup {d}
    /\ UNCHANGED <<delivery, later, enabled, pushed, job, laneVars, faults, historyVars>>

\* createDeliveryIntent, a later statement.
CreateIntent(d) ==
    /\ d \in matched
    /\ matched' = matched \ {d}
    /\ delivery' = [delivery EXCEPT ![d].status = "pending"]
    /\ UNCHANGED <<later, enabled, pushed, job, laneVars, faults, historyVars>>

\* createTestDelivery: of a disabled webhook too.
CreateTest(d) ==
    /\ delivery[d] = AbsentRow /\ d \notin matched
    /\ delivery' = [delivery EXCEPT ![d] =
                      [status |-> "retrying", attempts |-> 0, next |-> "future"]]
    /\ pushed' = pushed \cup {d}
    /\ UNCHANGED <<later, enabled, matched, job, laneVars, faults, historyVars>>

\* The API dies, or Redis is away, between the commit and the push.
LosePush(d) ==
    /\ d \in pushed
    /\ pushed' = pushed \ {d}
    /\ UNCHANGED <<delivery, later, enabled, matched, job, laneVars, faults, historyVars>>

\* retryDelivery.
Retry(d) ==
    /\ d \notin retried
    /\ enabled[WebhookOf[d]]
    /\ delivery[d].status \in {"failed", "disabled"}
    /\ delivery' = [delivery EXCEPT ![d] =
                      [status |-> "retrying", attempts |-> 0, next |-> "past"]]
    /\ retried' = retried \cup {d}
    /\ UNCHANGED <<later, enabled, matched, pushed, job, laneVars, faults,
                   tried, accepted, disturbed>>

\* updateWebhook: the deliveries are left as they are.
SetEnabled(h, b) ==
    /\ enabled[h] # b
    /\ enabled' = [enabled EXCEPT ![h] = b]
    /\ UNCHANGED <<delivery, later, matched, pushed, job, laneVars, faults, historyVars>>

(***************************************************************************)
(* scheduleDueWebhookDeliveries                                            *)
(***************************************************************************)

Due == {d \in Delivery :
          \/ delivery[d].status = "pending" /\ delivery[d].attempts = 0
          \/ delivery[d].status = "retrying" /\ delivery[d].next = "past"}

With(row, status, next) == [status |-> status, attempts |-> row.attempts, next |-> next]

\* Fault: the row is not given another time, so only this lane knows of it.
ClaimDue_Untimed(w, D) ==
    /\ pc[w] = "idle"
    /\ D # {} /\ D \subseteq Due /\ Cardinality(D) <= BatchSize
    /\ delivery' = [d \in Delivery |-> IF d \in D
                      THEN With(delivery[d], "retrying", "null")
                      ELSE delivery[d]]
    /\ batch' = [batch EXCEPT ![w] = {<<d, delivery[d].attempts + 1>> : d \in D}]
    /\ pc' = [pc EXCEPT ![w] = "scheduling"]
    /\ UNCHANGED <<later, enabled, matched, pushed, job, task, faults, historyVars>>

\* claimDueDeliveries: rows other lanes have locked are passed over.
ClaimDue(w, D) ==
    /\ pc[w] = "idle"
    /\ D # {} /\ D \subseteq Due /\ Cardinality(D) <= BatchSize
    /\ delivery' = [d \in Delivery |-> IF d \in D
                      THEN With(delivery[d], "retrying", "future")
                      ELSE delivery[d]]
    /\ batch' = [batch EXCEPT ![w] = {<<d, delivery[d].attempts + 1>> : d \in D}]
    /\ pc' = [pc EXCEPT ![w] = "scheduling"]
    /\ UNCHANGED <<later, enabled, matched, pushed, job, task, faults, historyVars>>

\* Fault: a receipt is replaced by a new job.
Stored_Anew(j) == [job EXCEPT ![j] = IF @.state = "open" THEN @ ELSE OpenJob]

\* enqueue: the payload is the identity, and ON CONFLICT DO NOTHING.
Stored(j) == [job EXCEPT ![j] = IF @ = NoJob THEN OpenJob ELSE @]

EnqueueDue(w, j) ==
    /\ pc[w] = "scheduling" /\ j \in batch[w]
    /\ job' = Stored(j)
    /\ batch' = [batch EXCEPT ![w] = @ \ {j}]
    /\ pc' = [pc EXCEPT ![w] = IF batch[w] = {j} THEN "idle" ELSE @]
    /\ UNCHANGED <<tableVars, task, faults, historyVars>>

\* The step's dequeue stores a pushed test job before it claims one.
AdoptTest(w, d) ==
    /\ pc[w] = "idle" /\ d \in pushed
    /\ job' = Stored(<<d, 1>>)
    /\ pushed' = pushed \ {d}
    /\ UNCHANGED <<delivery, later, enabled, matched, laneVars, faults, historyVars>>

(***************************************************************************)
(* processNextDeliverWebhookJob                                            *)
(***************************************************************************)

Goto(w, there) == pc' = [pc EXCEPT ![w] = there]

TakeJob(w, j) ==
    /\ pc[w] = "idle" /\ job[j] = OpenJob
    /\ job' = [job EXCEPT ![j] = [state |-> "open", owner |-> w]]
    /\ task' = [task EXCEPT ![w] = j]
    /\ Goto(w, "sending")
    /\ UNCHANGED <<tableVars, batch, faults, historyVars>>

\* The row and its webhook are not looked at again: neither the status nor
\* attempt_count nor is_enabled keeps the request from being sent.
Deliver(w, answer) ==
    /\ pc[w] = "sending"
    /\ Goto(w, answer)
    /\ tried' = [tried EXCEPT ![task[w][1]] = @ \cup {task[w][2]}]
    /\ accepted' = IF answer = "accepted" THEN accepted \cup {task[w][1]} ELSE accepted
    /\ UNCHANGED <<tableVars, job, task, batch, faults, disturbed, retried>>

Marked(w, status, next) ==
    [delivery EXCEPT ![task[w][1]] =
        [status |-> status, attempts |-> task[w][2], next |-> next]]

\* last_attempted_at = now().
Latest(d) == [e \in Delivery |-> IF e = d THEN {} ELSE later[e] \cup {d}]

\* markDeliveryAttempt, delivered.
MarkDelivered(w) ==
    /\ pc[w] = "accepted"
    /\ delivery' = Marked(w, "delivered", "null")
    /\ later' = Latest(task[w][1])
    /\ Goto(w, "handled")
    /\ UNCHANGED <<enabled, matched, pushed, job, task, batch, faults, historyVars>>

\* The statement throws, or its answer is lost: the catch clause takes it for a
\* failure of the endpoint.
MarkDeliveredThrows(w) ==
    /\ pc[w] = "accepted" /\ faults < MaxFaults
    /\ \/ delivery' = Marked(w, "delivered", "null") /\ later' = Latest(task[w][1])
       \/ UNCHANGED <<delivery, later>>
    /\ Goto(w, "refused")
    /\ faults' = faults + 1
    /\ disturbed' = disturbed \cup {task[w][1]}
    /\ UNCHANGED <<enabled, matched, pushed, job, task, batch, tried, accepted, retried>>

\* Fault: one delay too many.
HasRetry_OneMore(k) == k <= MaxTries

\* Fault: one delay too few.
HasRetry_OneLess(k) == k < MaxTries - 1

\* WEBHOOK_DELIVERY_RETRY_DELAYS_SECONDS[attempt - 1] is defined.
HasRetry(k) == k < MaxTries

MarkRetrying(w) ==
    /\ pc[w] = "refused" /\ HasRetry(task[w][2])
    /\ delivery' = Marked(w, "retrying", "future")
    /\ later' = Latest(task[w][1])
    /\ Goto(w, "handled")
    /\ UNCHANGED <<enabled, matched, pushed, job, task, batch, faults, historyVars>>

MarkFailed(w) ==
    /\ pc[w] = "refused" /\ ~HasRetry(task[w][2])
    /\ delivery' = Marked(w, "failed", "null")
    /\ later' = Latest(task[w][1])
    /\ Goto(w, "judging")
    /\ UNCHANGED <<enabled, matched, pushed, job, task, batch, faults, historyVars>>

HookOf(w) == WebhookOf[task[w][1]]

\* The Threshold deliveries of a webhook tried last have all failed for good: a
\* delivery that is to be tried again ends the streak.
Streak(h) ==
    Threshold <= Cardinality({d \in Delivery :
        /\ WebhookOf[d] = h /\ delivery[d].status = "failed"
        /\ \A e \in later[d] : WebhookOf[e] = h => delivery[e].status = "failed"})

Judge(w) ==
    /\ pc[w] = "judging"
    /\ Goto(w, IF Streak(HookOf(w)) THEN "disabling" ELSE "handled")
    /\ UNCHANGED <<tableVars, job, task, batch, faults, historyVars>>

DisableWebhook(w) ==
    /\ pc[w] = "disabling"
    /\ enabled' = [enabled EXCEPT ![HookOf(w)] = FALSE]
    /\ Goto(w, "stopping")
    /\ UNCHANGED <<delivery, later, matched, pushed, job, task, batch, faults, historyVars>>

\* Fault: the times stay.
StopDeliveries_Timed(w) ==
    /\ pc[w] = "stopping"
    /\ delivery' = [d \in Delivery |->
           IF WebhookOf[d] = HookOf(w) /\ delivery[d].status \in {"pending", "retrying"}
             THEN With(delivery[d], "disabled", delivery[d].next)
             ELSE delivery[d]]
    /\ Goto(w, "handled")
    /\ UNCHANGED <<later, enabled, matched, pushed, job, task, batch, faults, historyVars>>

StopDeliveries(w) ==
    /\ pc[w] = "stopping"
    /\ delivery' = [d \in Delivery |->
           IF WebhookOf[d] = HookOf(w) /\ delivery[d].status \in {"pending", "retrying"}
             THEN With(delivery[d], "disabled", "null")
             ELSE delivery[d]]
    /\ Goto(w, "handled")
    /\ UNCHANGED <<later, enabled, matched, pushed, job, task, batch, faults, historyVars>>

\* complete, which only the owner can; another's lane throws and forgets the job.
Acknowledge(w) ==
    /\ pc[w] = "handled"
    /\ job' = IF job[task[w]].owner = w THEN [job EXCEPT ![task[w]] = Receipt] ELSE job
    /\ task' = [task EXCEPT ![w] = NoTask]
    /\ Goto(w, "idle")
    /\ UNCHANGED <<tableVars, batch, faults, historyVars>>

(***************************************************************************)
(* failures and time                                                       *)
(***************************************************************************)

\* An await throws or the process dies: what was to be enqueued is forgotten, and
\* the job may be taken again unless its eight tries are used up.
Interrupted(w) ==
    /\ pc[w] # "idle" /\ faults < MaxFaults
    /\ \E next \in {OpenJob, Receipt} :
          job' = IF task[w] # NoTask /\ job[task[w]].owner = w
                   THEN [job EXCEPT ![task[w]] = next] ELSE job
    /\ disturbed' = IF task[w] = NoTask THEN disturbed ELSE disturbed \cup {task[w][1]}
    /\ task' = [task EXCEPT ![w] = NoTask]
    /\ batch' = [batch EXCEPT ![w] = {}]
    /\ Goto(w, "idle")
    /\ faults' = faults + 1
    /\ UNCHANGED <<tableVars, tried, accepted, retried>>

\* The lease of a stalled lane ends; the lane does not know.
LeaseLapses(j) ==
    /\ job[j].owner # NoLane /\ faults < MaxFaults
    /\ job' = [job EXCEPT ![j] = OpenJob]
    /\ disturbed' = disturbed \cup {j[1]}
    /\ faults' = faults + 1
    /\ UNCHANGED <<tableVars, laneVars, tried, accepted, retried>>

\* Thirty seconds, or a retry delay, have passed.
FallsDue(d) ==
    /\ delivery[d].next = "future"
    /\ delivery' = [delivery EXCEPT ![d].next = "past"]
    /\ UNCHANGED <<later, enabled, matched, pushed, job, laneVars, faults, historyVars>>

\* maintain removes the receipt a week later.  That a lane or Redis has held on to
\* the same job for all that time is reckoned a disturbance.
ForgetReceipt(j) ==
    /\ job[j].state = "closed"
    /\ job' = [job EXCEPT ![j] = NoJob]
    /\ disturbed' = IF (j[1] \in pushed /\ j[2] = 1) \/ \E w \in Lane : j \in batch[w]
                      THEN disturbed \cup {j[1]} ELSE disturbed
    /\ UNCHANGED <<tableVars, laneVars, faults, tried, accepted, retried>>

(***************************************************************************)
(* the specification                                                       *)
(***************************************************************************)

Init ==
    /\ delivery = [d \in Delivery |-> AbsentRow]
    /\ later = [d \in Delivery |-> {}]
    /\ enabled = [h \in Webhook |-> TRUE]
    /\ matched = {} /\ pushed = {}
    /\ job = [j \in Job |-> NoJob]
    /\ pc = [w \in Lane |-> "idle"]
    /\ task = [w \in Lane |-> NoTask]
    /\ batch = [w \in Lane |-> {}]
    /\ faults = 0
    /\ tried = [d \in Delivery |-> {}]
    /\ accepted = {} /\ disturbed = {} /\ retried = {}

Source(d) == MatchWebhook(d) \/ CreateIntent(d) \/ CreateTest(d) \/ LosePush(d) \/ Retry(d)

Schedule(w) ==
    \/ \E D \in SUBSET Delivery : ClaimDue(w, D)
    \/ \E j \in Job : EnqueueDue(w, j)
    \/ \E d \in Delivery : AdoptTest(w, d)

Record(w) ==
    \/ MarkDelivered(w) \/ MarkRetrying(w) \/ MarkFailed(w) \/ Judge(w)
    \/ DisableWebhook(w) \/ StopDeliveries(w) \/ Acknowledge(w)

Process(w) ==
    \/ \E j \in Job : TakeJob(w, j)
    \/ \E answer \in {"accepted", "refused"} : Deliver(w, answer)
    \/ Record(w)

Fail(w) == MarkDeliveredThrows(w) \/ Interrupted(w)

Next ==
    \/ \E d \in Delivery : Source(d) \/ FallsDue(d)
    \/ \E h \in Webhook, b \in BOOLEAN : SetEnabled(h, b)
    \/ \E w \in Lane : Schedule(w) \/ Process(w) \/ Fail(w)
    \/ \E j \in Job : LeaseLapses(j) \/ ForgetReceipt(j)

Spec == Init /\ [][Next]_vars

(***************************************************************************)
(* A lane's pass looks for due deliveries and for a job in turn, the oldest*)
(* first, so neither is passed over for ever; it finishes what it began;   *)
(* requests time out; and time passes.                                     *)
(***************************************************************************)
Fairness ==
    /\ \A w \in Lane :
         /\ WF_vars(\E j \in Job : EnqueueDue(w, j))
         /\ WF_vars(\E answer \in {"accepted", "refused"} : Deliver(w, answer))
         /\ WF_vars(Record(w))
    /\ \A d \in Delivery :
         /\ SF_vars(\E w \in Lane, D \in SUBSET Delivery : d \in D /\ ClaimDue(w, D))
         /\ WF_vars(FallsDue(d))
    /\ \A j \in Job :
         /\ SF_vars(\E w \in Lane : TakeJob(w, j))
         /\ WF_vars(ForgetReceipt(j))

FairSpec == Spec /\ Fairness

(***************************************************************************)
(* properties                                                              *)
(***************************************************************************)

TypeOK ==
    /\ delivery \in [Delivery -> Row]
    /\ later \in [Delivery -> SUBSET Delivery]
    /\ enabled \in [Webhook -> BOOLEAN]
    /\ matched \subseteq Delivery /\ pushed \subseteq Delivery
    /\ job \in [Job -> [state : {"absent", "open", "closed"}, owner : Lane \cup {NoLane}]]
    /\ pc \in [Lane -> PC]
    /\ task \in [Lane -> Job \cup {NoTask}]
    /\ batch \in [Lane -> SUBSET Job]
    /\ faults \in 0..MaxFaults
    /\ tried \in [Delivery -> SUBSET Try]
    /\ accepted \subseteq Delivery /\ disturbed \subseteq Delivery /\ retried \subseteq Delivery

\* A delivery that waits to be tried has a try left and will be found by the
\* scheduler: it is new, or it has a time.  One that is settled has none, and is
\* not found again.  (The columns are written by seven statements, which overwrite
\* each other when a lane is late.)
NothingStranded ==
    \A d \in Delivery :
        /\ delivery[d].status = "pending" => delivery[d].attempts = 0 /\ delivery[d].next = "null"
        /\ delivery[d].status = "retrying" => /\ delivery[d].attempts < MaxTries
                                              /\ delivery[d].next # "null"
        /\ delivery[d].status \in {"delivered", "failed", "disabled"} => delivery[d].next = "null"

\* What the delivery history shows happened: a row marked delivered was accepted
\* by its endpoint, and one is marked failed only after each of its tries got an
\* answer, whatever was lost, repeated or overtaken.
OutcomesAreEarned ==
    \A d \in Delivery :
        /\ delivery[d].status = "delivered" => d \in accepted
        /\ delivery[d].status = "failed" => tried[d] = Try

\* Unless a try of it was interrupted or it was retried by hand, a delivery is
\* sent in order, each try once, and not after it was accepted: although rows fall
\* due again while their jobs wait, tests are enqueued twice, several lanes
\* schedule, and nothing but the job's identity keeps a second job away.
NoNeedlessSend ==
    \A w \in Lane : \A d \in Delivery \ (disturbed \cup retried) : \A k \in Try :
        pc[w] = "sending" /\ task[w] = <<d, k>>
            => d \notin accepted /\ tried[d] = 1..(k - 1)

Unsettled(d) == delivery[d].status \in {"pending", "retrying"}

\* Every delivery comes to an end, though jobs, batches and pushes are lost on the
\* way and a retried one must wait for its old receipt to go.
IntentsSettle == \A d \in Delivery : Unsettled(d) ~> ~Unsettled(d)

\* requirements.md, FR-WHK-05: "Manual retry available via API and CLI."  A delivery
\* reset by hand is given a job that will run when the scheduler finds it.
RetryIsQueued ==
    [][\A w \in Lane : \A d \in retried :
          EnqueueDue(w, <<d, 1>>) => job'[<<d, 1>>].state = "open"]_vars

FailedSinceSuccess(h) ==
    {d \in Delivery :
        /\ WebhookOf[d] = h /\ delivery[d].status = "failed"
        /\ \A e \in later[d] : WebhookOf[e] = h => delivery[e].status # "delivered"}

\* acceptance.md, AC-WHK-04: "When 50 consecutive delivery failures occur (across any
\* deliveries)" the webhook is disabled.
StreakDisables ==
    [][\A w \in Lane :
          Judge(w) /\ Cardinality(FailedSinceSuccess(HookOf(w))) >= Threshold
              => pc'[w] = "disabling"]_vars
=============================================================================
