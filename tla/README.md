# DebugBundle: the durable worker in TLA+

DebugBundle ingests errors and analytics events, groups them into incidents, and
builds evidence bundles that agents and people read. Its API is stateless; what
is hard lives in the worker (`apps/worker`) and the stores it drives
(`packages/storage`): work accepted into Redis must survive crashes, be done by
one lane at a time, take effect once where that is promised, and end.

This directory specifies that core: the Postgres job journal, the queue built on
it and on Redis, the lanes that run it, and the four stages whose state has the
most writers: the grouping of events into incidents, the generation of their
bundles, the delivery of lifecycle webhooks and the daily notification e-mails. The modules
are checked with TLC on small instances, and all of the safety properties are
proved with TLAPS for all values of the constants. The rest of the system is
inventoried below, with the reasons why it is not modelled.

| module | what it is |
| --- | --- |
| `WorkerJobs` | the table `worker_jobs` and each SQL statement on it (`worker-job-store.ts`) |
| `DurableQueue` | lanes, queue objects, Redis ingress, transactions, heartbeats, crashes; extends `WorkerJobs` |
| `JobLedger` | abstract specification: what a durable job is promised, with no queue in sight |
| `WebhookDelivery` | webhook deliveries: intents, scheduler, jobs, answers, retries, disabling |
| `IncidentGrouping` | one incident: its row, its retained events, its follow-ups; lanes, users, deployments, clean-up |
| `OccurrenceLog` | abstract specification: what grouping promises about an incident, one step for each event |
| `BundleGeneration` | builds of failure bundles: generations, allowance, retained limit, stored objects |
| `DailyNotifications` | daily e-mails of a recipient: admission, claims, the pass over a batch, changes of preferences |
| `MC...` | instances for TLC; one `.cfg` per run |
| `WorkerJobsProofs` | theorems about the journal under any client |
| `DurableQueueProofs` | the lanes: fencing, exclusive transactions, heartbeat; the queue is a client of the journal |
| `LedgerProofs` | effects match receipts; the queue implements `JobLedger`; follow-ups come before receipts |
| `IngressProofs` | nothing leaves Redis before it is stored |
| `WebhookDeliveryProofs` | none stranded, outcomes true, nothing sent twice |
| `IncidentGroupingProofs` | counts, announcements, builds, regressions, retained samples; grouping implements `OccurrenceLog` |
| `BundleGenerationProofs` | generations, sources, stored objects, the allowance, the retained limit |
| `DailyNotificationsProofs` | nothing dropped, forgotten, charged twice or repeated without a fault |

## 1. Inventory

### The pipeline

An API handler pushes a JSON payload to a Redis list (`jobs:<name>`). A worker
process runs two serial lanes over the job names. A lane first claims from the
journal; when there is nothing, it claims from Redis, stores the payload as a
journal row under a content-derived identity, acknowledges the Redis claim, and
claims the row. A stage then does its work and enqueues its follow-ups:
`normalize-events` → `group-incident` → `build-bundle` →
`publish-incident-lifecycle` (which *depends on* the build), `build-reproduction`,
`evaluate-alerts`, `deliver-webhook`, and so on.

| component | state | operations | interacts with |
| --- | --- | --- | --- |
| job journal | rows of `worker_jobs`: status, attempts, lease token and expiry, back-off, retention, payload, parent | enqueue, claim, lock, renew, complete, fail, maintain, retryFailed | lanes (SQL), operator script, `projects` (cascade) |
| Redis ingress | per name a list and a sorted set of entries being processed | enqueue, claim (with reclaim of entries older than 5 min), acknowledge | API producers, lanes |
| durable queue | one `pending` claim, one heartbeat, one `leaseError` per lane | dequeue, enqueue, ackClaimedJobs, failClaimedJobs, transaction | journal, Redis |
| worker lanes | the step a lane is in | dequeue, process, acknowledge or fail; maintain; shut down | all of the above |
| incident grouping | `incidents`, `incident_events` with their retention columns, `deployments` | upsert by fingerprint, record and demote events, resolve, reopen, expire raw events | bundle builds, webhooks, alerts (jobs), users (API), clean-up |
| failure bundles | source and generation of an incident, `bundle_generations`, stored objects, allowances | check the allowance, reserve, store, prune, hand off, expire | object store, billing limits, clean-up |
| improvement and analytics bundles | the same for opportunities and reports | the same | the same |
| webhook delivery | `webhook_deliveries` (status, attempt_count, next_attempt_at, last_attempted_at), `agent_webhooks.is_enabled` | match, create, test, take due, send, mark, disable, retry by hand, enable | journal, Redis (tests), endpoints, API |
| daily notifications | `notification_daily_batches`, `_items`, `_allowance_usage`, preferences | admit, claim and coalesce, renew, list, move, defer, deliver, complete, fail | alerts, users (preferences, resolution), e-mail provider |
| alert delivery, digests, other e-mail | intents, attempts, due times | create, take, mark | external services |
| availability checks | checks, streaks, outages | claim due, execute, record | incidents |
| billing | subscriptions, operations, allowances | plan change, capacity, webhooks | Stripe |
| project merges, deletion, retention | most tables | single transactions and sweeps | everything |
| accounts, OAuth, API, CLI, MCP, web | sessions, tokens, requests | request and response | stores |

### What is hard here

* A lease is only time: a lane that lost it does not know, and goes on working.
  What keeps it out is the token in the `WHERE` of `complete`, `fail` and
  `renew`, and, within a transaction, the row lock taken by `lock`.
* Between any two awaits of `dequeue` the process may die, throw, or stall for
  longer than Redis' five minutes; the payload must neither vanish nor multiply.
* The heartbeat is concurrent with the step it protects and its answer can arrive
  when the lane already has another claim.
* The answer to a commit or to a claim can be lost.
* Dependencies are looked at once, when the child is claimed, while failures,
  skips, retries, expiry and removal change the parent in any order.
* A webhook delivery's row is written by seven statements without a token, by
  lanes that may be late, while the job that a row stands for lives in the
  journal under an identity that outlives it by seven days.
* A grouping job reads the incident before it upserts it. The lock on the fingerprint
  keeps other jobs out, not the users who resolve and reopen it.
* A build is a row of statements outside any transaction, and another build of the
  same incident, a pruning or the clean-up may run between any two of them.
* An alert computes its daily window before it waits for the locks of the insertion;
  a change of the preferences meets a pass that has read the old ones; a batch may be
  claimed before its window is due, and a lane may lose its lease in between.
* Retention, attempts and leases each end a row in a different statement, and the
  operator can bring a failed row back.

`PROJECT.json` lists these hazards with their lines and the properties that watch them.

### What makes each component correct

* journal: rows that can run have what they need to run; dependencies hold all
  along; what is settled is final; evidence does not stay; nothing blocks for good.
* queue: a transactional stage takes effect once, exactly with its receipt; other
  work at least once before it; a live lease is disturbed by nobody else;
  follow-ups are stored before the receipt; open jobs settle.
* ingress: what was produced is in Redis or was stored; what is in Redis is adopted.
* grouping: an event counts once and is announced once, as if nobody else was there;
  no build and, but for one race, no regression is missed; what is retained of an incident represents it, and stays small.
* bundles: numbers are given once; the source of a bundle is the latest event seen; the
  object stored is that bundle, unless builds raced; the
  allowance and the retained limit hold up to the builds in flight; builds end.
* webhook deliveries: one that waits is found again; what the history shows
  happened; a try is sent once unless it was interrupted; every delivery ends.
* daily notifications: a batch is closed only over what it sent or skipped on purpose;
  a due batch is found; moves are not charged; repeats need faults.

## 2. WorkerJobs: the journal

`rows` maps every identity (`Job`) to its row, absent ones included. The identity
is a hash of name, payload, parent and dedupe key, so `depends_on` is the constant
`ParentOf`. `projectLive` is the owning project's row.

| action | code | notes |
| --- | --- | --- |
| `Enqueue(K)` | `enqueue` | the parent must exist, else it throws; stores nothing for a deleted project; `ON CONFLICT DO NOTHING` |
| `Claim(j, t, locked)` | `claim` | attempts, retention, parent, back-off or lapsed lease; `SKIP LOCKED` |
| `OwnsLive`, `Renew`, `Complete`, `Fail` | `lock`, `renew`, `complete`, `fail` | fenced by token; `fail` without ownership is a no-op, the others throw |
| `MaintainBlocked`, `MaintainExpired`, `MaintainRemoved` | the three statements of `maintain` | a batch of at most `BatchLimit` rows each |
| `RetryFailed` | `retryFailed`, `scripts/worker-jobs.ts` | operator |
| `DeleteProject` | `ON DELETE CASCADE` | waits for row locks |
| `LeaseLapses`, `BackoffEnds`, `RetentionEnds` | `now()` | |

Time is not a number: a row carries the truth of the three comparisons the SQL
makes (`live`, `due`, `stale`), and time moves them one way. `JobsNext` is the
*most general client*: every statement in any order with every claim that could
exist, so that what is proved of it holds for any caller, lanes included.

Left out: `last_error_code`, `operator_retries`, listing timestamps, `inspect`,
`summary` (read only), `retryFailed`'s ordering among several rows.

Definitions marked *Fault* (`Claimable_NoLimit`, `Fail_Unfenced`, ...) are slips
the code could have made. No specification uses them; with one put in place of
the definition it is named after, the property it is meant for fails.

## 3. DurableQueue: lanes, ingress, transactions

A `Worker` is a queue object and the serial lane driving it. `pc[w]` is the await
the lane is in:

    idle → (claim) claimed
    idle → missed → reclaimed → holding → adopted → acked → claimed | idle
    claimed → intx → settled | failing          transactional stage
    claimed → worked → settled | failing        other work
    idle → expire → remove → idle               maintenance

| action | code |
| --- | --- |
| `DequeueJournal`, `DequeueMisses` | `store.claim` of `dequeue` |
| `ReclaimStale`, `RedisClaims`, `RedisEmpty` | the two Lua scripts of `redis.claim` |
| `AdoptIngress`, `AckIngress`, `ClaimAgain` | store, acknowledge, claim again |
| `LoseClaim`, `DequeueThrows` | an answer lost, an await that throws |
| `BeginTransaction`, `CommitTransaction` | `transaction`: lock, work, follow-ups and `complete` in one commit, whose answer may be lost |
| `DoWork`, `EnqueueFollowUp`, `AckCompleted`, `AckSkipped` | a stage outside a transaction |
| `StepThrows`, `FailClaim`, `FinishStep` | errors of a step; `failClaimedJobs`; `clearClaim` |
| `SendRenewal`, `RenewalReturns` | the one-minute heartbeat, on another connection |
| `SweepBlocked`, `SweepExpired`, `SweepRemoved`, `MaintainThrows` | `maintain`, statement by statement |
| `Crash` | the process dies (also the shutdown that stops waiting) |
| `Produce`, `ClaimAges`, `Operator`, `ProjectDeleted`, `Time` | the environment |

A Redis entry is `list`, `taken` by a lane, or `aged` past the five minutes. A
payload has one identity; a regeneration request, whose dedupe key is the Redis
claim's id, has several, and each claim of it is adopted as one not present
(`AdoptedAs`).

`done` counts the effects of a job's work since its row was inserted (it stops at
2) and `journaled` says whether a payload was stored since last produced. Both
are history: no guard reads them. A stage's own data is one effect; inside a
transaction the effect is part of the commit, because the stores called there use
savepoints (`savepoint-queryable.ts`), which is what the fault
`CommitTransaction_Inner` takes away.

Simplifications: a payload is at most once in Redis at a time; a lane may process
any name; `claim`'s order is arbitrary; ingress payloads that fail validation are
not modelled; tokens are unique among those somebody still holds.

## 4. JobLedger: the promise

Phases *none, open, completed, skipped, failed*. A job is accepted, settles once,
may be reopened from *failed* only, completes only after its parent, and is
forgotten from a settled phase. The effect of a transactional job happens in the
very step that completes it, other work at least once before. `ImplementsLedger`
is the refinement: `phase` is the status of the row with pending and running
merged, `done` is `done`.

## 5. WebhookDelivery

A delivery is a row with a status, the number of its last recorded try and a due
time that is null, in the future or in the past. `job` maps {delivery, attempt} to
absent, open (with the lane that owns it while its lease lasts) or closed by a
receipt: what `WorkerJobs` and `DurableQueue` show of a job, reduced to what a
delivery can tell apart. `pc[w]`:

    idle → scheduling → idle                                     a batch of due rows
    idle → sending → accepted → handled → idle
                   → refused → handled → idle                    a try is left
                   → refused → judging → [disabling → stopping →] handled → idle

| action | code |
| --- | --- |
| `MatchWebhook`, `CreateIntent` | `listMatchingWebhooks` and, later, `createDeliveryIntent` |
| `CreateTest`, `LosePush`, `AdoptTest` | a test delivery, its push to Redis after the commit, its adoption by a dequeue |
| `ClaimDue`, `EnqueueDue` | `claimDueDeliveries`; `scheduleDueWebhookDeliveries`, one enqueue at a time |
| `TakeJob`, `Deliver` | `processNextDeliverWebhookJob` up to the answer |
| `MarkDelivered`, `MarkRetrying`, `MarkFailed` | `markDeliveryAttempt`, by the answer and the try's number |
| `MarkDeliveredThrows` | the mark throws, or what follows it does: the catch clause marks a failure |
| `Judge`, `DisableWebhook`, `StopDeliveries` | the streak of failures, and the two updates |
| `Acknowledge`, `Interrupted`, `LeaseLapses` | the end of a step, a throw or crash in it, a lost lease |
| `Retry`, `SetEnabled` | the API |
| `FallsDue`, `ForgetReceipt` | time: 30 seconds or a retry delay; seven days |

`later` orders the rows by `last_attempted_at`. `tried`, `accepted`, `disturbed`
and `retried` are history that no guard but `Retry`'s bound reads. A delivery is *disturbed* when a
lane died, threw or lost its lease while it had a job of it, when an acceptance
could not be recorded, and when a lane or Redis held on to a job for the whole
life of its receipt. At most once delivery cannot be had then, and is not claimed.

Left out: creating and deleting webhooks, deleting deliveries and projects
(`delivery_missing`), filters, the monthly allowance, metrics, the owner's e-mail.
A job whose eight attempts are used up is a `Receipt` here, as its row stays.

## 6. IncidentGrouping

One incident of one fingerprint. A grouping job is a transaction in two steps: `Look`,
the reads under the advisory lock, and `Commit`, from the statement that locks the row
to the commit. Users act on the row between the two; what else the transaction reads
cannot change there, because the lock keeps out the other jobs of the fingerprint.

| action | code |
| --- | --- |
| `Look` (`Reading`, `RecentDeploy`) | `durable-incident-processing.ts`' lock, the SELECTs of `upsertIncident`, the deployments it correlates |
| `Commit` (`InsertIncident`, `UpdateIncident`) | the upsert: an earlier first, a later last, `resolved` becomes `regressed`, a duplicate counts nothing |
| `Retention` (`FlagsOf`, `Taken`, `Demoted`) | `recordIncidentEventRetention`: the columns `retain_...` of the event, what they take from other rows, the objects of those left with none |
| `BundleKinds`, `AlertKinds`, `SpikeKinds` | the follow-ups of `processor-group.ts`: builds and lifecycle webhooks, alerts, spikes |
| `Abort` | an error or a crash: the transaction rolls back, the job stays open |
| `Resolve`, `Reopen` | `metadata-incident-lifecycle.ts` |
| `Deploy` | a deployment reported through another incident of the service |
| `ExpireRaw`, `MarkExpired` | the clean-up, object first, row after |

An event may have several jobs (a lost acknowledgement, a replay). `Time` is
`occurred_at`, so events arrive in any order of it. `resolves`, `resolvedAt`, `expired` and
`done` are history: `resolvedAt` is the count at the last resolution, or 0 if a lane was between
its reads and its upsert at that moment.

`OccurrenceLog` is what is left of this without lanes: `Occur` takes an event that has not
occurred, numbers it, widens the times, moves the status on and announces it under its number
(`Owed` says what at least); `Resolve` and `Reopen` are the users. `ImplementsLog` maps the
rows of `incident_events` to the events that have occurred and `enqueued` to what was announced.
`Commit` of a new event is `Occur`; `Look`, `Abort`, a duplicate, a deployment and the
clean-up are stutters.

## 7. BundleGeneration

A build is `checking → reserving → storing → pruning → unlinking → idle`, a statement or
a call of the object store each.

| action | code |
| --- | --- |
| `Begin`, `Allow`, `Refuse` | the context, `hasBundleGenerationForSourceEvent`, the monthly allowance; a regeneration of a recorded event is free |
| `Reserve` (`NextSource`, `NextGeneration`) | `reserveBundleGeneration`, one statement: an older event takes the number of the newer source, one of the same time a new number |
| `Store` | `putObject`; one key per incident, so a build overwrites |
| `Prune`, `Unlink` | `pruneRetainedBundleOwnersForProject`; `deletePrunedBundleArtifacts`, one owner at a time |
| `HandOff` | the reproduction's job, then the acknowledgement |
| `Missing`, `Fail`, `Crash` | the incident is gone; an error, marked and thrown again; the process dies |
| `ListExpired`, `PurgeObjects`, `DeleteExpired` | the clean-up's three rounds over expired incidents |

A row of `bundle_generations` is an event's `number`, 0 without one; `created` orders the
rows. `RepeatsTakeNoNumber` is about the steps: a row that gets a number had none, the number is above
all earlier ones of the incident, and a repeated build leaves the rows and the incident's number
alone. The comparison of times in the statement is strict, so two events of one instant take the
source from one another and a repeat is numbered anew: `Ties` names that exception, the only one. The jobs are open until handed off or refused; the journal's limits on attempts are
`DurableQueue`'s matter. The clean-up may find an incident with a bundle expired at any point of a build,
because a build that repeats a generation does not renew `bundle_updated_at`.

`seen`, `behind` and `disturbed` are history; `Next` is `Step` with `disturbed` kept. An incident is
*disturbed* once two builds of it are between their reservation and `putObject` at a
time, or one is there while the incident is gone or its objects are purged (`Raced`), or when a
lane stops with objects of it still to delete (`Abandoned`). The object of any other incident is the
one its row speaks of (`ObjectsFollowRows`). From each of these states the statements that are
left can make a wrong object; two builds that have reserved the same generation are counted too.

## 8. DailyNotifications

A batch is a window of a schedule, `<<schedule, day>>`. A lane's pass over one is

    idle → claimed → begun → deciding → sending → sent → idle

| action | code |
| --- | --- |
| `Raise`, `Insert` (`Writable`, `Admit`) | `enqueue`: the window is computed, later inserted into, or into the following one if its payload is fixed |
| `Claim` (`ScheduleIsFree`, `Coalesced`) | `claimDailyNotification`: one live lease per schedule; a due window takes in the other due windows, with their usage |
| `Begin` | the clock read once for the pass, after the claim |
| `List` | the revision of the preferences, `renew`, `listItems` |
| `Decide` (`Reschedule`, `MoveItem`) | `preferences.decide` per item: keep, skip, or move to another schedule; without a window that takes the item, the pass fails (`notification_reschedule_failed`) |
| `Confirm` (`Deferred`) | the last `renew`, the revision again; a future window or a changed revision defers |
| `Deliver`, `Complete` | the provider, then `complete` |
| `Throw` (`Failed`), `Crash`, `Lapse` | the catch clause, the process, ten minutes without a renewal |
| `Pass`, `Backoff` | a window falls due, a back-off ends |
| `ChangePolicy`, `ResolveIncident` | the API; a change wakes the batches it touches |

`taken` keeps of `claimed_until` what `findWritableDailyBatch` derives from it: whether the
lease was granted before the window was due. `start` is the clock of a pass. By it the lane decides
whether its window is due (`Future`) and which window of another schedule is the next one, and
`reschedule` compares `claimed_until` with it (`HeldAtStart`): a lane whose lease has lapsed since
goes on moving items until another claim takes the token away or coalesces the batch, although its
next `renew` will stop it before the e-mail. `charged` are the rows of `usage` that are
billable; only an admission adds one, coalescing and moving copy a row that is not. `ready` is `next_attempt_at <= now()`, `moved` whether
`next_attempt_at` differs from what the claim returned, which `defer` compares.
`mailed` and `skipped` are history.

## 9. Runs

| run | instance | properties | what it shows |
| --- | --- | --- | --- |
| `journal` | `MCWorkerJobs.cfg`: 3 jobs in a chain, 2 tokens, 2 attempts, batches of 3, maintenance fair | `JobsTypeOK` `OpenWorkIsRunnable` `ChildRestsOnCompletedParent` `ParentOutlivesChild` `SettledIsFinal` `BlockedChildSettles` `EvidenceIsBounded` | the journal alone is consistent under any client, and its maintenance goes on |
| `fencing` | `MCFencing.cfg`: 2 lanes, a transactional job, 4 tokens, 2 attempts, 1 crash | `EffectMatchesReceipt` `ExclusiveTransaction` `LeaseErrorIsCurrent` `LiveLeaseUndisturbed` | exactly-once effects |
| `zombie` | `MCZombie.cfg`: 2 lanes, a build outside a transaction, 4 tokens, 2 attempts | `NothingLost` `ImplementsLedger` | at-least-once, fenced, with a lane that lost its lease; the refinement |
| `handoff` | `MCHandoff.cfg`: a build and its reproduction, 1 lane, 3 tokens, 1 attempt and operator retries | `FollowUpsBeforeReceipt` | follow-ups through throws, failures, retries, removal |
| `progress` | `MCProgress.cfg`: 1 lane, 2 attempts, fair | `IngressIsAdopted` `OpenJobsSettle` | ingress is adopted for good; open rows settle within their attempts |
| `webhooks` | `MCWebhooks.cfg`: 2 lanes, 1 delivery, 2 tries, threshold 1, 1 fault, fair | `TypeOK` `NothingStranded` `OutcomesAreEarned` `NoNeedlessSend` `IntentsSettle` | tries are sent in order, once, recorded truly; none is left waiting; every delivery ends |
| `grouping` | `MCGrouping.cfg`: 2 lanes, 3 events out of order, one of them twice, deployments at 2 and 4, window 2, thresholds 1 and 3, 2 resolutions | `CountsItsEvents` `AnnouncedOnce` `BundlesAreRequested` `RegressionsAreEarned` `RegressionsAreAnnounced` `SamplesAreKept` `RepresentativesAreKept` `SamplesAreBounded` `ImplementsLog` | the row, the follow-ups and the samples agree; a lane's reads and its upsert are one atomic occurrence |
| `bundles` | `MCBundles.cfg`: 2 lanes, 3 events of one incident, two of them at the same time, 1 of another and a regeneration, allowance 2, limit 1, 1 fault or expiry | `RepeatsTakeNoNumber` `SourceIsLatest` `ObjectsFollowRows` `UsageIsBounded` `BuildsAreFinished` `RetentionIsEnforced` | generations, sources, objects and limits under interleaved builds |
| `daily` | `MCDaily.cfg`: 2 lanes, 2 schedules of 2 windows, 2 incidents of a project, 1 attempt, 1 change, 1 fault | `OverdueIsFound` `NothingIsSilentlyDropped` `MovesAreNotCharged` `RepeatsNeedFaults` | no alert is dropped, forgotten, charged or mailed twice |
| `manual_retry` | `MCRetry.cfg`: 1 lane, 1 delivery, 2 tries | `RetryIsQueued` | a disagreement, see below |
| `streak` | `MCStreak.cfg`: 1 lane, 3 deliveries, 2 tries, threshold 2 | `StreakDisables` | a disagreement, see below |
| `skipped_receipt` | `MCReceipt.cfg`: as `journal`, batches of 1 | `ReceiptIsRetained` | a disagreement, see below |

Why the bounds are enough. Two attempts tell the last one from one that is not
(the code has eight); where one is used, to keep two or three jobs small, the first
is the last, and an operator's retry brings a second. Two lanes are a holder and a thief; a third adds another thief, which the
token treats alike. Three chained jobs give a parent that is itself a child, and a batch
of three a complete maintenance pass; partial passes occur in `skipped_receipt` (batches of 1) and
are covered by the proofs of the safety properties, which hold for every `BatchLimit`. The two liveness
properties of `journal` are checked with complete passes only: the code takes the oldest rows first, the model
any `BatchLimit` of them, and with partial passes it could pass over a row for ever.
Tokens: one per lane held, one per heartbeat in flight, one per row, so `FreshToken` never
limits a lane there. `MaxCrashes` is 1 in `fencing` and 0 elsewhere: a lane that crashes is
then one that throws, or stalls for ever, at the same await, and forgets; those are unbounded.
The safety properties do not rest on these bounds: section 11 proves them for all values. Dependent jobs within the queue and payloads with
several identities (regeneration requests) are left to these proofs. Symmetry is used in
safety runs only: tokens and lanes are interchangeable, and in `daily` the
schedules and the incidents too.

For the webhooks, two tries are a first and a last; `MaxTries` is 6 in
the code, and a middle one is left to the proofs. A delivery meets others only in the disabling of their webhook. With one
delivery and a threshold of 1 it meets itself there: while a lane judges and
disables, the API enables the webhook and retries the delivery, another lane takes
it, and the first lane stops it at any point. That several are stopped together is
left to the proofs. The fault lets a lane be late with an answer, die or throw. A delivery is retried by hand at most once: a
second retry starts from the same states as the first.

For the grouping, three events that happen at 1, 3 and 5 meet deployments at 2 and 4 with a
window of 2: each event has a deployment before it that is recent, old or absent, depending
on the order of arrival. The two highest ranks differ and one rank is shared. Thresholds 1 and 3
leave a count between them at which nothing is rebuilt for its number. Two resolutions allow
a second regression, and a resolution that a lane misses followed by one that none does. For the bundles, two incidents and a limit of 1 make every build
of one prune the other; three events of one of them make a stalled older build and a tie of the later two; an allowance of 2
is used up by the first two of four events and exceeded by one when both lanes have passed the
check. For the daily e-mails, two windows are one that is coalesced and one that coalesces
it, two schedules are the least a policy moves an item between, and with one attempt a
batch fails at the first error; a deferral gives its attempt back, so it does not count. The incidents
are of one project, so that the second could be charged again; several projects are left to the proofs.

`FollowUpsBeforeReceipt` is checked with one lane: with two, a lane that stalls
for a whole retention could find its follow-up settled and already removed when
it acknowledges, which is the retention's doing and not a loss. The theorem
`FollowUpsComeFirst` has any number of lanes and states that premise
(`SweepsBetweenSteps`); `OneLaneEnqueuesFirst` is the case the run checks.

### Disagreements with the documentation

`skipped_receipt`. `spec/worker-durability.md:26` says that successful and skipped jobs "retain a
seven-day dedupe receipt". `complete` starts these seven days; `maintain`'s first
statement, which skips a dependent of a skipped parent (`worker-job-store.ts:155`),
clears the payload but leaves `expires_at` alone. The receipt lives only as long
as what was left of the row's original retention: in the run, nothing at all.
The consequence is a dedupe window shorter than documented.

`manual_retry`. `spec/requirements.md:309` promises a manual retry.
`retryDeliveryForOrganization` sets `attempt_count` to 0; the scheduler then asks
for the job of try 1, which has been in the journal as a receipt since the first
time, and `ON CONFLICT DO NOTHING` drops it. Every 30 seconds the delivery is taken
again in vain, until the receipt's seven days are over (`webhooks` shows that it does
settle then). A delivery that was disabled before its first try has no receipt and
is retried at once.

`streak`. `spec/acceptance.md:883` has a webhook disabled after 50 consecutive
failures across any deliveries. `markDeliveryAttempt` counts rows, latest first,
and stops at one that is not `failed`: a delivery that failed a moment ago and waits
for its next try ends the streak, so a webhook with steady traffic, all of it
failing, always has such rows among its latest and may never be disabled.

### Known limits

Behaviours of the code the models contain. The first three, and the numbers of simultaneous events, are
the exceptions that a property names, and the proof shows that there are no others; no property excludes the rest.

* An incident resolved between `upsertIncident`'s SELECT and its upsert becomes
  `regressed` (`metadata-grouping.ts:205`), but the job has read it as open: no
  `bundle.reopened`, no regression alert and no rebuild follow, which
  `spec/acceptance.md:608` expects. `RegressionsAreAnnounced` holds of every other resolution,
  and `RegressionsAreEarned` is the opposite direction.
* A build that stalls between its reservation and its `putObject`
  (`processor-bundles.ts:220`) overwrites the object of a newer generation, for which the row
  remains current. `SourceIsLatest` is about the row; `ObjectsFollowRows` is about the objects of
  the incidents that never had two such builds.
* A crash after the pruning of the rows and before the deletion of their objects, or a
  build that stores an object for an incident pruned meanwhile, leaves an object no row
  refers to (`processor-bundles.ts:292`). `ObjectsFollowRows` has no object without a row otherwise.
* The clean-up lists expired incidents, deletes their objects and then the incidents
  (`retention-store.ts:492`) without looking again whether they have expired; a regeneration
  reserved in between loses its incident.
* Two events of one incident with the same `occurred_at` take the source of its bundle from one
  another (the strict `>` of `metadata-bundles.ts:185`), so a repeated build of the first reserves a new
  number and writes it over the one in its row (line 257). It adds no row and is not charged;
  `RepeatsTakeNoNumber` excepts the number, and `SourceIsLatest` holds. For all other events a
  regeneration takes no number either, although `contracts/data-schemas.md:529` has
  `generation_number` increment each time a bundle is regenerated.
* A lane whose lease has lapsed moves items of its batch until it is replaced
  (`notification-daily-store.ts:302` compares `claimed_until` with the time its pass began), and the window after that
  time, its second choice, may be closed when it looks (line 321): the pass then fails without a fault.
  `NothingIsSilentlyDropped` and `MovesAreNotCharged` hold all the same.
* Pruning deletes rows of `bundle_generations`, from which the monthly usage is counted
  (`billing-store.ts:474`), so it gives allowance back. `UsageIsBounded` counts as the code does.
* An alert that wakes a batch already due for a pass (`LEAST(next_attempt_at, now)`,
  `notification-daily-store.ts:199`) leaves `next_attempt_at` as the claim returned it, so a lane
  that has read the preferences before defers the batch to its window, and the alert's
  preferences are looked at then. `OverdueIsFound` holds because the window itself falls due.
* Storing a job for a deleted project stores nothing and reports nothing
  (`worker-job-store.ts:79`); a receipt's removal ends the deduplication of its identity;
  `releaseLease` deletes the regeneration lease without a token (`redis-queue.ts:269`).

## 10. Fairness

`JobsFairSpec` of the journal: some loop runs `maintain` (`runtime.ts:856`), and
only its first statement is assumed fair. No statement of a client is, and neither
is the end of a retention, which would settle a blocked child too, seven days later,
and would hide whether the sweep does. `EvidenceIsBounded` is about the end of
retentions and states that premise itself (`RetentionPasses`).

`Fairness` of the queue: statements and transactions have time-outs, so a step a
lane is in ends, by an answer or by a throw (weak fairness of `Work`,
`RenewalReturns`, `RedisEmpty`, `ClaimAgain`). `runWorkerLane` never stops and
`runWorkerStep` goes on after errors, so each name and the maintenance come again
and again, and a step that is come to again and again does not throw *every* time
(strong fairness of the dequeue and maintenance steps). That is an assumption on
Redis and Postgres: with either down for good nothing is promised. Nothing is
assumed of producers, operators, retention (`RetentionEnds` is not fair, so rows
settle without its help), deletion or crashes, which are finite in number.

`WebhookDelivery`: requests time out (`Deliver`), steps end (`Record`, `EnqueueDue`),
time passes. The scheduler runs in every pass and takes the oldest due rows first,
and a name's jobs are claimed oldest first; a lane may find neither in a given
pass, because another lane did, so `ClaimDue` of a delivery and `TakeJob` are
strongly fair. Faults are finite in number. A push may be lost every time, a
webhook may be disabled and enabled for ever, a receipt goes (`ForgetReceipt`).

`IncidentGrouping`, `BundleGeneration` and `DailyNotifications` are safety specifications: their
jobs are the queue's, whose progress is shown once, in `DurableQueue`. What liveness would
say of them is stated as what a state must offer: a recorded generation has a job open
that will build it (`BuildsAreFinished`), a due batch is found by the next claim
(`OverdueIsFound`).

## 11. Proofs

The constants are arbitrary under the named assumptions: `ParentAssumption` (a
parent is a job or none), `TokenAssumption`, `LimitAssumption` (limits at least
1), `WorkerAssumption`, `MessageAssumption`, `StageAssumption`. Nothing assumes
finiteness of jobs, workers or tokens. The stages assume more of theirs where they count:
finitely many events, incidents or lanes.

1. **Journal** (`WorkerJobsProofs`). `JobsInv` is the inductive invariant: types,
   `OpenWorkIsRunnable`, `ChildRestsOnCompletedParent`, `ParentOutlivesChild`.
   They need each other: that a completed parent stays under its child uses
   that completed rows have no payload (so cannot expire) and are removed only
   without children. It is proved for a weaker step, any statement with any
   `locked` set, so it serves both the journal alone and the queue.
   `SettledIsFinal` follows from it as an action property.
2. **Lanes** (`DurableQueueProofs`). `QueueIsAJournalClient`: each step of
   `DurableQueue` is a step of the journal's general client or leaves the journal
   alone; so `QueueKeepsDependencies` costs nothing. `LaneInv` gives the shape of
   a lane in each `pc`. `ClaimInv` says what a claim means: a row's token is held
   by at most one lane, and a lane inside a transaction still owns its row,
   because locked rows are passed over by everything else. From these,
   `TransactionsAreExclusive`, `LeaseErrorsAreCurrent`, `LiveLeasesAreUndisturbed`.
3. **Ledger** (`LedgerProofs`). `EffectInv` ties `done` to the row's status and
   to `worked` lanes that still own their row; with it every step maps to a
   ledger step: `EffectsMatchReceipts`, `QueueImplementsLedger`. `FollowInv` is for the
   follow-ups: while a lane that has worked still owns its row, whatever it no longer has to
   enqueue is stored (`FollowUpsStored`), and only a deleted project stores nothing (`NoRowsLeft`). A sweep of old
   receipts in that moment would break it, so `FollowUpsComeFirst` assumes there is none,
   `[][SweepsBetweenSteps]_vars`: a step lasts minutes, a receipt seven days. One lane needs no
   such premise (`OneLaneEnqueuesFirst`).
4. **Ingress** (`IngressProofs`). `IngressInv`: an entry is held by the lane it
   is taken by, and a lane past `holding` holds a payload that was stored (or its
   project is gone): `NothingIsLost`, `QueueTypeCorrect`.
5. **Webhooks** (`WebhookDeliveryProofs`), under `LaneAssumption`,
   `WebhookAssumption` and `CountAssumption`. The inductive invariant `IInv` has two
   parts. `Base` holds whatever fails: a row comes before what refers to it, and
   whoever knows of try k, a row, a job, a batch or a lane, was reached through
   answers to the k - 1 tries before (`Recorded`); `NoneIsStranded` and
   `OutcomesAreTrue` follow. `Orderly(d)` holds of a delivery nothing disturbed: its
   only open job is the next try's, receipts are of recorded tries, the lane that
   has the job owns it, and `tried` is exactly what `attempt_count` says, plus the
   answer a lane has still to record. `NothingIsSentTwice` needs all of it: that a
   second job for a try is refused uses that the first is still in the journal,
   which uses that receipts go only when no batch or push can name them any more.
   Most actions keep `Orderly` because they keep what it reads (`KeptOrderly`); the
   five that move a delivery on have proofs of their own.

6. **Grouping** (`IncidentGroupingProofs`). `LockInv`: one lane at most is between its reads
   and its upsert, and all it has read but the status still holds. `RowInv` adds the types
   and `CountsItsEvents`, whose cardinality needs that a duplicate is known as
   one. `SampleInv` is what keeps the samples: each of *first*, *latest*, *highest severity* is on
   one row, that row represents what it should (`RepresentativesHold`, `Unique`), and there is an
   injection from the events kept as the first after a deployment to the deployments (`Blamed`), which bounds
   their number. `FollowInv` says that follow-ups are of recorded events and of numbers up to
   the count. `EarnedInv` counts a reopening still to be announced (`Pending`) against the resolutions.
   `AnnounceInv` is the other direction: as long as nothing follows a resolution that met no lane at work,
   the count is the one of that resolution and every lane at work has read `resolved`; the
   next new event then announces the regression (`RegressionsStayAnnounced`). The refinement,
   `OccurrencesAreAtomic`, needs `RowInv`, by which a redelivery changes nothing, and
   `FollowInv`, by which the announcements of a new event are new.
7. **Bundles** (`BundleGenerationProofs`). `TableInv` relates the statements: the source of an
   incident is the latest event seen, its row carries the incident's number, rows go with their
   incident, an event seen that has no row is older than the source. From it, a reservation repeats the
   row of the source, adds one, or numbers the row of an event of the source's own time anew
   (`ReserveEffect`); with the bound of all numbers by the incident's (`NumbersAreBounded`),
   `RepeatsKeepTheirNumbers` follows as an action property. `LaneInv` says
   what a lane between two statements knows. `UsageInv` counts the lanes that passed the
   check (`Passed`) with the rows; `FinishInv` and `BehindInv` follow a job from its reservation
   to its hand-off and to its pruning. `ObjectInv` is about stored objects: of an undisturbed incident at most
   one lane is about to store, what it reserved is the incident's number, and if no lane is, the object
   is that number or a job of its source is open (`Followed`); an object without an incident is
   on the list of the lane that pruned it (`PrunedInv`). `ObjectsStayWithRows` follows.
8. **Daily e-mails** (`DailyNotificationsProofs`). `PassInv` is about the pass of one lane: while it
   holds the token, what it listed and has not moved is what the batch contains, and a batch
   taken late takes no more items, also when the lease has lapsed and the lane still moves items (`PassOK`); no step of another
   lane, an alert or a user disturbs that (`Undisturbed`). With it, `NothingIsDropped` follows
   per way of closing a batch. `RepeatsArePaidFor` is an accounting: the e-mails of an
   incident that were sent, and those a lane is about to send, are at most one more than the faults
   (`MailOK`). `MovesAreNotChargedAgain` rests on `UsageCoversItems`: wherever its items
   are, a project has a row, so what an admission charges is the first. `NoWindowIsForgotten` needs that a batch somebody holds has an attempt (`FoundInv`).

Most actions keep an invariant because they keep what it reads; each of the proofs has a
lemma that says so once (`KeptOrderly`, `Undisturbed`, ...), and a lemma of its own for each action
that does not. The type invariants are proved too; those of the queue, the grouping, the bundles
and the daily e-mails (`QueueTypeOK`, `GroupingTypeOK`, `BundleTypeOK`, `DailyTypeOK`) are checked by their
proofs only.

Model-checked only: the liveness properties (`EvidenceIsBounded`,
`BlockedChildSettles`, `IngressIsAdopted`, `OpenJobsSettle`, `IntentsSettle`), which are outside
the prover's reach under fairness. Every safety property of a passing run has a theorem.

## 12. Not modelled

Of the modelled components:

* Redis: the older `dequeue`, `ack` and `fail` of the queue object, which the durable queue does
  not use, and the `SET NX` leases of the regeneration guard.
* Runtime: which lane polls which name, the back-off of failing steps, the wiring.
* Grouping: bulk resolution (the same statement for several rows), the deletion of incidents,
  matched fields, titles, correlations with analytics and improvements.
* Bundles: the collection of evidence (reads), notices, metrics.
* Webhooks: creation and deletion of webhooks, deletion of deliveries, filters, allowance.
* Daily e-mails: pages of items, exhausted allowances, cooldowns, immediate delivery, legacy
  digests, the clean-up after 30 days.
* Retention: sweeps of analytics and diagnostic context, deletion of accounts.

Not modelled at all, in three groups:

* Components that repeat a discipline modelled here. Improvement bundles are reserved,
  stored and pruned as failure bundles are; analytics bundles are claimed under a token, as journal
  rows and daily batches are; alert deliveries and operational e-mails are retried as
  webhook deliveries are. Each has its own tables, and a module of its own would be needed to
  say that it follows the discipline correctly.
* Components whose difficulty is outside this repository: billing (Stripe), GitHub
  dispatch, availability probes, OAuth providers. Their stores record what a service answered.
* Data and front ends: normalisation, redaction, parsing, bundle contents, reproductions, the
  API's handlers, the CLI, the MCP servers, the web application. They are functions of a request or an
  event and keep no state between steps. Project merges are single transactions over most
  tables and are about the content of rows the modules abstract from. By lines this is the
  larger part of the repository; its control is in the components above.
