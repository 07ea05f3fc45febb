---------------------------- MODULE IncidentGrouping ----------------------------
(***************************************************************************)
(* The grouping of events into an incident: the stage group-incident       *)
(* (apps/worker/src/processor-group.ts), its statements on the tables      *)
(* incidents, incident_events and deployments                              *)
(* (packages/storage/src/metadata-grouping.ts), the statements by which    *)
(* users resolve and reopen an incident (metadata-incident-lifecycle.ts)   *)
(* and the clean-up of expired raw events (retention-store.ts).            *)
(*                                                                         *)
(* A grouping job runs in one transaction, READ COMMITTED, and takes an    *)
(* advisory lock on the fingerprint before it reads the incident, so the   *)
(* jobs of one incident follow each other.  Resolving and reopening do not *)
(* take that lock: they fall between the reads of a job (Look) and the     *)
(* upsert that locks the row (Commit, atomic with all that follows it).    *)
(*                                                                         *)
(* Simplifications:                                                        *)
(*   - one incident: others share only the deployments, see Deploy;        *)
(*   - a job is open until a transaction commits it; how a job is claimed, *)
(*     retried and closed is the subject of DurableQueue;                  *)
(*   - raw objects are deleted when their deletion is queued;              *)
(*   - whether the frequency counter reports a spike is a free choice;     *)
(*   - the deletion of incidents, the correlation with analytics and       *)
(*     improvements, titles and matched fields are left out.               *)
(***************************************************************************)
EXTENDS Integers, FiniteSets

CONSTANTS Lane,
          Job, EventOf,       \* open jobs of the fingerprint; an event may have several
          Event, Type, Time, Rank,  \* events: event_type, occurred_at, severity_rank
          DeployTime,         \* the times at which deployments may be reported
          Window,             \* regressions blame deployments no older, 24 hours
          Thresholds,         \* occurrence counts that rebuild the bundle, 1, 3 and 10
          NoJob, MaxResolves  \* bound of the model

ASSUME JobAssumption ==
    /\ IsFiniteSet(Event) /\ NoJob \notin Job
    /\ EventOf \in [Job -> Event]
ASSUME EventAssumption ==
    /\ Time \in [Event -> Nat \ {0}] /\ Rank \in [Event -> 1..4]
    /\ DeployTime \subseteq Nat \ {0} /\ Window \in Nat
ASSUME CountAssumption ==
    /\ Thresholds \subseteq Nat \ {0} /\ 1 \in Thresholds /\ MaxResolves \in Nat

VARIABLES
  status, count, firstSeen, lastSeen,  \* the row of incidents, "none" without one
  spiked,        \* spike_detected_at is set
  member,        \* the rows of incident_events
  retain,        \* their retain_... columns
  sampled,       \* those with is_sampled
  deployed,      \* deployed_at of the rows of deployments
  queued,        \* jobs not committed
  task, seen,    \* a lane: the job it has the lock for, what it has read
  enqueued,      \* follow-up jobs: kind, event, occurrence_count
  deleted,       \* events whose raw object was deleted
  \* history, read by the properties alone
  resolves,      \* how often the incident was resolved
  expired,       \* events whose raw object outlived its retention
  done,          \* the events recorded first and last
  resolvedAt     \* the count when it was last resolved, 0 if a lane held the lock then

rowVars == <<status, count, firstSeen, lastSeen, spiked>>
eventVars == <<member, retain, sampled>>
outVars == <<enqueued, deleted>>
historyVars == <<resolves, expired, done, resolvedAt>>
vars == <<status, count, firstSeen, lastSeen, spiked, member, retain, sampled, deployed,
          queued, task, seen, enqueued, deleted, resolves, expired, done, resolvedAt>>

Status == {"none", "open", "resolved", "regressed"}
Flag == {"first", "latest", "highest_severity", "after_deploy", "deploy_metadata"}
Kind == {"build", "created", "updated", "reopened", "new_incident", "severity",
         "incident_regressed", "regression_after_deploy", "error_spike"}
Seen == [status : Status, duplicate : BOOLEAN, hasType : BOOLEAN,
         hasRequest : BOOLEAN, recentDeploy : BOOLEAN]
NotSeen == [status |-> "none", duplicate |-> FALSE, hasType |-> FALSE,
            hasRequest |-> FALSE, recentDeploy |-> FALSE]

IsDeploy(e) == Type[e] = "deploy_metadata"
IsRequest(e) == Type[e] = "request_event"

(***************************************************************************)
(* the reads of upsertIncident                                             *)
(***************************************************************************)
LockIsFree_Dropped == TRUE

\* pg_advisory_xact_lock on [project, service, environment, fingerprint]
LockIsFree == \A l \in Lane : task[l] = NoJob

\* upsertDeploymentFromEvent, seen by its own transaction until the commit
DeploymentsWith(e) == deployed \cup IF IsDeploy(e) THEN {Time[e]} ELSE {}

\* getRegressionDeployCorrelation
RecentDeploy(e) ==
    \E d \in DeploymentsWith(e) : d <= Time[e] /\ Time[e] - d <= Window

Reading_OfSamples(e) ==
    [status |-> status,
     duplicate |-> e \in sampled,
     hasType |-> \E m \in member : Type[m] = Type[e],
     hasRequest |-> \E m \in member : IsRequest(m),
     recentDeploy |-> RecentDeploy(e)]

Reading(e) ==
    [status |-> status,
     duplicate |-> e \in member,
     hasType |-> \E m \in member : Type[m] = Type[e],
     hasRequest |-> \E m \in member : IsRequest(m),
     recentDeploy |-> RecentDeploy(e)]

Look(l) ==
    /\ task[l] = NoJob
    /\ LockIsFree
    /\ \E j \in queued :
         /\ task' = [task EXCEPT ![l] = j]
         /\ seen' = [seen EXCEPT ![l] = Reading(EventOf[j])]
    /\ UNCHANGED <<rowVars, eventVars, deployed, queued, outVars, historyVars>>

(***************************************************************************)
(* the upsert of the incident                                              *)
(***************************************************************************)
Earlier(t, u) == IF t <= u THEN t ELSE u
Later(t, u) == IF t <= u THEN u ELSE t

InsertIncident(e) ==
    /\ status = "none"
    /\ status' = "open" /\ count' = 1
    /\ firstSeen' = Time[e] /\ lastSeen' = Time[e]

UpdateIncident(e, duplicate) ==
    /\ status # "none"
    /\ firstSeen' = Earlier(firstSeen, Time[e])
    /\ IF duplicate
       THEN UNCHANGED <<status, count, lastSeen>>
       ELSE /\ status' = IF status = "resolved" THEN "regressed" ELSE status
            /\ count' = count + 1
            /\ lastSeen' = Later(lastSeen, Time[e])

(***************************************************************************)
(* recordIncidentEventRetention                                            *)
(***************************************************************************)
FirstAfterDeploy_Any(e) == ~ IsDeploy(e) /\ \E d \in DeploymentsWith(e) : d <= Time[e]

\* no other occurrence is as late as the last deployment before this one
FirstAfterDeploy(e) ==
    /\ ~ IsDeploy(e)
    /\ \E d \in DeploymentsWith(e) :
         /\ d <= Time[e]
         /\ \A c \in DeploymentsWith(e) : c <= Time[e] => c <= d
         /\ \A m \in member \ {e} : ~ IsDeploy(m) => Time[m] < d

HighestSeverity_Lowest(e) == \A m \in member : Rank[m] > Rank[e]

HighestSeverity(e) == \A m \in member : Rank[m] < Rank[e]

FlagsOf(e) ==
    {"latest"}
    \cup (IF count' = 1 THEN {"first"} ELSE {})
    \cup (IF HighestSeverity(e) THEN {"highest_severity"} ELSE {})
    \cup (IF FirstAfterDeploy(e) THEN {"after_deploy"} ELSE {})
    \cup (IF IsDeploy(e) THEN {"deploy_metadata"} ELSE {})

\* the flags a new event takes from the rows that have them
Taken(e) == {"latest"} \cup IF HighestSeverity(e) THEN {"highest_severity"} ELSE {}

Losing(e) == {m \in member : retain[m] \cap Taken(e) # {}}

Demoted_AllLosing(e) == Losing(e)

\* collectDemotedIncidentEvents
Demoted(e) == {m \in Losing(e) : retain[m] \subseteq Taken(e)}

Retention(e) ==
    /\ member' = member \cup {e}
    /\ retain' = [m \in Event |->
                    (retain[m] \ Taken(e)) \cup IF m = e THEN FlagsOf(e) ELSE {}]
    /\ sampled' = ((sampled \cup Losing(e)) \ Demoted(e)) \cup {e}
    /\ deleted' = deleted \cup Demoted(e)
    /\ done' = [first |-> IF member = {} THEN {e} ELSE done.first, last |-> {e}]

(***************************************************************************)
(* what follows an occurrence: jobs of the stages after this one           *)
(***************************************************************************)
BundleKinds_OldCount(e, s, regressed) ==
    IF ~ (count \in Thresholds \/ regressed \/ IsDeploy(e)) THEN {}
    ELSE IF count' = 1 THEN {"build", "created"} ELSE {"build", "updated"}

\* bundle builds and the lifecycle webhooks of the bundle
BundleKinds(e, s, regressed) ==
    LET wanted == \/ count' \in Thresholds \/ regressed \/ IsDeploy(e)
                  \/ s.status # "none" /\ ~ s.hasType
                  \/ s.status # "none" /\ IsRequest(e) /\ ~ s.hasRequest
    IN IF ~ wanted THEN {}
       ELSE IF count' = 1 THEN {"build", "created"}
       ELSE IF regressed THEN {"build"} ELSE {"build", "updated"}

AlertKinds_OneAlert(s, regressed) ==
    {"severity"} \cup IF count' = 1 THEN {"new_incident"}
                      ELSE IF regressed /\ s.recentDeploy THEN {"regression_after_deploy"}
                      ELSE IF regressed THEN {"incident_regressed", "reopened"}
                      ELSE {}

AlertKinds(s, regressed) ==
    {"severity"}
    \cup (IF count' = 1 THEN {"new_incident"} ELSE {})
    \cup (IF regressed THEN {"incident_regressed", "reopened"} ELSE {})
    \cup (IF regressed /\ s.recentDeploy THEN {"regression_after_deploy"} ELSE {})

\* markIncidentSpiking, of a frequency the counter judges
SpikeKinds(spiking) == IF spiking /\ ~ spiked THEN {"error_spike"} ELSE {}

FollowUps(e, kinds) == {[kind |-> k, event |-> e, count |-> count'] : k \in kinds}

Recorded(e, s, spiking) ==
    LET regressed == s.status = "resolved"
        kinds == BundleKinds(e, s, regressed) \cup AlertKinds(s, regressed)
                   \cup SpikeKinds(spiking)
    IN /\ Retention(e)
       /\ spiked' = (spiked \/ spiking)
       /\ enqueued' = enqueued \cup FollowUps(e, kinds)

\* an event that was recorded before changes first_seen_at at most
Duplicate(e) ==
    /\ member' = member \cup {e}
    /\ UNCHANGED <<retain, sampled, deleted, done, spiked, enqueued>>

Commit(l) ==
    /\ task[l] # NoJob
    /\ LET e == EventOf[task[l]]
       IN /\ InsertIncident(e) \/ UpdateIncident(e, seen[l].duplicate)
          /\ IF seen[l].duplicate
             THEN Duplicate(e)
             ELSE \E spiking \in BOOLEAN : Recorded(e, seen[l], spiking)
          /\ deployed' = DeploymentsWith(e)
    /\ queued' = queued \ {task[l]}
    /\ task' = [task EXCEPT ![l] = NoJob]
    /\ seen' = [seen EXCEPT ![l] = NotSeen]
    /\ UNCHANGED <<resolves, expired, resolvedAt>>

\* an error or a crash rolls the transaction back and leaves the job open
Abort(l) ==
    /\ task[l] # NoJob
    /\ task' = [task EXCEPT ![l] = NoJob]
    /\ seen' = [seen EXCEPT ![l] = NotSeen]
    /\ UNCHANGED <<rowVars, eventVars, deployed, queued, outVars, historyVars>>

(***************************************************************************)
(* users, other incidents of the service, and the clean-up                 *)
(***************************************************************************)
Resolve ==
    /\ status \in {"open", "regressed"}
    /\ resolves < MaxResolves
    /\ status' = "resolved"
    /\ resolves' = resolves + 1
    /\ resolvedAt' = IF LockIsFree THEN count ELSE 0
    /\ UNCHANGED <<count, firstSeen, lastSeen, spiked, eventVars, deployed, queued,
                   task, seen, outVars, expired, done>>

Reopen ==
    /\ status \in {"resolved", "regressed"}
    /\ status' = "open"
    /\ UNCHANGED <<count, firstSeen, lastSeen, spiked, eventVars, deployed, queued,
                   task, seen, outVars, historyVars>>

\* a deployment whose event belongs to another incident of the service
Deploy(d) ==
    /\ d \in DeployTime \ deployed
    /\ deployed' = deployed \cup {d}
    /\ UNCHANGED <<rowVars, eventVars, queued, task, seen, outVars, historyVars>>

\* the clean-up deletes the object of a sampled event that is old, and marks it
ExpireRaw(e) ==
    /\ e \in sampled \ expired
    /\ deleted' = deleted \cup {e}
    /\ expired' = expired \cup {e}
    /\ UNCHANGED <<rowVars, eventVars, deployed, queued, task, seen, enqueued, resolves, done,
                   resolvedAt>>

MarkExpired(e) ==
    /\ e \in expired \cap sampled
    /\ sampled' = sampled \ {e}
    /\ retain' = [retain EXCEPT ![e] = {}]
    /\ UNCHANGED <<rowVars, member, deployed, queued, task, seen, outVars, historyVars>>

Init ==
    /\ status = "none" /\ count = 0 /\ firstSeen = 0 /\ lastSeen = 0 /\ spiked = FALSE
    /\ member = {} /\ retain = [e \in Event |-> {}] /\ sampled = {} /\ deployed = {}
    /\ queued = Job
    /\ task = [l \in Lane |-> NoJob] /\ seen = [l \in Lane |-> NotSeen]
    /\ enqueued = {} /\ deleted = {}
    /\ resolves = 0 /\ expired = {} /\ done = [first |-> {}, last |-> {}] /\ resolvedAt = 0

Next ==
    \/ \E l \in Lane : Look(l) \/ Commit(l) \/ Abort(l)
    \/ Resolve \/ Reopen
    \/ \E d \in DeployTime : Deploy(d)
    \/ \E e \in Event : ExpireRaw(e) \/ MarkExpired(e)

Spec == Init /\ [][Next]_vars

(***************************************************************************)
(* properties                                                              *)
(***************************************************************************)
\* the columns and the state of the lanes have the values the code gives them
GroupingTypeOK ==
    /\ status \in Status /\ spiked \in BOOLEAN
    /\ count \in Nat /\ firstSeen \in Nat /\ lastSeen \in Nat
    /\ member \subseteq Event /\ retain \in [Event -> SUBSET Flag]
    /\ sampled \subseteq member /\ deployed \subseteq Nat \ {0}
    /\ queued \subseteq Job /\ task \in [Lane -> Job \cup {NoJob}]
    /\ seen \in [Lane -> Seen]
    /\ \A f \in enqueued : f.kind \in Kind /\ f.event \in Event /\ f.count \in Nat
    /\ deleted \subseteq member /\ expired \subseteq member
    /\ resolves \in Nat /\ resolvedAt \in Nat /\ done.first \subseteq member /\ done.last \subseteq member

\* AC-GRP-01: however often, in whatever order and by whatever lanes the events of
\* an incident are grouped, its row counts each once and spans exactly their times
CountsItsEvents ==
    /\ (status = "none") = (member = {})
    /\ count = Cardinality(member)
    /\ \A m \in member : firstSeen <= Time[m] /\ Time[m] <= lastSeen
    /\ member # {} => \E m, n \in member : Time[m] = firstSeen /\ Time[n] = lastSeen

\* an occurrence has its follow-ups (builds, webhooks, alerts) once, as the
\* occurrence of one number, whatever is delivered again
AnnouncedOnce ==
    \A f, g \in enqueued : (f.event = g.event) = (f.count = g.count)

\* AC-GRP-06: no threshold and no type of event is passed without a build
BundlesAreRequested ==
    /\ \A n \in Thresholds : n <= count =>
         \E f \in enqueued : f.kind = "build" /\ f.count = n
    /\ \A m \in member : \E f \in enqueued :
         f.kind = "build" /\ Type[f.event] = Type[m]

\* bundle.reopened is announced at most once for each time the incident was resolved
RegressionsAreEarned ==
    Cardinality({f \in enqueued : f.kind = "reopened"}) <= resolves

\* AC-GRP-05: an incident that regressed has the build, the alert and the webhook of its
\* regression, under the number of the occurrence that came after the resolution,
\* unless it was resolved while a lane was between its reads and its upsert: that lane
\* makes the incident regressed and announces nothing
RegressionsAreAnnounced ==
    status = "regressed" /\ resolvedAt # 0 =>
      \A k \in {"build", "reopened", "incident_regressed"} :
        \E f \in enqueued : f.kind = k /\ f.count = resolvedAt + 1

\* is_sampled says that one of the columns retain_... is set; the object of a
\* sampled event is deleted by nothing but the clean-up
SamplesAreKept ==
    /\ sampled = {m \in Event : retain[m] # {}}
    /\ deleted \cap sampled \subseteq expired

\* the first, the latest and the most severe event recorded keep their detail
\* until it expires
RepresentativesAreKept ==
    member # {} =>
      /\ (done.first \cup done.last) \subseteq (sampled \cup expired)
      /\ \E m \in sampled \cup expired : \A n \in member : Rank[n] <= Rank[m]

\* the events kept with their detail are few: one first, one latest and one most severe,
\* and one for each deployment, in whatever order events and deployments arrive
SamplesAreBounded ==
    /\ \A k \in {"first", "latest", "highest_severity"} : \A m, n \in Event :
         k \in retain[m] /\ k \in retain[n] => m = n
    /\ Cardinality({m \in Event : "after_deploy" \in retain[m]}) <= Cardinality(deployed)

Log == INSTANCE OccurrenceLog WITH occurred <- member, announced <- enqueued

\* the reads of a lane and the upsert that follows them, with users, deployments, the
\* clean-up and other lanes between them, are to the incident one atomic occurrence, and
\* a redelivered event is none
ImplementsLog == Log!Spec
=============================================================================
