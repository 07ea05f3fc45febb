---------------------------- MODULE BundleGeneration ----------------------------
(***************************************************************************)
(* The builds of failure bundles: the stage build-bundle                   *)
(* (apps/worker/src/processor-bundles.ts) with its statements on the       *)
(* tables incidents and bundle_generations                                 *)
(* (packages/storage/src/metadata-bundles.ts), the pruning of the owners   *)
(* beyond the retained limit (retained-bundle-pruning.ts) and the clean-up *)
(* of expired incidents (retention-store.ts).                              *)
(*                                                                         *)
(* A build is a sequence of statements outside any transaction, each an    *)
(* action: other builds, of the same incident too, run between them.  An   *)
(* error or a crash leaves the job open, and it starts again.  The bundle  *)
(* of an incident is one object, overwritten by each build.                *)
(*                                                                         *)
(* Simplifications:                                                        *)
(*   - the jobs are open from the start and retried until they succeed;    *)
(*     how they are claimed and given up is the subject of DurableQueue;   *)
(*   - the content of a bundle is the generation it was reserved as;       *)
(*   - all generations fall in one month, all incidents in one             *)
(*     organisation; created_at is the order in which rows are inserted;   *)
(*   - the clean-up may find an incident with a bundle expired at any      *)
(*     time: repeating a generation does not renew bundle_updated_at;      *)
(*   - improvement bundles, metrics, notices, reproductions themselves and *)
(*     the lease of a regeneration request are left out.                   *)
(***************************************************************************)
EXTENDS Integers, FiniteSets

CONSTANTS Lane, Job, NoJob,
          EventOf,      \* the event a job builds from; a regeneration repeats one
          Event, NoEvent,
          Incident, IncidentOf, Time,  \* incident and occurred_at of an event
          Quota,        \* monthly_bundle_requests
          RetainLimit,  \* retained_bundle_cap
          MaxFaults     \* bound of the model

ASSUME JobAssumption == NoJob \notin Job /\ EventOf \in [Job -> Event]
ASSUME EventAssumption ==
    /\ IsFiniteSet(Event) /\ NoEvent \notin Event
    /\ IsFiniteSet(Incident) /\ IncidentOf \in [Event -> Incident]
    /\ Time \in [Event -> Nat]
ASSUME CountAssumption ==
    /\ IsFiniteSet(Lane) /\ Lane # {}
    /\ Quota \in Nat /\ RetainLimit \in Nat /\ MaxFaults \in Nat

VARIABLES
  live,        \* the incidents that have a row
  source,      \* their bundle_source_event_id
  generation,  \* their bundle_generation_number
  failure,     \* their bundle_failure_reason
  number,      \* generation_number of an event's row of bundle_generations, 0 if none
  created,     \* created_at of that row
  clock,       \* the rows inserted so far
  object,      \* the generation stored under the incident's key, 0 if none
  reproduce,   \* the events whose build-reproduction job was enqueued
  open,        \* jobs not completed
  pc, task,    \* a lane: its next statement, its job
  recorded, reserved, pruned,  \* what it has read, reserved and deleted
  cleaning,    \* incidents the clean-up has "listed", or "purged" the objects of
  faults,
  \* history, read by the properties alone
  seen,        \* the events a build has reserved a generation for
  behind,      \* jobs that added an owner and have not pruned
  disturbed    \* incidents whose object a build or the clean-up may have left wrong

tableVars == <<live, source, generation, failure, number, created, clock>>
laneVars == <<pc, task, recorded, reserved, pruned>>
vars == <<live, source, generation, failure, number, created, clock, object, reproduce,
          open, pc, task, recorded, reserved, pruned, cleaning, faults, seen, behind,
          disturbed>>

PC == {"idle", "checking", "reserving", "storing", "pruning", "unlinking"}
Failure == {"none", "build_error", "monthly_quota_exceeded"}

EventsOf(i) == {e \in Event : IncidentOf[e] = i}
Rows == {e \in Event : number[e] # 0}
Owners == {i \in Incident : \E e \in EventsOf(i) : e \in Rows}

Source(l) == EventOf[task[l]]
Subject(l) == IncidentOf[EventOf[task[l]]]

Leave(l) ==
    /\ pc' = [pc EXCEPT ![l] = "idle"]
    /\ task' = [task EXCEPT ![l] = NoJob]

Complete(l) ==
    /\ Leave(l)
    /\ open' = open \ {task[l]}

(***************************************************************************)
(* one build                                                               *)
(***************************************************************************)
\* getBundleBuildContext and hasBundleGenerationForSourceEvent
Begin(l, j) ==
    /\ pc[l] = "idle"
    /\ j \in open /\ \A k \in Lane : task[k] # j
    /\ IF IncidentOf[EventOf[j]] \in live
       THEN /\ pc' = [pc EXCEPT ![l] = "checking"]
            /\ task' = [task EXCEPT ![l] = j]
            /\ recorded' = [recorded EXCEPT ![l] = EventOf[j] \in Rows]
            /\ UNCHANGED open
       ELSE /\ open' = open \ {j}
            /\ UNCHANGED <<pc, task, recorded>>
    /\ UNCHANGED <<tableVars, object, reproduce, reserved, pruned, cleaning, faults,
                   seen, behind>>

WithinQuota_OffByOne == Cardinality(Rows) <= Quota

\* the allowance: generations of the month against the limit
WithinQuota == Cardinality(Rows) < Quota

MarkFailure(i, reason) ==
    failure' = IF i \in live THEN [failure EXCEPT ![i] = reason] ELSE failure

Allow(l) ==
    /\ pc[l] = "checking"
    /\ recorded[l] \/ WithinQuota
    /\ pc' = [pc EXCEPT ![l] = "reserving"]
    /\ UNCHANGED <<tableVars, object, reproduce, open, task, recorded, reserved, pruned,
                   cleaning, faults, seen, behind>>

Refuse(l) ==
    /\ pc[l] = "checking"
    /\ ~ recorded[l] /\ ~ WithinQuota
    /\ MarkFailure(Subject(l), "monthly_quota_exceeded")
    /\ Complete(l)
    /\ UNCHANGED <<live, source, generation, number, created, clock, object, reproduce,
                   recorded, reserved, pruned, cleaning, faults, seen, behind>>

HasNewerSource_Never(e) == FALSE

\* a source that occurred later than the event of this build
HasNewerSource(e) ==
    LET s == source[IncidentOf[e]] IN s # NoEvent /\ Time[s] > Time[e]

\* the event whose generation a build of e reserves
NextSource(e) == IF HasNewerSource(e) THEN source[IncidentOf[e]] ELSE e

NextGeneration_Retried(e) ==
    LET i == IncidentOf[e] IN IF HasNewerSource(e) THEN generation[i] ELSE generation[i] + 1

\* the source itself and what is older than it take no number; an event of the same
\* time as the source does, and becomes the source in its place
NextGeneration(e) ==
    LET i == IncidentOf[e]
    IN IF source[i] = e \/ HasNewerSource(e) THEN generation[i] ELSE generation[i] + 1

Reserve(l) ==
    LET e == Source(l)
        i == Subject(l)
        s == NextSource(e)
        n == NextGeneration(e)
    IN /\ pc[l] = "reserving"
       /\ i \in live
       /\ source' = [source EXCEPT ![i] = s]
       /\ generation' = [generation EXCEPT ![i] = n]
       /\ failure' = [failure EXCEPT ![i] = "none"]
       /\ number' = [number EXCEPT ![s] = n]
       /\ IF s \in Rows
          THEN UNCHANGED <<created, clock>>
          ELSE clock' = clock + 1 /\ created' = [created EXCEPT ![s] = clock + 1]
       /\ reserved' = [reserved EXCEPT ![l] = n]
       /\ pc' = [pc EXCEPT ![l] = "storing"]
       /\ seen' = seen \cup {e}
       /\ behind' = IF i \in Owners THEN behind ELSE behind \cup {task[l]}
       /\ UNCHANGED <<live, object, reproduce, open, task, recorded, pruned, cleaning, faults>>

\* the evidence is loaded and the bundle stored
Store(l) ==
    /\ pc[l] = "storing"
    /\ object' = [object EXCEPT ![Subject(l)] = reserved[l]]
    /\ pc' = [pc EXCEPT ![l] = "pruning"]
    /\ UNCHANGED <<tableVars, reproduce, open, task, recorded, reserved, pruned, cleaning,
                   faults, seen, behind>>

(***************************************************************************)
(* the owners beyond the limit                                             *)
(***************************************************************************)
\* the rows of bundle_generations go with the row of their incident
DeleteIncidents(gone) ==
    /\ live' = live \ gone
    /\ number' = [e \in Event |-> IF IncidentOf[e] \in gone THEN 0 ELSE number[e]]

\* one owner has a later row than every row of the other
BuiltAfter(i, k) ==
    \E e \in EventsOf(i) \cap Rows : \A f \in EventsOf(k) \cap Rows : created[f] < created[e]

Keeps_OneMore(kept) ==
    /\ Cardinality(kept) <= RetainLimit + 1
    /\ kept = Owners \/ Cardinality(kept) = RetainLimit + 1
    /\ \A i \in kept, k \in Owners \ kept : BuiltAfter(i, k)

\* the owners to keep: those built last, as many as the limit allows
Keeps(kept) ==
    /\ Cardinality(kept) <= RetainLimit
    /\ kept = Owners \/ Cardinality(kept) = RetainLimit
    /\ \A i \in kept, k \in Owners \ kept : BuiltAfter(i, k)

Prune(l) ==
    /\ pc[l] = "pruning"
    /\ \E kept \in SUBSET Owners :
         /\ Keeps(kept)
         /\ DeleteIncidents(Owners \ kept)
         /\ pruned' = [pruned EXCEPT ![l] = Owners \ kept]
    /\ pc' = [pc EXCEPT ![l] = "unlinking"]
    /\ behind' = behind \ {task[l]}
    /\ UNCHANGED <<source, generation, failure, created, clock, object, reproduce, open, task,
                   recorded, reserved, cleaning, faults, seen>>

\* deletePrunedBundleArtifacts, for one of the deleted owners
Unlink(l) ==
    /\ pc[l] = "unlinking"
    /\ \E i \in pruned[l] :
         /\ object' = [object EXCEPT ![i] = 0]
         /\ pruned' = [pruned EXCEPT ![l] = pruned[l] \ {i}]
    /\ UNCHANGED <<tableVars, reproduce, open, pc, task, recorded, reserved, cleaning, faults,
                   seen, behind>>

HandOff_Skipped(l) ==
    /\ pc[l] = "unlinking" /\ pruned[l] = {}
    /\ Complete(l)
    /\ UNCHANGED <<tableVars, object, reproduce, recorded, reserved, pruned, cleaning, faults,
                   seen, behind>>

HandOff(l) ==
    /\ pc[l] = "unlinking" /\ pruned[l] = {}
    /\ reproduce' = reproduce \cup {Source(l)}
    /\ Complete(l)
    /\ UNCHANGED <<tableVars, object, recorded, reserved, pruned, cleaning, faults, seen, behind>>

(***************************************************************************)
(* failures                                                                *)
(***************************************************************************)
\* the incident was deleted since the build began
Missing(l) ==
    /\ pc[l] = "reserving" /\ Subject(l) \notin live
    /\ Leave(l)
    /\ UNCHANGED <<tableVars, object, reproduce, open, recorded, reserved, pruned, cleaning,
                   faults, seen, behind>>

\* an error is recorded with the incident and thrown again
Fail(l) ==
    /\ pc[l] # "idle" /\ faults < MaxFaults
    /\ MarkFailure(Subject(l), "build_error")
    /\ Leave(l)
    /\ pruned' = [pruned EXCEPT ![l] = {}]
    /\ faults' = faults + 1
    /\ UNCHANGED <<live, source, generation, number, created, clock, object, reproduce, open,
                   recorded, reserved, cleaning, seen, behind>>

Crash(l) ==
    /\ pc[l] # "idle" /\ faults < MaxFaults
    /\ Leave(l)
    /\ pruned' = [pruned EXCEPT ![l] = {}]
    /\ faults' = faults + 1
    /\ UNCHANGED <<tableVars, object, reproduce, open, recorded, reserved, cleaning, seen, behind>>

(***************************************************************************)
(* the clean-up of expired incidents, one of a batch                       *)
(***************************************************************************)
ListExpired(i) ==
    /\ cleaning[i] = "no" /\ faults < MaxFaults
    /\ i \in live /\ generation[i] # 0
    /\ cleaning' = [cleaning EXCEPT ![i] = "listed"]
    /\ faults' = faults + 1
    /\ UNCHANGED <<tableVars, object, reproduce, open, laneVars, seen, behind>>

PurgeObjects(i) ==
    /\ cleaning[i] = "listed"
    /\ object' = [object EXCEPT ![i] = 0]
    /\ cleaning' = [cleaning EXCEPT ![i] = "purged"]
    /\ UNCHANGED <<tableVars, reproduce, open, laneVars, faults, seen, behind>>

DeleteExpired_RowsFirst(i) ==
    /\ cleaning[i] = "listed"
    /\ DeleteIncidents({i})
    /\ cleaning' = [cleaning EXCEPT ![i] = "no"]
    /\ UNCHANGED <<source, generation, failure, created, clock, object, reproduce, open,
                   laneVars, faults, seen, behind>>

DeleteExpired(i) ==
    /\ cleaning[i] = "purged"
    /\ DeleteIncidents({i})
    /\ cleaning' = [cleaning EXCEPT ![i] = "no"]
    /\ UNCHANGED <<source, generation, failure, created, clock, object, reproduce, open,
                   laneVars, faults, seen, behind>>

Init ==
    /\ live = Incident
    /\ source = [i \in Incident |-> NoEvent] /\ generation = [i \in Incident |-> 0]
    /\ failure = [i \in Incident |-> "none"]
    /\ number = [e \in Event |-> 0] /\ created = [e \in Event |-> 0] /\ clock = 0
    /\ object = [i \in Incident |-> 0] /\ reproduce = {} /\ open = Job
    /\ pc = [l \in Lane |-> "idle"] /\ task = [l \in Lane |-> NoJob]
    /\ recorded = [l \in Lane |-> FALSE] /\ reserved = [l \in Lane |-> 0]
    /\ pruned = [l \in Lane |-> {}]
    /\ cleaning = [i \in Incident |-> "no"] /\ faults = 0
    /\ seen = {} /\ behind = {} /\ disturbed = {}

Step ==
    \/ \E l \in Lane :
         \/ \E j \in Job : Begin(l, j)
         \/ Allow(l) \/ Refuse(l) \/ Reserve(l) \/ Store(l) \/ Prune(l) \/ Unlink(l)
         \/ HandOff(l) \/ Missing(l) \/ Fail(l) \/ Crash(l)
    \/ \E i \in Incident : ListExpired(i) \/ PurgeObjects(i) \/ DeleteExpired(i)

(***************************************************************************)
(* History.  Nothing orders putObject after the reservation it belongs to: *)
(* an incident is disturbed once two builds are between the two at a time, *)
(* or one is while the incident is deleted, or when a lane dies with       *)
(* objects still to delete.                                                *)
(***************************************************************************)
Storing(i) == {l \in Lane : pc[l] = "storing" /\ Subject(l) = i}

Raced(i) ==
    \/ \E k, l \in Storing(i) : k # l
    \/ Storing(i) # {} /\ (i \notin live \/ cleaning[i] = "purged")

Abandoned(i) == \E l \in Lane : i \in pruned[l] /\ pc'[l] = "idle"

Next ==
    /\ Step
    /\ disturbed' = disturbed \cup {i \in Incident : Raced(i)' \/ Abandoned(i)}

Spec == Init /\ [][Next]_vars

(***************************************************************************)
(* properties                                                              *)
(***************************************************************************)
\* the rows, the objects and the lanes have the values the code gives them
BundleTypeOK ==
    /\ live \subseteq Incident
    /\ source \in [Incident -> Event \cup {NoEvent}] /\ generation \in [Incident -> Nat]
    /\ failure \in [Incident -> Failure]
    /\ number \in [Event -> Nat] /\ created \in [Event -> Nat] /\ clock \in Nat
    /\ object \in [Incident -> Nat] /\ reproduce \subseteq Event /\ open \subseteq Job
    /\ pc \in [Lane -> PC] /\ task \in [Lane -> Job \cup {NoJob}]
    /\ recorded \in [Lane -> BOOLEAN] /\ reserved \in [Lane -> Nat]
    /\ pruned \in [Lane -> SUBSET Incident]
    /\ cleaning \in [Incident -> {"no", "listed", "purged"}]
    /\ seen \subseteq Event /\ behind \subseteq Job /\ disturbed \subseteq Incident
    /\ \A l \in Lane : (pc[l] = "idle") = (task[l] = NoJob)

\* the other events of the same incident and time that builds have reserved for
Ties(e) == {f \in seen \cap EventsOf(IncidentOf[e]) : f # e /\ Time[f] = Time[e]}

\* A number is given once and above all earlier ones of its incident, and stays with
\* its row.  A build that starts again, after an error, a crash or on request, adds no
\* row, so that it is not charged again, and takes no number, whatever other builds
\* reserved in between.  The numbers have one exception, the events of one instant:
\* they take the source from one another, and the repeat is numbered anew.
RepeatsTakeNoNumber ==
  [][/\ \A e \in Rows' : number'[e] # number[e] =>
          /\ e \notin Rows \/ Ties(e) # {}
          /\ \A f \in EventsOf(IncidentOf[e]) : number[f] < number'[e]
     /\ \A l \in Lane : pc[l] = "reserving" /\ pc'[l] = "storing" /\ Source(l) \in seen =>
          /\ Rows' = Rows
          /\ generation' = generation \/ Ties(Source(l)) # {}]_vars

\* FR-BND-10: an incident's bundle is reserved from the latest event any build of it
\* has seen, in whatever order the builds run
SourceIsLatest ==
    \A e \in seen : IncidentOf[e] \in live =>
      LET s == source[IncidentOf[e]] IN s \in Rows /\ Time[e] <= Time[s]

\* builds that have passed the check of the allowance exceed it by one for each
\* other lane at most
UsageIsBounded == Cardinality(Rows) <= Quota + Cardinality(Lane) - 1

\* every recorded generation of an incident is built to its end, the hand-off of the
\* reproduction, or has a job open that will build it
BuildsAreFinished ==
    \A e \in seen \cap Rows : e \in reproduce \/ \E j \in open : EventOf[j] = e

\* the owners of bundles exceed the retained limit only while builds are open that
\* have still to prune, each by the incident it added
RetentionIsEnforced ==
    LET late == {IncidentOf[EventOf[j]] : j \in behind \cap open}
    IN Cardinality(Owners \ late) <= RetainLimit

\* FR-BND-10, of the objects: unless builds of an incident raced each other or its
\* deletion, or a lane died on the way, its object is the incident's own generation or
\* the job that will store it is open; and no object outlives its incident but those
\* a lane is about to delete
ObjectsFollowRows ==
    \A i \in Incident \ disturbed :
      IF i \in live
      THEN \/ object[i] = generation[i]
           \/ cleaning[i] = "purged"
           \/ \E j \in open : EventOf[j] = source[i]
      ELSE object[i] # 0 => \E l \in Lane : i \in pruned[l]
=============================================================================
