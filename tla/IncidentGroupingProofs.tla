-------------------------- MODULE IncidentGroupingProofs --------------------------
(***************************************************************************)
(* The properties of IncidentGrouping, for every set of lanes, events,     *)
(* jobs and deployments.                                                   *)
(*                                                                         *)
(* They rest on what the advisory lock gives (LockInv): one lane at most   *)
(* is between its reads and its upsert, and what it has read of the events *)
(* still holds, although users resolve and reopen the incident meanwhile.  *)
(* So reads and upsert together are one step of OccurrenceLog.             *)
(***************************************************************************)
EXTENDS IncidentGrouping, FiniteSetTheorems, TLAPS

(***************************************************************************)
(* types                                                                   *)
(***************************************************************************)
LEMMA ReadingType ==
    ASSUME GroupingTypeOK, NEW e \in Event
    PROVE  Reading(e) \in Seen
  BY DEF GroupingTypeOK, Reading, Seen, Status, RecentDeploy

LEMMA DeploymentsType ==
    ASSUME GroupingTypeOK, NEW e \in Event
    PROVE  DeploymentsWith(e) \subseteq Nat \ {0} /\ deployed \subseteq DeploymentsWith(e)
  BY EventAssumption DEF GroupingTypeOK, DeploymentsWith

LEMMA LaneFacts ==
    ASSUME GroupingTypeOK, NEW l \in Lane, task[l] # NoJob
    PROVE  /\ task[l] \in Job /\ EventOf[task[l]] \in Event /\ seen[l] \in Seen
           /\ seen[l].duplicate \in BOOLEAN
  BY JobAssumption DEF GroupingTypeOK, Seen

\* The row after an upsert.
LEMMA UpsertType ==
    ASSUME GroupingTypeOK, NEW e \in Event, NEW dup \in BOOLEAN,
           InsertIncident(e) \/ UpdateIncident(e, dup)
    PROVE  /\ status' \in Status \ {"none"} /\ count' \in Nat
           /\ firstSeen' \in Nat /\ lastSeen' \in Nat
  <1>1. Time[e] \in Nat
    BY EventAssumption
  <1>2. status \in Status /\ count \in Nat /\ firstSeen \in Nat /\ lastSeen \in Nat
    BY DEF GroupingTypeOK
  <1>3. CASE InsertIncident(e)
    BY <1>1, <1>3 DEF InsertIncident, Status
  <1>4. CASE UpdateIncident(e, dup)
    BY <1>1, <1>2, <1>4 DEF UpdateIncident, Earlier, Later, Status
  <1> QED BY <1>3, <1>4

\* The kinds of follow-ups are those of the stages after this one.
LEMMA KindsType ==
    ASSUME NEW e \in Event, NEW s, NEW r \in BOOLEAN, NEW spiking \in BOOLEAN
    PROVE  BundleKinds(e, s, r) \cup AlertKinds(s, r) \cup SpikeKinds(spiking) \subseteq Kind
  BY DEF BundleKinds, AlertKinds, SpikeKinds, Kind

\* The rows of events after an occurrence.
LEMMA RetentionType ==
    ASSUME GroupingTypeOK, NEW e \in Event, Retention(e)
    PROVE  /\ member' = member \cup {e} /\ retain' \in [Event -> SUBSET Flag]
           /\ sampled' \subseteq member' /\ deleted' \subseteq member'
           /\ done'.first \subseteq member' /\ done'.last \subseteq member'
  <1>1. FlagsOf(e) \subseteq Flag
    BY DEF FlagsOf, Flag
  <1>2. retain \in [Event -> SUBSET Flag] /\ sampled \subseteq member /\ deleted \subseteq member
    BY DEF GroupingTypeOK
  <1>3. retain' \in [Event -> SUBSET Flag]
    BY <1>1, <1>2 DEF Retention
  <1>4. Losing(e) \subseteq member /\ Demoted(e) \subseteq member
    BY DEF Losing, Demoted
  <1>5. done.first \subseteq member
    BY DEF GroupingTypeOK
  <1>6. done' = [first |-> IF member = {} THEN {e} ELSE done.first, last |-> {e}]
    BY DEF Retention
  <1>7. done'.first \subseteq member \cup {e} /\ done'.last \subseteq member \cup {e}
    BY <1>5, <1>6
  <1> QED BY <1>2, <1>3, <1>4, <1>7 DEF Retention

LEMMA FollowUpType ==
    ASSUME NEW e \in Event, count' \in Nat, NEW kinds \in SUBSET Kind, NEW f \in FollowUps(e, kinds)
    PROVE  /\ f = [kind |-> f.kind, event |-> e, count |-> count']
           /\ f.kind \in kinds /\ f.event = e /\ f.count = count'
  <1>1. PICK k \in kinds : f = [kind |-> k, event |-> e, count |-> count']
    BY DEF FollowUps
  <1> QED BY <1>1

LEMMA TypeInit == Init => GroupingTypeOK
  <1> SUFFICES ASSUME Init PROVE GroupingTypeOK
    OBVIOUS
  <1>1. /\ seen \in [Lane -> Seen] /\ task \in [Lane -> Job \cup {NoJob}]
        /\ retain \in [Event -> SUBSET Flag]
    BY DEF Init, Status, Seen, NotSeen
  <1>2. done.first = {} /\ done.last = {}
    BY DEF Init
  <1> QED BY <1>1, <1>2 DEF Init, GroupingTypeOK, Status

LEMMA CommitType ==
    ASSUME GroupingTypeOK, NEW l \in Lane, Commit(l)
    PROVE  GroupingTypeOK'
  <1> DEFINE e == EventOf[task[l]]
  <1>1. /\ task[l] # NoJob /\ e \in Event /\ seen[l].duplicate \in BOOLEAN
    BY LaneFacts DEF Commit
  <1>2. InsertIncident(e) \/ UpdateIncident(e, seen[l].duplicate)
    BY DEF Commit
  <1>3. /\ status' \in Status \ {"none"} /\ count' \in Nat
        /\ firstSeen' \in Nat /\ lastSeen' \in Nat
    BY <1>1, <1>2, UpsertType
  <1>4. deployed' \subseteq Nat \ {0}
    BY <1>1, DeploymentsType DEF Commit
  <1>5. /\ queued' \subseteq Job /\ task' \in [Lane -> Job \cup {NoJob}]
        /\ seen' \in [Lane -> Seen]
    BY DEF Commit, GroupingTypeOK, NotSeen, Seen, Status
  <1>6. /\ spiked' \in BOOLEAN
        /\ \A f \in enqueued' : f.kind \in Kind /\ f.event \in Event /\ f.count \in Nat
        /\ member' = member \cup {e} /\ retain' \in [Event -> SUBSET Flag]
        /\ sampled' \subseteq member' /\ deleted' \subseteq member'
        /\ done'.first \subseteq member' /\ done'.last \subseteq member'
    <2>1. CASE seen[l].duplicate
      <3>1. Duplicate(e)
        BY <2>1 DEF Commit
      <3> QED BY <3>1 DEF Duplicate, GroupingTypeOK
    <2>2. CASE ~ seen[l].duplicate
      <3>1. PICK spiking \in BOOLEAN : Recorded(e, seen[l], spiking)
        BY <2>2 DEF Commit
      <3>2. Retention(e)
        BY <3>1 DEF Recorded
      <3> DEFINE r == seen[l].status = "resolved"
                 kinds == BundleKinds(e, seen[l], r) \cup AlertKinds(seen[l], r)
                            \cup SpikeKinds(spiking)
      <3>3. kinds \subseteq Kind /\ enqueued' = enqueued \cup FollowUps(e, kinds)
        BY <1>1, <3>1, KindsType DEF Recorded
      <3> HIDE DEF kinds
      <3>4. \A f \in FollowUps(e, kinds) : f.kind \in Kind /\ f.event \in Event /\ f.count \in Nat
        BY <1>1, <1>3, <3>3, FollowUpType
      <3>5. \A f \in enqueued' : f.kind \in Kind /\ f.event \in Event /\ f.count \in Nat
        BY <3>3, <3>4 DEF GroupingTypeOK
      <3>6. spiked' \in BOOLEAN
        BY <3>1 DEF Recorded, GroupingTypeOK
      <3> QED BY <1>1, <3>2, <3>5, <3>6, RetentionType
    <2> QED BY <2>1, <2>2, <1>1
  <1>7. expired' \subseteq member' /\ resolves' \in Nat /\ resolvedAt' \in Nat
    BY <1>6 DEF Commit, GroupingTypeOK
  <1> QED BY <1>1, <1>3, <1>4, <1>5, <1>6, <1>7 DEF GroupingTypeOK

LEMMA TypeStep == GroupingTypeOK /\ [Next]_vars => GroupingTypeOK'
  <1> SUFFICES ASSUME GroupingTypeOK, [Next]_vars PROVE GroupingTypeOK'
    OBVIOUS
  <1> USE DEF rowVars, eventVars, outVars, historyVars
  <1>1. ASSUME NEW l \in Lane, Look(l) PROVE GroupingTypeOK'
    <2>1. PICK j \in queued : /\ task' = [task EXCEPT ![l] = j]
                              /\ seen' = [seen EXCEPT ![l] = Reading(EventOf[j])]
      BY <1>1 DEF Look
    <2>2. j \in Job /\ Reading(EventOf[j]) \in Seen
      BY JobAssumption, ReadingType DEF GroupingTypeOK
    <2>3. task' \in [Lane -> Job \cup {NoJob}] /\ seen' \in [Lane -> Seen]
      BY <2>1, <2>2 DEF GroupingTypeOK
    <2> QED BY <1>1, <2>3 DEF Look, GroupingTypeOK
  <1>2. ASSUME NEW l \in Lane, Commit(l) PROVE GroupingTypeOK'
    BY <1>2, CommitType
  <1>3. ASSUME NEW l \in Lane, Abort(l) PROVE GroupingTypeOK'
    <2>1. task' \in [Lane -> Job \cup {NoJob}] /\ seen' \in [Lane -> Seen]
      BY <1>3 DEF Abort, GroupingTypeOK, Seen, NotSeen, Status
    <2> QED BY <1>3, <2>1 DEF Abort, GroupingTypeOK
  <1>4. CASE Resolve
    BY <1>4 DEF Resolve, GroupingTypeOK, Status
  <1>5. CASE Reopen
    BY <1>5 DEF Reopen, GroupingTypeOK, Status
  <1>6. ASSUME NEW d \in DeployTime, Deploy(d) PROVE GroupingTypeOK'
    BY <1>6, EventAssumption DEF Deploy, GroupingTypeOK
  <1>7. ASSUME NEW e \in Event, ExpireRaw(e) PROVE GroupingTypeOK'
    BY <1>7 DEF ExpireRaw, GroupingTypeOK
  <1>8. ASSUME NEW e \in Event, MarkExpired(e) PROVE GroupingTypeOK'
    BY <1>8 DEF MarkExpired, GroupingTypeOK
  <1>9. CASE UNCHANGED vars
    BY <1>9 DEF vars, GroupingTypeOK
  <1> QED BY <1>1, <1>2, <1>3, <1>4, <1>5, <1>6, <1>7, <1>8, <1>9 DEF Next

\* The columns, the rows of events and the follow-ups keep their types, whatever the
\* lanes, the users and the clean-up do.
THEOREM GroupingTypes == Spec => []GroupingTypeOK
  BY TypeInit, TypeStep, PTL DEF Spec

(***************************************************************************)
(* the lock, and the row it protects                                       *)
(***************************************************************************)
\* What a lane has read of the events of the incident.
ReadHolds(l) ==
    LET e == EventOf[task[l]]
    IN /\ seen[l].duplicate <=> e \in member
       /\ seen[l].hasType <=> \E m \in member : Type[m] = Type[e]
       /\ seen[l].status = "none" <=> status = "none"

LockInv ==
    /\ \A l, k \in Lane : task[l] # NoJob /\ task[k] # NoJob => l = k
    /\ \A l \in Lane : task[l] # NoJob => ReadHolds(l)

RowInv == GroupingTypeOK /\ LockInv /\ CountsItsEvents

\* Steps of users, of other incidents, of the clean-up, and a lane's reads.
Other ==
    /\ UNCHANGED <<count, firstSeen, lastSeen, member, spiked, enqueued, done>>
    /\ status' = "none" <=> status = "none"
    /\ \/ UNCHANGED <<retain, sampled, deleted, expired>>
       \/ \E e \in Event : ExpireRaw(e) \/ MarkExpired(e)

LEMMA OtherStep ==
    ASSUME [Next]_vars
    PROVE  (\E l \in Lane : Commit(l)) \/ Other
  <1> USE DEF rowVars, eventVars, outVars, historyVars
  <1>1. ASSUME NEW l \in Lane, Look(l) \/ Abort(l) PROVE Other
    BY <1>1 DEF Look, Abort, Other
  <1>2. ASSUME Resolve \/ Reopen PROVE Other
    BY <1>2 DEF Resolve, Reopen, Other
  <1>3. ASSUME NEW d \in DeployTime, Deploy(d) PROVE Other
    BY <1>3 DEF Deploy, Other
  <1>4. ASSUME NEW e \in Event, ExpireRaw(e) \/ MarkExpired(e) PROVE Other
    <2>1. /\ UNCHANGED <<count, firstSeen, lastSeen, member, spiked, enqueued, done>>
          /\ status' = status
      BY <1>4 DEF ExpireRaw, MarkExpired
    <2> QED BY <1>4, <2>1 DEF Other
  <1>5. CASE UNCHANGED vars
    BY <1>5 DEF vars, Other
  <1> QED BY <1>1, <1>2, <1>3, <1>4, <1>5 DEF Next

\* A job of an event that was recorded before changes nothing the properties read;
\* any other records its event.
Recording(l, e) ==
    /\ e \in Event \ member
    /\ InsertIncident(e) \/ UpdateIncident(e, FALSE)
    /\ \E spiking \in BOOLEAN : Recorded(e, seen[l], spiking)
    /\ deployed' = DeploymentsWith(e)
    /\ UNCHANGED <<expired, resolves>>

Repeating(e) ==
    /\ e \in member
    /\ UNCHANGED <<status, count, firstSeen, lastSeen, member, retain, sampled, deleted,
                   done, enqueued, expired, resolves>>
    /\ deployed' = DeploymentsWith(e)

LEMMA CommitEffect ==
    ASSUME RowInv, NEW l \in Lane, Commit(l)
    PROVE  Recording(l, EventOf[task[l]]) \/ Repeating(EventOf[task[l]])
  <1> DEFINE e == EventOf[task[l]]
  <1>1. e \in Event /\ task[l] # NoJob /\ seen[l].duplicate \in BOOLEAN
    BY LaneFacts DEF Commit, RowInv
  <1>2. seen[l].duplicate <=> e \in member
    BY <1>1 DEF RowInv, LockInv, ReadHolds
  <1>3. CASE e \in member
    <2>1. status # "none" /\ firstSeen <= Time[e] /\ firstSeen \in Nat /\ Time[e] \in Nat
      BY <1>1, <1>3, EventAssumption DEF RowInv, CountsItsEvents, GroupingTypeOK
    <2>2. UpdateIncident(e, TRUE) /\ Duplicate(e) /\ UNCHANGED <<expired, resolves>>
      BY <1>1, <1>2, <1>3, <2>1 DEF Commit, InsertIncident
    <2>3. UNCHANGED <<status, count, firstSeen, lastSeen>>
      BY <2>1, <2>2 DEF UpdateIncident, Earlier
    <2>4. member' = member
      BY <1>3, <2>2 DEF Duplicate
    <2>5. deployed' = DeploymentsWith(e)
      BY DEF Commit
    <2> QED BY <1>3, <2>2, <2>3, <2>4, <2>5 DEF Repeating, Duplicate
  <1>4. CASE e \notin member
    <2>1. InsertIncident(e) \/ UpdateIncident(e, FALSE)
      BY <1>1, <1>2, <1>4 DEF Commit
    <2>2. \E spiking \in BOOLEAN : Recorded(e, seen[l], spiking)
      BY <1>1, <1>2, <1>4 DEF Commit
    <2> QED BY <1>1, <1>4, <2>1, <2>2 DEF Recording, Commit
  <1> QED BY <1>3, <1>4

\* A new event: the row before and after.
LEMMA RecordingRow ==
    ASSUME RowInv, NEW l \in Lane, NEW e, Recording(l, e)
    PROVE  /\ member' = member \cup {e} /\ e \in Event /\ e \notin member
           /\ count \in Nat /\ count' = count + 1
           /\ status' # "none" /\ (status = "none" <=> member = {})
           /\ count' = 1 <=> member = {}
           /\ firstSeen' = IF member = {} THEN Time[e] ELSE Earlier(firstSeen, Time[e])
           /\ lastSeen' = IF member = {} THEN Time[e] ELSE Later(lastSeen, Time[e])
  <1>1. /\ count \in Nat /\ (status = "none" <=> member = {}) /\ count = Cardinality(member)
        /\ member \subseteq Event /\ status \in Status
    BY DEF RowInv, CountsItsEvents, GroupingTypeOK
  <1>2. count = 0 <=> member = {}
    BY <1>1, JobAssumption, FS_Subset, FS_EmptySet
  <1>3. member' = member \cup {e} /\ e \in Event \ member
    BY DEF Recording, Recorded, Retention
  <1>4. CASE member = {}
    BY <1>1, <1>2, <1>3, <1>4 DEF Recording, InsertIncident, UpdateIncident
  <1>5. CASE member # {}
    <2>1. UpdateIncident(e, FALSE)
      BY <1>1, <1>5 DEF Recording, InsertIncident
    <2>2. count' = count + 1 /\ count # 0
      BY <1>2, <1>5, <2>1 DEF UpdateIncident
    <2>3. status' # "none"
      BY <2>1 DEF UpdateIncident
    <2>4. firstSeen' = Earlier(firstSeen, Time[e]) /\ lastSeen' = Later(lastSeen, Time[e])
      BY <2>1 DEF UpdateIncident
    <2> QED BY <1>1, <1>3, <1>5, <2>2, <2>3, <2>4
  <1> QED BY <1>4, <1>5

LEMMA CountsStep ==
    ASSUME RowInv, [Next]_vars
    PROVE  CountsItsEvents'
  <1>1. CASE Other
    BY <1>1 DEF Other, RowInv, CountsItsEvents
  <1>2. ASSUME NEW l \in Lane, Commit(l) PROVE CountsItsEvents'
    <2> DEFINE e == EventOf[task[l]]
    <2>1. CASE Repeating(e)
      BY <2>1 DEF Repeating, RowInv, CountsItsEvents
    <2>2. CASE Recording(l, e)
      <3>1. /\ member' = member \cup {e} /\ e \in Event /\ e \notin member
            /\ count \in Nat /\ count' = count + 1 /\ status' # "none"
            /\ firstSeen' = IF member = {} THEN Time[e] ELSE Earlier(firstSeen, Time[e])
            /\ lastSeen' = IF member = {} THEN Time[e] ELSE Later(lastSeen, Time[e])
        BY <2>2, RecordingRow
      <3>2. IsFiniteSet(member)
        BY JobAssumption, FS_Subset DEF RowInv, GroupingTypeOK
      <3>3. count' = Cardinality(member')
        BY <3>1, <3>2, FS_AddElement DEF RowInv, CountsItsEvents
      <3>4. /\ \A m \in member' : Time[m] \in Nat
            /\ firstSeen \in Nat /\ lastSeen \in Nat
            /\ \A m \in member : firstSeen <= Time[m] /\ Time[m] <= lastSeen
            /\ member # {} => \E m, n \in member : Time[m] = firstSeen /\ Time[n] = lastSeen
        BY <3>1, EventAssumption DEF RowInv, GroupingTypeOK, CountsItsEvents
      <3>5. \A m \in member' : firstSeen' <= Time[m] /\ Time[m] <= lastSeen'
        BY <3>1, <3>4 DEF Earlier, Later
      <3>6. \E m \in member' : Time[m] = firstSeen'
        BY <3>1, <3>4 DEF Earlier
      <3>7. \E n \in member' : Time[n] = lastSeen'
        BY <3>1, <3>4 DEF Later
      <3> QED BY <3>1, <3>3, <3>5, <3>6, <3>7 DEF CountsItsEvents
    <2> QED BY <1>2, <2>1, <2>2, CommitEffect
  <1> QED BY <1>1, <1>2, OtherStep

LEMMA LockStep ==
    ASSUME RowInv, [Next]_vars
    PROVE  LockInv'
  <1> USE DEF rowVars, eventVars, outVars, historyVars
  <1>1. ASSUME NEW l \in Lane, Look(l) PROVE LockInv'
    <2>1. PICK j \in queued : /\ task' = [task EXCEPT ![l] = j]
                              /\ seen' = [seen EXCEPT ![l] = Reading(EventOf[j])]
      BY <1>1 DEF Look
    <2>2. \A k \in Lane : task[k] = NoJob
      BY <1>1 DEF Look, LockIsFree
    <2>3. /\ task'[l] = j /\ seen'[l] = Reading(EventOf[j])
          /\ \A k \in Lane : task'[k] # NoJob => k = l
      BY <2>1, <2>2 DEF RowInv, GroupingTypeOK
    <2>4. UNCHANGED <<member, status>>
      BY <1>1 DEF Look
    <2> DEFINE e == EventOf[j]
    <2>5. /\ Reading(e).duplicate <=> e \in member
          /\ Reading(e).hasType <=> \E m \in member : Type[m] = Type[e]
          /\ Reading(e).status = status
      BY DEF Reading
    <2>6. ReadHolds(l)'
      BY <2>3, <2>4, <2>5 DEF ReadHolds
    <2> QED BY <2>3, <2>6 DEF LockInv
  <1>2. ASSUME NEW l \in Lane, task[l] # NoJob, task' = [task EXCEPT ![l] = NoJob] PROVE LockInv'
    <2>1. \A k \in Lane : task'[k] = NoJob
      BY <1>2 DEF RowInv, LockInv, GroupingTypeOK
    <2> QED BY <2>1 DEF LockInv
  <1>3. ASSUME UNCHANGED <<task, seen, member>>, status' = "none" <=> status = "none"
        PROVE LockInv'
    <2>1. \A l \in Lane : ReadHolds(l) => ReadHolds(l)'
      BY <1>3 DEF ReadHolds
    <2> QED BY <1>3, <2>1 DEF RowInv, LockInv
  <1>4. CASE Resolve \/ Reopen
    BY <1>3, <1>4 DEF Resolve, Reopen
  <1>5. ASSUME NEW d \in DeployTime, Deploy(d) PROVE LockInv'
    BY <1>3, <1>5 DEF Deploy
  <1>6. ASSUME NEW e \in Event, ExpireRaw(e) \/ MarkExpired(e) PROVE LockInv'
    BY <1>3, <1>6 DEF ExpireRaw, MarkExpired
  <1>7. CASE UNCHANGED vars
    BY <1>3, <1>7 DEF vars
  <1>8. ASSUME NEW l \in Lane, Commit(l) \/ Abort(l) PROVE LockInv'
    BY <1>2, <1>8 DEF Commit, Abort
  <1> QED BY <1>1, <1>4, <1>5, <1>6, <1>7, <1>8 DEF Next

LEMMA RowInit == Init => RowInv
  <1> SUFFICES ASSUME Init PROVE RowInv
    OBVIOUS
  <1>1. LockInv
    BY DEF Init, LockInv
  <1>2. CountsItsEvents
    BY FS_EmptySet DEF Init, CountsItsEvents
  <1> QED BY <1>1, <1>2, TypeInit DEF RowInv

LEMMA RowStep == RowInv /\ [Next]_vars => RowInv'
  BY TypeStep, LockStep, CountsStep DEF RowInv

LEMMA RowInvariant == Spec => []RowInv
  BY RowInit, RowStep, PTL DEF Spec

\* The row of an incident counts each of its events once and spans their times, for
\* every number of lanes, of deliveries of an event and of changes of its status.
THEOREM EventsAreCounted == Spec => []CountsItsEvents
  <1>1. RowInv => CountsItsEvents
    BY DEF RowInv
  <1> QED BY <1>1, RowInvariant, PTL

(***************************************************************************)
(* the events that keep their detail                                       *)
(***************************************************************************)
Holders(k) == {m \in Event : k \in retain[m]}

\* The representatives hold their flags until the clean-up takes them, and the
\* events that were the first after a deployment stand for one deployment each.
RepresentativesHold ==
    /\ \A m \in done.first : "first" \in retain[m] \/ m \in expired
    /\ \A m \in done.last : "latest" \in retain[m] \/ m \in expired
    /\ member # {} =>
         \E m \in member : /\ "highest_severity" \in retain[m] \/ m \in expired
                           /\ \A n \in member : Rank[n] <= Rank[m]

Unique ==
    \A k \in {"first", "latest", "highest_severity"} : \A m, n \in Event :
      k \in retain[m] /\ k \in retain[n] => m = n

Blamed(f) ==
    /\ f \in [Holders("after_deploy") -> deployed]
    /\ \A m \in Holders("after_deploy") : ~ IsDeploy(m) /\ f[m] <= Time[m]
    /\ \A m, n \in Holders("after_deploy") : f[m] = f[n] => m = n

DeploysAreFinite == IsFiniteSet(deployed)

DeploysAreBlamedOnce == DeploysAreFinite /\ \E f : Blamed(f)

SampleInv == SamplesAreKept /\ RepresentativesHold /\ Unique /\ DeploysAreBlamedOnce

\* The rows of events after an occurrence.
LEMMA RetentionEffect ==
    ASSUME RowInv, SamplesAreKept, NEW l \in Lane, NEW e, Recording(l, e)
    PROVE  /\ e \in Event /\ e \notin member /\ retain[e] = {}
           /\ retain \in [Event -> SUBSET Flag] /\ retain' \in [Event -> SUBSET Flag]
           /\ retain'[e] = FlagsOf(e)
           /\ \A m \in Event \ {e} : retain'[m] = retain[m] \ Taken(e)
           /\ sampled' = ((sampled \cup Losing(e)) \ Demoted(e)) \cup {e}
           /\ deleted' = deleted \cup Demoted(e)
           /\ done' = [first |-> IF member = {} THEN {e} ELSE done.first, last |-> {e}]
           /\ expired' = expired
  <1>1. e \in Event \ member /\ Retention(e) /\ expired' = expired
    BY DEF Recording, Recorded
  <1>2. retain \in [Event -> SUBSET Flag] /\ sampled \subseteq member
    BY DEF RowInv, GroupingTypeOK
  <1>3. retain[e] = {}
    BY <1>1, <1>2 DEF SamplesAreKept
  <1>4. retain' = [m \in Event |-> (retain[m] \ Taken(e)) \cup IF m = e THEN FlagsOf(e) ELSE {}]
    BY <1>1 DEF Retention
  <1>5. retain'[e] = FlagsOf(e) /\ \A m \in Event \ {e} : retain'[m] = retain[m] \ Taken(e)
    BY <1>1, <1>3, <1>4
  <1>6. retain' \in [Event -> SUBSET Flag]
    BY <1>1, RetentionType DEF RowInv
  <1>7. /\ sampled' = ((sampled \cup Losing(e)) \ Demoted(e)) \cup {e}
        /\ deleted' = deleted \cup Demoted(e)
        /\ done' = [first |-> IF member = {} THEN {e} ELSE done.first, last |-> {e}]
    BY <1>1 DEF Retention
  <1> QED BY <1>1, <1>2, <1>3, <1>5, <1>6, <1>7

LEMMA KeptByRecording ==
    ASSUME RowInv, SamplesAreKept, NEW l \in Lane, NEW e, Recording(l, e)
    PROVE  SamplesAreKept'
  <1>1. /\ e \in Event /\ e \notin member /\ retain[e] = {}
        /\ retain'[e] = FlagsOf(e)
        /\ \A m \in Event \ {e} : retain'[m] = retain[m] \ Taken(e)
        /\ sampled' = ((sampled \cup Losing(e)) \ Demoted(e)) \cup {e}
        /\ deleted' = deleted \cup Demoted(e) /\ expired' = expired
    BY RetentionEffect
  <1>2. sampled = {m \in Event : retain[m] # {}} /\ deleted \cap sampled \subseteq expired
    BY DEF SamplesAreKept
  <1>3. sampled \subseteq member /\ deleted \subseteq member /\ member \subseteq Event
    BY DEF RowInv, GroupingTypeOK
  <1>4. retain'[e] # {} /\ e \in sampled'
    BY <1>1 DEF FlagsOf
  <1>5. Losing(e) \subseteq sampled /\ Demoted(e) \subseteq Losing(e)
    BY <1>2, <1>3 DEF Losing, Demoted
  <1>6. \A m \in Event \ {e} : m \in sampled' <=> retain'[m] # {}
    <2> TAKE m \in Event \ {e}
    <2>1. m \in sampled' <=> m \in sampled \ Demoted(e)
      BY <1>1, <1>5
    <2>2. m \in sampled => (m \in Demoted(e) <=> retain[m] \subseteq Taken(e))
      BY <1>2, <1>3 DEF Demoted, Losing
    <2>3. m \in sampled <=> retain[m] # {}
      BY <1>2
    <2>4. retain'[m] = retain[m] \ Taken(e)
      BY <1>1
    <2> QED BY <2>1, <2>2, <2>3, <2>4
  <1>7. sampled' \subseteq Event
    BY <1>1, <1>3, <1>5
  <1>8. sampled' = {m \in Event : retain'[m] # {}}
    BY <1>4, <1>6, <1>7
  <1>9. deleted' \cap sampled' \subseteq expired'
    BY <1>1, <1>2, <1>3, <1>5
  <1> QED BY <1>8, <1>9 DEF SamplesAreKept

LEMMA HeldByRecording ==
    ASSUME RowInv, SampleInv, NEW l \in Lane, NEW e, Recording(l, e)
    PROVE  RepresentativesHold' /\ Unique'
  <1>1. /\ e \in Event /\ e \notin member /\ retain[e] = {}
        /\ retain'[e] = FlagsOf(e)
        /\ \A m \in Event \ {e} : retain'[m] = retain[m] \ Taken(e)
        /\ done' = [first |-> IF member = {} THEN {e} ELSE done.first, last |-> {e}]
        /\ expired' = expired
    BY RetentionEffect DEF SampleInv
  <1>2. member' = member \cup {e} /\ (count' = 1 <=> member = {})
    BY RecordingRow
  <1>3. /\ member \subseteq Event /\ sampled \subseteq member
        /\ done.first \subseteq member /\ done.last \subseteq member
    BY DEF RowInv, GroupingTypeOK
  <1>4. \A m \in Event : retain[m] # {} => m \in member
    BY <1>3 DEF SampleInv, SamplesAreKept
  <1>5. /\ "first" \notin Taken(e) /\ "latest" \in Taken(e) /\ "latest" \in FlagsOf(e)
        /\ "first" \in FlagsOf(e) <=> member = {}
        /\ "highest_severity" \in FlagsOf(e) <=> HighestSeverity(e)
        /\ "highest_severity" \in Taken(e) <=> HighestSeverity(e)
    BY <1>2 DEF Taken, FlagsOf
  <1>6. \A m \in done'.first : "first" \in retain'[m] \/ m \in expired'
    <2>1. CASE member = {}
      BY <1>1, <1>5, <2>1
    <2>2. CASE member # {}
      <3>1. done'.first = done.first
        BY <1>1, <2>2
      <3>2. \A m \in done.first : "first" \in retain[m] \/ m \in expired
        BY DEF SampleInv, RepresentativesHold
      <3> QED BY <1>1, <1>3, <1>5, <3>1, <3>2
    <2> QED BY <2>1, <2>2
  <1>7. \A m \in done'.last : "latest" \in retain'[m] \/ m \in expired'
    BY <1>1, <1>5
  <1>8. \E m \in member' : /\ "highest_severity" \in retain'[m] \/ m \in expired'
                           /\ \A n \in member' : Rank[n] <= Rank[m]
    <2>1. \A m \in member' : Rank[m] \in 1..4
      BY <1>1, <1>2, <1>3, EventAssumption
    <2>2. CASE HighestSeverity(e)
      <3>1. \A n \in member' : Rank[n] <= Rank[e]
        BY <1>2, <2>1, <2>2 DEF HighestSeverity
      <3> QED BY <1>1, <1>2, <1>5, <2>2, <3>1
    <2>3. CASE ~ HighestSeverity(e)
      <3>1. PICK k \in member : ~ (Rank[k] < Rank[e])
        BY <2>3 DEF HighestSeverity
      <3>2. PICK m \in member : /\ "highest_severity" \in retain[m] \/ m \in expired
                                /\ \A n \in member : Rank[n] <= Rank[m]
        BY <3>1 DEF SampleInv, RepresentativesHold
      <3>3. "highest_severity" \in retain'[m] \/ m \in expired'
        BY <1>1, <1>3, <1>5, <2>3, <3>2
      <3>4. Rank[e] <= Rank[m]
        BY <1>2, <2>1, <3>1, <3>2
      <3>5. \A n \in member' : Rank[n] <= Rank[m]
        BY <1>2, <3>2, <3>4
      <3> QED BY <1>2, <3>2, <3>3, <3>5
    <2> QED BY <2>2, <2>3
  <1>9. RepresentativesHold'
    BY <1>6, <1>7, <1>8 DEF RepresentativesHold
  <1>10. \A k \in {"first", "latest", "highest_severity"} :
           k \in FlagsOf(e) => \A m \in Event \ {e} : k \notin retain'[m]
    <2>1. "first" \in FlagsOf(e) => \A m \in Event \ {e} : "first" \notin retain'[m]
      BY <1>1, <1>4, <1>5
    <2> QED BY <1>1, <1>5, <2>1
  <1>11. Unique'
    <2> SUFFICES ASSUME NEW k \in {"first", "latest", "highest_severity"},
                        NEW m \in Event, NEW n \in Event, k \in retain'[m], k \in retain'[n]
                 PROVE  m = n
      BY DEF Unique
    <2>1. CASE k \in FlagsOf(e)
      BY <1>10, <2>1
    <2>2. CASE k \notin FlagsOf(e)
      <3>1. k \in retain[m] /\ k \in retain[n]
        BY <1>1, <2>2
      <3> QED BY <3>1 DEF SampleInv, Unique
    <2> QED BY <2>1, <2>2
  <1> QED BY <1>9, <1>11

\* A new event that is the first after a deployment blames one that none blamed before.
LEMMA BlamedByRecording ==
    ASSUME RowInv, SampleInv, NEW l \in Lane, NEW e, Recording(l, e)
    PROVE  DeploysAreBlamedOnce'
  <1>1. /\ e \in Event /\ e \notin member /\ retain[e] = {}
        /\ retain'[e] = FlagsOf(e)
        /\ \A m \in Event \ {e} : retain'[m] = retain[m] \ Taken(e)
    BY RetentionEffect DEF SampleInv
  <1>2. deployed' = DeploymentsWith(e)
    BY DEF Recording
  <1>3. IsFiniteSet(deployed') /\ deployed \subseteq deployed' /\ deployed' \subseteq Nat \ {0}
    <2>1. IsFiniteSet(deployed) /\ IsFiniteSet(deployed \cup {Time[e]})
      BY FS_AddElement DEF SampleInv, DeploysAreBlamedOnce, DeploysAreFinite
    <2>2. deployed' = deployed \/ deployed' = deployed \cup {Time[e]}
      BY <1>2 DEF DeploymentsWith
    <2>3. IsFiniteSet(deployed')
      BY <2>1, <2>2
    <2> QED BY <1>1, <1>2, <2>3, DeploymentsType DEF RowInv
  <1> DEFINE H == Holders("after_deploy")
  <1>4. PICK f : Blamed(f)
    BY DEF SampleInv, DeploysAreBlamedOnce
  <1>5. H \subseteq member /\ member \subseteq Event /\ \A m \in Event : Time[m] \in Nat
    BY EventAssumption DEF Holders, SampleInv, SamplesAreKept, RowInv, GroupingTypeOK
  <1>6. "after_deploy" \notin Taken(e) /\ ("after_deploy" \in FlagsOf(e) <=> FirstAfterDeploy(e))
    BY DEF Taken, FlagsOf
  <1>7. CASE ~ FirstAfterDeploy(e)
    <2>1. H' = H
      BY <1>1, <1>6, <1>7 DEF Holders
    <2>2. Blamed(f)'
      BY <1>3, <1>4, <2>1 DEF Blamed
    <2> QED BY <1>3, <2>2 DEF DeploysAreBlamedOnce, DeploysAreFinite
  <1>8. CASE FirstAfterDeploy(e)
    <2>1. PICK d \in DeploymentsWith(e) :
             /\ d <= Time[e]
             /\ \A m \in member \ {e} : ~ IsDeploy(m) => Time[m] < d
      BY <1>8 DEF FirstAfterDeploy
    <2>2. H' = H \cup {e} /\ e \notin H
      BY <1>1, <1>5, <1>6, <1>8 DEF Holders
    <2> DEFINE g == [m \in H \cup {e} |-> IF m = e THEN d ELSE f[m]]
    <2>3. f \in [H -> deployed]
      BY <1>4 DEF Blamed
    <2>4. g \in [H' -> deployed']
      BY <1>2, <1>3, <2>1, <2>2, <2>3
    <2>5. \A m \in H : ~ IsDeploy(m) /\ f[m] <= Time[m]
      BY <1>4 DEF Blamed
    <2>6. \A m \in H : f[m] < d
      <3> TAKE m \in H
      <3>1. f[m] \in Nat /\ d \in Nat /\ Time[m] \in Nat
        BY <1>2, <1>3, <1>5, <2>1, <2>3
      <3>2. f[m] <= Time[m] /\ Time[m] < d
        BY <1>1, <1>5, <2>1, <2>5
      <3> QED BY <3>1, <3>2
    <2>7. \A m \in H' : ~ IsDeploy(m) /\ g[m] <= Time[m]
      BY <2>1, <2>2, <2>5, <1>8 DEF FirstAfterDeploy
    <2>8. \A m, n \in H : f[m] = f[n] => m = n
      BY <1>4 DEF Blamed
    <2>9. d \in Nat /\ \A m \in H : f[m] \in Nat
      BY <1>2, <1>3, <2>1, <2>3
    <2>10. \A m \in H : f[m] # d
      BY <2>6, <2>9
    <2>11. \A m, n \in H' : g[m] = g[n] => m = n
      BY <2>2, <2>8, <2>10
    <2>12. Blamed(g)'
      BY <2>4, <2>7, <2>11 DEF Blamed
    <2> QED BY <1>3, <2>12 DEF DeploysAreBlamedOnce, DeploysAreFinite
  <1> QED BY <1>7, <1>8

\* The clean-up takes the flags of events that expired, and nothing else does.
LEMMA SampleOther ==
    ASSUME RowInv, SampleInv, Other
    PROVE  SamplesAreKept' /\ RepresentativesHold' /\ Unique'
  <1>1. /\ UNCHANGED <<member, done>>
        /\ done.first \subseteq member /\ done.last \subseteq member
        /\ member \subseteq Event /\ retain \in [Event -> SUBSET Flag]
    BY DEF Other, RowInv, GroupingTypeOK
  <1>2. CASE UNCHANGED <<retain, sampled, deleted, expired>>
    BY <1>1, <1>2 DEF SampleInv, SamplesAreKept, RepresentativesHold, Unique
  <1>3. ASSUME NEW e \in Event, ExpireRaw(e)
        PROVE SamplesAreKept' /\ RepresentativesHold' /\ Unique'
    <2>1. /\ UNCHANGED <<retain, sampled>>
          /\ deleted' = deleted \cup {e} /\ expired' = expired \cup {e}
      BY <1>3 DEF ExpireRaw, eventVars
    <2> QED BY <1>1, <2>1 DEF SampleInv, SamplesAreKept, RepresentativesHold, Unique
  <1>4. ASSUME NEW e \in Event, MarkExpired(e)
        PROVE SamplesAreKept' /\ RepresentativesHold' /\ Unique'
    <2>1. /\ UNCHANGED <<deleted, expired>> /\ e \in expired
          /\ sampled' = sampled \ {e} /\ retain' = [retain EXCEPT ![e] = {}]
      BY <1>4 DEF MarkExpired, outVars, historyVars
    <2>2. retain'[e] = {} /\ \A m \in Event \ {e} : retain'[m] = retain[m]
      BY <1>1, <2>1
    <2>3. SamplesAreKept'
      BY <1>1, <2>1, <2>2 DEF SampleInv, SamplesAreKept
    <2>4. RepresentativesHold'
      BY <1>1, <2>1, <2>2 DEF SampleInv, RepresentativesHold
    <2>5. Unique'
      BY <2>2 DEF SampleInv, Unique
    <2> QED BY <2>3, <2>4, <2>5
  <1> QED BY <1>2, <1>3, <1>4 DEF Other

\* Deployments are only added, and flags of the events that blame one only removed.
LEMMA BlamedOther ==
    ASSUME RowInv, SampleInv, DeploysAreFinite', deployed \subseteq deployed',
           \A m \in Event : "after_deploy" \in retain'[m] => "after_deploy" \in retain[m]
    PROVE  DeploysAreBlamedOnce'
  <1> DEFINE H == Holders("after_deploy")
  <1>1. PICK f : Blamed(f)
    BY DEF SampleInv, DeploysAreBlamedOnce
  <1>2. H' \subseteq H
    BY DEF Holders
  <1>g. PICK g : g = [m \in H' |-> f[m]]
    OBVIOUS
  <1>3. /\ f \in [H -> deployed]
        /\ \A m \in H : ~ IsDeploy(m) /\ f[m] <= Time[m]
        /\ \A m, n \in H : f[m] = f[n] => m = n
    BY <1>1 DEF Blamed
  <1>4. g \in [H' -> deployed']
    BY <1>g, <1>2, <1>3
  <1>5. \A m \in H' : ~ IsDeploy(m) /\ g[m] <= Time[m]
    BY <1>g, <1>2, <1>3
  <1>6. \A m, n \in H' : g[m] = g[n] => m = n
    BY <1>g, <1>2, <1>3
  <1>7. Blamed(g)'
    BY <1>4, <1>5, <1>6 DEF Blamed
  <1> QED BY <1>7 DEF DeploysAreBlamedOnce

LEMMA BlamedStep ==
    ASSUME RowInv, SampleInv, [Next]_vars
    PROVE  DeploysAreBlamedOnce'
  <1> USE DEF rowVars, eventVars, outVars, historyVars
  <1>1. IsFiniteSet(deployed) /\ \A x : IsFiniteSet(deployed \cup {x})
    BY FS_AddElement DEF SampleInv, DeploysAreBlamedOnce, DeploysAreFinite
  <1>2. ASSUME UNCHANGED <<deployed, retain>> PROVE DeploysAreBlamedOnce'
    BY <1>1, <1>2, BlamedOther DEF DeploysAreFinite
  <1>3. ASSUME NEW d \in DeployTime, Deploy(d) PROVE DeploysAreBlamedOnce'
    <2>1. deployed' = deployed \cup {d} /\ retain' = retain
      BY <1>3 DEF Deploy
    <2>2. IsFiniteSet(deployed')
      BY <1>1, <2>1
    <2> QED BY <2>1, <2>2, BlamedOther DEF DeploysAreFinite
  <1>4. ASSUME NEW e \in Event, MarkExpired(e) PROVE DeploysAreBlamedOnce'
    <2>1. /\ deployed' = deployed /\ retain' = [retain EXCEPT ![e] = {}]
          /\ retain \in [Event -> SUBSET Flag]
      BY <1>4 DEF MarkExpired, RowInv, GroupingTypeOK
    <2>2. \A m \in Event : "after_deploy" \in retain'[m] => "after_deploy" \in retain[m]
      BY <2>1
    <2>3. IsFiniteSet(deployed') /\ deployed \subseteq deployed'
      BY <1>1, <2>1
    <2> QED BY <2>2, <2>3, BlamedOther DEF DeploysAreFinite
  <1>5. ASSUME NEW l \in Lane, Commit(l) PROVE DeploysAreBlamedOnce'
    <2> DEFINE e == EventOf[task[l]]
    <2>1. CASE Recording(l, e)
      BY <2>1, BlamedByRecording
    <2>2. CASE Repeating(e)
      <3>1. retain' = retain /\ deployed' = DeploymentsWith(e)
        BY <2>2 DEF Repeating
      <3>2. deployed' = deployed \/ deployed' = deployed \cup {Time[e]}
        BY <3>1 DEF DeploymentsWith
      <3>3. IsFiniteSet(deployed') /\ deployed \subseteq deployed'
        BY <1>1, <3>2
      <3> QED BY <3>1, <3>3, BlamedOther DEF DeploysAreFinite
    <2> QED BY <1>5, <2>1, <2>2, CommitEffect
  <1>6. ASSUME NEW l \in Lane, Look(l) \/ Abort(l) PROVE DeploysAreBlamedOnce'
    BY <1>2, <1>6 DEF Look, Abort
  <1>7. CASE Resolve \/ Reopen
    BY <1>2, <1>7 DEF Resolve, Reopen
  <1>8. ASSUME NEW e \in Event, ExpireRaw(e) PROVE DeploysAreBlamedOnce'
    BY <1>2, <1>8 DEF ExpireRaw
  <1>9. CASE UNCHANGED vars
    BY <1>2, <1>9 DEF vars
  <1> QED BY <1>3, <1>4, <1>5, <1>6, <1>7, <1>8, <1>9 DEF Next

LEMMA SampleStep ==
    ASSUME RowInv, SampleInv, [Next]_vars
    PROVE  SampleInv'
  <1>1. DeploysAreBlamedOnce'
    BY BlamedStep
  <1>2. CASE Other
    BY <1>1, <1>2, SampleOther DEF SampleInv
  <1>3. ASSUME NEW l \in Lane, Commit(l) PROVE SampleInv'
    <2> DEFINE e == EventOf[task[l]]
    <2>1. CASE Recording(l, e)
      <3>1. SamplesAreKept'
        BY <2>1, KeptByRecording DEF SampleInv
      <3>2. RepresentativesHold' /\ Unique'
        BY <2>1, HeldByRecording
      <3> QED BY <1>1, <3>1, <3>2 DEF SampleInv
    <2>2. CASE Repeating(e)
      <3>1. UNCHANGED <<member, retain, sampled, deleted, done, expired>>
        BY <2>2 DEF Repeating
      <3> QED BY <1>1, <3>1 DEF SampleInv, SamplesAreKept, RepresentativesHold, Unique
    <2> QED BY <1>3, <2>1, <2>2, CommitEffect
  <1> QED BY <1>2, <1>3, OtherStep

LEMMA SampleInit == Init => SampleInv
  <1> SUFFICES ASSUME Init PROVE SampleInv
    OBVIOUS
  <1>1. /\ retain = [e \in Event |-> {}] /\ sampled = {} /\ deployed = {} /\ member = {}
        /\ deleted = {} /\ done.first = {} /\ done.last = {}
    BY DEF Init
  <1>2. SamplesAreKept /\ RepresentativesHold /\ Unique
    BY <1>1 DEF SamplesAreKept, RepresentativesHold, Unique
  <1>3. Holders("after_deploy") = {}
    BY <1>1 DEF Holders
  <1> DEFINE f == [m \in {} |-> 0]
  <1>4. f \in [Holders("after_deploy") -> deployed]
    BY <1>3
  <1>5. Blamed(f)
    BY <1>3, <1>4 DEF Blamed
  <1>6. DeploysAreBlamedOnce
    BY <1>1, <1>5, FS_EmptySet DEF DeploysAreBlamedOnce, DeploysAreFinite
  <1> QED BY <1>2, <1>6 DEF SampleInv

LEMMA SampleInvariant == Spec => [](RowInv /\ SampleInv)
  <1>1. RowInv /\ SampleInv /\ [Next]_vars => (RowInv /\ SampleInv)'
    BY RowStep, SampleStep
  <1> QED BY <1>1, RowInit, SampleInit, PTL DEF Spec

\* The columns retain_... and is_sampled agree, and only the clean-up deletes the object
\* of a sampled event.
THEOREM SamplesKeepTheirDetail == Spec => []SamplesAreKept
  <1>1. SampleInv => SamplesAreKept
    BY DEF SampleInv
  <1> QED BY <1>1, SampleInvariant, PTL

\* The first, the latest and the most severe event keep their detail until it expires,
\* in whatever order the events of the incident are grouped.
THEOREM RepresentativesStay == Spec => []RepresentativesAreKept
  <1>1. ASSUME RowInv, SampleInv PROVE RepresentativesAreKept
    <2>1. /\ done.first \subseteq Event /\ done.last \subseteq Event /\ member \subseteq Event
      BY <1>1 DEF RowInv, GroupingTypeOK
    <2>2. \A m \in Event : retain[m] # {} => m \in sampled
      BY <1>1 DEF SampleInv, SamplesAreKept
    <2>3. (done.first \cup done.last) \subseteq (sampled \cup expired)
      BY <1>1, <2>1, <2>2 DEF SampleInv, RepresentativesHold
    <2>4. member # {} => \E m \in sampled \cup expired : \A n \in member : Rank[n] <= Rank[m]
      BY <1>1, <2>1, <2>2 DEF SampleInv, RepresentativesHold
    <2> QED BY <2>3, <2>4 DEF RepresentativesAreKept
  <1> QED BY <1>1, SampleInvariant, PTL

\* The events that keep their detail are one of each kind, and no more that were the
\* first after a deployment than there are deployments.
THEOREM SamplesStayFew == Spec => []SamplesAreBounded
  <1>1. ASSUME RowInv, SampleInv PROVE SamplesAreBounded
    <2> DEFINE H == Holders("after_deploy")
    <2>1. PICK f : Blamed(f)
      BY <1>1 DEF SampleInv, DeploysAreBlamedOnce
    <2>2. f \in Injection(H, deployed)
      BY <2>1 DEF Blamed, Injection, IsInjective
    <2>3. IsFiniteSet(deployed)
      BY <1>1 DEF SampleInv, DeploysAreBlamedOnce, DeploysAreFinite
    <2>4. Cardinality(H) <= Cardinality(deployed)
      BY <2>2, <2>3, FS_Injection
    <2> QED BY <1>1, <2>4 DEF SamplesAreBounded, Holders, SampleInv, Unique
  <1> QED BY <1>1, SampleInvariant, PTL

(***************************************************************************)
(* the follow-ups                                                          *)
(***************************************************************************)
\* Follow-ups were enqueued for occurrences that are counted.
FollowUpsAreCounted == \A f \in enqueued : f.event \in member /\ f.count <= count

FollowInv == FollowUpsAreCounted /\ AnnouncedOnce /\ BundlesAreRequested

LEMMA RecordingFollows ==
    ASSUME RowInv, NEW l \in Lane, NEW e, Recording(l, e)
    PROVE  \E spiking \in BOOLEAN :
             enqueued' = enqueued \cup FollowUps(e, BundleKinds(e, seen[l], seen[l].status = "resolved")
                                                    \cup AlertKinds(seen[l], seen[l].status = "resolved")
                                                    \cup SpikeKinds(spiking))
  BY DEF Recording, Recorded

LEMMA FollowUpIs ==
    ASSUME NEW e, NEW kinds, NEW f \in FollowUps(e, kinds)
    PROVE  f.event = e /\ f.count = count' /\ f.kind \in kinds
  <1>1. PICK k \in kinds : f = [kind |-> k, event |-> e, count |-> count']
    BY DEF FollowUps
  <1> QED BY <1>1

LEMMA FollowUpOf ==
    ASSUME NEW e, NEW kinds, NEW k \in kinds
    PROVE  \E f \in FollowUps(e, kinds) : f.kind = k /\ f.event = e /\ f.count = count'
  <1> DEFINE f == [kind |-> k, event |-> e, count |-> count']
  <1>1. f \in FollowUps(e, kinds)
    BY DEF FollowUps
  <1> QED BY <1>1

\* A new event of a threshold or of a new type has its bundle built.
LEMMA BuildIsWanted ==
    ASSUME RowInv, NEW l \in Lane, NEW e, Recording(l, e), EventOf[task[l]] = e, task[l] # NoJob,
           count' \in Thresholds \/ (\A m \in member : Type[m] # Type[e])
    PROVE  "build" \in BundleKinds(e, seen[l], seen[l].status = "resolved")
  <1>1. /\ seen[l].hasType <=> \E m \in member : Type[m] = Type[e]
        /\ seen[l].status = "none" <=> status = "none"
    BY DEF RowInv, LockInv, ReadHolds
  <1>2. (status = "none" <=> member = {}) /\ (count' = 1 <=> member = {})
    BY RecordingRow
  <1>3. 1 \in Thresholds
    BY CountAssumption
  <1> QED BY <1>1, <1>2, <1>3 DEF BundleKinds

LEMMA FollowStep ==
    ASSUME RowInv, FollowInv, [Next]_vars
    PROVE  FollowInv'
  <1>1. CASE Other
    BY <1>1 DEF Other, FollowInv, FollowUpsAreCounted, AnnouncedOnce, BundlesAreRequested
  <1>2. ASSUME NEW l \in Lane, Commit(l) PROVE FollowInv'
    <2> DEFINE e == EventOf[task[l]]
    <2>1. CASE Repeating(e)
      <3>1. UNCHANGED <<count, member, enqueued>>
        BY <2>1 DEF Repeating
      <3> QED BY <3>1 DEF FollowInv, FollowUpsAreCounted, AnnouncedOnce, BundlesAreRequested
    <2>2. CASE Recording(l, e)
      <3>1. /\ member' = member \cup {e} /\ e \notin member
            /\ count \in Nat /\ count' = count + 1
        BY <2>2, RecordingRow
      <3>2. PICK kinds :
              /\ enqueued' = enqueued \cup FollowUps(e, kinds)
              /\ BundleKinds(e, seen[l], seen[l].status = "resolved") \subseteq kinds
        <4>1. PICK spiking \in BOOLEAN :
                 enqueued' = enqueued \cup
                   FollowUps(e, BundleKinds(e, seen[l], seen[l].status = "resolved")
                                  \cup AlertKinds(seen[l], seen[l].status = "resolved")
                                  \cup SpikeKinds(spiking))
          BY <2>2, RecordingFollows
        <4> DEFINE all == BundleKinds(e, seen[l], seen[l].status = "resolved")
                            \cup AlertKinds(seen[l], seen[l].status = "resolved")
                            \cup SpikeKinds(spiking)
        <4>2. BundleKinds(e, seen[l], seen[l].status = "resolved") \subseteq all
          OBVIOUS
        <4>3. enqueued' = enqueued \cup FollowUps(e, all)
          BY <4>1
        <4> HIDE DEF all
        <4> QED BY <4>2, <4>3
      <3>3. /\ \A f \in enqueued : f.event \in member /\ f.count \in Nat /\ f.count <= count
            /\ \A f, g \in enqueued : (f.event = g.event) <=> (f.count = g.count)
        BY DEF FollowInv, FollowUpsAreCounted, AnnouncedOnce, RowInv, GroupingTypeOK
      <3>4. \A f \in FollowUps(e, kinds) : f.event = e /\ f.count = count'
        BY FollowUpIs
      <3>5. FollowUpsAreCounted'
        BY <3>1, <3>2, <3>3, <3>4 DEF FollowUpsAreCounted
      <3>6. \A f \in enqueued, g \in FollowUps(e, kinds) : f.event # g.event /\ f.count # g.count
        BY <3>1, <3>3, <3>4
      <3>7. \A f, g \in enqueued' : (f.event = g.event) <=> (f.count = g.count)
        BY <3>2, <3>3, <3>4, <3>6
      <3>8. \A n \in Thresholds : n <= count' => \E f \in enqueued' : f.kind = "build" /\ f.count = n
        <4> SUFFICES ASSUME NEW n \in Thresholds, n <= count'
                     PROVE  \E f \in enqueued' : f.kind = "build" /\ f.count = n
          OBVIOUS
        <4>1. CASE n <= count
          BY <3>2, <4>1 DEF FollowInv, BundlesAreRequested
        <4>2. CASE n = count'
          <5>1. "build" \in kinds
            BY <1>2, <2>2, <3>2, <4>2, BuildIsWanted DEF Commit
          <5> QED BY <3>2, <4>2, <5>1, FollowUpOf
        <4>3. n \in Nat
          BY CountAssumption
        <4> QED BY <3>1, <4>1, <4>2, <4>3
      <3>9. \A m \in member' : \E f \in enqueued' : f.kind = "build" /\ Type[f.event] = Type[m]
        <4>1. \A m \in member : \E f \in enqueued' : f.kind = "build" /\ Type[f.event] = Type[m]
          BY <3>2 DEF FollowInv, BundlesAreRequested
        <4>2. CASE \E m \in member : Type[m] = Type[e]
          BY <3>1, <4>1, <4>2
        <4>3. CASE \A m \in member : Type[m] # Type[e]
          <5>1. "build" \in kinds
            BY <1>2, <2>2, <3>2, <4>3, BuildIsWanted DEF Commit
          <5>2. \E f \in enqueued' : f.kind = "build" /\ f.event = e
            BY <3>2, <5>1, FollowUpOf
          <5> QED BY <3>1, <4>1, <5>2
        <4> QED BY <4>2, <4>3
      <3> QED BY <3>5, <3>7, <3>8, <3>9 DEF FollowInv, AnnouncedOnce, BundlesAreRequested
    <2> QED BY <1>2, <2>1, <2>2, CommitEffect
  <1> QED BY <1>1, <1>2, OtherStep

LEMMA FollowInit == Init => FollowInv
  BY CountAssumption DEF Init, FollowInv, FollowUpsAreCounted, AnnouncedOnce, BundlesAreRequested

LEMMA FollowInvariant == Spec => [](RowInv /\ FollowInv)
  <1>1. RowInv /\ FollowInv /\ [Next]_vars => (RowInv /\ FollowInv)'
    BY RowStep, FollowStep
  <1> QED BY <1>1, RowInit, FollowInit, PTL DEF Spec

\* An occurrence is announced once, under a number of its own, whatever is delivered again.
THEOREM OccurrencesAreAnnouncedOnce == Spec => []AnnouncedOnce
  <1>1. FollowInv => AnnouncedOnce
    BY DEF FollowInv
  <1> QED BY <1>1, FollowInvariant, PTL

\* No threshold of the count and no type of event goes by without a bundle build.
THEOREM NoBuildIsMissed == Spec => []BundlesAreRequested
  <1>1. FollowInv => BundlesAreRequested
    BY DEF FollowInv
  <1> QED BY <1>1, FollowInvariant, PTL

(***************************************************************************)
(* regressions                                                             *)
(***************************************************************************)
Reopenings == {f \in enqueued : f.kind = "reopened"}

\* A resolution that no occurrence has answered, in the row or in what a lane has read.
Pending == status = "resolved" \/ \E l \in Lane : task[l] # NoJob /\ seen[l].status = "resolved"

EarnedInv ==
    /\ IsFiniteSet(Reopenings)
    /\ Cardinality(Reopenings) + (IF Pending THEN 1 ELSE 0) <= resolves

LEMMA EarnedArithmetic ==
    ASSUME NEW a \in Nat, NEW b \in Nat, NEW r \in Nat, NEW s \in Nat,
           NEW p \in BOOLEAN, NEW q \in BOOLEAN,
           a + (IF p THEN 1 ELSE 0) <= r,
           \/ b <= a /\ s = r /\ (q => p)
           \/ b <= a + 1 /\ s = r /\ p /\ ~ q
           \/ b <= a /\ s = r + 1
    PROVE  b + (IF q THEN 1 ELSE 0) <= s
  OBVIOUS

LEMMA EarnedBy ==
    ASSUME RowInv, RowInv', EarnedInv, IsFiniteSet(Reopenings)',
           \/ Cardinality(Reopenings)' <= Cardinality(Reopenings) /\ resolves' = resolves /\ (Pending' => Pending)
           \/ Cardinality(Reopenings)' <= Cardinality(Reopenings) + 1 /\ resolves' = resolves /\ Pending /\ ~ Pending'
           \/ Cardinality(Reopenings)' <= Cardinality(Reopenings) /\ resolves' = resolves + 1
    PROVE  EarnedInv'
  <1>1. Cardinality(Reopenings) \in Nat /\ Cardinality(Reopenings)' \in Nat
    BY FS_CardinalityType DEF EarnedInv
  <1>2. resolves \in Nat /\ resolves' \in Nat
    BY DEF RowInv, GroupingTypeOK
  <1>3. Pending \in BOOLEAN /\ Pending' \in BOOLEAN
    BY DEF Pending
  <1>4. Cardinality(Reopenings) + (IF Pending THEN 1 ELSE 0) <= resolves
    BY DEF EarnedInv
  <1>5. Cardinality(Reopenings)' + (IF Pending' THEN 1 ELSE 0) <= resolves'
    BY <1>1, <1>2, <1>3, <1>4, EarnedArithmetic
  <1> QED BY <1>5 DEF EarnedInv

\* The reopenings a new event announces: at most one, and none unless its lane has read
\* the incident resolved.
LEMMA ReopeningsOf ==
    ASSUME RowInv, IsFiniteSet(Reopenings), NEW l \in Lane, NEW e, Recording(l, e)
    PROVE  /\ IsFiniteSet(Reopenings)'
           /\ IF seen[l].status = "resolved"
              THEN Cardinality(Reopenings)' <= Cardinality(Reopenings) + 1
              ELSE Reopenings' = Reopenings
  <1> DEFINE r == seen[l].status = "resolved"
             x == [kind |-> "reopened", event |-> e, count |-> count']
  <1>1. PICK spiking \in BOOLEAN :
           enqueued' = enqueued \cup FollowUps(e, BundleKinds(e, seen[l], r)
                                                  \cup AlertKinds(seen[l], r) \cup SpikeKinds(spiking))
    BY RecordingFollows
  <1> DEFINE kinds == BundleKinds(e, seen[l], r) \cup AlertKinds(seen[l], r) \cup SpikeKinds(spiking)
  <1>2. "reopened" \in kinds => r
    BY DEF BundleKinds, AlertKinds, SpikeKinds
  <1>3. enqueued' = enqueued \cup FollowUps(e, kinds)
    BY <1>1
  <1> HIDE DEF kinds
  <1>4. \A f \in FollowUps(e, kinds) : f.kind = "reopened" => f = x /\ r
    <2> TAKE f \in FollowUps(e, kinds)
    <2>1. PICK k \in kinds : f = [kind |-> k, event |-> e, count |-> count']
      BY DEF FollowUps
    <2> QED BY <1>2, <2>1
  <1>5. /\ Reopenings' \subseteq Reopenings \cup {x} /\ Reopenings \subseteq Reopenings'
        /\ ~ r => Reopenings' = Reopenings
    BY <1>3, <1>4 DEF Reopenings
  <1> HIDE DEF x
  <1>a. /\ IsFiniteSet(Reopenings \cup {x}) /\ Cardinality(Reopenings) \in Nat
        /\ Cardinality(Reopenings \cup {x}) =
             IF x \in Reopenings THEN Cardinality(Reopenings) ELSE Cardinality(Reopenings) + 1
    BY FS_AddElement, FS_CardinalityType
  <1>6. /\ IsFiniteSet(Reopenings \cup {x})
        /\ Cardinality(Reopenings \cup {x}) <= Cardinality(Reopenings) + 1
        /\ Cardinality(Reopenings \cup {x}) \in Nat /\ Cardinality(Reopenings) \in Nat
    BY <1>a
  <1>7. /\ IsFiniteSet(Reopenings') /\ Cardinality(Reopenings') \in Nat
        /\ Cardinality(Reopenings') <= Cardinality(Reopenings \cup {x})
    BY <1>5, <1>6, FS_Subset, FS_CardinalityType
  <1>8. Cardinality(Reopenings') <= Cardinality(Reopenings) + 1
    BY <1>6, <1>7
  <1> QED BY <1>5, <1>7, <1>8

LEMMA EarnedStep ==
    ASSUME RowInv, RowInv', EarnedInv, [Next]_vars
    PROVE  EarnedInv'
  <1> USE DEF rowVars, eventVars, outVars, historyVars
  <1>c. IsFiniteSet(Reopenings) /\ Cardinality(Reopenings) \in Nat
    BY FS_CardinalityType DEF EarnedInv
  <1>1. ASSUME UNCHANGED <<enqueued, resolves>>, Pending' => Pending PROVE EarnedInv'
    <2>1. Reopenings' = Reopenings
      BY <1>1 DEF Reopenings
    <2> QED BY <1>c, <1>1, <2>1, EarnedBy
  <1>2. CASE Resolve
    <2>1. enqueued' = enqueued /\ resolves' = resolves + 1
      BY <1>2 DEF Resolve
    <2>2. Reopenings' = Reopenings
      BY <2>1 DEF Reopenings
    <2> QED BY <1>c, <2>1, <2>2, EarnedBy
  <1>3. ASSUME NEW l \in Lane, Look(l) PROVE EarnedInv'
    <2>1. PICK j \in queued : /\ task' = [task EXCEPT ![l] = j]
                              /\ seen' = [seen EXCEPT ![l] = Reading(EventOf[j])]
      BY <1>3 DEF Look
    <2>2. Reading(EventOf[j]).status = status
      BY DEF Reading
    <2>3. seen'[l].status = status /\ \A k \in Lane \ {l} : task'[k] = task[k] /\ seen'[k] = seen[k]
      BY <2>1, <2>2 DEF RowInv, GroupingTypeOK
    <2>4. UNCHANGED <<status, enqueued, resolves>>
      BY <1>3 DEF Look
    <2> QED BY <1>1, <2>3, <2>4 DEF Pending
  <1>4. ASSUME NEW l \in Lane, Abort(l) PROVE EarnedInv'
    <2>1. task'[l] = NoJob /\ \A k \in Lane \ {l} : task'[k] = task[k] /\ seen'[k] = seen[k]
      BY <1>4 DEF Abort, RowInv, GroupingTypeOK
    <2>2. UNCHANGED <<status, enqueued, resolves>>
      BY <1>4 DEF Abort
    <2> QED BY <1>1, <2>1, <2>2 DEF Pending
  <1>5. CASE Reopen
    <2>1. UNCHANGED <<task, seen, enqueued, resolves>> /\ status' = "open"
      BY <1>5 DEF Reopen
    <2> QED BY <1>1, <2>1 DEF Pending
  <1>6. ASSUME UNCHANGED <<status, task, seen, enqueued, resolves>> PROVE EarnedInv'
    BY <1>1, <1>6 DEF Pending
  <1>7. ASSUME NEW d \in DeployTime, Deploy(d) PROVE EarnedInv'
    BY <1>6, <1>7 DEF Deploy
  <1>8. ASSUME NEW e \in Event, ExpireRaw(e) \/ MarkExpired(e) PROVE EarnedInv'
    BY <1>6, <1>8 DEF ExpireRaw, MarkExpired
  <1>9. CASE UNCHANGED vars
    BY <1>6, <1>9 DEF vars
  <1>10. ASSUME NEW l \in Lane, Commit(l) PROVE EarnedInv'
    <2> DEFINE e == EventOf[task[l]]
    <2>1. /\ task[l] # NoJob /\ \A k \in Lane : task'[k] = NoJob
      BY <1>10 DEF Commit, RowInv, LockInv, GroupingTypeOK
    <2>2. CASE Repeating(e)
      <3>1. UNCHANGED <<status, enqueued, resolves>>
        BY <2>2 DEF Repeating
      <3> QED BY <1>1, <2>1, <3>1 DEF Pending
    <2>3. CASE Recording(l, e)
      <3>1. resolves' = resolves
        BY <2>3 DEF Recording
      <3>2. status' # "resolved"
        BY <2>3 DEF Recording, InsertIncident, UpdateIncident
      <3>3. ~ Pending'
        BY <2>1, <3>2 DEF Pending
      <3>4. IsFiniteSet(Reopenings)'
        BY <1>c, <2>3, ReopeningsOf
      <3>5. CASE seen[l].status = "resolved"
        <4>1. Pending
          BY <2>1, <3>5 DEF Pending
        <4>2. Cardinality(Reopenings)' <= Cardinality(Reopenings) + 1
          BY <1>c, <2>3, <3>5, ReopeningsOf
        <4> QED BY <3>1, <3>3, <3>4, <4>1, <4>2, EarnedBy
      <3>6. CASE seen[l].status # "resolved"
        <4>1. Reopenings' = Reopenings
          BY <1>c, <2>3, <3>6, ReopeningsOf
        <4>2. Cardinality(Reopenings)' <= Cardinality(Reopenings)
          BY <1>c, <4>1
        <4> QED BY <3>1, <3>3, <3>4, <4>2, EarnedBy
      <3> QED BY <3>5, <3>6
    <2> QED BY <1>10, <2>2, <2>3, CommitEffect
  <1> QED BY <1>2, <1>3, <1>4, <1>5, <1>7, <1>8, <1>9, <1>10 DEF Next

LEMMA EarnedInit == Init => EarnedInv
  <1> SUFFICES ASSUME Init PROVE EarnedInv
    OBVIOUS
  <1>1. Reopenings = {} /\ ~ Pending /\ resolves = 0
    BY DEF Init, Reopenings, Pending
  <1> QED BY <1>1, FS_EmptySet DEF EarnedInv

\* bundle.reopened never outnumbers the resolutions, although users resolve and reopen
\* the incident between a lane's reads and its upsert.
THEOREM ReopeningsAreEarned == Spec => []RegressionsAreEarned
  <1>1. RowInv /\ EarnedInv /\ [Next]_vars => (RowInv /\ EarnedInv)'
    BY RowStep, EarnedStep
  <1>2. ASSUME RowInv, EarnedInv PROVE RegressionsAreEarned
    <2>1. Cardinality(Reopenings) \in Nat /\ resolves \in Nat
      BY <1>2, FS_CardinalityType DEF EarnedInv, RowInv, GroupingTypeOK
    <2>2. Cardinality(Reopenings) <= resolves
      BY <1>2, <2>1 DEF EarnedInv
    <2> QED BY <2>2 DEF RegressionsAreEarned, Reopenings
  <1> QED BY <1>1, <1>2, RowInit, EarnedInit, PTL DEF Spec

(***************************************************************************)
(* what a regression announces                                             *)
(***************************************************************************)
\* As long as no occurrence follows a resolution that met no lane at work, its number is
\* the next one, and every lane that is at work has read the incident resolved.
AnnounceInv ==
    /\ RegressionsAreAnnounced
    /\ status = "resolved" /\ resolvedAt # 0 =>
         /\ count = resolvedAt
         /\ \A l \in Lane : task[l] # NoJob => seen[l].status = "resolved"

\* A new event recorded by a lane that has read the incident resolved has the build, the
\* alert and the webhook of the regression.
LEMMA RegressionFollows ==
    ASSUME RowInv, NEW l \in Lane, NEW e, Recording(l, e), seen[l].status = "resolved",
           NEW k \in {"build", "reopened", "incident_regressed"}
    PROVE  \E f \in enqueued' : f.kind = k /\ f.count = count'
  <1>1. PICK spiking \in BOOLEAN :
           enqueued' = enqueued \cup FollowUps(e, BundleKinds(e, seen[l], seen[l].status = "resolved")
                                                  \cup AlertKinds(seen[l], seen[l].status = "resolved")
                                                  \cup SpikeKinds(spiking))
    BY RecordingFollows
  <1> DEFINE kinds == BundleKinds(e, seen[l], seen[l].status = "resolved")
                        \cup AlertKinds(seen[l], seen[l].status = "resolved") \cup SpikeKinds(spiking)
  <1>2. k \in kinds
    BY DEF BundleKinds, AlertKinds
  <1>3. enqueued' = enqueued \cup FollowUps(e, kinds)
    BY <1>1
  <1> HIDE DEF kinds
  <1> QED BY <1>2, <1>3, FollowUpOf

\* The events a lane records leave what was announced before.
LEMMA AnnouncedStays ==
    ASSUME RowInv, NEW l \in Lane, NEW e, Recording(l, e)
    PROVE  enqueued \subseteq enqueued'
  BY RecordingFollows

LEMMA AnnounceStep ==
    ASSUME RowInv, AnnounceInv, [Next]_vars
    PROVE  AnnounceInv'
  <1> USE DEF rowVars, eventVars, outVars, historyVars
  <1>1. ASSUME UNCHANGED <<status, count, enqueued, resolvedAt>>,
               \A l \in Lane : task'[l] # NoJob =>
                 \/ task[l] # NoJob /\ seen'[l] = seen[l]
                 \/ seen'[l].status = status
        PROVE  AnnounceInv'
    BY <1>1 DEF AnnounceInv, RegressionsAreAnnounced
  <1>2. CASE Resolve
    <2>1. /\ status' = "resolved" /\ count' = count /\ task' = task
          /\ resolvedAt' = IF LockIsFree THEN count ELSE 0
      BY <1>2 DEF Resolve
    <2> QED BY <2>1 DEF AnnounceInv, RegressionsAreAnnounced, LockIsFree
  <1>3. CASE Reopen
    BY <1>3 DEF Reopen, AnnounceInv, RegressionsAreAnnounced
  <1>4. ASSUME NEW l \in Lane, Look(l) PROVE AnnounceInv'
    <2>1. PICK j \in queued : /\ task' = [task EXCEPT ![l] = j]
                              /\ seen' = [seen EXCEPT ![l] = Reading(EventOf[j])]
      BY <1>4 DEF Look
    <2>2. Reading(EventOf[j]).status = status
      BY DEF Reading
    <2>3. seen'[l].status = status /\ \A k \in Lane \ {l} : task'[k] = task[k] /\ seen'[k] = seen[k]
      BY <2>1, <2>2 DEF RowInv, GroupingTypeOK
    <2>4. UNCHANGED <<status, count, enqueued, resolvedAt>>
      BY <1>4 DEF Look
    <2> QED BY <1>1, <2>3, <2>4
  <1>5. ASSUME NEW l \in Lane, Abort(l) PROVE AnnounceInv'
    <2>1. task'[l] = NoJob /\ \A k \in Lane \ {l} : task'[k] = task[k] /\ seen'[k] = seen[k]
      BY <1>5 DEF Abort, RowInv, GroupingTypeOK
    <2>2. UNCHANGED <<status, count, enqueued, resolvedAt>>
      BY <1>5 DEF Abort
    <2> QED BY <1>1, <2>1, <2>2
  <1>6. ASSUME UNCHANGED <<status, count, enqueued, resolvedAt, task, seen>> PROVE AnnounceInv'
    BY <1>1, <1>6
  <1>7. ASSUME NEW d \in DeployTime, Deploy(d) PROVE AnnounceInv'
    BY <1>6, <1>7 DEF Deploy
  <1>8. ASSUME NEW e \in Event, ExpireRaw(e) \/ MarkExpired(e) PROVE AnnounceInv'
    BY <1>6, <1>8 DEF ExpireRaw, MarkExpired
  <1>9. CASE UNCHANGED vars
    BY <1>6, <1>9 DEF vars
  <1>10. ASSUME NEW l \in Lane, Commit(l) PROVE AnnounceInv'
    <2> DEFINE e == EventOf[task[l]]
    <2>1. /\ task[l] # NoJob /\ resolvedAt' = resolvedAt /\ \A k \in Lane : task'[k] = NoJob
      BY <1>10 DEF Commit, RowInv, LockInv, GroupingTypeOK
    <2>2. CASE Repeating(e)
      BY <1>1, <2>1, <2>2 DEF Repeating
    <2>3. CASE Recording(l, e)
      <3>1. count \in Nat /\ count' = count + 1 /\ enqueued \subseteq enqueued'
        BY <2>3, RecordingRow, AnnouncedStays
      <3>2. /\ status' # "resolved"
            /\ status' = "regressed" => status \in {"regressed", "resolved"}
        BY <2>3 DEF Recording, InsertIncident, UpdateIncident
      <3>3. ASSUME status' = "regressed", resolvedAt # 0,
                   NEW k \in {"build", "reopened", "incident_regressed"}
            PROVE  \E f \in enqueued' : f.kind = k /\ f.count = resolvedAt + 1
        <4>1. CASE status = "regressed"
          BY <3>1, <3>3, <4>1 DEF AnnounceInv, RegressionsAreAnnounced
        <4>2. CASE status = "resolved"
          <5>1. count = resolvedAt /\ seen[l].status = "resolved"
            BY <2>1, <3>3, <4>2 DEF AnnounceInv
          <5> QED BY <2>3, <3>1, <5>1, RegressionFollows
        <4> QED BY <3>2, <3>3, <4>1, <4>2
      <3> QED BY <2>1, <3>2, <3>3 DEF AnnounceInv, RegressionsAreAnnounced
    <2> QED BY <1>10, <2>2, <2>3, CommitEffect DEF RowInv
  <1> QED BY <1>2, <1>3, <1>4, <1>5, <1>7, <1>8, <1>9, <1>10 DEF Next

LEMMA AnnounceInit == Init => AnnounceInv
  BY DEF Init, AnnounceInv, RegressionsAreAnnounced

\* A regression has its build, its alert and its webhook, whatever users and lanes do,
\* unless the resolution fell between a lane's reads and its upsert.
THEOREM RegressionsStayAnnounced == Spec => []RegressionsAreAnnounced
  <1>1. RowInv /\ AnnounceInv /\ [Next]_vars => (RowInv /\ AnnounceInv)'
    BY RowStep, AnnounceStep
  <1>2. AnnounceInv => RegressionsAreAnnounced
    BY DEF AnnounceInv
  <1> QED BY <1>1, <1>2, RowInit, AnnounceInit, PTL DEF Spec

(***************************************************************************)
(* the refinement of OccurrenceLog                                         *)
(***************************************************************************)
\* The follow-ups of a new event are new, since its number is, and what every occurrence
\* owes is among them.
LEMMA RecordingAnnounces ==
    ASSUME RowInv, FollowInv, NEW l \in Lane, NEW e, Recording(l, e), EventOf[task[l]] = e,
           task[l] # NoJob
    PROVE  Log!Announce(e)
  <1>1. /\ count \in Nat /\ count' = count + 1
        /\ status = "none" <=> member = {}
        /\ count' = 1 <=> member = {}
    BY RecordingRow
  <1>2. PICK spiking \in BOOLEAN :
           enqueued' = enqueued \cup FollowUps(e, BundleKinds(e, seen[l], seen[l].status = "resolved")
                                                  \cup AlertKinds(seen[l], seen[l].status = "resolved")
                                                  \cup SpikeKinds(spiking))
    BY RecordingFollows
  <1> DEFINE bundle == BundleKinds(e, seen[l], seen[l].status = "resolved")
             alert == AlertKinds(seen[l], seen[l].status = "resolved")
             kinds == bundle \cup alert \cup SpikeKinds(spiking)
             new == FollowUps(e, kinds)
  <1>3. enqueued' = enqueued \cup new
    BY <1>2
  <1>4. \A k \in Log!Owed(count + 1) : k \in kinds
    <2>1. "severity" \in kinds /\ (count' = 1 => "new_incident" \in kinds)
      BY DEF AlertKinds
    <2>2. count' \in Thresholds => "build" \in kinds
      BY BuildIsWanted
    <2>3. count' = 1 => "created" \in kinds
      BY CountAssumption DEF BundleKinds
    <2> HIDE DEF kinds
    <2> QED BY <1>1, <2>1, <2>2, <2>3 DEF Log!Owed
  <1> HIDE DEF kinds
  <1>5. \A f \in new : f.event = e /\ f.count = count + 1 /\ f.kind \in kinds
    BY <1>1, FollowUpIs
  <1>6. \A k \in kinds : \E f \in new : f.kind = k
    BY FollowUpOf
  <1> HIDE DEF new
  <1>7. \A f \in enqueued : f.count # count + 1
    BY <1>1 DEF FollowInv, FollowUpsAreCounted, RowInv, GroupingTypeOK
  <1>8. enqueued' \ enqueued = new
    BY <1>3, <1>5, <1>7
  <1> QED BY <1>3, <1>4, <1>5, <1>6, <1>8 DEF Log!Announce

LEMMA RecordingOccurs ==
    ASSUME RowInv, FollowInv, NEW l \in Lane, NEW e, Recording(l, e), EventOf[task[l]] = e,
           task[l] # NoJob
    PROVE  Log!Occur(e)
  <1>1. /\ member' = member \cup {e} /\ e \in Event /\ e \notin member
        /\ count' = count + 1 /\ (status = "none" <=> member = {})
        /\ firstSeen' = IF member = {} THEN Time[e] ELSE Earlier(firstSeen, Time[e])
        /\ lastSeen' = IF member = {} THEN Time[e] ELSE Later(lastSeen, Time[e])
    BY RecordingRow
  <1>2. firstSeen \in Nat /\ lastSeen \in Nat /\ Time[e] \in Nat
    BY <1>1, EventAssumption DEF RowInv, GroupingTypeOK
  <1>3. /\ firstSeen' = IF member = {} \/ Time[e] < firstSeen THEN Time[e] ELSE firstSeen
        /\ lastSeen' = IF member = {} \/ Time[e] > lastSeen THEN Time[e] ELSE lastSeen
    BY <1>1, <1>2 DEF Earlier, Later
  <1>4. status' = Log!After(status)
    BY DEF Recording, InsertIncident, UpdateIncident, Log!After
  <1>5. Log!Announce(e)
    BY RecordingAnnounces
  <1> QED BY <1>1, <1>3, <1>4, <1>5 DEF Log!Occur

LEMMA LogInit == Init => Log!Init
  BY DEF Init, Log!Init

LEMMA LogStep ==
    ASSUME RowInv, FollowInv, [Next]_vars
    PROVE  [Log!Next]_(Log!logVars)
  <1> USE DEF rowVars, eventVars, outVars, historyVars, Log!logVars
  <1>1. ASSUME NEW l \in Lane, Look(l) \/ Abort(l) PROVE UNCHANGED Log!logVars
    BY <1>1 DEF Look, Abort
  <1>2. ASSUME NEW l \in Lane, Commit(l) PROVE [Log!Next]_(Log!logVars)
    <2> DEFINE e == EventOf[task[l]]
    <2>1. task[l] # NoJob
      BY <1>2 DEF Commit
    <2>2. CASE Repeating(e)
      BY <2>2 DEF Repeating
    <2>3. CASE Recording(l, e)
      <3>1. e \in Event /\ Log!Occur(e)
        BY <2>1, <2>3, RecordingRow, RecordingOccurs
      <3> QED BY <3>1 DEF Log!Next
    <2> QED BY <1>2, <2>2, <2>3, CommitEffect
  <1>3. CASE Resolve
    BY <1>3 DEF Resolve, Log!Next, Log!Resolve
  <1>4. CASE Reopen
    BY <1>4 DEF Reopen, Log!Next, Log!Reopen
  <1>5. ASSUME NEW d \in DeployTime, Deploy(d) PROVE UNCHANGED Log!logVars
    BY <1>5 DEF Deploy
  <1>6. ASSUME NEW e \in Event, ExpireRaw(e) \/ MarkExpired(e) PROVE UNCHANGED Log!logVars
    BY <1>6 DEF ExpireRaw, MarkExpired
  <1>7. CASE UNCHANGED vars
    BY <1>7 DEF vars
  <1> QED BY <1>1, <1>2, <1>3, <1>4, <1>5, <1>6, <1>7 DEF Next

\* A lane's reads and its upsert are one atomic occurrence to the incident, and a redelivery
\* is none, for any number of lanes, jobs and users.
THEOREM OccurrencesAreAtomic == Spec => ImplementsLog
  <1>1. RowInv /\ FollowInv /\ [Next]_vars => [Log!Next]_(Log!logVars)
    BY LogStep
  <1> QED BY <1>1, LogInit, FollowInvariant, PTL DEF Spec, ImplementsLog, Log!Spec
=============================================================================
