-------------------------- MODULE BundleGenerationProofs --------------------------
(***************************************************************************)
(* The properties of BundleGeneration, for every number of lanes, events   *)
(* and incidents, every allowance and every retained limit.                *)
(*                                                                         *)
(* What the statements keep between them is TableInv: the source of an     *)
(* incident is the latest event seen, its row of bundle_generations        *)
(* carries the incident's own number, rows go with their incident, and an  *)
(* event seen without a row is older than the source.  A reservation then  *)
(* repeats the row of the source, adds one for an event not yet seen or    *)
(* numbers anew the row of an event of the source's own time               *)
(* (ReserveEffect), which is what the other results rest on.               *)
(* ObjectInv adds what a lane between its reservation and its putObject    *)
(* knows of the object, as long as nothing has disturbed the incident.     *)
(***************************************************************************)
EXTENDS BundleGeneration, FiniteSetTheorems, TLAPS

(***************************************************************************)
(* types                                                                   *)
(***************************************************************************)
LEMMA TypeInit == Init => BundleTypeOK
  BY DEF Init, BundleTypeOK, PC, Failure

LEMMA BusyFacts ==
    ASSUME BundleTypeOK, NEW l \in Lane, pc[l] # "idle"
    PROVE  /\ task[l] \in Job /\ task[l] # NoJob /\ Source(l) \in Event /\ Subject(l) \in Incident
           /\ Subject(l) = IncidentOf[Source(l)]
  BY JobAssumption, EventAssumption DEF BundleTypeOK, Source, Subject

LEMMA DeleteType ==
    ASSUME BundleTypeOK, NEW gone, DeleteIncidents(gone)
    PROVE  live' \subseteq Incident /\ number' \in [Event -> Nat]
  BY DEF BundleTypeOK, DeleteIncidents

LEMMA LeaveType ==
    ASSUME BundleTypeOK, NEW l \in Lane, Leave(l)
    PROVE  /\ pc' \in [Lane -> PC] /\ task' \in [Lane -> Job \cup {NoJob}]
           /\ \A k \in Lane : (pc'[k] = "idle") = (task'[k] = NoJob)
  BY DEF BundleTypeOK, Leave, PC

LEMMA ReserveType ==
    ASSUME BundleTypeOK, NEW e \in Event
    PROVE  NextSource(e) \in Event /\ NextGeneration(e) \in Nat
  <1>1. IncidentOf[e] \in Incident
    BY EventAssumption
  <1>2. generation[IncidentOf[e]] \in Nat /\ source[IncidentOf[e]] \in Event \cup {NoEvent}
    BY <1>1 DEF BundleTypeOK
  <1> QED BY <1>2 DEF NextSource, NextGeneration, HasNewerSource

LEMMA TypeStep == BundleTypeOK /\ [Next]_vars => BundleTypeOK'
  <1> SUFFICES ASSUME BundleTypeOK, [Next]_vars PROVE BundleTypeOK'
    OBVIOUS
  <1>0. disturbed' \subseteq Incident
    BY DEF Next, vars, BundleTypeOK
  <1> USE <1>0 DEF tableVars, laneVars
  <1>1. ASSUME NEW l \in Lane, NEW j \in Job, Begin(l, j) PROVE BundleTypeOK'
    <2>1. /\ UNCHANGED <<live, source, generation, failure, number, created, clock, object,
                         reproduce, reserved, pruned, cleaning, seen, behind>>
          /\ open' \subseteq open
      BY <1>1 DEF Begin
    <2>2. /\ pc' \in [Lane -> PC] /\ task' \in [Lane -> Job \cup {NoJob}]
          /\ recorded' \in [Lane -> BOOLEAN]
          /\ \A k \in Lane : (pc'[k] = "idle") = (task'[k] = NoJob)
      <3>1. CASE IncidentOf[EventOf[j]] \in live
        <4>1. /\ pc' = [pc EXCEPT ![l] = "checking"] /\ task' = [task EXCEPT ![l] = j]
              /\ recorded' = [recorded EXCEPT ![l] = EventOf[j] \in Rows]
          BY <1>1, <3>1 DEF Begin
        <4>2. (EventOf[j] \in Rows) \in BOOLEAN
          OBVIOUS
        <4>3. recorded' \in [Lane -> BOOLEAN]
          BY <4>1, <4>2 DEF BundleTypeOK
        <4>4. j # NoJob
          BY JobAssumption
        <4> QED BY <4>1, <4>3, <4>4 DEF BundleTypeOK, PC
      <3>2. CASE IncidentOf[EventOf[j]] \notin live
        BY <1>1, <3>2 DEF Begin, BundleTypeOK
      <3> QED BY <3>1, <3>2
    <2> QED BY <2>1, <2>2 DEF BundleTypeOK
  <1>2. ASSUME NEW l \in Lane, Allow(l) PROVE BundleTypeOK'
    BY <1>2 DEF Allow, BundleTypeOK, PC
  <1>3. ASSUME NEW l \in Lane, Refuse(l) PROVE BundleTypeOK'
    <2>1. failure' \in [Incident -> Failure]
      BY <1>3 DEF Refuse, MarkFailure, BundleTypeOK, Failure
    <2> QED BY <1>3, <2>1, LeaveType DEF Refuse, Complete, BundleTypeOK
  <1>4. ASSUME NEW l \in Lane, Reserve(l) PROVE BundleTypeOK'
    <2>1. pc[l] = "reserving"
      BY <1>4 DEF Reserve
    <2>2. /\ Source(l) \in Event /\ Subject(l) \in Incident /\ task[l] \in Job
          /\ NextSource(Source(l)) \in Event /\ NextGeneration(Source(l)) \in Nat
      BY <2>1, BusyFacts, ReserveType
    <2>3. /\ source' \in [Incident -> Event \cup {NoEvent}] /\ generation' \in [Incident -> Nat]
          /\ failure' \in [Incident -> Failure] /\ number' \in [Event -> Nat]
      BY <1>4, <2>2 DEF Reserve, BundleTypeOK, Failure
    <2>4. created' \in [Event -> Nat] /\ clock' \in Nat
      BY <1>4, <2>2 DEF Reserve, BundleTypeOK
    <2>5. reserved' \in [Lane -> Nat] /\ seen' \subseteq Event /\ behind' \subseteq Job
      BY <1>4, <2>2 DEF Reserve, BundleTypeOK
    <2>6. pc' \in [Lane -> PC] /\ \A k \in Lane : (pc'[k] = "idle") = (task'[k] = NoJob)
      BY <1>4, <2>1 DEF Reserve, BundleTypeOK, PC
    <2> QED BY <1>4, <2>3, <2>4, <2>5, <2>6 DEF Reserve, BundleTypeOK
  <1>5. ASSUME NEW l \in Lane, Store(l) PROVE BundleTypeOK'
    <2>1. Subject(l) \in Incident
      BY <1>5, BusyFacts DEF Store
    <2> QED BY <1>5, <2>1 DEF Store, BundleTypeOK, PC
  <1>6. ASSUME NEW l \in Lane, Prune(l) PROVE BundleTypeOK'
    <2>1. PICK kept \in SUBSET Owners :
             /\ DeleteIncidents(Owners \ kept)
             /\ pruned' = [pruned EXCEPT ![l] = Owners \ kept]
      BY <1>6 DEF Prune
    <2>2. live' \subseteq Incident /\ number' \in [Event -> Nat]
      BY <2>1, DeleteType
    <2>3. pruned' \in [Lane -> SUBSET Incident]
      BY <2>1 DEF BundleTypeOK, Owners
    <2> QED BY <1>6, <2>2, <2>3 DEF Prune, BundleTypeOK, PC
  <1>7. ASSUME NEW l \in Lane, Unlink(l) PROVE BundleTypeOK'
    BY <1>7 DEF Unlink, BundleTypeOK
  <1>8. ASSUME NEW l \in Lane, HandOff(l) PROVE BundleTypeOK'
    <2>1. Source(l) \in Event
      BY <1>8, BusyFacts DEF HandOff
    <2> QED BY <1>8, <2>1, LeaveType DEF HandOff, Complete, BundleTypeOK
  <1>9. ASSUME NEW l \in Lane, Missing(l) PROVE BundleTypeOK'
    BY <1>9, LeaveType DEF Missing, BundleTypeOK
  <1>10. ASSUME NEW l \in Lane, Fail(l) PROVE BundleTypeOK'
    <2>1. failure' \in [Incident -> Failure] /\ pruned' \in [Lane -> SUBSET Incident]
      BY <1>10 DEF Fail, MarkFailure, BundleTypeOK, Failure
    <2> QED BY <1>10, <2>1, LeaveType DEF Fail, BundleTypeOK
  <1>11. ASSUME NEW l \in Lane, Crash(l) PROVE BundleTypeOK'
    BY <1>11, LeaveType DEF Crash, BundleTypeOK
  <1>12. ASSUME NEW i \in Incident, ListExpired(i) PROVE BundleTypeOK'
    BY <1>12 DEF ListExpired, BundleTypeOK
  <1>13. ASSUME NEW i \in Incident, PurgeObjects(i) PROVE BundleTypeOK'
    BY <1>13 DEF PurgeObjects, BundleTypeOK
  <1>14. ASSUME NEW i \in Incident, DeleteExpired(i) PROVE BundleTypeOK'
    <2>1. live' \subseteq Incident /\ number' \in [Event -> Nat]
      BY <1>14, DeleteType DEF DeleteExpired
    <2> QED BY <1>14, <2>1 DEF DeleteExpired, BundleTypeOK
  <1>15. CASE UNCHANGED vars
    BY <1>15 DEF vars, BundleTypeOK
  <1> QED BY <1>1, <1>2, <1>3, <1>4, <1>5, <1>6, <1>7, <1>8, <1>9, <1>10, <1>11, <1>12,
             <1>13, <1>14, <1>15 DEF Next, Step

\* The rows, the objects and the lanes keep their types through every build, pruning,
\* clean-up and failure.
THEOREM BundleTypes == Spec => []BundleTypeOK
  BY TypeInit, TypeStep, PTL DEF Spec

(***************************************************************************)
(* the rows of incidents and of bundle_generations                         *)
(***************************************************************************)
RowsAreLive == \A e \in Rows : IncidentOf[e] \in live /\ e \in seen

SourcesAreRows ==
    \A i \in live :
      /\ source[i] = NoEvent => generation[i] = 0 /\ \A e \in Rows : IncidentOf[e] # i
      /\ source[i] # NoEvent => /\ IncidentOf[source[i]] = i /\ source[i] \in Rows
                                /\ number[source[i]] = generation[i]

NumbersAreBounded == \A e \in Rows : number[e] <= generation[IncidentOf[e]]

\* an event without a row was built when a later one was the source
OlderHaveNoRow ==
    \A e \in seen \ Rows : IncidentOf[e] \in live => Time[e] < Time[source[IncidentOf[e]]]

TableInv ==
    RowsAreLive /\ SourcesAreRows /\ NumbersAreBounded /\ SourceIsLatest /\ OlderHaveNoRow

\* A reservation repeats the row of the source, adds one for the event of the build, or
\* numbers the row of that event anew, when another of its time is the source.
Repeated(l) ==
    LET e == Source(l)
        s == source[Subject(l)]
    IN /\ UNCHANGED <<source, generation, number>>
       /\ s # NoEvent
       /\ s = e \/ Time[e] < Time[s]

Numbered(l) ==
    LET e == Source(l)
        i == Subject(l)
    IN /\ source' = [source EXCEPT ![i] = e]
       /\ generation' = [generation EXCEPT ![i] = generation[i] + 1]
       /\ number' = [number EXCEPT ![e] = generation[i] + 1]

Added(l) ==
    LET s == source[Subject(l)]
    IN /\ Source(l) \notin seen
       /\ s # NoEvent => Time[s] <= Time[Source(l)]
       /\ Numbered(l)

Renumbered(l) ==
    LET s == source[Subject(l)]
    IN /\ Source(l) \in Rows
       /\ s # NoEvent /\ s # Source(l) /\ Time[s] = Time[Source(l)]
       /\ Numbered(l)

LEMMA ReserveEffect ==
    ASSUME BundleTypeOK, TableInv, NEW l \in Lane, Reserve(l)
    PROVE  /\ Source(l) \in Event /\ Subject(l) \in live /\ IncidentOf[Source(l)] = Subject(l)
           /\ live' = live /\ seen' = seen \cup {Source(l)}
           /\ Repeated(l) \/ Added(l) \/ Renumbered(l)
  <1> DEFINE e == Source(l)
             i == Subject(l)
  <1>1. /\ e \in Event /\ i \in live /\ IncidentOf[e] = i /\ i \in Incident
        /\ live' = live /\ seen' = seen \cup {e}
    BY BusyFacts DEF Reserve
  <1>2. /\ source' = [source EXCEPT ![i] = NextSource(e)]
        /\ generation' = [generation EXCEPT ![i] = NextGeneration(e)]
        /\ number' = [number EXCEPT ![NextSource(e)] = NextGeneration(e)]
    BY DEF Reserve
  <1>3. /\ source \in [Incident -> Event \cup {NoEvent}] /\ generation \in [Incident -> Nat]
        /\ number \in [Event -> Nat]
    BY DEF BundleTypeOK
  <1>4. source[i] # NoEvent => /\ IncidentOf[source[i]] = i /\ source[i] \in Rows
                               /\ number[source[i]] = generation[i]
    BY <1>1 DEF TableInv, SourcesAreRows
  <1>5. Time[e] \in Nat /\ (source[i] # NoEvent => source[i] \in Event /\ Time[source[i]] \in Nat)
    BY <1>1, <1>3, EventAssumption
  <1>6. CASE HasNewerSource(e) \/ source[i] = e
    <2>1. source[i] # NoEvent /\ (source[i] = e \/ Time[e] < Time[source[i]])
      BY <1>1, <1>5, <1>6, EventAssumption DEF HasNewerSource
    <2>2. NextSource(e) = source[i] /\ NextGeneration(e) = generation[i]
      BY <1>1, <1>6 DEF NextSource, NextGeneration
    <2>3. UNCHANGED <<source, generation, number>>
      BY <1>2, <1>3, <1>4, <2>1, <2>2
    <2> QED BY <1>1, <2>1, <2>3 DEF Repeated
  <1>7. CASE ~ HasNewerSource(e) /\ source[i] # e
    <2>1. NextSource(e) = e /\ NextGeneration(e) = generation[i] + 1
      BY <1>1, <1>7 DEF NextSource, NextGeneration
    <2>2. source[i] # NoEvent => Time[source[i]] <= Time[e]
      BY <1>1, <1>5, <1>7 DEF HasNewerSource
    <2>3. Numbered(l)
      BY <1>2, <2>1 DEF Numbered
    <2>4. CASE e \notin seen
      BY <1>1, <2>2, <2>3, <2>4 DEF Added
    <2>5. CASE e \in seen
      <3>1. source[i] \in Rows /\ Time[e] <= Time[source[i]]
        BY <1>1, <2>5 DEF TableInv, SourceIsLatest
      <3>2. source[i] # NoEvent /\ Time[source[i]] = Time[e]
        BY <1>5, <2>2, <3>1, EventAssumption DEF Rows
      <3>3. e \in Rows
        BY <1>1, <1>5, <2>5, <3>2 DEF TableInv, OlderHaveNoRow
      <3> QED BY <1>1, <1>7, <2>3, <3>2, <3>3 DEF Renumbered
    <2> QED BY <2>4, <2>5
  <1> QED BY <1>1, <1>6, <1>7

\* Only a first build of its event adds a row.
LEMMA ReservedRows ==
    ASSUME BundleTypeOK, TableInv, NEW l \in Lane, Reserve(l)
    PROVE  /\ \/ Repeated(l) /\ Rows' = Rows
              \/ Renumbered(l) /\ Rows' = Rows
              \/ Added(l) /\ Source(l) \notin Rows /\ Rows' = Rows \cup {Source(l)}
           /\ Repeated(l) \/ Numbered(l)
  <1>1. Source(l) \in Event /\ Subject(l) \in live /\ Rows \subseteq Event
    BY ReserveEffect DEF Rows
  <1>2. number \in [Event -> Nat] /\ generation[Subject(l)] \in Nat
    BY <1>1 DEF BundleTypeOK
  <1>3. ASSUME Numbered(l) PROVE Rows' = Rows \cup {Source(l)}
    BY <1>1, <1>2, <1>3 DEF Numbered, Rows
  <1>4. CASE Repeated(l)
    BY <1>4 DEF Repeated, Rows
  <1>5. CASE Renumbered(l)
    BY <1>3, <1>5 DEF Renumbered
  <1>6. CASE Added(l)
    BY <1>3, <1>6 DEF Added, TableInv, RowsAreLive
  <1> QED BY <1>4, <1>5, <1>6, ReserveEffect

\* The steps of the tables, seen by the columns the properties read.
Deleting ==
    /\ \E gone \in SUBSET Incident : DeleteIncidents(gone)
    /\ UNCHANGED <<source, generation, seen>>

Steady == UNCHANGED <<live, source, generation, number, seen>>

LEMMA TableSteps ==
    ASSUME [Next]_vars
    PROVE  Steady \/ Deleting \/ \E l \in Lane : Reserve(l)
  <1> USE DEF tableVars, laneVars
  <1>1. ASSUME NEW l \in Lane, NEW j \in Job, Begin(l, j) PROVE Steady
    BY <1>1 DEF Begin, Steady
  <1>2. ASSUME NEW l \in Lane, Allow(l) \/ Refuse(l) \/ Store(l) PROVE Steady
    BY <1>2 DEF Allow, Refuse, Store, Steady
  <1>3. ASSUME NEW l \in Lane, Unlink(l) \/ HandOff(l) \/ Missing(l) PROVE Steady
    BY <1>3 DEF Unlink, HandOff, Missing, Steady
  <1>4. ASSUME NEW l \in Lane, Fail(l) \/ Crash(l) PROVE Steady
    BY <1>4 DEF Fail, Crash, Steady
  <1>5. ASSUME NEW i \in Incident, ListExpired(i) \/ PurgeObjects(i) PROVE Steady
    BY <1>5 DEF ListExpired, PurgeObjects, Steady
  <1>6. ASSUME NEW l \in Lane, Prune(l) PROVE Deleting
    <2>1. PICK kept \in SUBSET Owners : DeleteIncidents(Owners \ kept)
      BY <1>6 DEF Prune
    <2>2. Owners \ kept \in SUBSET Incident
      BY DEF Owners
    <2> QED BY <1>6, <2>1, <2>2 DEF Prune, Deleting
  <1>7. ASSUME NEW i \in Incident, DeleteExpired(i) PROVE Deleting
    <2>1. {i} \in SUBSET Incident
      OBVIOUS
    <2> QED BY <1>7, <2>1 DEF DeleteExpired, Deleting
  <1>8. CASE UNCHANGED vars
    BY <1>8 DEF vars, Steady
  <1> QED BY <1>1, <1>2, <1>3, <1>4, <1>5, <1>6, <1>7, <1>8 DEF Next, Step

\* A new number leaves every other row alone, and its event becomes the source.
LEMMA NumberedStep ==
    ASSUME BundleTypeOK, TableInv, NEW l \in Lane, Source(l) \in Event, Subject(l) \in live,
           IncidentOf[Source(l)] = Subject(l), live' = live, seen' = seen \cup {Source(l)},
           source[Subject(l)] # NoEvent => Time[source[Subject(l)]] <= Time[Source(l)],
           Numbered(l)
    PROVE  TableInv' /\ Rows' = Rows \cup {Source(l)}
  <1> DEFINE e == Source(l)
             i == Subject(l)
  <1>t. /\ source \in [Incident -> Event \cup {NoEvent}] /\ generation \in [Incident -> Nat]
        /\ number \in [Event -> Nat] /\ live \subseteq Incident /\ seen \subseteq Event
        /\ \A f \in Event : Time[f] \in Nat /\ IncidentOf[f] \in Incident
    BY EventAssumption DEF BundleTypeOK
  <1>1. /\ source'[i] = e /\ \A k \in Incident \ {i} : source'[k] = source[k]
        /\ generation'[i] = generation[i] + 1
        /\ \A k \in Incident \ {i} : generation'[k] = generation[k]
        /\ number'[e] = generation[i] + 1 /\ \A f \in Event \ {e} : number'[f] = number[f]
    BY <1>t DEF Numbered
  <1>2. Rows' = Rows \cup {e} /\ Rows \subseteq Event /\ generation[i] \in Nat /\ e \in Event
    BY <1>t, <1>1 DEF Rows
  <1>3. RowsAreLive'
    BY <1>2 DEF TableInv, RowsAreLive
  <1>4. SourcesAreRows'
    <2> SUFFICES ASSUME NEW k \in live
                 PROVE  /\ source'[k] = NoEvent =>
                             generation'[k] = 0 /\ \A f \in Rows' : IncidentOf[f] # k
                        /\ source'[k] # NoEvent =>
                             /\ IncidentOf[source'[k]] = k /\ source'[k] \in Rows'
                             /\ number'[source'[k]] = generation'[k]
      BY DEF SourcesAreRows
    <2>1. CASE k = i
      BY <1>1, <1>2, <2>1, EventAssumption
    <2>2. CASE k # i
      <3>1. source'[k] = source[k] /\ generation'[k] = generation[k]
        BY <1>t, <1>1, <2>2
      <3>2. CASE source[k] = NoEvent
        BY <1>2, <2>2, <3>1, <3>2 DEF TableInv, SourcesAreRows
      <3>3. CASE source[k] # NoEvent
        <4>1. /\ IncidentOf[source[k]] = k /\ source[k] \in Rows
              /\ number[source[k]] = generation[k]
          BY <3>3 DEF TableInv, SourcesAreRows
        <4>2. source[k] # e /\ source[k] \in Event
          BY <1>2, <2>2, <4>1
        <4> QED BY <1>1, <1>2, <3>1, <3>3, <4>1, <4>2
      <3> QED BY <3>2, <3>3
    <2> QED BY <2>1, <2>2
  <1>5. NumbersAreBounded'
    <2> SUFFICES ASSUME NEW f \in Rows' PROVE number'[f] <= generation'[IncidentOf[f]]
      BY DEF NumbersAreBounded
    <2>1. CASE f = e
      BY <1>1, <1>2, <2>1
    <2>2. CASE f # e
      <3>1. /\ f \in Rows /\ f \in Event /\ number'[f] = number[f] /\ number[f] \in Nat
            /\ IncidentOf[f] \in Incident /\ generation[IncidentOf[f]] \in Nat
        BY <1>t, <1>1, <1>2, <2>2
      <3>2. number[f] <= generation[IncidentOf[f]]
        BY <3>1 DEF TableInv, NumbersAreBounded
      <3>3. generation[IncidentOf[f]] <= generation'[IncidentOf[f]]
        BY <1>1, <1>2, <3>1
      <3>4. generation'[IncidentOf[f]] \in Nat
        BY <1>1, <1>2, <3>1
      <3> QED BY <3>1, <3>2, <3>3, <3>4
    <2> QED BY <2>1, <2>2
  \* the time of the source does not go back
  <1>6. ASSUME NEW f \in seen, f # e, IncidentOf[f] \in live, NEW s \in Event,
               s = source[IncidentOf[f]], s \in Rows
        PROVE  /\ source'[IncidentOf[f]] \in Rows'
               /\ Time[f] <= Time[s] => Time[f] <= Time[source'[IncidentOf[f]]]
               /\ Time[f] < Time[s] => Time[f] < Time[source'[IncidentOf[f]]]
    <2>1. CASE IncidentOf[f] = i
      <3>1. source[i] # NoEvent
        BY <1>6, <2>1, EventAssumption
      <3>2. Time[s] <= Time[e] /\ Time[s] \in Nat /\ Time[e] \in Nat /\ Time[f] \in Nat
        BY <1>t, <1>2, <1>6, <2>1, <3>1
      <3> QED BY <1>1, <1>2, <2>1, <3>2
    <2>2. CASE IncidentOf[f] # i
      BY <1>t, <1>1, <1>2, <1>6, <2>2
    <2> QED BY <2>1, <2>2
  <1>7. ASSUME NEW f \in seen, IncidentOf[f] \in live
        PROVE  source[IncidentOf[f]] \in Rows /\ Time[f] <= Time[source[IncidentOf[f]]]
    BY <1>7 DEF TableInv, SourceIsLatest
  <1>8. SourceIsLatest'
    <2> SUFFICES ASSUME NEW f \in seen', IncidentOf[f] \in live'
                 PROVE  LET s == source'[IncidentOf[f]] IN s \in Rows' /\ Time[f] <= Time[s]
      BY DEF SourceIsLatest
    <2>1. CASE f = e
      BY <1>t, <1>1, <1>2, <2>1
    <2>2. CASE f # e
      <3>1. f \in seen /\ IncidentOf[f] \in live
        BY <2>2
      <3> QED BY <1>2, <1>6, <1>7, <2>2, <3>1
    <2> QED BY <2>1, <2>2
  <1>9. OlderHaveNoRow'
    <2> SUFFICES ASSUME NEW f \in seen' \ Rows', IncidentOf[f] \in live'
                 PROVE  Time[f] < Time[source'[IncidentOf[f]]]
      BY DEF OlderHaveNoRow
    <2>1. f \in seen \ Rows /\ f # e /\ IncidentOf[f] \in live
      BY <1>2
    <2>2. Time[f] < Time[source[IncidentOf[f]]]
      BY <2>1 DEF TableInv, OlderHaveNoRow
    <2> QED BY <1>2, <1>6, <1>7, <2>1, <2>2
  <1> QED BY <1>2, <1>3, <1>4, <1>5, <1>8, <1>9 DEF TableInv

LEMMA TableStep ==
    ASSUME BundleTypeOK, TableInv, [Next]_vars
    PROVE  TableInv'
  <1>t. /\ source \in [Incident -> Event \cup {NoEvent}] /\ generation \in [Incident -> Nat]
        /\ number \in [Event -> Nat] /\ live \subseteq Incident /\ seen \subseteq Event
        /\ \A e \in Event : Time[e] \in Nat /\ IncidentOf[e] \in Incident
    BY EventAssumption DEF BundleTypeOK
  <1>1. CASE Steady
    BY <1>1 DEF Steady, TableInv, RowsAreLive, SourcesAreRows, NumbersAreBounded,
       SourceIsLatest, OlderHaveNoRow, Rows
  <1>2. CASE Deleting
    <2>1. PICK gone \in SUBSET Incident : DeleteIncidents(gone)
      BY <1>2 DEF Deleting
    <2>2. /\ live' = live \ gone /\ UNCHANGED <<source, generation, seen>>
          /\ \A e \in Event : number'[e] = IF IncidentOf[e] \in gone THEN 0 ELSE number[e]
      BY <1>2, <2>1 DEF Deleting, DeleteIncidents
    <2>3. \A e \in Event : e \in Rows' <=> e \in Rows /\ IncidentOf[e] \notin gone
      BY <1>t, <2>2 DEF Rows
    <2>4. Rows \subseteq Event /\ Rows' \subseteq Event
      BY DEF Rows
    <2>5. RowsAreLive'
      BY <2>2, <2>3, <2>4 DEF TableInv, RowsAreLive
    <2>6. SourcesAreRows'
      BY <1>t, <2>2, <2>3, <2>4 DEF TableInv, SourcesAreRows
    <2>7. NumbersAreBounded'
      BY <1>t, <2>2, <2>3, <2>4 DEF TableInv, NumbersAreBounded
    <2>8. SourceIsLatest'
      <3> SUFFICES ASSUME NEW e \in seen, IncidentOf[e] \in live'
                   PROVE  LET s == source[IncidentOf[e]] IN s \in Rows' /\ Time[e] <= Time[s]
        BY <2>2 DEF SourceIsLatest
      <3> DEFINE s == source[IncidentOf[e]]
      <3>1. IncidentOf[e] \in live /\ IncidentOf[e] \notin gone
        BY <2>2
      <3>2. s \in Rows /\ Time[e] <= Time[s]
        BY <3>1 DEF TableInv, SourceIsLatest
      <3>3. s # NoEvent
        BY <2>4, <3>2, EventAssumption
      <3>4. IncidentOf[s] = IncidentOf[e]
        BY <3>1, <3>3 DEF TableInv, SourcesAreRows
      <3> QED BY <2>3, <2>4, <3>1, <3>2, <3>4
    <2>9. OlderHaveNoRow'
      BY <1>t, <2>2, <2>3 DEF TableInv, OlderHaveNoRow
    <2> QED BY <2>5, <2>6, <2>7, <2>8, <2>9 DEF TableInv
  <1>3. ASSUME NEW l \in Lane, Reserve(l) PROVE TableInv'
    <2> DEFINE e == Source(l)
               s == source[Subject(l)]
    <2>1. /\ e \in Event /\ Subject(l) \in live /\ IncidentOf[e] = Subject(l)
          /\ live' = live /\ seen' = seen \cup {e}
          /\ Repeated(l) \/ Added(l) \/ Renumbered(l)
      BY <1>3, ReserveEffect
    <2>2. CASE Repeated(l)
      <3>1. UNCHANGED <<source, generation, number>> /\ Rows' = Rows
        BY <2>2 DEF Repeated, Rows
      <3>2. RowsAreLive' /\ SourcesAreRows' /\ NumbersAreBounded'
        BY <2>1, <3>1 DEF TableInv, RowsAreLive, SourcesAreRows, NumbersAreBounded
      <3>3. s # NoEvent /\ (s = e \/ Time[e] < Time[s])
        BY <2>2 DEF Repeated
      <3>4. s \in Rows /\ s \in Event
        BY <2>1, <3>3 DEF TableInv, SourcesAreRows, Rows
      <3>5. Time[e] <= Time[s] /\ (e \notin Rows => Time[e] < Time[s])
        BY <1>t, <2>1, <3>3, <3>4
      <3>6. SourceIsLatest' /\ OlderHaveNoRow'
        BY <2>1, <3>1, <3>4, <3>5 DEF TableInv, SourceIsLatest, OlderHaveNoRow
      <3> QED BY <3>2, <3>6 DEF TableInv
    <2>3. CASE Added(l) \/ Renumbered(l)
      <3>1. Numbered(l)
        BY <2>3 DEF Added, Renumbered
      <3>2. s # NoEvent => Time[s] <= Time[e]
        BY <1>t, <2>1, <2>3 DEF Added, Renumbered
      <3> QED BY <2>1, <3>1, <3>2, NumberedStep
    <2> QED BY <2>1, <2>2, <2>3
  <1> QED BY <1>1, <1>2, <1>3, TableSteps

LEMMA TableInit == Init => TableInv
  <1> SUFFICES ASSUME Init PROVE TableInv
    OBVIOUS
  <1>1. /\ Rows = {} /\ seen = {} /\ live = Incident
        /\ \A i \in Incident : source[i] = NoEvent /\ generation[i] = 0
    BY DEF Init, Rows
  <1> QED BY <1>1 DEF TableInv, RowsAreLive, SourcesAreRows, NumbersAreBounded, SourceIsLatest,
     OlderHaveNoRow

LEMMA TableInvariant == Spec => [](BundleTypeOK /\ TableInv)
  <1>1. BundleTypeOK /\ TableInv /\ [Next]_vars => (BundleTypeOK /\ TableInv)'
    BY TypeStep, TableStep
  <1> QED BY <1>1, TypeInit, TableInit, PTL DEF Spec

\* A bundle is reserved from the latest event seen, in whatever order the builds run.
THEOREM LatestSourceWins == Spec => []SourceIsLatest
  <1>1. TableInv => SourceIsLatest
    BY DEF TableInv
  <1> QED BY <1>1, TableInvariant, PTL

(***************************************************************************)
(* the lanes                                                               *)
(***************************************************************************)
\* A job is built by one lane at a time, and is open while it is; what the lane has read
\* of the row of its event is true as long as the incident exists.
ReadsTrue(l) ==
    pc[l] \in {"checking", "reserving"} /\ recorded[l] /\ Subject(l) \in live
      => Source(l) \in Rows

LaneInv ==
    /\ \A l, k \in Lane : task[l] # NoJob /\ task[l] = task[k] => l = k
    /\ \A l \in Lane : task[l] # NoJob => task[l] \in open
    /\ \A l \in Lane : ReadsTrue(l)

BuildInv == BundleTypeOK /\ TableInv /\ LaneInv

\* Rows go only with their incident, and come only with a reservation.
LEMMA RowsStep ==
    ASSUME BundleTypeOK, TableInv, [Next]_vars
    PROVE  /\ live' \subseteq live /\ seen \subseteq seen'
           /\ \A e \in Rows : IncidentOf[e] \in live' => e \in Rows'
           /\ \A e \in Rows' : e \notin Rows => \E l \in Lane : Reserve(l) /\ Added(l) /\ e = Source(l)
           /\ \A e \in seen' : e \notin seen => \E l \in Lane : Reserve(l) /\ e = Source(l)
  <1>1. CASE Steady
    BY <1>1 DEF Steady, Rows
  <1>2. CASE Deleting
    <2>1. PICK gone \in SUBSET Incident : DeleteIncidents(gone)
      BY <1>2 DEF Deleting
    <2>2. /\ live' = live \ gone /\ seen' = seen
          /\ \A e \in Event : number'[e] = IF IncidentOf[e] \in gone THEN 0 ELSE number[e]
      BY <1>2, <2>1 DEF Deleting, DeleteIncidents
    <2> QED BY <2>2 DEF Rows
  <1>3. ASSUME NEW l \in Lane, Reserve(l)
        PROVE  /\ live' \subseteq live /\ seen \subseteq seen'
               /\ \A e \in Rows : e \in Rows'
               /\ \A e \in Rows' : e \notin Rows => Added(l) /\ e = Source(l)
               /\ \A e \in seen' : e \notin seen => e = Source(l)
    BY <1>3, ReserveEffect, ReservedRows
  <1> QED BY <1>1, <1>2, <1>3, TableSteps

\* The steps of the lanes, seen by their jobs.
Idling == UNCHANGED <<pc, task, recorded, open, behind, reproduce>>

Advancing(l) ==
    /\ pc[l] # "idle"
    /\ \/ Allow(l) /\ pc' = [pc EXCEPT ![l] = "reserving"] /\ behind' = behind
       \/ Reserve(l) /\ pc' = [pc EXCEPT ![l] = "storing"]
       \/ Store(l) /\ pc' = [pc EXCEPT ![l] = "pruning"] /\ behind' = behind
       \/ Prune(l) /\ pc' = [pc EXCEPT ![l] = "unlinking"] /\ behind' = behind \ {task[l]}
    /\ UNCHANGED <<task, recorded, open, reproduce>>

Leaving(l) == pc[l] # "idle" /\ Leave(l) /\ UNCHANGED <<recorded, open, behind, reproduce>>

Completing(l) == (Refuse(l) \/ HandOff(l)) /\ Complete(l) /\ UNCHANGED <<recorded, behind>>

LEMMA LaneSteps ==
    ASSUME [Next]_vars
    PROVE  \/ Idling
           \/ \E l \in Lane, j \in Job : Begin(l, j)
           \/ \E l \in Lane : Advancing(l) \/ Leaving(l) \/ Completing(l)
  <1> USE DEF tableVars, laneVars
  <1>1. ASSUME NEW l \in Lane, Allow(l) \/ Reserve(l) \/ Store(l) \/ Prune(l) PROVE Advancing(l)
    <2>1. /\ pc[l] # "idle" /\ UNCHANGED <<task, recorded, open, reproduce>>
      BY <1>1 DEF Allow, Reserve, Store, Prune
    <2> QED BY <1>1, <2>1 DEF Advancing, Allow, Reserve, Store, Prune
  <1>2. ASSUME NEW l \in Lane, Missing(l) \/ Fail(l) \/ Crash(l) PROVE Leaving(l)
    BY <1>2 DEF Leaving, Missing, Fail, Crash
  <1>3. ASSUME NEW l \in Lane, Refuse(l) \/ HandOff(l) PROVE Completing(l)
    BY <1>3 DEF Completing, Refuse, HandOff
  <1>4. ASSUME NEW l \in Lane, Unlink(l) PROVE Idling
    BY <1>4 DEF Unlink, Idling
  <1>5. ASSUME NEW i \in Incident, ListExpired(i) \/ PurgeObjects(i) \/ DeleteExpired(i) PROVE Idling
    BY <1>5 DEF ListExpired, PurgeObjects, DeleteExpired, Idling
  <1>6. CASE UNCHANGED vars
    BY <1>6 DEF vars, Idling
  <1> QED BY <1>1, <1>2, <1>3, <1>4, <1>5, <1>6 DEF Next, Step

\* A build that begins: the row of its event is read, and its incident exists.
BeginsOn(l, j) ==
    /\ j \in open /\ j # NoJob /\ \A k \in Lane : task[k] # j
    /\ pc[l] = "idle" /\ IncidentOf[EventOf[j]] \in live
    /\ pc' = [pc EXCEPT ![l] = "checking"]
    /\ task' = [task EXCEPT ![l] = j]
    /\ recorded' = [recorded EXCEPT ![l] = EventOf[j] \in Rows]
    /\ open' = open

LEMMA BeginEffect ==
    ASSUME NEW l \in Lane, NEW j \in Job, Begin(l, j)
    PROVE  /\ UNCHANGED <<live, number, seen, behind, reproduce>>
           /\ \/ BeginsOn(l, j)
              \/ /\ IncidentOf[EventOf[j]] \notin live
                 /\ open' = open \ {j} /\ (\A k \in Lane : task[k] # j)
                 /\ UNCHANGED <<pc, task, recorded>>
  <1>0. pc[l] = "idle" /\ j \in open /\ j # NoJob /\ \A k \in Lane : task[k] # j
    BY JobAssumption, Zenon DEF Begin
  <1>1. UNCHANGED <<live, number, seen, behind, reproduce>>
    BY DEF Begin, tableVars
  <1>2. CASE IncidentOf[EventOf[j]] \in live
    <2>1. /\ pc' = [pc EXCEPT ![l] = "checking"] /\ task' = [task EXCEPT ![l] = j]
          /\ recorded' = [recorded EXCEPT ![l] = EventOf[j] \in Rows]
          /\ open' = open
      BY <1>2, Zenon DEF Begin
    <2>2. BeginsOn(l, j)
      BY <1>0, <1>2, <2>1, Zenon DEF BeginsOn
    <2> QED BY <1>1, <2>2
  <1>3. CASE IncidentOf[EventOf[j]] \notin live
    <2>1. open' = open \ {j} /\ UNCHANGED <<pc, task, recorded>>
      BY <1>3, Zenon DEF Begin
    <2> QED BY <1>0, <1>1, <1>3, <2>1, Zenon
  <1> QED BY <1>1, <1>2, <1>3

\* The numbers of a step, and the reservations of it.
NumbersMove ==
    /\ \A e \in Rows' : number'[e] # number[e] =>
         /\ e \notin Rows \/ Ties(e) # {}
         /\ \A f \in EventsOf(IncidentOf[e]) : number[f] < number'[e]
    /\ \A l \in Lane : pc[l] = "reserving" /\ pc'[l] = "storing" /\ Source(l) \in seen =>
         /\ Rows' = Rows
         /\ generation' = generation \/ Ties(Source(l)) # {}

LEMMA NumbersStep ==
    ASSUME BundleTypeOK, TableInv, [Next]_vars
    PROVE  NumbersMove
  <1>t. /\ number \in [Event -> Nat] /\ generation \in [Incident -> Nat] /\ Rows' \subseteq Event
        /\ live \subseteq Incident /\ pc \in [Lane -> PC]
    BY DEF BundleTypeOK, Rows
  <1>1. ASSUME NEW l \in Lane, pc[l] = "reserving", pc'[l] = "storing" PROVE Reserve(l)
    <2>1. ASSUME NEW k \in Lane, NEW j \in Job, Begin(k, j) PROVE FALSE
      <3>1. pc' = pc \/ (pc[k] = "idle" /\ pc' = [pc EXCEPT ![k] = "checking"])
        BY <2>1, BeginEffect DEF BeginsOn
      <3> QED BY <1>t, <1>1, <3>1
    <2>2. ASSUME NEW k \in Lane, Leaving(k) \/ Completing(k) PROVE FALSE
      <3>1. pc' = [pc EXCEPT ![k] = "idle"]
        BY <2>2 DEF Leaving, Completing, Complete, Leave
      <3> QED BY <1>t, <1>1, <3>1
    <2>3. ASSUME NEW k \in Lane, Advancing(k) PROVE Reserve(l)
      <3>1. pc' = [pc EXCEPT ![k] = pc'[k]]
        BY <1>t, <2>3 DEF Advancing
      <3>2. k = l
        BY <1>t, <1>1, <3>1
      <3> QED BY <1>t, <1>1, <2>3, <3>2 DEF Advancing, Store, Prune
    <2> QED BY <1>1, <2>1, <2>2, <2>3, LaneSteps DEF Idling
  <1>2. CASE Steady \/ Deleting
    <2>1. \A e \in Rows' : number'[e] = number[e]
      BY <1>2 DEF Steady, Deleting, DeleteIncidents, Rows
    <2>2. ASSUME NEW l \in Lane, Reserve(l), Source(l) \in seen
          PROVE  Rows' = Rows /\ generation' = generation
      <3>1. live' = live /\ generation' = generation
        BY <1>2, <2>2 DEF Reserve, Steady, Deleting
      <3>2. Source(l) \in seen /\ ~ Added(l)
        BY <2>2 DEF Added
      <3> QED BY <2>2, <3>1, <3>2, ReservedRows
    <2> QED BY <1>1, <2>1, <2>2 DEF NumbersMove
  <1>3. ASSUME NEW l \in Lane, Reserve(l) PROVE NumbersMove
    <2> DEFINE e == Source(l)
               i == Subject(l)
               s == source[Subject(l)]
    <2>1. /\ e \in Event /\ i \in live /\ i \in Incident /\ IncidentOf[e] = i
      BY <1>t, <1>3, ReserveEffect
    <2>2. \A k \in Lane : pc[k] = "reserving" /\ pc'[k] = "storing" => k = l
      BY <1>t, <1>3 DEF Reserve
    <2>3. CASE Repeated(l)
      <3>1. UNCHANGED <<generation, number>> /\ Rows' = Rows
        BY <2>3 DEF Repeated, Rows
      <3> QED BY <3>1 DEF NumbersMove
    <2>4. ASSUME Numbered(l) PROVE
            /\ \A f \in Event \ {e} : number'[f] = number[f]
            /\ \A f \in EventsOf(i) : number[f] < number'[e]
      <3>1. number'[e] = generation[i] + 1 /\ \A f \in Event \ {e} : number'[f] = number[f]
        BY <1>t, <2>1, <2>4 DEF Numbered
      <3>2. ASSUME NEW f \in EventsOf(i) PROVE number[f] <= generation[i]
        BY <1>t, <2>1, <3>2 DEF TableInv, NumbersAreBounded, Rows, EventsOf
      <3>3. \A f \in EventsOf(i) : number[f] \in Nat
        BY <1>t DEF EventsOf
      <3>4. generation[i] \in Nat
        BY <1>t, <2>1
      <3> QED BY <3>1, <3>2, <3>3, <3>4
    <2>5. CASE Added(l)
      <3>1. Numbered(l) /\ e \notin Rows /\ e \notin seen
        BY <2>5 DEF Added, TableInv, RowsAreLive
      <3> QED BY <1>t, <2>1, <2>2, <2>4, <3>1 DEF NumbersMove
    <2>6. CASE Renumbered(l)
      <3>1. Numbered(l) /\ s # NoEvent /\ s # e /\ Time[s] = Time[e] /\ Rows' = Rows \cup {e}
            /\ e \in Rows
        BY <1>3, <2>6, ReservedRows DEF Renumbered, Added
      <3>2. s \in Event /\ IncidentOf[s] = i /\ s \in seen
        BY <2>1, <3>1 DEF TableInv, SourcesAreRows, RowsAreLive, Rows
      <3>3. s \in Ties(e)
        BY <2>1, <3>1, <3>2 DEF Ties, EventsOf
      <3> QED BY <1>t, <2>1, <2>2, <2>4, <3>1, <3>3 DEF NumbersMove
    <2> QED BY <1>3, <2>3, <2>5, <2>6, ReserveEffect
  <1> QED BY <1>2, <1>3, TableSteps

\* Repeated builds take no number and are not charged again, and a recorded number stays
\* with its row, for every number of builds, of failures and of events; events of one
\* instant are among them, and are all that is ever numbered anew.
THEOREM RepeatsKeepTheirNumbers == Spec => RepeatsTakeNoNumber
  <1>1. BundleTypeOK /\ TableInv /\ [Next]_vars => [NumbersMove]_vars
    BY NumbersStep
  <1>2. Spec => [][NumbersMove]_vars
    BY <1>1, TableInvariant, PTL DEF Spec
  <1> QED BY <1>2 DEF RepeatsTakeNoNumber, NumbersMove

LEMMA LaneStep ==
    ASSUME BuildInv, [Next]_vars
    PROVE  LaneInv'
  <1>t. /\ pc \in [Lane -> PC] /\ task \in [Lane -> Job \cup {NoJob}]
        /\ recorded \in [Lane -> BOOLEAN]
        /\ \A l \in Lane : (pc[l] = "idle") = (task[l] = NoJob)
    BY DEF BuildInv, BundleTypeOK
  <1>r. /\ live' \subseteq live
        /\ \A e \in Rows : IncidentOf[e] \in live' => e \in Rows'
    BY RowsStep DEF BuildInv
  <1>i. /\ \A l, k \in Lane : task[l] # NoJob /\ task[l] = task[k] => l = k
        /\ \A l \in Lane : task[l] # NoJob => task[l] \in open
        /\ \A l \in Lane : ReadsTrue(l)
    BY DEF BuildInv, LaneInv
  <1>k. ASSUME NEW k \in Lane, pc'[k] = pc[k], task'[k] = task[k], recorded'[k] = recorded[k]
        PROVE  ReadsTrue(k)'
    BY <1>r, <1>i, <1>k DEF ReadsTrue, Subject, Source, Rows
  <1>1. CASE Idling
    <2>1. \A k \in Lane : ReadsTrue(k)'
      BY <1>1, <1>k DEF Idling
    <2> QED BY <1>1, <1>i, <2>1 DEF Idling, LaneInv
  <1>2. ASSUME NEW l \in Lane, NEW j \in Job, Begin(l, j) PROVE LaneInv'
    <2>1. CASE BeginsOn(l, j)
      <3>1. /\ task'[l] = j /\ \A k \in Lane \ {l} : task'[k] = task[k]
            /\ pc'[l] = "checking" /\ \A k \in Lane \ {l} : pc'[k] = pc[k]
            /\ recorded'[l] = (EventOf[j] \in Rows) /\ \A k \in Lane \ {l} : recorded'[k] = recorded[k]
            /\ j \in open /\ open' = open /\ \A k \in Lane : task[k] # j
        BY <1>t, <2>1 DEF BeginsOn
      <3>2. \A k \in Lane : ReadsTrue(k)'
        <4>1. ReadsTrue(l)'
          BY <1>r, <2>1, <3>1 DEF ReadsTrue, Subject, Source, BeginsOn
        <4> QED BY <1>k, <3>1, <4>1
      <3> QED BY <1>i, <3>1, <3>2 DEF LaneInv
    <2>2. CASE ~ BeginsOn(l, j)
      <3>1. /\ UNCHANGED <<pc, task, recorded>> /\ open' = open \ {j}
            /\ \A k \in Lane : task[k] # j
        BY <1>2, <2>2, BeginEffect
      <3>2. \A k \in Lane : ReadsTrue(k)'
        BY <1>k, <3>1
      <3> QED BY <1>i, <3>1, <3>2 DEF LaneInv
    <2> QED BY <2>1, <2>2
  <1>3. ASSUME NEW l \in Lane, Advancing(l) PROVE LaneInv'
    <2>1. /\ UNCHANGED <<task, recorded, open>> /\ \A k \in Lane \ {l} : pc'[k] = pc[k]
      BY <1>3, <1>t DEF Advancing
    <2>2. pc'[l] \in {"checking", "reserving"} => pc[l] = "checking"
      BY <1>3, <1>t DEF Advancing, Allow
    <2>3. \A k \in Lane : ReadsTrue(k)'
      <3>1. ReadsTrue(l)'
        BY <1>r, <1>i, <2>1, <2>2 DEF ReadsTrue, Subject, Source, Rows
      <3> QED BY <1>k, <2>1, <3>1
    <2> QED BY <1>i, <2>1, <2>3 DEF LaneInv
  <1>4. ASSUME NEW l \in Lane, Leave(l), recorded' = recorded,
               open' = open \/ open' = open \ {task[l]}, pc[l] # "idle"
        PROVE  LaneInv'
    <2>1. /\ task'[l] = NoJob /\ \A k \in Lane \ {l} : task'[k] = task[k]
          /\ pc'[l] = "idle" /\ \A k \in Lane \ {l} : pc'[k] = pc[k]
      BY <1>4, <1>t DEF Leave
    <2>2. \A k \in Lane : ReadsTrue(k)'
      <3>1. ReadsTrue(l)'
        BY <2>1 DEF ReadsTrue
      <3> QED BY <1>4, <1>k, <2>1, <3>1
    <2>3. \A k \in Lane : task'[k] # NoJob => task'[k] \in open'
      BY <1>4, <1>i, <1>t, <2>1
    <2> QED BY <1>i, <2>1, <2>2, <2>3 DEF LaneInv
  <1>5. ASSUME NEW l \in Lane, Leaving(l) \/ Completing(l) PROVE LaneInv'
    <2>1. pc[l] # "idle"
      BY <1>5 DEF Leaving, Completing, Refuse, HandOff
    <2> QED BY <1>4, <1>5, <2>1 DEF Leaving, Completing, Complete
  <1> QED BY <1>1, <1>2, <1>3, <1>5, LaneSteps

LEMMA BuildInit == Init => BuildInv
  <1> SUFFICES ASSUME Init PROVE BuildInv
    OBVIOUS
  <1>1. LaneInv
    BY JobAssumption DEF Init, LaneInv, ReadsTrue
  <1> QED BY <1>1, TypeInit, TableInit DEF BuildInv

LEMMA BuildStep == BuildInv /\ [Next]_vars => BuildInv'
  BY TypeStep, TableStep, LaneStep DEF BuildInv

LEMMA BuildInvariant == Spec => []BuildInv
  BY BuildInit, BuildStep, PTL DEF Spec

(***************************************************************************)
(* the allowance                                                           *)
(***************************************************************************)
\* The lanes that have passed the check and add a row next.
Passed == {l \in Lane : pc[l] = "reserving" /\ ~ recorded[l]}

UsageInv == Cardinality(Rows) + Cardinality(Passed) <= Quota + Cardinality(Lane) - 1

LEMMA Finite ==
    /\ IsFiniteSet(Rows) /\ Cardinality(Rows) \in Nat /\ Cardinality(Rows) <= Cardinality(Event)
    /\ IsFiniteSet(Passed) /\ Cardinality(Passed) \in Nat /\ Cardinality(Passed) <= Cardinality(Lane)
    /\ Cardinality(Lane) \in Nat \ {0} /\ Quota \in Nat
  <1>1. Rows \subseteq Event /\ Passed \subseteq Lane
    BY DEF Rows, Passed
  <1>2. IsFiniteSet(Event) /\ IsFiniteSet(Lane) /\ Lane # {} /\ Quota \in Nat
    BY EventAssumption, CountAssumption
  <1>3. Cardinality(Lane) # 0 /\ Cardinality(Lane) \in Nat
    BY <1>2, FS_EmptySet, FS_CardinalityType
  <1> QED BY <1>1, <1>2, <1>3, FS_Subset, FS_CardinalityType

LEMMA FinitePrimed ==
    /\ IsFiniteSet(Rows') /\ Cardinality(Rows') \in Nat
    /\ IsFiniteSet(Passed') /\ Cardinality(Passed') \in Nat /\ Cardinality(Passed') <= Cardinality(Lane)
  <1>1. Rows' \subseteq Event /\ Passed' \subseteq Lane
    BY DEF Rows, Passed
  <1>2. IsFiniteSet(Event) /\ IsFiniteSet(Lane)
    BY EventAssumption, CountAssumption
  <1> QED BY <1>1, <1>2, FS_Subset, FS_CardinalityType

\* Arithmetic of the three kinds of steps.
LEMMA UsageArithmetic ==
    ASSUME NEW r \in Nat, NEW p \in Nat, NEW r2 \in Nat, NEW p2 \in Nat,
           NEW q \in Nat, NEW n \in Nat \ {0}, r + p <= q + n - 1,
           \/ r2 <= r /\ p2 <= p
           \/ r2 = r /\ r < q /\ p2 <= n
           \/ r2 = r + 1 /\ p2 = p - 1
    PROVE  r2 + p2 <= q + n - 1
  OBVIOUS

LEMMA UsageBy ==
    ASSUME UsageInv,
           \/ Cardinality(Rows') <= Cardinality(Rows) /\ Cardinality(Passed') <= Cardinality(Passed)
           \/ Rows' = Rows /\ Cardinality(Rows) < Quota
           \/ Cardinality(Rows') = Cardinality(Rows) + 1 /\ Cardinality(Passed') = Cardinality(Passed) - 1
    PROVE  UsageInv'
  <1>1. Cardinality(Rows) + Cardinality(Passed) <= Quota + Cardinality(Lane) - 1
    BY DEF UsageInv
  <1>2. Cardinality(Rows') + Cardinality(Passed') <= Quota + Cardinality(Lane) - 1
    BY <1>1, Finite, FinitePrimed, UsageArithmetic
  <1> QED BY <1>2 DEF UsageInv

LEMMA UsageKept ==
    ASSUME UsageInv, Rows' \subseteq Rows, Passed' \subseteq Passed
    PROVE  UsageInv'
  <1>1. Cardinality(Rows') <= Cardinality(Rows) /\ Cardinality(Passed') <= Cardinality(Passed)
    BY Finite, FS_Subset
  <1> QED BY <1>1, UsageBy

LEMMA UsageStep ==
    ASSUME BuildInv, UsageInv, [Next]_vars
    PROVE  UsageInv'
  <1>t. /\ pc \in [Lane -> PC] /\ recorded \in [Lane -> BOOLEAN]
    BY DEF BuildInv, BundleTypeOK
  <1>1. ASSUME NEW l \in Lane, Reserve(l) PROVE UsageInv'
    <2>1. /\ Source(l) \in Event /\ Subject(l) \in live
          /\ \/ Rows' = Rows
             \/ Source(l) \notin Rows /\ Rows' = Rows \cup {Source(l)}
      BY <1>1, ReserveEffect, ReservedRows DEF BuildInv
    <2>2. pc[l] = "reserving" /\ pc' = [pc EXCEPT ![l] = "storing"] /\ recorded' = recorded
      BY <1>1 DEF Reserve
    <2>3. Passed' = Passed \ {l}
      BY <1>t, <2>2 DEF Passed
    <2>4. CASE Rows' = Rows
      BY <2>3, <2>4, UsageKept
    <2>5. CASE Source(l) \notin Rows /\ Rows' = Rows \cup {Source(l)}
      <3>2. l \in Passed
        BY <2>1, <2>2, <2>5 DEF BuildInv, LaneInv, ReadsTrue, Passed
      <3>3. Cardinality(Passed') = Cardinality(Passed) - 1
        BY <2>3, <3>2, Finite, FS_RemoveElement
      <3>4. /\ IsFiniteSet(Rows \cup {Source(l)})
            /\ Cardinality(Rows \cup {Source(l)}) = Cardinality(Rows) + 1
        BY <2>5, Finite, FS_AddElement
      <3> QED BY <2>5, <3>3, <3>4, UsageBy
    <2> QED BY <2>1, <2>4, <2>5
  <1>2. ASSUME \A l \in Lane : ~ Reserve(l) PROVE Rows' \subseteq Rows
    BY <1>2, RowsStep DEF BuildInv
  <1>3. ASSUME NEW l \in Lane, Allow(l) PROVE UsageInv'
    <2>1. /\ pc[l] = "checking" /\ (recorded[l] \/ WithinQuota)
          /\ pc' = [pc EXCEPT ![l] = "reserving"] /\ recorded' = recorded
          /\ Rows' = Rows
      BY <1>3 DEF Allow, tableVars, Rows
    <2>2. CASE recorded[l]
      <3>1. Passed' = Passed
        BY <1>t, <2>1, <2>2 DEF Passed
      <3> QED BY <2>1, <3>1, UsageKept
    <2>3. CASE WithinQuota
      BY <2>1, <2>3, UsageBy DEF WithinQuota
    <2> QED BY <2>1, <2>2, <2>3
  <1>4. ASSUME \A l \in Lane : ~ Reserve(l) /\ ~ Allow(l) PROVE UsageInv'
    <2>1. Rows' \subseteq Rows
      BY <1>2, <1>4
    <2>2. CASE Idling
      <3>1. Passed' = Passed
        BY <2>2 DEF Idling, Passed
      <3> QED BY <2>1, <3>1, UsageKept
    <2>3. ASSUME NEW l \in Lane, NEW j \in Job, Begin(l, j) PROVE UsageInv'
      <3>1. CASE BeginsOn(l, j)
        <4>1. /\ pc'[l] = "checking"
              /\ \A k \in Lane \ {l} : pc'[k] = pc[k] /\ recorded'[k] = recorded[k]
          BY <1>t, <3>1 DEF BeginsOn
        <4>2. Passed' \subseteq Passed
          BY <4>1 DEF Passed
        <4> QED BY <2>1, <4>2, UsageKept
      <3>2. CASE ~ BeginsOn(l, j)
        <4>1. UNCHANGED <<pc, recorded>>
          BY <2>3, <3>2, BeginEffect
        <4>2. Passed' = Passed
          BY <4>1 DEF Passed
        <4> QED BY <2>1, <4>2, UsageKept
      <3> QED BY <3>1, <3>2
    <2>4. ASSUME NEW l \in Lane, Advancing(l) \/ Leaving(l) \/ Completing(l) PROVE UsageInv'
      <3>1. /\ recorded' = recorded /\ pc'[l] # "reserving"
            /\ \A k \in Lane \ {l} : pc'[k] = pc[k]
        BY <1>4, <1>t, <2>4 DEF Advancing, Leaving, Completing, Complete, Leave
      <3>2. Passed' \subseteq Passed
        BY <3>1 DEF Passed
      <3> QED BY <2>1, <3>2, UsageKept
    <2> QED BY <2>2, <2>3, <2>4, LaneSteps
  <1> QED BY <1>1, <1>3, <1>4

LEMMA UsageInit == Init => UsageInv
  <1> SUFFICES ASSUME Init PROVE UsageInv
    OBVIOUS
  <1>1. Rows = {} /\ Passed = {}
    BY DEF Init, Rows, Passed
  <1>2. Cardinality(Rows) = 0 /\ Cardinality(Passed) = 0
    BY <1>1, FS_EmptySet
  <1> QED BY <1>2, Finite DEF UsageInv

\* The generations exceed the monthly allowance by one for each other lane at most, for
\* every allowance and every number of lanes between their check and their reservation.
THEOREM UsageStaysBounded == Spec => []UsageIsBounded
  <1>1. BuildInv /\ UsageInv /\ [Next]_vars => (BuildInv /\ UsageInv)'
    BY BuildStep, UsageStep
  <1>2. UsageInv => UsageIsBounded
    BY Finite DEF UsageInv, UsageIsBounded
  <1> QED BY <1>1, <1>2, BuildInit, UsageInit, PTL DEF Spec

(***************************************************************************)
(* builds run to their end                                                 *)
(***************************************************************************)
\* An open job whose build will not be refused the allowance.
Backs(j) == j \in open /\ \A l \in Lane : task[l] = j /\ pc[l] = "checking" => recorded[l]

FinishInv == \A e \in seen \cap Rows : e \in reproduce \/ \E j \in Job : EventOf[j] = e /\ Backs(j)

LEMMA BackedStep ==
    ASSUME BuildInv, [Next]_vars, NEW j \in Job, Backs(j), EventOf[j] \in Rows
    PROVE  Backs(j)' \/ \E l \in Lane : task[l] = j /\ HandOff(l)
  <1>t. /\ pc \in [Lane -> PC] /\ task \in [Lane -> Job \cup {NoJob}]
        /\ recorded \in [Lane -> BOOLEAN] /\ j # NoJob
        /\ \A l \in Lane : (pc[l] = "idle") = (task[l] = NoJob)
    BY JobAssumption DEF BuildInv, BundleTypeOK
  <1>b. j \in open /\ \A l \in Lane : task[l] = j /\ pc[l] = "checking" => recorded[l]
    BY DEF Backs
  <1>1. CASE Idling
    BY <1>1, <1>b DEF Idling, Backs
  <1>2. ASSUME NEW l \in Lane, NEW i \in Job, Begin(l, i) PROVE Backs(j)'
    <2>1. CASE BeginsOn(l, i)
      <3>1. /\ task'[l] = i /\ \A k \in Lane \ {l} : task'[k] = task[k]
            /\ \A k \in Lane \ {l} : pc'[k] = pc[k]
            /\ recorded'[l] = (EventOf[i] \in Rows) /\ \A k \in Lane \ {l} : recorded'[k] = recorded[k]
            /\ open' = open
        BY <1>t, <2>1 DEF BeginsOn
      <3> QED BY <1>b, <3>1 DEF Backs
    <2>2. CASE ~ BeginsOn(l, i)
      <3>1. /\ UNCHANGED <<pc, task, recorded>> /\ open' = open \ {i}
            /\ IncidentOf[EventOf[i]] \notin live
        BY <1>2, <2>2, BeginEffect
      <3>2. i # j
        BY <3>1 DEF BuildInv, TableInv, RowsAreLive
      <3> QED BY <1>b, <3>1, <3>2 DEF Backs
    <2> QED BY <2>1, <2>2
  <1>3. ASSUME NEW l \in Lane, Advancing(l) PROVE Backs(j)'
    <2>1. /\ UNCHANGED <<task, recorded, open>> /\ pc'[l] # "checking"
          /\ \A k \in Lane \ {l} : pc'[k] = pc[k]
      BY <1>3, <1>t DEF Advancing
    <2> QED BY <1>b, <2>1 DEF Backs
  <1>4. ASSUME NEW l \in Lane, Leave(l), recorded' = recorded, j \in open' PROVE Backs(j)'
    <2>1. /\ task'[l] = NoJob /\ \A k \in Lane \ {l} : task'[k] = task[k]
          /\ pc'[l] = "idle" /\ \A k \in Lane \ {l} : pc'[k] = pc[k]
      BY <1>4, <1>t DEF Leave
    <2> QED BY <1>b, <1>4, <2>1 DEF Backs
  <1>5. ASSUME NEW l \in Lane, Leaving(l) PROVE Backs(j)'
    BY <1>4, <1>5, <1>b DEF Leaving
  <1>6. ASSUME NEW l \in Lane, Completing(l) PROVE Backs(j)' \/ (task[l] = j /\ HandOff(l))
    <2>1. Leave(l) /\ recorded' = recorded /\ open' = open \ {task[l]}
      BY <1>6 DEF Completing, Complete
    <2>2. CASE task[l] # j
      BY <1>4, <1>b, <2>1, <2>2
    <2>3. CASE task[l] = j
      <3>1. ~ Refuse(l)
        BY <1>b, <2>3 DEF Refuse
      <3>2. HandOff(l)
        BY <1>6, <3>1 DEF Completing
      <3> QED BY <2>3, <3>2
    <2> QED BY <2>2, <2>3
  <1> QED BY <1>1, <1>2, <1>3, <1>5, <1>6, LaneSteps

LEMMA ReproduceStep ==
    ASSUME [Next]_vars
    PROVE  reproduce \subseteq reproduce'
  <1>1. ASSUME NEW l \in Lane, NEW j \in Job, Begin(l, j) PROVE reproduce' = reproduce
    BY <1>1, BeginEffect
  <1>2. ASSUME NEW l \in Lane, Completing(l) PROVE reproduce \subseteq reproduce'
    BY <1>2 DEF Completing, Refuse, HandOff
  <1> QED BY <1>1, <1>2, LaneSteps DEF Idling, Advancing, Leaving

LEMMA FinishStep ==
    ASSUME BuildInv, FinishInv, [Next]_vars
    PROVE  FinishInv'
  <1> SUFFICES ASSUME NEW e \in seen' \cap Rows'
               PROVE  e \in reproduce' \/ \E j \in Job : EventOf[j] = e /\ Backs(j)'
    BY DEF FinishInv
  <1>1. ASSUME NEW l \in Lane, Reserve(l), e = Source(l)
        PROVE  \E j \in Job : EventOf[j] = e /\ Backs(j)'
    <2>1. /\ pc[l] = "reserving" /\ pc' = [pc EXCEPT ![l] = "storing"]
          /\ UNCHANGED <<task, open, recorded>>
      BY <1>1 DEF Reserve
    <2>2. /\ task[l] \in Job /\ task[l] # NoJob /\ EventOf[task[l]] = e
      BY <1>1, <2>1, BusyFacts DEF BuildInv, Source
    <2>3. task[l] \in open /\ \A k \in Lane : task[k] = task[l] => k = l
      BY <2>2 DEF BuildInv, LaneInv
    <2>4. pc'[l] = "storing"
      BY <2>1 DEF BuildInv, BundleTypeOK
    <2>5. ASSUME NEW i, i = task[l] PROVE Backs(i)'
      BY <2>1, <2>3, <2>4, <2>5 DEF Backs
    <2> QED BY <2>2, <2>5
  <1>2. CASE e \in seen /\ e \in Rows
    <2>1. CASE e \in reproduce
      BY <2>1, ReproduceStep
    <2>2. CASE e \notin reproduce
      <3>1. PICK j \in Job : EventOf[j] = e /\ Backs(j)
        BY <1>2, <2>2 DEF FinishInv
      <3>2. \A l \in Lane : task[l] = j /\ HandOff(l) => e \in reproduce'
        BY <3>1 DEF HandOff, Source
      <3> QED BY <1>2, <3>1, <3>2, BackedStep
    <2> QED BY <2>1, <2>2
  <1>3. CASE e \notin seen
    <2>1. PICK l \in Lane : Reserve(l) /\ e = Source(l)
      BY <1>3, RowsStep DEF BuildInv
    <2> QED BY <1>1, <2>1
  <1>4. CASE e \notin Rows
    <2>1. PICK l \in Lane : Reserve(l) /\ e = Source(l)
      BY <1>4, RowsStep DEF BuildInv
    <2> QED BY <1>1, <2>1
  <1> QED BY <1>2, <1>3, <1>4

\* Every recorded generation is built to its end or has an open job that will build it:
\* no refusal, failure or crash leaves one without a bundle.
THEOREM BuildsFinish == Spec => []BuildsAreFinished
  <1>1. Init => FinishInv
    BY DEF Init, FinishInv
  <1>2. BuildInv /\ FinishInv /\ [Next]_vars => (BuildInv /\ FinishInv)'
    BY BuildStep, FinishStep
  <1>3. FinishInv => BuildsAreFinished
    BY DEF FinishInv, Backs, BuildsAreFinished
  <1> QED BY <1>1, <1>2, <1>3, BuildInit, PTL DEF Spec

(***************************************************************************)
(* the objects                                                             *)
(***************************************************************************)
\* A job that has yet to store the bundle of its event, and will not be refused.
Stores(j) ==
    /\ Backs(j)
    /\ \A l \in Lane : task[l] = j => pc[l] \notin {"pruning", "unlinking"}

\* What a lane has left to delete belongs to incidents that are gone.
PrunedInv ==
    /\ \A l \in Lane : pc[l] # "unlinking" => pruned[l] = {}
    /\ \A l \in Lane : pruned[l] \cap live = {}

RaceInv == \A i \in Incident : Raced(i) => i \in disturbed

\* What holds of an undisturbed incident: a build that is about to store has reserved
\* the incident's own generation, and each of the ends of an object is someone's.
Followed(i) ==
    /\ \A l \in Storing(i) : reserved[l] = generation[i]
    /\ cleaning[i] = "purged" => object[i] = 0
    /\ i \in live /\ cleaning[i] # "purged" /\ object[i] # generation[i]
         => \E j \in Job : EventOf[j] = source[i] /\ Stores(j)
    /\ i \notin live /\ object[i] # 0 => \E l \in Lane : i \in pruned[l]

ObjectInv == PrunedInv /\ RaceInv /\ \A i \in Incident \ disturbed : Followed(i)

LEMMA DisturbedStep ==
    ASSUME RaceInv, [Next]_vars
    PROVE  /\ RaceInv'
           /\ \A i \in Incident : i \notin disturbed' =>
                /\ i \notin disturbed /\ ~ Raced(i) /\ ~ Raced(i)'
                /\ UNCHANGED vars \/ ~ Abandoned(i)
  <1>1. CASE Next
    BY <1>1 DEF Next, RaceInv
  <1>2. CASE UNCHANGED vars
    <2>1. \A i \in Incident : Raced(i)' <=> Raced(i)
      BY <1>2 DEF vars, Raced, Storing, Subject
    <2> QED BY <1>2, <2>1 DEF vars, RaceInv
  <1> QED BY <1>1, <1>2

\* A lane is about to store what it has just reserved, or was about to before.
LEMMA StoringMoves ==
    ASSUME BundleTypeOK, [Next]_vars, NEW l \in Lane, pc'[l] = "storing"
    PROVE  \/ Reserve(l)
           \/ pc[l] = "storing" /\ task'[l] = task[l] /\ reserved'[l] = reserved[l]
  <1> DEFINE Still == pc[l] = "storing" /\ task'[l] = task[l] /\ reserved'[l] = reserved[l]
  <1> USE DEF BundleTypeOK, tableVars, laneVars
  <1>1. ASSUME NEW k \in Lane, NEW j \in Job, Begin(k, j) PROVE Still
    <2>1. reserved' = reserved
      BY <1>1 DEF Begin
    <2>2. CASE BeginsOn(k, j)
      BY <2>1, <2>2 DEF BeginsOn
    <2>3. CASE UNCHANGED <<pc, task>>
      BY <2>1, <2>3
    <2> QED BY <1>1, <2>2, <2>3, BeginEffect
  <1>2. ASSUME NEW k \in Lane, Allow(k) \/ Store(k) \/ Prune(k) \/ Unlink(k) PROVE Still
    BY <1>2 DEF Allow, Store, Prune, Unlink
  <1>3. ASSUME NEW k \in Lane, Refuse(k) \/ HandOff(k) \/ Missing(k) \/ Fail(k) \/ Crash(k)
        PROVE Still
    BY <1>3 DEF Refuse, HandOff, Complete, Missing, Fail, Crash, Leave
  <1>4. ASSUME NEW k \in Lane, Reserve(k), k # l PROVE Still
    BY <1>4 DEF Reserve
  <1>5. ASSUME NEW i \in Incident, ListExpired(i) \/ PurgeObjects(i) \/ DeleteExpired(i)
        PROVE Still
    BY <1>5 DEF ListExpired, PurgeObjects, DeleteExpired
  <1>6. CASE UNCHANGED vars
    BY <1>6 DEF vars
  <1> QED BY <1>1, <1>2, <1>3, <1>4, <1>5, <1>6 DEF Next, Step

\* How an object changes.
LEMMA ObjectMoves ==
    ASSUME BundleTypeOK, [Next]_vars, NEW i \in Incident
    PROVE  \/ object'[i] = object[i]
           \/ object'[i] = 0 /\ cleaning'[i] = "purged"
           \/ object'[i] = 0 /\ \E l \in Lane : i \in pruned[l]
           \/ \E l \in Storing(i) : Store(l) /\ object'[i] = reserved[l]
  <1> USE DEF BundleTypeOK, tableVars, laneVars
  <1>1. ASSUME NEW l \in Lane, Store(l)
        PROVE  object'[i] = object[i] \/ (l \in Storing(i) /\ object'[i] = reserved[l])
    BY <1>1 DEF Store, Storing
  <1>2. ASSUME NEW l \in Lane, Unlink(l)
        PROVE  object'[i] = object[i] \/ (object'[i] = 0 /\ i \in pruned[l])
    BY <1>2 DEF Unlink
  <1>3. ASSUME NEW k \in Incident, PurgeObjects(k)
        PROVE  object'[i] = object[i] \/ (object'[i] = 0 /\ cleaning'[i] = "purged")
    BY <1>3 DEF PurgeObjects
  <1>4. ASSUME NEW l \in Lane, \/ Allow(l) \/ Refuse(l) \/ Reserve(l) \/ Prune(l) \/ HandOff(l)
                               \/ Missing(l) \/ Fail(l) \/ Crash(l) \/ \E j \in Job : Begin(l, j)
        PROVE  object'[i] = object[i]
    BY <1>4 DEF Allow, Refuse, Reserve, Prune, HandOff, Missing, Fail, Crash, Begin
  <1>5. ASSUME NEW k \in Incident, ListExpired(k) \/ DeleteExpired(k)
        PROVE  object'[i] = object[i]
    BY <1>5 DEF ListExpired, DeleteExpired
  <1>6. CASE UNCHANGED vars
    BY <1>6 DEF vars
  <1> QED BY <1>1, <1>2, <1>3, <1>4, <1>5, <1>6 DEF Next, Step

\* How the clean-up of an incident goes on, and how an incident is deleted.
LEMMA CleaningMoves ==
    ASSUME BundleTypeOK, [Next]_vars, NEW i \in Incident
    PROVE  /\ \/ cleaning'[i] = cleaning[i]
              \/ cleaning[i] = "no" /\ cleaning'[i] = "listed"
              \/ cleaning'[i] = "purged" /\ object'[i] = 0
              \/ cleaning'[i] = "no" /\ i \notin live'
           /\ i \in live /\ i \notin live' =>
                \/ cleaning[i] = "purged" /\ object'[i] = object[i]
                \/ \E l \in Lane : i \in pruned'[l]
  <1> DEFINE Shown == /\ \/ cleaning'[i] = cleaning[i]
                         \/ cleaning[i] = "no" /\ cleaning'[i] = "listed"
                         \/ cleaning'[i] = "purged" /\ object'[i] = 0
                         \/ cleaning'[i] = "no" /\ i \notin live'
                      /\ i \in live /\ i \notin live' =>
                           \/ cleaning[i] = "purged" /\ object'[i] = object[i]
                           \/ \E l \in Lane : i \in pruned'[l]
  <1> USE DEF BundleTypeOK, tableVars, laneVars
  <1>1. ASSUME NEW l \in Lane, Prune(l) PROVE Shown
    <2>1. PICK kept \in SUBSET Owners : /\ DeleteIncidents(Owners \ kept)
                                        /\ pruned' = [pruned EXCEPT ![l] = Owners \ kept]
      BY <1>1 DEF Prune
    <2>2. live' = live \ (Owners \ kept) /\ pruned'[l] = Owners \ kept /\ cleaning' = cleaning
      BY <1>1, <2>1 DEF Prune, DeleteIncidents
    <2> QED BY <2>2
  <1>2. ASSUME NEW k \in Incident, DeleteExpired(k) PROVE Shown
    BY <1>2 DEF DeleteExpired, DeleteIncidents
  <1>3. ASSUME NEW k \in Incident, ListExpired(k) \/ PurgeObjects(k) PROVE Shown
    BY <1>3 DEF ListExpired, PurgeObjects
  <1>4. ASSUME NEW l \in Lane, \/ Allow(l) \/ Refuse(l) \/ Reserve(l) \/ Store(l) \/ Unlink(l)
                               \/ HandOff(l) \/ Missing(l) \/ Fail(l) \/ Crash(l)
                               \/ \E j \in Job : Begin(l, j)
        PROVE  Shown
    <2>1. live' = live /\ cleaning' = cleaning
      BY <1>4 DEF Allow, Refuse, Reserve, Store, Unlink, HandOff, Missing, Fail, Crash, Begin
    <2> QED BY <2>1
  <1>5. CASE UNCHANGED vars
    BY <1>5 DEF vars
  <1> QED BY <1>1, <1>2, <1>3, <1>4, <1>5 DEF Next, Step

\* A lane deletes the objects it has left, or abandons them.
LEMMA PrunedMoves ==
    ASSUME BundleTypeOK, PrunedInv, [Next]_vars
    PROVE  /\ PrunedInv'
           /\ \A l \in Lane : \A i \in pruned[l] :
                i \in pruned'[l] \/ object'[i] = 0 \/ (pc'[l] = "idle" /\ ~ UNCHANGED vars)
  <1> DEFINE Kept == \A l \in Lane : \A i \in pruned[l] :
                       i \in pruned'[l] \/ object'[i] = 0 \/ (pc'[l] = "idle" /\ ~ UNCHANGED vars)
  <1>t. /\ pc \in [Lane -> PC] /\ pruned \in [Lane -> SUBSET Incident]
        /\ object \in [Incident -> Nat]
    BY DEF BundleTypeOK
  <1>p. /\ \A l \in Lane : pc[l] # "unlinking" => pruned[l] = {}
        /\ \A l \in Lane : pruned[l] \cap live = {}
    BY DEF PrunedInv
  <1>1. ASSUME NEW l \in Lane, Prune(l) PROVE PrunedInv' /\ Kept
    <2>1. PICK kept \in SUBSET Owners : /\ DeleteIncidents(Owners \ kept)
                                        /\ pruned' = [pruned EXCEPT ![l] = Owners \ kept]
      BY <1>1 DEF Prune
    <2>2. /\ live' = live \ (Owners \ kept) /\ pc' = [pc EXCEPT ![l] = "unlinking"]
          /\ pc[l] = "pruning"
      BY <1>1, <2>1, <1>t DEF Prune, DeleteIncidents
    <2> QED BY <1>t, <1>p, <2>1, <2>2 DEF PrunedInv
  <1>2. ASSUME NEW l \in Lane, Unlink(l) PROVE PrunedInv' /\ Kept
    <2>1. PICK i \in pruned[l] : /\ object' = [object EXCEPT ![i] = 0]
                                 /\ pruned' = [pruned EXCEPT ![l] = pruned[l] \ {i}]
      BY <1>2 DEF Unlink
    <2>2. UNCHANGED <<live, pc>> /\ i \in Incident
      BY <1>2, <1>t DEF Unlink, tableVars
    <2> QED BY <1>t, <1>p, <2>1, <2>2 DEF PrunedInv
  <1>3. ASSUME NEW l \in Lane, Fail(l) \/ Crash(l) PROVE PrunedInv' /\ Kept
    <2>1. /\ pruned' = [pruned EXCEPT ![l] = {}] /\ pc' = [pc EXCEPT ![l] = "idle"]
          /\ live' = live /\ pc[l] # "idle"
      BY <1>3 DEF Fail, Crash, Leave, tableVars
    <2>2. pc'[l] = "idle" /\ pc'[l] # pc[l]
      BY <1>t, <2>1
    <2>3. PrunedInv'
      BY <1>t, <1>p, <2>1, <2>2 DEF PrunedInv
    <2>4. ~ UNCHANGED vars
      BY <2>2 DEF vars
    <2> QED BY <1>t, <2>1, <2>2, <2>3, <2>4
  <1>4. ASSUME NEW l \in Lane, HandOff(l) PROVE PrunedInv' /\ Kept
    <2>1. /\ UNCHANGED <<live, pruned>> /\ pruned[l] = {}
          /\ \A k \in Lane \ {l} : pc'[k] = pc[k]
      BY <1>4, <1>t DEF HandOff, Complete, Leave, tableVars
    <2> QED BY <1>p, <2>1 DEF PrunedInv
  <1>5. ASSUME NEW l \in Lane, Allow(l) \/ Refuse(l) \/ Reserve(l) \/ Store(l) \/ Missing(l)
        PROVE PrunedInv' /\ Kept
    <2>1. /\ UNCHANGED <<live, pruned>> /\ pc[l] # "unlinking"
          /\ \A k \in Lane \ {l} : pc'[k] = pc[k]
      BY <1>5, <1>t DEF Allow, Refuse, Reserve, Store, Missing, Complete, Leave, tableVars
    <2> QED BY <1>p, <2>1 DEF PrunedInv
  <1>6. ASSUME NEW l \in Lane, NEW j \in Job, Begin(l, j) PROVE PrunedInv' /\ Kept
    <2>1. UNCHANGED <<live, pruned>> /\ pc[l] = "idle"
      BY <1>6 DEF Begin, tableVars
    <2>2. \A k \in Lane \ {l} : pc'[k] = pc[k]
      BY <1>6, <1>t, BeginEffect DEF BeginsOn
    <2> QED BY <1>p, <2>1, <2>2 DEF PrunedInv
  <1>7. ASSUME NEW i \in Incident, ListExpired(i) \/ PurgeObjects(i) \/ DeleteExpired(i)
        PROVE  PrunedInv' /\ Kept
    <2>1. UNCHANGED <<pruned, pc>> /\ live' \subseteq live
      BY <1>7 DEF ListExpired, PurgeObjects, DeleteExpired, DeleteIncidents, tableVars, laneVars
    <2> QED BY <1>p, <2>1 DEF PrunedInv
  <1>8. CASE UNCHANGED vars
    BY <1>8, <1>p DEF vars, PrunedInv
  <1> QED BY <1>1, <1>2, <1>3, <1>4, <1>5, <1>6, <1>7, <1>8 DEF Next, Step

\* A job that has yet to store goes on having to until it stores.
LEMMA StoresStep ==
    ASSUME BuildInv, [Next]_vars, NEW j \in Job, Stores(j), EventOf[j] \in Rows,
           \A l \in Lane : ~ (Store(l) /\ task[l] = j)
    PROVE  Stores(j)'
  <1>t. /\ pc \in [Lane -> PC] /\ task \in [Lane -> Job \cup {NoJob}] /\ j # NoJob
        /\ \A l \in Lane : (pc[l] = "idle") = (task[l] = NoJob)
    BY JobAssumption DEF BuildInv, BundleTypeOK
  <1>0. \A l \in Lane : task[l] = j => pc[l] \notin {"pruning", "unlinking"}
    BY DEF Stores
  <1>1. Backs(j)'
    <2>1. Backs(j)' \/ \E l \in Lane : task[l] = j /\ HandOff(l)
      BY BackedStep DEF Stores
    <2> QED BY <1>0, <2>1 DEF HandOff
  <1>2. ASSUME NEW l \in Lane, task'[l] = j PROVE pc'[l] \notin {"pruning", "unlinking"}
    <2>1. CASE Idling
      BY <1>0, <1>2, <2>1 DEF Idling
    <2>2. ASSUME NEW k \in Lane, NEW i \in Job, Begin(k, i)
          PROVE  pc'[l] \notin {"pruning", "unlinking"}
      <3>1. CASE BeginsOn(k, i)
        BY <1>t, <1>0, <1>2, <3>1 DEF BeginsOn
      <3>2. CASE UNCHANGED <<pc, task>>
        BY <1>0, <1>2, <3>2
      <3> QED BY <2>2, <3>1, <3>2, BeginEffect
    <2>3. ASSUME NEW k \in Lane, Advancing(k) PROVE pc'[l] \notin {"pruning", "unlinking"}
      <3>1. task' = task
        BY <2>3 DEF Advancing
      <3>2. CASE k # l
        BY <1>t, <1>0, <1>2, <2>3, <3>1, <3>2 DEF Advancing
      <3>3. CASE k = l
        <4>1. ~ Store(l) /\ ~ Prune(l)
          BY <1>0, <1>2, <3>1 DEF Prune
        <4> QED BY <1>t, <2>3, <3>3, <4>1 DEF Advancing
      <3> QED BY <3>2, <3>3
    <2>4. ASSUME NEW k \in Lane, Leaving(k) \/ Completing(k)
          PROVE  pc'[l] \notin {"pruning", "unlinking"}
      <3>1. Leave(k)
        BY <2>4 DEF Leaving, Completing, Complete
      <3> QED BY <1>t, <1>0, <1>2, <3>1 DEF Leave
    <2> QED BY <2>1, <2>2, <2>3, <2>4, LaneSteps
  <1> QED BY <1>1, <1>2 DEF Stores

\* A reservation of an incident names what its lane is about to store.
LEMMA ReservedNumber ==
    ASSUME BuildInv, NEW l \in Lane, Reserve(l)
    PROVE  /\ Subject(l) \in Incident /\ Subject(l)' = Subject(l) /\ pc'[l] = "storing"
           /\ reserved'[l] = generation'[Subject(l)]
           /\ \A i \in Incident \ {Subject(l)} :
                source'[i] = source[i] /\ generation'[i] = generation[i]
           /\ \A k \in Lane \ {l} : pc'[k] = pc[k]
           /\ UNCHANGED <<task, open, object, live, cleaning>>
  <1>1. pc[l] = "reserving" /\ Subject(l) \in Incident
    BY BusyFacts DEF Reserve, BuildInv
  <1>2. UNCHANGED <<task, open, object, live, cleaning>> /\ Subject(l)' = Subject(l)
    BY DEF Reserve, Subject
  <1>3. /\ reserved' = [reserved EXCEPT ![l] = NextGeneration(Source(l))]
        /\ generation' = [generation EXCEPT ![Subject(l)] = NextGeneration(Source(l))]
        /\ source' = [source EXCEPT ![Subject(l)] = NextSource(Source(l))]
        /\ pc' = [pc EXCEPT ![l] = "storing"]
    BY DEF Reserve
  <1> QED BY <1>1, <1>2, <1>3 DEF BuildInv, BundleTypeOK

\* The columns of an incident change by a reservation of it alone.
LEMMA GenerationMoves ==
    ASSUME BuildInv, [Next]_vars, NEW i \in Incident, i \in live'
    PROVE  \/ source'[i] = source[i] /\ generation'[i] = generation[i]
           \/ \E l \in Lane : Reserve(l) /\ Numbered(l) /\ Subject(l) = i
  <1>1. CASE Steady \/ Deleting
    BY <1>1 DEF Steady, Deleting
  <1>2. ASSUME NEW l \in Lane, Reserve(l)
        PROVE  \/ source'[i] = source[i] /\ generation'[i] = generation[i]
               \/ Numbered(l) /\ Subject(l) = i
    BY <1>2, ReservedNumber, ReservedRows DEF Repeated, BuildInv
  <1> QED BY <1>1, <1>2, TableSteps

LEMMA FollowedStep ==
    ASSUME BuildInv, ObjectInv, [Next]_vars, NEW i \in Incident \ disturbed'
    PROVE  Followed(i)'
  <1>t. /\ BundleTypeOK /\ PrunedInv /\ i \in Incident
        /\ i \notin disturbed /\ ~ Raced(i) /\ ~ Raced(i)'
        /\ UNCHANGED vars \/ ~ Abandoned(i)
    BY DisturbedStep DEF BuildInv, ObjectInv
  <1>f. /\ \A l \in Storing(i) : reserved[l] = generation[i]
        /\ cleaning[i] = "purged" => object[i] = 0
        /\ i \in live /\ cleaning[i] # "purged" /\ object[i] # generation[i]
             => \E j \in Job : EventOf[j] = source[i] /\ Stores(j)
        /\ i \notin live /\ object[i] # 0 => \E l \in Lane : i \in pruned[l]
    BY <1>t DEF ObjectInv, Followed
  <1>l. live' \subseteq live
    BY RowsStep DEF BuildInv
  \* a lane that is storing keeps others from it, and from the deletion
  <1>s. \A l \in Storing(i) : i \in live /\ cleaning[i] # "purged"
    BY <1>t DEF Raced
  <1>1. ASSUME NEW l \in Storing(i)' PROVE reserved'[l] = generation'[i]
    <2>1. l \in Lane /\ pc'[l] = "storing" /\ Subject(l)' = i
      BY <1>1 DEF Storing
    <2>2. CASE Reserve(l)
      BY <2>1, <2>2, ReservedNumber
    <2>3. CASE ~ Reserve(l)
      <3>1. pc[l] = "storing" /\ task'[l] = task[l] /\ reserved'[l] = reserved[l]
        BY <1>t, <2>1, <2>3, StoringMoves
      <3>2. l \in Storing(i)
        BY <2>1, <3>1 DEF Storing, Subject
      <3>3. ASSUME NEW k \in Lane, Reserve(k), Subject(k) = i PROVE FALSE
        <4>1. k \in Storing(i)' /\ k # l
          BY <2>3, <3>3, ReservedNumber DEF Storing
        <4> QED BY <1>t, <1>1, <4>1 DEF Raced
      <3>4. i \in live'
        BY <1>t, <1>1 DEF Raced
      <3>5. generation'[i] = generation[i]
        BY <1>t, <3>3, <3>4, GenerationMoves
      <3> QED BY <1>f, <3>1, <3>2, <3>5
    <2> QED BY <2>2, <2>3
  <1>2. cleaning'[i] = "purged" => object'[i] = 0
    BY <1>t, <1>f, <1>s, CleaningMoves, ObjectMoves
  <1>3. ASSUME i \in live', cleaning'[i] # "purged", object'[i] # generation'[i]
        PROVE  \E j \in Job : EventOf[j] = source'[i] /\ Stores(j)'
    <2>1. i \in live /\ cleaning[i] # "purged"
      BY <1>t, <1>l, <1>3, CleaningMoves
    <2>2. CASE \E l \in Lane : Reserve(l) /\ Numbered(l) /\ Subject(l) = i
      <3>1. PICK l \in Lane : Reserve(l) /\ Numbered(l) /\ Subject(l) = i
        BY <2>2
      <3>2. /\ task[l] \in Job /\ task[l] # NoJob /\ EventOf[task[l]] = Source(l)
            /\ source'[i] = Source(l)
        BY <1>t, <3>1, BusyFacts DEF Reserve, Source, Numbered, BundleTypeOK
      <3>3. task[l] \in open /\ \A k \in Lane : task[k] = task[l] => k = l
        BY <3>2 DEF BuildInv, LaneInv
      <3>4. UNCHANGED <<task, open>> /\ pc'[l] = "storing"
        BY <3>1, ReservedNumber
      <3>5. ASSUME NEW j, j = task[l] PROVE Stores(j)'
        BY <3>3, <3>4, <3>5 DEF Stores, Backs
      <3> QED BY <3>2, <3>5
    <2>3. CASE \E l \in Storing(i) : Store(l) /\ object'[i] = reserved[l]
      <3>1. PICK l \in Storing(i) : Store(l) /\ object'[i] = reserved[l]
        BY <2>3
      <3>2. generation' = generation
        BY <3>1 DEF Store, tableVars
      <3> QED BY <1>f, <1>3, <3>1, <3>2
    <2>4. CASE /\ ~ \E l \in Lane : Reserve(l) /\ Numbered(l) /\ Subject(l) = i
               /\ ~ \E l \in Storing(i) : Store(l) /\ object'[i] = reserved[l]
      <3>1. source'[i] = source[i] /\ generation'[i] = generation[i]
        BY <1>t, <1>3, <2>4, GenerationMoves
      <3>2. object'[i] = object[i]
        BY <1>t, <1>3, <2>1, <2>4, ObjectMoves DEF PrunedInv
      <3>3. PICK j \in Job : EventOf[j] = source[i] /\ Stores(j)
        BY <1>3, <1>f, <2>1, <3>1, <3>2
      <3>4. source[i] # NoEvent
        BY <3>3, JobAssumption, EventAssumption
      <3>5. EventOf[j] \in Rows /\ IncidentOf[EventOf[j]] = i
        BY <2>1, <3>3, <3>4 DEF BuildInv, TableInv, SourcesAreRows
      <3>6. ASSUME NEW l \in Lane, Store(l), task[l] = j PROVE FALSE
        <4>1. l \in Storing(i)
          BY <3>5, <3>6 DEF Store, Storing, Subject
        <4>2. object'[i] = reserved[l]
          BY <1>t, <3>6, <4>1 DEF Store, Storing, BundleTypeOK
        <4> QED BY <2>4, <3>6, <4>1, <4>2
      <3> QED BY <3>1, <3>3, <3>5, <3>6, StoresStep
    <2> QED BY <2>2, <2>3, <2>4
  <1>4. ASSUME i \notin live', object'[i] # 0 PROVE \E l \in Lane : i \in pruned'[l]
    <2>1. CASE i \in live
      BY <1>t, <1>f, <1>4, <2>1, CleaningMoves
    <2>2. CASE i \notin live
      <3>1. object[i] # 0
        BY <1>t, <1>4, <2>2, <1>s, <1>2, ObjectMoves
      <3>2. PICK l \in Lane : i \in pruned[l]
        BY <1>f, <2>2, <3>1
      <3>3. pc'[l] = "idle" => UNCHANGED vars
        BY <1>t, <3>2 DEF Abandoned
      <3> QED BY <1>t, <1>4, <3>2, <3>3, PrunedMoves
    <2> QED BY <2>1, <2>2
  <1> QED BY <1>1, <1>2, <1>3, <1>4 DEF Followed

LEMMA ObjectStep == BuildInv /\ ObjectInv /\ [Next]_vars => ObjectInv'
  BY FollowedStep, DisturbedStep, PrunedMoves DEF ObjectInv, BuildInv

LEMMA ObjectInit == Init => ObjectInv
  <1> SUFFICES ASSUME Init PROVE ObjectInv
    OBVIOUS
  <1>1. /\ live = Incident /\ \A l \in Lane : pc[l] = "idle" /\ pruned[l] = {}
        /\ \A i \in Incident : generation[i] = 0 /\ object[i] = 0
    BY DEF Init
  <1>2. \A i \in Incident : Storing(i) = {}
    BY <1>1 DEF Storing
  <1> QED BY <1>1, <1>2 DEF ObjectInv, PrunedInv, RaceInv, Raced, Followed

\* Unless its builds raced each other or its deletion, or a lane died on the way, the
\* object of an incident follows its row, to its deletion and through every failure.
THEOREM ObjectsStayWithRows == Spec => []ObjectsFollowRows
  <1>1. BuildInv /\ ObjectInv /\ [Next]_vars => (BuildInv /\ ObjectInv)'
    BY BuildStep, ObjectStep
  <1>2. ObjectInv => ObjectsFollowRows
    BY DEF ObjectInv, Followed, Stores, Backs, ObjectsFollowRows
  <1> QED BY <1>1, <1>2, BuildInit, ObjectInit, PTL DEF Spec

(***************************************************************************)
(* the retained limit                                                      *)
(***************************************************************************)
Late == {IncidentOf[EventOf[j]] : j \in behind \cap open}

\* A job that has still to prune has its row, unless its incident is gone, and its lane
\* is neither past the pruning nor about to refuse it.
StillBehind(j) ==
    /\ EventOf[j] \in Rows \/ IncidentOf[EventOf[j]] \notin live
    /\ \A l \in Lane : task[l] = j =>
         /\ pc[l] # "unlinking"
         /\ pc[l] = "checking" => recorded[l] \/ IncidentOf[EventOf[j]] \notin live

BehindInv == \A j \in behind : StillBehind(j)

\* A step that adds no owner but late ones keeps the limit.
LEMMA RetentionKept ==
    ASSUME RetentionIsEnforced, BundleTypeOK, Owners' \ Late' \subseteq Owners \ Late
    PROVE  RetentionIsEnforced'
  <1>1. IsFiniteSet(Owners \ Late) /\ Owners \subseteq Incident
    BY EventAssumption, FS_Subset DEF Owners
  <1>2. /\ Cardinality(Owners' \ Late') <= Cardinality(Owners \ Late)
        /\ Cardinality(Owners' \ Late') \in Nat /\ Cardinality(Owners \ Late) \in Nat
    BY <1>1, FS_Subset, FS_CardinalityType
  <1>3. RetentionIsEnforced <=> Cardinality(Owners \ Late) <= RetainLimit
    BY DEF RetentionIsEnforced, Late
  <1>4. RetentionIsEnforced' <=> Cardinality(Owners' \ Late') <= RetainLimit
    BY DEF RetentionIsEnforced, Late
  <1> QED BY <1>2, <1>3, <1>4, CountAssumption

\* Fewer rows and no job closed that was behind with an owner.
LEMMA RetentionFrame ==
    ASSUME RetentionIsEnforced, BundleTypeOK, Rows' \subseteq Rows,
           \A j \in behind \cap open : IncidentOf[EventOf[j]] \in Owners => j \in behind' \cap open'
    PROVE  RetentionIsEnforced'
  <1>1. Owners' \subseteq Owners
    BY DEF Owners
  <1>2. Late \cap Owners \subseteq Late'
    BY DEF Late
  <1> QED BY <1>1, <1>2, RetentionKept

LEMMA OwnersLive ==
    ASSUME TableInv, NEW i \in Owners
    PROVE  i \in live
  BY DEF Owners, EventsOf, TableInv, RowsAreLive

LEMMA BehindStep ==
    ASSUME BuildInv, BehindInv, [Next]_vars
    PROVE  BehindInv'
  <1>t. /\ pc \in [Lane -> PC] /\ task \in [Lane -> Job \cup {NoJob}]
        /\ recorded \in [Lane -> BOOLEAN] /\ behind \subseteq Job
        /\ \A l \in Lane : (pc[l] = "idle") = (task[l] = NoJob)
    BY DEF BuildInv, BundleTypeOK
  <1>l. \A l, k \in Lane : task[l] # NoJob /\ task[l] = task[k] => l = k
    BY DEF BuildInv, LaneInv
  <1>r. /\ live' \subseteq live
        /\ \A e \in Rows : IncidentOf[e] \in live' => e \in Rows'
    BY RowsStep DEF BuildInv
  <1>b. ASSUME NEW j \in behind
        PROVE  /\ EventOf[j] \in Rows' \/ IncidentOf[EventOf[j]] \notin live'
               /\ \A l \in Lane : task[l] = j =>
                    /\ pc[l] # "unlinking"
                    /\ pc[l] = "checking" => recorded[l] \/ IncidentOf[EventOf[j]] \notin live'
    BY <1>r, <1>b DEF BehindInv, StillBehind
  <1>1. CASE Idling
    BY <1>1, <1>b DEF Idling, BehindInv, StillBehind
  <1>2. ASSUME NEW l \in Lane, NEW i \in Job, Begin(l, i) PROVE BehindInv'
    <2>0. behind' = behind
      BY <1>2, BeginEffect
    <2>1. CASE BeginsOn(l, i)
      <3>1. /\ task'[l] = i /\ \A k \in Lane \ {l} : task'[k] = task[k]
            /\ pc'[l] = "checking" /\ \A k \in Lane \ {l} : pc'[k] = pc[k]
            /\ recorded'[l] = (EventOf[i] \in Rows) /\ \A k \in Lane \ {l} : recorded'[k] = recorded[k]
        BY <1>t, <2>1 DEF BeginsOn
      <3>2. \A j \in behind : EventOf[j] \in Rows \/ IncidentOf[EventOf[j]] \notin live'
        BY <1>r DEF BehindInv, StillBehind
      <3>3. ASSUME NEW j \in behind PROVE StillBehind(j)'
        BY <1>b, <3>1, <3>2 DEF StillBehind
      <3> QED BY <2>0, <3>3 DEF BehindInv
    <2>2. CASE ~ BeginsOn(l, i)
      <3>1. UNCHANGED <<pc, task, recorded>>
        BY <1>2, <2>2, BeginEffect
      <3> QED BY <1>b, <2>0, <3>1 DEF BehindInv, StillBehind
    <2> QED BY <2>1, <2>2
  <1>3. ASSUME NEW l \in Lane, pc[l] # "idle", UNCHANGED <<task, recorded>>, behind' \subseteq behind,
               pc'[l] \notin {"checking", "unlinking"} \/ task[l] \notin behind',
               \A k \in Lane \ {l} : pc'[k] = pc[k]
        PROVE  BehindInv'
    <2> SUFFICES ASSUME NEW j \in behind' PROVE StillBehind(j)'
      BY DEF BehindInv
    <2>1. EventOf[j] \in Rows' \/ IncidentOf[EventOf[j]] \notin live'
      BY <1>3, <1>b
    <2>2. ASSUME NEW k \in Lane, task'[k] = j
          PROVE  /\ pc'[k] # "unlinking"
                 /\ pc'[k] = "checking" => recorded'[k] \/ IncidentOf[EventOf[j]] \notin live'
      BY <1>3, <1>b, <2>2
    <2> QED BY <2>1, <2>2 DEF StillBehind
  <1>4. ASSUME NEW l \in Lane, Reserve(l) PROVE BehindInv'
    <2>1. /\ pc[l] = "reserving" /\ pc' = [pc EXCEPT ![l] = "storing"]
          /\ UNCHANGED <<task, recorded, live>>
          /\ behind' = IF Subject(l) \in Owners THEN behind ELSE behind \cup {task[l]}
      BY <1>4 DEF Reserve
    <2>2. pc'[l] = "storing" /\ \A k \in Lane \ {l} : pc'[k] = pc[k]
      BY <1>t, <2>1
    <2>3. /\ task[l] \in Job /\ task[l] # NoJob /\ Source(l) \in Event /\ Subject(l) \in live
          /\ IncidentOf[Source(l)] = Subject(l) /\ Source(l) = EventOf[task[l]]
          /\ Subject(l) \in Incident
          /\ Repeated(l) \/ Source(l) \in Rows'
      BY <1>4, <2>1, BusyFacts, ReserveEffect, ReservedRows DEF BuildInv, Source, Renumbered
    <2>4. ASSUME Subject(l) \notin Owners PROVE Source(l) \in Rows'
      <3>1. CASE Repeated(l)
        <4>1. source[Subject(l)] \in Rows /\ IncidentOf[source[Subject(l)]] = Subject(l)
          BY <2>3, <3>1 DEF Repeated, BuildInv, TableInv, SourcesAreRows
        <4> QED BY <2>3, <2>4, <4>1 DEF Owners, EventsOf, Rows
      <3> QED BY <2>3, <3>1
    <2>5. ASSUME NEW j \in behind PROVE StillBehind(j)'
      BY <1>b, <2>1, <2>2 DEF StillBehind
    <2>6. ASSUME NEW j, j = task[l], Subject(l) \notin Owners PROVE StillBehind(j)'
      <3>1. \A k \in Lane : task'[k] = j => pc'[k] = "storing"
        BY <1>l, <2>1, <2>2, <2>3, <2>6
      <3>2. EventOf[j] \in Rows'
        BY <2>3, <2>4, <2>6
      <3> QED BY <3>1, <3>2 DEF StillBehind
    <2> QED BY <2>1, <2>5, <2>6 DEF BehindInv
  <1>5. ASSUME NEW l \in Lane, Advancing(l), ~ Reserve(l) PROVE BehindInv'
    <2>1. /\ pc[l] # "idle" /\ UNCHANGED <<task, recorded>> /\ behind' \subseteq behind
          /\ \A k \in Lane \ {l} : pc'[k] = pc[k]
          /\ pc'[l] \notin {"checking", "unlinking"} \/ task[l] \notin behind'
      BY <1>5, <1>t DEF Advancing
    <2> QED BY <1>3, <2>1
  <1>6. ASSUME NEW l \in Lane, Leaving(l) \/ Completing(l) PROVE BehindInv'
    <2>1. Leave(l) /\ recorded' = recorded /\ behind' = behind
      BY <1>6 DEF Leaving, Completing, Complete
    <2>2. /\ task'[l] = NoJob /\ \A k \in Lane \ {l} : task'[k] = task[k]
          /\ pc'[l] = "idle" /\ \A k \in Lane \ {l} : pc'[k] = pc[k]
      BY <2>1, <1>t DEF Leave
    <2>3. ASSUME NEW j \in behind PROVE StillBehind(j)'
      BY <1>b, <2>1, <2>2 DEF StillBehind
    <2> QED BY <2>1, <2>3 DEF BehindInv
  <1> QED BY <1>1, <1>2, <1>4, <1>5, <1>6, LaneSteps

LEMMA RetentionStep ==
    ASSUME BuildInv, BehindInv, RetentionIsEnforced, [Next]_vars
    PROVE  RetentionIsEnforced'
  <1>t. /\ pc \in [Lane -> PC] /\ task \in [Lane -> Job \cup {NoJob}]
        /\ \A l \in Lane : (pc[l] = "idle") = (task[l] = NoJob)
        /\ BundleTypeOK
    BY DEF BuildInv, BundleTypeOK
  <1>1. ASSUME NEW l \in Lane, Reserve(l) PROVE RetentionIsEnforced'
    <2>1. /\ pc[l] = "reserving" /\ open' = open
          /\ behind' = IF Subject(l) \in Owners THEN behind ELSE behind \cup {task[l]}
      BY <1>1 DEF Reserve
    <2>2. task[l] # NoJob /\ task[l] \in open /\ Subject(l) = IncidentOf[EventOf[task[l]]]
      BY <1>t, <2>1 DEF BuildInv, LaneInv, Subject
    <2>3. \A e \in Rows' : e \in Rows \/ IncidentOf[e] = Subject(l)
      BY <1>1, ReserveEffect, ReservedRows DEF BuildInv
    <2>4. Owners' \subseteq Owners \cup {Subject(l)}
      BY <2>3 DEF Owners, EventsOf
    <2>5. CASE Subject(l) \in Owners
      <3>1. Late' = Late
        BY <2>1, <2>5 DEF Late
      <3> QED BY <1>t, <2>4, <2>5, <3>1, RetentionKept
    <2>6. CASE Subject(l) \notin Owners
      <3>1. task[l] \in behind' \cap open' /\ behind \cap open \subseteq behind' \cap open'
        BY <2>1, <2>2, <2>6
      <3>2. Subject(l) \in Late' /\ Late \subseteq Late'
        BY <2>2, <3>1 DEF Late
      <3> QED BY <1>t, <2>4, <3>2, RetentionKept
    <2> QED BY <2>5, <2>6
  <1>2. ASSUME NEW l \in Lane, Prune(l) PROVE RetentionIsEnforced'
    <2>1. PICK kept \in SUBSET Owners : Keeps(kept) /\ DeleteIncidents(Owners \ kept)
      BY <1>2 DEF Prune
    <2>2. \A e \in Event : e \in Rows' => e \in Rows /\ IncidentOf[e] \notin Owners \ kept
      BY <2>1 DEF DeleteIncidents, Rows
    <2>3. Owners' \subseteq kept
      BY <2>2 DEF Owners, EventsOf
    <2>4. IsFiniteSet(kept) /\ kept \subseteq Incident /\ Cardinality(kept) <= RetainLimit
      BY <2>1, EventAssumption, FS_Subset DEF Owners, Keeps
    <2>5. Owners' \ Late' \subseteq kept
      BY <2>3
    <2>6. /\ Cardinality(Owners' \ Late') <= Cardinality(kept)
          /\ Cardinality(Owners' \ Late') \in Nat /\ Cardinality(kept) \in Nat
      BY <2>4, <2>5, FS_Subset, FS_CardinalityType
    <2>7. Cardinality(Owners' \ Late') <= RetainLimit
      BY <2>4, <2>6, CountAssumption
    <2> QED BY <2>7 DEF RetentionIsEnforced, Late
  <1>3. ASSUME \A l \in Lane : ~ Reserve(l) /\ ~ Prune(l) PROVE RetentionIsEnforced'
    <2>1. Rows' \subseteq Rows
      BY <1>3, RowsStep DEF BuildInv
    <2>2. ASSUME UNCHANGED <<behind, open>> PROVE RetentionIsEnforced'
      BY <1>t, <2>1, <2>2, RetentionFrame
    <2>3. ASSUME NEW l \in Lane, NEW i \in Job, Begin(l, i) PROVE RetentionIsEnforced'
      <3>1. CASE BeginsOn(l, i)
        BY <2>2, <2>3, <3>1, BeginEffect DEF BeginsOn
      <3>2. CASE ~ BeginsOn(l, i)
        <4>1. behind' = behind /\ open' = open \ {i} /\ IncidentOf[EventOf[i]] \notin live
          BY <2>3, <3>2, BeginEffect
        <4>2. IncidentOf[EventOf[i]] \notin Owners
          BY <4>1, OwnersLive DEF BuildInv
        <4> QED BY <1>t, <2>1, <4>1, <4>2, RetentionFrame
      <3> QED BY <3>1, <3>2
    <2>4. ASSUME NEW l \in Lane, Advancing(l) PROVE RetentionIsEnforced'
      BY <1>3, <2>2, <2>4 DEF Advancing
    <2>5. ASSUME NEW l \in Lane, Leaving(l) PROVE RetentionIsEnforced'
      BY <2>2, <2>5 DEF Leaving
    <2>6. ASSUME NEW l \in Lane, Completing(l) PROVE RetentionIsEnforced'
      <3>1. behind' = behind /\ open' = open \ {task[l]}
        BY <2>6 DEF Completing, Complete
      <3>2. task[l] \in behind => IncidentOf[EventOf[task[l]]] \notin live
        <4>1. CASE HandOff(l)
          BY <4>1 DEF HandOff, BehindInv, StillBehind
        <4>2. CASE Refuse(l)
          BY <4>2 DEF Refuse, BehindInv, StillBehind
        <4> QED BY <2>6, <4>1, <4>2 DEF Completing
      <3>3. task[l] \in behind => IncidentOf[EventOf[task[l]]] \notin Owners
        BY <3>2, OwnersLive DEF BuildInv
      <3> QED BY <1>t, <2>1, <3>1, <3>3, RetentionFrame
    <2>7. CASE Idling
      BY <2>2, <2>7 DEF Idling
    <2> QED BY <2>3, <2>4, <2>5, <2>6, <2>7, LaneSteps
  <1> QED BY <1>1, <1>2, <1>3

\* The owners of bundles exceed the retained limit by no more than builds that have still
\* to prune: refusals, failures and concurrent prunings leave no owner behind.
THEOREM RetentionStaysEnforced == Spec => []RetentionIsEnforced
  <1>1. ASSUME Init PROVE BehindInv /\ RetentionIsEnforced
    <2>1. behind = {} /\ Owners = {}
      BY <1>1 DEF Init, Owners, EventsOf, Rows
    <2>2. \A S : Cardinality({} \ S) = 0
      BY FS_EmptySet
    <2> QED BY <2>1, <2>2, CountAssumption DEF BehindInv, RetentionIsEnforced
  <1>2. BuildInv /\ BehindInv /\ RetentionIsEnforced /\ [Next]_vars
          => (BuildInv /\ BehindInv /\ RetentionIsEnforced)'
    BY BuildStep, BehindStep, RetentionStep
  <1> QED BY <1>1, <1>2, BuildInit, PTL DEF Spec
=============================================================================
