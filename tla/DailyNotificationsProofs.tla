------------------------- MODULE DailyNotificationsProofs -------------------------
(***************************************************************************)
(* The properties of DailyNotifications, for every number of lanes,        *)
(* schedules, windows, projects and incidents.                             *)
(*                                                                         *)
(* The argument is about the pass of one lane over its batch (PassOK):     *)
(* while it holds the token, what it has listed and not moved is what the  *)
(* batch contains, and a batch it took late takes no more items, also when *)
(* the lease has lapsed.  No step of another lane, of an alert or of a     *)
(* user disturbs that (Undisturbed).  An incident is in one batch, and     *)
(* each e-mail of it beyond the first, sent or about to be, is paid for by *)
(* a fault (MailOK).  A batch somebody holds has been claimed, so that     *)
(* opening, moving and deferring are all that can leave a due batch        *)
(* without attempts (FoundInv).                                            *)
(***************************************************************************)
EXTENDS DailyNotifications, FiniteSetTheorems, TLAPS

(***************************************************************************)
(* types                                                                   *)
(***************************************************************************)
LEMMA BatchFacts ==
    ASSUME NEW b \in Batch
    PROVE  b[1] \in Schedule /\ b[2] \in Day /\ b = <<b[1], b[2]>> /\ b # NoBatch
  BY NameAssumption DEF Batch

LEMMA UpcomingIs ==
    ASSUME DailyTypeOK, NEW s \in Schedule, today[s] < MaxDay
    PROVE  Upcoming(s) \in Batch
  <1>1. today[s] \in 0..MaxDay /\ MaxDay \in Nat
    BY CountAssumption DEF DailyTypeOK
  <1>2. today[s] + 1 \in 1..MaxDay
    BY <1>1
  <1> QED BY <1>2 DEF Upcoming, Batch, Day

LEMMA WritableIs ==
    ASSUME NEW b, Writable(b)
    PROVE  /\ b \in Batch /\ status[b] \in {"absent", "pending"} /\ taken[b] # "late"
  BY DEF Writable

LEMMA QuitType ==
    ASSUME DailyTypeOK, NEW l \in Lane, Quit(l)
    PROVE  /\ pc' \in [Lane -> {"idle", "claimed", "begun", "deciding", "sending", "sent"}]
           /\ work' \in [Lane -> Batch \cup {NoBatch}]
           /\ \A k \in Lane : pc'[k] # "idle" => work'[k] \in Batch
           /\ start' \in [Lane -> [Schedule -> 0..MaxDay]]
           /\ revision' \in [Lane -> SUBSET (Project \X (Schedule \cup {Off}))]
           /\ todo' \in [Lane -> SUBSET Item] /\ email' \in [Lane -> SUBSET Item]
  <1>1. start' \in [Lane -> [Schedule -> 0..MaxDay]]
    <2>1. 0 \in 0..MaxDay
      BY CountAssumption
    <2>2. [s \in Schedule |-> 0] \in [Schedule -> 0..MaxDay]
      BY <2>1
    <2> QED BY <2>2 DEF DailyTypeOK, Quit
  <1> QED BY <1>1 DEF DailyTypeOK, Quit

LEMMA OpenedType ==
    ASSUME DailyTypeOK, NEW b \in Batch, status' = Opened(b)
    PROVE  status' \in [Batch -> {"absent", "pending", "delivered", "suppressed", "failed"}]
  BY DEF DailyTypeOK, Opened

LEMMA RenewedType ==
    ASSUME DailyTypeOK, NEW b \in Batch
    PROVE  Renewed(b) \in [Batch -> {"free", "early", "late"}]
  BY DEF DailyTypeOK, Renewed

LEMMA RevisionType ==
    ASSUME DailyTypeOK, NEW b \in Batch
    PROVE  Revision(b) \in SUBSET (Project \X (Schedule \cup {Off}))
  <1>1. \A i \in Item : ProjectOf[i] \in Project /\ policy[ProjectOf[i]] \in Schedule \cup {Off}
    BY ItemAssumption DEF DailyTypeOK
  <1> QED BY <1>1 DEF Revision, ItemsIn

LEMMA AdmitType ==
    ASSUME DailyTypeOK, NEW i \in Item, NEW b \in Batch, Admit(i, b)
    PROVE  /\ status' \in [Batch -> {"absent", "pending", "delivered", "suppressed", "failed"}]
           /\ place' \in [Item -> Batch \cup {NoBatch}] /\ ready' \subseteq Batch
           /\ usage' \subseteq Batch \X Project /\ charged' \subseteq usage'
  <1>1. status' \in [Batch -> {"absent", "pending", "delivered", "suppressed", "failed"}]
    BY OpenedType DEF Admit
  <1>2. ProjectOf[i] \in Project
    BY ItemAssumption
  <1>3. place' \in [Item -> Batch \cup {NoBatch}] /\ ready' \subseteq Batch
    BY <1>2 DEF Admit, DueIfOpened, itemVars, DailyTypeOK
  <1>4. usage' \subseteq Batch \X Project /\ charged' \subseteq usage'
    BY <1>2 DEF Admit, itemVars, DailyTypeOK
  <1> QED BY <1>1, <1>3, <1>4

LEMMA MoveType ==
    ASSUME DailyTypeOK, NEW i \in Item, NEW c \in Batch, MoveItem(i, c)
    PROVE  /\ status' \in [Batch -> {"absent", "pending", "delivered", "suppressed", "failed"}]
           /\ place' \in [Item -> Batch \cup {NoBatch}] /\ ready' \subseteq Batch
           /\ usage' \subseteq Batch \X Project /\ charged' \subseteq usage'
  <1>1. status' \in [Batch -> {"absent", "pending", "delivered", "suppressed", "failed"}]
    BY OpenedType DEF MoveItem
  <1>2. ProjectOf[i] \in Project
    BY ItemAssumption
  <1> QED BY <1>1, <1>2 DEF MoveItem, DueIfOpened, DailyTypeOK

LEMMA FailedType ==
    ASSUME DailyTypeOK, NEW l \in Lane, NEW b \in Batch, Failed(l, b)
    PROVE  /\ status' \in [Batch -> {"absent", "pending", "delivered", "suppressed", "failed"}]
           /\ taken' \in [Batch -> {"free", "early", "late"}]
           /\ live' \subseteq Batch /\ ready' \subseteq Batch /\ moved' \subseteq Batch
           /\ Quit(l)
  BY DEF Failed, DailyTypeOK

LEMMA ClaimType ==
    ASSUME DailyTypeOK, NEW l \in Lane, NEW b \in Batch, Claim(l, b)
    PROVE  DailyTypeOK'
  <1> DEFINE others == Coalesced(b)
             joined == {i \in Item : place[i] \in others}
  <1>1. /\ place' = [i \in Item |-> IF i \in joined THEN b ELSE place[i]]
        /\ usage' = usage \cup {<<b, ProjectOf[i]>> : i \in joined}
        /\ status' = [c \in Batch |-> IF c \in others THEN "suppressed" ELSE status[c]]
        /\ taken' = [c \in Batch |->
                       IF c = b THEN IF Overdue(b) THEN "late" ELSE "early"
                       ELSE IF c \in others THEN "free" ELSE taken[c]]
    BY DEF Claim
  <1>2. \A i \in Item : ProjectOf[i] \in Project
    BY ItemAssumption
  <1>3. place' \in [Item -> Batch \cup {NoBatch}] /\ usage' \subseteq Batch \X Project
    BY <1>1, <1>2 DEF DailyTypeOK
  <1>4. /\ status' \in [Batch -> {"absent", "pending", "delivered", "suppressed", "failed"}]
        /\ taken' \in [Batch -> {"free", "early", "late"}]
    BY <1>1 DEF DailyTypeOK
  <1>5. /\ owner' \in [Batch -> Lane \cup {NoLane}] /\ attempts' \in [Batch -> Nat]
        /\ live' \subseteq Batch /\ ready' \subseteq Batch /\ moved' \subseteq Batch
    BY DEF Claim, DailyTypeOK
  <1>6. /\ pc' = [pc EXCEPT ![l] = "claimed"] /\ work' = [work EXCEPT ![l] = b]
        /\ pc' \in [Lane -> {"idle", "claimed", "begun", "deciding", "sending", "sent"}]
        /\ work' \in [Lane -> Batch \cup {NoBatch}]
    BY DEF Claim, DailyTypeOK
  <1>7. \A k \in Lane : pc'[k] # "idle" => work'[k] \in Batch
    BY <1>6 DEF DailyTypeOK
  <1>8. /\ UNCHANGED <<today, policy, resolved, changes, admitted, charged, start, revision, todo,
                      email, faults, mailed>>
        /\ skipped' \subseteq skipped
    BY DEF Claim, userVars
  <1>9. charged' \subseteq usage'
    BY <1>1, <1>8 DEF DailyTypeOK
  <1> QED BY <1>3, <1>4, <1>5, <1>6, <1>7, <1>8, <1>9 DEF DailyTypeOK

LEMMA DecideType ==
    ASSUME DailyTypeOK, NEW l \in Lane, NEW i \in Item, Decide(l, i)
    PROVE  DailyTypeOK'
  <1> DEFINE b == work[l]
             s == policy[ProjectOf[i]]
  <1>1. pc[l] = "deciding" /\ b \in Batch
    BY DEF Decide, DailyTypeOK
  <1>2. UNCHANGED <<today, policy, resolved, changes, admitted, faults, mailed>>
    BY DEF Decide, userVars
  <1>3. CASE /\ todo' = [todo EXCEPT ![l] = todo[l] \ {i}]
             /\ email' = [email EXCEPT ![l] =
                            IF s = Off \/ Future(l) THEN email[l] ELSE email[l] \cup {i}]
             /\ skipped' = IF s = Off /\ ~ Future(l) THEN skipped \cup {i} ELSE skipped
             /\ UNCHANGED <<batchVars, itemVars, pc, work, start, revision>>
    <2>1. todo' \in [Lane -> SUBSET Item] /\ email' \in [Lane -> SUBSET Item] /\ skipped' \subseteq Item
      BY <1>3 DEF DailyTypeOK
    <2> QED BY <1>2, <1>3, <2>1 DEF DailyTypeOK, batchVars, itemVars
  <1>4. ASSUME NEW w, Reschedule(l, i, s, w), UNCHANGED <<owner, attempts, skipped>>
        PROVE  DailyTypeOK'
    <2>1. ASSUME NEW c, Writable(c), MoveItem(i, c),
                 UNCHANGED <<taken, live, moved, pc, work, start, revision, email>>,
                 todo' = [todo EXCEPT ![l] = todo[l] \ {i}]
          PROVE  DailyTypeOK'
      <3>1. c \in Batch
        BY <2>1, WritableIs
      <3>2. todo' \in [Lane -> SUBSET Item]
        BY <2>1 DEF DailyTypeOK
      <3> QED BY <1>2, <1>4, <2>1, <3>1, <3>2, MoveType DEF DailyTypeOK
    <2>2. ASSUME Failed(l, b), UNCHANGED itemVars PROVE DailyTypeOK'
      BY <1>1, <1>2, <1>4, <2>2, FailedType, QuitType DEF DailyTypeOK, itemVars
    <2>3. ASSUME todo' = [todo EXCEPT ![l] = todo[l] \ {i}],
                 UNCHANGED <<status, taken, live, ready, moved, itemVars, pc, work, start,
                             revision, email>>
          PROVE  DailyTypeOK'
      <3>1. todo' \in [Lane -> SUBSET Item]
        BY <2>3 DEF DailyTypeOK
      <3> QED BY <1>2, <1>4, <2>3, <3>1 DEF DailyTypeOK, itemVars
    <2> QED BY <1>4, <2>1, <2>2, <2>3 DEF Reschedule
  <1> QED BY <1>3, <1>4 DEF Decide

LEMMA ConfirmType ==
    ASSUME DailyTypeOK, NEW l \in Lane, Confirm(l)
    PROVE  DailyTypeOK'
  <1> DEFINE b == work[l]
  <1>1. pc[l] = "deciding" /\ b \in Batch
    BY DEF Confirm, DailyTypeOK
  <1>2. UNCHANGED <<today, status, owner, place, usage, charged, policy, resolved, changes, admitted,
                    faults, mailed, skipped>>
    BY DEF Confirm, userVars, itemVars
  <1>3. ASSUME Quit(l), UNCHANGED <<taken, live, moved, attempts, ready>> PROVE DailyTypeOK'
    BY <1>2, <1>3, QuitType DEF DailyTypeOK
  <1>4. ASSUME Quit(l), NEW u, Deferred(b, u) PROVE DailyTypeOK'
    <2>1. taken' \in [Batch -> {"free", "early", "late"}] /\ attempts' \in [Batch -> Nat]
      <3>1. taken' = [taken EXCEPT ![b] = "free"]
        BY <1>4 DEF Deferred
      <3>2. attempts' = [attempts EXCEPT ![b] = IF attempts[b] = 0 THEN 0 ELSE attempts[b] - 1]
        BY <1>4 DEF Deferred
      <3>3. attempts[b] \in Nat /\ (IF attempts[b] = 0 THEN 0 ELSE attempts[b] - 1) \in Nat
        BY <1>1 DEF DailyTypeOK
      <3>4. attempts' \in [Batch -> Nat]
        BY <3>2, <3>3 DEF DailyTypeOK
      <3>5. taken' \in [Batch -> {"free", "early", "late"}]
        BY <3>1 DEF DailyTypeOK
      <3> QED BY <3>4, <3>5
    <2>2. live' \subseteq Batch /\ moved' \subseteq Batch /\ ready' \subseteq Batch
      BY <1>1, <1>4 DEF Deferred, DailyTypeOK
    <2> QED BY <1>2, <1>4, <2>1, <2>2, QuitType DEF DailyTypeOK
  <1>5. ASSUME taken' = Renewed(b), pc' = [pc EXCEPT ![l] = "sending"],
               UNCHANGED <<live, moved, attempts, ready, work, start, revision, todo, email>>
        PROVE  DailyTypeOK'
    <2>1. taken' \in [Batch -> {"free", "early", "late"}]
      BY <1>1, <1>5, RenewedType
    <2>2. /\ pc' \in [Lane -> {"idle", "claimed", "begun", "deciding", "sending", "sent"}]
          /\ \A k \in Lane : pc'[k] # "idle" => work'[k] \in Batch
      BY <1>1, <1>5 DEF DailyTypeOK
    <2> QED BY <1>2, <1>5, <2>1, <2>2 DEF DailyTypeOK
  <1> QED BY <1>3, <1>4, <1>5 DEF Confirm

LEMMA TypeInit == Init => DailyTypeOK
  BY CountAssumption, NameAssumption DEF Init, DailyTypeOK

LEMMA TypeStep == DailyTypeOK /\ [Next]_vars => DailyTypeOK'
  <1> SUFFICES ASSUME DailyTypeOK, [Next]_vars PROVE DailyTypeOK'
    OBVIOUS
  <1> USE DEF batchVars, itemVars, laneVars, userVars
  <1>1. ASSUME NEW i \in Item, Raise(i) PROVE DailyTypeOK'
    <2>1. policy[ProjectOf[i]] \in Schedule \cup {Off}
      BY ItemAssumption DEF DailyTypeOK
    <2>2. Upcoming(policy[ProjectOf[i]]) \in Batch
      BY <1>1, <2>1, UpcomingIs DEF Raise
    <2>3. admitted' \in [Item -> Batch \cup {NoBatch}]
      BY <1>1, <2>2 DEF Raise, DailyTypeOK
    <2> QED BY <1>1, <2>3 DEF Raise, DailyTypeOK
  <1>2. ASSUME NEW i \in Item, Insert(i) PROVE DailyTypeOK'
    <2> DEFINE b == admitted[i]
    <2>1. /\ admitted' = [admitted EXCEPT ![i] = NoBatch]
          /\ UNCHANGED <<today, owner, taken, live, moved, attempts, policy, resolved, changes,
                         pc, work, start, revision, todo, email, faults, mailed, skipped>>
      BY <1>2 DEF Insert
    <2>2. admitted' \in [Item -> Batch \cup {NoBatch}]
      BY <2>1 DEF DailyTypeOK
    <2>3. ASSUME NEW c, Writable(c), Admit(i, c) PROVE DailyTypeOK'
      <3>1. c \in Batch
        BY <2>3, WritableIs
      <3> QED BY <2>1, <2>2, <2>3, <3>1, AdmitType DEF DailyTypeOK
    <2>4. ASSUME UNCHANGED <<status, itemVars, ready>> PROVE DailyTypeOK'
      BY <2>1, <2>2, <2>4 DEF DailyTypeOK
    <2> QED BY <1>2, <2>3, <2>4 DEF Insert
  <1>3. ASSUME NEW i \in Item, ResolveIncident(i) PROVE DailyTypeOK'
    BY <1>3 DEF ResolveIncident, DailyTypeOK
  <1>4. ASSUME NEW l \in Lane, NEW b \in Batch, Claim(l, b) PROVE DailyTypeOK'
    BY <1>4, ClaimType
  <1>5. ASSUME NEW l \in Lane, List(l) PROVE DailyTypeOK'
    <2> DEFINE b == work[l]
    <2>1. pc[l] = "begun" /\ b \in Batch
      BY <1>5 DEF List, DailyTypeOK
    <2>2. UNCHANGED <<today, status, owner, live, ready, moved, attempts, itemVars, userVars,
                      admitted, faults, mailed>>
      BY <1>5 DEF List
    <2>3. CASE HoldsLive(l, b)
      <3>1. /\ taken' = Renewed(b)
            /\ revision' = [revision EXCEPT ![l] = Revision(b)]
            /\ todo' = [todo EXCEPT ![l] = ItemsIn(b) \ resolved]
            /\ skipped' = IF Future(l) THEN skipped ELSE skipped \cup (ItemsIn(b) \cap resolved)
            /\ pc' = [pc EXCEPT ![l] = "deciding"]
            /\ UNCHANGED <<work, start, email>>
        BY <1>5, <2>3 DEF List
      <3>2. taken' \in [Batch -> {"free", "early", "late"}]
        BY <2>1, <3>1, RenewedType
      <3>3. revision' \in [Lane -> SUBSET (Project \X (Schedule \cup {Off}))]
        BY <2>1, <3>1, RevisionType DEF DailyTypeOK
      <3>4. todo' \in [Lane -> SUBSET Item] /\ skipped' \subseteq Item
        BY <3>1 DEF DailyTypeOK, ItemsIn
      <3>5. /\ pc' \in [Lane -> {"idle", "claimed", "begun", "deciding", "sending", "sent"}]
            /\ \A k \in Lane : pc'[k] # "idle" => work'[k] \in Batch
        BY <2>1, <3>1 DEF DailyTypeOK
      <3> QED BY <2>2, <3>1, <3>2, <3>3, <3>4, <3>5 DEF DailyTypeOK
    <2>4. CASE ~ HoldsLive(l, b)
      <3>1. Quit(l) /\ UNCHANGED <<taken, skipped>>
        BY <1>5, <2>4 DEF List
      <3> QED BY <2>2, <3>1, QuitType DEF DailyTypeOK
    <2> QED BY <2>3, <2>4
  <1>6. ASSUME NEW l \in Lane, NEW i \in Item, Decide(l, i) PROVE DailyTypeOK'
    BY <1>6, DecideType
  <1>7. ASSUME NEW l \in Lane, Confirm(l) PROVE DailyTypeOK'
    BY <1>7, ConfirmType
  <1>8. ASSUME NEW l \in Lane, Deliver(l) PROVE DailyTypeOK'
    <2>1. mailed' \in [Item -> Nat]
      BY <1>8 DEF Deliver, DailyTypeOK
    <2>2. /\ pc' \in [Lane -> {"idle", "claimed", "begun", "deciding", "sending", "sent"}]
          /\ \A k \in Lane : pc'[k] # "idle" => work'[k] \in Batch
      BY <1>8 DEF Deliver, DailyTypeOK
    <2> QED BY <1>8, <2>1, <2>2 DEF Deliver, DailyTypeOK
  <1>9. ASSUME NEW l \in Lane, Complete(l) PROVE DailyTypeOK'
    <2>1. Quit(l) /\ work[l] \in Batch
      BY <1>9 DEF Complete, DailyTypeOK
    <2>2. /\ status' \in [Batch -> {"absent", "pending", "delivered", "suppressed", "failed"}]
          /\ taken' \in [Batch -> {"free", "early", "late"}]
          /\ live' \subseteq Batch /\ ready' \subseteq Batch /\ moved' \subseteq Batch
      BY <1>9, <2>1 DEF Complete, DailyTypeOK
    <2> QED BY <1>9, <2>1, <2>2, QuitType DEF Complete, DailyTypeOK
  <1>10. ASSUME NEW l \in Lane, Throw(l) PROVE DailyTypeOK'
    <2>1. work[l] \in Batch /\ Failed(l, work[l]) /\ faults' \in Nat
      BY <1>10 DEF Throw, DailyTypeOK
    <2> QED BY <1>10, <2>1, FailedType, QuitType DEF Throw, DailyTypeOK
  <1>11. ASSUME NEW l \in Lane, Crash(l) PROVE DailyTypeOK'
    BY <1>11, QuitType DEF Crash, DailyTypeOK
  <1>12. ASSUME NEW b \in Batch, Lapse(b) PROVE DailyTypeOK'
    BY <1>12 DEF Lapse, DailyTypeOK
  <1>13. ASSUME NEW b \in Batch, Backoff(b) PROVE DailyTypeOK'
    BY <1>13 DEF Backoff, DailyTypeOK
  <1>14. ASSUME NEW s \in Schedule, Pass(s) PROVE DailyTypeOK'
    <2>1. Upcoming(s) \in Batch
      BY <1>14, UpcomingIs DEF Pass
    <2>2. today' \in [Schedule -> 0..MaxDay]
      <3>1. today[s] \in 0..MaxDay /\ today[s] < MaxDay /\ MaxDay \in Nat
        BY <1>14, CountAssumption DEF Pass, DailyTypeOK
      <3>2. today[s] + 1 \in 0..MaxDay
        BY <3>1
      <3> QED BY <1>14, <3>2 DEF Pass, DailyTypeOK
    <2> QED BY <1>14, <2>1, <2>2 DEF Pass, DailyTypeOK
  <1>15. ASSUME NEW p \in Project, NEW s \in Schedule \cup {Off}, ChangePolicy(p, s) PROVE DailyTypeOK'
    BY <1>15 DEF ChangePolicy, DailyTypeOK
  <1>16. CASE UNCHANGED vars
    BY <1>16 DEF vars, DailyTypeOK
  <1>17. ASSUME NEW l \in Lane, Begin(l) PROVE DailyTypeOK'
    <2>1. start' \in [Lane -> [Schedule -> 0..MaxDay]]
      BY <1>17 DEF Begin, DailyTypeOK
    <2>2. /\ pc' \in [Lane -> {"idle", "claimed", "begun", "deciding", "sending", "sent"}]
          /\ \A k \in Lane : pc'[k] # "idle" => work'[k] \in Batch
      BY <1>17 DEF Begin, DailyTypeOK
    <2> QED BY <1>17, <2>1, <2>2 DEF Begin, DailyTypeOK
  <1> QED BY <1>1, <1>2, <1>3, <1>4, <1>5, <1>6, <1>7, <1>8, <1>9, <1>10, <1>11, <1>12,
             <1>13, <1>14, <1>15, <1>16, <1>17 DEF Next, LaneStep

\* The tables and the lanes keep their types through every alert, pass, failure and change
\* of the preferences.
THEOREM DailyTypes == Spec => []DailyTypeOK
  BY TypeInit, TypeStep, PTL DEF Spec

(***************************************************************************)
(* how items and usage change                                              *)
(***************************************************************************)
\* An alert is admitted to a batch, or an item leaves the batch of a pass for another.
Admitting ==
    \E i \in Item, c \in Batch :
      /\ place[i] = NoBatch /\ Writable(c) /\ Admit(i, c)
      /\ admitted' = [admitted EXCEPT ![i] = NoBatch]

Moving(l) ==
    \E i \in todo[l], c \in Batch :
      /\ pc[l] = "deciding" /\ Holds(l, work[l]) /\ c[1] # work[l][1]
      /\ Writable(c) /\ MoveItem(i, c)
      /\ UNCHANGED <<taken, live, moved, pc, work, start, revision, email, skipped>>
      /\ todo' = [todo EXCEPT ![l] = todo[l] \ {i}]

\* Alerts wait for their insertion only while they are in no batch.
WaitingIsUnplaced == \A i \in Item : admitted[i] # NoBatch => place[i] = NoBatch

LEMMA MovesInDecide ==
    ASSUME DailyTypeOK, NEW l \in Lane, NEW i \in Item, Decide(l, i)
    PROVE  Moving(l) \/ UNCHANGED itemVars
  <1> DEFINE s == policy[ProjectOf[i]]
  <1>1. pc[l] = "deciding" /\ i \in todo[l] /\ work[l] \in Batch
    BY DEF Decide, DailyTypeOK
  <1>2. CASE s \in {Off, work[l][1]}
    BY <1>2 DEF Decide, batchVars, itemVars
  <1>3. CASE s \notin {Off, work[l][1]}
    <2>1. PICK w \in 1..(start[l][s] + 1) : Reschedule(l, i, s, w) /\ skipped' = skipped
      BY <1>3 DEF Decide
    <2>2. <<s, w>>[1] = s /\ <<s, start[l][s] + 1>>[1] = s
      OBVIOUS
    <2>3. ASSUME NEW c, c[1] = s, Holds(l, work[l]), Writable(c), MoveItem(i, c),
                 UNCHANGED <<taken, live, moved, pc, work, start, revision, email>>,
                 todo' = [todo EXCEPT ![l] = todo[l] \ {i}]
          PROVE  Moving(l)
      <3>1. c \in Batch /\ c[1] # work[l][1]
        BY <1>3, <2>3, WritableIs
      <3> QED BY <1>1, <2>1, <2>3, <3>1 DEF Moving
    <2> QED BY <2>1, <2>2, <2>3 DEF Reschedule, HeldAtStart
  <1> QED BY <1>2, <1>3

LEMMA ItemSteps ==
    ASSUME DailyTypeOK, WaitingIsUnplaced, [Next]_vars
    PROVE  \/ UNCHANGED itemVars
           \/ Admitting
           \/ \E l \in Lane : Moving(l)
           \/ \E l \in Lane, b \in Batch : Claim(l, b)
  <1> USE DEF batchVars, itemVars, laneVars, userVars
  <1>1. ASSUME NEW i \in Item, Insert(i) PROVE UNCHANGED itemVars \/ Admitting
    <2>1. place[i] = NoBatch
      BY <1>1 DEF Insert, WaitingIsUnplaced
    <2>2. ASSUME NEW c, Writable(c), Admit(i, c) PROVE Admitting
      BY <1>1, <2>1, <2>2, WritableIs DEF Admitting, Insert
    <2> QED BY <1>1, <2>2 DEF Insert
  <1>2. ASSUME NEW i \in Item, Raise(i) \/ ResolveIncident(i) PROVE UNCHANGED itemVars
    BY <1>2 DEF Raise, ResolveIncident
  <1>3. ASSUME NEW l \in Lane, Begin(l) \/ List(l) \/ Confirm(l) \/ Deliver(l) PROVE UNCHANGED itemVars
    BY <1>3 DEF Begin, List, Confirm, Deliver
  <1>4. ASSUME NEW l \in Lane, Complete(l) \/ Throw(l) \/ Crash(l) PROVE UNCHANGED itemVars
    BY <1>4 DEF Complete, Throw, Crash
  <1>5. ASSUME NEW b \in Batch, Lapse(b) \/ Backoff(b) PROVE UNCHANGED itemVars
    BY <1>5 DEF Lapse, Backoff
  <1>6. ASSUME NEW s \in Schedule, Pass(s) PROVE UNCHANGED itemVars
    BY <1>6 DEF Pass
  <1>7. ASSUME NEW p \in Project, NEW s \in Schedule \cup {Off}, ChangePolicy(p, s)
        PROVE  UNCHANGED itemVars
    BY <1>7 DEF ChangePolicy
  <1>8. CASE UNCHANGED vars
    BY <1>8 DEF vars
  <1> QED BY <1>1, <1>2, <1>3, <1>4, <1>5, <1>6, <1>7, <1>8, MovesInDecide DEF Next, LaneStep

\* What an admission and a move do to the tables.
LEMMA AdmitEffect ==
    ASSUME DailyTypeOK, NEW i \in Item, NEW c \in Batch, Writable(c), Admit(i, c)
    PROVE  /\ status'[c] = "pending" /\ \A b \in Batch \ {c} : status'[b] = status[b]
           /\ \A k \in Item \ {i} : place'[k] = place[k]
           /\ place'[i] \in {place[i], c}
           /\ usage \subseteq usage' /\ (place'[i] = c => place'[i] = place[i] \/ <<c, ProjectOf[i]>> \in usage')
  BY DEF Admit, Opened, itemVars, DailyTypeOK

LEMMA MoveEffect ==
    ASSUME DailyTypeOK, NEW i \in Item, NEW c \in Batch, Writable(c), MoveItem(i, c)
    PROVE  /\ status'[c] = "pending" /\ \A b \in Batch \ {c} : status'[b] = status[b]
           /\ place'[i] = c /\ \A k \in Item \ {i} : place'[k] = place[k]
           /\ usage \subseteq usage' /\ <<c, ProjectOf[i]>> \in usage'
  BY DEF MoveItem, Opened, DailyTypeOK

LEMMA ClaimEffect ==
    ASSUME DailyTypeOK, NEW l \in Lane, NEW b \in Batch, Claim(l, b)
    PROVE  /\ pc[l] = "idle" /\ status[b] = "pending" /\ status'[b] = "pending"
           /\ \A c \in Batch : c \in live => c[1] # b[1]
           /\ \A c \in Coalesced(b) : /\ c \in Batch /\ c # b /\ c[1] = b[1]
                                      /\ status[c] = "pending" /\ status'[c] = "suppressed"
           /\ \A c \in Batch : c \notin Coalesced(b) => status'[c] = status[c]
           /\ \A i \in Item : place'[i] = IF place[i] \in Coalesced(b) THEN b ELSE place[i]
           /\ usage \subseteq usage'
           /\ \A i \in Item : place[i] \in Coalesced(b) => <<b, ProjectOf[i]>> \in usage'
           /\ owner'[b] = l /\ \A c \in Batch \ {b} : owner'[c] = owner[c]
           /\ live' = live \cup {b}
           /\ taken'[b] = (IF Overdue(b) THEN "late" ELSE "early")
           /\ \A c \in Batch : c # b /\ c \notin Coalesced(b) => taken'[c] = taken[c]
           /\ pc'[l] = "claimed" /\ work'[l] = b
           /\ \A k \in Lane \ {l} : pc'[k] = pc[k] /\ work'[k] = work[k] /\ start'[k] = start[k]
           /\ UNCHANGED <<today, charged, start, todo, email, mailed, faults, admitted>>
           /\ skipped' = skipped \ ItemsIn(b)
  <1>1. pc[l] = "idle" /\ status[b] = "pending" /\ ScheduleIsFree(b[1])
    BY DEF Claim
  <1>2. \A c \in Batch : c \in live => c[1] # b[1]
    BY <1>1 DEF ScheduleIsFree
  <1>3. \A c \in Coalesced(b) : c \in Batch /\ c # b /\ c[1] = b[1] /\ status[c] = "pending"
    BY DEF Coalesced
  <1>4. /\ place' = [i \in Item |-> IF i \in {k \in Item : place[k] \in Coalesced(b)} THEN b ELSE place[i]]
        /\ usage' = usage \cup {<<b, ProjectOf[i]>> : i \in {k \in Item : place[k] \in Coalesced(b)}}
        /\ status' = [c \in Batch |-> IF c \in Coalesced(b) THEN "suppressed" ELSE status[c]]
        /\ taken' = [c \in Batch |->
                       IF c = b THEN IF Overdue(b) THEN "late" ELSE "early"
                       ELSE IF c \in Coalesced(b) THEN "free" ELSE taken[c]]
    BY DEF Claim
  <1>5. /\ \A c \in Coalesced(b) : status'[c] = "suppressed"
        /\ \A c \in Batch : c \notin Coalesced(b) => status'[c] = status[c]
        /\ status'[b] = "pending"
    BY <1>1, <1>3, <1>4
  <1>6. \A i \in Item : place'[i] = IF place[i] \in Coalesced(b) THEN b ELSE place[i]
    BY <1>4
  <1>7. /\ usage \subseteq usage'
        /\ \A i \in Item : place[i] \in Coalesced(b) => <<b, ProjectOf[i]>> \in usage'
    BY <1>4
  <1>8. /\ taken'[b] = (IF Overdue(b) THEN "late" ELSE "early")
        /\ \A c \in Batch : c # b /\ c \notin Coalesced(b) => taken'[c] = taken[c]
    BY <1>4
  <1>9. /\ owner'[b] = l /\ \A c \in Batch \ {b} : owner'[c] = owner[c]
        /\ live' = live \cup {b}
        /\ pc'[l] = "claimed" /\ work'[l] = b
        /\ \A k \in Lane \ {l} : pc'[k] = pc[k] /\ work'[k] = work[k]
    BY DEF Claim, DailyTypeOK
  <1>10. \A k \in Lane \ {l} : start'[k] = start[k]
    BY DEF Claim
  <1>11. /\ UNCHANGED <<today, charged, start, todo, email, mailed, faults, admitted>>
         /\ skipped' = skipped \ ItemsIn(b)
    BY DEF Claim
  <1> QED BY <1>1, <1>2, <1>3, <1>5, <1>6, <1>7, <1>8, <1>9, <1>10, <1>11

\* An alert that waits after a step was in no batch before it.
LEMMA AdmittedStep ==
    ASSUME DailyTypeOK, WaitingIsUnplaced, [Next]_vars, NEW i \in Item, admitted'[i] # NoBatch
    PROVE  place[i] = NoBatch
  <1> USE DEF batchVars, itemVars, laneVars, userVars
  <1>1. CASE admitted' = admitted
    BY <1>1 DEF WaitingIsUnplaced
  <1>2. ASSUME NEW k \in Item, Raise(k) PROVE place[i] = NoBatch
    BY <1>2 DEF Raise, WaitingIsUnplaced, DailyTypeOK
  <1>3. ASSUME NEW k \in Item, Insert(k) PROVE place[i] = NoBatch
    BY <1>3 DEF Insert, WaitingIsUnplaced, DailyTypeOK
  <1>4. ASSUME NEW k \in Item, ResolveIncident(k) PROVE admitted' = admitted
    BY <1>4 DEF ResolveIncident
  <1>5. ASSUME NEW l \in Lane, LaneStep(l) PROVE admitted' = admitted
    BY <1>5 DEF LaneStep, Claim, Begin, List, Decide, Confirm, Deliver, Complete, Throw, Crash
  <1>6. ASSUME NEW b \in Batch, Lapse(b) \/ Backoff(b) PROVE admitted' = admitted
    BY <1>6 DEF Lapse, Backoff
  <1>7. ASSUME NEW s \in Schedule, Pass(s) PROVE admitted' = admitted
    BY <1>7 DEF Pass
  <1>8. ASSUME NEW p \in Project, NEW s \in Schedule \cup {Off}, ChangePolicy(p, s)
        PROVE  admitted' = admitted
    BY <1>8 DEF ChangePolicy
  <1>9. CASE UNCHANGED vars
    BY <1>1, <1>9 DEF vars
  <1> QED BY <1>1, <1>2, <1>3, <1>4, <1>5, <1>6, <1>7, <1>8, <1>9 DEF Next

(***************************************************************************)
(* the usage of projects                                                   *)
(***************************************************************************)
\* Wherever its items are, a project has a usage row.
UsageCoversItems == \A i \in Item : place[i] # NoBatch => <<place[i], ProjectOf[i]>> \in usage

LEMMA UsageStep ==
    ASSUME DailyTypeOK, WaitingIsUnplaced, UsageCoversItems, [Next]_vars
    PROVE  UsageCoversItems'
  <1>1. CASE UNCHANGED itemVars
    BY <1>1 DEF itemVars, UsageCoversItems
  <1>2. CASE Admitting
    <2>1. PICK i \in Item, c \in Batch : place[i] = NoBatch /\ Writable(c) /\ Admit(i, c)
      BY <1>2 DEF Admitting
    <2> QED BY <2>1, AdmitEffect DEF UsageCoversItems
  <1>3. ASSUME NEW l \in Lane, Moving(l) PROVE UsageCoversItems'
    <2>1. PICK i \in Item, c \in Batch : Writable(c) /\ MoveItem(i, c)
      BY <1>3 DEF Moving, DailyTypeOK
    <2> QED BY <2>1, MoveEffect DEF UsageCoversItems
  <1>4. ASSUME NEW l \in Lane, NEW b \in Batch, Claim(l, b) PROVE UsageCoversItems'
    <2>1. /\ \A i \in Item : place'[i] = IF place[i] \in Coalesced(b) THEN b ELSE place[i]
          /\ usage \subseteq usage'
          /\ \A i \in Item : place[i] \in Coalesced(b) => <<b, ProjectOf[i]>> \in usage'
      BY <1>4, ClaimEffect
    <2> QED BY <2>1 DEF UsageCoversItems
  <1> QED BY <1>1, <1>2, <1>3, <1>4, ItemSteps

(***************************************************************************)
(* the pass of a lane                                                      *)
(***************************************************************************)
\* A lane has listed the items of a batch whose window it found due.
Due(l) == pc[l] \in {"deciding", "sending", "sent"} /\ ~ Future(l)

\* A lane between its claim and its end, of the batch it works on.
PassOK(l) ==
    /\ pc[l] \in {"idle", "claimed", "begun"} => email[l] = {} /\ todo[l] = {}
    /\ todo[l] \cap email[l] = {}
    /\ pc[l] \in {"sending", "sent"} => Due(l) /\ todo[l] = {}
    /\ pc[l] = "sent" => \A i \in email[l] : mailed[i] > 0
    /\ pc[l] # "idle" =>
         /\ status[work[l]] # "absent"
         /\ pc[l] # "claimed" /\ ~ Future(l) => Overdue(work[l])
         /\ Holds(l, work[l]) => (todo[l] \cup email[l]) \subseteq ItemsIn(work[l])
         /\ Holds(l, work[l]) /\ Due(l) => taken[work[l]] = "late"
         /\ pc[l] = "deciding" /\ Holds(l, work[l]) /\ Due(l) =>
              ItemsIn(work[l]) \subseteq (todo[l] \cup email[l] \cup skipped)
         /\ pc[l] \in {"sending", "sent"} /\ Holds(l, work[l]) =>
              ItemsIn(work[l]) \subseteq (email[l] \cup skipped)

LeasesArePending == \A b \in live : status[b] = "pending"

PassInv == LeasesArePending /\ WaitingIsUnplaced /\ \A l \in Lane : PassOK(l)

\* What a step may do to the pass of a lane that does not take it.
Undisturbed(k) ==
    /\ pc'[k] = pc[k] /\ work'[k] = work[k] /\ start'[k] = start[k]
    /\ todo'[k] = todo[k] /\ email'[k] = email[k]
    /\ \A i \in Item : mailed[i] <= mailed'[i]
    /\ pc[k] # "idle" =>
         /\ status'[work[k]] # "absent"
         /\ Overdue(work[k]) => work[k][2] <= today'[work[k][1]]
         /\ owner'[work[k]] = k /\ status'[work[k]] = "pending" =>
              /\ Holds(k, work[k])
              /\ Due(k) => taken'[work[k]] = "late"
              /\ Due(k) => \A i \in Item : place'[i] = work[k] => place[i] = work[k]
              /\ \A i \in Item : place[i] = work[k] /\ i \in skipped => i \in skipped'
              /\ \A i \in Item : place[i] = work[k] => place'[i] = work[k]
              /\ work[k] \in live' => work[k] \in live

LEMMA PassKept ==
    ASSUME DailyTypeOK, DailyTypeOK', NEW k \in Lane, PassOK(k), Undisturbed(k)
    PROVE  PassOK(k)'
  <1>1. /\ pc'[k] = pc[k] /\ work'[k] = work[k] /\ start'[k] = start[k]
        /\ todo'[k] = todo[k] /\ email'[k] = email[k]
        /\ email[k] \subseteq Item /\ todo[k] \subseteq Item
        /\ \A i \in Item : mailed[i] \in Nat /\ mailed'[i] \in Nat /\ mailed[i] <= mailed'[i]
    BY DEF Undisturbed, DailyTypeOK
  <1>2. /\ pc[k] \in {"idle", "claimed", "begun"} => email[k] = {} /\ todo[k] = {}
        /\ todo[k] \cap email[k] = {}
        /\ pc[k] \in {"sending", "sent"} => Due(k) /\ todo[k] = {}
        /\ pc[k] = "sent" => \A i \in email[k] : mailed[i] > 0
    BY DEF PassOK
  <1>3. pc[k] = "sent" => \A i \in email[k] : mailed'[i] > 0
    BY <1>1, <1>2
  <1>4. (Future(k)' <=> Future(k)) /\ (Due(k)' <=> Due(k))
    BY <1>1 DEF Future, Due
  <1>5. CASE pc[k] = "idle"
    BY <1>1, <1>2, <1>3, <1>4, <1>5 DEF PassOK
  <1>6. CASE pc[k] # "idle"
    <2> DEFINE b == work[k]
               H2 == owner'[b] = k /\ status'[b] = "pending"
    <2>1. /\ status'[b] # "absent"
          /\ pc[k] # "claimed" /\ ~ Future(k) => b[2] <= today'[b[1]]
      BY <1>6 DEF PassOK, Undisturbed
    <2>2. H2 => /\ Holds(k, b)
                /\ Due(k) => taken'[b] = "late"
                /\ Due(k) => \A i \in Item : place'[i] = b => place[i] = b
                /\ \A i \in Item : place[i] = b /\ i \in skipped => i \in skipped'
                /\ \A i \in Item : place[i] = b => place'[i] = b
      BY <1>6 DEF Undisturbed
    <2>3. H2 => \A i \in todo[k] \cup email[k] : place'[i] = b
      BY <1>1, <1>6, <2>2 DEF PassOK, ItemsIn
    <2>4. pc[k] = "deciding" /\ H2 /\ Due(k) =>
            \A i \in Item : place'[i] = b => i \in todo[k] \cup email[k] \cup skipped'
      BY <1>6, <2>2 DEF PassOK, ItemsIn
    <2>5. pc[k] \in {"sending", "sent"} /\ H2 =>
            \A i \in Item : place'[i] = b => i \in email[k] \cup skipped'
      BY <1>2, <1>6, <2>2 DEF PassOK, ItemsIn
    <2>6. /\ Holds(k, work[k])' <=> H2
          /\ ItemsIn(work[k])' = {i \in Item : place'[i] = b}
          /\ Overdue(work[k])' <=> b[2] <= today'[b[1]]
      BY <1>1 DEF Holds, ItemsIn, Overdue
    <2> HIDE DEF H2
    <2>7. /\ status'[b] # "absent"
          /\ pc[k] # "claimed" /\ ~ Future(k) => Overdue(work[k])'
          /\ Holds(k, work[k])' => (todo[k] \cup email[k]) \subseteq ItemsIn(work[k])'
          /\ Holds(k, work[k])' /\ Due(k) => taken'[b] = "late"
          /\ pc[k] = "deciding" /\ Holds(k, work[k])' /\ Due(k) =>
               ItemsIn(work[k])' \subseteq (todo[k] \cup email[k] \cup skipped')
          /\ pc[k] \in {"sending", "sent"} /\ Holds(k, work[k])' =>
               ItemsIn(work[k])' \subseteq (email[k] \cup skipped')
      BY <1>1, <2>1, <2>2, <2>3, <2>4, <2>5, <2>6
    <2> QED BY <1>1, <1>2, <1>3, <1>4, <2>7 DEF PassOK
  <1> QED BY <1>5, <1>6

\* Steps that move no item and take no lease leave every other pass alone.
QuietFor(l) ==
    /\ UNCHANGED <<place, owner, today>>
    /\ \A i \in Item : mailed[i] <= mailed'[i]
    /\ live' \subseteq live /\ skipped \subseteq skipped'
    /\ \A b \in live : b \in live' \/ owner[b] = l
    /\ \A k \in Lane \ {l} : /\ pc'[k] = pc[k] /\ work'[k] = work[k] /\ start'[k] = start[k]
                             /\ todo'[k] = todo[k] /\ email'[k] = email[k]
    /\ \A b \in Batch :
         \/ status'[b] = status[b] /\ taken'[b] = taken[b]
         \/ owner[b] = l /\ status'[b] # "absent" /\ (b \in live' => status'[b] = "pending")

LEMMA QuietKeeps ==
    ASSUME DailyTypeOK, NEW l, QuietFor(l), NEW k \in Lane \ {l}, PassOK(k)
    PROVE  Undisturbed(k)
  <1>1. CASE pc[k] = "idle"
    BY <1>1 DEF QuietFor, Undisturbed
  <1>2. CASE pc[k] # "idle"
    <2> DEFINE b == work[k]
    <2>1. /\ b \in Batch /\ status[b] # "absent"
          /\ Holds(k, b) /\ Due(k) => taken[b] = "late"
         
      BY <1>2 DEF PassOK, DailyTypeOK
    <2>2. /\ owner' = owner /\ today' = today /\ place' = place
          /\ live' \subseteq live /\ skipped \subseteq skipped'
          /\ \/ status'[b] = status[b] /\ taken'[b] = taken[b]
             \/ owner[b] # k /\ status'[b] # "absent"
      BY <2>1 DEF QuietFor
    <2>3. owner'[b] = k /\ status'[b] = "pending" =>
            /\ Holds(k, b)
            /\ Due(k) => taken'[b] = "late"
      BY <2>1, <2>2 DEF Holds
    <2>4. Overdue(b) => b[2] <= today'[b[1]]
      BY <2>2 DEF Overdue
    <2> QED BY <2>1, <2>2, <2>3, <2>4 DEF QuietFor, Undisturbed
  <1> QED BY <1>1, <1>2

LEMMA QuietLeases ==
    ASSUME DailyTypeOK, LeasesArePending, NEW l, QuietFor(l)
    PROVE  LeasesArePending'
  BY DEF QuietFor, LeasesArePending, DailyTypeOK

LEMMA QuitPass ==
    ASSUME DailyTypeOK, NEW l \in Lane, Quit(l)
    PROVE  PassOK(l)'
  BY DEF Quit, PassOK, DailyTypeOK

LEMMA QuitOthers ==
    ASSUME DailyTypeOK, NEW l \in Lane, Quit(l), NEW k \in Lane \ {l}
    PROVE  /\ pc'[k] = pc[k] /\ work'[k] = work[k] /\ start'[k] = start[k]
           /\ todo'[k] = todo[k] /\ email'[k] = email[k]
  BY DEF Quit, DailyTypeOK

LEMMA FailedQuiet ==
    ASSUME DailyTypeOK, NEW l \in Lane, NEW b \in Batch, Failed(l, b),
           UNCHANGED <<place, owner, today, mailed, skipped>>
    PROVE  QuietFor(l) /\ PassOK(l)'
  <1>1. Quit(l)
    BY DEF Failed
  <1>2. \A i \in Item : mailed[i] <= mailed'[i]
    BY DEF DailyTypeOK
  <1>3. live' \subseteq live /\ \A c \in live : c \in live' \/ owner[c] = l
    BY DEF Failed, Holds
  <1>4. ASSUME NEW c \in Batch
        PROVE  \/ status'[c] = status[c] /\ taken'[c] = taken[c]
               \/ owner[c] = l /\ status'[c] # "absent" /\ (c \in live' => status'[c] = "pending")
    BY DEF Failed, Holds, DailyTypeOK
  <1> QED BY <1>1, <1>2, <1>3, <1>4, QuitOthers, QuitPass DEF QuietFor

LEMMA ListPass ==
    ASSUME DailyTypeOK, LeasesArePending, NEW l \in Lane, PassOK(l), List(l)
    PROVE  QuietFor(l) /\ PassOK(l)'
  <1> DEFINE b == work[l]
  <1>1. pc[l] = "begun" /\ b \in Batch /\ email[l] = {}
    BY DEF List, PassOK, DailyTypeOK
  <1>2. /\ UNCHANGED <<today, status, owner, live, place, mailed>>
        /\ \A i \in Item : mailed[i] <= mailed'[i]
    BY DEF List, itemVars, DailyTypeOK
  <1>3. CASE HoldsLive(l, b)
    <2>1. /\ taken' = Renewed(b)
          /\ todo' = [todo EXCEPT ![l] = ItemsIn(b) \ resolved]
          /\ skipped' = IF Future(l) THEN skipped ELSE skipped \cup (ItemsIn(b) \cap resolved)
          /\ pc' = [pc EXCEPT ![l] = "deciding"]
          /\ UNCHANGED <<work, start, email>>
      BY <1>3 DEF List
    <2>2. /\ \A c \in Batch \ {b} : taken'[c] = taken[c]
          /\ Overdue(b) => taken'[b] = "late"
      BY <1>1, <2>1 DEF Renewed, DailyTypeOK
    <2>3. owner[b] = l /\ status[b] = "pending" /\ status' = status
      BY <1>2, <1>3 DEF HoldsLive, Holds
    <2>4. /\ pc'[l] = "deciding" /\ work'[l] = b /\ start'[l] = start[l]
          /\ todo'[l] = ItemsIn(b) \ resolved /\ email'[l] = {}
          /\ \A k \in Lane \ {l} : /\ pc'[k] = pc[k] /\ work'[k] = work[k] /\ start'[k] = start[k]
                                   /\ todo'[k] = todo[k] /\ email'[k] = email[k]
      BY <1>1, <2>1 DEF DailyTypeOK
    <2>5. QuietFor(l)
      BY <1>2, <2>1, <2>2, <2>3, <2>4 DEF QuietFor
    <2>6. /\ ItemsIn(work[l])' = ItemsIn(b) /\ Overdue(work[l])' = Overdue(b)
          /\ Future(l)' = Future(l) /\ (Due(l)' => ~ Future(l))
      BY <1>2, <2>4 DEF ItemsIn, Overdue, Future, Due
    <2>7. ~ Future(l) => ItemsIn(b) \subseteq (todo'[l] \cup skipped')
      BY <2>1, <2>4 DEF ItemsIn
    <2>8. ~ Future(l) => Overdue(b)
      BY <1>1 DEF PassOK
    <2> QED BY <2>2, <2>3, <2>4, <2>5, <2>6, <2>7, <2>8 DEF PassOK
  <1>4. CASE ~ HoldsLive(l, b)
    <2>1. Quit(l) /\ UNCHANGED <<taken, skipped>>
      BY <1>4 DEF List
    <2> QED BY <1>2, <2>1, QuitPass, QuitOthers DEF QuietFor
  <1> QED BY <1>3, <1>4

LEMMA BeginPass ==
    ASSUME DailyTypeOK, NEW l \in Lane, PassOK(l), Begin(l)
    PROVE  QuietFor(l) /\ PassOK(l)'
  <1> DEFINE b == work[l]
  <1>1. /\ pc[l] = "claimed" /\ pc'[l] = "begun" /\ start'[l] = today /\ b \in Batch
        /\ \A k \in Lane \ {l} : pc'[k] = pc[k] /\ start'[k] = start[k]
        /\ \A i \in Item : mailed[i] <= mailed[i]
    BY DEF Begin, DailyTypeOK
  <1>2. UNCHANGED <<today, status, owner, taken, live, place, work, todo, email, mailed, skipped>>
    BY DEF Begin, batchVars, itemVars
  <1>3. QuietFor(l)
    BY <1>1, <1>2 DEF QuietFor
  <1>4. ~ Future(l)' => Overdue(work[l])'
    <2>1. b[1] \in Schedule /\ b[2] \in Nat /\ today[b[1]] \in Nat
      BY <1>1, BatchFacts DEF Day, DailyTypeOK
    <2> QED BY <1>1, <1>2, <2>1 DEF Future, Overdue
  <1>5. (Holds(l, work[l])' <=> Holds(l, b)) /\ ~ Due(l)'
    BY <1>1, <1>2 DEF Holds, Due
  <1> QED BY <1>1, <1>2, <1>3, <1>4, <1>5 DEF PassOK

LEMMA DecidePass ==
    ASSUME DailyTypeOK, LeasesArePending, NEW l \in Lane, PassOK(l), NEW i \in Item, Decide(l, i)
    PROVE  PassOK(l)' /\ (QuietFor(l) \/ Moving(l))
  <1> DEFINE b == work[l]
             s == policy[ProjectOf[i]]
  <1>1. /\ pc[l] = "deciding" /\ i \in todo[l] /\ b \in Batch
        /\ todo[l] \cap email[l] = {}
        /\ status[b] # "absent" /\ (~ Future(l) => Overdue(b)) /\ (Due(l) <=> ~ Future(l))
        /\ Holds(l, b) => (todo[l] \cup email[l]) \subseteq ItemsIn(b)
        /\ Holds(l, b) /\ Due(l) => taken[b] = "late"
        /\ Holds(l, b) /\ Due(l) => ItemsIn(b) \subseteq (todo[l] \cup email[l] \cup skipped)
    BY DEF Decide, PassOK, Due, DailyTypeOK
  <1>2. /\ today' = today /\ mailed' = mailed
        /\ \A k \in Item : mailed[k] <= mailed'[k]
    BY DEF Decide, DailyTypeOK
  <1>3. CASE /\ todo' = [todo EXCEPT ![l] = todo[l] \ {i}]
             /\ email' = [email EXCEPT ![l] =
                            IF s = Off \/ Future(l) THEN email[l] ELSE email[l] \cup {i}]
             /\ skipped' = IF s = Off /\ ~ Future(l) THEN skipped \cup {i} ELSE skipped
             /\ UNCHANGED <<batchVars, itemVars, pc, work, start, revision>>
    <2>1. /\ UNCHANGED <<status, owner, taken, live, place, pc, work, start>>
          /\ skipped \subseteq skipped'
      BY <1>3 DEF batchVars, itemVars
    <2>2. /\ todo'[l] = todo[l] \ {i}
          /\ email'[l] = IF s = Off \/ Future(l) THEN email[l] ELSE email[l] \cup {i}
          /\ \A k \in Lane \ {l} : todo'[k] = todo[k] /\ email'[k] = email[k]
      BY <1>3 DEF DailyTypeOK
    <2>3. QuietFor(l)
      BY <1>2, <2>1, <2>2 DEF QuietFor
    <2>4. /\ Future(l)' = Future(l) /\ Due(l)' = Due(l) /\ Holds(l, work[l])' = Holds(l, b)
          /\ ItemsIn(work[l])' = ItemsIn(b) /\ Overdue(work[l])' = Overdue(b)
      BY <1>2, <2>1 DEF Future, Due, Holds, ItemsIn, Overdue
    <2>5. ~ Future(l) => (todo[l] \cup email[l] \cup skipped) \subseteq (todo'[l] \cup email'[l] \cup skipped')
      BY <1>1, <1>3, <2>2
    <2>6. todo'[l] \cap email'[l] = {} /\ (todo'[l] \cup email'[l]) \subseteq (todo[l] \cup email[l])
      BY <1>1, <2>2
    <2> QED BY <1>1, <2>1, <2>3, <2>4, <2>5, <2>6 DEF PassOK
  <1>4. CASE s \notin {Off, b[1]} /\ \E w \in 1..(start[l][s] + 1) : Reschedule(l, i, s, w)
    <2>1. PICK w \in 1..(start[l][s] + 1) : Reschedule(l, i, s, w)
      BY <1>4
    <2>2. skipped' = skipped /\ owner' = owner /\ s # b[1]
      BY <1>4 DEF Decide
    <2>3. ASSUME NEW c, c[1] = s, Holds(l, b), Writable(c), MoveItem(i, c),
                 UNCHANGED <<taken, live, moved, pc, work, start, revision, email>>,
                 todo' = [todo EXCEPT ![l] = todo[l] \ {i}]
          PROVE  PassOK(l)' /\ Moving(l)
      <3>1. c \in Batch /\ c # b
        BY <2>2, <2>3, WritableIs
      <3>2. Moving(l)
        BY <1>1, <2>2, <2>3, <3>1 DEF Moving
      <3>3. /\ status'[b] = status[b]
            /\ place'[i] = c /\ \A k \in Item \ {i} : place'[k] = place[k]
        BY <1>1, <2>3, <3>1, MoveEffect
      <3>4. todo'[l] = todo[l] \ {i} /\ email' = email /\ pc' = pc /\ work' = work /\ start' = start
        BY <2>3 DEF DailyTypeOK
      <3>5. /\ Future(l)' = Future(l) /\ Due(l)' = Due(l) /\ Holds(l, work[l])' = Holds(l, b)
            /\ Overdue(work[l])' = Overdue(b)
        BY <1>2, <2>2, <2>3, <3>3, <3>4 DEF Future, Due, Holds, Overdue
      <3>6. ItemsIn(work[l])' = ItemsIn(b) \ {i}
        BY <3>1, <3>3, <3>4 DEF ItemsIn
      <3>7. /\ todo'[l] \cap email'[l] = {}
            /\ (todo'[l] \cup email'[l]) \subseteq ItemsIn(b) \ {i}
            /\ ~ Future(l) => ItemsIn(b) \ {i} \subseteq (todo'[l] \cup email'[l] \cup skipped')
        BY <1>1, <2>2, <2>3, <3>4
      <3> QED BY <1>1, <2>2, <2>3, <3>2, <3>3, <3>4, <3>5, <3>6, <3>7 DEF PassOK
    <2>4. ASSUME Failed(l, b), UNCHANGED itemVars PROVE PassOK(l)' /\ QuietFor(l)
      BY <1>1, <1>2, <2>2, <2>4, FailedQuiet DEF itemVars
    <2>5. ASSUME ~ HeldAtStart(l, b), todo' = [todo EXCEPT ![l] = todo[l] \ {i}],
                 UNCHANGED <<status, taken, live, ready, moved, itemVars, pc, work, start,
                             revision, email>>
          PROVE  PassOK(l)' /\ QuietFor(l)
      <3>1. todo'[l] = todo[l] \ {i} /\ \A k \in Lane \ {l} : todo'[k] = todo[k]
        BY <2>5 DEF DailyTypeOK
      <3>2. QuietFor(l)
        BY <1>2, <2>2, <2>5, <3>1 DEF QuietFor, itemVars
      <3>3. UNCHANGED <<today, status, owner, taken, place, pc, work, start, email, skipped>>
        BY <1>2, <2>2, <2>5 DEF itemVars
      <3>4. /\ Future(l)' <=> Future(l)
            /\ Due(l)' <=> Due(l)
            /\ Holds(l, work[l])' <=> Holds(l, b)
        BY <3>3 DEF Future, Due, Holds
      <3>5. Overdue(work[l])' <=> Overdue(b)
        BY <3>3 DEF Overdue
      <3>6. ItemsIn(work[l])' = ItemsIn(b)
        BY <3>3 DEF ItemsIn
      <3>7. ~ (Holds(l, b) /\ Due(l))
        BY <1>1, <2>5 DEF HeldAtStart
      <3> QED BY <1>1, <3>1, <3>2, <3>3, <3>4, <3>5, <3>6, <3>7 DEF PassOK
    <2>6. <<s, w>>[1] = s /\ <<s, start[l][s] + 1>>[1] = s
      OBVIOUS
    <2>7. HeldAtStart(l, b) => Holds(l, b)
      BY DEF HeldAtStart
    <2> QED BY <2>1, <2>3, <2>4, <2>5, <2>6, <2>7 DEF Reschedule
  <1> QED BY <1>3, <1>4 DEF Decide

LEMMA ConfirmPass ==
    ASSUME DailyTypeOK, LeasesArePending, NEW l \in Lane, PassOK(l), Confirm(l)
    PROVE  QuietFor(l) /\ PassOK(l)'
  <1> DEFINE b == work[l]
  <1>1. /\ pc[l] = "deciding" /\ b \in Batch /\ todo[l] = {}
        /\ UNCHANGED <<today, status, owner, place, mailed, skipped>>
        /\ \A i \in Item : mailed[i] <= mailed'[i]
    BY DEF Confirm, itemVars, DailyTypeOK
  <1>2. ASSUME Quit(l), UNCHANGED <<taken, live>> PROVE QuietFor(l) /\ PassOK(l)'
    BY <1>1, <1>2, QuitPass, QuitOthers DEF QuietFor
  <1>3. ASSUME HoldsLive(l, b), Quit(l), NEW u, Deferred(b, u) PROVE QuietFor(l) /\ PassOK(l)'
    <2>1. /\ owner[b] = l /\ status[b] = "pending" /\ live' = live \ {b}
          /\ \A c \in Batch \ {b} : taken'[c] = taken[c]
      BY <1>3 DEF Deferred, HoldsLive, Holds, DailyTypeOK
    <2> QED BY <1>1, <1>3, <2>1, QuitPass, QuitOthers DEF QuietFor
  <1>4. ASSUME HoldsLive(l, b), ~ Future(l), taken' = Renewed(b), pc' = [pc EXCEPT ![l] = "sending"],
               UNCHANGED <<live, work, start, todo, email>>
        PROVE  QuietFor(l) /\ PassOK(l)'
    <2>1. /\ owner[b] = l /\ status[b] = "pending"
          /\ \A c \in Batch \ {b} : taken'[c] = taken[c]
          /\ Overdue(b) => taken'[b] = "late"
      BY <1>1, <1>4 DEF Renewed, HoldsLive, Holds, DailyTypeOK
    <2>2. pc'[l] = "sending" /\ \A k \in Lane \ {l} : pc'[k] = pc[k]
      BY <1>4 DEF DailyTypeOK
    <2>3. QuietFor(l)
      BY <1>1, <1>4, <2>1, <2>2 DEF QuietFor
    <2>4. /\ Overdue(b)
          /\ (todo[l] \cup email[l]) \subseteq ItemsIn(b)
          /\ ItemsIn(b) \subseteq (email[l] \cup skipped)
      BY <1>1, <1>4 DEF PassOK, Due, HoldsLive
    <2>5. /\ Overdue(work[l])' = Overdue(b) /\ ItemsIn(work[l])' = ItemsIn(b)
          /\ Due(l)' /\ Future(l)' = Future(l)
      BY <1>1, <1>4, <2>2 DEF Overdue, ItemsIn, Due, Future
    <2> QED BY <1>1, <1>4, <2>1, <2>2, <2>3, <2>4, <2>5 DEF PassOK
  <1> QED BY <1>2, <1>3, <1>4 DEF Confirm

LEMMA DeliverPass ==
    ASSUME DailyTypeOK, LeasesArePending, NEW l \in Lane, PassOK(l), Deliver(l)
    PROVE  QuietFor(l) /\ PassOK(l)'
  <1>1. /\ pc[l] = "sending" /\ work[l] \in Batch /\ email[l] \subseteq Item
        /\ UNCHANGED <<today, status, owner, taken, live, place, work, start, todo, email, skipped>>
    BY DEF Deliver, batchVars, itemVars, DailyTypeOK
  <1>2. pc'[l] = "sent" /\ \A k \in Lane \ {l} : pc'[k] = pc[k]
    BY DEF Deliver, DailyTypeOK
  <1>3. /\ \A i \in Item : mailed[i] <= mailed'[i]
        /\ \A i \in email[l] : mailed'[i] > 0
    BY <1>1 DEF Deliver, DailyTypeOK
  <1>4. QuietFor(l)
    BY <1>1, <1>2, <1>3 DEF QuietFor
  <1>5. /\ Overdue(work[l])' = Overdue(work[l]) /\ ItemsIn(work[l])' = ItemsIn(work[l])
        /\ Holds(l, work[l])' = Holds(l, work[l]) /\ Future(l)' = Future(l)
    BY <1>1 DEF Overdue, ItemsIn, Holds, Future
  <1>6. Due(l) /\ Due(l)'
    BY <1>1, <1>2, <1>5 DEF PassOK, Due
  <1> QED BY <1>1, <1>2, <1>3, <1>4, <1>5, <1>6 DEF PassOK

LEMMA EndPass ==
    ASSUME DailyTypeOK, LeasesArePending, NEW l \in Lane, PassOK(l),
           Complete(l) \/ Throw(l) \/ Crash(l)
    PROVE  QuietFor(l) /\ PassOK(l)'
  <1>1. \A i \in Item : mailed[i] <= mailed[i]
    BY DEF DailyTypeOK
  <1>2. CASE Throw(l)
    BY <1>2, FailedQuiet DEF Throw, itemVars, DailyTypeOK
  <1>3. CASE Crash(l)
    BY <1>1, <1>3, QuitPass, QuitOthers DEF Crash, QuietFor, itemVars, batchVars
  <1>4. CASE Complete(l)
    <2>1. /\ Quit(l) /\ work[l] \in Batch
          /\ UNCHANGED <<today, owner, place, mailed, skipped>>
      BY <1>4 DEF Complete, itemVars, DailyTypeOK
    <2>2. live' \subseteq live /\ \A c \in live : c \in live' \/ owner[c] = l
      BY <1>4 DEF Complete, Holds
    <2>3. ASSUME NEW c \in Batch
          PROVE  \/ status'[c] = status[c] /\ taken'[c] = taken[c]
                 \/ owner[c] = l /\ status'[c] # "absent" /\ (c \in live' => status'[c] = "pending")
      BY <1>4, <2>1 DEF Complete, Holds, DailyTypeOK
    <2> QED BY <1>1, <2>1, <2>2, <2>3, QuitPass, QuitOthers DEF QuietFor
  <1> QED BY <1>2, <1>3, <1>4

\* A move out of a batch its lane holds: another pass neither loses nor gains by it.
LEMMA MovingOthers ==
    ASSUME DailyTypeOK, PassInv, NEW l \in Lane, Moving(l), DailyTypeOK', NEW k \in Lane \ {l},
           UNCHANGED <<owner, today, mailed>>
    PROVE  Undisturbed(k)
  <1>1. PICK i \in todo[l], c \in Batch :
          /\ pc[l] = "deciding" /\ Holds(l, work[l])
          /\ Writable(c) /\ MoveItem(i, c)
          /\ UNCHANGED <<taken, live, moved, pc, work, start, revision, email, skipped>>
          /\ todo' = [todo EXCEPT ![l] = todo[l] \ {i}]
    BY DEF Moving
  <1>2. /\ i \in Item /\ place[i] = work[l] /\ owner[work[l]] = l
        /\ taken[c] # "late" /\ todo'[k] = todo[k]
    BY <1>1, WritableIs DEF PassInv, PassOK, Holds, ItemsIn, DailyTypeOK
  <1>3. /\ status'[c] = "pending" /\ status[c] \in {"absent", "pending"}
        /\ \A b \in Batch \ {c} : status'[b] = status[b]
        /\ place'[i] = c /\ \A j \in Item \ {i} : place'[j] = place[j]
    BY <1>1, <1>2, MoveEffect, WritableIs
  <1>4. \A j \in Item : mailed[j] <= mailed'[j]
    BY DEF DailyTypeOK
  <1>5. CASE pc[k] = "idle"
    BY <1>1, <1>2, <1>4, <1>5 DEF Undisturbed
  <1>6. CASE pc[k] # "idle"
    <2> DEFINE b == work[k]
    <2>1. /\ b \in Batch /\ status[b] # "absent"
          /\ Holds(k, b) /\ Due(k) => taken[b] = "late"
      BY <1>6 DEF PassInv, PassOK, DailyTypeOK
    <2>2. status'[b] # "absent" /\ (status'[b] = "pending" => status[b] = "pending")
      BY <1>3, <2>1
    <2>3. owner[b] = k => b # work[l]
      BY <1>2
    <2>4. owner[b] = k /\ status'[b] = "pending" =>
            /\ Holds(k, b)
            /\ Due(k) => taken'[b] = "late"
            /\ Due(k) => \A j \in Item : place'[j] = b => place[j] = b
            /\ \A j \in Item : place[j] = b => place'[j] = b
      BY <1>1, <1>2, <1>3, <2>1, <2>2, <2>3 DEF Holds
    <2>5. Overdue(b) => b[2] <= today'[b[1]]
      BY DEF Overdue
    <2> QED BY <1>1, <1>2, <1>4, <2>2, <2>4, <2>5 DEF Undisturbed
  <1> QED BY <1>5, <1>6

LEMMA ClaimPass ==
    ASSUME DailyTypeOK, PassInv, NEW l \in Lane, NEW b \in Batch, Claim(l, b)
    PROVE  PassOK(l)' /\ LeasesArePending'
  <1>1. PassOK(l) /\ pc[l] = "idle" /\ status'[b] = "pending"
        /\ pc'[l] = "claimed" /\ work'[l] = b
        /\ UNCHANGED <<today, todo, email>>
    BY ClaimEffect DEF PassInv
  <1>2. todo'[l] = {} /\ email'[l] = {}
    BY <1>1 DEF PassOK
  <1>3. ~ Due(l)'
    BY <1>1 DEF Due
  <1>4. PassOK(l)'
    BY <1>1, <1>2, <1>3 DEF PassOK
  <1>5. ASSUME NEW c \in live' PROVE status'[c] = "pending"
    <2>1. /\ live' = live \cup {b} /\ live \subseteq Batch
          /\ \A d \in Batch : d \in live => d[1] # b[1]
          /\ \A d \in Coalesced(b) : d[1] = b[1]
          /\ \A d \in Batch : d \notin Coalesced(b) => status'[d] = status[d]
      BY ClaimEffect DEF DailyTypeOK
    <2> QED BY <1>1, <1>5, <2>1 DEF PassInv, LeasesArePending
  <1> QED BY <1>4, <1>5 DEF LeasesArePending

LEMMA ClaimOthers ==
    ASSUME DailyTypeOK, PassInv, NEW l \in Lane, NEW b \in Batch, Claim(l, b), NEW k \in Lane \ {l}
    PROVE  Undisturbed(k)
  <1>1. /\ pc'[k] = pc[k] /\ work'[k] = work[k] /\ start'[k] = start[k]
        /\ todo'[k] = todo[k] /\ email'[k] = email[k]
        /\ today' = today /\ \A j \in Item : mailed[j] <= mailed'[j]
    BY ClaimEffect DEF DailyTypeOK
  <1>2. CASE pc[k] = "idle"
    BY <1>1, <1>2 DEF Undisturbed
  <1>3. CASE pc[k] # "idle"
    <2> DEFINE d == work[k]
    <2>1. /\ d \in Batch /\ status[d] # "absent"
          /\ Holds(k, d) /\ Due(k) => taken[d] = "late"
      BY <1>3 DEF PassInv, PassOK, DailyTypeOK
    <2>2. /\ owner'[b] = l /\ \A c \in Batch \ {b} : owner'[c] = owner[c]
          /\ status'[b] = "pending"
          /\ \A c \in Coalesced(b) : status'[c] = "suppressed"
          /\ \A c \in Batch : c \notin Coalesced(b) => status'[c] = status[c]
          /\ live' = live \cup {b}
          /\ \A c \in Batch : c # b /\ c \notin Coalesced(b) => taken'[c] = taken[c]
          /\ skipped' = skipped \ ItemsIn(b)
          /\ \A i \in Item : place'[i] = IF place[i] \in Coalesced(b) THEN b ELSE place[i]
      BY ClaimEffect
    <2>3. status'[d] # "absent"
      BY <2>1, <2>2
    <2>4. owner'[d] = k /\ status'[d] = "pending" => d # b /\ d \notin Coalesced(b)
      BY <2>1, <2>2
    <2>5. owner'[d] = k /\ status'[d] = "pending" =>
            /\ Holds(k, d)
            /\ Due(k) => taken'[d] = "late"
            /\ \A i \in Item : place'[i] = d <=> place[i] = d
            /\ \A i \in Item : place[i] = d /\ i \in skipped => i \in skipped'
            /\ d \in live' => d \in live
      BY <2>1, <2>2, <2>4 DEF Holds, ItemsIn
    <2>6. Overdue(d) => d[2] <= today'[d[1]]
      BY <1>1 DEF Overdue
    <2> QED BY <1>1, <2>3, <2>5, <2>6 DEF Undisturbed
  <1> QED BY <1>2, <1>3

\* Alerts, clocks and users.
LEMMA InsertOthers ==
    ASSUME DailyTypeOK, PassInv, NEW i \in Item, Insert(i), NEW k \in Lane
    PROVE  Undisturbed(k) /\ LeasesArePending'
  <1>1. /\ UNCHANGED <<today, owner, taken, live, pc, work, start, todo, email, mailed, skipped>>
        /\ \A j \in Item : mailed[j] <= mailed'[j]
    BY DEF Insert, laneVars, DailyTypeOK
  <1>2. ASSUME NEW b, b \in Batch, Writable(b), Admit(i, b) PROVE Undisturbed(k) /\ LeasesArePending'
    <2>1. /\ status'[b] = "pending" /\ \A c \in Batch \ {b} : status'[c] = status[c]
          /\ \A j \in Item \ {i} : place'[j] = place[j]
          /\ place'[i] \in {place[i], b}
          /\ status[b] \in {"absent", "pending"} /\ taken[b] # "late"
      BY <1>2, AdmitEffect, WritableIs
    <2>2. place[i] = NoBatch
      BY DEF Insert, PassInv, WaitingIsUnplaced
    <2>3. LeasesArePending'
      BY <1>1, <2>1 DEF PassInv, LeasesArePending, DailyTypeOK
    <2>4. CASE pc[k] = "idle"
      BY <1>1, <2>3, <2>4 DEF Undisturbed
    <2>5. CASE pc[k] # "idle"
      <3> DEFINE d == work[k]
      <3>1. /\ d \in Batch /\ status[d] # "absent"
            /\ Holds(k, d) /\ Due(k) => taken[d] = "late"
        BY <2>5 DEF PassInv, PassOK, DailyTypeOK
      <3>2. status'[d] # "absent" /\ (status'[d] = "pending" => status[d] = "pending")
        BY <2>1, <3>1
      <3>3. owner[d] = k /\ status'[d] = "pending" =>
              /\ Holds(k, d)
              /\ Due(k) => taken'[d] = "late"
              /\ Due(k) => \A j \in Item : place'[j] = d => place[j] = d
              /\ \A j \in Item : place[j] = d => place'[j] = d
        BY <1>1, <2>1, <2>2, <3>1, <3>2, NameAssumption DEF Holds
      <3>4. Overdue(d) => d[2] <= today'[d[1]]
        BY <1>1 DEF Overdue
      <3> QED BY <1>1, <2>3, <3>2, <3>3, <3>4 DEF Undisturbed
    <2> QED BY <2>4, <2>5
  <1>3. ASSUME UNCHANGED <<status, itemVars, ready>> PROVE Undisturbed(k) /\ LeasesArePending'
    BY <1>1, <1>3, QuietKeeps, QuietLeases DEF Undisturbed, itemVars, PassInv, PassOK, Holds, Overdue, LeasesArePending, DailyTypeOK
  <1>4. QED BY <1>2, <1>3, WritableIs DEF Insert

LEMMA ClocksKeep ==
    ASSUME DailyTypeOK, PassInv, NEW k \in Lane,
           UNCHANGED <<status, owner, taken, itemVars, pc, work, start, todo, email, mailed, skipped>>,
           live' \subseteq live, \A s \in Schedule : today'[s] \in Int /\ today[s] <= today'[s]
    PROVE  Undisturbed(k) /\ LeasesArePending'
  <1>1. \A j \in Item : mailed[j] <= mailed'[j]
    BY DEF DailyTypeOK
  <1>2. LeasesArePending'
    BY DEF PassInv, LeasesArePending
  <1>3. CASE pc[k] = "idle"
    BY <1>1, <1>2, <1>3 DEF Undisturbed
  <1>4. CASE pc[k] # "idle"
    <2> DEFINE d == work[k]
    <2>1. /\ d \in Batch /\ status[d] # "absent"
          /\ Holds(k, d) /\ Due(k) => taken[d] = "late"
      BY <1>4 DEF PassInv, PassOK, DailyTypeOK
    <2>2. Overdue(d) => d[2] <= today'[d[1]]
      <3>1. d[1] \in Schedule /\ d[2] \in Nat /\ today[d[1]] \in Int
        BY <2>1, BatchFacts DEF Day, DailyTypeOK
      <3>2. today'[d[1]] \in Int /\ today[d[1]] <= today'[d[1]]
        BY <3>1
      <3> QED BY <3>1, <3>2 DEF Overdue
    <2> QED BY <1>1, <1>2, <2>1, <2>2 DEF Undisturbed, Holds, itemVars
  <1> QED BY <1>3, <1>4

LEMMA WorldOthers ==
    ASSUME DailyTypeOK, DailyTypeOK', PassInv, NEW k \in Lane,
           \/ \E i \in Item : Raise(i) \/ ResolveIncident(i)
           \/ \E b \in Batch : Lapse(b) \/ Backoff(b)
           \/ \E s \in Schedule : Pass(s)
           \/ \E p \in Project, s \in Schedule \cup {Off} : ChangePolicy(p, s)
           \/ UNCHANGED vars
    PROVE  Undisturbed(k) /\ LeasesArePending'
  <1>1. \A s \in Schedule : today[s] \in Int /\ today'[s] \in Int
    BY CountAssumption DEF DailyTypeOK
  <1>2. ASSUME UNCHANGED <<status, owner, taken, itemVars, pc, work, start, todo, email, mailed, skipped>>,
               live' \subseteq live, today' = today
        PROVE  Undisturbed(k) /\ LeasesArePending'
    <2>1. \A s \in Schedule : today'[s] \in Int /\ today[s] <= today'[s]
      BY <1>1, <1>2
    <2> QED BY <1>2, <2>1, ClocksKeep
  <1>3. ASSUME NEW i \in Item, Raise(i) \/ ResolveIncident(i) PROVE Undisturbed(k) /\ LeasesArePending'
    BY <1>2, <1>3 DEF Raise, ResolveIncident, batchVars, laneVars
  <1>4. ASSUME NEW b \in Batch, Lapse(b) \/ Backoff(b) PROVE Undisturbed(k) /\ LeasesArePending'
    BY <1>2, <1>4 DEF Lapse, Backoff, laneVars
  <1>5. ASSUME NEW s \in Schedule, Pass(s) PROVE Undisturbed(k) /\ LeasesArePending'
    <2>1. /\ today' = [today EXCEPT ![s] = today[s] + 1] /\ live' \subseteq live
          /\ UNCHANGED <<status, owner, taken, itemVars, pc, work, start, todo, email, mailed, skipped>>
      BY <1>5 DEF Pass, laneVars
    <2>2. \A r \in Schedule : today'[r] \in Int /\ today[r] <= today'[r]
      BY <1>1, <2>1 DEF DailyTypeOK
    <2> QED BY <2>1, <2>2, ClocksKeep
  <1>6. ASSUME NEW p \in Project, NEW s \in Schedule \cup {Off}, ChangePolicy(p, s)
        PROVE  Undisturbed(k) /\ LeasesArePending'
    BY <1>2, <1>6 DEF ChangePolicy, laneVars
  <1>7. CASE UNCHANGED vars
    BY <1>2, <1>7 DEF vars, itemVars
  <1> QED BY <1>3, <1>4, <1>5, <1>6, <1>7

LEMMA WaitingStep ==
    ASSUME DailyTypeOK, PassInv, [Next]_vars
    PROVE  WaitingIsUnplaced'
  <1> SUFFICES ASSUME NEW i \in Item, admitted'[i] # NoBatch PROVE place'[i] = NoBatch
    BY DEF WaitingIsUnplaced
  <1>1. place[i] = NoBatch /\ WaitingIsUnplaced
    BY AdmittedStep DEF PassInv
  <1>2. CASE UNCHANGED itemVars
    BY <1>1, <1>2 DEF itemVars
  <1>3. CASE Admitting
    <2>1. PICK j \in Item, c \in Batch : Writable(c) /\ Admit(j, c) /\ admitted' = [admitted EXCEPT ![j] = NoBatch]
      BY <1>3 DEF Admitting
    <2>2. i # j
      BY <2>1 DEF DailyTypeOK
    <2> QED BY <1>1, <2>1, <2>2, AdmitEffect
  <1>4. ASSUME NEW l \in Lane, Moving(l) PROVE place'[i] = NoBatch
    <2>1. PICK j \in todo[l], c \in Batch : Holds(l, work[l]) /\ Writable(c) /\ MoveItem(j, c) /\ pc[l] = "deciding"
      BY <1>4 DEF Moving
    <2>2. j \in Item /\ place[j] = work[l] /\ work[l] \in Batch
      BY <2>1 DEF PassInv, PassOK, ItemsIn, DailyTypeOK
    <2>3. i # j
      BY <1>1, <2>2, NameAssumption
    <2> QED BY <1>1, <2>1, <2>2, <2>3, MoveEffect
  <1>5. ASSUME NEW l \in Lane, NEW b \in Batch, Claim(l, b) PROVE place'[i] = NoBatch
    <2>1. NoBatch \notin Coalesced(b)
      BY NameAssumption DEF Coalesced
    <2> QED BY <1>1, <1>5, <2>1, ClaimEffect
  <1> QED BY <1>1, <1>2, <1>3, <1>4, <1>5, ItemSteps

LEMMA PassInit == Init => PassInv
  BY NameAssumption DEF Init, PassInv, LeasesArePending, WaitingIsUnplaced, PassOK

LEMMA PassStep ==
    ASSUME DailyTypeOK, PassInv, [Next]_vars
    PROVE  PassInv' /\ \A k \in Lane : \/ Undisturbed(k)
                                       \/ LaneStep(k)
  <1>1. DailyTypeOK' /\ WaitingIsUnplaced'
    BY TypeStep, WaitingStep
  <1>2. ASSUME \A k \in Lane : Undisturbed(k), LeasesArePending'
        PROVE  PassInv' /\ \A k \in Lane : Undisturbed(k) \/ LaneStep(k)
    <2>1. \A k \in Lane : PassOK(k)'
      BY <1>1, <1>2, PassKept DEF PassInv
    <2> QED BY <1>1, <1>2, <2>1 DEF PassInv
  <1>3. ASSUME NEW l \in Lane, LaneStep(l), PassOK(l)', LeasesArePending',
               \A k \in Lane \ {l} : Undisturbed(k)
        PROVE  PassInv' /\ \A k \in Lane : Undisturbed(k) \/ LaneStep(k)
    <2>1. \A k \in Lane \ {l} : PassOK(k)'
      BY <1>1, <1>3, PassKept DEF PassInv
    <2>2. \A k \in Lane : PassOK(k)'
      BY <1>3, <2>1
    <2>3. \A k \in Lane : Undisturbed(k) \/ LaneStep(k)
      BY <1>3
    <2> QED BY <1>1, <1>3, <2>2, <2>3 DEF PassInv
  <1>4. ASSUME NEW l \in Lane, LaneStep(l), PassOK(l)', QuietFor(l)
        PROVE  PassInv' /\ \A k \in Lane : Undisturbed(k) \/ LaneStep(k)
    <2>1. LeasesArePending'
      BY <1>4, QuietLeases DEF PassInv
    <2>2. \A k \in Lane \ {l} : Undisturbed(k)
      BY <1>4, QuietKeeps DEF PassInv
    <2> QED BY <1>3, <1>4, <2>1, <2>2
  <1>5. ASSUME NEW l \in Lane, LaneStep(l)
        PROVE  PassInv' /\ \A k \in Lane : Undisturbed(k) \/ LaneStep(k)
    <2>1. PassOK(l) /\ LeasesArePending
      BY DEF PassInv
    <2>2. ASSUME NEW b \in Batch, Claim(l, b)
          PROVE  PassInv' /\ \A k \in Lane : Undisturbed(k) \/ LaneStep(k)
      BY <1>3, <1>5, <2>2, ClaimPass, ClaimOthers
    <2>3. ASSUME NEW i \in Item, Decide(l, i)
          PROVE  PassInv' /\ \A k \in Lane : Undisturbed(k) \/ LaneStep(k)
      <3>1. PassOK(l)' /\ (QuietFor(l) \/ Moving(l))
        BY <2>1, <2>3, DecidePass
      <3>2. CASE QuietFor(l)
        BY <1>4, <1>5, <3>1, <3>2
      <3>3. CASE Moving(l)
        <4>1. UNCHANGED <<owner, today, mailed>>
          <5>1. owner' = owner /\ today' = today /\ mailed' = mailed
            BY <2>3 DEF Decide, batchVars
          <5> QED BY <5>1
        <4>2. \A k \in Lane \ {l} : Undisturbed(k)
          BY <1>1, <3>3, <4>1, MovingOthers
        <4>3. LeasesArePending'
          BY <3>3, MoveEffect, WritableIs DEF Moving, PassInv, LeasesArePending, DailyTypeOK
        <4> QED BY <1>3, <1>5, <3>1, <4>2, <4>3
      <3> QED BY <3>1, <3>2, <3>3
    <2>4. CASE Begin(l) \/ List(l)
      BY <1>4, <1>5, <2>1, <2>4, BeginPass, ListPass
    <2>5. CASE Confirm(l)
      BY <1>4, <1>5, <2>1, <2>5, ConfirmPass
    <2>6. CASE Deliver(l)
      BY <1>4, <1>5, <2>1, <2>6, DeliverPass
    <2>7. CASE Complete(l) \/ Throw(l) \/ Crash(l)
      BY <1>4, <1>5, <2>1, <2>7, EndPass
    <2> QED BY <1>5, <2>2, <2>3, <2>4, <2>5, <2>6, <2>7 DEF LaneStep
  <1>6. ASSUME NEW i \in Item, Insert(i)
        PROVE  PassInv' /\ \A k \in Lane : Undisturbed(k) \/ LaneStep(k)
    <2>1. \A k \in Lane : Undisturbed(k)
      BY <1>6, InsertOthers
    <2>2. LeasesArePending'
      <3>1. live' = live
        BY <1>6 DEF Insert
      <3>2. ASSUME NEW c, Writable(c), Admit(i, c) PROVE LeasesArePending'
        BY <3>1, <3>2, AdmitEffect, WritableIs DEF PassInv, LeasesArePending, DailyTypeOK
      <3>3. ASSUME status' = status PROVE LeasesArePending'
        BY <3>1, <3>3 DEF PassInv, LeasesArePending
      <3> QED BY <1>6, <3>2, <3>3 DEF Insert
    <2> QED BY <1>2, <2>1, <2>2
  <1>7. ASSUME \/ \E i \in Item : Raise(i) \/ ResolveIncident(i)
               \/ \E b \in Batch : Lapse(b) \/ Backoff(b)
               \/ \E s \in Schedule : Pass(s)
               \/ \E p \in Project, s \in Schedule \cup {Off} : ChangePolicy(p, s)
               \/ UNCHANGED vars
        PROVE  PassInv' /\ \A k \in Lane : Undisturbed(k) \/ LaneStep(k)
    <2>1. LeasesArePending'
      <3>1. live' \subseteq live /\ status' = status
        BY <1>7 DEF Raise, ResolveIncident, Lapse, Backoff, Pass, ChangePolicy, vars, batchVars
      <3> QED BY <3>1 DEF PassInv, LeasesArePending
    <2>2. \A k \in Lane : Undisturbed(k)
      BY <1>1, <1>7, WorldOthers
    <2> QED BY <1>2, <2>1, <2>2
  <1> QED BY <1>5, <1>6, <1>7 DEF Next

LEMMA PassAlways == Spec => [](DailyTypeOK /\ PassInv)
  <1>1. DailyTypeOK /\ PassInv /\ [Next]_vars => (DailyTypeOK /\ PassInv)'
    BY TypeStep, PassStep
  <1> QED BY <1>1, TypeInit, PassInit, PTL DEF Spec

\* Only an admission adds a charged row.
LEMMA ChargedStep ==
    ASSUME DailyTypeOK, [Next]_vars, charged' # charged
    PROVE  \E i \in Item, c \in Batch : Insert(i) /\ Admit(i, c) /\ Writable(c) /\ i \notin resolved
  <1> USE DEF batchVars, itemVars, laneVars, userVars
  <1>1. ASSUME NEW i \in Item, Insert(i)
        PROVE  \E c \in Batch : Admit(i, c) /\ Writable(c) /\ i \notin resolved
    <2>1. PICK c : Writable(c) /\ Admit(i, c)
      BY <1>1 DEF Insert
    <2> QED BY <2>1, WritableIs DEF Admit
  <1>2. ASSUME NEW i \in Item, Raise(i) \/ ResolveIncident(i) PROVE FALSE
    BY <1>2 DEF Raise, ResolveIncident
  <1>3. ASSUME NEW l \in Lane, NEW b \in Batch, Claim(l, b) PROVE FALSE
    BY <1>3, ClaimEffect
  <1>4. ASSUME NEW l \in Lane, Begin(l) \/ List(l) \/ Confirm(l) \/ Deliver(l) PROVE FALSE
    BY <1>4 DEF Begin, List, Confirm, Deliver
  <1>5. ASSUME NEW l \in Lane, Complete(l) \/ Throw(l) \/ Crash(l) PROVE FALSE
    BY <1>5 DEF Complete, Throw, Crash
  <1>6. ASSUME NEW l \in Lane, NEW i \in Item, Decide(l, i) PROVE FALSE
    <2>1. CASE UNCHANGED itemVars
      BY <2>1
    <2>2. CASE Moving(l)
      BY <2>2 DEF Moving, MoveItem
    <2> QED BY <1>6, <2>1, <2>2, MovesInDecide
  <1>7. ASSUME NEW b \in Batch, Lapse(b) \/ Backoff(b) PROVE FALSE
    BY <1>7 DEF Lapse, Backoff
  <1>8. ASSUME NEW s \in Schedule, Pass(s) PROVE FALSE
    BY <1>8 DEF Pass
  <1>9. ASSUME NEW p \in Project, NEW s \in Schedule \cup {Off}, ChangePolicy(p, s) PROVE FALSE
    BY <1>9 DEF ChangePolicy
  <1>10. CASE UNCHANGED vars
    BY <1>10 DEF vars
  <1> QED BY <1>1, <1>2, <1>3, <1>4, <1>5, <1>6, <1>7, <1>8, <1>9, <1>10 DEF Next, LaneStep

MoveCharges ==
    \A b \in Batch, p \in Project :
      <<b, p>> \in charged' \ charged =>
        /\ \A i \in Item : place[i] = b => ProjectOf[i] # p
        /\ \E i \in Item : place[i] = NoBatch /\ place'[i] = b /\ ProjectOf[i] = p

LEMMA MoveChargesStep ==
    ASSUME DailyTypeOK, WaitingIsUnplaced, UsageCoversItems, [Next]_vars
    PROVE  MoveCharges
  <1> SUFFICES ASSUME NEW b \in Batch, NEW p \in Project, <<b, p>> \in charged' \ charged
               PROVE  /\ \A i \in Item : place[i] = b => ProjectOf[i] # p
                      /\ \E i \in Item : place[i] = NoBatch /\ place'[i] = b /\ ProjectOf[i] = p
    BY DEF MoveCharges
  <1>1. PICK i \in Item, c \in Batch :
          Insert(i) /\ Admit(i, c) /\ Writable(c) /\ i \notin resolved
    BY ChargedStep
  <1>2. /\ place' = [place EXCEPT ![i] = c]
        /\ charged' = charged \cup ({<<c, ProjectOf[i]>>} \ usage)
    BY <1>1 DEF Admit
  <1>3. b = c /\ p = ProjectOf[i] /\ <<b, p>> \notin usage
    BY <1>2
  <1>4. place[i] = NoBatch
    BY <1>1 DEF Insert, WaitingIsUnplaced
  <1>5. place'[i] = b
    BY <1>2, <1>3 DEF DailyTypeOK
  <1>6. \A j \in Item : place[j] = b => ProjectOf[j] # p
    BY <1>3, NameAssumption DEF UsageCoversItems
  <1> QED BY <1>3, <1>4, <1>5, <1>6

\* Only the first item of a project admitted to a window is charged: no move is, also by a
\* lane whose lease has lapsed.
THEOREM MovesAreNotChargedAgain == Spec => MovesAreNotCharged
  <1>1. Init => UsageCoversItems
    BY NameAssumption DEF Init, UsageCoversItems
  <1>2. DailyTypeOK /\ PassInv /\ UsageCoversItems /\ [Next]_vars => UsageCoversItems'
    BY UsageStep DEF PassInv
  <1>3. DailyTypeOK /\ PassInv /\ UsageCoversItems /\ [Next]_vars => [MoveCharges]_vars
    BY MoveChargesStep DEF PassInv
  <1>4. Spec => [][MoveCharges]_vars
    BY <1>1, <1>2, <1>3, PassAlways, PTL DEF Spec
  <1> QED BY <1>4 DEF MovesAreNotCharged, MoveCharges

(***************************************************************************)
(* nothing is dropped                                                      *)
(***************************************************************************)
Done(b) == status[b] \in {"delivered", "suppressed"}

\* A batch is closed by the lane that completes it, or its items were taken over.
LEMMA Closing ==
    ASSUME DailyTypeOK, [Next]_vars, NEW b \in Batch, Done(b)', ~ Done(b)
    PROVE  \/ \E l \in Lane : Complete(l) /\ work[l] = b /\ Holds(l, b)
           \/ \E l \in Lane, c \in Batch : Claim(l, c)
  <1> USE DEF Done, batchVars
  <1>1. status' # status
    OBVIOUS
  <1>2. ASSUME NEW i \in Item, Insert(i) PROVE FALSE
    <2>1. PICK c : Writable(c) /\ Admit(i, c)
      BY <1>1, <1>2 DEF Insert
    <2> QED BY <2>1, AdmitEffect, WritableIs
  <1>3. ASSUME NEW i \in Item, Raise(i) \/ ResolveIncident(i) PROVE FALSE
    BY <1>1, <1>3 DEF Raise, ResolveIncident
  <1>4. ASSUME NEW l \in Lane, Begin(l) \/ List(l) \/ Confirm(l) \/ Deliver(l) \/ Crash(l) PROVE FALSE
    BY <1>1, <1>4 DEF Begin, List, Confirm, Deliver, Crash
  <1>5. ASSUME NEW l \in Lane, NEW c \in Batch, Failed(l, c) PROVE FALSE
    BY <1>5 DEF Failed, DailyTypeOK
  <1>6. ASSUME NEW l \in Lane, Throw(l) PROVE FALSE
    BY <1>5, <1>6 DEF Throw, DailyTypeOK
  <1>7. ASSUME NEW l \in Lane, NEW i \in Item, Decide(l, i) PROVE FALSE
    <2>1. work[l] \in Batch
      BY <1>7 DEF Decide, DailyTypeOK
    <2>2. PICK s, w : Reschedule(l, i, s, w)
      BY <1>1, <1>7 DEF Decide
    <2>3. PICK c : Writable(c) /\ MoveItem(i, c)
      BY <1>1, <1>5, <2>1, <2>2 DEF Reschedule
    <2> QED BY <2>3, MoveEffect, WritableIs
  <1>8. ASSUME NEW l \in Lane, Complete(l) PROVE work[l] = b /\ Holds(l, b)
    BY <1>1, <1>8 DEF Complete, DailyTypeOK
  <1>9. ASSUME NEW c \in Batch, Lapse(c) \/ Backoff(c) PROVE FALSE
    BY <1>1, <1>9 DEF Lapse, Backoff
  <1>10. ASSUME NEW s \in Schedule, Pass(s) PROVE FALSE
    BY <1>1, <1>10 DEF Pass
  <1>11. ASSUME NEW p \in Project, NEW s \in Schedule \cup {Off}, ChangePolicy(p, s) PROVE FALSE
    BY <1>1, <1>11 DEF ChangePolicy
  <1>12. CASE UNCHANGED vars
    BY <1>1, <1>12 DEF vars
  <1> QED BY <1>2, <1>3, <1>4, <1>6, <1>7, <1>8, <1>9, <1>10, <1>11, <1>12 DEF Next, LaneStep

\* Only a claim forgets what a pass skipped, and an accepted e-mail stays accepted.
LEMMA HistoryGrows ==
    ASSUME DailyTypeOK, [Next]_vars
    PROVE  /\ \A i \in Item : mailed[i] <= mailed'[i]
           /\ skipped \subseteq skipped' \/ \E l \in Lane, b \in Batch : Claim(l, b)
  <1>1. ASSUME mailed' = mailed, skipped \subseteq skipped'
        PROVE  (\A i \in Item : mailed[i] <= mailed'[i]) /\ skipped \subseteq skipped'
    BY <1>1 DEF DailyTypeOK
  <1>2. ASSUME NEW i \in Item, Raise(i) \/ Insert(i) \/ ResolveIncident(i)
        PROVE  mailed' = mailed /\ skipped \subseteq skipped'
    BY <1>2 DEF Raise, Insert, ResolveIncident
  <1>3. ASSUME NEW l \in Lane, Begin(l) \/ List(l) \/ (\E i \in Item : Decide(l, i)) \/ Confirm(l) \/ Complete(l)
        PROVE  mailed' = mailed /\ skipped \subseteq skipped'
    BY <1>3 DEF Begin, List, Decide, Confirm, Complete
  <1>4. ASSUME NEW l \in Lane, Throw(l) \/ Crash(l)
        PROVE  mailed' = mailed /\ skipped \subseteq skipped'
    BY <1>4 DEF Throw, Crash
  <1>5. ASSUME NEW l \in Lane, Deliver(l)
        PROVE  (\A i \in Item : mailed[i] <= mailed'[i]) /\ skipped \subseteq skipped'
    BY <1>5 DEF Deliver, DailyTypeOK
  <1>6. ASSUME NEW b \in Batch, Lapse(b) \/ Backoff(b)
        PROVE  mailed' = mailed /\ skipped \subseteq skipped'
    BY <1>6 DEF Lapse, Backoff
  <1>7. ASSUME NEW s \in Schedule, Pass(s) PROVE mailed' = mailed /\ skipped \subseteq skipped'
    BY <1>7 DEF Pass
  <1>8. ASSUME NEW p \in Project, NEW s \in Schedule \cup {Off}, ChangePolicy(p, s)
        PROVE  mailed' = mailed /\ skipped \subseteq skipped'
    BY <1>8 DEF ChangePolicy
  <1>9. ASSUME NEW l \in Lane, NEW b \in Batch, Claim(l, b) PROVE \A i \in Item : mailed[i] <= mailed'[i]
    BY <1>9 DEF Claim, DailyTypeOK
  <1>10. CASE UNCHANGED vars
    BY <1>1, <1>10 DEF vars
  <1> QED BY <1>1, <1>2, <1>3, <1>4, <1>5, <1>6, <1>7, <1>8, <1>9, <1>10 DEF Next, LaneStep

LEMMA DroppedStep ==
    ASSUME DailyTypeOK, DailyTypeOK', PassInv, NothingIsSilentlyDropped, [Next]_vars
    PROVE  NothingIsSilentlyDropped'
  <1> SUFFICES ASSUME NEW i \in Item, place'[i] # NoBatch, Done(place[i])'
               PROVE  mailed'[i] > 0 \/ i \in skipped'
    BY DEF NothingIsSilentlyDropped, Done
  <1>1. /\ mailed[i] \in Nat /\ mailed'[i] \in Nat /\ mailed[i] <= mailed'[i]
        /\ skipped \subseteq skipped' \/ \E l \in Lane, b \in Batch : Claim(l, b)
    BY HistoryGrows DEF DailyTypeOK
  <1>2. place'[i] \in Batch /\ status'[place'[i]] \in {"delivered", "suppressed"}
    BY DEF Done, DailyTypeOK
  <1>3. ASSUME NEW l \in Lane, NEW b \in Batch, Claim(l, b)
        PROVE  mailed'[i] > 0 \/ i \in skipped'
    <2>1. /\ status'[b] = "pending" /\ skipped' = skipped \ ItemsIn(b)
          /\ \A c \in Coalesced(b) : status'[c] = "suppressed"
          /\ \A c \in Batch : c \notin Coalesced(b) => status'[c] = status[c]
          /\ place'[i] = IF place[i] \in Coalesced(b) THEN b ELSE place[i]
      BY <1>3, ClaimEffect
    <2>2. place'[i] = place[i] /\ place[i] \notin Coalesced(b) /\ place[i] # b
      BY <1>2, <2>1
    <2>3. place[i] # NoBatch /\ status[place[i]] \in {"delivered", "suppressed"}
      BY <1>2, <2>1, <2>2, NameAssumption
    <2>4. mailed[i] > 0 \/ i \in skipped
      BY <2>3 DEF NothingIsSilentlyDropped
    <2> QED BY <1>1, <2>1, <2>2, <2>4 DEF ItemsIn
  <1>4. ASSUME ~ \E l \in Lane, b \in Batch : Claim(l, b), place'[i] = place[i]
        PROVE  mailed'[i] > 0 \/ i \in skipped'
    <2>1. place[i] \in Batch /\ place[i] # NoBatch /\ skipped \subseteq skipped'
      BY <1>1, <1>2, <1>4, NameAssumption
    <2>2. CASE Done(place[i])
      BY <1>1, <2>1, <2>2 DEF NothingIsSilentlyDropped, Done
    <2>3. CASE ~ Done(place[i])
      <3>1. status'[place[i]] \in {"delivered", "suppressed"}
        BY <1>2, <1>4
      <3>2. \E l \in Lane : Complete(l) /\ work[l] = place[i] /\ Holds(l, place[i])
        <4> DEFINE b == place[i]
        <4>1. b \in Batch /\ status'[b] \in {"delivered", "suppressed"} /\ status[b] \notin {"delivered", "suppressed"}
          BY <2>1, <2>3, <3>1 DEF Done
        <4>2. ASSUME NEW d \in Batch, status'[d] \in {"delivered", "suppressed"},
                     status[d] \notin {"delivered", "suppressed"}
              PROVE  \E l \in Lane : Complete(l) /\ work[l] = d /\ Holds(l, d)
          BY <1>4, <4>2, Closing DEF Done
        <4> QED BY <4>1, <4>2
      <3>3. PICK l \in Lane : Complete(l) /\ work[l] = place[i] /\ Holds(l, work[l])
        BY <3>2
      <3>4. /\ pc[l] = "sent" /\ PassOK(l)
        BY <3>3 DEF Complete, PassInv
      <3>5. i \in email[l] \cup skipped /\ \A j \in email[l] : mailed[j] > 0
        BY <3>3, <3>4 DEF PassOK, ItemsIn
      <3> QED BY <1>1, <2>1, <3>5
    <2> QED BY <2>2, <2>3
  <1>5. CASE UNCHANGED itemVars
    BY <1>3, <1>4, <1>5 DEF itemVars
  <1>6. CASE Admitting
    <2>1. PICK j \in Item, c \in Batch : place[j] = NoBatch /\ Writable(c) /\ Admit(j, c)
      BY <1>6 DEF Admitting
    <2>2. place'[i] = place[i] \/ place'[i] = c
      BY <2>1, AdmitEffect
    <2>3. status'[c] = "pending"
      BY <2>1, AdmitEffect
    <2> QED BY <1>2, <1>3, <1>4, <2>2, <2>3
  <1>7. ASSUME NEW l \in Lane, Moving(l) PROVE mailed'[i] > 0 \/ i \in skipped'
    <2>1. PICK j \in Item, c \in Batch : Writable(c) /\ MoveItem(j, c)
      BY <1>7 DEF Moving, DailyTypeOK
    <2>2. status'[c] = "pending" /\ (place'[i] = place[i] \/ place'[i] = c)
      BY <2>1, MoveEffect
    <2> QED BY <1>2, <1>3, <1>4, <2>2
  <1> QED BY <1>3, <1>5, <1>6, <1>7, ItemSteps DEF PassInv

\* A batch is closed only over items that were mailed, or that the pass skipped on purpose.
THEOREM NothingIsDropped == Spec => []NothingIsSilentlyDropped
  <1>1. Init => NothingIsSilentlyDropped
    BY DEF Init, NothingIsSilentlyDropped
  <1>2. DailyTypeOK /\ PassInv /\ NothingIsSilentlyDropped /\ [Next]_vars => NothingIsSilentlyDropped'
    BY TypeStep, DroppedStep
  <1> QED BY <1>1, <1>2, PassAlways, PTL DEF Spec

(***************************************************************************)
(* repeated e-mails                                                        *)
(***************************************************************************)
Senders(i) == {l \in Lane : pc[l] = "sending" /\ i \in email[l]}

\* The lane that is mailing an item, or has, still holds its batch.
Covers(l, i) == pc[l] \in {"sending", "sent"} /\ i \in email[l] /\ HoldsLive(l, work[l])

Closed(b) == status[b] \in {"delivered", "suppressed", "failed"}

Settled(i) == (place[i] # NoBatch /\ Closed(place[i])) \/ \E l \in Lane : Covers(l, i)

\* Every e-mail an item was or may still be in, beyond the first, is paid for by a fault.
MailOK(i) ==
    mailed[i] + Cardinality(Senders(i)) + (IF Settled(i) THEN 0 ELSE 1) <= 1 + faults

LEMMA SendersAreFinite ==
    ASSUME NEW i PROVE IsFiniteSet(Senders(i)) /\ Cardinality(Senders(i)) \in Nat
  <1>1. Senders(i) \subseteq Lane /\ IsFiniteSet(Lane)
    BY NameAssumption DEF Senders
  <1> QED BY <1>1, FS_Subset, FS_CardinalityType

LEMMA Accounting ==
    ASSUME DailyTypeOK, DailyTypeOK', NEW i \in Item, MailOK(i),
           Senders(i)' \subseteq Senders(i), mailed'[i] = mailed[i],
           faults' = faults + 1 \/ (faults' = faults /\ (Settled(i) => Settled(i)'))
    PROVE  MailOK(i)'
  <1> DEFINE m == mailed[i]
             c == Cardinality(Senders(i))
  <1>1. m \in Nat /\ faults \in Nat
    BY DEF DailyTypeOK
  <1>2. c \in Nat /\ IsFiniteSet(Senders(i))
    BY SendersAreFinite
  <1>3. PICK S : S = Senders(i)'
    OBVIOUS
  <1>4. IsFiniteSet(S) /\ Cardinality(S) \in Nat /\ Cardinality(S) <= c
    BY <1>2, <1>3, FS_Subset, FS_CardinalityType
  <1>5. m + c + (IF Settled(i) THEN 0 ELSE 1) <= 1 + faults
    BY DEF MailOK
  <1>6. mailed'[i] = m
    OBVIOUS
  <1> HIDE DEF m, c
  <1>7. m + Cardinality(S) + (IF Settled(i)' THEN 0 ELSE 1) <= 1 + faults'
    BY <1>1, <1>2, <1>4, <1>5
  <1> QED BY <1>3, <1>6, <1>7 DEF MailOK

\* An item of a closed batch stays in it.
LEMMA ClosedStays ==
    ASSUME DailyTypeOK, PassInv, [Next]_vars, NEW i \in Item, place[i] # NoBatch, Closed(place[i])
    PROVE  place'[i] = place[i] /\ status'[place[i]] \in {"delivered", "suppressed", "failed"}
  <1> DEFINE b == place[i]
  <1>1. b \in Batch /\ status[b] \in {"delivered", "suppressed", "failed"}
    BY DEF Closed, DailyTypeOK
  <1>2. place'[i] = b
    <2>1. CASE UNCHANGED itemVars
      BY <2>1 DEF itemVars
    <2>2. CASE Admitting
      <3>1. PICK j \in Item, c \in Batch : place[j] = NoBatch /\ Writable(c) /\ Admit(j, c)
        BY <2>2 DEF Admitting
      <3> QED BY <3>1, AdmitEffect
    <2>3. ASSUME NEW l \in Lane, Moving(l) PROVE place'[i] = b
      <3>1. PICK j \in todo[l], c \in Batch : Holds(l, work[l]) /\ Writable(c) /\ MoveItem(j, c) /\ pc[l] = "deciding"
        BY <2>3 DEF Moving
      <3>2. j \in Item /\ place[j] = work[l] /\ status[work[l]] = "pending"
        BY <3>1 DEF PassInv, PassOK, ItemsIn, Holds, DailyTypeOK
      <3>3. i # j
        BY <1>1, <3>2
      <3> QED BY <3>1, <3>2, <3>3, MoveEffect
    <2>4. ASSUME NEW l \in Lane, NEW c \in Batch, Claim(l, c) PROVE place'[i] = b
      BY <1>1, <2>4, ClaimEffect
    <2> QED BY <2>1, <2>2, <2>3, <2>4, ItemSteps DEF PassInv
  <1>3. status'[b] = status[b]
    <2> USE DEF batchVars
    <2>1. ASSUME NEW j \in Item, Insert(j) PROVE status'[b] = status[b]
      <3>1. ASSUME NEW c, Writable(c), Admit(j, c) PROVE status'[b] = status[b]
        <4>1. c \in Batch /\ c # b
          BY <1>1, <3>1, WritableIs
        <4>2. \A d \in Batch \ {c} : status'[d] = status[d]
          BY <3>1, <4>1, AdmitEffect
        <4> QED BY <1>1, <4>1, <4>2
      <3> QED BY <2>1, <3>1 DEF Insert
    <2>2. ASSUME NEW j \in Item, Raise(j) \/ ResolveIncident(j) PROVE status'[b] = status[b]
      BY <2>2 DEF Raise, ResolveIncident
    <2>3. ASSUME NEW l \in Lane, Begin(l) \/ List(l) \/ Confirm(l) \/ Deliver(l) \/ Crash(l) PROVE status'[b] = status[b]
      BY <2>3 DEF Begin, List, Confirm, Deliver, Crash
    <2>4. ASSUME NEW l \in Lane, NEW c \in Batch, Failed(l, c) PROVE status'[b] = status[b]
      BY <1>1, <2>4 DEF Failed, Holds, DailyTypeOK
    <2>5. ASSUME NEW l \in Lane, Throw(l) PROVE status'[b] = status[b]
      BY <2>4, <2>5 DEF Throw, DailyTypeOK
    <2>6. ASSUME NEW l \in Lane, Complete(l) PROVE status'[b] = status[b]
      BY <1>1, <2>6 DEF Complete, Holds, DailyTypeOK
    <2>7. ASSUME NEW l \in Lane, NEW j \in Item, Decide(l, j) PROVE status'[b] = status[b]
      <3>1. work[l] \in Batch
        BY <2>7 DEF Decide, DailyTypeOK
      <3>2. ASSUME NEW s, NEW w, Reschedule(l, j, s, w) PROVE status'[b] = status[b]
        <4>1. ASSUME NEW c, Writable(c), MoveItem(j, c) PROVE status'[b] = status[b]
          <5>1. c \in Batch /\ c # b
            BY <1>1, <4>1, WritableIs
          <5>2. \A d \in Batch \ {c} : status'[d] = status[d]
            BY <4>1, <5>1, MoveEffect
          <5> QED BY <1>1, <5>1, <5>2
        <4> QED BY <2>4, <3>1, <3>2, <4>1 DEF Reschedule
      <3> QED BY <2>7, <3>2 DEF Decide
    <2>8. ASSUME NEW l \in Lane, NEW c \in Batch, Claim(l, c) PROVE status'[b] = status[b]
      BY <1>1, <2>8, ClaimEffect
    <2>9. ASSUME NEW c \in Batch, Lapse(c) \/ Backoff(c) PROVE status'[b] = status[b]
      BY <2>9 DEF Lapse, Backoff
    <2>10. ASSUME NEW s \in Schedule, Pass(s) PROVE status'[b] = status[b]
      BY <2>10 DEF Pass
    <2>11. ASSUME NEW p \in Project, NEW s \in Schedule \cup {Off}, ChangePolicy(p, s)
           PROVE  status'[b] = status[b]
      BY <2>11 DEF ChangePolicy
    <2>12. CASE UNCHANGED vars
      BY <2>12 DEF vars
    <2> QED BY <2>1, <2>2, <2>3, <2>5, <2>6, <2>7, <2>8, <2>9, <2>10, <2>11, <2>12 DEF Next, LaneStep
  <1> QED BY <1>1, <1>2, <1>3

LEMMA SettledStays ==
    ASSUME DailyTypeOK, PassInv, [Next]_vars, NEW i \in Item,
           Settled(i), \A l \in Lane : Covers(l, i) => Settled(i)'
    PROVE  Settled(i)'
  <1>1. CASE place[i] # NoBatch /\ Closed(place[i])
    BY <1>1, ClosedStays DEF Settled, Closed
  <1>2. CASE \E l \in Lane : Covers(l, i)
    BY <1>2
  <1> QED BY <1>1, <1>2 DEF Settled

LEMMA QuietCovers ==
    ASSUME DailyTypeOK, NEW l \in Lane, QuietFor(l), NEW k \in Lane \ {l}, NEW i, Covers(k, i)
    PROVE  Covers(k, i)'
  <1>1. work[k] \in Batch
    BY DEF Covers, DailyTypeOK
  <1> QED BY <1>1 DEF QuietFor, Covers, HoldsLive, Holds

LEMMA MovingCovers ==
    ASSUME DailyTypeOK, NEW l \in Lane, Moving(l), owner' = owner, NEW k \in Lane, NEW i, Covers(k, i)
    PROVE  Covers(k, i)'
  <1>1. PICK j \in todo[l], c \in Batch :
          Writable(c) /\ MoveItem(j, c) /\ UNCHANGED <<live, pc, work, email>>
    BY DEF Moving
  <1>2. j \in Item /\ work[k] \in Batch
    BY DEF Covers, DailyTypeOK
  <1>3. status'[work[k]] = "pending"
    BY <1>1, <1>2, MoveEffect DEF Covers, HoldsLive, Holds
  <1> QED BY <1>1, <1>3 DEF Covers, HoldsLive, Holds

LEMMA ClaimCovers ==
    ASSUME DailyTypeOK, NEW l \in Lane, NEW b \in Batch, Claim(l, b), NEW k \in Lane, NEW i, Covers(k, i)
    PROVE  Covers(k, i)'
  <1>1. /\ k # l /\ work[k] \in Batch /\ work[k][1] # b[1]
        /\ pc'[k] = pc[k] /\ work'[k] = work[k] /\ email' = email
    BY ClaimEffect DEF Covers, HoldsLive, DailyTypeOK
  <1>2. /\ work[k] # b /\ work[k] \notin Coalesced(b)
        /\ owner'[work[k]] = owner[work[k]] /\ status'[work[k]] = status[work[k]]
        /\ live \subseteq live'
    BY <1>1, ClaimEffect
  <1> QED BY <1>1, <1>2 DEF Covers, HoldsLive, Holds

LEMMA QuietSenders ==
    ASSUME NEW l \in Lane, QuietFor(l), NEW i, l \notin Senders(i)' \/ l \in Senders(i)
    PROVE  Senders(i)' \subseteq Senders(i)
  BY DEF QuietFor, Senders

\* A step of a lane that sends nothing and does not begin to.
LEMMA QuietMail ==
    ASSUME DailyTypeOK, DailyTypeOK', PassInv, [Next]_vars, NEW l \in Lane, QuietFor(l),
           NEW i \in Item, MailOK(i), mailed'[i] = mailed[i],
           l \notin Senders(i)' \/ l \in Senders(i),
           faults' = faults + 1 \/ (faults' = faults /\ (Covers(l, i) => Settled(i)'))
    PROVE  MailOK(i)'
  <1>1. Senders(i)' \subseteq Senders(i)
    BY QuietSenders
  <1>2. \A k \in Lane \ {l} : Covers(k, i) => Settled(i)'
    BY QuietCovers DEF Settled
  <1>3. CASE faults' = faults + 1
    BY <1>1, <1>3, Accounting
  <1>4. CASE faults' = faults /\ (Covers(l, i) => Settled(i)')
    BY <1>1, <1>2, <1>4, SettledStays, Accounting
  <1> QED BY <1>3, <1>4

\* The last renewal before an e-mail: the item was not settled, and is now covered.
LEMMA ConfirmMail ==
    ASSUME DailyTypeOK, DailyTypeOK', PassInv, [Next]_vars, NEW l \in Lane, Confirm(l),
           NEW i \in Item, MailOK(i)
    PROVE  MailOK(i)'
  <1>1. /\ PassOK(l) /\ LeasesArePending /\ pc[l] = "deciding" /\ work[l] \in Batch
        /\ UNCHANGED <<status, owner, mailed, faults>>
    BY DEF Confirm, PassInv, DailyTypeOK
  <1>2. QuietFor(l) /\ ~ Covers(l, i) /\ l \notin Senders(i)
    BY <1>1, ConfirmPass DEF Covers, Senders
  <1>3. CASE l \notin Senders(i)'
    BY <1>1, <1>2, <1>3, QuietMail
  <1>4. CASE l \in Senders(i)'
    <2>1. /\ HoldsLive(l, work[l]) /\ UNCHANGED <<live, work, email>>
          /\ pc' = [pc EXCEPT ![l] = "sending"]
      BY <1>4 DEF Confirm, Senders, Quit, DailyTypeOK
    <2>2. i \in email[l] /\ pc'[l] = "sending" /\ \A k \in Lane \ {l} : pc'[k] = pc[k]
      BY <1>4, <2>1 DEF Senders, DailyTypeOK
    <2>3. place[i] = work[l] /\ owner[work[l]] = l /\ status[work[l]] = "pending"
      BY <1>1, <2>1, <2>2 DEF PassOK, ItemsIn, HoldsLive, Holds
    <2>4. ~ Settled(i)
      <3>1. ASSUME NEW k \in Lane, Covers(k, i) PROVE FALSE
        <4>1. place[i] = work[k] /\ owner[work[k]] = k
          BY <3>1 DEF Covers, PassInv, PassOK, ItemsIn, HoldsLive, Holds
        <4> QED BY <1>2, <2>3, <3>1, <4>1
      <3> QED BY <2>3, <3>1 DEF Settled, Closed
    <2>5. Covers(l, i)'
      BY <1>1, <2>1, <2>2 DEF Covers, HoldsLive, Holds
    <2>6. Settled(i)'
      BY <2>5 DEF Settled
    <2>7. Senders(i)' = Senders(i) \cup {l}
      BY <2>1, <2>2 DEF Senders
    <2>8. Cardinality(Senders(i))' = Cardinality(Senders(i)) + 1
      BY <1>2, <2>7, SendersAreFinite, FS_AddElement
    <2>9. /\ mailed[i] \in Nat /\ faults \in Nat /\ Cardinality(Senders(i)) \in Nat
          /\ mailed' = mailed /\ faults' = faults
      BY <1>1, SendersAreFinite DEF DailyTypeOK
    <2> QED BY <2>4, <2>6, <2>8, <2>9 DEF MailOK
  <1> QED BY <1>3, <1>4

LEMMA DeliverMail ==
    ASSUME DailyTypeOK, DailyTypeOK', PassInv, [Next]_vars, NEW l \in Lane, Deliver(l),
           NEW i \in Item, MailOK(i)
    PROVE  MailOK(i)'
  <1>1. /\ PassOK(l) /\ LeasesArePending /\ pc[l] = "sending" /\ work[l] \in Batch
        /\ UNCHANGED <<status, owner, live, work, email, faults>>
    BY DEF Deliver, PassInv, batchVars, DailyTypeOK
  <1>2. /\ pc'[l] = "sent" /\ \A k \in Lane \ {l} : pc'[k] = pc[k]
        /\ mailed'[i] = IF i \in email[l] THEN mailed[i] + 1 ELSE mailed[i]
    BY DEF Deliver, DailyTypeOK
  <1>3. QuietFor(l)
    BY <1>1, DeliverPass
  <1>4. Covers(l, i) => Settled(i)'
    BY <1>1, <1>2 DEF Covers, HoldsLive, Holds, Settled
  <1>5. CASE i \notin email[l]
    <2>1. l \notin Senders(i)' /\ mailed'[i] = mailed[i]
      BY <1>2, <1>5 DEF Senders
    <2> QED BY <1>1, <1>3, <1>4, <2>1, QuietMail
  <1>6. CASE i \in email[l]
    <2>1. l \in Senders(i) /\ Senders(i)' = Senders(i) \ {l}
      BY <1>1, <1>2, <1>6 DEF Senders
    <2>2. Cardinality(Senders(i))' = Cardinality(Senders(i)) - 1
      BY <2>1, SendersAreFinite, FS_RemoveElement
    <2>3. Settled(i) => Settled(i)'
      BY <1>3, <1>4, QuietCovers, SettledStays DEF Settled
    <2>4. /\ mailed[i] \in Nat /\ faults \in Nat /\ Cardinality(Senders(i)) \in Nat
          /\ mailed'[i] = mailed[i] + 1 /\ faults' = faults
      BY <1>1, <1>2, <1>6, SendersAreFinite DEF DailyTypeOK
    <2> QED BY <2>2, <2>3, <2>4 DEF MailOK
  <1> QED BY <1>5, <1>6

LEMMA CompleteMail ==
    ASSUME DailyTypeOK, DailyTypeOK', PassInv, [Next]_vars, NEW l \in Lane, Complete(l),
           NEW i \in Item, MailOK(i)
    PROVE  MailOK(i)'
  <1>1. /\ QuietFor(l) /\ Quit(l) /\ mailed' = mailed /\ faults' = faults /\ place' = place
    BY EndPass DEF Complete, PassInv, itemVars
  <1>2. l \notin Senders(i)'
    BY <1>1 DEF Quit, Senders, DailyTypeOK
  <1>3. ASSUME Covers(l, i) PROVE Settled(i)'
    <2>1. /\ PassOK(l) /\ work[l] \in Batch /\ HoldsLive(l, work[l]) /\ i \in email[l]
      BY <1>3 DEF PassInv, Covers, DailyTypeOK
    <2>2. place[i] = work[l] /\ Holds(l, work[l])
      BY <1>3, <2>1 DEF PassOK, Covers, ItemsIn, HoldsLive
    <2>3. status'[work[l]] = "delivered"
      BY <2>1, <2>2 DEF Complete, DailyTypeOK
    <2>4. place'[i] # NoBatch /\ Closed(place[i])'
      BY <1>1, <2>1, <2>2, <2>3, NameAssumption DEF Closed
    <2> QED BY <2>4 DEF Settled
  <1> QED BY <1>1, <1>2, <1>3, QuietMail

LEMMA LaneMail ==
    ASSUME DailyTypeOK, DailyTypeOK', PassInv, [Next]_vars, NEW l \in Lane, LaneStep(l),
           NEW i \in Item, MailOK(i)
    PROVE  MailOK(i)'
  <1>1. ASSUME NEW b \in Batch, Claim(l, b) PROVE MailOK(i)'
    <2>1. Senders(i)' \subseteq Senders(i)
      BY <1>1, ClaimEffect DEF Senders
    <2>2. Settled(i) => Settled(i)'
      BY <1>1, ClaimCovers, SettledStays DEF Settled
    <2>3. mailed' = mailed /\ faults' = faults
      BY <1>1, ClaimEffect
    <2> QED BY <2>1, <2>2, <2>3, Accounting
  <1>2. CASE List(l)
    <2>1. /\ QuietFor(l) /\ pc[l] = "begun" /\ mailed' = mailed /\ faults' = faults
      BY <1>2, ListPass DEF PassInv, List
    <2>2. l \notin Senders(i)' /\ ~ Covers(l, i)
      BY <1>2, <2>1 DEF List, Quit, Senders, Covers, DailyTypeOK
    <2> QED BY <2>1, <2>2, QuietMail
  <1>3. ASSUME NEW j \in Item, Decide(l, j) PROVE MailOK(i)'
    <2>1. /\ pc[l] = "deciding" /\ mailed' = mailed /\ faults' = faults /\ owner' = owner
          /\ QuietFor(l) \/ Moving(l)
      BY <1>3, DecidePass DEF PassInv, Decide, batchVars
    <2>2. pc'[l] # "sending"
      BY <1>3, <2>1 DEF Decide, Reschedule, Failed, Quit, DailyTypeOK
    <2>3. l \notin Senders(i)' /\ ~ Covers(l, i)
      BY <2>1, <2>2 DEF Senders, Covers
    <2>4. CASE QuietFor(l)
      BY <2>1, <2>3, <2>4, QuietMail
    <2>5. CASE Moving(l)
      <3>1. Senders(i)' \subseteq Senders(i)
        BY <2>5 DEF Moving, Senders
      <3>2. Settled(i) => Settled(i)'
        BY <2>1, <2>5, MovingCovers, SettledStays DEF Settled
      <3> QED BY <2>1, <3>1, <3>2, Accounting
    <2> QED BY <2>1, <2>4, <2>5
  <1>4. CASE Throw(l) \/ Crash(l)
    <2>1. /\ QuietFor(l) /\ mailed' = mailed /\ faults' = faults + 1
      BY <1>4, EndPass DEF PassInv, Throw, Crash
    <2>2. l \notin Senders(i)'
      BY <1>4 DEF Throw, Crash, Failed, Quit, Senders, DailyTypeOK
    <2> QED BY <2>1, <2>2, QuietMail
  <1>5. CASE Begin(l)
    <2>1. /\ QuietFor(l) /\ pc[l] = "claimed" /\ mailed' = mailed /\ faults' = faults
      BY <1>5, BeginPass DEF PassInv, Begin
    <2>2. l \notin Senders(i)' /\ ~ Covers(l, i)
      BY <1>5, <2>1 DEF Begin, Senders, Covers, DailyTypeOK
    <2> QED BY <2>1, <2>2, QuietMail
  <1> QED BY <1>1, <1>2, <1>3, <1>4, <1>5, ConfirmMail, DeliverMail, CompleteMail DEF LaneStep

\* Alerts, clocks and users: only a lease that lapses takes a cover away.
LEMMA WorldMail ==
    ASSUME DailyTypeOK, DailyTypeOK', PassInv, [Next]_vars, NEW i \in Item, MailOK(i),
           UNCHANGED <<pc, work, email, owner, mailed>>,
           \A b \in Batch : status[b] = "pending" => status'[b] = "pending",
           \/ live' = live /\ faults' = faults
           \/ \E b \in Batch : Lapse(b)
    PROVE  MailOK(i)'
  <1>1. Senders(i)' \subseteq Senders(i)
    BY DEF Senders
  <1>2. ASSUME NEW l \in Lane, Covers(l, i), work[l] \in live' PROVE Settled(i)'
    <2>1. work[l] \in Batch
      BY <1>2 DEF Covers, DailyTypeOK
    <2>2. Covers(l, i)'
      BY <1>2, <2>1 DEF Covers, HoldsLive, Holds
    <2> QED BY <2>2 DEF Settled
  <1>3. CASE live' = live /\ faults' = faults
    <2>1. Settled(i) => Settled(i)'
      BY <1>2, <1>3, SettledStays DEF Covers, HoldsLive
    <2> QED BY <1>1, <1>3, <2>1, Accounting
  <1>4. ASSUME NEW b \in Batch, Lapse(b) PROVE MailOK(i)'
    <2>1. CASE \E l \in Lane : work[l] = b /\ owner[b] = l
      <3>1. faults' = faults + 1
        BY <1>4, <2>1 DEF Lapse
      <3> QED BY <1>1, <3>1, Accounting
    <2>2. CASE ~ \E l \in Lane : work[l] = b /\ owner[b] = l
      <3>1. faults' = faults /\ live' = live \ {b}
        BY <1>4, <2>2 DEF Lapse
      <3>2. \A l \in Lane : Covers(l, i) => work[l] \in live'
        BY <2>2, <3>1 DEF Covers, HoldsLive, Holds
      <3>3. Settled(i) => Settled(i)'
        BY <1>2, <3>2, SettledStays
      <3> QED BY <1>1, <3>1, <3>3, Accounting
    <2> QED BY <2>1, <2>2
  <1> QED BY <1>3, <1>4

LEMMA MailStep ==
    ASSUME DailyTypeOK, PassInv, [Next]_vars, NEW i \in Item, MailOK(i)
    PROVE  MailOK(i)'
  <1>1. DailyTypeOK'
    BY TypeStep
  <1> USE DEF batchVars, laneVars
  <1>2. ASSUME NEW l \in Lane, LaneStep(l) PROVE MailOK(i)'
    BY <1>1, <1>2, LaneMail
  <1>3. ASSUME UNCHANGED <<pc, work, email, owner, mailed>>,
               \A b \in Batch : status[b] = "pending" => status'[b] = "pending",
               live' = live, faults' = faults
        PROVE  MailOK(i)'
    BY <1>1, <1>3, WorldMail
  <1>4. ASSUME NEW j \in Item, Insert(j) PROVE MailOK(i)'
    <2>1. UNCHANGED <<pc, work, email, owner, mailed, live, faults>>
      BY <1>4 DEF Insert
    <2>2. ASSUME NEW c, Writable(c), Admit(j, c)
          PROVE  \A b \in Batch : status[b] = "pending" => status'[b] = "pending"
      BY <2>2, AdmitEffect, WritableIs
    <2>3. \A b \in Batch : status[b] = "pending" => status'[b] = "pending"
      BY <1>4, <2>2 DEF Insert
    <2> QED BY <1>3, <2>1, <2>3
  <1>5. ASSUME NEW j \in Item, Raise(j) \/ ResolveIncident(j) PROVE MailOK(i)'
    BY <1>3, <1>5 DEF Raise, ResolveIncident
  <1>6. ASSUME NEW b \in Batch, Lapse(b) PROVE MailOK(i)'
    <2>1. UNCHANGED <<pc, work, email, owner, mailed, status>>
      BY <1>6 DEF Lapse
    <2> QED BY <1>1, <1>6, <2>1, WorldMail
  <1>7. ASSUME NEW b \in Batch, Backoff(b) PROVE MailOK(i)'
    BY <1>3, <1>7 DEF Backoff
  <1>8. ASSUME NEW s \in Schedule, Pass(s) PROVE MailOK(i)'
    BY <1>3, <1>8 DEF Pass
  <1>9. ASSUME NEW p \in Project, NEW s \in Schedule \cup {Off}, ChangePolicy(p, s) PROVE MailOK(i)'
    BY <1>3, <1>9 DEF ChangePolicy
  <1>10. CASE UNCHANGED vars
    BY <1>3, <1>10 DEF vars
  <1> QED BY <1>2, <1>4, <1>5, <1>6, <1>7, <1>8, <1>9, <1>10 DEF Next

\* An incident is mailed again only after a fault.
THEOREM RepeatsArePaidFor == Spec => []RepeatsNeedFaults
  <1> DEFINE AllMailOK == \A i \in Item : MailOK(i)
  <1>1. Init => AllMailOK
    <2> SUFFICES ASSUME Init, NEW i \in Item PROVE MailOK(i)
      OBVIOUS
    <2>1. Senders(i) = {} /\ mailed[i] = 0 /\ faults = 0
      BY DEF Init, Senders
    <2>2. Cardinality(Senders(i)) = 0
      BY <2>1, FS_EmptySet
    <2> QED BY <2>1, <2>2 DEF MailOK
  <1>2. DailyTypeOK /\ PassInv /\ AllMailOK /\ [Next]_vars => AllMailOK'
    BY MailStep
  <1>3. DailyTypeOK /\ AllMailOK => RepeatsNeedFaults
    <2> SUFFICES ASSUME DailyTypeOK, NEW i \in Item, MailOK(i) PROVE mailed[i] <= 1 + faults
      BY DEF RepeatsNeedFaults
    <2>1. mailed[i] \in Nat /\ faults \in Nat /\ Cardinality(Senders(i)) \in Nat
      BY SendersAreFinite DEF DailyTypeOK
    <2> QED BY <2>1 DEF MailOK
  <1> HIDE DEF AllMailOK
  <1> QED BY <1>1, <1>2, <1>3, PassAlways, PTL DEF Spec

(***************************************************************************)
(* no window is forgotten                                                  *)
(***************************************************************************)
\* A lane that holds its batch has counted an attempt of it.
AttemptsAreCounted ==
    \A k \in Lane : pc[k] # "idle" /\ Holds(k, work[k]) => attempts[work[k]] > 0

FoundInv == OverdueIsFound /\ AttemptsAreCounted

\* The attempts of a batch are touched by its claim and by the deferral of its holder.
LEMMA AttemptsKept ==
    ASSUME DailyTypeOK, AttemptsAreCounted, NEW l \in Lane, QuietFor(l),
           PassInv, DailyTypeOK',
           \A b \in Batch : attempts'[b] = attempts[b] \/ owner[b] = l,
           pc'[l] = "idle" \/ (work'[l] = work[l] /\ pc[l] # "idle" /\ attempts' = attempts
                               /\ (Holds(l, work[l])' => Holds(l, work[l])))
    PROVE  AttemptsAreCounted'
  <1> SUFFICES ASSUME NEW k \in Lane, pc'[k] # "idle", owner'[work'[k]] = k, status'[work'[k]] = "pending"
               PROVE  attempts'[work'[k]] > 0
    BY DEF AttemptsAreCounted, Holds
  <1>1. CASE k = l
    BY <1>1 DEF AttemptsAreCounted, Holds
  <1>2. CASE k # l
    <2>1. /\ pc[k] # "idle" /\ work'[k] = work[k] /\ owner' = owner /\ work[k] \in Batch
      BY <1>2 DEF QuietFor, DailyTypeOK
    <2>2. owner[work[k]] = k /\ attempts'[work[k]] = attempts[work[k]] /\ status'[work[k]] = status[work[k]]
      BY <1>2, <2>1 DEF QuietFor
    <2> QED BY <2>1, <2>2 DEF AttemptsAreCounted, Holds
  <1> QED BY <1>1, <1>2

\* A step that wakes no batch less, opens none and lets no window pass.
LEMMA FoundKept ==
    ASSUME DailyTypeOK, OverdueIsFound, today' = today, ready \subseteq ready',
           \A b \in Batch : /\ status'[b] = "pending" => status[b] = "pending"
                            /\ attempts'[b] = attempts[b]
    PROVE  OverdueIsFound'
  BY DEF OverdueIsFound, Overdue

LEMMA OpeningFinds ==
    ASSUME DailyTypeOK, OverdueIsFound, today' = today, attempts' = attempts,
           NEW c \in Batch, status' = Opened(c), DueIfOpened(c) \subseteq ready',
           status[c] \in {"absent", "pending"}
    PROVE  OverdueIsFound'
  BY DEF OverdueIsFound, Overdue, Opened, DueIfOpened, DailyTypeOK

LEMMA FailedFinds ==
    ASSUME DailyTypeOK, PassInv, FoundInv, NEW l \in Lane, pc[l] # "idle", Failed(l, work[l]),
           today' = today, attempts' = attempts
    PROVE  OverdueIsFound'
  <1>1. work[l] \in Batch
    BY DEF DailyTypeOK
  <1>2. CASE Holds(l, work[l])
    <2>1. attempts[work[l]] > 0
      BY <1>2 DEF FoundInv, AttemptsAreCounted
    <2>2. /\ \A b \in Batch \ {work[l]} : status'[b] = status[b]
          /\ ready' = ready \ {work[l]}
      BY <1>1, <1>2 DEF Failed, DailyTypeOK
    <2> QED BY <1>1, <2>1, <2>2 DEF FoundInv, OverdueIsFound, Overdue
  <1>3. CASE ~ Holds(l, work[l])
    BY <1>3 DEF Failed, FoundInv, OverdueIsFound, Overdue
  <1> QED BY <1>2, <1>3

LEMMA ClaimFinds ==
    ASSUME DailyTypeOK, PassInv, FoundInv, NEW l \in Lane, NEW b \in Batch, Claim(l, b)
    PROVE  FoundInv'
  <1>1. /\ ready' = ready \ Coalesced(b) /\ b \in ready
        /\ attempts' = [attempts EXCEPT ![b] = attempts[b] + 1]
    BY DEF Claim
  <1>2. /\ today' = today /\ owner'[b] = l /\ \A c \in Batch \ {b} : owner'[c] = owner[c]
        /\ \A c \in Coalesced(b) : c \in Batch /\ c # b /\ status'[c] = "suppressed"
        /\ \A c \in Batch : c \notin Coalesced(b) => status'[c] = status[c]
        /\ pc'[l] = "claimed" /\ work'[l] = b
        /\ \A k \in Lane \ {l} : pc'[k] = pc[k] /\ work'[k] = work[k]
    BY ClaimEffect
  <1>3. attempts'[b] > 0 /\ \A c \in Batch \ {b} : attempts'[c] = attempts[c]
    BY <1>1 DEF DailyTypeOK
  <1>4. OverdueIsFound'
    BY <1>1, <1>2, <1>3 DEF FoundInv, OverdueIsFound, Overdue
  <1>5. ASSUME NEW k \in Lane, pc'[k] # "idle", owner'[work'[k]] = k, status'[work'[k]] = "pending"
        PROVE  attempts'[work'[k]] > 0
    <2>1. CASE k = l
      BY <1>2, <1>3, <2>1
    <2>2. CASE k # l
      <3>1. pc[k] # "idle" /\ work'[k] = work[k] /\ work[k] \in Batch
        BY <1>2, <1>5, <2>2 DEF DailyTypeOK
      <3>2. work[k] # b /\ owner[work[k]] = k /\ status[work[k]] = "pending"
        BY <1>2, <1>5, <2>2, <3>1
      <3> QED BY <1>3, <3>1, <3>2 DEF FoundInv, AttemptsAreCounted, Holds
    <2> QED BY <2>1, <2>2
  <1> QED BY <1>4, <1>5 DEF FoundInv, AttemptsAreCounted, Holds

LEMMA LaneFinds ==
    ASSUME DailyTypeOK, DailyTypeOK', PassInv, FoundInv, [Next]_vars, NEW l \in Lane, LaneStep(l)
    PROVE  FoundInv'
  <1> USE DEF batchVars
  <1>1. PassOK(l) /\ LeasesArePending /\ OverdueIsFound /\ AttemptsAreCounted
    BY DEF PassInv, FoundInv
  <1>2. ASSUME QuietFor(l), attempts' = attempts, pc'[l] = "idle" PROVE AttemptsAreCounted'
    BY <1>1, <1>2, AttemptsKept
  <1>3. ASSUME QuietFor(l), attempts' = attempts, work' = work, pc[l] # "idle",
               status' = status
        PROVE  AttemptsAreCounted'
    <2>1. work[l] \in Batch /\ owner' = owner
      BY <1>3 DEF QuietFor, DailyTypeOK
    <2> QED BY <1>1, <1>3, <2>1, AttemptsKept DEF Holds
  <1>4. ASSUME UNCHANGED <<today, status, attempts>>, ready \subseteq ready' PROVE OverdueIsFound'
    BY <1>1, <1>4, FoundKept
  <1>5. CASE List(l)
    <2>1. QuietFor(l) /\ UNCHANGED <<today, status, attempts, ready>> /\ pc[l] # "idle"
      BY <1>1, <1>5, ListPass DEF List
    <2>2. pc'[l] = "idle" \/ work' = work
      BY <1>5 DEF List, Quit, DailyTypeOK
    <2> QED BY <1>2, <1>3, <1>4, <2>1, <2>2 DEF FoundInv
  <1>6. CASE Deliver(l)
    <2>1. QuietFor(l) /\ UNCHANGED <<today, status, attempts, ready, work>> /\ pc[l] # "idle"
      BY <1>1, <1>6, DeliverPass DEF Deliver
    <2> QED BY <1>3, <1>4, <2>1 DEF FoundInv
  <1>7. CASE Crash(l)
    <2>1. QuietFor(l) /\ UNCHANGED <<today, status, attempts, ready>> /\ pc'[l] = "idle"
      BY <1>1, <1>7, EndPass DEF Crash, Quit, DailyTypeOK
    <2> QED BY <1>2, <1>4, <2>1 DEF FoundInv
  <1>8. CASE Throw(l)
    <2>1. /\ QuietFor(l) /\ UNCHANGED <<today, attempts>> /\ pc[l] # "idle" /\ Failed(l, work[l])
          /\ pc'[l] = "idle"
      BY <1>1, <1>8, EndPass DEF Throw, Failed, Quit, DailyTypeOK
    <2> QED BY <1>2, <2>1, FailedFinds DEF FoundInv
  <1>9. CASE Complete(l)
    <2>1. QuietFor(l) /\ UNCHANGED <<today, attempts>> /\ pc'[l] = "idle" /\ work[l] \in Batch
      BY <1>1, <1>9, EndPass DEF Complete, Quit, DailyTypeOK
    <2>2. \A b \in Batch : status'[b] = "pending" => status[b] = "pending" /\ (b \in ready => b \in ready')
      BY <1>9, <2>1 DEF Complete, Holds, DailyTypeOK
    <2>3. OverdueIsFound'
      BY <1>1, <2>1, <2>2 DEF OverdueIsFound, Overdue
    <2> QED BY <1>2, <2>1, <2>3 DEF FoundInv
  <1>10. CASE Confirm(l)
    <2> DEFINE b == work[l]
    <2>1. /\ QuietFor(l) /\ UNCHANGED <<today, status, owner>> /\ pc[l] # "idle" /\ b \in Batch
      BY <1>1, <1>10, ConfirmPass DEF Confirm, DailyTypeOK
    <2>2. ASSUME UNCHANGED <<attempts, ready>>, Quit(l) \/ work' = work PROVE FoundInv'
      <3>1. pc'[l] = "idle" \/ work' = work
        BY <2>2 DEF Quit, DailyTypeOK
      <3> QED BY <1>2, <1>3, <1>4, <2>1, <2>2, <3>1 DEF FoundInv
    <2>3. ASSUME HoldsLive(l, b), Quit(l), NEW u, Deferred(b, u) PROVE FoundInv'
      <3>1. pc'[l] = "idle" /\ owner[b] = l
        BY <2>3 DEF Quit, HoldsLive, Holds, DailyTypeOK
      <3>2. \A c \in Batch \ {b} : attempts'[c] = attempts[c] /\ (c \in ready => c \in ready')
        BY <2>1, <2>3 DEF Deferred, DailyTypeOK
      <3>3. Overdue(b) => b \in ready'
        BY <2>3 DEF Deferred
      <3>4. OverdueIsFound'
        BY <1>1, <2>1, <3>2, <3>3 DEF OverdueIsFound, Overdue
      <3>5. AttemptsAreCounted'
        BY <1>1, <2>1, <3>1, <3>2, AttemptsKept
      <3> QED BY <3>4, <3>5 DEF FoundInv
    <2> QED BY <1>10, <2>2, <2>3 DEF Confirm
  <1>11. ASSUME NEW i \in Item, Decide(l, i) PROVE FoundInv'
    <2>1. /\ pc[l] = "deciding" /\ work[l] \in Batch /\ attempts' = attempts /\ today' = today
          /\ owner' = owner
          /\ QuietFor(l) \/ Moving(l)
      BY <1>1, <1>11, DecidePass DEF Decide, DailyTypeOK
    <2>2. ASSUME UNCHANGED <<status, ready, work>>, QuietFor(l) PROVE FoundInv'
      BY <1>3, <1>4, <2>1, <2>2 DEF FoundInv
    <2>3. ASSUME Moving(l) PROVE FoundInv'
      <3>1. PICK j \in todo[l], c \in Batch :
              Writable(c) /\ MoveItem(j, c) /\ UNCHANGED <<pc, work>>
        BY <2>3 DEF Moving
      <3>2. OverdueIsFound'
        BY <1>1, <2>1, <3>1, OpeningFinds, WritableIs DEF MoveItem
      <3>3. ASSUME NEW k \in Lane, pc[k] # "idle", owner[work[k]] = k, status'[work[k]] = "pending"
            PROVE  attempts[work[k]] > 0
        <4>1. work[k] \in Batch /\ status[work[k]] # "absent"
          BY <3>3 DEF PassInv, PassOK, DailyTypeOK
        <4>2. status[work[k]] = "pending"
          BY <3>1, <3>3, <4>1, WritableIs DEF MoveItem, Opened, DailyTypeOK
        <4> QED BY <1>1, <3>3, <4>2 DEF AttemptsAreCounted, Holds
      <3>4. pc' = pc /\ work' = work /\ owner' = owner /\ attempts' = attempts
        BY <2>1, <3>1
      <3>5. ASSUME NEW k \in Lane, pc'[k] # "idle", Holds(k, work[k])'
            PROVE  attempts'[work'[k]] > 0
        <4>1. pc[k] # "idle" /\ owner[work[k]] = k /\ status'[work[k]] = "pending"
          BY <3>4, <3>5 DEF Holds
        <4> QED BY <3>3, <3>4, <4>1
      <3>6. AttemptsAreCounted'
        BY <3>5 DEF AttemptsAreCounted
      <3> QED BY <3>2, <3>6 DEF FoundInv
    <2>4. ASSUME Failed(l, work[l]), QuietFor(l) PROVE FoundInv'
      <3>1. pc'[l] = "idle"
        BY <2>4 DEF Failed, Quit, DailyTypeOK
      <3>2. OverdueIsFound'
        BY <2>1, <2>4, FailedFinds
      <3> QED BY <1>2, <2>1, <2>4, <3>1, <3>2 DEF FoundInv
    <2>5. \/ UNCHANGED <<status, ready, work>>
          \/ Failed(l, work[l])
          \/ Moving(l)
      <3> DEFINE s == policy[ProjectOf[i]]
      <3>1. CASE s \in {Off, work[l][1]}
        BY <1>11, <3>1 DEF Decide
      <3>2. CASE s \notin {Off, work[l][1]}
        <4>1. PICK w \in 1..(start[l][s] + 1) : Reschedule(l, i, s, w) /\ skipped' = skipped
          BY <1>11, <3>2 DEF Decide
        <4>2. <<s, w>>[1] = s /\ <<s, start[l][s] + 1>>[1] = s /\ i \in todo[l]
          BY <1>11 DEF Decide
        <4>3. ASSUME NEW c, c[1] = s, Holds(l, work[l]), Writable(c), MoveItem(i, c),
                     UNCHANGED <<taken, live, moved, pc, work, start, revision, email>>,
                     todo' = [todo EXCEPT ![l] = todo[l] \ {i}]
              PROVE  Moving(l)
          <5>1. c \in Batch /\ c[1] # work[l][1]
            BY <3>2, <4>3, WritableIs
          <5> QED BY <2>1, <4>1, <4>2, <4>3, <5>1 DEF Moving
        <4> QED BY <4>1, <4>2, <4>3 DEF Reschedule, HeldAtStart
      <3> QED BY <3>1, <3>2
    <2> QED BY <2>1, <2>2, <2>3, <2>4, <2>5
  <1>12. CASE Begin(l)
    <2>1. QuietFor(l) /\ UNCHANGED <<today, status, attempts, ready, work>> /\ pc[l] # "idle"
      BY <1>1, <1>12, BeginPass DEF Begin
    <2> QED BY <1>3, <1>4, <2>1 DEF FoundInv
  <1> QED BY <1>5, <1>6, <1>7, <1>8, <1>9, <1>10, <1>11, <1>12, ClaimFinds DEF LaneStep

LEMMA WorldFinds ==
    ASSUME DailyTypeOK, PassInv, FoundInv, UNCHANGED <<attempts, owner, pc, work>>,
           \A b \in Batch : status'[b] = "pending" => status[b] \in {"absent", "pending"},
           OverdueIsFound'
    PROVE  FoundInv'
  <1> SUFFICES ASSUME NEW k \in Lane, pc[k] # "idle", owner[work[k]] = k, status'[work[k]] = "pending"
               PROVE  attempts[work[k]] > 0
    BY DEF FoundInv, AttemptsAreCounted, Holds
  <1>1. work[k] \in Batch /\ status[work[k]] # "absent"
    BY DEF PassInv, PassOK, DailyTypeOK
  <1> QED BY <1>1 DEF FoundInv, AttemptsAreCounted, Holds

LEMMA FoundStep ==
    ASSUME DailyTypeOK, PassInv, FoundInv, [Next]_vars
    PROVE  FoundInv'
  <1> USE DEF batchVars, laneVars
  <1>1. DailyTypeOK' /\ OverdueIsFound
    BY TypeStep DEF FoundInv
  <1>2. ASSUME NEW l \in Lane, LaneStep(l) PROVE FoundInv'
    BY <1>1, <1>2, LaneFinds
  <1>3. ASSUME UNCHANGED <<attempts, owner, pc, work, status, today>>, ready \subseteq ready' PROVE FoundInv'
    BY <1>1, <1>3, FoundKept, WorldFinds
  <1>4. ASSUME NEW i \in Item, Insert(i) PROVE FoundInv'
    <2>1. UNCHANGED <<attempts, owner, pc, work, today>>
      BY <1>4 DEF Insert
    <2>2. ASSUME NEW c, Writable(c), Admit(i, c) PROVE FoundInv'
      <3>1. c \in Batch /\ status[c] \in {"absent", "pending"}
        BY <2>2, WritableIs
      <3>2. status' = Opened(c) /\ DueIfOpened(c) \subseteq ready'
        BY <2>2 DEF Admit, DueIfOpened
      <3>3. OverdueIsFound'
        BY <1>1, <2>1, <3>1, <3>2, OpeningFinds
      <3>4. \A b \in Batch : status'[b] = "pending" => status[b] \in {"absent", "pending"}
        BY <3>1, <3>2 DEF Opened, DailyTypeOK
      <3> QED BY <2>1, <3>3, <3>4, WorldFinds
    <2>3. ASSUME UNCHANGED <<status, itemVars, ready>> PROVE FoundInv'
      BY <1>3, <2>1, <2>3
    <2> QED BY <1>4, <2>2, <2>3 DEF Insert
  <1>5. ASSUME NEW i \in Item, Raise(i) \/ ResolveIncident(i) PROVE FoundInv'
    BY <1>3, <1>5 DEF Raise, ResolveIncident
  <1>6. ASSUME NEW b \in Batch, Lapse(b) \/ Backoff(b) PROVE FoundInv'
    BY <1>3, <1>6 DEF Lapse, Backoff
  <1>7. ASSUME NEW s \in Schedule, Pass(s) PROVE FoundInv'
    <2>1. /\ UNCHANGED <<attempts, owner, pc, work, status>>
          /\ today' = [today EXCEPT ![s] = today[s] + 1]
          /\ ready \subseteq ready'
          /\ status[Upcoming(s)] = "pending" => Upcoming(s) \in ready'
      BY <1>7 DEF Pass
    <2>2. ASSUME NEW b \in Batch, status[b] = "pending", b[2] <= today'[b[1]]
          PROVE  b \in ready' \/ attempts[b] > 0
      <3>1. b[1] \in Schedule /\ b[2] \in Nat /\ b = <<b[1], b[2]>> /\ today[b[1]] \in Nat
        BY BatchFacts DEF Day, DailyTypeOK
      <3>2. CASE Overdue(b)
        BY <1>1, <2>1, <2>2, <3>2 DEF OverdueIsFound
      <3>3. CASE ~ Overdue(b)
        <4>1. b[1] = s /\ b[2] = today[s] + 1
          BY <2>1, <2>2, <3>1, <3>3 DEF Overdue, DailyTypeOK
        <4>2. b = Upcoming(s)
          BY <3>1, <4>1 DEF Upcoming
        <4> QED BY <2>1, <2>2, <4>2
      <3> QED BY <3>2, <3>3
    <2>3. OverdueIsFound'
      BY <2>1, <2>2 DEF OverdueIsFound, Overdue
    <2> QED BY <2>1, <2>3, WorldFinds
  <1>8. ASSUME NEW p \in Project, NEW s \in Schedule \cup {Off}, ChangePolicy(p, s) PROVE FoundInv'
    BY <1>3, <1>8 DEF ChangePolicy
  <1>9. CASE UNCHANGED vars
    BY <1>3, <1>9 DEF vars
  <1> QED BY <1>2, <1>4, <1>5, <1>6, <1>7, <1>8, <1>9 DEF Next

\* A pending batch whose window is due is found by the next claim, or has an attempt behind it.
THEOREM NoWindowIsForgotten == Spec => []OverdueIsFound
  <1>1. Init => FoundInv
    BY DEF Init, FoundInv, OverdueIsFound, AttemptsAreCounted
  <1>2. DailyTypeOK /\ PassInv /\ FoundInv /\ [Next]_vars => FoundInv'
    BY FoundStep
  <1>3. FoundInv => OverdueIsFound
    BY DEF FoundInv
  <1> QED BY <1>1, <1>2, <1>3, PassAlways, PTL DEF Spec
=============================================================================
