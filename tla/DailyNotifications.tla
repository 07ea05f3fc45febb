--------------------------- MODULE DailyNotifications ---------------------------
(***************************************************************************)
(* Daily notification e-mails of one recipient: the tables                 *)
(* notification_daily_batches, _items and _allowance_usage                 *)
(* (packages/storage/src/notification-daily-store.ts, -claims.ts and       *)
(* -usage.ts) and the pass that delivers a batch                           *)
(* (notification-delivery-service.ts).                                     *)
(*                                                                         *)
(* A batch collects the incidents of one daily window of a schedule.  An   *)
(* alert admitted before a window closes may reach the table after it; a   *)
(* change of the preferences wakes the batches it touches, and moves items *)
(* between schedules when they are next claimed.  A lane works on a batch  *)
(* under a lease of ten minutes and a token that fences its writes.        *)
(*                                                                         *)
(* Simplifications:                                                        *)
(*   - a batch is <<schedule, day>>; today counts the windows past due;    *)
(*   - of claimed_until the model keeps whether it has passed and whether  *)
(*     it was granted before or after the window was due, of               *)
(*     next_attempt_at whether it has passed;                              *)
(*   - a claim reads the clock where it commits;                           *)
(*   - a lane's token is the lane; an alert is raised once for an incident;*)
(*   - preferences put a project on a schedule or switch it off;           *)
(*   - an e-mail lists 25 items and counts the others: mailed is both;     *)
(*   - pages of items, allowances that run out, cooldowns, immediate       *)
(*     delivery and the clean-up after 30 days are left out.               *)
(***************************************************************************)
EXTENDS Integers, FiniteSets

CONSTANTS Lane, NoLane, Schedule, Off, NoBatch,
          Project, Item, ProjectOf,  \* incidents to notify of, their projects
          MaxAttempts,               \* 8
          MaxDay, MaxChanges, MaxFaults  \* bounds of the model

Day == 1..MaxDay
Batch == Schedule \X Day

ASSUME NameAssumption ==
    IsFiniteSet(Lane) /\ NoLane \notin Lane /\ Off \notin Schedule /\ NoBatch \notin Batch
ASSUME ItemAssumption == ProjectOf \in [Item -> Project]
ASSUME CountAssumption ==
    MaxAttempts \in Nat \ {0} /\ MaxDay \in Nat /\ MaxChanges \in Nat /\ MaxFaults \in Nat

VARIABLES
  today,     \* windows of a schedule that are past due
  status,    \* of a batch
  owner,     \* claim_token
  taken,     \* claimed_until: "free" if null, else whether granted "early" or "late"
  live,      \* batches whose claimed_until has not passed
  ready,     \* batches whose next_attempt_at has passed
  moved,     \* batches whose next_attempt_at was set since they were claimed
  attempts,
  place,     \* batch_id of an item
  usage,     \* notification_daily_allowance_usage: <<batch, project>>
  charged,   \* the billable rows of it
  policy,    \* schedule of a project, or Off
  resolved,  \* items whose incident was resolved
  admitted,  \* the window computed for an alert whose insertion waits
  pc, work,  \* a lane: its await, its batch
  start,     \* the windows past due when its pass began, the clock of its decisions
  revision, todo, email,  \* policies read, items listed, items to send
  changes, faults,
  \* history, read by the properties alone
  mailed,    \* how often an item was in an accepted e-mail
  skipped    \* items the last pass over their due batch found resolved or switched off

batchVars == <<status, owner, taken, live, ready, moved, attempts>>
itemVars == <<place, usage, charged>>
laneVars == <<pc, work, start, revision, todo, email>>
userVars == <<policy, resolved, changes>>
vars == <<today, status, owner, taken, live, ready, moved, attempts, place, usage, charged, policy,
          resolved, admitted, pc, work, start, revision, todo, email, changes, faults,
          mailed, skipped>>

Overdue(b) == b[2] <= today[b[1]]
Following(b) == <<b[1], b[2] + 1>>
Upcoming(s) == <<s, today[s] + 1>>
Future(l) == work[l][2] > start[l][work[l][1]]
ItemsIn(b) == {i \in Item : place[i] = b}

(***************************************************************************)
(* admission                                                               *)
(***************************************************************************)
Writable_IgnoresClaim(b) == b \in Batch /\ status[b] \in {"absent", "pending"}

\* findWritableDailyBatch: a batch a claim has fixed the payload of takes no more
Writable(b) ==
    /\ b \in Batch
    /\ status[b] \in {"absent", "pending"}
    /\ taken[b] \in {"free", "early"}

Opened(b) == [status EXCEPT ![b] = "pending"]

\* a batch created after its window was due is due at once
DueIfOpened(b) == ready \cup {c \in {b} : status[c] = "absent" /\ Overdue(c)}

\* nextDailyNotificationAt, before the locks of the transaction are taken
Raise(i) ==
    LET s == policy[ProjectOf[i]]
    IN /\ place[i] = NoBatch /\ admitted[i] = NoBatch
       /\ s # Off /\ today[s] < MaxDay
       /\ admitted' = [admitted EXCEPT ![i] = Upcoming(s)]
       /\ UNCHANGED <<today, batchVars, itemVars, userVars, laneVars, faults, mailed, skipped>>

\* the first contribution of a project is charged, and wakes the batch
Admit(i, b) ==
    /\ status' = Opened(b)
    /\ IF i \in resolved
       THEN ready' = DueIfOpened(b) /\ UNCHANGED itemVars
       ELSE /\ place' = [place EXCEPT ![i] = b]
            /\ usage' = usage \cup {<<b, ProjectOf[i]>>}
            /\ charged' = charged \cup ({<<b, ProjectOf[i]>>} \ usage)
            /\ ready' = IF <<b, ProjectOf[i]>> \in usage THEN DueIfOpened(b) ELSE ready \cup {b}

Insert(i) ==
    LET b == admitted[i]
    IN /\ b # NoBatch /\ (Writable(b) \/ b[2] < MaxDay)
       /\ admitted' = [admitted EXCEPT ![i] = NoBatch]
       /\ \/ Writable(b) /\ Admit(i, b)
          \/ ~ Writable(b) /\ Writable(Following(b)) /\ Admit(i, Following(b))
          \/ ~ Writable(b) /\ ~ Writable(Following(b)) /\ UNCHANGED <<status, itemVars, ready>>
       /\ UNCHANGED <<today, owner, taken, live, moved, attempts, userVars, laneVars, faults,
                      mailed, skipped>>

(***************************************************************************)
(* claims                                                                  *)
(***************************************************************************)
ScheduleIsFree_Unlocked(s) == TRUE

\* under the lock of the schedule none of its batches has a live lease
ScheduleIsFree(s) == \A b \in live : b[1] # s

\* an overdue window takes the items of the other overdue windows of its schedule
Coalesced(b) ==
    IF Overdue(b)
    THEN {c \in Batch : c # b /\ c[1] = b[1] /\ Overdue(c) /\ status[c] = "pending"}
    ELSE {}

Claim(l, b) ==
    /\ pc[l] = "idle"
    /\ status[b] = "pending" /\ b \in ready /\ b \notin live /\ ItemsIn(b) # {}
    /\ ScheduleIsFree(b[1])
    /\ LET others == Coalesced(b)
           joined == {i \in Item : place[i] \in others}
           place2 == [i \in Item |-> IF i \in joined THEN b ELSE place[i]]
       IN /\ place' = place2
          /\ usage' = usage \cup {<<b, ProjectOf[i]>> : i \in joined}
          /\ status' = [c \in Batch |-> IF c \in others THEN "suppressed" ELSE status[c]]
          /\ taken' = [c \in Batch |->
                         IF c = b THEN IF Overdue(b) THEN "late" ELSE "early"
                         ELSE IF c \in others THEN "free" ELSE taken[c]]
    /\ owner' = [owner EXCEPT ![b] = l]
    /\ live' = live \cup {b}
    /\ ready' = ready \ Coalesced(b)
    /\ moved' = moved \ ({b} \cup Coalesced(b))
    /\ attempts' = [attempts EXCEPT ![b] = attempts[b] + 1]
    /\ pc' = [pc EXCEPT ![l] = "claimed"]
    /\ work' = [work EXCEPT ![l] = b]
    /\ skipped' = skipped \ ItemsIn(b)
    /\ UNCHANGED <<today, userVars, admitted, charged, start, revision, todo, email, faults, mailed>>

(***************************************************************************)
(* the pass over a claimed batch                                           *)
(***************************************************************************)
Holds(l, b) == owner[b] = l /\ status[b] = "pending"
HoldsLive(l, b) == Holds(l, b) /\ b \in live

\* a lease compared with the start of the pass, which was granted or renewed for ten
\* minutes since: that it has run out meanwhile is not seen
HeldAtStart(l, b) == Holds(l, b) /\ taken[b] # "free"

\* the preferences of the projects with items in the batch
Revision(b) == {<<ProjectOf[i], policy[ProjectOf[i]]>> : i \in ItemsIn(b)}

Renewed(b) == [taken EXCEPT ![b] = IF Overdue(b) THEN "late" ELSE "early"]

Quit(l) ==
    /\ pc' = [pc EXCEPT ![l] = "idle"]
    /\ work' = [work EXCEPT ![l] = NoBatch]
    /\ start' = [start EXCEPT ![l] = [s \in Schedule |-> 0]]
    /\ revision' = [revision EXCEPT ![l] = {}]
    /\ todo' = [todo EXCEPT ![l] = {}]
    /\ email' = [email EXCEPT ![l] = {}]

\* the clock is read once for the pass, after the claim
Begin(l) ==
    /\ pc[l] = "claimed"
    /\ start' = [start EXCEPT ![l] = today]
    /\ pc' = [pc EXCEPT ![l] = "begun"]
    /\ UNCHANGED <<today, batchVars, itemVars, userVars, admitted, work, revision, todo, email,
                   faults, mailed, skipped>>

\* policyRevision, renew and listItems
List(l) ==
    LET b == work[l]
    IN /\ pc[l] = "begun"
       /\ IF HoldsLive(l, b)
          THEN /\ taken' = Renewed(b)
               /\ revision' = [revision EXCEPT ![l] = Revision(b)]
               /\ todo' = [todo EXCEPT ![l] = ItemsIn(b) \ resolved]
               /\ skipped' = IF Future(l) THEN skipped ELSE skipped \cup (ItemsIn(b) \cap resolved)
               /\ pc' = [pc EXCEPT ![l] = "deciding"]
               /\ UNCHANGED <<work, start, email>>
          ELSE Quit(l) /\ UNCHANGED <<taken, skipped>>
       /\ UNCHANGED <<today, status, owner, live, ready, moved, attempts, itemVars, userVars,
                      admitted, faults, mailed>>

\* fail: the last of the attempts closes the batch, an earlier one backs off
Failed(l, b) ==
    /\ IF Holds(l, b)
       THEN /\ status' = [status EXCEPT ![b] =
                            IF attempts[b] >= MaxAttempts THEN "failed" ELSE "pending"]
            /\ taken' = [taken EXCEPT ![b] = "free"]
            /\ live' = live \ {b}
            /\ ready' = ready \ {b}
            /\ moved' = moved \ {b}
       ELSE UNCHANGED <<status, taken, live, ready, moved>>
    /\ Quit(l)

MoveItem_Uncharged(i, c) ==
    /\ place' = [place EXCEPT ![i] = c]
    /\ status' = Opened(c)
    /\ ready' = DueIfOpened(c)
    /\ UNCHANGED <<usage, charged>>

\* preserveDailyNotificationUsage, and the item leaves for the batch c
MoveItem(i, c) ==
    /\ place' = [place EXCEPT ![i] = c]
    /\ usage' = usage \cup {<<c, ProjectOf[i]>>}
    /\ status' = Opened(c)
    /\ ready' = DueIfOpened(c)
    /\ UNCHANGED charged

\* reschedule: w is the window after the anchor, which may lie far back; the other choice
\* is the window after the start of the pass
Reschedule(l, i, s, w) ==
    LET b == work[l]
        next == <<s, start[l][s] + 1>>
        target == IF Writable(<<s, w>>) THEN <<s, w>> ELSE next
    IN \/ /\ HeldAtStart(l, b) /\ Writable(target)
          /\ MoveItem(i, target)
          /\ todo' = [todo EXCEPT ![l] = todo[l] \ {i}]
          /\ UNCHANGED <<taken, live, moved, pc, work, start, revision, email>>
       \/ /\ HeldAtStart(l, b) /\ ~ Writable(target)
          /\ Failed(l, b) /\ UNCHANGED itemVars
       \/ /\ ~ HeldAtStart(l, b)
          /\ todo' = [todo EXCEPT ![l] = todo[l] \ {i}]
          /\ UNCHANGED <<status, taken, live, ready, moved, itemVars, pc, work, start,
                         revision, email>>

\* one item of the list: preferences.decide
Decide(l, i) ==
    LET b == work[l]
        s == policy[ProjectOf[i]]
    IN /\ pc[l] = "deciding" /\ i \in todo[l]
       /\ \/ /\ s \in {Off, b[1]}
             /\ todo' = [todo EXCEPT ![l] = todo[l] \ {i}]
             /\ email' = [email EXCEPT ![l] =
                            IF s = Off \/ Future(l) THEN email[l] ELSE email[l] \cup {i}]
             /\ skipped' = IF s = Off /\ ~ Future(l) THEN skipped \cup {i} ELSE skipped
             /\ UNCHANGED <<batchVars, itemVars, pc, work, start, revision>>
          \/ /\ s \notin {Off, b[1]}
             /\ start[l][s] < MaxDay
             /\ \E w \in 1..(start[l][s] + 1) : Reschedule(l, i, s, w)
             /\ UNCHANGED <<owner, attempts, skipped>>
       /\ UNCHANGED <<today, userVars, admitted, faults, mailed>>

Deferred_PastTheWindow(b, until) ==
    /\ taken' = [taken EXCEPT ![b] = "free"]
    /\ live' = live \ {b}
    /\ moved' = moved \ {b}
    /\ attempts' = [attempts EXCEPT ![b] = IF attempts[b] = 0 THEN 0 ELSE attempts[b] - 1]
    /\ ready' = IF ~ until \/ b \in moved THEN ready \cup {b} ELSE ready \ {b}

\* defer: a batch woken meanwhile is due for another pass at once
Deferred(b, until) ==
    /\ taken' = [taken EXCEPT ![b] = "free"]
    /\ live' = live \ {b}
    /\ moved' = moved \ {b}
    /\ attempts' = [attempts EXCEPT ![b] = IF attempts[b] = 0 THEN 0 ELSE attempts[b] - 1]
    /\ ready' = IF ~ until \/ b \in moved \/ Overdue(b) THEN ready \cup {b} ELSE ready \ {b}

\* the last renew, policyRevision, and both ways to defer
Confirm(l) ==
    LET b == work[l]
        current == Revision(b) = revision[l]
    IN /\ pc[l] = "deciding" /\ todo[l] = {}
       /\ \/ /\ ~ HoldsLive(l, b)
             /\ Quit(l) /\ UNCHANGED <<taken, live, moved, attempts, ready>>
          \/ /\ HoldsLive(l, b) /\ (~ current \/ Future(l))
             /\ Deferred(b, current) /\ Quit(l)
          \/ /\ HoldsLive(l, b) /\ current /\ ~ Future(l)
             /\ taken' = Renewed(b)
             /\ pc' = [pc EXCEPT ![l] = "sending"]
             /\ UNCHANGED <<live, moved, attempts, ready, work, start, revision, todo, email>>
       /\ UNCHANGED <<today, status, owner, itemVars, userVars, admitted, faults, mailed, skipped>>

\* the provider accepts the e-mail, if there is one to send
Deliver(l) ==
    /\ pc[l] = "sending"
    /\ mailed' = [i \in Item |-> IF i \in email[l] THEN mailed[i] + 1 ELSE mailed[i]]
    /\ pc' = [pc EXCEPT ![l] = "sent"]
    /\ UNCHANGED <<today, batchVars, itemVars, userVars, admitted, work, start, revision, todo,
                   email, faults, skipped>>

Complete(l) ==
    LET b == work[l]
    IN /\ pc[l] = "sent"
       /\ IF Holds(l, b)
          THEN /\ status' = [status EXCEPT ![b] =
                               IF email[l] = {} THEN "suppressed" ELSE "delivered"]
               /\ taken' = [taken EXCEPT ![b] = "free"]
               /\ live' = live \ {b}
               /\ ready' = ready \ {b}
               /\ moved' = moved \ {b}
          ELSE UNCHANGED <<status, taken, live, ready, moved>>
       /\ Quit(l)
       /\ UNCHANGED <<today, owner, attempts, itemVars, userVars, admitted, faults,
                      mailed, skipped>>

\* the catch: any await of the pass may throw, deliver after its e-mail was accepted too
Throw(l) ==
    /\ pc[l] \notin {"idle", "claimed"} /\ faults < MaxFaults
    /\ Failed(l, work[l])
    /\ faults' = faults + 1
    /\ UNCHANGED <<today, owner, attempts, itemVars, userVars, admitted, mailed, skipped>>

(***************************************************************************)
(* crashes, clocks and users                                               *)
(***************************************************************************)
Crash(l) ==
    /\ pc[l] # "idle" /\ faults < MaxFaults
    /\ Quit(l)
    /\ faults' = faults + 1
    /\ UNCHANGED <<today, batchVars, itemVars, userVars, admitted, mailed, skipped>>

\* ten minutes pass without a renewal; a fault if the pass still runs
Lapse(b) ==
    LET running == \E l \in Lane : work[l] = b /\ owner[b] = l
    IN /\ b \in live
       /\ running => faults < MaxFaults
       /\ faults' = IF running THEN faults + 1 ELSE faults
       /\ live' = live \ {b}
       /\ UNCHANGED <<today, status, owner, taken, ready, moved, attempts, itemVars, userVars,
                      laneVars, admitted, mailed, skipped>>

\* the next window of a schedule is due
Pass(s) ==
    /\ today[s] < MaxDay
    /\ today' = [today EXCEPT ![s] = today[s] + 1]
    /\ ready' = IF status[Upcoming(s)] = "pending" THEN ready \cup {Upcoming(s)} ELSE ready
    /\ UNCHANGED <<status, owner, taken, live, moved, attempts, itemVars, userVars, laneVars,
                   admitted, faults, mailed, skipped>>

\* the back-off of a failed attempt is over
Backoff(b) ==
    /\ status[b] = "pending" /\ b \notin ready /\ attempts[b] > 0
    /\ ready' = ready \cup {b}
    /\ UNCHANGED <<today, status, owner, taken, live, moved, attempts, itemVars, userVars,
                   laneVars, admitted, faults, mailed, skipped>>

\* updateNotificationPreferences: pending mail of the project is looked at again
ChangePolicy(p, s) ==
    LET woken == {b \in Batch : status[b] = "pending" /\ \E i \in ItemsIn(b) : ProjectOf[i] = p}
    IN /\ changes < MaxChanges /\ policy[p] # s
       /\ policy' = [policy EXCEPT ![p] = s]
       /\ changes' = changes + 1
       /\ ready' = ready \cup woken
       /\ moved' = moved \cup {b \in woken : taken[b] # "free"}
       /\ UNCHANGED <<today, status, owner, taken, live, attempts, itemVars, resolved, laneVars,
                      admitted, faults, mailed, skipped>>

ResolveIncident(i) ==
    /\ changes < MaxChanges /\ i \notin resolved
    /\ resolved' = resolved \cup {i}
    /\ changes' = changes + 1
    /\ UNCHANGED <<today, batchVars, itemVars, policy, laneVars, admitted, faults, mailed,
                   skipped>>

(***************************************************************************)
(* the specification                                                       *)
(***************************************************************************)
Init ==
    /\ today = [s \in Schedule |-> 0]
    /\ status = [b \in Batch |-> "absent"]
    /\ owner = [b \in Batch |-> NoLane]
    /\ taken = [b \in Batch |-> "free"]
    /\ live = {} /\ ready = {} /\ moved = {}
    /\ attempts = [b \in Batch |-> 0]
    /\ place = [i \in Item |-> NoBatch]
    /\ usage = {} /\ charged = {}
    /\ policy \in [Project -> Schedule]
    /\ resolved = {}
    /\ admitted = [i \in Item |-> NoBatch]
    /\ pc = [l \in Lane |-> "idle"]
    /\ work = [l \in Lane |-> NoBatch]
    /\ start = [l \in Lane |-> [s \in Schedule |-> 0]]
    /\ revision = [l \in Lane |-> {}]
    /\ todo = [l \in Lane |-> {}]
    /\ email = [l \in Lane |-> {}]
    /\ changes = 0 /\ faults = 0
    /\ mailed = [i \in Item |-> 0]
    /\ skipped = {}

LaneStep(l) ==
    \/ \E b \in Batch : Claim(l, b)
    \/ Begin(l)
    \/ List(l)
    \/ \E i \in Item : Decide(l, i)
    \/ Confirm(l)
    \/ Deliver(l)
    \/ Complete(l)
    \/ Throw(l)
    \/ Crash(l)

Next ==
    \/ \E i \in Item : Raise(i) \/ Insert(i) \/ ResolveIncident(i)
    \/ \E l \in Lane : LaneStep(l)
    \/ \E b \in Batch : Lapse(b) \/ Backoff(b)
    \/ \E s \in Schedule : Pass(s)
    \/ \E p \in Project, s \in Schedule \cup {Off} : ChangePolicy(p, s)

Spec == Init /\ [][Next]_vars

(***************************************************************************)
(* properties                                                              *)
(***************************************************************************)
\* Every variable has its type.
DailyTypeOK ==
    /\ today \in [Schedule -> 0..MaxDay]
    /\ status \in [Batch -> {"absent", "pending", "delivered", "suppressed", "failed"}]
    /\ owner \in [Batch -> Lane \cup {NoLane}]
    /\ taken \in [Batch -> {"free", "early", "late"}]
    /\ live \subseteq Batch /\ ready \subseteq Batch /\ moved \subseteq Batch
    /\ attempts \in [Batch -> Nat]
    /\ place \in [Item -> Batch \cup {NoBatch}]
    /\ usage \subseteq Batch \X Project /\ charged \subseteq usage
    /\ policy \in [Project -> Schedule \cup {Off}]
    /\ resolved \subseteq Item
    /\ admitted \in [Item -> Batch \cup {NoBatch}]
    /\ pc \in [Lane -> {"idle", "claimed", "begun", "deciding", "sending", "sent"}]
    /\ work \in [Lane -> Batch \cup {NoBatch}]
    /\ \A l \in Lane : pc[l] # "idle" => work[l] \in Batch
    /\ start \in [Lane -> [Schedule -> 0..MaxDay]]
    /\ revision \in [Lane -> SUBSET (Project \X (Schedule \cup {Off}))]
    /\ todo \in [Lane -> SUBSET Item] /\ email \in [Lane -> SUBSET Item]
    /\ changes \in Nat /\ faults \in Nat
    /\ mailed \in [Item -> Nat]
    /\ skipped \subseteq Item

\* A batch is closed only over items that were mailed, or that the pass found resolved or
\* switched off: an alert admitted late, an item moved in from another schedule and a change
\* of the preferences during the pass are never absorbed by a batch that is done with them.
NothingIsSilentlyDropped ==
    \A i \in Item :
        place[i] # NoBatch /\ status[place[i]] \in {"delivered", "suppressed"}
            => mailed[i] > 0 \/ i \in skipped

\* A pending batch whose window is due is found by the next claim, or has been claimed and
\* is under a lease or in a back-off that end: windows that pass during a deferral, moves into
\* past windows and alerts admitted late leave no batch behind that nothing wakes.
OverdueIsFound ==
    \A b \in Batch : status[b] = "pending" /\ Overdue(b) => b \in ready \/ attempts[b] > 0

\* What is charged for a window is the first item of a project admitted to it: a project
\* with items there is not charged for more, whether they were admitted, coalesced from other
\* windows or moved in from another schedule, by a lane whose lease has lapsed too, and no
\* move is itself charged (preserveDailyNotificationUsage).
MovesAreNotCharged ==
  [][\A b \in Batch, p \in Project :
       <<b, p>> \in charged' \ charged =>
         /\ \A i \in Item : place[i] = b => ProjectOf[i] # p
         /\ \E i \in Item : place[i] = NoBatch /\ place'[i] = b /\ ProjectOf[i] = p]_vars

\* An incident is mailed again only after a fault: a lease that lapses under a running pass,
\* a crash, or an error after the provider accepted the e-mail.
RepeatsNeedFaults ==
    \A i \in Item : mailed[i] <= 1 + faults
=============================================================================
