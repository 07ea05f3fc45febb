------------------------- MODULE WebhookDeliveryProofs -------------------------
(***************************************************************************)
(* The safety properties of WebhookDelivery for any number of lanes,       *)
(* webhooks and deliveries, any budget of tries and any number of faults.  *)
(*                                                                         *)
(* Recorded says what the tables can be trusted for whatever fails: tries  *)
(* are numbered on from answers that were got.  Orderly says more of a     *)
(* delivery nothing was disturbed of: where its jobs are, compared with    *)
(* its attempt_count.                                                      *)
(***************************************************************************)
EXTENDS WebhookDelivery, TLAPS

\* A delivery has a row before anything refers to it.
RowsFirst ==
    /\ \A d \in Delivery : delivery[d].status = "absent" => delivery[d] = AbsentRow
    /\ \A d \in Delivery : d \in matched => delivery[d] = AbsentRow
    /\ \A d \in Delivery : d \in pushed => delivery[d].status # "absent"
    /\ \A d \in Delivery, k \in Try : job[<<d, k>>] # NoJob => delivery[d].status # "absent"
    /\ \A w \in Lane, d \in Delivery, k \in Try :
          task[w] = <<d, k>> \/ <<d, k>> \in batch[w] => delivery[d].status # "absent"

\* What a lane does and what it holds agree.
LaneState ==
    \A w \in Lane :
        /\ pc[w] \in {"idle", "scheduling"} <=> task[w] = NoTask
        /\ pc[w] # "scheduling" => batch[w] = {}

\* Every try of d before the k-th was answered.
Reached(d, k) == 1..(k - 1) \subseteq tried[d]

Recorded ==
    /\ \A d \in Delivery : Reached(d, delivery[d].attempts + 1)
    /\ \A d \in Delivery, k \in Try : job[<<d, k>>] # NoJob => Reached(d, k)
    /\ \A w \in Lane, d \in Delivery, k \in Try :
          /\ <<d, k>> \in batch[w] => Reached(d, k)
          /\ task[w] = <<d, k>> =>
                /\ Reached(d, k)
                /\ pc[w] \in {"accepted", "refused"} => k \in tried[d]
                /\ pc[w] = "accepted" => d \in accepted

Base == TypeOK /\ RowsFirst /\ LaneState /\ Recorded /\ NothingStranded /\ OutcomesAreEarned

\* w sends d, or has its answer and has not recorded it.
Unrecorded(w) == pc[w] \in {"sending", "accepted", "refused"}
Answered(w, d) == pc[w] \in {"accepted", "refused"} /\ \E k \in Try : task[w] = <<d, k>>

Orderly(d) ==
    LET a == delivery[d].attempts IN
    /\ \A k \in Try :
          /\ job[<<d, k>>] # NoJob => k <= a + 1
          /\ job[<<d, k>>].state = "closed" => k <= a
          /\ job[<<d, k>>] = OpenJob => k = a + 1
    /\ \A w \in Lane, k \in Try :
          /\ <<d, k>> \in batch[w] => /\ k <= a + 1
                                      /\ k <= a => job[<<d, k>>] # NoJob
          /\ task[w] = <<d, k>> => /\ job[<<d, k>>] = [state |-> "open", owner |-> w]
                                   /\ IF Unrecorded(w) THEN k = a + 1 ELSE k <= a
    /\ d \in pushed /\ a >= 1 => job[<<d, 1>>] # NoJob
    /\ tried[d] = IF \E w \in Lane : Answered(w, d) THEN 1..(a + 1) ELSE 1..a
    /\ d \in accepted => \/ delivery[d].status = "delivered"
                         \/ \E w \in Lane : pc[w] = "accepted" /\ Answered(w, d)
    /\ delivery[d].status = "delivered" =>
          /\ a >= 1
          /\ \A k \in Try : job[<<d, k>>] # NoJob => k <= a
          /\ \A w \in Lane, k \in Try : <<d, k>> \in batch[w] => k <= a

Clean == Delivery \ (disturbed \cup retried)

IInv == Base /\ \A d \in Clean : Orderly(d)

LEMMA TaskShape ==
    ASSUME TypeOK, LaneState, NEW w \in Lane, pc[w] \notin {"idle", "scheduling"}
    PROVE  \E d \in Delivery, k \in Try :
              task[w] = <<d, k>> /\ task[w][1] = d /\ task[w][2] = k
<1>1. task[w] \in Job
  BY DEF TypeOK, LaneState
<1> QED  BY <1>1 DEF Job

LEMMA NotNone == \A d \in Delivery, k \in Try : <<d, k>> \in Job /\ <<d, k>> # NoTask
  BY DEF Job, NoTask

(***************************************************************************)
(* Base: one lemma per action.                                             *)
(***************************************************************************)

LEMMA InitBase == Init => Base
<1> SUFFICES ASSUME Init PROVE Base  OBVIOUS
<1> USE LaneAssumption, WebhookAssumption, CountAssumption DEF Init
<1>1. TypeOK
  BY DEF TypeOK, Row, AbsentRow, Status, NoJob, PC, Job, NoTask
<1>2. RowsFirst
  BY NotNone DEF RowsFirst, AbsentRow, Job
<1>3. LaneState
  BY DEF LaneState
<1>4. Recorded
  BY NotNone DEF Recorded, Reached, AbsentRow, Job
<1>5. NothingStranded /\ OutcomesAreEarned
  BY DEF NothingStranded, OutcomesAreEarned, AbsentRow
<1> QED  BY <1>1, <1>2, <1>3, <1>4, <1>5 DEF Base

LEMMA MatchBase ==
    ASSUME Base, NEW d \in Delivery, MatchWebhook(d)
    PROVE  Base'
<1> USE CountAssumption DEF Base, MatchWebhook,
        laneVars, tableVars, historyVars
<1>1. TypeOK'
  BY LaneAssumption DEF TypeOK, Row, Status, PC, AbsentRow
<1>2. RowsFirst'
  BY NotNone DEF RowsFirst, TypeOK, Row, AbsentRow
<1>3. LaneState'
  BY NotNone DEF LaneState, TypeOK, PC
<1>4. Recorded'
  BY NotNone DEF Recorded, Reached, TypeOK, Row, AbsentRow
<1>5. NothingStranded'
  BY DEF NothingStranded, RowsFirst, TypeOK, Row, AbsentRow
<1>6. OutcomesAreEarned'
  BY DEF OutcomesAreEarned, Recorded, Reached, TypeOK, Row, AbsentRow
<1> QED  BY <1>1, <1>2, <1>3, <1>4, <1>5, <1>6

LEMMA IntentBase ==
    ASSUME Base, NEW d \in Delivery, CreateIntent(d)
    PROVE  Base'
<1> USE CountAssumption DEF Base, CreateIntent,
        laneVars, tableVars, historyVars
<1>1. TypeOK'
  BY LaneAssumption DEF TypeOK, Row, Status, PC, AbsentRow
<1>2. RowsFirst'
  BY NotNone DEF RowsFirst, TypeOK, Row, AbsentRow
<1>3. LaneState'
  BY NotNone DEF LaneState, TypeOK, PC
<1>4. Recorded'
  BY NotNone DEF Recorded, Reached, TypeOK, Row, AbsentRow
<1>5. NothingStranded'
  BY DEF NothingStranded, RowsFirst, TypeOK, Row, AbsentRow
<1>6. OutcomesAreEarned'
  BY DEF OutcomesAreEarned, Recorded, Reached, TypeOK, Row, AbsentRow
<1> QED  BY <1>1, <1>2, <1>3, <1>4, <1>5, <1>6

LEMMA TestBase ==
    ASSUME Base, NEW d \in Delivery, CreateTest(d)
    PROVE  Base'
<1> USE CountAssumption DEF Base, CreateTest,
        laneVars, tableVars, historyVars
<1>1. TypeOK'
  BY LaneAssumption DEF TypeOK, Row, Status, PC, AbsentRow
<1>2. RowsFirst'
  BY NotNone DEF RowsFirst, TypeOK, Row, AbsentRow
<1>3. LaneState'
  BY NotNone DEF LaneState, TypeOK, PC
<1>4. Recorded'
  BY NotNone DEF Recorded, Reached, TypeOK, Row, AbsentRow
<1>5. NothingStranded'
  BY DEF NothingStranded, RowsFirst, TypeOK, Row, AbsentRow
<1>6. OutcomesAreEarned'
  BY DEF OutcomesAreEarned, Recorded, Reached, TypeOK, Row, AbsentRow
<1> QED  BY <1>1, <1>2, <1>3, <1>4, <1>5, <1>6

LEMMA PushBase ==
    ASSUME Base, NEW d \in Delivery, LosePush(d)
    PROVE  Base'
<1> USE CountAssumption DEF Base, LosePush,
        laneVars, tableVars, historyVars
<1>1. TypeOK'
  BY LaneAssumption DEF TypeOK, Row, Status, PC, AbsentRow
<1>2. RowsFirst'
  BY NotNone DEF RowsFirst, TypeOK, Row, AbsentRow
<1>3. LaneState'
  BY NotNone DEF LaneState, TypeOK, PC
<1>4. Recorded'
  BY NotNone DEF Recorded, Reached, TypeOK, Row, AbsentRow
<1>5. NothingStranded'
  BY DEF NothingStranded, RowsFirst, TypeOK, Row, AbsentRow
<1>6. OutcomesAreEarned'
  BY DEF OutcomesAreEarned, Recorded, Reached, TypeOK, Row, AbsentRow
<1> QED  BY <1>1, <1>2, <1>3, <1>4, <1>5, <1>6

LEMMA RetryBase ==
    ASSUME Base, NEW d \in Delivery, Retry(d)
    PROVE  Base'
<1> USE CountAssumption DEF Base, Retry,
        laneVars, tableVars, historyVars
<1>1. TypeOK'
  BY LaneAssumption DEF TypeOK, Row, Status, PC, AbsentRow
<1>2. RowsFirst'
  BY NotNone DEF RowsFirst, TypeOK, Row, AbsentRow
<1>3. LaneState'
  BY NotNone DEF LaneState, TypeOK, PC
<1>4. Recorded'
  BY NotNone DEF Recorded, Reached, TypeOK, Row, AbsentRow
<1>5. NothingStranded'
  BY DEF NothingStranded, RowsFirst, TypeOK, Row, AbsentRow
<1>6. OutcomesAreEarned'
  BY DEF OutcomesAreEarned, Recorded, Reached, TypeOK, Row, AbsentRow
<1> QED  BY <1>1, <1>2, <1>3, <1>4, <1>5, <1>6

LEMMA EnabledBase ==
    ASSUME Base, NEW h \in Webhook, NEW b \in BOOLEAN, SetEnabled(h, b)
    PROVE  Base'
<1> USE CountAssumption DEF Base, SetEnabled,
        laneVars, tableVars, historyVars
<1>1. TypeOK'
  BY LaneAssumption DEF TypeOK, Row, Status, PC, AbsentRow
<1>2. RowsFirst'
  BY NotNone DEF RowsFirst, TypeOK, Row, AbsentRow
<1>3. LaneState'
  BY NotNone DEF LaneState, TypeOK, PC
<1>4. Recorded'
  BY NotNone DEF Recorded, Reached, TypeOK, Row, AbsentRow
<1>5. NothingStranded'
  BY DEF NothingStranded, RowsFirst, TypeOK, Row, AbsentRow
<1>6. OutcomesAreEarned'
  BY DEF OutcomesAreEarned, Recorded, Reached, TypeOK, Row, AbsentRow
<1> QED  BY <1>1, <1>2, <1>3, <1>4, <1>5, <1>6

LEMMA ClaimBase ==
    ASSUME Base, NEW w \in Lane, NEW D \in SUBSET Delivery, ClaimDue(w, D)
    PROVE  Base'
<1> USE CountAssumption DEF Base, ClaimDue, With,
        laneVars, tableVars, historyVars
<1>r. \A x \in Delivery : delivery[x] \in Row
  BY DEF TypeOK
<1>s. \A x \in D : /\ delivery[x].attempts \in Nat /\ delivery[x].attempts + 1 \in Try
                  /\ delivery[x].status # "absent"
  <2> SUFFICES ASSUME NEW x \in D
               PROVE  /\ delivery[x].attempts \in Nat /\ delivery[x].attempts + 1 \in Try
                      /\ delivery[x].status # "absent"
    OBVIOUS
  <2>1. x \in Delivery /\ x \in Due /\ delivery[x] \in Row
    BY <1>r
  <2>2. delivery[x].attempts \in 0..MaxTries
    BY <2>1 DEF Row
  <2>3. CASE delivery[x].status = "pending"
    BY <2>1, <2>3 DEF NothingStranded, Try
  <2>4. CASE delivery[x].status = "retrying"
    BY <2>1, <2>2, <2>4 DEF NothingStranded, Try
  <2> QED  BY <2>1, <2>3, <2>4 DEF Due
<1>a. \A x \in D : delivery'[x] = [status |-> "retrying", attempts |-> delivery[x].attempts,
                                   next |-> "future"]
  BY <1>r DEF Row
<1>b. \A x \in Delivery \ D : delivery'[x] = delivery[x]
  OBVIOUS
<1>c. /\ batch' \in [Lane -> SUBSET Job]
      /\ \A v \in Lane, d \in Delivery, k \in Try : <<d, k>> \in batch'[v] =>
            <<d, k>> \in batch[v] \/ (v = w /\ d \in D /\ k = delivery[d].attempts + 1)
  <2>1. {<<d, delivery[d].attempts + 1>> : d \in D} \in SUBSET Job
    BY <1>s DEF Job
  <2>2. batch' \in [Lane -> SUBSET Job]
    BY <2>1 DEF TypeOK
  <2>3. batch'[w] = {<<d, delivery[d].attempts + 1>> : d \in D}
    BY DEF TypeOK
  <2>5. \A v \in Lane : v # w => batch'[v] = batch[v]
    BY DEF TypeOK
  <2>4. \A v \in Lane, d \in Delivery, k \in Try : <<d, k>> \in batch'[v] =>
            <<d, k>> \in batch[v] \/ (v = w /\ d \in D /\ k = delivery[d].attempts + 1)
    <3> SUFFICES ASSUME NEW v \in Lane, NEW d \in Delivery, NEW k \in Try,
                        <<d, k>> \in batch'[v]
                 PROVE  <<d, k>> \in batch[v] \/ (v = w /\ d \in D /\ k = delivery[d].attempts + 1)
      OBVIOUS
    <3>1. CASE v = w
      <4>1. PICK x \in D : <<d, k>> = <<x, delivery[x].attempts + 1>>
        BY <3>1, <2>3
      <4> QED  BY <3>1, <4>1
    <3>2. CASE v # w
      <4>1. batch'[v] = batch[v]
        BY <3>2, <2>5
      <4> QED  BY <4>1
    <3> QED  BY <3>1, <3>2
  <2> QED  BY <2>2, <2>4
<1>1. TypeOK'
  BY <1>a, <1>b, <1>c, <1>r, <1>s, LaneAssumption DEF TypeOK, Row, Status, PC
<1>2. RowsFirst'
  BY <1>a, <1>b, <1>c, <1>s DEF RowsFirst, AbsentRow
<1>3. LaneState'
  BY NotNone DEF LaneState, TypeOK, PC
<1>4. Recorded'
  BY <1>a, <1>b, <1>c, <1>s DEF Recorded, Reached
<1>5. NothingStranded'
  BY <1>a, <1>b, <1>s DEF NothingStranded, Try
<1>6. OutcomesAreEarned'
  BY <1>a, <1>b DEF OutcomesAreEarned
<1> QED  BY <1>1, <1>2, <1>3, <1>4, <1>5, <1>6

LEMMA EnqueueBase ==
    ASSUME Base, NEW w \in Lane, NEW j \in Job, EnqueueDue(w, j)
    PROVE  Base'
<1> USE CountAssumption DEF Base, EnqueueDue, Stored, OpenJob, NoJob, Job,
        laneVars, tableVars, historyVars
<1>1. TypeOK'
  BY LaneAssumption DEF TypeOK, Row, Status, PC, AbsentRow
<1>2. RowsFirst'
  BY NotNone DEF RowsFirst, TypeOK, Row, AbsentRow
<1>3. LaneState'
  BY NotNone DEF LaneState, TypeOK, PC
<1>4. Recorded'
  BY NotNone DEF Recorded, Reached, TypeOK, Row, AbsentRow
<1>5. NothingStranded'
  BY DEF NothingStranded, RowsFirst, TypeOK, Row, AbsentRow
<1>6. OutcomesAreEarned'
  BY DEF OutcomesAreEarned, Recorded, Reached, TypeOK, Row, AbsentRow
<1> QED  BY <1>1, <1>2, <1>3, <1>4, <1>5, <1>6

LEMMA AdoptBase ==
    ASSUME Base, NEW w \in Lane, NEW d \in Delivery, AdoptTest(w, d)
    PROVE  Base'
<1> USE CountAssumption DEF Base, AdoptTest, Stored, OpenJob, NoJob, Job, Try,
        laneVars, tableVars, historyVars
<1>1. TypeOK'
  BY LaneAssumption DEF TypeOK, Row, Status, PC, AbsentRow
<1>2. RowsFirst'
  BY NotNone DEF RowsFirst, TypeOK, Row, AbsentRow
<1>3. LaneState'
  BY NotNone DEF LaneState, TypeOK, PC
<1>4. Recorded'
  BY NotNone DEF Recorded, Reached, TypeOK, Row, AbsentRow
<1>5. NothingStranded'
  BY DEF NothingStranded, RowsFirst, TypeOK, Row, AbsentRow
<1>6. OutcomesAreEarned'
  BY DEF OutcomesAreEarned, Recorded, Reached, TypeOK, Row, AbsentRow
<1> QED  BY <1>1, <1>2, <1>3, <1>4, <1>5, <1>6

LEMMA TakeBase ==
    ASSUME Base, NEW w \in Lane, NEW j \in Job, TakeJob(w, j)
    PROVE  Base'
<1> USE CountAssumption DEF Base, TakeJob, Goto, OpenJob, NoJob,
        laneVars, tableVars, historyVars
<1>0. PICK d \in Delivery, k \in Try : j = <<d, k>>
  BY DEF Job
<1>a. /\ task' \in [Lane -> Job \cup {NoTask}] /\ task'[w] = <<d, k>> /\ <<d, k>> # NoTask
      /\ \A v \in Lane : v # w => task'[v] = task[v]
      /\ \A v \in Lane : v # w => pc'[v] = pc[v]
      /\ pc'[w] = "sending" /\ job[<<d, k>>] # NoJob
  BY <1>0, NotNone DEF TypeOK
<1>b. \A x \in Delivery, i \in Try : job'[<<x, i>>] # NoJob => job[<<x, i>>] # NoJob
  BY <1>0, <1>a, NotNone DEF TypeOK
<1>1. TypeOK'
  BY <1>a, LaneAssumption DEF TypeOK, PC
<1>2. RowsFirst'
  BY <1>0, <1>a, <1>b DEF RowsFirst
<1>3. LaneState'
  BY <1>0, <1>a DEF LaneState, TypeOK
<1>4. Recorded'
  <2>1. Reached(d, k)
    BY <1>0, <1>a DEF Recorded
  <2>2. \A x \in Delivery : Reached(x, delivery[x].attempts + 1)'
    BY DEF Recorded, Reached
  <2>3. \A x \in Delivery, i \in Try : job'[<<x, i>>] # NoJob => Reached(x, i)'
    BY <1>b DEF Recorded, Reached
  <2>4. ASSUME NEW v \in Lane, NEW x \in Delivery, NEW i \in Try
        PROVE  /\ <<x, i>> \in batch'[v] => Reached(x, i)'
               /\ task'[v] = <<x, i>> =>
                     /\ Reached(x, i)'
                     /\ pc'[v] \in {"accepted", "refused"} => i \in tried'[x]
                     /\ pc'[v] = "accepted" => x \in accepted'
    <3>1. CASE v = w
      BY <3>1, <1>a, <2>1 DEF Recorded, Reached
    <3>2. CASE v # w
      BY <3>2, <1>a DEF Recorded, Reached
    <3> QED  BY <3>1, <3>2
  <2> QED  BY <2>2, <2>3, <2>4 DEF Recorded
<1>5. NothingStranded'
  BY DEF NothingStranded, RowsFirst, TypeOK, Row, AbsentRow
<1>6. OutcomesAreEarned'
  BY DEF OutcomesAreEarned, Recorded, Reached, TypeOK, Row, AbsentRow
<1> QED  BY <1>1, <1>2, <1>3, <1>4, <1>5, <1>6

LEMMA DeliverBase ==
    ASSUME Base, NEW w \in Lane, NEW answer \in {"accepted", "refused"}, Deliver(w, answer)
    PROVE  Base'
<1> USE CountAssumption DEF Base, Deliver, Goto,
        laneVars, tableVars, historyVars
<1>0. PICK d \in Delivery, k \in Try : task[w] = <<d, k>> /\ task[w][1] = d /\ task[w][2] = k
  BY TaskShape
<1>1. TypeOK'
  BY <1>0, LaneAssumption DEF TypeOK, Row, Status, PC, AbsentRow
<1>2. RowsFirst'
  BY <1>0, NotNone DEF RowsFirst, TypeOK, Row, AbsentRow
<1>3. LaneState'
  BY <1>0, NotNone DEF LaneState, TypeOK, PC
<1>4. Recorded'
  BY <1>0, NotNone DEF Recorded, Reached, TypeOK, Row, AbsentRow
<1>5. NothingStranded'
  BY <1>0 DEF NothingStranded, RowsFirst, TypeOK, Row, AbsentRow
<1>6. OutcomesAreEarned'
  BY <1>0 DEF OutcomesAreEarned, Recorded, Reached, TypeOK, Row, AbsentRow
<1> QED  BY <1>1, <1>2, <1>3, <1>4, <1>5, <1>6

LEMMA DeliveredBase ==
    ASSUME Base, NEW w \in Lane, MarkDelivered(w)
    PROVE  Base'
<1> USE CountAssumption DEF Base, MarkDelivered, Goto, Marked,
        laneVars, tableVars, historyVars
<1>0. PICK d \in Delivery, k \in Try : task[w] = <<d, k>> /\ task[w][1] = d /\ task[w][2] = k
  BY TaskShape
<1>a. /\ delivery' = [delivery EXCEPT ![d] = [status |-> "delivered", attempts |-> k, next |-> "null"]]
      /\ job' = job /\ task' = task /\ batch' = batch /\ UNCHANGED <<matched, pushed>>
      /\ tried' = tried /\ accepted' = accepted
  BY <1>0
<1>e. delivery[d].status # "absent" /\ d \notin matched
  <2>1. delivery[d].status # "absent"
    BY <1>0 DEF RowsFirst
  <2> QED  BY <2>1 DEF RowsFirst, AbsentRow
<1>b. 1..k \subseteq tried[d] /\ d \in accepted
  <2>1. Reached(d, k) /\ k \in tried[d] /\ d \in accepted
    BY <1>0 DEF Recorded
  <2> QED  BY <2>1 DEF Reached, Try
<1>c. \A x \in Delivery : x # d => delivery'[x] = delivery[x]
  BY <1>a DEF TypeOK
<1>d. delivery'[d] = [status |-> "delivered", attempts |-> k, next |-> "null"]
  BY <1>a DEF TypeOK
<1>1. TypeOK'
  BY <1>0, <1>a, LaneAssumption DEF TypeOK, Latest, Row, Status, PC, Try
<1>2. RowsFirst'
  BY <1>0, <1>a, <1>b, <1>c, <1>d, <1>e DEF RowsFirst, AbsentRow
<1>3. LaneState'
  BY <1>0, <1>a DEF LaneState, TypeOK
<1>4. Recorded'
  BY <1>0, <1>a, <1>b, <1>c, <1>d, <1>e DEF Recorded, Reached, TypeOK, Try
<1>5. NothingStranded'
  BY <1>0, <1>a, <1>b, <1>c, <1>d, <1>e DEF NothingStranded, Try
<1>6. OutcomesAreEarned'
  BY <1>0, <1>a, <1>b, <1>c, <1>d, <1>e DEF OutcomesAreEarned, Try
<1> QED  BY <1>1, <1>2, <1>3, <1>4, <1>5, <1>6

LEMMA RetryingBase ==
    ASSUME Base, NEW w \in Lane, MarkRetrying(w)
    PROVE  Base'
<1> USE CountAssumption DEF Base, MarkRetrying, HasRetry, Goto, Marked,
        laneVars, tableVars, historyVars
<1>0. PICK d \in Delivery, k \in Try : task[w] = <<d, k>> /\ task[w][1] = d /\ task[w][2] = k
  BY TaskShape
<1>a. /\ delivery' = [delivery EXCEPT ![d] = [status |-> "retrying", attempts |-> k, next |-> "future"]]
      /\ job' = job /\ task' = task /\ batch' = batch /\ UNCHANGED <<matched, pushed>>
      /\ tried' = tried /\ accepted' = accepted
  BY <1>0
<1>e. delivery[d].status # "absent" /\ d \notin matched
  <2>1. delivery[d].status # "absent"
    BY <1>0 DEF RowsFirst
  <2> QED  BY <2>1 DEF RowsFirst, AbsentRow
<1>b. 1..k \subseteq tried[d]
  <2>1. Reached(d, k) /\ k \in tried[d]
    BY <1>0 DEF Recorded
  <2> QED  BY <2>1 DEF Reached, Try
<1>c. \A x \in Delivery : x # d => delivery'[x] = delivery[x]
  BY <1>a DEF TypeOK
<1>d. delivery'[d] = [status |-> "retrying", attempts |-> k, next |-> "future"]
  BY <1>a DEF TypeOK
<1>1. TypeOK'
  BY <1>0, <1>a, LaneAssumption DEF TypeOK, Latest, Row, Status, PC, Try
<1>2. RowsFirst'
  BY <1>0, <1>a, <1>b, <1>c, <1>d, <1>e DEF RowsFirst, AbsentRow
<1>3. LaneState'
  BY <1>0, <1>a DEF LaneState, TypeOK
<1>4. Recorded'
  BY <1>0, <1>a, <1>b, <1>c, <1>d, <1>e DEF Recorded, Reached, TypeOK, Try
<1>5. NothingStranded'
  BY <1>0, <1>a, <1>b, <1>c, <1>d, <1>e DEF NothingStranded, Try
<1>6. OutcomesAreEarned'
  BY <1>0, <1>a, <1>b, <1>c, <1>d, <1>e DEF OutcomesAreEarned, Try
<1> QED  BY <1>1, <1>2, <1>3, <1>4, <1>5, <1>6

LEMMA FailedBase ==
    ASSUME Base, NEW w \in Lane, MarkFailed(w)
    PROVE  Base'
<1> USE CountAssumption DEF Base, MarkFailed, HasRetry, Goto, Marked,
        laneVars, tableVars, historyVars
<1>0. PICK d \in Delivery, k \in Try : task[w] = <<d, k>> /\ task[w][1] = d /\ task[w][2] = k
  BY TaskShape
<1>a. /\ delivery' = [delivery EXCEPT ![d] = [status |-> "failed", attempts |-> k, next |-> "null"]]
      /\ job' = job /\ task' = task /\ batch' = batch /\ UNCHANGED <<matched, pushed>>
      /\ tried' = tried /\ accepted' = accepted
  BY <1>0
<1>e. delivery[d].status # "absent" /\ d \notin matched
  <2>1. delivery[d].status # "absent"
    BY <1>0 DEF RowsFirst
  <2> QED  BY <2>1 DEF RowsFirst, AbsentRow
<1>b. 1..k \subseteq tried[d]
  <2>1. Reached(d, k) /\ k \in tried[d]
    BY <1>0 DEF Recorded
  <2> QED  BY <2>1 DEF Reached, Try
<1>c. \A x \in Delivery : x # d => delivery'[x] = delivery[x]
  BY <1>a DEF TypeOK
<1>d. delivery'[d] = [status |-> "failed", attempts |-> k, next |-> "null"]
  BY <1>a DEF TypeOK
<1>g. tried[d] = Try
  <2>1. k = MaxTries
    BY <1>0 DEF Try
  <2> QED  BY <1>b, <2>1 DEF TypeOK, Try
<1>1. TypeOK'
  BY <1>0, <1>a, LaneAssumption DEF TypeOK, Latest, Row, Status, PC, Try
<1>2. RowsFirst'
  BY <1>0, <1>a, <1>b, <1>c, <1>d, <1>e DEF RowsFirst, AbsentRow
<1>3. LaneState'
  BY <1>0, <1>a DEF LaneState, TypeOK
<1>4. Recorded'
  BY <1>0, <1>a, <1>b, <1>c, <1>d, <1>e DEF Recorded, Reached, TypeOK, Try
<1>5. NothingStranded'
  BY <1>0, <1>a, <1>b, <1>c, <1>d, <1>e DEF NothingStranded, Try
<1>6. OutcomesAreEarned'
  BY <1>a, <1>b, <1>c, <1>d, <1>g DEF OutcomesAreEarned
<1> QED  BY <1>1, <1>2, <1>3, <1>4, <1>5, <1>6

LEMMA ThrowsBase ==
    ASSUME Base, NEW w \in Lane, MarkDeliveredThrows(w)
    PROVE  Base'
<1> USE CountAssumption DEF Base, MarkDeliveredThrows, Goto, Marked,
        laneVars, tableVars, historyVars
<1>0. PICK d \in Delivery, k \in Try : task[w] = <<d, k>> /\ task[w][1] = d /\ task[w][2] = k
  BY TaskShape
<1>f. delivery[d].status # "absent" /\ d \notin matched
  <2>1. delivery[d].status # "absent"
    BY <1>0 DEF RowsFirst
  <2> QED  BY <2>1 DEF RowsFirst, AbsentRow
<1>b. 1..k \subseteq tried[d] /\ d \in accepted
  <2>1. Reached(d, k) /\ k \in tried[d] /\ d \in accepted
    BY <1>0 DEF Recorded
  <2> QED  BY <2>1 DEF Reached, Try
<1>c. \A x \in Delivery : x # d => delivery'[x] = delivery[x]
  BY <1>0 DEF TypeOK
<1>d. \/ delivery'[d] = [status |-> "delivered", attempts |-> k, next |-> "null"]
      \/ delivery'[d] = delivery[d]
  BY <1>0 DEF TypeOK
<1>e. /\ delivery' \in [Delivery -> Row] /\ later' \in [Delivery -> SUBSET Delivery]
      /\ faults' \in 0..MaxFaults
  BY <1>0 DEF TypeOK, Latest, Row, Status, Try
<1>1. TypeOK'
  BY <1>0, <1>e, LaneAssumption DEF TypeOK, PC
<1>2. RowsFirst'
  BY <1>0, <1>f, <1>c, <1>d DEF RowsFirst, AbsentRow
<1>3. LaneState'
  BY <1>0 DEF LaneState, TypeOK
<1>4. Recorded'
  <2>1. Reached(d, k + 1)
    BY <1>b DEF Reached, Try
  <2>2. \A x \in Delivery : Reached(x, delivery[x].attempts + 1)'
    BY <2>1, <1>c, <1>d DEF Recorded, Reached
  <2>3. \A x \in Delivery, i \in Try : job'[<<x, i>>] # NoJob => Reached(x, i)'
    BY DEF Recorded, Reached
  <2>4. \A v \in Lane, x \in Delivery, i \in Try :
          /\ <<x, i>> \in batch'[v] => Reached(x, i)'
          /\ task'[v] = <<x, i>> =>
                /\ Reached(x, i)'
                /\ pc'[v] \in {"accepted", "refused"} => i \in tried'[x]
                /\ pc'[v] = "accepted" => x \in accepted'
    BY <1>0 DEF Recorded, Reached, TypeOK
  <2> QED  BY <2>2, <2>3, <2>4 DEF Recorded
<1>5. NothingStranded'
  BY <1>0, <1>b, <1>c, <1>d DEF NothingStranded, Try
<1>6. OutcomesAreEarned'
  BY <1>0, <1>b, <1>c, <1>d DEF OutcomesAreEarned, Try
<1> QED  BY <1>1, <1>2, <1>3, <1>4, <1>5, <1>6

LEMMA JudgeBase ==
    ASSUME Base, NEW w \in Lane, Judge(w)
    PROVE  Base'
<1> USE CountAssumption DEF Base, Judge, Goto,
        laneVars, tableVars, historyVars
<1>1. TypeOK'
  BY LaneAssumption DEF TypeOK, Row, Status, PC, AbsentRow
<1>2. RowsFirst'
  BY NotNone DEF RowsFirst, TypeOK, Row, AbsentRow
<1>3. LaneState'
  BY NotNone DEF LaneState, TypeOK, PC
<1>4. Recorded'
  BY NotNone DEF Recorded, Reached, TypeOK, Row, AbsentRow
<1>5. NothingStranded'
  BY DEF NothingStranded, RowsFirst, TypeOK, Row, AbsentRow
<1>6. OutcomesAreEarned'
  BY DEF OutcomesAreEarned, Recorded, Reached, TypeOK, Row, AbsentRow
<1> QED  BY <1>1, <1>2, <1>3, <1>4, <1>5, <1>6

LEMMA DisableBase ==
    ASSUME Base, NEW w \in Lane, DisableWebhook(w)
    PROVE  Base'
<1> USE CountAssumption DEF Base, DisableWebhook, Goto, HookOf,
        laneVars, tableVars, historyVars
<1>0. PICK d \in Delivery, k \in Try : task[w] = <<d, k>> /\ task[w][1] = d /\ task[w][2] = k
  BY TaskShape
<1>1. TypeOK'
  BY <1>0, WebhookAssumption, LaneAssumption DEF TypeOK, Row, Status, PC, AbsentRow
<1>2. RowsFirst'
  BY <1>0, WebhookAssumption, NotNone DEF RowsFirst, TypeOK, Row, AbsentRow
<1>3. LaneState'
  BY <1>0, WebhookAssumption, NotNone DEF LaneState, TypeOK, PC
<1>4. Recorded'
  BY <1>0, WebhookAssumption, NotNone DEF Recorded, Reached, TypeOK, Row, AbsentRow
<1>5. NothingStranded'
  BY <1>0, WebhookAssumption DEF NothingStranded, RowsFirst, TypeOK, Row, AbsentRow
<1>6. OutcomesAreEarned'
  BY <1>0, WebhookAssumption
     DEF OutcomesAreEarned, Recorded, Reached, TypeOK, Row, AbsentRow
<1> QED  BY <1>1, <1>2, <1>3, <1>4, <1>5, <1>6

LEMMA StopBase ==
    ASSUME Base, NEW w \in Lane, StopDeliveries(w)
    PROVE  Base'
<1> USE CountAssumption DEF Base, StopDeliveries, With, Goto,
        laneVars, tableVars, historyVars
<1>r. \A x \in Delivery : delivery[x] \in Row
  BY DEF TypeOK
<1>a. /\ delivery' \in [Delivery -> Row]
      /\ \A x \in Delivery :
            \/ delivery'[x] = delivery[x]
            \/ /\ delivery[x].status # "absent"
               /\ delivery'[x] = [status |-> "disabled", attempts |-> delivery[x].attempts,
                                   next |-> "null"]
  BY <1>r DEF Row, Status
<1>1. TypeOK'
  BY <1>a, LaneAssumption DEF TypeOK, PC
<1>2. RowsFirst'
  BY <1>a DEF RowsFirst, AbsentRow
<1>3. LaneState'
  BY NotNone DEF LaneState, TypeOK, PC
<1>4. Recorded'
  BY <1>a DEF Recorded, Reached
<1>5. NothingStranded'
  BY <1>a DEF NothingStranded
<1>6. OutcomesAreEarned'
  BY <1>a DEF OutcomesAreEarned
<1> QED  BY <1>1, <1>2, <1>3, <1>4, <1>5, <1>6

LEMMA AcknowledgeBase ==
    ASSUME Base, NEW w \in Lane, Acknowledge(w)
    PROVE  Base'
<1> USE CountAssumption DEF Base, Acknowledge, Goto, Receipt, NoJob,
        laneVars, tableVars, historyVars
<1>0. PICK d \in Delivery, k \in Try : task[w] = <<d, k>> /\ task[w][1] = d /\ task[w][2] = k
  BY TaskShape
<1>a. /\ task'[w] = NoTask /\ \A v \in Lane : v # w => task'[v] = task[v]
      /\ delivery[d].status # "absent"
      /\ \A x \in Delivery, i \in Try :
            job'[<<x, i>>] # NoJob => job[<<x, i>>] # NoJob \/ x = d
  BY <1>0, NotNone DEF TypeOK, RowsFirst
<1>1. TypeOK'
  BY <1>0, LaneAssumption DEF TypeOK, Row, Status, PC, AbsentRow
<1>2. RowsFirst'
  BY <1>a, NotNone DEF RowsFirst
<1>3. LaneState'
  BY <1>0, NotNone DEF LaneState, TypeOK, PC
<1>4. Recorded'
  BY <1>0, NotNone DEF Recorded, Reached, TypeOK, Row, AbsentRow
<1>5. NothingStranded'
  BY <1>0 DEF NothingStranded, RowsFirst, TypeOK, Row, AbsentRow
<1>6. OutcomesAreEarned'
  BY <1>0 DEF OutcomesAreEarned, Recorded, Reached, TypeOK, Row, AbsentRow
<1> QED  BY <1>1, <1>2, <1>3, <1>4, <1>5, <1>6

LEMMA InterruptedBase ==
    ASSUME Base, NEW w \in Lane, Interrupted(w)
    PROVE  Base'
<1> USE CountAssumption DEF Base, Interrupted, Goto, Receipt, OpenJob,
        laneVars, tableVars, historyVars
<1>a. /\ task' \in [Lane -> Job \cup {NoTask}] /\ task'[w] = NoTask
      /\ batch' \in [Lane -> SUBSET Job] /\ batch'[w] = {} /\ pc'[w] = "idle"
      /\ \A v \in Lane : v # w => task'[v] = task[v] /\ batch'[v] = batch[v] /\ pc'[v] = pc[v]
      /\ disturbed' \subseteq Delivery /\ faults' \in 0..MaxFaults
  BY TaskShape DEF TypeOK, LaneState, Job
<1>b. job' = job \/ \E d \in Delivery, k \in Try, next \in {OpenJob, Receipt} :
         task[w] = <<d, k>> /\ job' = [job EXCEPT ![<<d, k>>] = next]
  <2>1. CASE task[w] = NoTask
    BY <2>1
  <2>2. CASE task[w] # NoTask
    <3>1. PICK d \in Delivery, k \in Try : task[w] = <<d, k>>
      BY <2>2, TaskShape DEF LaneState
    <3> QED  BY <3>1
  <2> QED  BY <2>1, <2>2
<1>c. /\ job' \in [Job -> [state : {"absent", "open", "closed"}, owner : Lane \cup {NoLane}]]
      /\ \A d \in Delivery, k \in Try :
            job'[<<d, k>>] # NoJob => job[<<d, k>>] # NoJob \/ task[w] = <<d, k>>
  BY <1>b, NotNone DEF TypeOK
<1>1. TypeOK'
  BY <1>a, <1>c, LaneAssumption DEF TypeOK, PC
<1>2. RowsFirst'
  BY <1>a, <1>c, NotNone DEF RowsFirst
<1>3. LaneState'
  BY <1>a DEF LaneState, TypeOK
<1>4. Recorded'
  BY <1>a, <1>c, NotNone DEF Recorded, Reached
<1>5. NothingStranded'
  BY DEF NothingStranded, RowsFirst, TypeOK, Row, AbsentRow
<1>6. OutcomesAreEarned'
  BY DEF OutcomesAreEarned, Recorded, Reached, TypeOK, Row, AbsentRow
<1> QED  BY <1>1, <1>2, <1>3, <1>4, <1>5, <1>6

LEMMA LapseBase ==
    ASSUME Base, NEW j \in Job, LeaseLapses(j)
    PROVE  Base'
<1> USE CountAssumption DEF Base, LeaseLapses, OpenJob, NoJob,
        laneVars, tableVars, historyVars
<1>0. PICK d \in Delivery, k \in Try : j = <<d, k>>
  BY DEF Job
<1>b. job[<<d, k>>] # NoJob
  BY <1>0
<1>a. \A x \in Delivery, i \in Try : job'[<<x, i>>] # NoJob => job[<<x, i>>] # NoJob
  <2> SUFFICES ASSUME NEW x \in Delivery, NEW i \in Try, job'[<<x, i>>] # NoJob
               PROVE  job[<<x, i>>] # NoJob
    OBVIOUS
  <2>1. CASE <<x, i>> = j
    BY <2>1, <1>0, <1>b
  <2>2. CASE <<x, i>> # j
    BY <2>2, NotNone DEF TypeOK
  <2> QED  BY <2>1, <2>2
<1>1. TypeOK'
  BY <1>0, LaneAssumption DEF TypeOK, PC
<1>2. RowsFirst'
  BY <1>a DEF RowsFirst
<1>3. LaneState'
  BY NotNone DEF LaneState, TypeOK, PC
<1>4. Recorded'
  BY <1>a DEF Recorded, Reached
<1>5. NothingStranded'
  BY DEF NothingStranded, RowsFirst, TypeOK, Row, AbsentRow
<1>6. OutcomesAreEarned'
  BY DEF OutcomesAreEarned, Recorded, Reached, TypeOK, Row, AbsentRow
<1> QED  BY <1>1, <1>2, <1>3, <1>4, <1>5, <1>6

LEMMA FallsDueBase ==
    ASSUME Base, NEW d \in Delivery, FallsDue(d)
    PROVE  Base'
<1> USE CountAssumption DEF Base, FallsDue,
        laneVars, tableVars, historyVars
<1>1. TypeOK'
  BY LaneAssumption DEF TypeOK, Row, Status, PC, AbsentRow
<1>2. RowsFirst'
  BY NotNone DEF RowsFirst, TypeOK, Row, AbsentRow
<1>3. LaneState'
  BY NotNone DEF LaneState, TypeOK, PC
<1>4. Recorded'
  BY NotNone DEF Recorded, Reached, TypeOK, Row, AbsentRow
<1>5. NothingStranded'
  BY DEF NothingStranded, RowsFirst, TypeOK, Row, AbsentRow
<1>6. OutcomesAreEarned'
  BY DEF OutcomesAreEarned, Recorded, Reached, TypeOK, Row, AbsentRow
<1> QED  BY <1>1, <1>2, <1>3, <1>4, <1>5, <1>6

LEMMA ForgetBase ==
    ASSUME Base, NEW j \in Job, ForgetReceipt(j)
    PROVE  Base'
<1> USE CountAssumption DEF Base, ForgetReceipt, NoJob, Job,
        laneVars, tableVars, historyVars
<1>1. TypeOK'
  BY LaneAssumption DEF TypeOK, Row, Status, PC, AbsentRow
<1>2. RowsFirst'
  BY NotNone DEF RowsFirst, TypeOK, Row, AbsentRow
<1>3. LaneState'
  BY NotNone DEF LaneState, TypeOK, PC
<1>4. Recorded'
  BY NotNone DEF Recorded, Reached, TypeOK, Row, AbsentRow
<1>5. NothingStranded'
  BY DEF NothingStranded, RowsFirst, TypeOK, Row, AbsentRow
<1>6. OutcomesAreEarned'
  BY DEF OutcomesAreEarned, Recorded, Reached, TypeOK, Row, AbsentRow
<1> QED  BY <1>1, <1>2, <1>3, <1>4, <1>5, <1>6

(***************************************************************************)
(* Orderly: what an action does elsewhere, and then the actions that move  *)
(* a delivery on.                                                          *)
(***************************************************************************)

\* What Orderly(x) reads, and what may happen to it: its row may be taken for its
\* next try, and the job of its next try stored, if it is not delivered.
RowKept(x) ==
    /\ delivery'[x].attempts = delivery[x].attempts
    /\ delivery'[x].status = "delivered" <=> delivery[x].status = "delivered"
HistoryKept(x) == tried'[x] = tried[x] /\ (x \in accepted' => x \in accepted)
PushesKept(x) == x \in pushed' => x \in pushed \/ delivery[x].attempts = 0
Advances(x, k) == k = delivery[x].attempts + 1 /\ delivery[x].status # "delivered"
JobsKept(x) ==
    \A k \in Try : \/ job'[<<x, k>>] = job[<<x, k>>]
                   \/ job[<<x, k>>] = NoJob /\ job'[<<x, k>>] = OpenJob /\ Advances(x, k)
BatchKept(x) ==
    \A w \in Lane, k \in Try :
        <<x, k>> \in batch'[w] => <<x, k>> \in batch[w] \/ Advances(x, k)
LanesKept(x) ==
    \A w \in Lane, k \in Try :
        /\ task'[w] = <<x, k>> <=> task[w] = <<x, k>>
        /\ task[w] = <<x, k>> => pc'[w] = pc[w] \/ ~(Unrecorded(w) \/ Unrecorded(w)')

Kept(x) == /\ RowKept(x) /\ HistoryKept(x) /\ PushesKept(x)
           /\ JobsKept(x) /\ BatchKept(x) /\ LanesKept(x)

LEMMA KeptOrderly ==
    ASSUME TypeOK, NEW x \in Delivery, Orderly(x), Kept(x)
    PROVE  Orderly(x)'
<1> USE DEF Kept, RowKept, HistoryKept, PushesKept
<1> DEFINE a == delivery[x].attempts
<1>0. a \in Nat
  BY DEF TypeOK, Row
<1>1. \A w \in Lane : /\ Answered(w, x)' <=> Answered(w, x)
                      /\ Answered(w, x) => pc'[w] = pc[w]
  BY DEF Answered, Unrecorded, LanesKept
<1>2. \A k \in Try : /\ job'[<<x, k>>] # NoJob => k <= a + 1
                     /\ job'[<<x, k>>].state = "closed" => k <= a
                     /\ job'[<<x, k>>] = OpenJob => k = a + 1
  BY <1>0 DEF Orderly, OpenJob, NoJob, Try, JobsKept, Advances
<1>3. \A w \in Lane, k \in Try : <<x, k>> \in batch'[w] =>
          k <= a + 1 /\ (k <= a => job'[<<x, k>>] # NoJob)
  <2> SUFFICES ASSUME NEW w \in Lane, NEW k \in Try, <<x, k>> \in batch'[w]
               PROVE  k <= a + 1 /\ (k <= a => job'[<<x, k>>] # NoJob)
    OBVIOUS
  <2>1. k = a + 1 \/ <<x, k>> \in batch[w]
    BY DEF BatchKept, Advances
  <2>2. <<x, k>> \in batch[w] => k <= a + 1 /\ (k <= a => job[<<x, k>>] # NoJob)
    BY DEF Orderly
  <2>3. k <= a /\ job[<<x, k>>] # NoJob => job'[<<x, k>>] # NoJob
    BY <1>0 DEF JobsKept, Advances
  <2> QED  BY <1>0, <2>1, <2>2, <2>3 DEF Try
<1>4. \A w \in Lane, k \in Try : task'[w] = <<x, k>> =>
          /\ job'[<<x, k>>] = [state |-> "open", owner |-> w]
          /\ IF Unrecorded(w)' THEN k = a + 1 ELSE k <= a
  <2> SUFFICES ASSUME NEW w \in Lane, NEW k \in Try, task'[w] = <<x, k>>
               PROVE  /\ job'[<<x, k>>] = [state |-> "open", owner |-> w]
                      /\ IF Unrecorded(w)' THEN k = a + 1 ELSE k <= a
    OBVIOUS
  <2>1. task[w] = <<x, k>>
    BY DEF LanesKept
  <2>2. job[<<x, k>>] = [state |-> "open", owner |-> w]
        /\ IF Unrecorded(w) THEN k = a + 1 ELSE k <= a
    BY <2>1 DEF Orderly
  <2>3. Unrecorded(w)' <=> Unrecorded(w)
    BY <2>1 DEF Unrecorded, LanesKept
  <2> QED  BY <2>2, <2>3 DEF NoJob, JobsKept
<1>5. x \in pushed' /\ a >= 1 => job'[<<x, 1>>] # NoJob
  BY <1>0, CountAssumption DEF Orderly, OpenJob, NoJob, Try, JobsKept
<1>6. tried'[x] = IF \E w \in Lane : Answered(w, x)' THEN 1..(a + 1) ELSE 1..a
  BY <1>1 DEF Orderly
<1>7. x \in accepted' => \/ delivery'[x].status = "delivered"
                         \/ \E w \in Lane : pc'[w] = "accepted" /\ Answered(w, x)'
  BY <1>1 DEF Orderly
<1>8. delivery'[x].status = "delivered" =>
          /\ a >= 1
          /\ \A k \in Try : job'[<<x, k>>] # NoJob => k <= a
          /\ \A w \in Lane, k \in Try : <<x, k>> \in batch'[w] => k <= a
  BY <1>0 DEF Orderly, JobsKept, BatchKept, Advances
<1> QED  BY <1>2, <1>3, <1>4, <1>5, <1>6, <1>7, <1>8 DEF Orderly


LEMMA MatchKept ==
    ASSUME Base, NEW x \in Delivery, NEW d \in Delivery, MatchWebhook(d)
    PROVE  Kept(x)
<1> USE DEF Base, MatchWebhook,
        laneVars, tableVars, historyVars
<1>1. RowKept(x)
  BY DEF RowKept, TypeOK, Row, AbsentRow
<1>2. HistoryKept(x) /\ PushesKept(x)
  BY DEF HistoryKept, PushesKept, TypeOK
<1>3. JobsKept(x)
  BY DEF JobsKept
<1>4. BatchKept(x)
  BY DEF BatchKept, TypeOK
<1>5. LanesKept(x)
  BY NotNone DEF LanesKept, TypeOK, LaneState, Unrecorded, PC
<1> QED  BY <1>1, <1>2, <1>3, <1>4, <1>5 DEF Kept

LEMMA IntentKept ==
    ASSUME Base, NEW x \in Delivery, NEW d \in Delivery, CreateIntent(d)
    PROVE  Kept(x)
<1> USE DEF Base, CreateIntent,
        laneVars, tableVars, historyVars
<1>1. RowKept(x)
  BY DEF RowKept, TypeOK, RowsFirst, Row, AbsentRow
<1>2. HistoryKept(x) /\ PushesKept(x)
  BY DEF HistoryKept, PushesKept, TypeOK
<1>3. JobsKept(x)
  BY DEF JobsKept
<1>4. BatchKept(x)
  BY DEF BatchKept, TypeOK
<1>5. LanesKept(x)
  BY NotNone DEF LanesKept, TypeOK, LaneState, Unrecorded, PC
<1> QED  BY <1>1, <1>2, <1>3, <1>4, <1>5 DEF Kept

LEMMA TestKept ==
    ASSUME Base, NEW x \in Delivery, NEW d \in Delivery, CreateTest(d)
    PROVE  Kept(x)
<1> USE DEF Base, CreateTest,
        laneVars, tableVars, historyVars
<1>1. RowKept(x)
  BY DEF RowKept, TypeOK, Row, AbsentRow
<1>2. HistoryKept(x) /\ PushesKept(x)
  BY DEF HistoryKept, PushesKept, TypeOK, AbsentRow
<1>3. JobsKept(x)
  BY DEF JobsKept
<1>4. BatchKept(x)
  BY DEF BatchKept, TypeOK
<1>5. LanesKept(x)
  BY NotNone DEF LanesKept, TypeOK, LaneState, Unrecorded, PC
<1> QED  BY <1>1, <1>2, <1>3, <1>4, <1>5 DEF Kept

LEMMA PushKept ==
    ASSUME Base, NEW x \in Delivery, NEW d \in Delivery, LosePush(d)
    PROVE  Kept(x)
<1> USE DEF Base, LosePush,
        laneVars, tableVars, historyVars
<1>1. RowKept(x)
  BY DEF RowKept, TypeOK, Row, AbsentRow
<1>2. HistoryKept(x) /\ PushesKept(x)
  BY DEF HistoryKept, PushesKept, TypeOK
<1>3. JobsKept(x)
  BY DEF JobsKept
<1>4. BatchKept(x)
  BY DEF BatchKept, TypeOK
<1>5. LanesKept(x)
  BY NotNone DEF LanesKept, TypeOK, LaneState, Unrecorded, PC
<1> QED  BY <1>1, <1>2, <1>3, <1>4, <1>5 DEF Kept

LEMMA RetryKept ==
    ASSUME Base, NEW x \in Delivery, NEW d \in Delivery, Retry(d),
           x \notin disturbed' \cup retried'
    PROVE  Kept(x)
<1> USE DEF Base, Retry,
        laneVars, tableVars, historyVars
<1>1. RowKept(x)
  BY DEF RowKept, TypeOK, Row, AbsentRow
<1>2. HistoryKept(x) /\ PushesKept(x)
  BY DEF HistoryKept, PushesKept, TypeOK
<1>3. JobsKept(x)
  BY DEF JobsKept
<1>4. BatchKept(x)
  BY DEF BatchKept, TypeOK
<1>5. LanesKept(x)
  BY NotNone DEF LanesKept, TypeOK, LaneState, Unrecorded, PC
<1> QED  BY <1>1, <1>2, <1>3, <1>4, <1>5 DEF Kept

LEMMA EnabledKept ==
    ASSUME Base, NEW x \in Delivery, NEW h \in Webhook, NEW b \in BOOLEAN, SetEnabled(h, b)
    PROVE  Kept(x)
<1> USE DEF Base, SetEnabled,
        laneVars, tableVars, historyVars
<1>1. RowKept(x)
  BY DEF RowKept, TypeOK, Row, AbsentRow
<1>2. HistoryKept(x) /\ PushesKept(x)
  BY DEF HistoryKept, PushesKept, TypeOK
<1>3. JobsKept(x)
  BY DEF JobsKept
<1>4. BatchKept(x)
  BY DEF BatchKept, TypeOK
<1>5. LanesKept(x)
  BY NotNone DEF LanesKept, TypeOK, LaneState, Unrecorded, PC
<1> QED  BY <1>1, <1>2, <1>3, <1>4, <1>5 DEF Kept

LEMMA ClaimKept ==
    ASSUME Base, NEW x \in Delivery, NEW w \in Lane, NEW D \in SUBSET Delivery, ClaimDue(w, D)
    PROVE  Kept(x)
<1> USE DEF Base, ClaimDue, With,
        laneVars, tableVars, historyVars
<1>1. RowKept(x)
  <2>1. delivery'[x] = IF x \in D THEN With(delivery[x], "retrying", "future")
                                ELSE delivery[x]
    OBVIOUS
  <2>2. x \in D => delivery[x].status # "delivered"
    BY DEF Due
  <2> QED  BY <2>1, <2>2 DEF RowKept
<1>2. HistoryKept(x) /\ PushesKept(x)
  BY DEF HistoryKept, PushesKept, TypeOK
<1>3. JobsKept(x)
  BY DEF JobsKept
<1>4. BatchKept(x)
  BY DEF BatchKept, TypeOK, Advances, Due, LaneState
<1>5. LanesKept(x)
  BY NotNone DEF LanesKept, TypeOK, LaneState, Unrecorded, PC
<1> QED  BY <1>1, <1>2, <1>3, <1>4, <1>5 DEF Kept

LEMMA EnqueueKept ==
    ASSUME Base, NEW x \in Delivery, NEW w \in Lane, NEW j \in Job, EnqueueDue(w, j),
           Orderly(x)
    PROVE  Kept(x)
<1> USE DEF Base, EnqueueDue,
        laneVars, tableVars, historyVars
<1>1. RowKept(x)
  BY DEF RowKept, TypeOK, Row, AbsentRow
<1>2. HistoryKept(x) /\ PushesKept(x)
  BY DEF HistoryKept, PushesKept, TypeOK
<1>3. JobsKept(x)
  <2> SUFFICES ASSUME NEW k \in Try, job'[<<x, k>>] # job[<<x, k>>]
               PROVE  /\ job[<<x, k>>] = NoJob /\ job'[<<x, k>>] = OpenJob
                      /\ Advances(x, k)
    BY DEF JobsKept
  <2>1. j = <<x, k>> /\ job[<<x, k>>] = NoJob /\ job'[<<x, k>>] = OpenJob
    BY NotNone DEF TypeOK, Stored
  <2>2. <<x, k>> \in batch[w]
    BY <2>1
  <2>3. k = delivery[x].attempts + 1 /\ delivery[x].status # "delivered"
    <3>1. /\ k <= delivery[x].attempts + 1
          /\ ~(k <= delivery[x].attempts)
          /\ delivery[x].status = "delivered" => k <= delivery[x].attempts
      BY <2>1, <2>2 DEF Orderly
    <3>2. delivery[x].attempts \in Nat /\ k \in Nat
      BY DEF TypeOK, Row, Try
    <3> QED  BY <3>1, <3>2
  <2> QED  BY <2>1, <2>3 DEF Advances
<1>4. BatchKept(x)
  BY DEF BatchKept, TypeOK
<1>5. LanesKept(x)
  BY NotNone DEF LanesKept, TypeOK, LaneState, Unrecorded, PC
<1> QED  BY <1>1, <1>2, <1>3, <1>4, <1>5 DEF Kept

LEMMA AdoptKept ==
    ASSUME Base, NEW x \in Delivery, NEW w \in Lane, NEW d \in Delivery, AdoptTest(w, d),
           Orderly(x)
    PROVE  Kept(x)
<1> USE DEF Base, AdoptTest,
        laneVars, tableVars, historyVars
<1>1. RowKept(x)
  BY DEF RowKept, TypeOK, Row, AbsentRow
<1>2. HistoryKept(x) /\ PushesKept(x)
  BY DEF HistoryKept, PushesKept, TypeOK
<1>3. JobsKept(x)
  <2> SUFFICES ASSUME NEW k \in Try, job'[<<x, k>>] # job[<<x, k>>]
               PROVE  /\ job[<<x, k>>] = NoJob /\ job'[<<x, k>>] = OpenJob
                      /\ Advances(x, k)
    BY DEF JobsKept
  <2>1. d = x /\ k = 1 /\ job[<<x, k>>] = NoJob /\ job'[<<x, k>>] = OpenJob
    BY NotNone DEF TypeOK, Stored
  <2>2. delivery[x].attempts \in Nat /\ ~(delivery[x].attempts >= 1)
    BY <2>1 DEF Orderly, TypeOK, Row
  <2>3. delivery[x].attempts = 0 /\ delivery[x].status # "delivered"
    BY <2>2 DEF Orderly
  <2> QED  BY <2>1, <2>3 DEF Advances
<1>4. BatchKept(x)
  BY DEF BatchKept, TypeOK
<1>5. LanesKept(x)
  BY NotNone DEF LanesKept, TypeOK, LaneState, Unrecorded, PC
<1> QED  BY <1>1, <1>2, <1>3, <1>4, <1>5 DEF Kept

LEMMA JudgeKept ==
    ASSUME Base, NEW x \in Delivery, NEW w \in Lane, Judge(w)
    PROVE  Kept(x)
<1> USE DEF Base, Judge, Goto,
        laneVars, tableVars, historyVars
<1>1. RowKept(x)
  BY DEF RowKept, TypeOK, Row, AbsentRow
<1>2. HistoryKept(x) /\ PushesKept(x)
  BY DEF HistoryKept, PushesKept, TypeOK
<1>3. JobsKept(x)
  BY DEF JobsKept
<1>4. BatchKept(x)
  BY DEF BatchKept, TypeOK
<1>5. LanesKept(x)
  BY NotNone DEF LanesKept, TypeOK, LaneState, Unrecorded, PC
<1> QED  BY <1>1, <1>2, <1>3, <1>4, <1>5 DEF Kept

LEMMA DisableKept ==
    ASSUME Base, NEW x \in Delivery, NEW w \in Lane, DisableWebhook(w)
    PROVE  Kept(x)
<1> USE DEF Base, DisableWebhook, Goto,
        laneVars, tableVars, historyVars
<1>1. RowKept(x)
  BY DEF RowKept, TypeOK, Row, AbsentRow
<1>2. HistoryKept(x) /\ PushesKept(x)
  BY DEF HistoryKept, PushesKept, TypeOK
<1>3. JobsKept(x)
  BY DEF JobsKept
<1>4. BatchKept(x)
  BY DEF BatchKept, TypeOK
<1>5. LanesKept(x)
  BY NotNone DEF LanesKept, TypeOK, LaneState, Unrecorded, PC
<1> QED  BY <1>1, <1>2, <1>3, <1>4, <1>5 DEF Kept

LEMMA StopKept ==
    ASSUME Base, NEW x \in Delivery, NEW w \in Lane, StopDeliveries(w)
    PROVE  Kept(x)
<1> USE DEF Base, StopDeliveries, With, Goto,
        laneVars, tableVars, historyVars
<1>1. RowKept(x)
  BY DEF RowKept, TypeOK, Row, AbsentRow
<1>2. HistoryKept(x) /\ PushesKept(x)
  BY DEF HistoryKept, PushesKept, TypeOK
<1>3. JobsKept(x)
  BY DEF JobsKept
<1>4. BatchKept(x)
  BY DEF BatchKept, TypeOK
<1>5. LanesKept(x)
  BY NotNone DEF LanesKept, TypeOK, LaneState, Unrecorded, PC
<1> QED  BY <1>1, <1>2, <1>3, <1>4, <1>5 DEF Kept

LEMMA InterruptedKept ==
    ASSUME Base, NEW x \in Delivery, NEW w \in Lane, Interrupted(w),
           x \notin disturbed' \cup retried'
    PROVE  Kept(x)
<1> USE DEF Base, Interrupted, Goto,
        laneVars, tableVars, historyVars
<1>1. RowKept(x)
  BY DEF RowKept, TypeOK, Row, AbsentRow
<1>2. HistoryKept(x) /\ PushesKept(x)
  BY DEF HistoryKept, PushesKept, TypeOK
<1>3. JobsKept(x)
  BY DEF JobsKept
<1>4. BatchKept(x)
  BY DEF BatchKept, TypeOK
<1>5. LanesKept(x)
  <2>1. ASSUME NEW k \in Try, task[w] = <<x, k>>
        PROVE  FALSE
    <3>1. task[w][1] = x /\ task[w] # NoTask
      BY <2>1, NotNone
    <3> QED  BY <3>1
  <2>2. \A v \in Lane : v # w => task'[v] = task[v] /\ pc'[v] = pc[v]
    BY DEF TypeOK
  <2>3. task'[w] = NoTask
    BY DEF TypeOK
  <2> QED  BY <2>1, <2>2, <2>3, NotNone DEF LanesKept
<1> QED  BY <1>1, <1>2, <1>3, <1>4, <1>5 DEF Kept

LEMMA LapseKept ==
    ASSUME Base, NEW x \in Delivery, NEW j \in Job, LeaseLapses(j),
           x \notin disturbed' \cup retried'
    PROVE  Kept(x)
<1> USE DEF Base, LeaseLapses,
        laneVars, tableVars, historyVars
<1>1. RowKept(x)
  BY DEF RowKept, TypeOK, Row, AbsentRow
<1>2. HistoryKept(x) /\ PushesKept(x)
  BY DEF HistoryKept, PushesKept, TypeOK
<1>3. JobsKept(x)
  BY DEF JobsKept
<1>4. BatchKept(x)
  BY DEF BatchKept, TypeOK
<1>5. LanesKept(x)
  BY NotNone DEF LanesKept, TypeOK, LaneState, Unrecorded, PC
<1> QED  BY <1>1, <1>2, <1>3, <1>4, <1>5 DEF Kept

LEMMA ThrowsKept ==
    ASSUME Base, NEW x \in Delivery, NEW w \in Lane, MarkDeliveredThrows(w),
           x \notin disturbed' \cup retried'
    PROVE  Kept(x)
<1> USE DEF Base, MarkDeliveredThrows, Marked, Goto,
        laneVars, tableVars, historyVars
<1>1. RowKept(x)
  BY DEF RowKept, TypeOK, Row, AbsentRow
<1>2. HistoryKept(x) /\ PushesKept(x)
  BY DEF HistoryKept, PushesKept, TypeOK
<1>3. JobsKept(x)
  BY DEF JobsKept
<1>4. BatchKept(x)
  BY DEF BatchKept, TypeOK
<1>5. LanesKept(x)
  BY NotNone DEF LanesKept, TypeOK, LaneState, Unrecorded, PC
<1> QED  BY <1>1, <1>2, <1>3, <1>4, <1>5 DEF Kept

LEMMA FallsDueKept ==
    ASSUME Base, NEW x \in Delivery, NEW d \in Delivery, FallsDue(d)
    PROVE  Kept(x)
<1> USE DEF Base, FallsDue,
        laneVars, tableVars, historyVars
<1>1. RowKept(x)
  BY DEF RowKept, TypeOK, Row, AbsentRow
<1>2. HistoryKept(x) /\ PushesKept(x)
  BY DEF HistoryKept, PushesKept, TypeOK
<1>3. JobsKept(x)
  BY DEF JobsKept
<1>4. BatchKept(x)
  BY DEF BatchKept, TypeOK
<1>5. LanesKept(x)
  BY NotNone DEF LanesKept, TypeOK, LaneState, Unrecorded, PC
<1> QED  BY <1>1, <1>2, <1>3, <1>4, <1>5 DEF Kept

LEMMA DeliverKept ==
    ASSUME Base, NEW x \in Delivery, NEW w \in Lane, NEW d \in Delivery, NEW k \in Try,
           NEW answer \in {"accepted", "refused"}, Deliver(w, answer),
           task[w] = <<d, k>>, x # d
    PROVE  Kept(x)
<1> USE DEF Base, Deliver, Goto,
        laneVars, tableVars, historyVars
<1>1. RowKept(x)
  BY DEF RowKept, TypeOK, Row, AbsentRow
<1>2. HistoryKept(x) /\ PushesKept(x)
  BY DEF HistoryKept, PushesKept, TypeOK
<1>3. JobsKept(x)
  BY DEF JobsKept
<1>4. BatchKept(x)
  BY DEF BatchKept, TypeOK
<1>5. LanesKept(x)
  BY NotNone DEF LanesKept, TypeOK, LaneState, PC
<1> QED  BY <1>1, <1>2, <1>3, <1>4, <1>5 DEF Kept

LEMMA DeliveredKept ==
    ASSUME Base, NEW x \in Delivery, NEW w \in Lane, NEW d \in Delivery, NEW k \in Try,
           MarkDelivered(w),
           task[w] = <<d, k>>, x # d
    PROVE  Kept(x)
<1> USE DEF Base, MarkDelivered, Marked, Goto,
        laneVars, tableVars, historyVars
<1>1. RowKept(x)
  BY DEF RowKept, TypeOK
<1>2. HistoryKept(x) /\ PushesKept(x)
  BY DEF HistoryKept, PushesKept, TypeOK
<1>3. JobsKept(x)
  BY DEF JobsKept
<1>4. BatchKept(x)
  BY DEF BatchKept, TypeOK
<1>5. LanesKept(x)
  BY NotNone DEF LanesKept, TypeOK, LaneState, PC
<1> QED  BY <1>1, <1>2, <1>3, <1>4, <1>5 DEF Kept

LEMMA RetryingKept ==
    ASSUME Base, NEW x \in Delivery, NEW w \in Lane, NEW d \in Delivery, NEW k \in Try,
           MarkRetrying(w),
           task[w] = <<d, k>>, x # d
    PROVE  Kept(x)
<1> USE DEF Base, MarkRetrying, Marked, Goto,
        laneVars, tableVars, historyVars
<1>1. RowKept(x)
  BY DEF RowKept, TypeOK
<1>2. HistoryKept(x) /\ PushesKept(x)
  BY DEF HistoryKept, PushesKept, TypeOK
<1>3. JobsKept(x)
  BY DEF JobsKept
<1>4. BatchKept(x)
  BY DEF BatchKept, TypeOK
<1>5. LanesKept(x)
  BY NotNone DEF LanesKept, TypeOK, LaneState, PC
<1> QED  BY <1>1, <1>2, <1>3, <1>4, <1>5 DEF Kept

LEMMA FailedKept ==
    ASSUME Base, NEW x \in Delivery, NEW w \in Lane, NEW d \in Delivery, NEW k \in Try,
           MarkFailed(w),
           task[w] = <<d, k>>, x # d
    PROVE  Kept(x)
<1> USE DEF Base, MarkFailed, Marked, Goto,
        laneVars, tableVars, historyVars
<1>1. RowKept(x)
  BY DEF RowKept, TypeOK
<1>2. HistoryKept(x) /\ PushesKept(x)
  BY DEF HistoryKept, PushesKept, TypeOK
<1>3. JobsKept(x)
  BY DEF JobsKept
<1>4. BatchKept(x)
  BY DEF BatchKept, TypeOK
<1>5. LanesKept(x)
  BY NotNone DEF LanesKept, TypeOK, LaneState, PC
<1> QED  BY <1>1, <1>2, <1>3, <1>4, <1>5 DEF Kept

LEMMA AcknowledgeKept ==
    ASSUME Base, NEW x \in Delivery, NEW w \in Lane, NEW d \in Delivery, NEW k \in Try,
           Acknowledge(w),
           task[w] = <<d, k>>, x # d
    PROVE  Kept(x)
<1> USE DEF Base, Acknowledge, Goto,
        laneVars, tableVars, historyVars
<1>1. RowKept(x)
  BY DEF RowKept, TypeOK, Row, AbsentRow
<1>2. HistoryKept(x) /\ PushesKept(x)
  BY DEF HistoryKept, PushesKept, TypeOK
<1>3. JobsKept(x)
  <2>1. \A i \in Try : <<x, i>> # <<d, k>>
    OBVIOUS
  <2> QED  BY <2>1, NotNone DEF JobsKept, TypeOK
<1>4. BatchKept(x)
  BY DEF BatchKept, TypeOK
<1>5. LanesKept(x)
  <2>1. \A i \in Try : <<x, i>> # <<d, k>>
    OBVIOUS
  <2>2. \A v \in Lane : /\ task'[v] = IF v = w THEN NoTask ELSE task[v]
                        /\ v # w => pc'[v] = pc[v]
    BY DEF TypeOK
  <2> QED  BY <2>1, <2>2, NotNone DEF LanesKept
<1> QED  BY <1>1, <1>2, <1>3, <1>4, <1>5 DEF Kept

LEMMA TakeKept ==
    ASSUME Base, NEW x \in Delivery, NEW w \in Lane, NEW d \in Delivery, NEW k \in Try,
           TakeJob(w, <<d, k>>),
           x # d
    PROVE  Kept(x)
<1> USE DEF Base, TakeJob, Goto,
        laneVars, tableVars, historyVars
<1>1. RowKept(x)
  BY DEF RowKept, TypeOK, Row, AbsentRow
<1>2. HistoryKept(x) /\ PushesKept(x)
  BY DEF HistoryKept, PushesKept, TypeOK
<1>3. JobsKept(x)
  <2>1. \A i \in Try : <<x, i>> # <<d, k>>
    OBVIOUS
  <2> QED  BY <2>1, NotNone DEF JobsKept, TypeOK
<1>4. BatchKept(x)
  BY DEF BatchKept, TypeOK
<1>5. LanesKept(x)
  <2>1. \A i \in Try : <<x, i>> # <<d, k>>
    OBVIOUS
  <2> QED  BY <2>1, NotNone DEF LanesKept, TypeOK, LaneState, PC
<1> QED  BY <1>1, <1>2, <1>3, <1>4, <1>5 DEF Kept

\* An undisturbed delivery is in one lane's hands until its try is recorded.
LEMMA Alone ==
    ASSUME NEW x \in Delivery, Orderly(x), NEW w \in Lane, NEW k \in Try,
           task[w] = <<x, k>>, Unrecorded(w)
    PROVE  /\ k = delivery[x].attempts + 1
           /\ job[<<x, k>>] = [state |-> "open", owner |-> w]
           /\ \A v \in Lane, i \in Try : task[v] = <<x, i>> /\ Unrecorded(v) => v = w
<1>1. k = delivery[x].attempts + 1 /\ job[<<x, k>>] = [state |-> "open", owner |-> w]
  BY DEF Orderly
<1>2. ASSUME NEW v \in Lane, NEW i \in Try, task[v] = <<x, i>>, Unrecorded(v)
      PROVE  v = w
  <2>1. i = delivery[x].attempts + 1 /\ job[<<x, i>>] = [state |-> "open", owner |-> v]
    BY <1>2 DEF Orderly
  <2> QED  BY <1>1, <2>1
<1> QED  BY <1>1, <1>2

\* Nor is it delivered, or accepted other than by this try.
LEMMA NotYet ==
    ASSUME TypeOK, NEW x \in Delivery, Orderly(x), NEW w \in Lane, NEW k \in Try,
           task[w] = <<x, k>>, Unrecorded(w)
    PROVE  /\ delivery[x].status # "delivered"
           /\ x \in accepted => pc[w] = "accepted"
           /\ pc[w] = "sending" => tried[x] = 1..(k - 1)
           /\ pc[w] # "sending" => tried[x] = 1..k
<1> DEFINE a == delivery[x].attempts
<1>1. k = a + 1 /\ job[<<x, k>>] # NoJob /\ a \in Nat
  <2>1. k = a + 1 /\ job[<<x, k>>] = [state |-> "open", owner |-> w]
    BY Alone
  <2>2. a \in Nat
    BY DEF TypeOK, Row
  <2> QED  BY <2>1, <2>2 DEF NoJob
<1>2. delivery[x].status # "delivered"
  BY <1>1 DEF Orderly
<1>3. \A v \in Lane : Answered(v, x) => v = w
  <2>1. \A v \in Lane, i \in Try : task[v] = <<x, i>> /\ Unrecorded(v) => v = w
    BY Alone
  <2> QED  BY <2>1 DEF Answered, Unrecorded
<1>4. x \in accepted => pc[w] = "accepted"
  BY <1>2, <1>3 DEF Orderly
<1>5. Answered(w, x) <=> pc[w] # "sending"
  BY DEF Answered, Unrecorded
<1>6. tried[x] = IF \E v \in Lane : Answered(v, x) THEN 1..(a + 1) ELSE 1..a
  BY DEF Orderly
<1> QED  BY <1>1, <1>2, <1>3, <1>4, <1>5, <1>6

LEMMA TakeOwn ==
    ASSUME Base, NEW x \in Delivery, Orderly(x), NEW w \in Lane, NEW k \in Try,
           TakeJob(w, <<x, k>>)
    PROVE  Orderly(x)'
<1> DEFINE a == delivery[x].attempts
<1> USE DEF Base, TakeJob, Goto, tableVars, historyVars
<1>0. a \in Nat /\ k \in Nat /\ k = a + 1
  BY DEF TypeOK, Row, Try, Orderly
<1>1. \A i \in Try : job'[<<x, i>>] = IF i = k THEN [state |-> "open", owner |-> w]
                                             ELSE job[<<x, i>>]
  BY NotNone DEF TypeOK
<1>2. \A i \in Try : /\ job'[<<x, i>>] # NoJob <=> job[<<x, i>>] # NoJob
                     /\ job'[<<x, i>>].state = job[<<x, i>>].state
                     /\ job'[<<x, i>>] = OpenJob => job[<<x, i>>] = OpenJob
  BY <1>1 DEF OpenJob, NoJob
<1>3. \A v \in Lane : /\ task'[v] = IF v = w THEN <<x, k>> ELSE task[v]
                      /\ pc'[v] = IF v = w THEN "sending" ELSE pc[v]
  BY DEF TypeOK
<1>4. \A v \in Lane : /\ Answered(v, x)' <=> Answered(v, x)
                      /\ Answered(v, x) => pc'[v] = pc[v]
  BY <1>3 DEF Answered
<1>5. \A v \in Lane, i \in Try : task'[v] = <<x, i>> =>
          /\ job'[<<x, i>>] = [state |-> "open", owner |-> v]
          /\ IF Unrecorded(v)' THEN i = a + 1 ELSE i <= a
  <2> SUFFICES ASSUME NEW v \in Lane, NEW i \in Try, task'[v] = <<x, i>>
               PROVE  /\ job'[<<x, i>>] = [state |-> "open", owner |-> v]
                      /\ IF Unrecorded(v)' THEN i = a + 1 ELSE i <= a
    OBVIOUS
  <2>1. CASE v = w
    <3>1. i = k /\ pc'[v] = "sending"
      BY <2>1, <1>3
    <3> QED  BY <3>1, <2>1, <1>0, <1>1 DEF Unrecorded
  <2>2. CASE v # w
    <3>1. task[v] = <<x, i>> /\ pc'[v] = pc[v]
      BY <2>2, <1>3
    <3>2. job[<<x, i>>] = [state |-> "open", owner |-> v]
          /\ IF Unrecorded(v) THEN i = a + 1 ELSE i <= a
      BY <3>1 DEF Orderly
    <3>3. i # k
      BY <3>2, LaneAssumption DEF OpenJob
    <3> QED  BY <3>1, <3>2, <3>3, <1>1 DEF Unrecorded
  <2> QED  BY <2>1, <2>2
<1>6. 1 \in Try
  BY CountAssumption DEF Try
<1> QED  BY <1>2, <1>4, <1>5, <1>6 DEF Orderly

LEMMA RangeGrows == \A n \in Nat : 1..n \cup {n + 1} = 1..(n + 1)
  OBVIOUS

LEMMA DeliverOwn ==
    ASSUME Base, NEW x \in Delivery, Orderly(x), NEW w \in Lane, NEW k \in Try,
           NEW answer \in {"accepted", "refused"}, Deliver(w, answer), task[w] = <<x, k>>
    PROVE  Orderly(x)'
<1> DEFINE a == delivery[x].attempts
<1> USE DEF Base, Deliver, Goto, tableVars
<1>0. a \in Nat /\ k = a + 1 /\ delivery[x].status # "delivered" /\ x \notin accepted
      /\ tried[x] = 1..a
  <2>1. Unrecorded(w)
    BY DEF Unrecorded
  <2>2. k = a + 1
    BY <2>1, Alone
  <2>3. /\ delivery[x].status # "delivered" /\ x \notin accepted
        /\ tried[x] = 1..(k - 1)
    BY <2>1, NotYet
  <2>4. a \in Nat
    BY DEF TypeOK, Row
  <2> QED  BY <2>2, <2>3, <2>4
<1>1. tried'[x] = 1..(a + 1)
  <2>1. tried'[x] = tried[x] \cup {k}
    <3>1. task[w][1] = x /\ task[w][2] = k
      OBVIOUS
    <3>2. tried' = [tried EXCEPT ![x] = tried[x] \cup {k}]
      BY <3>1
    <3> QED  BY <3>2 DEF TypeOK
  <2>2. 1..a \cup {a + 1} = 1..(a + 1)
    BY <1>0, RangeGrows
  <2> QED  BY <1>0, <2>1, <2>2
<1>2. \A v \in Lane : pc'[v] = IF v = w THEN answer ELSE pc[v]
  BY DEF TypeOK
<1>3. Answered(w, x)'
  BY <1>2 DEF Answered
<1>4. \A v \in Lane : Unrecorded(v)' <=> Unrecorded(v)
  BY <1>2 DEF Unrecorded
<1>5. x \in accepted' => pc'[w] = "accepted"
  BY <1>0, <1>2
<1> QED  BY <1>0, <1>1, <1>3, <1>4, <1>5 DEF Orderly

LEMMA MarkOwn ==
    ASSUME Base, NEW x \in Delivery, Orderly(x), NEW w \in Lane, NEW k \in Try,
           task[w] = <<x, k>>, Unrecorded(w), pc[w] # "sending",
           UNCHANGED <<pushed, job, task, batch, tried, accepted>>,
           \A v \in Lane : v # w => pc'[v] = pc[v],
           ~Unrecorded(w)',
           delivery'[x].attempts = k,
           delivery'[x].status = "delivered" \/ x \notin accepted
    PROVE  Orderly(x)'
<1> DEFINE a == delivery[x].attempts
<1>a. ASSUME NEW v \in Lane, NEW i \in Try, task[v] = <<x, i>>, Unrecorded(v)
      PROVE  v = w
  <2>1. /\ k = a + 1 /\ job[<<x, k>>] = [state |-> "open", owner |-> w]
        /\ i = a + 1 /\ job[<<x, i>>] = [state |-> "open", owner |-> v]
    BY <1>a DEF Orderly
  <2> QED  BY <2>1
<1> USE DEF Base
<1>0. a \in Nat /\ k \in Nat /\ k = a + 1 /\ tried[x] = 1..k
      /\ job[<<x, k>>] = [state |-> "open", owner |-> w]
  <2>1. k = a + 1 /\ job[<<x, k>>] = [state |-> "open", owner |-> w]
    BY DEF Orderly
  <2>2. a \in Nat /\ tried[x] = 1..k
    BY NotYet DEF TypeOK, Row
  <2> QED  BY <2>1, <2>2
<1>1. \A i \in Try : /\ job[<<x, i>>] # NoJob => i <= k
                     /\ job[<<x, i>>] # OpenJob
  <2> SUFFICES ASSUME NEW i \in Try
               PROVE  /\ job[<<x, i>>] # NoJob => i <= k
                      /\ job[<<x, i>>] # OpenJob
    OBVIOUS
  <2>1. (job[<<x, i>>] # NoJob => i <= a + 1) /\ (job[<<x, i>>] = OpenJob => i = a + 1)
    BY DEF Orderly
  <2>2. job[<<x, k>>] # OpenJob
    BY <1>0, LaneAssumption DEF OpenJob
  <2> QED  BY <2>1, <2>2, <1>0
<1>2. \A v \in Lane, i \in Try : <<x, i>> \in batch[v] => i <= k /\ job[<<x, i>>] # NoJob
  <2> SUFFICES ASSUME NEW v \in Lane, NEW i \in Try, <<x, i>> \in batch[v]
               PROVE  i <= k /\ job[<<x, i>>] # NoJob
    OBVIOUS
  <2>1. i <= a + 1 /\ (i <= a => job[<<x, i>>] # NoJob)
    BY DEF Orderly
  <2>2. job[<<x, k>>] # NoJob
    BY <1>0 DEF NoJob
  <2>3. i \in Nat
    BY DEF Try
  <2> QED  BY <2>1, <2>2, <2>3, <1>0
<1>b. \A v \in Lane, i \in Try : task[v] = <<x, i>> => ~Unrecorded(v)'
  BY <1>a DEF Unrecorded
<1>3. \A v \in Lane : ~Answered(v, x)'
  BY <1>b DEF Answered, Unrecorded
<1>4. \A v \in Lane, i \in Try : task[v] = <<x, i>> =>
          job[<<x, i>>] = [state |-> "open", owner |-> v] /\ ~Unrecorded(v)' /\ i <= k
  <2> SUFFICES ASSUME NEW v \in Lane, NEW i \in Try, task[v] = <<x, i>>
               PROVE  /\ job[<<x, i>>] = [state |-> "open", owner |-> v]
                      /\ ~Unrecorded(v)' /\ i <= k
    OBVIOUS
  <2>1. job[<<x, i>>] = [state |-> "open", owner |-> v] /\ i <= a + 1
    BY <1>0 DEF Orderly, NoJob
  <2>2. ~Unrecorded(v)'
    BY <1>b
  <2> QED  BY <2>1, <2>2, <1>0
<1>5. x \in pushed => job[<<x, 1>>] # NoJob
  <2>1. CASE a >= 1
    BY <2>1 DEF Orderly
  <2>2. CASE a = 0
    BY <2>2, <1>0 DEF NoJob
  <2> QED  BY <2>1, <2>2, <1>0
<1>6. k >= 1 /\ \A i \in Try : i <= k => i <= k + 1
  BY <1>0 DEF Try
<1>7. /\ \A i \in Try :
           /\ job'[<<x, i>>] # NoJob => i <= k + 1
           /\ job'[<<x, i>>].state = "closed" => i <= k
           /\ job'[<<x, i>>] = OpenJob => i = k + 1
  BY <1>1, <1>6 DEF NoJob
<1>8. \A v \in Lane, i \in Try :
          /\ <<x, i>> \in batch'[v] => i <= k + 1 /\ (i <= k => job'[<<x, i>>] # NoJob)
          /\ task'[v] = <<x, i>> => /\ job'[<<x, i>>] = [state |-> "open", owner |-> v]
                                    /\ IF Unrecorded(v)' THEN i = k + 1 ELSE i <= k
  BY <1>2, <1>4, <1>6
<1>9. /\ tried'[x] = IF \E v \in Lane : Answered(v, x)' THEN 1..(k + 1) ELSE 1..k
      /\ x \in accepted' => delivery'[x].status = "delivered"
  BY <1>0, <1>3
<1> QED  BY <1>1, <1>2, <1>5, <1>6, <1>7, <1>8, <1>9 DEF Orderly

LEMMA DeliveredOwn ==
    ASSUME Base, NEW x \in Delivery, Orderly(x), NEW w \in Lane, NEW k \in Try,
           MarkDelivered(w), task[w] = <<x, k>>
    PROVE  Orderly(x)'
<1>1. delivery'[x] = [status |-> "delivered", attempts |-> k, next |-> "null"]
  BY DEF Base, MarkDelivered, Marked, TypeOK
<1>2. \A v \in Lane : pc'[v] = IF v = w THEN "handled" ELSE pc[v]
  BY DEF Base, MarkDelivered, Goto, TypeOK
<1>3. UNCHANGED <<pushed, job, task, batch, tried, accepted>> /\ pc[w] = "accepted"
  BY DEF MarkDelivered, historyVars
<1> QED  BY <1>1, <1>2, <1>3, MarkOwn DEF Unrecorded

LEMMA RetryingOwn ==
    ASSUME Base, NEW x \in Delivery, Orderly(x), NEW w \in Lane, NEW k \in Try,
           MarkRetrying(w), task[w] = <<x, k>>
    PROVE  Orderly(x)'
<1>1. delivery'[x] = [status |-> "retrying", attempts |-> k, next |-> "future"]
  BY DEF Base, MarkRetrying, Marked, TypeOK
<1>2. \A v \in Lane : pc'[v] = IF v = w THEN "handled" ELSE pc[v]
  BY DEF Base, MarkRetrying, Goto, TypeOK
<1>3. UNCHANGED <<pushed, job, task, batch, tried, accepted>> /\ pc[w] = "refused"
  BY DEF MarkRetrying, historyVars
<1>4. x \notin accepted
  BY <1>3, NotYet DEF Base, Unrecorded
<1> QED  BY <1>1, <1>2, <1>3, <1>4, MarkOwn DEF Unrecorded

LEMMA FailedOwn ==
    ASSUME Base, NEW x \in Delivery, Orderly(x), NEW w \in Lane, NEW k \in Try,
           MarkFailed(w), task[w] = <<x, k>>
    PROVE  Orderly(x)'
<1>1. delivery'[x] = [status |-> "failed", attempts |-> k, next |-> "null"]
  BY DEF Base, MarkFailed, Marked, TypeOK
<1>2. \A v \in Lane : pc'[v] = IF v = w THEN "judging" ELSE pc[v]
  BY DEF Base, MarkFailed, Goto, TypeOK
<1>3. UNCHANGED <<pushed, job, task, batch, tried, accepted>> /\ pc[w] = "refused"
  BY DEF MarkFailed, historyVars
<1>4. x \notin accepted
  BY <1>3, NotYet DEF Base, Unrecorded
<1> QED  BY <1>1, <1>2, <1>3, <1>4, MarkOwn DEF Unrecorded

\* A job that is closed is one whose try has been recorded.
LEMMA AcknowledgeOwn ==
    ASSUME Base, NEW x \in Delivery, Orderly(x), NEW w \in Lane, NEW k \in Try,
           Acknowledge(w), task[w] = <<x, k>>
    PROVE  Orderly(x)'
<1> DEFINE a == delivery[x].attempts
<1> USE DEF Base, Acknowledge, Goto, tableVars, historyVars
<1>0. /\ a \in Nat /\ k \in Nat /\ k <= a
      /\ job[<<x, k>>] = [state |-> "open", owner |-> w]
  <2>1. a \in Nat /\ k \in Nat
    BY DEF TypeOK, Row, Try
  <2>2. ~Unrecorded(w)
    BY DEF Unrecorded
  <2>3. k <= a /\ job[<<x, k>>] = [state |-> "open", owner |-> w]
    BY <2>2 DEF Orderly
  <2> QED  BY <2>1, <2>3
<1>1. \A i \in Try : job'[<<x, i>>] = IF i = k THEN Receipt ELSE job[<<x, i>>]
  BY <1>0, NotNone DEF TypeOK
<1>2. \A i \in Try : /\ job'[<<x, i>>] # NoJob <=> job[<<x, i>>] # NoJob
                     /\ job'[<<x, i>>].state = "closed" =>
                            job[<<x, i>>].state = "closed" \/ i <= a
                     /\ job'[<<x, i>>] = OpenJob => job[<<x, i>>] = OpenJob
  BY <1>0, <1>1 DEF OpenJob, NoJob, Receipt
<1>3. \A v \in Lane : /\ task'[v] = IF v = w THEN NoTask ELSE task[v]
                      /\ pc'[v] = IF v = w THEN "idle" ELSE pc[v]
  BY DEF TypeOK
<1>4. \A v \in Lane : /\ Answered(v, x)' <=> Answered(v, x)
                      /\ Answered(v, x) => pc'[v] = pc[v]
  BY <1>3, NotNone DEF Answered
<1>5. \A v \in Lane, i \in Try : task'[v] = <<x, i>> =>
          /\ job'[<<x, i>>] = [state |-> "open", owner |-> v]
          /\ IF Unrecorded(v)' THEN i = a + 1 ELSE i <= a
  <2> SUFFICES ASSUME NEW v \in Lane, NEW i \in Try, task'[v] = <<x, i>>
               PROVE  /\ job'[<<x, i>>] = [state |-> "open", owner |-> v]
                      /\ IF Unrecorded(v)' THEN i = a + 1 ELSE i <= a
    OBVIOUS
  <2>1. v # w /\ task[v] = <<x, i>> /\ pc'[v] = pc[v]
    BY <1>3, NotNone
  <2>2. job[<<x, i>>] = [state |-> "open", owner |-> v]
        /\ IF Unrecorded(v) THEN i = a + 1 ELSE i <= a
    BY <2>1 DEF Orderly
  <2>3. i # k
    BY <2>1, <2>2, <1>0
  <2> QED  BY <2>1, <2>2, <2>3, <1>1 DEF Unrecorded
<1>6. 1 \in Try
  BY CountAssumption DEF Try
<1> QED  BY <1>2, <1>4, <1>5, <1>6 DEF Orderly

\* A receipt goes when nothing will store its job again.
LEMMA ForgetOrderly ==
    ASSUME Base, NEW x \in Delivery, Orderly(x), NEW d \in Delivery, NEW k \in Try,
           ForgetReceipt(<<d, k>>), x \notin disturbed'
    PROVE  Orderly(x)'
<1> DEFINE a == delivery[x].attempts
<1> USE DEF Base, ForgetReceipt, tableVars, laneVars
<1>1. \A i \in Try : job'[<<x, i>>] = IF x = d /\ i = k THEN NoJob ELSE job[<<x, i>>]
  BY NotNone DEF TypeOK
<1>2. \A i \in Try : /\ job'[<<x, i>>] # NoJob => job[<<x, i>>] # NoJob
                     /\ job'[<<x, i>>].state = "closed" => job[<<x, i>>].state = "closed"
                     /\ job'[<<x, i>>] = OpenJob => job[<<x, i>>] = OpenJob
  BY <1>1 DEF OpenJob, NoJob
<1>3. \A v \in Lane, i \in Try : <<x, i>> \in batch[v] => job'[<<x, i>>] = job[<<x, i>>]
  BY <1>1
<1>4. x \in pushed => job'[<<x, 1>>] = job[<<x, 1>>]
  BY <1>1, CountAssumption DEF Try
<1>5. \A v \in Lane, i \in Try : task[v] = <<x, i>> =>
          job'[<<x, i>>] = [state |-> "open", owner |-> v]
  <2> SUFFICES ASSUME NEW v \in Lane, NEW i \in Try, task[v] = <<x, i>>
               PROVE  job'[<<x, i>>] = [state |-> "open", owner |-> v]
    OBVIOUS
  <2>1. job[<<x, i>>] = [state |-> "open", owner |-> v]
    BY DEF Orderly
  <2> QED  BY <2>1, <1>1
<1>6. \A v \in Lane : /\ Answered(v, x)' <=> Answered(v, x)
                      /\ Unrecorded(v)' <=> Unrecorded(v)
  BY DEF Answered, Unrecorded
<1>7. UNCHANGED <<delivery, pushed, task, batch, pc, tried, accepted>>
  OBVIOUS
<1> HIDE DEF Base, ForgetReceipt
<1> QED  BY <1>2, <1>3, <1>4, <1>5, <1>6, <1>7 DEF Orderly

(***************************************************************************)
(* The steps of the specification.                                         *)
(***************************************************************************)

LEMMA StutterBase ==
    ASSUME Base, UNCHANGED vars
    PROVE  Base'
<1> USE DEF vars
<1>1. TypeOK' /\ RowsFirst' /\ LaneState'
  BY DEF Base, TypeOK, RowsFirst, LaneState
<1>2. Recorded' /\ NothingStranded' /\ OutcomesAreEarned'
  BY DEF Base, Recorded, Reached, NothingStranded, OutcomesAreEarned
<1> QED  BY <1>1, <1>2 DEF Base

LEMMA BaseStep == Base /\ [Next]_vars => Base'
<1> SUFFICES ASSUME Base, [Next]_vars PROVE Base'  OBVIOUS
<1>1. ASSUME NEW d \in Delivery, Source(d) \/ FallsDue(d)
      PROVE  Base'
  BY <1>1, MatchBase, IntentBase, TestBase, PushBase, RetryBase, FallsDueBase DEF Source
<1>2. ASSUME NEW h \in Webhook, NEW b \in BOOLEAN, SetEnabled(h, b)
      PROVE  Base'
  BY <1>2, EnabledBase
<1>3. ASSUME NEW w \in Lane, Schedule(w)
      PROVE  Base'
  BY <1>3, ClaimBase, EnqueueBase, AdoptBase DEF Schedule
<1>4. ASSUME NEW w \in Lane, Process(w)
      PROVE  Base'
  BY <1>4, TakeBase, DeliverBase, DeliveredBase, RetryingBase, FailedBase, JudgeBase,
     DisableBase, StopBase, AcknowledgeBase
     DEF Process, Record
<1>5. ASSUME NEW w \in Lane, Fail(w)
      PROVE  Base'
  BY <1>5, ThrowsBase, InterruptedBase DEF Fail
<1>6. ASSUME NEW j \in Job, LeaseLapses(j) \/ ForgetReceipt(j)
      PROVE  Base'
  BY <1>6, LapseBase, ForgetBase
<1>7. CASE UNCHANGED vars
  BY <1>7, StutterBase
<1> QED  BY <1>1, <1>2, <1>3, <1>4, <1>5, <1>6, <1>7 DEF Next

\* An action on a job whose delivery is x, and on any other.
LEMMA TakeOrderly ==
    ASSUME Base, NEW x \in Delivery, Orderly(x), NEW w \in Lane, NEW j \in Job,
           TakeJob(w, j)
    PROVE  Orderly(x)'
<1>1. PICK d \in Delivery, k \in Try : j = <<d, k>>
  BY DEF Job
<1>2. CASE x = d
  BY <1>1, <1>2, TakeOwn
<1>3. CASE x # d
  BY <1>1, <1>3, TakeKept, KeptOrderly DEF Base
<1> QED  BY <1>2, <1>3

LEMMA DeliverOrderly ==
    ASSUME Base, NEW x \in Delivery, Orderly(x), NEW w \in Lane,
           NEW answer \in {"accepted", "refused"}, Deliver(w, answer)
    PROVE  Orderly(x)'
<1>1. PICK d \in Delivery, k \in Try : task[w] = <<d, k>>
  BY TaskShape DEF Base, Deliver
<1>2. CASE x = d
  BY <1>1, <1>2, DeliverOwn
<1>3. CASE x # d
  BY <1>1, <1>3, DeliverKept, KeptOrderly DEF Base
<1> QED  BY <1>2, <1>3

LEMMA RecordOrderly ==
    ASSUME Base, NEW x \in Delivery, Orderly(x), NEW w \in Lane, Record(w)
    PROVE  Orderly(x)'
<1>1. pc[w] \notin {"idle", "scheduling"}
  BY DEF Record, MarkDelivered, MarkRetrying, MarkFailed, Judge, DisableWebhook,
         StopDeliveries, Acknowledge
<1>2. PICK d \in Delivery, k \in Try : task[w] = <<d, k>>
  BY <1>1, TaskShape DEF Base
<1>3. CASE Judge(w) \/ DisableWebhook(w) \/ StopDeliveries(w)
  BY <1>3, JudgeKept, DisableKept, StopKept, KeptOrderly DEF Base
<1>4. CASE MarkDelivered(w) \/ MarkRetrying(w) \/ MarkFailed(w) \/ Acknowledge(w)
  <2>1. CASE x = d
    BY <1>2, <1>4, <2>1, DeliveredOwn, RetryingOwn, FailedOwn, AcknowledgeOwn
  <2>2. CASE x # d
    BY <1>2, <1>4, <2>2, DeliveredKept, RetryingKept, FailedKept, AcknowledgeKept,
       KeptOrderly
       DEF Base
  <2> QED  BY <2>1, <2>2
<1> QED  BY <1>3, <1>4 DEF Record

LEMMA OrderlyStep ==
    ASSUME Base, NEW x \in Delivery, Orderly(x), [Next]_vars,
           x \notin disturbed' \cup retried'
    PROVE  Orderly(x)'
<1> USE DEF Base
<1>1. ASSUME NEW d \in Delivery, Source(d) \/ FallsDue(d)
      PROVE  Orderly(x)'
  BY <1>1, MatchKept, IntentKept, TestKept, PushKept, RetryKept, FallsDueKept,
     KeptOrderly
     DEF Source
<1>2. ASSUME NEW h \in Webhook, NEW b \in BOOLEAN, SetEnabled(h, b)
      PROVE  Orderly(x)'
  BY <1>2, EnabledKept, KeptOrderly
<1>3. ASSUME NEW w \in Lane, Schedule(w)
      PROVE  Orderly(x)'
  BY <1>3, ClaimKept, EnqueueKept, AdoptKept, KeptOrderly DEF Schedule
<1>4. ASSUME NEW w \in Lane, Process(w)
      PROVE  Orderly(x)'
  BY <1>4, TakeOrderly, DeliverOrderly, RecordOrderly DEF Process
<1>5. ASSUME NEW w \in Lane, Fail(w)
      PROVE  Orderly(x)'
  BY <1>5, ThrowsKept, InterruptedKept, KeptOrderly DEF Fail
<1>6. ASSUME NEW j \in Job, LeaseLapses(j)
      PROVE  Orderly(x)'
  BY <1>6, LapseKept, KeptOrderly
<1>7. ASSUME NEW j \in Job, ForgetReceipt(j)
      PROVE  Orderly(x)'
  <2>1. PICK d \in Delivery, k \in Try : j = <<d, k>>
    BY DEF Job
  <2> QED  BY <1>7, <2>1, ForgetOrderly
<1>8. CASE UNCHANGED vars
  BY <1>8 DEF vars, Orderly, Answered, Unrecorded
<1> QED  BY <1>1, <1>2, <1>3, <1>4, <1>5, <1>6, <1>7, <1>8 DEF Next

\* What disturbed a delivery is not undone.
LEMMA CleanShrinks ==
    ASSUME [Next]_vars, NEW x, x \notin disturbed' \cup retried'
    PROVE  x \notin disturbed \cup retried
<1> USE DEF vars, tableVars, laneVars, historyVars
<1>1. ASSUME NEW d \in Delivery, Source(d) \/ FallsDue(d)
      PROVE  disturbed \subseteq disturbed' /\ retried \subseteq retried'
  BY <1>1 DEF Source, MatchWebhook, CreateIntent, CreateTest, LosePush, Retry, FallsDue
<1>2. ASSUME NEW h \in Webhook, NEW b \in BOOLEAN, SetEnabled(h, b)
      PROVE  disturbed \subseteq disturbed' /\ retried \subseteq retried'
  BY <1>2 DEF SetEnabled
<1>3. ASSUME NEW w \in Lane, Schedule(w)
      PROVE  disturbed \subseteq disturbed' /\ retried \subseteq retried'
  BY <1>3 DEF Schedule, ClaimDue, EnqueueDue, AdoptTest
<1>4. ASSUME NEW w \in Lane, Process(w) \/ Fail(w)
      PROVE  disturbed \subseteq disturbed' /\ retried \subseteq retried'
  BY <1>4 DEF Process, Record, TakeJob, Deliver, MarkDelivered, MarkRetrying, MarkFailed,
              Judge, DisableWebhook, StopDeliveries, Acknowledge, Fail,
              MarkDeliveredThrows, Interrupted
<1>5. ASSUME NEW j \in Job, LeaseLapses(j) \/ ForgetReceipt(j)
      PROVE  disturbed \subseteq disturbed' /\ retried \subseteq retried'
  BY <1>5 DEF LeaseLapses, ForgetReceipt
<1> QED  BY <1>1, <1>2, <1>3, <1>4, <1>5 DEF Next

LEMMA InitOrderly == ASSUME Init, NEW x \in Delivery PROVE Orderly(x)
<1> USE DEF Init
<1>1. delivery[x].attempts = 0 /\ delivery[x].status = "absent"
  BY DEF AbsentRow
<1>2. \A k \in Try : job[<<x, k>>] = NoJob
  BY NotNone
<1>3. \A w \in Lane, k \in Try : <<x, k>> \notin batch[w] /\ task[w] # <<x, k>>
  BY NotNone
<1>4. \A w \in Lane : ~Answered(w, x)
  BY DEF Answered
<1>5. tried[x] = 1..0
  OBVIOUS
<1>6. x \notin pushed /\ x \notin accepted
  OBVIOUS
<1> HIDE DEF Init
<1> QED  BY <1>1, <1>2, <1>3, <1>4, <1>5, <1>6 DEF Orderly, NoJob, OpenJob

(***************************************************************************)
(* The theorems.                                                           *)
(***************************************************************************)

\* The inductive invariant: the tables are consistent, and every delivery nothing
\* was disturbed of is tried in order.
THEOREM InvariantHolds == Spec => []IInv
<1>1. Init => IInv
  BY InitBase, InitOrderly DEF IInv, Clean
<1>2. IInv /\ [Next]_vars => IInv'
  <2> SUFFICES ASSUME IInv, [Next]_vars PROVE IInv'  OBVIOUS
  <2>1. Base'
    BY BaseStep DEF IInv
  <2>2. ASSUME NEW x \in Delivery, x \notin disturbed' \cup retried'
        PROVE  Orderly(x)'
    BY <2>2, CleanShrinks, OrderlyStep DEF IInv, Clean
  <2> QED  BY <2>1, <2>2 DEF IInv, Clean
<1> QED  BY <1>1, <1>2, PTL DEF Spec

\* The types of the tables, the journal and the lanes.
THEOREM WebhookTypeCorrect == Spec => []TypeOK
<1>1. IInv => TypeOK
  BY DEF IInv, Base
<1> QED  BY <1>1, InvariantHolds, PTL

\* A delivery that waits is found by the scheduler and has a try left, whichever
\* lane wrote its row last.
THEOREM NoneIsStranded == Spec => []NothingStranded
<1>1. IInv => NothingStranded
  BY DEF IInv, Base
<1> QED  BY <1>1, InvariantHolds, PTL

\* What the delivery history says happened, did.
THEOREM OutcomesAreTrue == Spec => []OutcomesAreEarned
<1>1. IInv => OutcomesAreEarned
  BY DEF IInv, Base
<1> QED  BY <1>1, InvariantHolds, PTL

\* The identity of the jobs is enough to send each try of an undisturbed delivery
\* once, in order, and none after it was accepted.
THEOREM NothingIsSentTwice == Spec => []NoNeedlessSend
<1>1. ASSUME IInv, NEW w \in Lane, NEW d \in Delivery, d \notin disturbed \cup retried,
             NEW k \in Try, pc[w] = "sending", task[w] = <<d, k>>
      PROVE  d \notin accepted /\ tried[d] = 1..(k - 1)
  BY <1>1, NotYet DEF IInv, Base, Clean, Unrecorded
<1>2. IInv => NoNeedlessSend
  BY <1>1 DEF NoNeedlessSend
<1> QED  BY <1>2, InvariantHolds, PTL
=============================================================================
