---------------------------- MODULE IngressProofs ----------------------------
(***************************************************************************)
(* No payload is lost between Redis and the journal, for every set of      *)
(* lanes and payloads; with it the types of the whole queue.               *)
(*                                                                         *)
(* NothingLost is not inductive: a payload leaves Redis by AckIngress, so  *)
(* what must hold before is that a lane about to acknowledge an entry that *)
(* is still its own has stored the payload (AdoptedIsStored).  An entry    *)
(* that was reclaimed is no longer its own, and stays in Redis.            *)
(***************************************************************************)
EXTENDS LedgerProofs

USE WorkerAssumption, MessageAssumption

AdoptedIsStored ==
    \A w \in Worker : pc[w] = "adopted" /\ ingress[held[w]].by = w /\ projectLive
                        => journaled[held[w]]

IngressInv == RedisTypeOK /\ crashes \in Nat /\ NothingLost /\ AdoptedIsStored

\* Steps that touch neither Redis nor what was stored.
LEMMA IngressKept ==
    ASSUME LaneInv, IngressInv, UNCHANGED <<ingress, journaled>>,
           crashes' \in Nat, projectLive' => projectLive,
           \A w \in Worker : pc'[w] = "adopted" => pc[w] = "adopted" /\ held'[w] = held[w]
    PROVE  IngressInv'
  <1> USE DEF IngressInv
  <1>1. RedisTypeOK'
    BY DEF RedisTypeOK
  <1>2. NothingLost'
    BY DEF NothingLost
  <1>3. AdoptedIsStored'
    BY DEF AdoptedIsStored
  <1> QED BY <1>1, <1>2, <1>3

LEMMA IngressStep ==
    ASSUME LaneInv, IngressInv, [Next]_vars
    PROVE  IngressInv'
  <1> USE DEF IngressInv, laneVars, historyVars, beatVars
  <1>0. projectLive' => projectLive
    BY StatementStep DEF Statement, jobVars, Enqueue, Claim, Fail, Complete,
       MaintainBlocked, MaintainExpired, MaintainRemoved, DeleteProject, RetryFailed,
       JobsTime, LeaseLapses, BackoffEnds, RetentionEnds
  <1>t. /\ ingress \in [Message -> [at : {"none", "list", "taken", "aged"},
                                     by : Worker \cup {NoWorker}]]
        /\ journaled \in [Message -> BOOLEAN]
        /\ LaneTypeOK
        /\ \A w \in Worker : pc[w] \in {"holding", "adopted"} => held[w] \in Message
    BY DEF RedisTypeOK, LaneInv, LaneShape
  <1>1. ASSUME NEW w \in Worker, RedisClaims(w) PROVE IngressInv'
    <2>1. PICK m \in Waiting(name[w]) :
             /\ held' = [held EXCEPT ![w] = m]
             /\ ingress' = [ingress EXCEPT ![m] = [at |-> "taken", by |-> w]]
      BY <1>1 DEF RedisClaims
    <2>2. /\ m \in Message /\ UNCHANGED <<journaled, crashes, projectLive>>
          /\ pc' = [pc EXCEPT ![w] = "holding"] /\ pc[w] = "reclaimed"
      BY <1>1, <2>1 DEF RedisClaims, Waiting, Goto, jobVars
    <2>3. RedisTypeOK'
      BY <1>t, <2>1, <2>2 DEF RedisTypeOK
    <2>4. NothingLost'
      BY <1>t, <2>1, <2>2 DEF NothingLost
    <2>5. AdoptedIsStored'
      <3> SUFFICES ASSUME NEW v \in Worker, pc'[v] = "adopted", projectLive',
                          ingress'[held'[v]].by = v
                   PROVE  journaled'[held'[v]]
        BY DEF AdoptedIsStored
      <3>1. v # w /\ pc[v] = "adopted" /\ held'[v] = held[v] /\ held[v] \in Message
        BY <1>t, <2>1, <2>2 DEF LaneTypeOK
      <3>2. ingress[held[v]].by = v
        BY <2>1, <2>2, <3>1
      <3> QED BY <2>2, <3>1, <3>2 DEF AdoptedIsStored
    <2> QED BY <2>2, <2>3, <2>4, <2>5
  <1>2. ASSUME NEW w \in Worker, AdoptIngress(w) PROVE IngressInv'
    <2>1. /\ pc' = [pc EXCEPT ![w] = "adopted"] /\ held[w] \in Message
          /\ journaled' = [journaled EXCEPT ![held[w]] = @ \/ projectLive]
          /\ UNCHANGED <<held, ingress, crashes>>
      BY <1>2, <1>t DEF AdoptIngress, Goto
    <2>2. /\ \A m \in Message : journaled[m] => journaled'[m]
          /\ journaled' \in [Message -> BOOLEAN]
          /\ projectLive => journaled'[held[w]]
      BY <1>t, <2>1
    <2>3. RedisTypeOK'
      BY <1>t, <2>1, <2>2 DEF RedisTypeOK
    <2>4. NothingLost'
      BY <1>0, <2>1, <2>2 DEF NothingLost
    <2>5. AdoptedIsStored'
      BY <1>0, <1>t, <2>1, <2>2 DEF AdoptedIsStored, LaneTypeOK
    <2> QED BY <2>1, <2>3, <2>4, <2>5
  <1>3. ASSUME NEW w \in Worker, AckIngress(w) PROVE IngressInv'
    <2>1. /\ pc[w] = "adopted" /\ pc' = [pc EXCEPT ![w] = "acked"] /\ held[w] \in Message
          /\ held' = [held EXCEPT ![w] = NoMessage]
          /\ UNCHANGED <<journaled, crashes, projectLive>>
      BY <1>3, <1>t DEF AckIngress, Goto, jobVars
    <2>2. CASE ingress[held[w]].by = w /\ ingress' = [ingress EXCEPT ![held[w]] = Nowhere]
      <3>1. projectLive => journaled[held[w]]
        BY <2>1, <2>2 DEF AdoptedIsStored
      <3>2. RedisTypeOK'
        BY <1>t, <2>1, <2>2 DEF RedisTypeOK, Nowhere
      <3>3. NothingLost'
        BY <1>t, <2>1, <2>2, <3>1 DEF NothingLost
      <3>4. AdoptedIsStored'
        <4> SUFFICES ASSUME NEW v \in Worker, pc'[v] = "adopted", projectLive',
                            ingress'[held'[v]].by = v
                     PROVE  journaled'[held'[v]]
          BY DEF AdoptedIsStored
        <4>1. v # w /\ pc[v] = "adopted" /\ held'[v] = held[v] /\ held[v] \in Message
          BY <1>t, <2>1 DEF LaneTypeOK
        <4>2. ingress[held[v]].by = v
          BY <1>t, <2>2, <4>1 DEF Nowhere
        <4> QED BY <2>1, <4>1, <4>2 DEF AdoptedIsStored
      <3> QED BY <2>1, <3>2, <3>3, <3>4
    <2>3. CASE ingress' = ingress
      BY <1>t, <2>1, <2>3, IngressKept DEF LaneTypeOK
    <2> QED BY <1>3, <2>2, <2>3 DEF AckIngress
  <1>4. ASSUME NEW m \in Message, Produce(m) PROVE IngressInv'
    <2>1. /\ ingress[m] = Nowhere /\ ingress' = [ingress EXCEPT ![m].at = "list"]
          /\ journaled' = [journaled EXCEPT ![m] = FALSE]
          /\ UNCHANGED <<pc, held, crashes, projectLive>>
      BY <1>4 DEF Produce, jobVars
    <2>2. ingress'[m].by = NoWorker /\ ingress'[m].at = "list"
      BY <1>t, <2>1 DEF Nowhere
    <2>3. RedisTypeOK'
      BY <1>t, <2>1 DEF RedisTypeOK
    <2>4. NothingLost'
      BY <1>t, <2>1, <2>2 DEF NothingLost
    <2>5. AdoptedIsStored'
      BY <1>t, <2>1, <2>2 DEF AdoptedIsStored
    <2> QED BY <2>1, <2>3, <2>4, <2>5
  <1>5. ASSUME NEW m \in Message, ClaimAges(m) PROVE IngressInv'
    <2>1. /\ ingress[m].at = "taken" /\ ingress' = [ingress EXCEPT ![m].at = "aged"]
          /\ UNCHANGED <<journaled, pc, held, crashes, projectLive>>
      BY <1>5 DEF ClaimAges, jobVars
    <2>2. \A n \in Message : /\ ingress'[n].by = ingress[n].by
                             /\ ingress'[n].at = "none" => ingress[n].at = "none"
      BY <1>t, <2>1
    <2>3. RedisTypeOK'
      BY <1>t, <2>1 DEF RedisTypeOK
    <2>4. NothingLost'
      BY <2>1, <2>2 DEF NothingLost
    <2>5. AdoptedIsStored'
      BY <1>t, <2>1, <2>2 DEF AdoptedIsStored
    <2> QED BY <2>1, <2>3, <2>4, <2>5
  <1>6. ASSUME NEW w \in Worker, Dequeue(w),
               ~ReclaimStale(w), ~RedisClaims(w), ~AdoptIngress(w), ~AckIngress(w)
        PROVE IngressInv'
    <2>1. ASSUME NEW j \in Job, DequeueJournal(w, j) PROVE IngressInv'
      BY <1>0, <1>t, <2>1, IngressKept DEF DequeueJournal, TakeClaim, LaneTypeOK
    <2>2. ASSUME NEW n \in Name, DequeueMisses(w, n) PROVE IngressInv'
      BY <1>0, <1>t, <2>2, IngressKept DEF DequeueMisses, Goto, LaneTypeOK
    <2>3. CASE RedisEmpty(w) \/ DequeueThrows(w)
      BY <1>0, <1>t, <2>3, IngressKept DEF RedisEmpty, DequeueThrows, Goto, LaneTypeOK
    <2>4. CASE ClaimAgain(w)
      BY <1>0, <1>t, <2>4, IngressKept DEF ClaimAgain, TakeClaim, LaneTypeOK
    <2>5. ASSUME NEW j \in Job, LoseClaim(w, j) PROVE IngressInv'
      BY <1>0, <1>t, <2>5, IngressKept DEF LoseClaim, LaneTypeOK
    <2> QED BY <1>6, <2>1, <2>2, <2>3, <2>4, <2>5 DEF Dequeue
  <1>7. ASSUME NEW w \in Worker, Work(w) PROVE IngressInv'
    <2>1. /\ UNCHANGED <<ingress, journaled, held, crashes>>
          /\ \A v \in Worker : pc'[v] = "adopted" => pc[v] = "adopted"
      BY <1>7, <1>t DEF Work, BeginTransaction, CommitTransaction, DoWork, EnqueueFollowUp,
         AckCompleted, AckSkipped, Acknowledge, StepThrows, FailClaim, FinishStep,
         ClearClaim, Goto, LaneTypeOK
    <2> QED BY <1>0, <2>1, IngressKept
  <1>8. ASSUME NEW w \in Worker, Heartbeat(w) \/ Maintain(w) PROVE IngressInv'
    <2>1. /\ UNCHANGED <<ingress, journaled, held, crashes>>
          /\ \A v \in Worker : pc'[v] = "adopted" => pc[v] = "adopted"
      BY <1>8, <1>t DEF Heartbeat, SendRenewal, RenewalReturns, Maintain, SweepBlocked,
         SweepExpired, SweepRemoved, MaintainThrows, Goto, LaneTypeOK
    <2> QED BY <1>0, <2>1, IngressKept
  <1>9. ASSUME NEW w \in Worker, Crash(w) PROVE IngressInv'
    <2>1. /\ UNCHANGED <<ingress, journaled>> /\ crashes' \in Nat
          /\ \A v \in Worker : pc'[v] = "adopted" => pc[v] = "adopted" /\ held'[v] = held[v]
      BY <1>9, <1>t DEF Crash, LaneTypeOK
    <2> QED BY <1>0, <2>1, IngressKept
  <1>r. ASSUME NEW w \in Worker, ReclaimStale(w) PROVE IngressInv'
    <2>1. /\ pc[w] = "missed" /\ pc' = [pc EXCEPT ![w] = "reclaimed"]
          /\ \A m \in Message : ingress'[m] \in {ingress[m], [at |-> "list", by |-> NoWorker]}
          /\ ingress' \in [Message -> [at : {"none", "list", "taken", "aged"},
                                        by : Worker \cup {NoWorker}]]
          /\ UNCHANGED <<journaled, held, crashes, projectLive>>
      BY <1>r, <1>t DEF ReclaimStale, Goto, jobVars
    <2>2. RedisTypeOK'
      BY <1>t, <2>1 DEF RedisTypeOK
    <2>3. NothingLost'
      BY <2>1 DEF NothingLost
    <2>4. AdoptedIsStored'
      BY <1>t, <2>1 DEF AdoptedIsStored, LaneTypeOK
    <2> QED BY <2>1, <2>2, <2>3, <2>4
  <1>10. CASE UNCHANGED <<ingress, journaled, pc, held, crashes>>
    BY <1>0, <1>10, IngressKept
  <1> QED BY <1>1, <1>2, <1>3, <1>4, <1>5, <1>6, <1>7, <1>8, <1>9, <1>10, <1>r
          DEF Next, Operator, ProjectDeleted, Time, vars

LEMMA IngressInit == Init => IngressInv
  BY DEF Init, IngressInv, RedisTypeOK, NothingLost, AdoptedIsStored, Nowhere

\* A lane that is about to acknowledge its own Redis entry has stored the payload.
THEOREM IngressIsStored == Spec => []IngressInv
  <1>1. LaneInv /\ IngressInv /\ [Next]_vars => IngressInv'
    BY IngressStep
  <1> QED BY IngressInit, <1>1, LanesKeepShape, PTL DEF Spec

\* A payload that was produced is in Redis until the journal has stored it.
THEOREM NothingIsLost == Spec => []NothingLost
  <1>1. IngressInv => NothingLost
    BY DEF IngressInv
  <1> QED BY <1>1, IngressIsStored, PTL

\* The types of the journal, the ingress and the lanes.
THEOREM QueueTypeCorrect == Spec => []QueueTypeOK
  <1>1. LaneInv /\ ClaimInv /\ EffectInv /\ IngressInv => QueueTypeOK
    BY DEF LaneInv, JobsInv, LaneTypeOK, ClaimInv, BeatTypeOK, EffectInv, DoneTypeOK,
           IngressInv, RedisTypeOK, QueueTypeOK
  <1> QED BY <1>1, LanesKeepShape, ClaimsStayFenced, EffectsStayMatched, IngressIsStored, PTL
===============================================================================
