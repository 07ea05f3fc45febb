------------------------------- MODULE JobLedger -------------------------------
(***************************************************************************)
(* What the worker promises about a durable job, with no queue, lease,     *)
(* process or clock (spec/worker-durability.md, "Ownership and             *)
(* transactions"): a job is accepted, open until it is settled once, and   *)
(* forgotten when its receipt expires.  The work of a transactional stage  *)
(* takes effect exactly when the job completes; any other work takes       *)
(* effect at least once before it does; and a job completes only after the *)
(* one it depends on.                                                      *)
(***************************************************************************)
EXTENDS Integers

CONSTANTS Job, NoJob, ParentOf, Transactional

VARIABLES phase,  \* of each job
          done    \* how often its work took effect under this acceptance

Phase == {"none", "open", "completed", "skipped", "failed"}

Init == phase = [j \in Job |-> "none"] /\ done = [j \in Job |-> 0]

\* One job's part of a step, from phase p to phase q.
Moves(j, p, q) == phase[j] = p /\ phase'[j] = q

\* The work of a job outside a transaction may be repeated at any time by a
\* worker that has lost its claim: at-least-once execution.
Stay(j) ==
    /\ phase'[j] = phase[j]
    /\ IF j \in Transactional THEN done'[j] = done[j] ELSE done'[j] >= done[j]

Accept(j) == Moves(j, "none", "open") /\ done'[j] = 0

Complete(j) ==
    /\ Moves(j, "open", "completed")
    /\ ParentOf[j] # NoJob => phase[ParentOf[j]] = "completed"
    /\ IF j \in Transactional
         THEN done[j] = 0 /\ done'[j] = 1
         ELSE done[j] >= 1 /\ done'[j] = done[j]

Abandon(j) == \E q \in {"skipped", "failed"} : Moves(j, "open", q) /\ done'[j] = done[j]

Reopen(j) == Moves(j, "failed", "open") /\ done'[j] = done[j]

Forget(j) ==
    /\ \E p \in {"completed", "skipped", "failed"} : Moves(j, p, "none")
    /\ done'[j] = 0

Step ==
    /\ phase' \in [Job -> Phase]
    /\ \A j \in Job : \/ Stay(j) \/ Accept(j) \/ Complete(j)
                      \/ Abandon(j) \/ Reopen(j) \/ Forget(j)

\* A deleted project takes all its jobs with it.
Erase == phase' = [j \in Job |-> "none"] /\ done' = [j \in Job |-> 0]

Next == Step \/ Erase

Spec == Init /\ [][Next]_<<phase, done>>
===============================================================================
