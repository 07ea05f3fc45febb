---------------------------- MODULE MCDurableQueue ----------------------------
(***************************************************************************)
(* Instances of DurableQueue, over subsets of the jobs of one incident:    *)
(* group-incident, which works in its transaction, the build of its        *)
(* bundle, and the reproduction the build enqueues.                        *)
(***************************************************************************)
EXTENDS DurableQueue, TLC

CONSTANTS group, build, reproduce, event

MCNameOf == [j \in Job |->
    CASE j = group -> "group-incident"
      [] j = reproduce -> "build-reproduction"
      [] OTHER -> "build-bundle"]

MCParentOf == [j \in Job |-> NoJob]

MCFollow == [j \in Job |-> IF j = build THEN Job \cap {reproduce} ELSE {}]

MCTransactional == Job \cap {group}

\* What Redis holds: captured work for grouping, or a request for a build.
MCAdopts == event :> IF group \in Job THEN {group} ELSE Job \cap {build}

QueueSymmetry == Permutations(Token) \cup Permutations(Worker)
===============================================================================
