----------------------------- MODULE MCWorkerJobs -----------------------------
(***************************************************************************)
(* The journal alone: a job, its dependent, and the dependent's dependent, *)
(* as group-incident's build and publication are.                          *)
(***************************************************************************)
EXTENDS WorkerJobs, TLC

CONSTANTS build, publish, receipt

MCParentOf == build :> NoJob @@ publish :> build @@ receipt :> publish

TokenSymmetry == Permutations(Token)
===============================================================================
