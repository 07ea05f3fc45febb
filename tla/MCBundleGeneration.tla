------------------------ MODULE MCBundleGeneration ------------------------
(***************************************************************************)
(* An instance of BundleGeneration for TLC: three events of one incident,  *)
(* of which the later two occurred at the same time, one of another, and a *)
(* regeneration of one of the two.                                         *)
(***************************************************************************)
EXTENDS BundleGeneration, TLC

CONSTANTS a, b, a1, a2, a3, b1, again

MCEvent == {a1, a2, a3, b1}
MCJob == MCEvent \cup {again}
MCEventOf == [j \in MCJob |-> IF j = again THEN a2 ELSE j]
MCIncidentOf == a1 :> a @@ a2 :> a @@ a3 :> a @@ b1 :> b
MCTime == a1 :> 1 @@ a2 :> 2 @@ a3 :> 2 @@ b1 :> 1

MCSymmetry == Permutations(Lane)
=============================================================================
