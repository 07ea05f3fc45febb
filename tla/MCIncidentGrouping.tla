------------------------ MODULE MCIncidentGrouping ------------------------
(***************************************************************************)
(* Instances of IncidentGrouping for TLC: events that arrive out of the    *)
(* order in which they happened, one of them twice.                        *)
(***************************************************************************)
EXTENDS IncidentGrouping, TLC

CONSTANTS e1, e2, e3, again

MCEvent == {e1, e2, e3}
MCJob == MCEvent \cup {again}
MCEventOf == [j \in MCJob |-> IF j = again THEN e2 ELSE j]
MCType == e1 :> "backend_exception" @@ e2 :> "backend_exception" @@ e3 :> "request_event"
MCTime == e1 :> 1 @@ e2 :> 3 @@ e3 :> 5
MCRank == e1 :> 2 @@ e2 :> 3 @@ e3 :> 2

MCSymmetry == Permutations(Lane)
=============================================================================
