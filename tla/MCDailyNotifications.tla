-------------------------- MODULE MCDailyNotifications --------------------------
(* Two schedules, two incidents of one project, two delivery lanes. *)
EXTENDS DailyNotifications, TLC

CONSTANTS l1, l2, morning, evening, web, i1, i2

MCProjectOf == [i \in {i1, i2} |-> web]

\* the lanes, the schedules and the incidents
Symmetry == {f @@ g @@ h : f \in Permutations({l1, l2}), g \in Permutations({morning, evening}),
                           h \in Permutations({i1, i2})}
=============================================================================
