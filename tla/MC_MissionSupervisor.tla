------------------------- MODULE MC_MissionSupervisor -------------------------
(* Instances of MissionSupervisor for TLC. *)
EXTENDS MissionSupervisor, TLC

CONSTANT m1

NoPlanner == {}

\* Two of three drones fly, abreast or in formation; one is to spare.
PairMissions == {[id |-> m1, type |-> "waypoint", count |-> 2],
                 [id |-> m1, type |-> "formation", count |-> 2]}

\* A drone past its first waypoint, and one that is done.
PairReports == {[index |-> 1, complete |-> FALSE], [index |-> 2, complete |-> TRUE]}
=============================================================================
