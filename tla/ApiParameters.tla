---------------------------- MODULE ApiParameters ----------------------------
(***************************************************************************)
(* What the modules of the API process have in common: the requests that   *)
(* run at the same time and the missions there are.                        *)
(***************************************************************************)
EXTENDS Integers, FiniteSets, Sequences

CONSTANTS
    Callers,      \* requests in progress at the same time
    MissionCount  \* the missions there are to dispatch

ASSUME ApiAssumption ==
    /\ MissionCount \in Nat
    /\ IsFiniteSet(Callers)
    /\ {"nobody", "run"} \cap Callers = {}

Missions == 1 .. MissionCount
NoMission == 0

\* What a swarm state message says of the active mission.
MissionReports == [mission : Missions \cup {NoMission}, complete : BOOLEAN]
NoReport == [mission |-> NoMission, complete |-> FALSE]

=============================================================================
