---------------------------- MODULE SimulatedSwarm ----------------------------
(***************************************************************************)
(* The swarm the API flies when no rosbridge is configured:                *)
(* SimulatedSwarmBridge.cs.  It moves only when somebody reads its state or*)
(* sends it a command, by the time that has passed since; how far that     *)
(* brings each drone is left open.  Every operation holds the bridge's     *)
(* lock.  Positions and battery are left out.                              *)
(***************************************************************************)
EXTENDS ApiParameters

CONSTANTS
    SimDrones, \* numbered from 1, the leader of a formation first
    Waypoints  \* how many a mission has

ASSUME SimulatedAssumption ==
    /\ SimDrones \in Nat \ {0}
    /\ Waypoints \in Nat \ {0}

VARIABLES
    simActive,   \* _activeMissionId, 0 for none
    simFormation,\* is _mission a formation?
    override,    \* _override
    sim,         \* of each drone of the last mission: its status and waypoint index
    simFlown     \* history: the missions all of whose waypoints were reached

simVars == <<simActive, simFormation, override, sim, simFlown>>

SimCrew == 1 .. SimDrones
Commands == {"Land", "Hold", "ReturnToLaunch"}
SimStatuses == {"TakingOff", "InFlight", "Landing", "Landed", "Holding", "Returning"}

\* Before the first mission there are no drones: none that would move.
NoDrones == [d \in SimCrew |-> [status |-> "Landed", index |-> 0]]

SimInit ==
    /\ simActive = 0
    /\ simFormation = FALSE
    /\ override = "none"
    /\ sim = NoDrones
    /\ simFlown = {}

-----------------------------------------------------------------------------
(* One drone, over some time: the set of what it may become. *)

Descended(drone) == {[drone EXCEPT !.status = s] : s \in {"Landing", "Landed"}}

\* It arrives at the waypoint it flies to, or not yet.
FlownWaypoints(drone) ==
    IF drone.status = "Landed" THEN {drone}
    ELSE IF drone.index >= Waypoints THEN Descended(drone)
    ELSE UNION {
        LET on == [drone EXCEPT !.index = drone.index + arrived] IN
        IF on.index >= Waypoints THEN Descended(on)
        ELSE {[on EXCEPT !.status = s] :
                s \in IF on.index = 0 THEN {"TakingOff", "InFlight"} ELSE {"InFlight"}}
        : arrived \in {0, 1}}

FollowedLeader(drone, leader) ==
    IF drone.status = "Landed" THEN {drone}
    ELSE IF leader.status \in {"Landing", "Landed"} THEN Descended(drone)
    ELSE {[drone EXCEPT !.status = "InFlight"]}

ExecutedCommand(drone) ==
    IF drone.status = "Landed" THEN {drone}
    ELSE CASE override = "Land" -> Descended(drone)
           [] override = "Hold" -> {[drone EXCEPT !.status = "Holding"]}
           [] override = "ReturnToLaunch" -> {[drone EXCEPT !.status = "Returning"]} \cup Descended(drone)

Stepped(d, leader) ==
    IF override # "none" THEN ExecutedCommand(sim[d])
    ELSE IF simFormation /\ d # 1 THEN FollowedLeader(sim[d], leader)
    ELSE FlownWaypoints(sim[d])

\* No time has passed, or every drone makes its step, the leader first.
Advanced ==
    {sim} \cup
    UNION {LET steps == [d \in SimCrew |-> IF d = 1 THEN {leader} ELSE Stepped(d, leader)] IN
           {after \in [SimCrew -> UNION {steps[d] : d \in SimCrew}] :
                \A d \in SimCrew : after[d] \in steps[d]}
           : leader \in Stepped(1, sim[1])}

\* The drones that fly the waypoints themselves.
Leading == IF simFormation THEN {1} ELSE SimCrew

Advance ==
    /\ sim' \in Advanced
    /\ simFlown' = IF simActive # NoMission /\ \A d \in Leading : sim'[d].index = Waypoints
                   THEN simFlown \cup {simActive} ELSE simFlown

-----------------------------------------------------------------------------

\* Every drone on its own pad, its launch ordered.
SimDispatch(m) ==
    /\ simActive' = m
    /\ simFormation' \in BOOLEAN
    /\ override' = "none"
    /\ sim' = [d \in SimCrew |-> [status |-> "TakingOff", index |-> 0]]
    /\ UNCHANGED simFlown

SimCommand(command) ==
    /\ Advance
    /\ override' = command
    /\ simActive' = 0
    /\ UNCHANGED simFormation

SimRead ==
    /\ Advance
    /\ UNCHANGED <<simActive, simFormation, override>>

\* The report of the state with these drones.
SimReport(drones) ==
    [mission |-> simActive,
     complete |-> simActive # 0 /\ \A d \in SimCrew : drones[d].status = "Landed"]

\* The process ends: the swarm is a part of it.
SimRestarts ==
    /\ simActive' = 0
    /\ simFormation' = FALSE
    /\ override' = "none"
    /\ sim' = NoDrones
    /\ UNCHANGED simFlown

SimNext ==
    \/ \E m \in Missions : SimDispatch(m)
    \/ \E command \in Commands : SimCommand(command)
    \/ SimRead
    \/ SimRestarts

SimSpec == SimInit /\ [][SimNext]_simVars

-----------------------------------------------------------------------------

SimTypeOK ==
    /\ simActive \in Missions \cup {NoMission}
    /\ simFlown \subseteq Missions
    /\ simFormation \in BOOLEAN
    /\ override \in Commands \cup {"none"}
    /\ sim \in [SimCrew -> [status : SimStatuses, index : 0 .. Waypoints]]

=============================================================================
