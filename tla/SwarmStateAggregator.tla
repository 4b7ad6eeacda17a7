------------------------- MODULE SwarmStateAggregator -------------------------
(***************************************************************************)
(* What the swarm tells the API, and how far it lags behind what the swarm *)
(* does: swarm_state_aggregator_node.py and swarm_state.py, fed by          *)
(* mission_dispatcher_node.py and the drones.                               *)
(*                                                                          *)
(* Missions and commands come in on two topics; each keeps its order, but a*)
(* command may be handled before a mission that was sent earlier.  The     *)
(* dispatcher and the drones are reduced to what the aggregator hears      *)
(* about: which drones fly which mission and how far they are (the         *)
(* supervisor and the drone controller have modules of their own).  What   *)
(* the aggregator hears is late or lost: each reading is a copy of the     *)
(* truth at some earlier moment, and the readings of one drone, the        *)
(* active mission and the drones' readings are of different moments.        *)
(* The drones of a mission stay the same: a hand-over to a spare is left   *)
(* to the supervisor's module.  Positions, battery and modes are left out. *)
(***************************************************************************)
EXTENDS ApiParameters

CONSTANT Drones

VARIABLES
    crew,         \* of each mission: the drones the plan gives it to, fixed
    missionTopic, \* /swarm/mission, on its way to the dispatcher
    commandTopic, \* /swarm/command: how many are on their way
    active,       \* the dispatcher's mission, latched on /swarm/active_mission
    flight,       \* of each drone: its task and how far it is
    readings,     \* DroneReadings of each drone
    heard,        \* the aggregator's _mission_id, 0 for none
    finished      \* history, of each mission: the drones that finished their part of it

swarmVars == <<crew, missionTopic, commandTopic, active, flight, readings, heard, finished>>

NoTask == [mission |-> 0, phase |-> "idle"]
Unheard == [mission |-> 0, complete |-> FALSE, onGround |-> FALSE]

SwarmInit(plan) ==
    /\ crew = plan
    /\ missionTopic = <<>>
    /\ commandTopic = 0
    /\ active = 0
    /\ flight = [d \in Drones |-> NoTask]
    /\ readings = [d \in Drones |-> Unheard]
    /\ heard = 0
    /\ finished = [m \in Missions |-> {}]

-----------------------------------------------------------------------------
(* The dispatcher and the drones. *)

\* _on_mission: the supervisor gives the drones their parts, and sends home the
\* drones of the mission before that have none in this one.
OnMission ==
    /\ missionTopic # <<>>
    /\ LET m == Head(missionTopic) IN
        /\ active' = m
        /\ flight' = [d \in Drones |->
                CASE d \in crew[m] -> [mission |-> m, phase |-> "flying"]
                  [] active # 0 /\ d \in crew[active] \ crew[m] -> [flight[d] EXCEPT !.phase = "stopped"]
                  [] OTHER -> flight[d]]
    /\ missionTopic' = Tail(missionTopic)
    /\ UNCHANGED <<crew, commandTopic, readings, heard, finished>>

\* Too few drones are fit to fly it: only logged.
OnMissionRejected ==
    /\ missionTopic # <<>>
    /\ missionTopic' = Tail(missionTopic)
    /\ UNCHANGED <<crew, commandTopic, active, flight, readings, heard, finished>>

\* _on_command: it reaches every drone and ends the mission in progress.
OnCommand ==
    /\ commandTopic > 0
    /\ commandTopic' = commandTopic - 1
    /\ active' = 0
    /\ flight' = [d \in Drones |->
            IF flight[d] = NoTask THEN NoTask ELSE [flight[d] EXCEPT !.phase = "stopped"]]
    /\ UNCHANGED <<crew, missionTopic, readings, heard, finished>>

FinishPart(d) ==
    /\ flight[d].phase = "flying"
    /\ flight' = [flight EXCEPT ![d].phase = "done"]
    /\ finished' = [finished EXCEPT ![flight[d].mission] = @ \cup {d}]
    /\ UNCHANGED <<crew, missionTopic, commandTopic, active, readings, heard>>

TouchDown(d) ==
    /\ flight[d].phase = "done"
    /\ flight' = [flight EXCEPT ![d].phase = "landed"]
    /\ UNCHANGED <<crew, missionTopic, commandTopic, active, readings, heard, finished>>

-----------------------------------------------------------------------------
(* The aggregator. *)

\* Mutant of OnProgress: the mission a report is about is not kept with it.
OnProgressMixed(d) ==
    /\ flight[d].mission # 0
    /\ readings' = [readings EXCEPT ![d].mission = flight[d].mission,
                                    ![d].complete = @ \/ flight[d].phase \in {"done", "landed"}]
    /\ UNCHANGED <<crew, missionTopic, commandTopic, active, flight, heard, finished>>

OnProgress(d) ==
    /\ flight[d].mission # 0
    /\ readings' = [readings EXCEPT ![d].mission = flight[d].mission,
                                    ![d].complete = flight[d].phase \in {"done", "landed"}]
    /\ UNCHANGED <<crew, missionTopic, commandTopic, active, flight, heard, finished>>

\* Before the take-off and after a command it may be either.
OnState(d) ==
    /\ \E disarmed \in CASE flight[d].phase \in {"idle", "landed"} -> {TRUE}
                         [] flight[d].phase = "done" -> {FALSE}
                         [] OTHER -> BOOLEAN :
          readings' = [readings EXCEPT ![d].onGround = disarmed]
    /\ UNCHANGED <<crew, missionTopic, commandTopic, active, flight, heard, finished>>

OnActiveMission ==
    /\ heard' = active
    /\ UNCHANGED <<crew, missionTopic, commandTopic, active, flight, readings, finished>>

\* mission_complete, for the mission heard of.
MissionComplete ==
    /\ crew[heard] # {}
    /\ \A d \in crew[heard] :
        readings[d].mission = heard /\ readings[d].complete /\ readings[d].onGround

\* build_state_message, as far as the active mission goes.
StateMessage ==
    [mission |-> heard, complete |-> heard # 0 /\ MissionComplete]

SwarmNext ==
    \/ OnMission
    \/ OnMissionRejected
    \/ OnCommand
    \/ OnActiveMission
    \/ \E d \in Drones : FinishPart(d) \/ TouchDown(d) \/ OnProgress(d) \/ OnState(d)

-----------------------------------------------------------------------------

SwarmTypeOK ==
    /\ crew \in [Missions -> SUBSET Drones]
    /\ missionTopic \in Seq(Missions)
    /\ commandTopic \in Nat
    /\ active \in Missions \cup {NoMission}
    /\ flight \in [Drones -> [mission : Missions \cup {NoMission},
                              phase : {"idle", "flying", "done", "landed", "stopped"}]]
    /\ readings \in [Drones -> [mission : Missions \cup {NoMission}, complete : BOOLEAN, onGround : BOOLEAN]]
    /\ heard \in Missions \cup {NoMission}
    /\ finished \in [Missions -> SUBSET Drones]

=============================================================================
