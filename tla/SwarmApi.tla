------------------------------- MODULE SwarmApi -------------------------------
(***************************************************************************)
(* The API process and the swarm behind it: requests that dispatch, abort, *)
(* land, read and store scenario runs, in one of the deployments of the    *)
(* repository, with the steps of the parts in any order.                   *)
(*                                                                          *)
(* MissionService's bridge is RosBridgeConnection with the dispatcher and  *)
(* the aggregator at the other end, or SimulatedSwarm; ScenarioRunStore is *)
(* beside it.  Every step here is a step of one or more of the parts and   *)
(* leaves the others as they are.                                          *)
(***************************************************************************)
EXTENDS RosBridgeConnection, MissionService, SwarmStateAggregator, SimulatedSwarm,
        ScenarioRunStore

CONSTANT Deployments \* bridge and store, with bounds on what may happen there

ASSUME DeploymentAssumption ==
    Deployments \subseteq [bridge : {"RosBridge", "Simulated"}, store : {"File", "InMemory"},
                           ros : BOOLEAN, crew : [Missions -> SUBSET Drones],
                           writes : Nat, runs : Nat, restarts : Nat, drops : Nat]

VARIABLES
    deployment, \* the configuration, fixed at start
    begun,      \* writes begun
    restarts,   \* times the process ended
    doubt       \* history: may the API believe something else than the swarm, see below?

apiVars == <<deployment, begun, restarts, doubt>>
vars == <<connectionVars, serviceVars, swarmVars, simVars, storeVars, apiVars>>

\* AddSwarmBridge, AddScenarioRunStore.
Init ==
    /\ deployment \in Deployments
    /\ ConnectionInit
    /\ ServiceInit
    /\ SwarmInit(deployment.crew)
    /\ SimInit
    /\ StoreInit(deployment.store)
    /\ begun = 0
    /\ restarts = 0
    /\ doubt = FALSE

ByRosBridge == deployment.bridge = "RosBridge"

\* A write is in progress or on its way through the swarm.
Busy ==
    \/ \E c \in Callers : request[c] # Idle
    \/ missionTopic # <<>>
    \/ commandTopic > 0

-----------------------------------------------------------------------------
(* Requests begin. *)

Free(c) == request[c] = Idle /\ storing[c] = NotStoring

\* One request is like another: the next one takes a place that is free.
Takes(c) == Free(c) /\ c = CHOOSE d \in Callers : Free(d)

\* A write to the swarm: over rosbridge it is published first.  Writes that
\* overlap leave open which of them the swarm obeys last.
BeginWrite(c) ==
    /\ Takes(c)
    /\ begun < deployment.writes
    /\ begun' = begun + 1
    /\ doubt' = (doubt \/ Busy)
    /\ UNCHANGED <<swarmVars, storeVars, deployment, restarts>>

PublishIfAsked(c) ==
    IF ByRosBridge /\ request'[c] # Idle THEN Publish(c) ELSE UNCHANGED connectionVars

\* POST /api/missions, or the dispatch of an approved plan.
CreateMission(c) ==
    /\ BeginWrite(c)
    /\ \E m \in Missions : BeginDispatch(c, m)
    /\ PublishIfAsked(c)
    /\ UNCHANGED simVars

\* POST /api/missions/{id}/abort.
AbortMission(c) ==
    /\ BeginWrite(c)
    /\ \E m \in Missions :
        IF ByRosBridge THEN BeginAbort(c, m, lastState) /\ UNCHANGED simVars
        ELSE SimRead /\ BeginAbort(c, m, SimReport(sim'))
    /\ PublishIfAsked(c)

\* POST /api/swarm/land.
LandAll(c) ==
    /\ BeginWrite(c)
    /\ BeginLandAll(c)
    /\ PublishIfAsked(c)
    /\ UNCHANGED simVars

\* POST /api/scenario-runs.
IngestRun(c) ==
    /\ Takes(c)
    /\ received < deployment.runs
    /\ Ingest(c)
    /\ UNCHANGED <<connectionVars, serviceVars, swarmVars, simVars, apiVars>>

\* GET /api/swarm/state, or of a mission that is active.
GetState ==
    /\ IF ByRosBridge THEN ReadState(lastState) /\ UNCHANGED simVars
       ELSE SimRead /\ ReadState(SimReport(sim'))
    /\ UNCHANGED <<connectionVars, swarmVars, storeVars, apiVars>>

-----------------------------------------------------------------------------
(* The bridge answers. *)

\* The message of the request c is on its topic, MissionPayload or CommandPayload.
Delivered(c) ==
    /\ IF request[c].op = "dispatch"
       THEN missionTopic' = Append(missionTopic, request[c].mission) /\ UNCHANGED commandTopic
       ELSE commandTopic' = commandTopic + 1 /\ UNCHANGED missionTopic
    /\ UNCHANGED <<crew, active, flight, readings, heard, finished>>

SendDelivers(c) ==
    /\ SendSucceeds(c)
    /\ wire[using] = "open"
    /\ Delivered(c)
    /\ UNCHANGED <<serviceVars, simVars, storeVars, apiVars>>

\* Handed to a connection whose other end is gone: nobody will tell.
SendIsLost(c) ==
    /\ SendSucceeds(c)
    /\ wire[using] = "dead"
    /\ doubt' = TRUE
    /\ UNCHANGED <<serviceVars, swarmVars, simVars, storeVars, deployment, begun, restarts>>

\* The message may have left all the same.
SendFailsInDoubt(c) ==
    /\ SendFails(c)
    /\ drops' <= deployment.drops
    /\ UNCHANGED swarmVars \/ (wire[using] = "open" /\ Delivered(c))
    /\ doubt' = TRUE
    /\ UNCHANGED <<serviceVars, simVars, storeVars, deployment, begun, restarts>>

ByConnection(A) ==
    /\ ByRosBridge
    /\ A
    /\ UNCHANGED <<serviceVars, swarmVars, simVars, storeVars, apiVars>>

Sending(c) ==
    \/ ByConnection(Refuse(c) \/ StartSend(c))
    \/ SendDelivers(c)
    \/ SendIsLost(c)
    \/ SendFailsInDoubt(c)

Answered(c) ==
    /\ ByRosBridge
    /\ Return(c)
    /\ IF publish[c] = "sent" THEN BridgeAccepts(c) ELSE BridgeRefuses(c)
    /\ UNCHANGED <<swarmVars, simVars, storeVars, apiVars>>

Simulated(c) ==
    /\ ~ByRosBridge
    /\ BridgeAccepts(c)
    /\ CASE request[c].op = "dispatch" -> SimDispatch(request[c].mission)
         [] request[c].op = "abort" -> \E command \in Commands : SimCommand(command)
         [] request[c].op = "land" -> SimCommand("Land")
    /\ UNCHANGED <<connectionVars, swarmVars, storeVars, apiVars>>

Logging(c) ==
    /\ EndPrevious(c) \/ AddToLog(c) \/ EndAborted(c) \/ EndLanded(c)
    /\ UNCHANGED <<connectionVars, swarmVars, simVars, storeVars, apiVars>>

Storing(c) ==
    /\ StoreStep(c)
    /\ UNCHANGED <<connectionVars, serviceVars, swarmVars, simVars, apiVars>>

-----------------------------------------------------------------------------
(* The connection and the swarm go on by themselves. *)

LoopGoesOn ==
    ByConnection((\E s \in Sockets : Connect(s)) \/ ReceiveEnds \/ TakeOutOfService \/ Dispose)

InService == ByConnection(Install)

\* What may go wrong with a connection at any time.
ConnectionFails ==
    ByConnection(GreetingFails \/ (PeerGoesAway /\ drops' <= deployment.drops))

\* _publish_state and HandleMessage: a message that comes later is one of earlier
\* readings.
PublishState == deployment.ros /\ ByConnection(ReceiveState(StateMessage))

\* The dispatcher, the aggregator and the drones may not be running.
BySwarm(A) ==
    /\ ByRosBridge /\ deployment.ros
    /\ A
    /\ UNCHANGED <<connectionVars, serviceVars, simVars, storeVars, apiVars>>

SwarmFlies ==
    BySwarm(OnMission \/ OnCommand \/ \E d \in Drones : FinishPart(d) \/ TouchDown(d))

Hears == BySwarm(OnActiveMission \/ \E d \in Drones : OnProgress(d) \/ OnState(d))

\* The API is not told that the swarm rejected its mission.
SwarmRejects ==
    /\ ByRosBridge /\ deployment.ros
    /\ OnMissionRejected
    /\ doubt' = TRUE
    /\ UNCHANGED <<connectionVars, serviceVars, simVars, storeVars, deployment, begun, restarts>>

\* The process ends, whatever it was doing, and starts again.
Restart ==
    /\ restarts < deployment.restarts
    /\ restarts' = restarts + 1
    /\ doubt' = TRUE
    /\ ConnectionRestarts
    /\ ServiceRestarts
    /\ SimRestarts
    /\ StoreRestarts
    /\ UNCHANGED <<swarmVars, deployment, begun>>

CallerStep(c) == Sending(c) \/ Answered(c) \/ Simulated(c) \/ Logging(c) \/ Storing(c)

Next ==
    \/ \E c \in Callers :
        \/ CreateMission(c)
        \/ AbortMission(c)
        \/ LandAll(c)
        \/ IngestRun(c)
        \/ ByConnection(Cancel(c))
        \/ CallerStep(c)
    \/ GetState
    \/ LoopGoesOn
    \/ InService
    \/ ConnectionFails
    \/ PublishState
    \/ SwarmFlies
    \/ Hears
    \/ SwarmRejects
    \/ Restart

-----------------------------------------------------------------------------
(* Fairness: threads and the loop run; an attempt to connect succeeds if     *)
(* there is no end to them; every reading is heard again; somebody reads the *)
(* state.  Nobody has to write, no drone has to finish, nothing has to fail. *)

Fairness ==
    /\ \A c \in Callers : WF_vars(CallerStep(c))
    /\ WF_vars(LoopGoesOn)
    /\ SF_vars(InService)
    /\ WF_vars(PublishState)
    /\ WF_vars(BySwarm(OnActiveMission))
    /\ \A d \in Drones : WF_vars(BySwarm(OnProgress(d))) /\ WF_vars(BySwarm(OnState(d)))
    /\ WF_vars(GetState)

Spec == Init /\ [][Next]_vars /\ Fairness

-----------------------------------------------------------------------------

\* A mission reads as Completed only when every drone that was given a part of
\* it finished that part, however late and lossy the readings are, whatever was
\* aborted, sent again, or forgotten in between (mission_complete and the polls
\* that pick it up; "Active until the swarm reports them done", MissionStatus.cs).
CompletedWasFlown ==
    \A m \in Missions : status[m] = "Completed" =>
        IF ByRosBridge THEN crew[m] \subseteq finished[m] ELSE m \in simFlown

\* The mission the swarm is on.
SwarmMission == IF ByRosBridge THEN active ELSE simActive

\* As long as writes came one after the other and no answer was lost, the log
\* and the swarm agree between them: the swarm's mission is Active or Completed
\* in the log, and no other is Active (DispatchAsync, AbortMissionAsync and
\* LandAllAsync against the dispatcher and the simulated bridge).
SettledLogAgrees ==
    ~doubt /\ ~Busy =>
        /\ ActiveMissions \subseteq {SwarmMission}
        /\ SwarmMission # NoMission => status[SwarmMission] \in {"Active", "Completed"}

\* The swarm is on a mission and every drone of it is back on the ground, its
\* part done.
SwarmIsDone ==
    /\ SwarmMission # NoMission
    /\ IF ByRosBridge
       THEN \A d \in crew[active] : flight[d] = [mission |-> active, phase |-> "landed"]
       ELSE SimReport(sim).complete

\* A mission that the swarm is done with does not stay Active in the log: the
\* readings, the state message, the connection, made again if it was lost, and a
\* read of the state bring the news (_publish_state by way of RunAsync,
\* HandleMessage and GetSwarmStateAsync).
CompletionIsNoticed ==
    []<>(SwarmIsDone => status[SwarmMission] # "Active")

\* Every request comes to its end: no failure leaves the send lock taken, and no
\* wait for it is without end (PublishAsync and ReleaseSocketAsync).
EveryRequestEnds == \A c \in Callers : []<>Free(c)

=============================================================================
