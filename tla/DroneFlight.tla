------------------------------ MODULE DroneFlight ------------------------------
(***************************************************************************)
(* One drone: its controller (DroneController), the ROS node that drives it *)
(* (nodes/drone_controller_node.py) and the PX4 autopilot it talks to, as  *)
(* the simulator of the scenario harness models it (scenarios/sim.py).     *)
(*                                                                          *)
(* What makes this hard is that the parts know each other late: the node   *)
(* reads pose and state from topics that lag behind the autopilot, its      *)
(* requests are asynchronous calls that may be refused, lost or served     *)
(* after it changed its mind, PX4 changes mode on its own, and orders and  *)
(* news of the leader arrive at any moment.                                *)
(***************************************************************************)
EXTENDS DroneController, FiniteSets

CONSTANTS
    Orders,         \* what the dispatcher may send: tasks and commands
    PilotModes,     \* the modes a pilot or ground station may switch to
    MaxEvents       \* bound: orders and pilot's switches in one behaviour

\* A route leads somewhere, and each leg of it to another place than the last.
Straight(route) ==
    /\ route # <<>>
    /\ \A i \in 1 .. Len(route) - 1 : route[i] # route[i + 1]

ASSUME FlightAssumption ==
    /\ \A o \in Orders : o.kind = "path" => Straight(o.route)
    /\ Orders \subseteq Tasks \cup [kind : {"command"}, command : Commands]
    /\ PilotModes \subseteq Modes \ {OFFBOARD}
    /\ MaxEvents \in Nat

VARIABLES
    ctl,         \* the controller
    following,   \* node: the leader whose topics are subscribed to
    position,    \* node: the place last read, or None
    armedRead,   \* node: "yes", "no" or None
    modeRead,    \* node: the mode last read, or None
    leaderSeen,  \* node: has a position of that leader arrived?
    silent,      \* node: is it older than comms_timeout_s?
    calls,       \* requests to PX4 under way: modes and "arm"
    armed,       \* vehicle
    mode,        \* vehicle
    flight,      \* vehicle: on the ground since arming, in the air, back down
    place,       \* vehicle: the waypoint it is at, or Elsewhere
    setpoint,    \* vehicle: the last setpoint, or None
    fresh,       \* vehicle: is that setpoint recent enough?
    streaming,   \* did the last tick send a setpoint?
    climbing,    \* vehicle: is a return to launch still in its climb?
    flat,        \* vehicle: is the battery empty?
    given,       \* orders given so far
    piloted,     \* pilot's switches so far
    reached,     \* history: the waypoints of the route the vehicle was at, in order
    landedWith   \* history: the missions the followed leader reported complete

controller == <<ctl, following, position, armedRead, modeRead, leaderSeen, silent>>
vehicle == <<armed, mode, flight, place, setpoint, fresh, climbing, flat>>
bounds == <<given, piloted>>
history == <<reached, landedWith>>
vars == <<controller, calls, vehicle, streaming, bounds, history>>

Init ==
    /\ ctl = NewController
    /\ following = None
    /\ position = None /\ armedRead = None /\ modeRead = None
    /\ leaderSeen = FALSE /\ silent = FALSE
    /\ calls = {}
    /\ armed = FALSE /\ mode = LOITER /\ flight = "ground"
    /\ place = Elsewhere
    /\ setpoint = None /\ fresh = FALSE /\ streaming = FALSE
    /\ climbing = FALSE /\ flat = FALSE
    /\ given = 0 /\ piloted = 0
    /\ reached = 0 /\ landedWith = {}

-----------------------------------------------------------------------------
(* What arrives at the node. *)

\* Listening to another leader means to know nothing of it yet.
Follow(leader) ==
    /\ following' = leader
    /\ leaderSeen' = IF leader = following THEN leaderSeen ELSE FALSE
    /\ silent' = IF leader = following THEN silent ELSE FALSE

\* History: the waypoints of the route reached so far when the vehicle is at p.
Passing(p) ==
    IF /\ ctl.task = "path" /\ reached < Len(ctl.route)
       /\ ctl.route[reached + 1] = p
    THEN reached + 1 ELSE reached

\* How many waypoints of a new route the drone is at already.
AlreadyAt(route) == IF place = route[1] \/ position = route[1] THEN 1 ELSE 0

OnAssignment(o) ==
    /\ o.kind = "path"
    /\ ctl' = AssignPath(ctl, o.mission, o.route)
    /\ Follow(None)
    /\ reached' = AlreadyAt(o.route)
    /\ landedWith' = {}

OnSlot(o) ==
    /\ o.kind = "slot"
    /\ ctl' = AssignSlot(ctl, o.mission, o.leader)
    /\ Follow(o.leader)
    /\ reached' = 0
    /\ landedWith' = {}

OnCommand(o) ==
    /\ o.kind = "command"
    /\ ctl' = Command(ctl, o.command)
    /\ Follow(None)
    /\ UNCHANGED history

Order ==
    /\ given + piloted < MaxEvents
    /\ given' = given + 1
    /\ \E o \in Orders : OnAssignment(o) \/ OnSlot(o) \/ OnCommand(o)
    /\ UNCHANGED <<position, armedRead, modeRead, calls, vehicle, streaming, piloted>>

OnLeaderPose ==
    /\ following # None
    /\ leaderSeen' = TRUE
    /\ silent' = FALSE
    /\ UNCHANGED <<ctl, following, position, armedRead, modeRead, calls, vehicle,
                   streaming, bounds, history>>

\* Nothing was heard of the leader for comms_timeout_s.
LeaderFallsSilent ==
    /\ leaderSeen
    /\ silent' = TRUE
    /\ UNCHANGED <<ctl, following, position, armedRead, modeRead, leaderSeen, calls,
                   vehicle, streaming, bounds, history>>

\* The leader reports a mission complete, this one or an earlier one.
OnLeaderProgress(id) ==
    /\ following # None
    /\ ctl' = LeaderFinished(ctl, id)
    /\ landedWith' = landedWith \cup {id}
    /\ UNCHANGED <<following, position, armedRead, modeRead, leaderSeen, silent, calls,
                   vehicle, streaming, bounds, reached>>

OnLocalPose ==
    /\ position' = place
    /\ reached' = Passing(place)
    /\ UNCHANGED <<ctl, following, armedRead, modeRead, leaderSeen, silent, calls,
                   vehicle, streaming, bounds, landedWith>>

OnState ==
    /\ armedRead' = IF armed THEN "yes" ELSE "no"
    /\ modeRead' = mode
    /\ UNCHANGED <<ctl, following, position, leaderSeen, silent, calls, vehicle,
                   streaming, bounds, history>>

\* The control loop: tick, then publish and ask.  Setpoints reach PX4 at once;
\* mode and arming are asked for in calls nobody waits for.
OnTick(elapsed) ==
    LET r == Tick(ctl, position, armedRead, modeRead, leaderSeen, silent, elapsed)
        asked == {r.out.request_mode} \cup (IF r.out.request_arm THEN {"arm"} ELSE {})
    IN  /\ ctl' = r.ctl
        /\ calls' = calls \cup (asked \ {None})
        /\ streaming' = (r.out.setpoint # None)
        /\ IF r.out.setpoint = None THEN UNCHANGED <<setpoint, fresh>>
           ELSE setpoint' = r.out.setpoint /\ fresh' = TRUE
        /\ UNCHANGED <<following, position, armedRead, modeRead, leaderSeen, silent,
                       armed, mode, flight, place, climbing, flat, bounds, history>>

-----------------------------------------------------------------------------
(* The autopilot. *)

Enter(m) ==
    /\ mode' = m
    /\ climbing' = (m = RTL)

\* A mode change PX4 does not refuse: OFFBOARD needs a recent setpoint.
ServeMode(m) ==
    /\ m \in calls
    /\ calls' = calls \ {m}
    /\ IF m = mode \/ (m = OFFBOARD /\ ~fresh)
       THEN UNCHANGED <<mode, climbing>> ELSE Enter(m)
    /\ UNCHANGED <<controller, armed, flight, place, setpoint, fresh, flat, streaming,
                   bounds, history>>

ServeArm ==
    /\ "arm" \in calls
    /\ calls' = calls \ {"arm"}
    /\ IF ~armed /\ mode = OFFBOARD /\ fresh
       THEN armed' = TRUE /\ flight' = "ground" ELSE UNCHANGED <<armed, flight>>
    /\ UNCHANGED <<controller, mode, place, setpoint, fresh, climbing, flat, streaming,
                   bounds, history>>

\* The service is not up, the call fails or PX4 refuses it.
CallFails(c) ==
    /\ c \in calls
    /\ calls' = calls \ {c}
    /\ UNCHANGED <<controller, vehicle, streaming, bounds, history>>

SetpointsGetOld ==
    /\ fresh /\ ~streaming
    /\ fresh' = FALSE
    /\ UNCHANGED <<controller, calls, armed, mode, flight, place, setpoint, climbing,
                   flat, streaming, bounds, history>>

OffboardLost ==
    /\ armed /\ mode = OFFBOARD /\ ~fresh
    /\ Enter(LOITER)
    /\ UNCHANGED <<controller, calls, armed, flight, place, setpoint, fresh, flat,
                   streaming, bounds, history>>

BatteryRunsFlat ==
    /\ armed /\ flight = "air" /\ ~flat
    /\ flat' = TRUE
    /\ IF mode = LAND THEN UNCHANGED <<mode, climbing>> ELSE Enter(LAND)
    /\ UNCHANGED <<controller, calls, armed, flight, place, setpoint, fresh, streaming,
                   bounds, history>>

FlatBatteryLands ==
    /\ armed /\ flight = "air" /\ flat /\ mode # LAND
    /\ Enter(LAND)
    /\ UNCHANGED <<controller, calls, armed, flight, place, setpoint, fresh, flat,
                   streaming, bounds, history>>

\* A pilot or ground station switches modes behind the drone's back.
PilotSwitches(m) ==
    /\ given + piloted < MaxEvents
    /\ piloted' = piloted + 1
    /\ mode # m
    /\ Enter(m)
    /\ UNCHANGED <<controller, calls, armed, flight, place, setpoint, fresh, flat,
                   streaming, given, history>>

\* The vehicle comes by a place; history remembers the route's next waypoint.
Arrive(p) ==
    /\ place' = p
    /\ reached' = Passing(p)
    /\ UNCHANGED landedWith

\* In OFFBOARD the vehicle flies to the setpoint, by way of nowhere, and stays.
FlyToSetpoint ==
    /\ armed /\ mode = OFFBOARD /\ fresh /\ setpoint # None
    /\ flight' = "air"
    /\ \E p \in {Elsewhere, setpoint} : Arrive(IF place = setpoint THEN place ELSE p)
    /\ UNCHANGED <<controller, calls, armed, mode, setpoint, fresh, climbing, flat,
                   streaming, bounds>>

\* A return to launch climbs first, from the ground too.
ReturnClimbs ==
    /\ armed /\ mode = RTL /\ climbing
    /\ climbing' = FALSE
    /\ flight' = "air"
    /\ Arrive(Elsewhere)
    /\ UNCHANGED <<controller, calls, armed, mode, setpoint, fresh, flat, streaming, bounds>>

TouchDown ==
    /\ armed /\ flight = "air"
    /\ mode = LAND \/ (mode = RTL /\ ~climbing)
    /\ flight' = "landed"
    /\ Arrive(Elsewhere)
    /\ UNCHANGED <<controller, calls, armed, mode, setpoint, fresh, climbing, flat,
                   streaming, bounds>>

\* PX4 disarms after a landing, and when nothing took off for a while.
AutoDisarm ==
    /\ armed /\ flight \in {"ground", "landed"}
    /\ armed' = FALSE
    /\ setpoint' = None
    /\ fresh' = FALSE
    /\ UNCHANGED <<controller, calls, mode, flight, place, climbing, flat, streaming,
                   bounds, history>>

-----------------------------------------------------------------------------
Node ==
    \/ OnLocalPose
    \/ OnState
    \/ \E elapsed \in BOOLEAN : OnTick(elapsed)

Leader ==
    \/ OnLeaderPose
    \/ LeaderFallsSilent
    \/ \E id \in Ids : OnLeaderProgress(id)

Autopilot ==
    \/ \E m \in Modes : ServeMode(m)
    \/ ServeArm
    \/ \E c \in calls : CallFails(c)
    \/ SetpointsGetOld
    \/ OffboardLost
    \/ BatteryRunsFlat
    \/ FlatBatteryLands
    \/ \E m \in PilotModes : PilotSwitches(m)
    \/ FlyToSetpoint
    \/ ReturnClimbs
    \/ TouchDown
    \/ AutoDisarm

Next == Order \/ Leader \/ Node \/ Autopilot

Spec == Init /\ [][Next]_vars

Serve == ServeArm \/ \E m \in Modes : ServeMode(m)
Physics == SetpointsGetOld \/ OffboardLost \/ FlatBatteryLands \/ ReturnClimbs \/ TouchDown

\* The node's timer and PX4's telemetry run faster than the autopilot's time-outs
\* and requests that are made again and again are served in the end; nothing
\* obliges an order, the leader or the pilot to come.
FairSpec ==
    /\ Spec
    /\ SF_vars(OnTick(TRUE)) /\ SF_vars(OnState) /\ WF_vars(OnLocalPose)
    /\ SF_vars(Serve)
    /\ WF_vars(Physics)
    /\ SF_vars(FlyToSetpoint /\ place' = setpoint)

-----------------------------------------------------------------------------
(* Properties. *)

TypeOK ==
    /\ ctl \in Controllers
    /\ following \in Leaders \cup {None}
    /\ position \in Places \cup {None}
    /\ armedRead \in {"yes", "no", None}
    /\ modeRead \in Modes \cup {None}
    /\ leaderSeen \in BOOLEAN /\ silent \in BOOLEAN
    /\ calls \subseteq Modes \cup {"arm"}
    /\ armed \in BOOLEAN
    /\ mode \in Modes
    /\ flight \in {"ground", "air", "landed"}
    /\ place \in Places
    /\ setpoint \in Places \cup {None}
    /\ fresh \in BOOLEAN /\ streaming \in BOOLEAN /\ climbing \in BOOLEAN /\ flat \in BOOLEAN
    /\ given \in 0 .. MaxEvents
    /\ piloted \in 0 .. MaxEvents
    /\ reached \in Nat
    /\ landedWith \subseteq Ids

\* However late the readings, a drone counts a waypoint only when it has been at
\* it after the ones before it, and it reports its part of a mission complete
\* only when it has been at all of them or, following, when the leader it
\* follows has reported that mission complete since the drone was told to
\* follow (waypoints.py, advance; drone_controller.py, leader_finished).
CompleteMeansDone ==
    /\ ctl.task = "path" => ctl.index <= reached
    /\ ctl.complete => IF ctl.task = "path" THEN reached = Len(ctl.route)
                       ELSE ctl.mission \in landedWith

\* A hand-over, a swarm command's or a lost leader's, is final until the next
\* order: neither the leader coming back or finishing nor PX4's reports make
\* the drone take the task up again or report it complete
\* (drone_controller.py:15, 113).
HandoverIsFinal ==
    [][ctl.handover # None /\ given' = given =>
        ctl'.handover = ctl.handover /\ ctl'.complete = ctl.complete]_vars

\* Once it had control, a drone never asks for OFFBOARD or arming again in the
\* same task, whoever took control away: a pilot is not overruled and a vehicle
\* that landed does not take off again (offboard.py:7).
NeverDraggedBack ==
    [][ctl.phase \in {"active", "released"} /\ given' = given =>
        {OFFBOARD, "arm"} \cap (calls' \ calls) = {}]_vars

\* A hand-over prevails: whatever requests were under way when it was decided,
\* and whatever was refused, lost or switched since, PX4 ends up and stays in
\* the mode handed over to, unless it disarms or its battery is flat.
HandoverPrevails ==
    \A m \in {LAND, RTL} :
        <>[](ctl.handover = m /\ ~flat) => <>[](mode = m \/ ~armed)

\* Control was taken from the drone, it never left the ground, or it cannot fly.
Interrupted == ctl.phase = "released" \/ (ctl.phase = "active" /\ ~armed) \/ flat

\* A path is flown to its end though requests are refused and readings lag,
\* unless another order comes or control is taken away.
PathIsFlown ==
    \A n \in 1 .. MaxEvents :
        (given = n /\ ctl.task = "path" /\ ctl.handover = None)
            ~> (ctl.complete \/ given # n \/ Interrupted)

\* "PX4 left OFFBOARD on its own (failsafe, pilot): not ours to fight"
\* (drone_controller.py:139): once it has let go without handing over, a drone
\* asks PX4 for nothing until the next order.
NotOursToFight ==
    [][ctl.phase = "released" /\ ctl.handover = None /\ given' = given =>
        calls' \subseteq calls]_vars
=============================================================================
