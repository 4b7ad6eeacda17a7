------------------------------ MODULE SwarmFlight ------------------------------
(***************************************************************************)
(* A scenario flown: the ground station (MissionSupervisor and the          *)
(* aggregator), every drone's software (DroneController) and every vehicle, *)
(* in the loop of scenarios/harness.py, with the wiring of scenarios/sut.py *)
(* and the vehicles of scenarios/sim.py.                                   *)
(*                                                                          *)
(* The loop has a fixed order.  In each step the scenario's events happen, *)
(* the ground station hears what was said in the last step and decides,     *)
(* every drone hears it, ticks and acts on its autopilot, what was said is *)
(* delivered or lost for ever, and the vehicles move.  A step is a second   *)
(* here, a tenth of one in the code: what is repeated every second        *)
(* (progress, reallocation, requests to the autopilot) is so in every step. *)
(*                                                                          *)
(* A vehicle's position is the waypoint it is at, if any, and whether it    *)
(* is up.  A leg of a route, a climb and a descent take whole steps.        *)
(***************************************************************************)
EXTENDS MissionSupervisor, Sequences

CONSTANTS
    Place,            \* [Drones -> Seq]: Place[lane][i] is waypoint i of a lane
    Legs,             \* [Drones -> Nat]: the steps each vehicle takes for a leg
    WarmupTicks,      \* setpoints streamed before OFFBOARD is asked for
    CommsTimeout,     \* steps a follower waits for a silent leader
    OffboardTimeout,  \* steps PX4 flies on an old setpoint
    LandDisarm,       \* steps on the ground after which PX4 disarms
    PreflightDisarm,  \* steps after which it disarms if it never took off
    Happenings,       \* the events a scenario may have
    MaxHappenings     \* bound: the events of one scenario

AllWaypoints == UNION {Range(Place[lane]) : lane \in Drones}

DC == INSTANCE DroneController WITH
        Waypoints <- AllWaypoints, Leaders <- Drones, Ids <- MissionIds

NoLeader == 0

Charges == {"ok", "low", "flat"}

\* The events a scenario may be made of (spec.py).
ScenarioEvents ==
    [kind : {"mission"}, mission : Missions]
    \cup [kind : {"command"}, command : COMMANDS]
    \cup [kind : {"battery"}, drone : Drones, charge : Charges]
    \cup [kind : {"comms_loss"}, drones : SUBSET Drones, duration : Nat]

\* The routes an injected planner returns are whole lanes, or empty.  PX4 disarms
\* late enough for a drone that landed to be called back: its software streams
\* setpoints first, and one armed to follow is not disarmed before one that landed.
ASSUME FlightAssumption ==
    /\ Happenings \subseteq ScenarioEvents
    /\ DC!None \notin MissionIds
    /\ DOMAIN Place = Drones
    /\ \A lane \in Drones : DOMAIN Place[lane] = 1 .. NumWaypoints
    /\ \A p \in PlannerPlans : \A d \in DOMAIN p.paths : p.paths[d].left \in {0, NumWaypoints}
    /\ Legs \in [Drones -> Nat \ {0}]
    /\ CommsTimeout \in Nat /\ OffboardTimeout \in Nat
    /\ LandDisarm > WarmupTicks + 1
    /\ PreflightDisarm > LandDisarm
    /\ MaxHappenings \in Nat

VARIABLES
    turn,      \* whose turn it is: the scenario's, the ground station's, the drones'
    happened,  \* how many events there were
    used,      \* the mission ids dispatched
    cutFor,    \* [Drones -> Nat]: for how many steps each is cut off
    pending,   \* [Drones -> Seq(Orders)]: what the ground station has still to send
    inbox,     \* [Drones -> Seq(Orders)]: what arrived for each drone
    spoken,    \* [Drones -> record]: what each drone said in the last step
    lost,      \* the drones that were cut off then
    readings,  \* [Drones -> record]: what the aggregator heard last
    software,  \* [Drones -> record]: each drone's software
    vehicles,  \* [Drones -> record]: each drone's vehicle
    flown,     \* history: the waypoints of each lane flown for this mission
    lowFor,    \* history: the frames in a row a drone that can be heard is seen on
               \* its task with a low battery, no order to it being astray
    missed     \* history: the drones that never got the last order sent to them

supervisorVars == vars
radio == <<cutFor, pending, inbox, spoken, lost>>
history == <<flown, lowFor, missed>>
flightVars == <<supervisorVars, turn, happened, used, radio, readings, software, vehicles, history>>

-----------------------------------------------------------------------------
(* The beginning. *)

NoSetpoint == [at |-> DC!None, up |-> FALSE]
NotGrounded == -1

NewVehicle ==
    [armed |-> FALSE, mode |-> DC!LOITER, up |-> FALSE, place |-> DC!Elsewhere, leg |-> 0,
     setpoint |-> NoSetpoint, age |-> OffboardTimeout + 1, climbing |-> TRUE,
     tookOff |-> FALSE, armedFor |-> 0, grounded |-> NotGrounded, charge |-> "ok"]

NewSoftware ==
    [ctl |-> DC!NewController, leader |-> NoLeader, leaderUp |-> "unknown", heard |-> 0]

Unheard == [mission |-> DC!None, complete |-> FALSE, disarmed |-> FALSE]
Silence == [up |-> FALSE, armed |-> FALSE, charge |-> "ok",
            mission |-> DC!None, index |-> 0, complete |-> FALSE]

FlightInit ==
    /\ Init
    /\ turn = "events" /\ happened = 0 /\ used = {}
    /\ cutFor = [d \in Drones |-> 0]
    /\ pending = [d \in Drones |-> <<>>]
    /\ inbox = [d \in Drones |-> <<>>]
    /\ spoken = [d \in Drones |-> Silence]
    /\ lost = Drones
    /\ readings = [d \in Drones |-> Unheard]
    /\ software = [d \in Drones |-> NewSoftware]
    /\ vehicles = [d \in Drones |-> NewVehicle]
    /\ flown = [lane \in Drones |-> 0]
    /\ lowFor = [d \in Drones |-> 0]
    /\ missed = {}

CutOff == {d \in Drones : cutFor[d] > 0}

-----------------------------------------------------------------------------
(* The scenario's events. *)

\* What the supervisor just decided to tell the drones named goes out in its step.
Queue(drones) ==
    pending' = [d \in Drones |-> IF d \in drones THEN Append(pending[d], order'[d])
                                 ELSE pending[d]]

\* Too few drones are fit, or the planner's plan cannot be flown.
Rejected(m) ==
    \/ Cardinality(Eligible) < m.count
    \/ \E p \in PlannerPlans : ~Usable(p, m)

SubmitMission(e) ==
    /\ e.kind = "mission"
    /\ e.mission.id \notin used
    /\ used' = used \cup {e.mission.id}
    /\ \/ /\ Start(e.mission)
          /\ Queue(MissionDrones \cup MissionDrones')
          /\ flown' = [lane \in Drones |-> 0]
       \/ /\ Rejected(e.mission)
          /\ UNCHANGED <<supervisorVars, pending, flown>>
    /\ UNCHANGED <<cutFor, vehicles>>

SubmitCommand(e) ==
    /\ e.kind = "command"
    /\ SwarmCommand(e.command)
    /\ Queue(Drones)
    /\ UNCHANGED <<used, cutFor, flown, vehicles>>

BatteryReads(e) ==
    /\ e.kind = "battery"
    /\ vehicles' = [vehicles EXCEPT ![e.drone].charge = e.charge]
    /\ UNCHANGED <<supervisorVars, used, cutFor, pending, flown>>

CommsLost(e) ==
    /\ e.kind = "comms_loss"
    /\ cutFor' = [d \in Drones |-> IF d \in e.drones /\ cutFor[d] < e.duration
                                   THEN e.duration ELSE cutFor[d]]
    /\ UNCHANGED <<supervisorVars, used, pending, flown, vehicles>>

Happens(e) ==
    /\ turn = "events"
    /\ happened < MaxHappenings
    /\ happened' = happened + 1
    /\ SubmitMission(e) \/ SubmitCommand(e) \/ BatteryReads(e) \/ CommsLost(e)
    /\ UNCHANGED <<turn, inbox, spoken, lost, readings, software, lowFor, missed>>

-----------------------------------------------------------------------------
(* The ground station. *)

Reported(d) == [index |-> spoken[d].index, complete |-> spoken[d].complete]
Seen(d) == [mission |-> spoken[d].mission, complete |-> spoken[d].complete,
            disarmed |-> ~spoken[d].armed]

\* Mutant of Counts: progress of any mission counts for the present one.
CountsOfAny(d) == mission # NoMission

\* Progress made for another mission is not progress of the present one.
Counts(d) == mission # NoMission /\ spoken[d].mission = mission

\* Telemetry and progress of the last step, of every drone that was heard.
GroundHears ==
    /\ turn = "events"
    /\ turn' = IF mission = NoMission THEN "drones" ELSE "ground"
    /\ battery' = [d \in Drones |-> IF d \in lost THEN battery[d]
                                    ELSE IF spoken[d].charge = "ok" THEN "ok" ELSE "low"]
    /\ progress' = [d \in Drones |-> IF d \in lost \/ ~Counts(d) THEN progress[d] ELSE Reported(d)]
    /\ readings' = [d \in Drones |-> IF d \in lost THEN readings[d] ELSE Seen(d)]
    /\ UNCHANGED <<mission, paths, followers, retired, dropped, pass, active, order, happened,
                   used, radio, software, vehicles, history>>

\* The drones that are told something when d is visited in a pass.
Told(d) ==
    IF ~MustGoHome(d) THEN {}
    ELSE {d} \cup IF Idle = {} THEN {}
                  ELSE {First(Idle)} \cup IF d \in DOMAIN paths THEN FollowersOf(d) ELSE {}

\* The supervisor's pass, once in every step.
GroundDecides ==
    /\ turn = "ground"
    /\ \/ BeginPass /\ UNCHANGED <<turn, pending>>
       \/ \E d \in scan : Visit(d) /\ Queue(Told(d)) /\ UNCHANGED turn
       \/ EndPass /\ turn' = "drones" /\ UNCHANGED pending
    /\ UNCHANGED <<happened, used, cutFor, inbox, spoken, lost, readings, software, vehicles,
                   history>>

\* What the aggregator reports.
MissionComplete ==
    /\ active.drones # {}
    /\ \A d \in active.drones : /\ readings[d].mission = active.mission
                                /\ readings[d].complete
                                /\ readings[d].disarmed

-----------------------------------------------------------------------------
(* A drone's software. *)

\* Following another leader means to know nothing of it yet.
Follow(s, leader) ==
    IF leader = s.leader THEN s
    ELSE [s EXCEPT !.leader = leader, !.leaderUp = "unknown", !.heard = 0]

RouteOf(r) == [i \in 1 .. r.left |-> Place[r.lane][NumWaypoints - r.left + i]]

\* Mutant of Obey: the deaf drone of scenarios/mutants.py.
ObeyNoCommand(s, o) ==
    CASE o.kind = "assign" ->
             Follow([s EXCEPT !.ctl = DC!AssignPath(@, o.mission, RouteOf(o.route))], NoLeader)
      [] o.kind = "slot" ->
             Follow([s EXCEPT !.ctl = DC!AssignSlot(@, o.mission, o.slot.leader)], o.slot.leader)
      [] o.kind = "command" -> s

Obey(s, o) ==
    CASE o.kind = "assign" ->
             Follow([s EXCEPT !.ctl = DC!AssignPath(@, o.mission, RouteOf(o.route))], NoLeader)
      [] o.kind = "slot" ->
             Follow([s EXCEPT !.ctl = DC!AssignSlot(@, o.mission, o.slot.leader)], o.slot.leader)
      [] o.kind = "command" ->
             Follow([s EXCEPT !.ctl = DC!Command(@, o.command)], NoLeader)

\* Mutant of NewsOf: what the leader finished is not heard.
NewsOfNothing(c, said) == c

NewsOf(c, said) == IF said.complete THEN DC!LeaderFinished(c, said.mission) ELSE c

\* The leader's pose and progress, unless either of the two was cut off.
HearLeader(d, s) ==
    LET said == spoken[s.leader]
    IN  IF s.leader = NoLeader THEN s
        ELSE IF {d, s.leader} \cap lost # {}
        THEN [s EXCEPT !.heard = IF s.leaderUp = "unknown" \/ @ > CommsTimeout THEN @ ELSE @ + 1]
        ELSE [s EXCEPT !.heard = 0, !.leaderUp = IF said.up THEN "up" ELSE "down",
                       !.ctl = NewsOf(@, said)]

\* What arrived is read in order, the ground station's orders first.
Read(s, orders) ==
    LET after[i \in 0 .. Len(orders)] == IF i = 0 THEN s ELSE Obey(after[i - 1], orders[i])
    IN  after[Len(orders)]
Receive(d) == HearLeader(d, Read(software[d], inbox[d]))

\* Received, d's software after its inbox, ticks on what its vehicle shows.
Ticked(v, s) ==
    DC!Tick(s.ctl, v.place, IF v.armed THEN "yes" ELSE "no", v.mode,
            s.leaderUp # "unknown", s.heard > CommsTimeout, TRUE)

-----------------------------------------------------------------------------
(* A vehicle and its autopilot. *)

Fresh(v) == v.age <= OffboardTimeout
Enter(v, mode) == [v EXCEPT !.mode = mode, !.climbing = TRUE, !.leg = 0]

\* A path leads through the air; a slot is as high as the leader.
Streamed(v, s, out) ==
    IF out.setpoint = DC!None
    THEN [v EXCEPT !.age = IF Fresh(v) THEN @ + 1 ELSE @]
    ELSE [v EXCEPT !.setpoint = [at |-> out.setpoint,
                                 up |-> s.ctl.task = "path" \/ s.leaderUp = "up"],
                   !.age = 0]

ModeServed(v, m) ==
    IF m \in {DC!None, v.mode} \/ (m = DC!OFFBOARD /\ ~Fresh(v)) THEN v ELSE Enter(v, m)

ArmServed(v, asked) ==
    IF asked /\ ~v.armed /\ v.mode = DC!OFFBOARD /\ Fresh(v)
    THEN [v EXCEPT !.armed = TRUE, !.tookOff = FALSE, !.armedFor = 0, !.grounded = NotGrounded]
    ELSE v

Actuate(v, s, out) ==
    ArmServed(ModeServed(Streamed(v, s, out), out.request_mode), out.request_arm)

\* A flat battery and a setpoint stream that stopped change the mode.
Failsafe(v) ==
    LET flat == v.up /\ v.charge = "flat" /\ v.mode # DC!LAND
        landing == IF flat THEN Enter(v, DC!LAND) ELSE v
    IN  IF landing.mode = DC!OFFBOARD /\ ~Fresh(landing) THEN Enter(landing, DC!LOITER)
        ELSE landing

Elsewhere(v, up) == [v EXCEPT !.up = up, !.place = DC!Elsewhere]

FlyTo(d, v) ==
    IF ~v.setpoint.up THEN Elsewhere(v, FALSE)
    ELSE IF v.setpoint.at = DC!Elsewhere THEN Elsewhere(v, TRUE)
    ELSE IF v.place = v.setpoint.at THEN v
    ELSE IF v.leg + 1 < Legs[d] THEN [Elsewhere(v, TRUE) EXCEPT !.leg = @ + 1]
    ELSE [v EXCEPT !.up = TRUE, !.place = v.setpoint.at, !.leg = 0]

\* A return to launch climbs first, from the ground too.
Moved(d, v) ==
    CASE v.mode = DC!OFFBOARD /\ v.setpoint # NoSetpoint -> FlyTo(d, v)
      [] v.mode = DC!LAND -> Elsewhere(v, FALSE)
      [] v.mode = DC!RTL -> [Elsewhere(v, v.climbing) EXCEPT !.climbing = FALSE]
      [] OTHER -> v

Disarmed(v) ==
    [v EXCEPT !.armed = FALSE, !.armedFor = 0, !.grounded = NotGrounded,
              !.setpoint = NoSetpoint, !.age = OffboardTimeout + 1]

AutoDisarm(v) ==
    LET w == [v EXCEPT !.tookOff = @ \/ v.up]
    IN  IF w.up THEN [w EXCEPT !.grounded = NotGrounded]
        ELSE IF ~w.tookOff
        THEN IF w.armedFor >= PreflightDisarm THEN Disarmed(w) ELSE [w EXCEPT !.armedFor = @ + 1]
        ELSE IF w.grounded >= LandDisarm THEN Disarmed(w) ELSE [w EXCEPT !.grounded = @ + 1]

VehicleStep(d, v) == IF v.armed THEN AutoDisarm(Moved(d, Failsafe(v))) ELSE v

-----------------------------------------------------------------------------
(* The drones' turn. *)

OnLowTask(v) == v.armed /\ v.mode = DC!OFFBOARD /\ v.charge # "ok"

\* History: a lane is flown further when a drone given the mission is at its next
\* waypoint, be it that it was there already when the order came.
FlownFurther(lane) ==
    /\ flown[lane] < NumWaypoints
    /\ \E d \in Drones : /\ software'[d].ctl.mission = mission
                         /\ vehicles[d].place = Place[lane][flown[lane] + 1]

\* The order in force did not reach the drone, or was revived by a hand-over of
\* its leader's path.
Astray(d) == d \in missed' \/ (d \in dropped /\ IsTask(order[d]))

Remember ==
    /\ flown' = [lane \in Drones |->
                    IF FlownFurther(lane) THEN flown[lane] + 1 ELSE flown[lane]]
    /\ missed' = {d \in Drones : IF pending[d] = <<>> THEN d \in missed ELSE d \in CutOff}
    /\ lowFor' = [d \in Drones |->
                     IF ~OnLowTask(vehicles'[d]) \/ d \in CutOff \/ Astray(d) THEN 0
                     ELSE IF lowFor[d] > 2 THEN lowFor[d] ELSE lowFor[d] + 1]

\* Every drone in turn, then the network, then the vehicles.
DronesFly ==
    /\ turn = "drones"
    /\ \E received \in {[d \in Drones |-> Receive(d)]} :
       \E ticked \in {[d \in Drones |-> Ticked(vehicles[d], received[d])]} :
       \E obeyed \in {[d \in Drones |-> Actuate(vehicles[d], received[d], ticked[d].out)]} :
          /\ software' = [d \in Drones |-> [received[d] EXCEPT !.ctl = ticked[d].ctl]]
          /\ vehicles' = [d \in Drones |-> VehicleStep(d, obeyed[d])]
          /\ spoken' = [d \in Drones |->
                           [up |-> vehicles[d].up, armed |-> vehicles[d].armed,
                            charge |-> vehicles[d].charge,
                            mission |-> ticked[d].ctl.mission, index |-> ticked[d].ctl.index,
                            complete |-> ticked[d].ctl.complete]]
    /\ inbox' = [d \in Drones |-> IF d \in CutOff THEN <<>> ELSE pending[d]]
    /\ pending' = [d \in Drones |-> <<>>]
    /\ lost' = CutOff
    /\ cutFor' = [d \in Drones |-> IF cutFor[d] = 0 THEN 0 ELSE cutFor[d] - 1]
    /\ turn' = "events"
    /\ Remember
    /\ UNCHANGED <<supervisorVars, happened, used, readings>>

Loop == GroundHears \/ GroundDecides \/ DronesFly
FlightNext == (\E e \in Happenings : Happens(e)) \/ Loop

\* The harness runs its loop step after step; no event has to happen.
FlightSpec == FlightInit /\ [][FlightNext]_flightVars /\ WF_flightVars(Loop)

-----------------------------------------------------------------------------
(* Properties. *)

\* "complete must not lie" (supervisor.py:19): however orders, reports and
\* hand-overs crossed and whatever was lost on the way, a mission is reported
\* complete only when every waypoint of every one of its lanes was flown for it,
\* in order, and every drone it counts on that was just heard stands disarmed on
\* the ground.
CompleteIsTrue ==
    MissionComplete =>
        /\ \A d \in DOMAIN paths : flown[paths[d].lane] = NumWaypoints
        /\ turn # "events" =>
               \A d \in active.drones \ lost : ~vehicles[d].armed /\ ~vehicles[d].up

\* "Every drone assigned to mission_id finished its part and is back on the ground"
\* (swarm_state.py:43), also one that has not been heard for a while.
CompleteMeansLanded ==
    MissionComplete => \A d \in active.drones : ~vehicles[d].up

\* A drone that can be heard leaves its task two steps after its battery is low,
\* whoever it leads or follows and whatever was handed over before, unless an
\* earlier order went astray (low_battery_handover.yaml:25, within 3 s).
LowDronesLeaveTheirTask == \A d \in Drones : lowFor[d] <= 2

\* What may keep a mission from being completed: a task of it was dropped, an order
\* was lost, a follower lost its leader for too long, a battery ran flat.
Spoilt ==
    \/ dropped # {} \/ missed \cap MissionDrones # {}
    \/ \E d \in MissionDrones : software[d].ctl.handover = DC!RTL
    \/ \E d \in Drones : vehicles[d].charge = "flat"

\* A mission is flown to its end and reported complete, through every hand-over
\* and every loss of contact short enough, unless it is replaced or spoilt: at all
\* times the mission in progress, if any, is still going to be complete.
MissionsAreFlown == []<>(mission = NoMission \/ MissionComplete \/ Spoilt)

\* Whom a drone follows, whom that one follows, and so on.
Chain(d) ==
    LET upTo[n \in 0 .. NumDrones] ==
            [e \in Drones |-> {e} \cup IF n = 0 \/ software[e].leader = NoLeader THEN {}
                                       ELSE upTo[n - 1][software[e].leader]]
    IN  upTo[NumDrones][d]
Endless(d) == \A e \in Chain(d) : software[e].leader # NoLeader
Holding(d) == \E e \in Chain(d) : software[e].ctl.handover = DC!LOITER

\* Sent home with a flat battery: the autopilot lands it where it is, and the
\* software asks for the way home again before the vehicle is disarmed, for ever.
Hopping(d) == \E e \in Chain(d) : /\ software[e].ctl.handover = DC!RTL
                                 /\ vehicles[e].charge = "flat"

\* What goes up comes down (drone_controller.py:5, "landing where a path ends, or
\* where the leader lands"): however orders are lost and leaders replaced, once the
\* events of the scenario are over every drone comes down for good, unless it was
\* told to hold, or was sent home with a flat battery, or follows one of these, or
\* follows a drone that follows it.
EveryFlightEnds ==
    <>[](\A d \in Drones : ~vehicles[d].up \/ Endless(d) \/ Holding(d) \/ Hopping(d))
=============================================================================
