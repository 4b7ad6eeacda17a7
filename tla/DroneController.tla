---------------------------- MODULE DroneController ----------------------------
(***************************************************************************)
(* What one drone decides: swarm_coordination/drone_controller.py, with the *)
(* offboard sequencer (offboard.py), the waypoint queue (waypoints.py) and *)
(* the command table (commands.py) it is made of.  The code calls it a pure *)
(* state machine that the ROS node only drives, and so it is here: a       *)
(* controller is a record, and each of its methods an operator from        *)
(* controllers to controllers.  The modules that drive it EXTEND this one. *)
(*                                                                          *)
(* Space is told apart by place: a waypoint is a place, a position reading *)
(* names the place the drone is at, and "within tolerance" is equality.    *)
(* Time is told apart by two questions the caller answers: has the retry   *)
(* interval passed since the last request, has the leader been silent for *)
(* longer than comms_timeout_s.                                            *)
(***************************************************************************)
EXTENDS Integers, Sequences

CONSTANTS
    WarmupTicks,  \* setpoints streamed before OFFBOARD is asked for
    Waypoints,    \* the places a route may lead to
    Leaders,      \* the drones a slot may name
    Ids           \* mission ids

ASSUME ControllerAssumption ==
    /\ WarmupTicks \in Nat \ {0}
    /\ "elsewhere" \notin Waypoints
    /\ "none" \notin Leaders \cup Ids

None == "none"
Elsewhere == "elsewhere"
Places == Waypoints \cup {Elsewhere}

\* PX4's modes, and the one that implements each swarm command.
OFFBOARD == "OFFBOARD"
LAND == "AUTO.LAND"
RTL == "AUTO.RTL"
LOITER == "AUTO.LOITER"
Modes == {OFFBOARD, LAND, RTL, LOITER}

mode_for_command == [rtl |-> RTL, land |-> LAND, hold |-> LOITER]
Commands == DOMAIN mode_for_command

Phases == {"idle", "warmup", "request_mode", "request_arm", "active", "released"}

Tasks == [kind : {"path"}, mission : Ids, route : Seq(Waypoints)]
         \cup [kind : {"slot"}, mission : Ids, leader : Leaders]

Controllers ==
    [mission : Ids \cup {None}, task : {None, "path", "slot"},
     route : Seq(Waypoints), index : Nat, leader : Leaders \cup {None},
     leaderDone : BOOLEAN, complete : BOOLEAN,
     phase : Phases, streamed : Nat, asked : BOOLEAN,
     handover : (Modes \ {OFFBOARD}) \cup {None}, handoverAsked : BOOLEAN]

NewController ==
    [mission |-> None, task |-> None, route |-> <<>>, index |-> 0, leader |-> None,
     leaderDone |-> FALSE, complete |-> FALSE,
     phase |-> "idle", streamed |-> 0, asked |-> FALSE,
     handover |-> None, handoverAsked |-> FALSE]

-----------------------------------------------------------------------------
(* Inputs. *)

\* A new task: everything of the last one is forgotten and offboard control is
\* sought from the start.  What was last asked of PX4 to hand over is kept.
Begin(c, id) ==
    [c EXCEPT !.mission = id, !.task = None, !.route = <<>>, !.index = 0,
              !.leader = None, !.leaderDone = FALSE, !.handover = None,
              !.complete = FALSE, !.phase = "warmup", !.streamed = 0, !.asked = FALSE]

AssignPath(c, id, route) == [Begin(c, id) EXCEPT !.task = "path", !.route = route]

AssignSlot(c, id, leader) == [Begin(c, id) EXCEPT !.task = "slot", !.leader = leader]

\* Mutant of LeaderFinished: whichever mission the leader completed.
LeaderFinishedAny(c, id) ==
    IF c.task = "slot" THEN [c EXCEPT !.leaderDone = TRUE] ELSE c

\* The leader completed its path for mission id: a follower lands with it.
LeaderFinished(c, id) ==
    IF id = c.mission /\ c.task = "slot" THEN [c EXCEPT !.leaderDone = TRUE] ELSE c

Handover(c, px4mode) ==
    [c EXCEPT !.phase = "released", !.handover = px4mode, !.handoverAsked = FALSE]

Command(c, command) ==
    [Handover(c, mode_for_command[command]) EXCEPT !.complete = FALSE]

-----------------------------------------------------------------------------
(* The control loop.  A tick returns the controller and what the node is to *)
(* do: the place to stream as the setpoint, the mode and the arming to ask *)
(* PX4 for (None, FALSE: nothing).                                         *)

Output(setpoint, mode, arm) ==
    [setpoint |-> setpoint, request_mode |-> mode, request_arm |-> arm]
Quiet == Output(None, None, FALSE)
Result(c, out) == [ctl |-> c, out |-> out]

\* Mutant of StepOffboard: a mode change of PX4's own is answered by asking again.
StepOffboardDragsBack(c, armed, mode, elapsed, target) ==
    LET due == ~c.asked \/ elapsed
    IN  CASE c.phase \in {"idle", "released"} -> Result(c, Quiet)
          [] c.phase = "warmup" ->
                 Result([c EXCEPT !.streamed = WarmupTicks, !.phase = "request_mode"],
                        Output(target, None, FALSE))
          [] c.phase \notin {"idle", "released", "warmup"} /\ mode # OFFBOARD ->
                 Result([c EXCEPT !.asked = TRUE],
                        Output(target, IF due THEN OFFBOARD ELSE None, FALSE))
          [] OTHER -> Result([c EXCEPT !.phase = IF armed = "yes" THEN "active" ELSE @],
                             Output(target, None, armed # "yes"))

\* Mutant of StepOffboard: nothing is ever asked for twice.
StepOffboardAsksOnce(c, armed, mode, elapsed, target) ==
    CASE c.phase \in {"idle", "released"} -> Result(c, Quiet)
      [] c.phase = "warmup" ->
             Result([c EXCEPT !.streamed = WarmupTicks, !.phase = "request_mode"],
                    Output(target, None, FALSE))
      [] c.phase = "request_mode" /\ mode # OFFBOARD ->
             Result([c EXCEPT !.asked = TRUE],
                    Output(target, IF c.asked THEN None ELSE OFFBOARD, FALSE))
      [] OTHER -> Result([c EXCEPT !.phase = IF armed = "yes" THEN "active" ELSE @],
                         Output(target, None, armed # "yes"))

\* Stream setpoints, then ask for OFFBOARD, then for arming, each again after
\* the retry interval until the reported state says it happened; let go once
\* PX4 leaves OFFBOARD on its own.
StepOffboard(c, armed, mode, elapsed, target) ==
    LET stream == Output(target, None, FALSE)
        \* OFFBOARD seen: the next request is for arming, and the first is due.
        seen == IF c.phase = "request_mode" /\ mode = OFFBOARD
                THEN [c EXCEPT !.phase = "request_arm", !.asked = FALSE] ELSE c
        due == ~seen.asked \/ elapsed
    IN  CASE c.phase \in {"idle", "released"} -> Result(c, Quiet)
          [] c.phase = "warmup" ->
                 Result([c EXCEPT !.streamed = @ + 1,
                                  !.phase = IF c.streamed + 1 >= WarmupTicks
                                            THEN "request_mode" ELSE "warmup"], stream)
          [] seen.phase \in {"request_mode", "request_arm"} /\ mode # OFFBOARD ->
                 Result([seen EXCEPT !.phase = "request_mode", !.asked = TRUE],
                        Output(target, IF due THEN OFFBOARD ELSE None, FALSE))
          [] seen.phase = "request_arm" /\ armed # "yes" ->
                 Result([seen EXCEPT !.asked = TRUE], Output(target, None, due))
          [] seen.phase = "active" /\ mode \notin {OFFBOARD, None} ->
                 Result([seen EXCEPT !.phase = "released"], Quiet)
          [] OTHER -> Result([seen EXCEPT !.phase = "active"], stream)

\* Mutant of KeepHandingOver: one request is trusted to be enough.
KeepHandingOverOnce(c, armed, mode, elapsed) ==
    IF c.handoverAsked THEN Result(c, Quiet)
    ELSE Result([c EXCEPT !.handoverAsked = TRUE], Output(None, c.handover, FALSE))

\* Mutant of KeepHandingOver: the hand-over is over once PX4 reports the mode.
KeepHandingOverUntil(c, armed, mode, elapsed) ==
    IF mode = c.handover THEN Result([c EXCEPT !.handover = None], Quiet)
    ELSE IF armed = "no" \/ (c.handoverAsked /\ ~elapsed) THEN Result(c, Quiet)
    ELSE Result([c EXCEPT !.handoverAsked = TRUE], Output(None, c.handover, FALSE))

\* Ask PX4 for the mode handed over to, again after the retry interval, unless
\* PX4 reports that mode or reports that it is disarmed.
KeepHandingOver(c, armed, mode, elapsed) ==
    IF mode = c.handover \/ armed = "no" \/ (c.handoverAsked /\ ~elapsed)
    THEN Result(c, Quiet)
    ELSE Result([c EXCEPT !.handoverAsked = TRUE], Output(None, c.handover, FALSE))

\* The waypoint being flown to is left behind once the drone is at it.
Advance(c, position) ==
    IF c.index < Len(c.route) /\ c.route[c.index + 1] = position
    THEN [c EXCEPT !.index = @ + 1] ELSE c

PathDone(c) == c.index = Len(c.route)

\* Mutant of TaskDone: the drone that never lands of scenarios/mutants.py.
TaskDoneNever(c) == FALSE

TaskDone(c) == IF c.task = "path" THEN PathDone(c) ELSE c.leaderDone

\* position: the place last read, or None.  armed: "yes", "no" or None.
\* leaderSeen: a position of the leader is known; silent: the last one is older
\* than comms_timeout_s.  elapsed: the retry interval has passed since the last
\* request of the kind in question.
Tick(c, position, armed, mode, leaderSeen, silent, elapsed) ==
    LET moved == IF c.task = "path" THEN Advance(c, position) ELSE c
        target == IF c.task = "slot" THEN Elsewhere
                  ELSE IF PathDone(moved) THEN position ELSE c.route[moved.index + 1]
    IN  CASE c.handover # None -> KeepHandingOver(c, armed, mode, elapsed)
          [] c.handover = None /\ (position = None \/ c.task = None) -> Result(c, Quiet)
          [] OTHER ->
                IF c.task = "slot" /\ silent
                THEN KeepHandingOver(Handover(c, RTL), armed, mode, elapsed)
                ELSE IF c.task = "slot" /\ ~leaderSeen THEN Result(c, Quiet)
                ELSE IF TaskDone(moved)
                THEN KeepHandingOver(Handover([moved EXCEPT !.complete = TRUE], LAND),
                                     armed, mode, elapsed)
                ELSE StepOffboard(moved, armed, mode, elapsed, target)
=============================================================================
