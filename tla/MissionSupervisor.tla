--------------------------- MODULE MissionSupervisor ---------------------------
(***************************************************************************)
(* The ground-side supervisor of the swarm: swarm_coordination/supervisor.py, *)
(* the default planner of mission_planning.py and the ROS node that drives  *)
(* them, nodes/mission_dispatcher_node.py.                                  *)
(*                                                                          *)
(* Each handler of the node runs to its end before the next one starts     *)
(* (rclpy.spin, one thread).  Every handler is one action here, except the *)
(* loop of reallocate(), which visits the mission's drones one by one: each *)
(* visit is an action, and while a pass is under way no other handler may  *)
(* run.  Drones are numbered in id order (supervisor.py, _id_order).       *)
(*                                                                          *)
(* A battery is told apart only as the code does: unknown (None), below the *)
(* threshold ("low") or not ("ok").  A route is named by its lane and the  *)
(* number of its waypoints that are left to fly.                           *)
(***************************************************************************)
EXTENDS Integers, FiniteSets, Functions

CONSTANTS
    NumDrones,     \* the drones are 1 .. NumDrones, in id order
    NumWaypoints,  \* the waypoints of a mission
    MissionIds,    \* the ids missions carry
    NoMission,     \* what stands for None where a mission id is expected
    Missions,      \* the /swarm/mission messages that may arrive
    Reports,       \* the progress a drone may report: [index, complete]
    PlannerPlans   \* what an injected planner may return beside the default plan

Drones == 1 .. NumDrones
Routes == [lane : Drones, left : 0 .. NumWaypoints]
Slots  == [leader : Drones, offset : Drones]
\* Dictionaries: a function on some of the arguments, f with the entries of g in
\* place of its own, a dictionary of one entry.
With(f, g) == [x \in DOMAIN f \cup DOMAIN g |-> IF x \in DOMAIN g THEN g[x] ELSE f[x]]
Entry(k, v) == [x \in {k} |-> v]
Empty == [x \in {} |-> x]
Partial(S, T) == UNION {[U -> T] : U \in SUBSET S}
Plans  == [paths : Partial(Drones, Routes), followers : Partial(Drones, Slots)]
Batteries == {"unknown", "low", "ok"}
COMMANDS  == {"rtl", "land", "hold"}

\* No two drones of a plan hold the same lane or the same slot: lanes and slots
\* name the tasks of a plan, so this is how a plan is written down here.
DistinctTasks(ps, fs) ==
    /\ \A d, e \in DOMAIN ps : ps[d].lane = ps[e].lane => d = e
    /\ \A f, g \in DOMAIN fs : fs[f].offset = fs[g].offset => f = g

ASSUME SupervisorAssumption ==
    /\ NumDrones \in Nat \ {0}
    /\ NumWaypoints \in Nat \ {0}
    /\ NoMission \notin MissionIds
    /\ Missions \subseteq [id : MissionIds, type : {"waypoint", "formation"},
                           count : Nat \ {0}]
    /\ Reports \subseteq [index : 0 .. NumWaypoints, complete : BOOLEAN]
    /\ PlannerPlans \subseteq Plans
    /\ \A p \in PlannerPlans : DistinctTasks(p.paths, p.followers)

VARIABLES
    battery,    \* [Drones -> Batteries]: the last report of each drone
    mission,    \* the id of the mission in progress, or NoMission
    paths,      \* the plan: the route of every drone that flies one
    followers,  \* the plan: the leader and offset of every drone that follows
    progress,   \* the last progress of each drone for this mission
    retired,    \* sent home, somebody else flies their task
    dropped,    \* sent home, nobody took their task over
    scanning,   \* is a pass of reallocate() under way?
    scan,       \* the drones that pass has still to visit
    acted,      \* has that pass decided anything?
    active,     \* the latched /swarm/active_mission message
    order       \* the last message sent to each drone, on any of its topics

plan == <<paths, followers>>
pass == <<scanning, scan, acted>>
vars == <<battery, mission, paths, followers, progress, retired, dropped,
          scanning, scan, acted, active, order>>

-----------------------------------------------------------------------------
(* Messages to the drones. *)

NoOrder == [kind |-> "none"]
Command(c) == [kind |-> "command", command |-> c]
Assign(m, route) == [kind |-> "assign", mission |-> m, route |-> route]
Slot(m, slot) == [kind |-> "slot", mission |-> m, slot |-> slot]

Orders == {NoOrder} \cup {Command(c) : c \in COMMANDS}
          \cup {Assign(m, r) : m \in MissionIds, r \in Routes}
          \cup {Slot(m, s) : m \in MissionIds, s \in Slots}

GoHome == Command("rtl")
IsTask(o) == o.kind \in {"assign", "slot"}

Tell(messages) == order' = With(order, messages)

-----------------------------------------------------------------------------
(* What the supervisor knows. *)

NoProgress == [index |-> 0, complete |-> FALSE]

Low(d) == battery[d] = "low"
Finished(d) == progress[d].complete
MissionDrones == DOMAIN paths \cup DOMAIN followers
Eligible == {d \in Drones : ~Low(d)}

\* Mutant of Idle: a drone of unknown battery counts as fit.
IdleTrustsSilence == {d \in Drones : /\ ~Low(d)
                                     /\ d \notin MissionDrones \cup retired \cup dropped}

\* Mutant of Idle: a drone sent home earlier in this mission is called back.
IdleRecallsRetired == {d \in Drones : battery[d] = "ok" /\ d \notin MissionDrones}

\* The drones a low one may be replaced by.
Idle == {d \in Drones : /\ battery[d] = "ok"
                        /\ d \notin MissionDrones \cup retired \cup dropped}

First(S) == CHOOSE d \in S : \A e \in S : d <= e
Rank(d, S) == Cardinality({e \in S : e <= d})

Init ==
    /\ battery = [d \in Drones |-> "unknown"]
    /\ mission = NoMission
    /\ paths = Empty
    /\ followers = Empty
    /\ progress = [d \in Drones |-> NoProgress]
    /\ retired = {}
    /\ dropped = {}
    /\ scanning = FALSE
    /\ scan = {}
    /\ acted = FALSE
    /\ active = [mission |-> NoMission, drones |-> {}]
    /\ order = [d \in Drones |-> NoOrder]

-----------------------------------------------------------------------------
(* What the swarm reports. *)

ObserveBattery(d, pct) ==
    /\ ~scanning
    /\ battery' = [battery EXCEPT ![d] = pct]
    /\ UNCHANGED <<mission, paths, followers, progress, retired, dropped, pass,
                   active, order>>

\* A report for another mission than the one in progress is ignored.
ObserveProgress(d, id, report) ==
    /\ ~scanning
    /\ mission # NoMission
    /\ id = mission
    /\ progress' = [progress EXCEPT ![d] = report]
    /\ UNCHANGED <<battery, mission, paths, followers, retired, dropped, pass,
                   active, order>>

-----------------------------------------------------------------------------
(* What the operator asks for. *)

\* The default plan: the first eligible drones, each on a lane of its own or,
\* in a formation, every one but the first in a slot behind it.
PlanMission(m) ==
    LET names == {d \in Eligible : Rank(d, Eligible) <= m.count}
        leader == First(names)
        flying == IF m.type = "formation" THEN {leader} ELSE names
    IN  [paths |-> [d \in flying |->
                       [lane |-> Rank(d, names), left |-> NumWaypoints]],
         followers |-> [d \in names \ flying |->
                           [leader |-> leader, offset |-> Rank(d, names) - 1]]]

\* The supervisor flies an injected planner's plan only if it is sound.
Usable(p, m) ==
    LET drones == DOMAIN p.paths \cup DOMAIN p.followers
    IN  /\ DOMAIN p.paths \cap DOMAIN p.followers = {}
        /\ Cardinality(DOMAIN p.paths) + Cardinality(DOMAIN p.followers) = m.count
        /\ drones \subseteq Eligible
        /\ \A d \in DOMAIN p.paths : p.paths[d].left > 0
        /\ \A f \in DOMAIN p.followers : p.followers[f].leader \in DOMAIN p.paths

\* The plans the supervisor would fly m with.  None: the mission is rejected,
\* because too few drones are fit or the planner's plan cannot be flown, and
\* the mission in progress is left alone.
FlyablePlans(m) ==
    IF Cardinality(Eligible) < m.count THEN {}
    ELSE {PlanMission(m)} \cup {p \in PlannerPlans : Usable(p, m)}

\* Mutant of StartMessages: the drones the new plan drops are not told.
StartMessagesOnlyPlan(m, p) ==
    With([d \in DOMAIN p.paths |-> Assign(m.id, p.paths[d])],
         [d \in DOMAIN p.followers |-> Slot(m.id, p.followers[d])])

\* The messages that put plan p in place of the present one: drones the new
\* plan has no use for go home.
StartMessages(m, p) ==
    [d \in MissionDrones \cup DOMAIN p.paths \cup DOMAIN p.followers |->
        IF d \in DOMAIN p.paths THEN Assign(m.id, p.paths[d])
        ELSE IF d \in DOMAIN p.followers THEN Slot(m.id, p.followers[d])
        ELSE GoHome]

Start(m) ==
    /\ ~scanning
    /\ \E p \in FlyablePlans(m) :
        /\ Tell(StartMessages(m, p))
        /\ mission' = m.id
        /\ paths' = p.paths
        /\ followers' = p.followers
        /\ progress' = [d \in Drones |-> NoProgress]
        /\ retired' = {}
        /\ dropped' = {}
        /\ active' = [mission |-> m.id,
                      drones |-> DOMAIN p.paths \cup DOMAIN p.followers]
    /\ UNCHANGED <<battery, pass>>

\* A swarm-wide command reaches every drone and ends the mission, whichever
\* mission id it carries.
SwarmCommand(c) ==
    /\ ~scanning
    /\ Tell([d \in Drones |-> Command(c)])
    /\ mission' = NoMission
    /\ paths' = Empty
    /\ followers' = Empty
    /\ progress' = [d \in Drones |-> NoProgress]
    /\ retired' = {}
    /\ dropped' = {}
    /\ active' = [mission |-> NoMission, drones |-> {}]
    /\ UNCHANGED <<battery, pass>>

-----------------------------------------------------------------------------
(* The periodic decision: one pass over the drones the mission had when the *)
(* pass began, in id order.                                                 *)

\* Mutant of BeginPass: only the drones that fly a path are visited.
BeginPassLeadersOnly ==
    /\ ~scanning
    /\ mission # NoMission
    /\ scanning' = TRUE
    /\ scan' = DOMAIN paths
    /\ acted' = FALSE
    /\ UNCHANGED <<battery, mission, paths, followers, progress, retired, dropped,
                   active, order>>

BeginPass ==
    /\ ~scanning
    /\ mission # NoMission
    /\ scanning' = TRUE
    /\ scan' = MissionDrones
    /\ acted' = FALSE
    /\ UNCHANGED <<battery, mission, paths, followers, progress, retired, dropped,
                   active, order>>

Visiting(d) ==
    /\ scanning
    /\ scan # {}
    /\ d = First(scan)
    /\ scan' = scan \ {d}

\* Mutant of MustGoHome: nobody goes home while nobody can take over.
MustGoHomeIfReplaced(d) == d \notin dropped /\ Low(d) /\ ~Finished(d) /\ Idle # {}

MustGoHome(d) == d \notin dropped /\ Low(d) /\ ~Finished(d)

LeaveAlone(d) ==
    /\ Visiting(d)
    /\ ~MustGoHome(d)
    /\ UNCHANGED <<battery, mission, paths, followers, progress, retired, dropped,
                   scanning, acted, active, order>>

Drop(d) ==
    /\ Visiting(d)
    /\ MustGoHome(d)
    /\ Idle = {}
    /\ Tell(Entry(d, GoHome))
    /\ dropped' = dropped \cup {d}
    /\ acted' = TRUE
    /\ UNCHANGED <<battery, mission, paths, followers, progress, retired, scanning,
                   active>>

\* Mutant of Rest: the waypoint being flown to counts as reached.
RestSkipsOne(d) ==
    LET route == paths[d]
        start == IF progress[d].index + 1 < route.left THEN progress[d].index + 1
                 ELSE route.left - 1
    IN  [route EXCEPT !.left = route.left - start]

\* What is left of d's route: from the waypoint it last reported to be flying
\* to, and never less than the last waypoint.
Rest(d) ==
    LET route == paths[d]
        start == IF progress[d].index < route.left THEN progress[d].index
                 ELSE route.left - 1
    IN  [route EXCEPT !.left = route.left - start]

FollowersOf(d) == {f \in DOMAIN followers : followers[f].leader = d}

\* Mutant of Retargeted: the followers keep following the drone going home.
RetargetedForgotten(d, r) == followers

\* Followers of the drone going home follow its replacement r instead.
Retargeted(d, r) ==
    [f \in DOMAIN followers |->
        IF f \in FollowersOf(d) THEN [followers[f] EXCEPT !.leader = r]
        ELSE followers[f]]

HandOverPath(d) ==
    /\ Visiting(d)
    /\ MustGoHome(d)
    /\ Idle # {}
    /\ d \in DOMAIN paths
    /\ LET r == First(Idle)
       IN  /\ paths' = With(Restrict(paths, DOMAIN paths \ {d}), Entry(r, Rest(d)))
           /\ followers' = Retargeted(d, r)
           /\ Tell([x \in {d, r} \cup FollowersOf(d) |->
                      IF x = d THEN GoHome
                      ELSE IF x = r THEN Assign(mission, Rest(d))
                      ELSE Slot(mission, Retargeted(d, r)[x])])
    /\ retired' = retired \cup {d}
    /\ acted' = TRUE
    /\ UNCHANGED <<battery, mission, progress, dropped, scanning, active>>

HandOverSlot(d) ==
    /\ Visiting(d)
    /\ MustGoHome(d)
    /\ Idle # {}
    /\ d \in DOMAIN followers
    /\ LET r == First(Idle)
       IN  /\ followers' = With(Restrict(followers, DOMAIN followers \ {d}),
                                Entry(r, followers[d]))
           /\ Tell([x \in {d, r} |->
                      IF x = d THEN GoHome ELSE Slot(mission, followers[d])])
    /\ retired' = retired \cup {d}
    /\ acted' = TRUE
    /\ UNCHANGED <<battery, mission, paths, progress, dropped, scanning, active>>

EndPass ==
    /\ scanning
    /\ scan = {}
    /\ scanning' = FALSE
    /\ acted' = FALSE
    /\ active' = IF acted THEN [mission |-> mission, drones |-> MissionDrones]
                 ELSE active
    /\ UNCHANGED <<battery, mission, paths, followers, progress, retired, dropped,
                   scan, order>>

Visit(d) == LeaveAlone(d) \/ Drop(d) \/ HandOverPath(d) \/ HandOverSlot(d)

Reallocate == BeginPass \/ (\E d \in Drones : Visit(d)) \/ EndPass

Observe ==
    \E d \in Drones :
        \/ \E pct \in Batteries : ObserveBattery(d, pct)
        \/ \E id \in MissionIds, report \in Reports : ObserveProgress(d, id, report)

Operate ==
    \/ \E m \in Missions : Start(m)
    \/ \E c \in COMMANDS : SwarmCommand(c)

Next == Observe \/ Operate \/ Reallocate

Spec == Init /\ [][Next]_vars

\* The node's timer calls reallocate() every second and a pass runs to its end;
\* nothing obliges the operator or a drone to say anything.
FairSpec == Spec /\ WF_vars(Reallocate)

-----------------------------------------------------------------------------
(* Properties. *)

TypeOK ==
    /\ battery \in [Drones -> Batteries]
    /\ mission \in MissionIds \cup {NoMission}
    /\ paths \in Partial(Drones, Routes)
    /\ followers \in Partial(Drones, Slots)
    /\ progress \in [Drones -> [index : 0 .. NumWaypoints, complete : BOOLEAN]]
    /\ retired \subseteq Drones
    /\ dropped \subseteq Drones
    /\ scanning \in BOOLEAN
    /\ scan \subseteq Drones
    /\ acted \in BOOLEAN
    /\ active \in [mission : MissionIds \cup {NoMission}, drones : SUBSET Drones]
    /\ order \in [Drones -> Orders]

Lanes == {paths[d].lane : d \in DOMAIN paths}
Offsets == {followers[d].offset : d \in DOMAIN followers}

\* What drone d of the mission has to do.
TaskOf(d) == IF d \in DOMAIN paths THEN Assign(mission, paths[d])
             ELSE Slot(mission, followers[d])

\* The plan stays flyable through every hand-over (supervisor.py, the comment on
\* Planner and _unusable): no drone both flies a path and follows, no route is
\* empty, no two drones hold the same lane or the same slot, every follower's
\* leader flies a path, and a drone replaced in this mission is not part of it.
SoundPlan(ps, fs) ==
    /\ DOMAIN ps \cap DOMAIN fs = {}
    /\ \A d \in DOMAIN ps : ps[d].left > 0
    /\ DistinctTasks(ps, fs)
    /\ \A f \in DOMAIN fs : fs[f].leader \in DOMAIN ps

PlanSound ==
    /\ SoundPlan(paths, followers)
    /\ retired \cap MissionDrones = {}
    /\ dropped \subseteq MissionDrones

\* Across missions, commands and hand-overs the swarm has been told what the
\* supervisor believes: a drone of the mission that was not sent home was last
\* told its present task, a drone whose last order is a task is in the mission
\* and that is its task, so nobody flies on for a superseded or ended mission
\* (supervisor.py:20), and a replaced drone was last told to go home.
OrdersMatchPlan ==
    /\ \A d \in MissionDrones \ dropped : order[d] = TaskOf(d)
    /\ \A d \in Drones : IsTask(order[d]) => d \in MissionDrones /\ order[d] = TaskOf(d)
    /\ \A d \in retired : order[d] = GoHome

\* Between two passes, the mission's drones that the aggregator waits for
\* (/swarm/active_mission) are exactly those of the plan.
ActiveMatchesPlan ==
    ~scanning => active = [mission |-> mission, drones |-> MissionDrones]

\* A pass leaves nobody behind: a drone it has passed by is low only if it has
\* finished or was sent home with its task dropped, whatever the hand-overs
\* earlier in the same pass did to the plan (the loop runs over a snapshot).
PassLeavesNobodyBehind ==
    scanning => \A d \in MissionDrones \ scan : Low(d) => d \in dropped \/ Finished(d)

\* A hand-over moves a task and loses none of it: after every step of a pass
\* each lane is still flown and each slot still held, and the drone that now
\* flies a lane has at least the waypoints its predecessor had not reported.
HandOverLosesNothing ==
    [][scanning =>
        /\ Offsets' = Offsets
        /\ \A d \in DOMAIN paths : \E e \in DOMAIN paths' :
              /\ paths'[e].lane = paths[d].lane
              /\ paths'[e].left > 0
              /\ paths'[e].left <= paths[d].left
              /\ paths'[e].left >= paths[d].left - progress[d].index]_vars

\* Only a drone known to be above the threshold, with no part in the mission so
\* far, joins it in mid flight, and one known to be low never joins a mission
\* (supervisor.py:10, 13, 23).
OnlyFitDronesJoin ==
    [][\A d \in MissionDrones' \ MissionDrones :
          /\ ~Low(d)
          /\ scanning => battery[d] = "ok" /\ d \notin retired /\ ~IsTask(order[d])]_vars

\* A low drone with part of a task left is sent home in the end, unless its
\* battery recovers, it finishes or the mission no longer needs it.
LowDroneIsSentHome ==
    \A d \in Drones :
        (d \in MissionDrones \ dropped /\ Low(d) /\ ~Finished(d))
            ~> (d \in dropped \cup retired \/ ~Low(d) \/ Finished(d)
                \/ d \notin MissionDrones)

\* "A drone whose battery is known to be below battery_threshold_pct is never
\* given a task" (supervisor.py:10): one whose task was dropped has been sent
\* home, and while its battery is low no later order makes it fly again.
LowDroppedDroneStaysHome ==
    \A d \in dropped : Low(d) => ~IsTask(order[d])

\* Where a pass stands: it has still to visit only drones of the mission, and as
\* long as it has decided nothing the drones published are those of the plan.
PassBookkeeping ==
    /\ scan \subseteq MissionDrones
    /\ ~scanning => scan = {} /\ ~acted
    /\ ~acted => active = [mission |-> mission, drones |-> MissionDrones]
    /\ mission = NoMission => MissionDrones = {} /\ retired = {}

\* The inductive invariant behind the safety properties.
SupervisorInv ==
    TypeOK /\ PlanSound /\ OrdersMatchPlan /\ PassBookkeeping /\ PassLeavesNobodyBehind

-----------------------------------------------------------------------------
(* What the supervisor implements: a roster of the mission's tasks. *)

RouteTask(lane) == <<"route", lane>>
SlotTask(offset) == <<"slot", offset>>
AllTasks == {RouteTask(d) : d \in Drones} \cup {SlotTask(d) : d \in Drones}

\* The task drone d of the mission holds, as the roster names it.
Held(d) == IF d \in DOMAIN paths THEN RouteTask(paths[d].lane)
           ELSE SlotTask(followers[d].offset)

Roster == INSTANCE TaskRoster WITH
    Tasks <- AllTasks,
    roster <- [t \in {Held(d) : d \in MissionDrones} |->
                  CHOOSE d \in MissionDrones : Held(d) = t],
    abandoned <- {Held(d) : d \in dropped},
    relieved <- retired

\* The passes over a changing plan, the dictionaries edited in place and the
\* messages implement the roster: a task changes hands once per relief, never
\* comes back to a relieved drone and never moves once it was dropped.
ImplementsRoster == Roster!Spec

=============================================================================
