-------------------------- MODULE MC_ScenarioHarness --------------------------
(* Instances of the scenario harness for TLC: scenarios flown, traces *)
(* judged, and suites run.  What a study may show is kept to what its assertion *)
(* reads.                                                                     *)
EXTENDS ScenarioVerdicts, ScenarioSuite, SwarmFlight, TLC

CONSTANTS m1, m2, a1, a2, b1, b2

\* The samples a vehicle may give, and the frames made of them.
Sample(x, y, z, armed, mode, charge) ==
    [position |-> <<x, y, z>>, armed |-> armed, mode |-> mode, battery |-> charge,
     airborne |-> z > 0]
OnPad == Sample(0, 0, 0, FALSE, "AUTO.LOITER", 100)
Offboard(x, y, z) == Sample(x, y, z, TRUE, "OFFBOARD", 100)
Scenes(n, samples) ==
    {[drones |-> s, mission |-> 0, complete |-> FALSE] : s \in [1 .. n -> samples]}

Near == {OnPad} \cup {Offboard(x, 0, 1) : x \in 0 .. 2}
Landing == {OnPad, Sample(0, 0, 0, TRUE, "AUTO.LAND", 100), Sample(0, 0, 1, TRUE, "AUTO.LAND", 100)}
Draining == {Offboard(0, 0, 1), Sample(0, 0, 1, TRUE, "OFFBOARD", 10),
             Sample(0, 0, 1, TRUE, "AUTO.RTL", 10)}
Shaping == {Sample(0, 0, 1, TRUE, "AUTO.LAND", 100)}
           \cup {Offboard(x, y, 1) : x \in 0 .. 1, y \in 0 .. 1}

MCViews == [
    pair |-> Scenes(2, Near),
    trio |-> Scenes(3, Near),
    reports |-> {[drones |-> [d \in {1} |-> OnPad], mission |-> r[1], complete |-> r[2]] :
                    r \in {<<0, FALSE>>, <<1, FALSE>>, <<1, TRUE>>, <<2, TRUE>>}},
    landing |-> Scenes(2, Landing),
    draining |-> Scenes(1, Draining),
    drainingPair |-> Scenes(2, Draining),
    moving |-> Scenes(1, {Offboard(x, 0, z) : x \in 0 .. 2, z \in 0 .. 1}),
    shape |-> Scenes(3, Shaping),
    shapes |-> Scenes(3, {OnPad, Offboard(0, 0, 1), Offboard(1, 0, 1)}),
    line |-> Scenes(4, {Offboard(x, 0, 1) : x \in 0 .. 3}),
    travel |-> Scenes(1, {OnPad} \cup {Offboard(x, 0, z) : x \in {0, 2}, z \in 1 .. 2}),
    travelPair |-> Scenes(2, {OnPad, Offboard(0, 0, 1), Offboard(2, 0, 1)}),
    modes |-> Scenes(2, {OnPad, Sample(0, 0, 1, TRUE, "AUTO.RTL", 100)})]

FleetSize(view) == LET scene == CHOOSE scene \in MCViews[view] : TRUE
                   IN  Cardinality(DOMAIN scene.drones)
Study(kind, params, missions, events, view, length) ==
    [drones |-> FleetSize(view), kind |-> kind, params |-> params, missions |-> missions, events |-> events,
     view |-> view, length |-> length]

Separation(w) == [min_m |-> 2, from_s |-> w[1], to_s |-> w[2]]
SeparationStudies ==
    {Study("min_separation", Separation(w), <<>>, <<>>, "pair", 3) :
        w \in {<<0, Forever>>, <<2, Forever>>, <<0, 2>>, <<9, Forever>>}}
    \cup {Study("min_separation", Separation(<<0, Forever>>), <<>>, <<>>, "trio", 2)}

Dispatched(id, at) ==
    [id |-> id, at_s |-> at, type |-> "waypoint", count |-> 1, shape |-> "line", spacing |-> 1]
CompletionStudies ==
    {Study("mission_completes", [within_s |-> 2], missions, <<>>, "reports", 4) :
        missions \in {<<>>, <<Dispatched(1, 0)>>, <<Dispatched(1, 0), Dispatched(2, 1)>>}}

LandingStudies ==
    {Study("all_landed", [by_s |-> by], <<>>, <<>>, "landing", 3) : by \in {0, 2, Forever}}

Battery(grace) == [threshold_pct |-> 20, grace_s |-> grace]
BatteryStudies ==
    {Study("no_task_below_battery", Battery(grace), <<>>, <<>>, "draining", 6) : grace \in 0 .. 2}
    \cup {Study("no_task_below_battery", Battery(1), <<>>, <<>>, "drainingPair", 3)}

Target == [drone |-> 1, position |-> <<2, 0, 0>>, tolerance_m |-> 1]
PlaceStudies ==
    {Study("reaches", Target @@ [from_s |-> 2, by_s |-> by], <<>>, <<>>, "moving", 4) :
        by \in {0, 3}}
    \cup {Study("final_position", Target, <<>>, <<>>, "moving", 2)}

Line(n) == [Dispatched(1, 0) EXCEPT !.type = "formation", !.count = n]
Vee(n) == [Line(n) EXCEPT !.shape = "v"]
Formation1(leader, from) == [max_m |-> 1, leader |-> leader, from_s |-> from, to_s |-> Forever]
FormationStudies ==
    {Study("formation_error", Formation1(leader, from), <<Vee(3)>>, <<>>, "shape", 1) :
        leader \in {Nobody, 2}, from \in {0, 2}}
    \cup {Study("formation_error", Formation1(Nobody, 0), missions, <<>>, "shapes", 2) :
             missions \in {<<>>, <<Line(3), Line(2)>>}}
    \cup {Study("formation_error", Formation1(Nobody, 0), <<Line(4)>>, <<>>, "line", 1)}

Travel1(who, to) == [max_m |-> 1, event |-> "command", drone |-> who, to_s |-> to]
CommandAt(t) == [at_s |-> t, kind |-> "command"]
TravelStudies ==
    {Study("travel_after", Travel1(who, to), <<>>, events, "travel", 4) :
        who \in {Nobody, 1}, to \in {3, Forever},
        events \in {<<CommandAt(1)>>, <<CommandAt(0), CommandAt(2)>>}}
    \cup {Study("travel_after", Travel1(who, Forever), <<>>, events, "travelPair", 3) :
             who \in {Nobody, 2}, events \in {<<>>, <<CommandAt(1)>>}}

ModeStudies ==
    {Study("never_mode", [drone |-> 2, mode |-> "AUTO.RTL"], <<>>, <<>>, "modes", 3)}

MCStudies == SeparationStudies \cup CompletionStudies \cup LandingStudies \cup BatteryStudies
             \cup PlaceStudies \cup FormationStudies \cup TravelStudies \cup ModeStudies

NoStudy == Study("none", Target, <<>>, <<>>, "pair", 0)

-----------------------------------------------------------------------------
(* Runs of the suite. *)

Document(name, expect) ==
    [kind |-> "scenario", name |-> name, expect |-> expect, reason |-> TRUE,
     drones |-> 2, uses |-> 2, after |-> {"command"}, events |-> {"command", "mission"}]
A == Document("a", "pass")
B == Document("b", "pass")
KnownGap == Document("b", "fail")
Expected == [A EXCEPT !.kind = "expectations"]

Job(fs, expect, mutation) ==
    [usable |-> TRUE, sut |-> "reference", mutation |-> mutation, exist |-> TRUE,
     files |-> fs, expect |-> expect]
MCJobs ==
    {Job(fs, expect, mutation) :
        fs \in {<<A, B>>, <<A, KnownGap>>},
        expect \in {<<>>, <<{}>>, <<{"a"}>>, <<{"b", "c"}>>}, mutation \in {"off", "given"}}
    \cup {Job(fs, expect, "off") :
             fs \in {<<>>, <<A, A>>, <<A, Expected>>, <<[A EXCEPT !.uses = 3]>>,
                     <<A, [KnownGap EXCEPT !.reason = FALSE]>>, <<A, [B EXCEPT !.events = {}]>>},
             expect \in {<<>>, <<{"a"}>>}}
    \cup {[Job(<<A>>, <<>>, "reference") EXCEPT !.sut = sut, !.usable = usable, !.exist = exist] :
             sut \in {"reference", "other"}, usable \in BOOLEAN, exist \in BOOLEAN}

-----------------------------------------------------------------------------
(* Flights: two of three drones fly, in formation or abreast, one of them on    *)
(* legs of two steps; the third is to spare.                                  *)

MCPlace == <<<<a1, a2>>, <<b1, b2>>, <<b1, b2>>>>
MCLegs == <<1, 2, 1>>
MCMissions == {[id |-> m1, type |-> "formation", count |-> 2],
               [id |-> m2, type |-> "waypoint", count |-> 2]}
\* An injected planner may choose a leader that is not the first drone, or one
\* that flies no path.
MCPlans == {[paths |-> 2 :> [lane |-> 1, left |-> 2],
             followers |-> 1 :> [leader |-> 2, offset |-> 1]],
            [paths |-> 1 :> [lane |-> 1, left |-> 2],
             followers |-> 3 :> [leader |-> 2, offset |-> 1]]}

MCHappenings ==
    {[kind |-> "mission", mission |-> m] : m \in MCMissions}
    \cup {[kind |-> "command", command |-> "rtl"]}
    \cup {[kind |-> "battery", drone |-> 1, charge |-> "low"],
          [kind |-> "battery", drone |-> 2, charge |-> "flat"]}
    \cup {[kind |-> "comms_loss", drones |-> {c[1]}, duration |-> c[2]] :
             c \in {<<1, 6>>, <<2, 2>>, <<3, 2>>}}

-----------------------------------------------------------------------------
(* A scenario is flown, or the trace of one is judged, or a suite is run. *)

SuiteIdle ==
    /\ job = Job(<<>>, <<>>, "off") /\ fate = <<>> /\ stage = "idle" /\ files = <<>>
    /\ errors = 0 /\ specs = <<>> /\ reports = <<>> /\ traces = <<>> /\ exit = NotYet
NoVerdict == study = NoStudy /\ frames = <<>>

MCInit ==
    /\ FlightInit
    /\ \/ VerdictInit /\ SuiteIdle
       \/ SuiteInit /\ NoVerdict
       \/ NoVerdict /\ SuiteIdle

Flown == study = NoStudy /\ stage = "idle"

MCNext ==
    \/ VerdictNext /\ UNCHANGED <<suiteVars, flightVars>>
    \/ SuiteNext /\ UNCHANGED <<verdictVars, flightVars>>
    \/ Flown /\ FlightNext /\ UNCHANGED <<verdictVars, suiteVars>>

MCSpec ==
    /\ MCInit
    /\ [][MCNext]_<<verdictVars, suiteVars, flightVars>>
    /\ WF_flightVars(Flown /\ Loop)
=============================================================================
