---------------------------- MODULE ScenarioVerdicts ----------------------------
(***************************************************************************)
(* How a scenario run is judged: the frames the harness records            *)
(* (scenarios/harness.py, model.py) and the assertions that read them       *)
(* (scenarios/assertions.py).  The swarm flown may be anybody's, so a frame *)
(* may hold anything the simulated vehicles and a state report can show.   *)
(*                                                                          *)
(* A frame is recorded every unit of time.  Each assertion is the code's    *)
(* computation, loop by loop; what it is documented to say (the table in   *)
(* src/scenarios/README.md and the head of assertions.py) is stated apart, *)
(* and the two are compared on every trace.                                *)
(***************************************************************************)
EXTENDS FormationFit

CONSTANTS
    Views,   \* [name -> what a frame may show]
    Studies  \* the scenarios judged

(* A study is a record of                                                  *)
(*   drones             how many drones fly                                *)
(*   kind, params       the assertion                                      *)
(*   missions, events   what the harness sent, in order                    *)
(*   view, length       what may be seen, and how many frames are recorded *)

Unmeasured == -1
Forever == 1000  \* to_s left out

\* What is recorded of a drone, and of all of them.
Positions == [1 .. 3 -> Int]
IsSample(x) ==
    /\ x.position \in Positions /\ x.battery \in Int
    /\ x.armed \in BOOLEAN /\ x.airborne \in BOOLEAN
IsScene(scene, drones) ==
    /\ scene.drones = [d \in 1 .. drones |-> scene.drones[d]]
    /\ \A d \in 1 .. drones : IsSample(scene.drones[d])
    /\ scene.complete \in BOOLEAN

\* The parameters the schema requires, for drones the scenario has.
IsAssertion(kind, p, drones) ==
    CASE kind = "min_separation" -> {p.min_m, p.from_s, p.to_s} \subseteq Int
      [] kind = "mission_completes" -> p.within_s \in Int
      [] kind = "all_landed" -> p.by_s \in Int
      [] kind = "no_task_below_battery" -> {p.threshold_pct, p.grace_s} \subseteq Int
      [] kind = "reaches" -> /\ p.drone \in 1 .. drones /\ p.position \in Positions
                             /\ {p.tolerance_m, p.from_s, p.by_s} \subseteq Int
      [] kind = "final_position" -> /\ p.drone \in 1 .. drones /\ p.position \in Positions
                                    /\ p.tolerance_m \in Int
      [] kind = "formation_error" -> /\ p.leader \in 0 .. drones
                                     /\ {p.max_m, p.from_s, p.to_s} \subseteq Int
      [] kind = "travel_after" -> p.drone \in 0 .. drones /\ {p.max_m, p.to_s} \subseteq Int
      [] kind = "never_mode" -> p.drone \in 1 .. drones
      [] OTHER -> FALSE

\* A scenario of at least one drone whose assertion is one of the nine; what is
\* flown and recorded is in units of length and time.
IsStudy(s) ==
    /\ s.drones \in Nat \ {0}
    /\ s.length \in Nat
    /\ IsAssertion(s.kind, s.params, s.drones)
    /\ s.missions \in Seq(ToSet(s.missions))
    /\ \A m \in ToSet(s.missions) : {m.at_s, m.spacing} \subseteq Int /\ m.count \in Nat \ {0}
    /\ s.events \in Seq(ToSet(s.events))
    /\ \A e \in ToSet(s.events) : e.at_s \in Int
    /\ \A scene \in Views[s.view] : IsScene(scene, s.drones)

ASSUME StudiesAssumption == \A s \in Studies : IsStudy(s)

VARIABLES
    study,   \* the scenario being flown
    frames   \* what was recorded of it

verdictVars == <<study, frames>>

VerdictInit ==
    /\ study \in Studies
    /\ frames = <<>>

\* The end of a step: where every drone is and what the swarm reports.
Record ==
    /\ Len(frames) < study.length
    /\ \E scene \in Views[study.view] :
          frames' = Append(frames, [t |-> Len(frames) + 1, drones |-> scene.drones,
                                    mission |-> scene.mission, complete |-> scene.complete])
    /\ UNCHANGED study

VerdictNext == Record

VerdictSpec == VerdictInit /\ [][VerdictNext]_verdictVars

-----------------------------------------------------------------------------
(* What the assertions share. *)

Fleet == 1 .. study.drones
Of(f, d) == f.drones[d]

InWindow(p, f) == p.from_s <= f.t /\ f.t <= p.to_s

\* The first of the frames numbered, or 0.
FirstOf(numbers) == IF numbers = {} THEN 0 ELSE Min(numbers)

Airborne(f) == {d \in Fleet : Of(f, d).airborne}
Flying(f) == {d \in Airborne(f) : Of(f, d).mode = "OFFBOARD"}
Up(f) == {d \in Fleet : Of(f, d).armed \/ Of(f, d).airborne}

Violation(drones, t, measured) == [drones |-> drones, t |-> t, measured |-> measured]
\* Nothing to measure: a violation of no time.
NotMeasured(drones, t) == {Violation(drones, t, Unmeasured)}
Outcome(measured, violations) ==
    [passed |-> violations = {}, measured |-> measured, violations |-> violations]

Pairs(S) == {pair \in S \X S : pair[1] < pair[2]}

-----------------------------------------------------------------------------
(* The assertions. *)

\* How close a pair came, and when; the pairs that met are those the code keeps.
NeverMet == [apart |-> Unmeasured, t |-> Unmeasured]
Closer(closest, f, pair) ==
    LET here == Apart(Of(f, pair[1]).position, Of(f, pair[2]).position)
    IN  IF closest = NeverMet \/ here < closest.apart THEN [apart |-> here, t |-> f.t]
        ELSE closest
Nearest(p, pair) ==
    LET closest[i \in 0 .. Len(frames)] ==
            IF i = 0 THEN NeverMet
            ELSE IF InWindow(p, frames[i]) /\ pair \in Pairs(Airborne(frames[i]))
            THEN Closer(closest[i - 1], frames[i], pair)
            ELSE closest[i - 1]
    IN  closest[Len(frames)]

min_separation(p) ==
    LET met == {pair \in Pairs(Fleet) : Nearest(p, pair) # NeverMet}
    IN  IF met = {} THEN Outcome(Unmeasured, NotMeasured({}, Unmeasured))
        ELSE Outcome(Min({Nearest(p, pair).apart : pair \in met}),
                     {Violation({pair[1], pair[2]}, Nearest(p, pair).t, Nearest(p, pair).apart) :
                         pair \in {q \in met : Nearest(p, q).apart < Square(p.min_m)}})

mission_completes(p) ==
    IF study.missions = <<>> THEN Outcome(Unmeasured, NotMeasured({}, Unmeasured))
    ELSE LET dispatched == Last(study.missions)
             completed == FirstOf({i \in DOMAIN frames :
                                     frames[i].mission = dispatched.id /\ frames[i].complete})
         IN  IF completed = 0 THEN Outcome(Unmeasured, NotMeasured({}, Unmeasured))
             ELSE LET took == frames[completed].t - dispatched.at_s
                  IN  Outcome(took, IF took > p.within_s
                                    THEN {Violation({}, frames[completed].t, took)} ELSE {})

\* The last of the frames up to by_s, or the first one.
Deadline(by) == Max({1} \cup {i \in DOMAIN frames : frames[i].t <= by})

all_landed(p) ==
    LET last == frames[Deadline(p.by_s)]
        lastUp == Max({0} \cup {i \in 1 .. Deadline(p.by_s) : Up(frames[i]) # {}})
    IN  IF Up(last) # {}
        THEN Outcome(Unmeasured,
                     {Violation({d}, last.t, Of(last, d).position[3]) : d \in Up(last)})
        ELSE Outcome(frames[lastUp + 1].t, {})

\* Mutant of TaskedWhileLow: whatever mode the drone is in.
TaskedWhileLowAnyMode(s, threshold) == s.armed /\ s.battery < threshold

TaskedWhileLow(s, threshold) ==
    s.armed /\ s.mode = "OFFBOARD" /\ s.battery < threshold

\* Mutant of Recovered: the grace period is counted over the whole run.
RecoveredLate(r) == r

Recovered(r) == [r EXCEPT !.started = Unmeasured, !.reported = FALSE]

\* One frame of one drone: for how long it has flown its task on a low battery.
LowFor(p, d, r, f) ==
    IF ~TaskedWhileLow(Of(f, d), p.threshold_pct)
    THEN Recovered(r)
    ELSE LET started == IF r.started = Unmeasured THEN f.t ELSE r.started
             held == f.t - started
             late == held > p.grace_s /\ ~r.reported
         IN  [started |-> started, reported |-> r.reported \/ late,
              longest |-> Max({r.longest, held}),
              violations |-> IF late
                             THEN r.violations \cup {Violation({d}, f.t, Of(f, d).battery)}
                             ELSE r.violations]

NeverLow == [started |-> Unmeasured, reported |-> FALSE, longest |-> 0, violations |-> {}]
FlownLow(p, d) ==
    LET r[i \in 0 .. Len(frames)] ==
            IF i = 0 THEN NeverLow ELSE LowFor(p, d, r[i - 1], frames[i])
    IN  r[Len(frames)]

no_task_below_battery(p) ==
    Outcome(Max({FlownLow(p, d).longest : d \in Fleet}),
            UNION {FlownLow(p, d).violations : d \in Fleet})

reaches(p) ==
    LET Gap(f) == Apart(Of(f, p.drone).position, p.position)
        watched == {i \in DOMAIN frames : p.from_s <= frames[i].t /\ frames[i].t <= p.by_s}
        there == FirstOf({i \in watched : Gap(frames[i]) <= Square(p.tolerance_m)})
    IN  IF there # 0 THEN Outcome(frames[there].t, {})
        ELSE Outcome(Unmeasured,
                     {Violation({p.drone}, p.by_s,
                                IF watched = {} THEN Unmeasured
                                ELSE Min({Gap(frames[i]) : i \in watched}))})

final_position(p) ==
    LET gap == Apart(Of(Last(frames), p.drone).position, p.position)
    IN  Outcome(gap, IF gap > Square(p.tolerance_m)
                     THEN {Violation({p.drone}, Last(frames).t, gap)} ELSE {})

\* The formation asked for last; the frames in which exactly its drones fly.
FormationMissions == {i \in DOMAIN study.missions : study.missions[i].type = "formation"}
Formation == study.missions[Max(FormationMissions)]
SlotOffsets == FORMATIONS(Formation.shape, Formation.count - 1, Formation.spacing)
Complete(f, leader) ==
    /\ Cardinality(Flying(f)) = Formation.count
    /\ leader # Nobody => leader \in Flying(f)

Fit(p, f) == fit_formation([d \in Flying(f) |-> Of(f, d).position], SlotOffsets, p.leader)

\* The first of the frames with the largest error, of those that show the formation.
NotFlown == [t |-> Unmeasured]
Worse(w, x) == IF w = NotFlown \/ x.fit.error > w.fit.error THEN x ELSE w
WorstFit(p) ==
    LET worst[i \in 0 .. Len(frames)] ==
            IF i = 0 THEN NotFlown
            ELSE IF InWindow(p, frames[i]) /\ Complete(frames[i], p.leader)
            THEN Worse(worst[i - 1], [fit |-> Fit(p, frames[i]), t |-> frames[i].t])
            ELSE worst[i - 1]
    IN  worst[Len(frames)]

\* The furthest of the followers: max() goes over them in id order.
FurthestOff(errors) ==
    Min({d \in DOMAIN errors : \A e \in DOMAIN errors : errors[e] <= errors[d]})

FitOutcome(p, worst) ==
    Outcome(worst.fit.error,
            IF worst.fit.error > Square(p.max_m)
            THEN {Violation({FurthestOff(worst.fit.errors), worst.fit.leader}, worst.t,
                            worst.fit.error)} ELSE {})

formation_error(p) ==
    IF FormationMissions = {} \/ WorstFit(p) = NotFlown
    THEN Outcome(Unmeasured, NotMeasured({}, Unmeasured))
    ELSE FitOutcome(p, WorstFit(p))

\* The frames from the last event of the kind on, and how far a drone is in them
\* from where it was in the first.
Events(p) == {e.at_s : e \in {e \in ToSet(study.events) : e.kind = p.event}}
After(p) == {i \in DOMAIN frames : Max(Events(p)) <= frames[i].t /\ frames[i].t <= p.to_s}
AtStart(p) == frames[FirstOf(After(p))]
Strayed(p, d, f) == Across(Of(f, d).position, Of(AtStart(p), d).position)

Further(m, strayed, t) == IF strayed > m.far THEN [far |-> strayed, t |-> t] ELSE m
Furthest(p, d) ==
    LET m[i \in 0 .. Len(frames)] ==
            IF i = 0 THEN [far |-> 0, t |-> AtStart(p).t]
            ELSE IF i \in After(p) THEN Further(m[i - 1], Strayed(p, d, frames[i]), frames[i].t)
            ELSE m[i - 1]
    IN  m[Len(frames)]

travel_after(p) ==
    LET airborne == IF After(p) = {} THEN {}
                    ELSE {d \in Airborne(AtStart(p)) : p.drone \in {Nobody, d}}
    IN  IF Events(p) = {} THEN Outcome(Unmeasured, NotMeasured({}, Unmeasured))
        ELSE IF airborne = {}
        THEN Outcome(Unmeasured, NotMeasured({p.drone} \ {Nobody}, Max(Events(p))))
        ELSE Outcome(Max({Furthest(p, d).far : d \in airborne}),
                     {Violation({d}, Furthest(p, d).t, Furthest(p, d).far) :
                         d \in {e \in airborne : Furthest(p, e).far > Square(p.max_m)}})

never_mode(p) ==
    LET entered == FirstOf({i \in DOMAIN frames : Of(frames[i], p.drone).mode = p.mode})
    IN  IF entered = 0 THEN Outcome(Unmeasured, {})
        ELSE Outcome(frames[entered].t,
                     {Violation({p.drone}, frames[entered].t, Unmeasured)})

evaluate ==
    LET p == study.params
    IN  CASE study.kind = "min_separation" -> min_separation(p)
          [] study.kind = "mission_completes" -> mission_completes(p)
          [] study.kind = "all_landed" -> all_landed(p)
          [] study.kind = "no_task_below_battery" -> no_task_below_battery(p)
          [] study.kind = "reaches" -> reaches(p)
          [] study.kind = "final_position" -> final_position(p)
          [] study.kind = "formation_error" -> formation_error(p)
          [] study.kind = "travel_after" -> travel_after(p)
          [] study.kind = "never_mode" -> never_mode(p)

-----------------------------------------------------------------------------
(* What the assertions are documented to say, in one line each. *)

InTime(p) == {f \in ToSet(frames) : InWindow(p, f)}
ApartAt(f, pair) == Apart(Of(f, pair[1]).position, Of(f, pair[2]).position)
Approaches(p, pair) == {f \in InTime(p) : pair \in Pairs(Airborne(f))}
MeetingPairs(p) == UNION {Pairs(Airborne(f)) : f \in InTime(p)}
Closest(p, pair) == Min({ApartAt(f, pair) : f \in Approaches(p, pair)})

Completions(id) == {f \in ToSet(frames) : f.mission = id /\ f.complete}

\* How things stood at the time, or at the first time they were looked at.
At(time) == CHOOSE f \in ToSet(frames) :
                /\ f.t <= time \/ f = frames[1]
                /\ \A g \in ToSet(frames) : g.t <= time => g.t <= f.t

\* Flights of drone d on its task with a low battery, from frame i to frame j.
LowFlight(p, d, i, j) ==
    \A k \in i .. j : /\ Of(frames[k], d).armed /\ Of(frames[k], d).mode = "OFFBOARD"
                     /\ Of(frames[k], d).battery < p.threshold_pct
LowFlights(p, d) ==
    {b \in (DOMAIN frames) \X (DOMAIN frames) : b[1] <= b[2] /\ LowFlight(p, d, b[1], b[2])}
Lasting(p, i, j) == frames[j].t - frames[i].t

Watched(p) == {f \in ToSet(frames) : p.from_s <= f.t /\ f.t <= p.by_s}
GapAt(p, f) == Apart(Of(f, p.drone).position, p.position)
Visits(p) == {f \in Watched(p) : GapAt(p, f) <= Square(p.tolerance_m)}

\* The frames that show the formation, and how far it is from the shape there
\* with the apex and the slots that suit it best.
Showing(p) == {f \in InTime(p) : /\ Cardinality(Flying(f)) = Formation.count
                                  /\ p.leader \in Flying(f) \cup {Nobody}}
SlotError(f, apex, slot, d) ==
    Apart(Of(f, d).position, Plus(Of(f, apex).position, SlotOffsets[slot[d]]))
SlotErrors(f, apex, slot) == {SlotError(f, apex, slot, d) : d \in DOMAIN slot}
SlotChoices(f, apex) == Bijection(Flying(f) \ {apex}, DOMAIN SlotOffsets)
Apexes(p, f) == IF p.leader = Nobody THEN Flying(f) ELSE {p.leader}
ShapeErrors(p, f) ==
    UNION {{Max({0} \cup SlotErrors(f, apex, slot)) : slot \in SlotChoices(f, apex)} :
              apex \in Apexes(p, f)}
ShapeError(p, f) == Min(ShapeErrors(p, f))

\* The drones followed from the last event of the kind on, and where they got to.
Since(p) == {f \in ToSet(frames) : \A at \in Events(p) : at <= f.t}
AtEvent(p) == CHOOSE f \in Since(p) : \A g \in Since(p) : f.t <= g.t
Followed(p) == IF Events(p) = {} \/ {f \in Since(p) : f.t <= p.to_s} = {} THEN {}
               ELSE {d \in Airborne(AtEvent(p)) : p.drone \in {Nobody, d}}
Travel(p, d) == Max({Across(Of(f, d).position, Of(AtEvent(p), d).position) :
                        f \in {f \in Since(p) : f.t <= p.to_s}})

\* "Holds when".
Claim(p) ==
    CASE study.kind = "min_separation" ->
             /\ MeetingPairs(p) # {}
             /\ \A pair \in MeetingPairs(p) : Closest(p, pair) >= Square(p.min_m)
      [] study.kind = "mission_completes" ->
             /\ study.missions # <<>>
             /\ \E f \in Completions(Last(study.missions).id) :
                   f.t - Last(study.missions).at_s <= p.within_s
      [] study.kind = "all_landed" -> Up(At(p.by_s)) = {}
      [] study.kind = "no_task_below_battery" ->
             \A d \in Fleet : \A b \in LowFlights(p, d) : Lasting(p, b[1], b[2]) <= p.grace_s
      [] study.kind = "reaches" -> Visits(p) # {}
      [] study.kind = "final_position" ->
             GapAt(p, Last(frames)) <= Square(p.tolerance_m)
      [] study.kind = "formation_error" ->
             /\ FormationMissions # {} /\ Showing(p) # {}
             /\ \A f \in Showing(p) : ShapeError(p, f) <= Square(p.max_m)
      [] study.kind = "travel_after" ->
             /\ Followed(p) # {}
             /\ \A d \in Followed(p) : Travel(p, d) <= Square(p.max_m)
      [] study.kind = "never_mode" -> \A f \in ToSet(frames) : Of(f, p.drone).mode # p.mode

\* "Measures", where there is something to measure.
Measure(p) ==
    CASE study.kind = "min_separation" -> Min({Closest(p, pair) : pair \in MeetingPairs(p)})
      [] study.kind = "mission_completes" ->
             Min({f.t : f \in Completions(Last(study.missions).id)}) - Last(study.missions).at_s
      [] study.kind = "all_landed" ->
             Min({f.t : f \in {f \in ToSet(frames) :
                                /\ f.t <= At(p.by_s).t
                                /\ \A g \in ToSet(frames) :
                                      f.t <= g.t /\ g.t <= At(p.by_s).t => Up(g) = {}}})
      [] study.kind = "no_task_below_battery" ->
             Max({0} \cup UNION {{Lasting(p, b[1], b[2]) : b \in LowFlights(p, d)} : d \in Fleet})
      [] study.kind = "reaches" -> Min({f.t : f \in Visits(p)})
      [] study.kind = "final_position" -> GapAt(p, Last(frames))
      [] study.kind = "formation_error" -> Max({ShapeError(p, f) : f \in Showing(p)})
      [] study.kind = "travel_after" -> Max({Travel(p, d) : d \in Followed(p)})
      [] study.kind = "never_mode" ->
             Min({f.t : f \in {f \in ToSet(frames) : Of(f, p.drone).mode = p.mode}})

\* The first of the frames in which the formation was furthest from its shape.
WorstShape(p) == CHOOSE f \in Showing(p) : \A g \in Showing(p) :
                     \/ ShapeError(p, g) < ShapeError(p, f)
                     \/ ShapeError(p, g) = ShapeError(p, f) /\ f.t <= g.t

\* A drone furthest from its slot and its apex, when the slots are given out as
\* suits the formation best.
Misfit(p, f, drones) ==
    \E apex \in Apexes(p, f) : \E slot \in SlotChoices(f, apex) : \E d \in DOMAIN slot :
        /\ drones = {d, apex}
        /\ ShapeError(p, f) = Max({0} \cup SlotErrors(f, apex, slot))
        /\ ShapeError(p, f) = SlotError(f, apex, slot, d)

\* Every breach.  never_mode measures nothing but when, which Measure says.
Breaches(p) ==
    CASE study.kind = "min_separation" ->
             {Violation({pair[1], pair[2]},
                        Min({f.t : f \in {f \in Approaches(p, pair) :
                                            ApartAt(f, pair) = Closest(p, pair)}}),
                        Closest(p, pair)) :
                 pair \in {q \in MeetingPairs(p) : Closest(p, q) < Square(p.min_m)}}
      [] study.kind = "all_landed" ->
             {Violation({d}, At(p.by_s).t, Of(At(p.by_s), d).position[3]) : d \in Up(At(p.by_s))}
      [] study.kind = "no_task_below_battery" ->
             UNION {{Violation({d}, frames[b[2]].t, Of(frames[b[2]], d).battery) :
                        b \in {b \in LowFlights(p, d) :
                                  /\ b[1] - 1 \in DOMAIN frames => ~LowFlight(p, d, b[1] - 1, b[1])
                                  /\ Lasting(p, b[1], b[2]) > p.grace_s
                                  /\ b[2] > b[1] => Lasting(p, b[1], b[2] - 1) <= p.grace_s}} :
                       d \in Fleet}
      [] study.kind = "travel_after" ->
             {v \in UNION {{Violation({d}, f.t, Travel(p, d)) : f \in Since(p)} : d \in Followed(p)} :
                 \E d \in v.drones :
                     /\ v.measured > Square(p.max_m)
                     /\ v.t = Min({f.t : f \in {g \in Since(p) :
                            Across(Of(g, d).position, Of(AtEvent(p), d).position) = v.measured}})}
      [] study.kind = "mission_completes" ->
             {Violation({}, Measure(p) + Last(study.missions).at_s, Measure(p))}
      [] study.kind = "reaches" ->
             {Violation({p.drone}, p.by_s, Min({GapAt(p, f) : f \in Watched(p)}))}
      [] study.kind = "final_position" -> {Violation({p.drone}, Last(frames).t, Measure(p))}
      [] study.kind = "formation_error" ->
             {v \in evaluate.violations :
                 /\ v = Violation(v.drones, WorstShape(p).t, Measure(p))
                 /\ Misfit(p, WorstShape(p), v.drones)}
      [] OTHER -> {}

-----------------------------------------------------------------------------
(* Properties. *)

\* A verdict says what the scenario's author was told it says (the column "Holds
\* when" of src/scenarios/README.md): whatever order things happened in, however
\* late a window is and however few drones flew, a pass means that the claim is
\* true and, for a distance, that something was measured (assertions.py:9).
VerdictsAreTrue ==
    frames # <<>> => (evaluate.passed <=> Claim(study.params))

\* The number reported is the measurement documented (the column "Measures"):
\* the closest approach, the longest low flight, the error of the closest fit
\* of the worst frame over every leader and every choice of slots.
MeasuresAreTrue ==
    frames # <<>> /\ evaluate.measured # Unmeasured => evaluate.measured = Measure(study.params)

\* "A violation for every breach, stamped with the time it happened"
\* (assertions.py:4): each pair that came too close once and at its closest, each
\* drone still up, each low flight that outlasted the grace period once and when
\* it did, each drone that strayed once and at its furthest; a drone out of its
\* place in the worst frame of a formation; a late mission when it was complete.
BreachesAreReported ==
    frames # <<>> /\ ~evaluate.passed /\ (\E v \in evaluate.violations : v.measured # Unmeasured)
        => evaluate.violations = Breaches(study.params)

=============================================================================
