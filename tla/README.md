# swarmsim, specified

TLA+ models of swarmsim, the TLC runs that check them on small instances, and
TLAPS proofs of the properties that matter most for instances of any size. The
source is the reference: every definition names, in `PROJECT.json` under `map`,
the lines it stands for. All paths below are relative to `src/`.

## 1. Inventory

swarmsim flies a simulated swarm of PX4 drones. A client (a person's dashboard, or
an agent through the MCP server) talks HTTP to a backend; the backend talks
rosbridge JSON to a ROS graph; there a supervisor plans a mission onto drones and
one controller per drone flies its part by streaming setpoints to PX4.

| part | state it keeps | operations | talks to |
|---|---|---|---|
| **Supervisor** `swarm_coordination/supervisor.py`, `mission_planning.py`, `nodes/mission_dispatcher_node.py` | batteries, the mission in progress (plan, progress, retired, dropped) | start, command, observe battery/progress, `reallocate()` every second | drones by topic; `/swarm/active_mission` (latched) |
| **Drone controller** `drone_controller.py`, `offboard.py`, `waypoints.py` | task, route index, offboard phase, hand-over mode, request times | assign path/slot, command, leader finished, tick | only through its node |
| **Drone node** `nodes/drone_controller_node.py` | last pose, last PX4 state, leader subscription | one handler per topic, a 20 Hz tick, asynchronous service calls | PX4 (mavros), leader's topics |
| **PX4 stand-in** `scenarios/sim.py` | mode, armed, setpoint and its age, flight, battery | serve requests, fail-safes, physics | the node |
| **Aggregator** `swarm_state.py`, `nodes/swarm_state_aggregator_node.py` | last readings of every drone, the active mission | one handler per topic, publish state | backend |
| **Plan gate** `MissionPlanService.cs`, `MissionPlanStore.cs` | plans, status, code hash, deadlines | propose, approve, reject, dispatch, expire on sight | mission service, bridge |
| **Mission service and log** `MissionService.cs`, `MissionLog.cs` | missions and their status | dispatch, abort, land all, refresh | bridge |
| **Idempotent writes** `IdempotencyFilter.cs`, `IdempotencyStore.cs`, client `swarm_client.py` | answers by caller and key | begin, complete, abandon; retry | every write endpoint |
| **rosbridge connection** `RosBridgeSwarmBridge.cs` | socket, last state, back-off | connect, publish, receive, release | ROS |
| **Scenario run store** `ScenarioRunStores.cs`, `ScenarioRuns.cs` | runs on disk, their index | add, get, list, compare | disk |
| **Simulated bridge** `SimulatedSwarmBridge.cs` | simulated drones | dispatch, command, advance on read | mission service |
| **Algorithms** `Deconfliction.cs`, `Formation.cs`, `MissionPlanner.cs`, `formation.py`, `trajectory.py` | none | pure functions | - |
| **Scenario harness** `scenarios/` | a run's world and report | run, judge, compare | controllers and supervisor |

What is hard in it, and what makes each part correct:

* *Supervisor*. One pass edits the plan it loops over; missions, commands and
  hand-overs overwrite each other's orders; progress lags. Correct: plan, orders
  and the published mission agree; no task is lost or skipped; low drones go
  home; nobody is recalled.
* *Drone*. Readings are stale, requests are asynchronous, refused or served late,
  PX4 and pilots switch modes on their own. Correct: complete means done; a
  hand-over prevails and is final; control once lost is not taken back; a path is
  flown to its end.
* *Plan gate*. A dispatch claims, awaits and records; callers race, sends fail,
  people reject, deadlines pass in between. Correct: an approval is one token.
* *API writes*. Time-outs, retries and cancellations. Correct: one effect per key,
  and what callers are told agrees.
* *Mission service, connection, aggregator*. Log order and wire order may differ;
  disposal, reconnection and publishing share a socket; readings are of different
  moments. Correct: Completed means flown, and is noticed in the end; publishing
  happens on a live socket; no failure leaves a lock behind.
* *Run store*. Crashes and failed file operations between steps. Correct: what the
  index lists is there, what was acknowledged is kept.
* *A whole flight*. Orders are lost, cross reports, and leaders are replaced.
  Correct: complete is true, low drones leave, missions are flown, all come down.
* *Scenario harness*. Verdicts over windows and grace periods, a fit over all
  assignments, one exit status for everything. Correct: verdicts mean what is
  documented, and status 0 is earned.

`PROJECT.json` lists the hazards line by line with the property that would catch
each, or why none does yet.

## 2. Modules

| module | what it is |
|---|---|
| `MissionSupervisor` | the supervisor and the dispatcher node |
| `TaskRoster` | abstract: what it promises of a mission's tasks |
| `DroneController` | the controller as pure operators on a record |
| `DroneFlight` | one drone: controller, node, asynchronous calls, PX4 stand-in |
| `SwarmFlight` | a scenario flown: the supervisor, every drone's controller and vehicle, radio |
| `MissionPlanGate` | plans, approval, dispatch |
| `SingleUseApproval` | abstract: an approval as a single-use token |
| `IdempotentWrites` | the retrying client, the filter, the store of answers, an endpoint |
| `ApiParameters` | what the modules of the API process share |
| `RosBridgeConnection` | the connection's loop, its socket and send lock, publishing |
| `MissionService` | the requests that write, and the mission log |
| `SwarmStateAggregator` | dispatcher and drones as far as the aggregator hears of them, and the aggregator |
| `SimulatedSwarm` | the swarm inside the API process |
| `ScenarioRunStore` | runs in memory or in files, and their index |
| `SwarmApi` | the five above composed, in the deployments of the repository |
| `Retention` | which entries a walk over a store leaves |
| `FormationFit` | shapes, and the closest fit of drones to one |
| `ScenarioVerdicts` | the nine assertions on recorded frames |
| `ScenarioSuite` | a run of the suite, from its options to its exit status |
| `*_proofs` | theorems about the module of that name; `MissionSupervisor_proofs` has those about `TaskRoster`, `SwarmApi_proofs` those about the connection, the run store and the mission service, `ScenarioVerdicts_proofs` those about `FormationFit`, `ScenarioHarness_proofs` those about `ScenarioSuite` and `SwarmFlight` |
| `MC_*` | instances for TLC |

**MissionSupervisor.** The node is single-threaded, so a handler is one action;
only the loop of `reallocate()` is split, one action per visited drone, and while
`scanning` holds no other handler runs. That keeps each hand-over readable and
lets invariants speak of the middle of a pass. `order` is the last message sent to
each drone, on any of its topics. A route is a lane and the number of its
waypoints that are left: `Rest(d)` is the slice of `_hand_over`. A battery is
unknown, low or ok, which is all the code tells apart. A plan is the default
planner's or one of `PlannerPlans`, what an injected planner may return, sound or
not; `Usable` is the code's test of it.

**DroneController / DroneFlight.** The code keeps the controller pure and lets the
node drive it; so do the modules. `Tick` follows the order of the tests in
`tick()`. Time is two questions, answered either way: has the retry interval
passed, is the leader silent. Space is places. `calls` is the set of requests
under way: any may be served late, refused or lost. Between a reading and the
vehicle there is always a separate action (`OnLocalPose`, `OnState`), so every
decision may rest on an old reading. `reached` and `landedWith` are history. A
route that names one waypoint twice in a row is left out (`Straight`): places
cannot tell the first visit from the second.

**SwarmFlight.** Extends `MissionSupervisor` and instantiates `DroneController`
once for every drone's software. The harness' loop has a fixed order, and so has a
step: events, ground station, every drone, network, vehicles. `inbox` and
`pending` are what the radio holds; what is sent to or by a drone that is cut off
is lost. A step is a second where the code's is a tenth, and what the code repeats
every second is repeated in every step; a leg, a climb, a descent take whole
steps, a vehicle has a leg time of its own. The time-outs keep the order they
have in the code, with one assumption: a landed drone that is to follow a leader
that took off since is not disarmed before it goes (`LandDisarm`). The routes an
injected planner returns in a flight are whole lanes or empty, since how far a lane was
flown is counted from its first waypoint. Three variables are history: `flown` counts
a lane's waypoints, `missed` names the drones that never got the last order sent to
them, and `lowFor` counts the steps in a row that a drone which can be heard is seen on
its task with a low battery. It starts over while an order is astray, lost or revived by
a hand-over of the leader's path: what two of those make of a drone is finding 1.

**MissionPlanGate.** Every change under the store's lock is one action. A
dispatch is claim, bridge, outcome: three actions of a caller between which
everything else may happen. Expiry happens when a plan is looked at, as in
`Expire`, so a plan whose deadline passed keeps its status until then (`late`). A
code is right or wrong; an approval is made at most once per plan.

**IdempotentWrites.** An attempt of a call is on the wire, running, acted or
over; several attempts may be anywhere at once, and a client that gave up on one
makes the next. `Outcome` and `Start` are `Begin`, one action under the store's
lock; `Complete` and `Abandon` hit whichever entry the key has by then, as the
code does. `Fail` is a 5xx, an exception or a cancellation, before or after the
effect. `done`, `unsettled` and `forgotten` are history: which attempts acted, which
keys had one that acted and failed, which keys the store dropped for room, age
or a restart. Properties that cannot hold for a dropped key say so by `forgotten`.

**RosBridgeConnection.** One loop connects, introduces itself, puts the socket in
service, receives, releases, waits. `wire` is a socket as this side knows it
("dead": the peer is gone and nobody noticed), `lock` the send semaphore. A publish is
five actions (wait, take, send, give back, return) and may be cancelled in two.

**MissionService.** Each lock region of the log is one action; a write asks the
bridge in between, so two requests may reach the wire in one order and the log in
the other. Missions are numbers in the order they were first sent, which makes the
log's order of arrival and its trim (`Excess`) arithmetic.

**SwarmStateAggregator.** Every reading is a copy of the truth at an earlier
moment, taken in an action of its own. Missions and commands come on two topics:
each keeps its order, not both. The crew of a mission is fixed; hand-overs are in
`SwarmFlight`.

**SimulatedSwarm.** Moves when read or commanded, by whatever the time since has
made possible (`Stepped` is a set).

**ScenarioRunStore.** Writing, moving, indexing, deleting and acknowledging are
separate actions; each file operation may fail, and the process may end between
any two, after which the index is rebuilt from the directory.

**SwarmApi.** Requests take a free place in `Callers`; `deployment`, chosen at the
start, is a bridge, a store and bounds. Every step of it is a step of one or more parts;
`ConnectionIsImplemented`, `StoreIsImplemented` and `ServiceIsImplemented` prove it of
three. `doubt` is history:
a write was cancelled, failed in doubt, overlapped another, or the process ended.

**FormationFit / ScenarioVerdicts.** The code's algorithms, loop by loop, on
integers (squared distances): augmenting paths inside a binary search; one
operator per assertion. A loop, and the search that calls itself, is a recursive
function: `Augment` takes an attempt of a row and how far the search has come, and
one turn of it is `TryColumn`. Beside them, in a line or a few each, what the table in
`scenarios/README.md` and the head of `assertions.py` say the assertion means:
`Claim`, `Measure` and `Breaches`. Any sequence of frames may be judged, not only those
the reference swarm produces. `StudiesAssumption` says what a scenario is: at least one
drone, one of the nine assertions with the parameters its schema requires (`spec.py`),
about drones it has.

**ScenarioSuite.** Options, discovery, loading, names, flights, mutants, report:
one action per stage, per flight in `Fly`. How a flight ends is drawn at the start
(`fate`), since a run is reproducible from its seed.

## 3. Runs

| run | bounds | distinct states | shows |
|---|---|---|---|
| `supervisor` | 3 drones, 2 waypoints, missions for 2 | 488 k | all properties of the supervisor |
| `supervisor_dropped` | as `supervisor` | violation | finding 1 |
| `drone_orders` | 2 waypoints, 2 orders, or 1 and a pilot switch | 1.4 M | safety of one drone |
| `drone_live` | 1 waypoint, 2 orders | 62 k | liveness of one drone |
| `drone_released` | one slot order | violation | finding 2 |
| `plan_gate` | 2 plans, 2 callers, capacity 1 | 134 k | all properties and the refinement |
| `plan_gate_rejected` | 1 plan, 1 caller | violation | finding 4 |
| `idempotent_writes` | 3 calls, 4 attempts, 2 keys, capacity 1, 1 restart | 1.3 M | safety of repeated writes |
| `writes_unreachable` | as above, no restart | violation | finding 5 |
| `swarm_api` | 9 deployments, 2 requests at a time, at most 3 writes or 4 runs | 109 k | safety and liveness of the API process |
| `scenario_harness` | 38 studies, 36 suites, flights of 3 drones with 3 events | 524 k | flights, verdicts, the suite |
| `flight_reported` | 4 drones, 5 events in one order, at any times | violation | finding 3 |

*Why these bounds.* Three drones for a mission of two give a drone to spare, one
low twice in a pass, and the case of nobody left. One lane is never confused with
another because two are flown. Two waypoints tell "skipped" from "not yet". Two
orders give every pair of an old and a new task; one order and a switch at any
moment, every single take-over. Two callers race for a code; a capacity below the number of plans
makes every proposal an eviction. For writes, one retry makes two runs of a call
meet, a call by hand shares its key, asking for the same or not, and with room
for one entry a second key evicts while the first runs. `WarmupTicks = 1`: the
count is only compared with a limit. `MaxEvents`
(orders and pilot's switches together), `MaxUnsure`, `MaxRestarts`,
`MaxHappenings` and a deployment's `writes`, `runs`, `restarts` and `drops` bound
counters, in guards.

`swarm_api` takes the two deployments of the repository (`docker-compose.yml:53`:
rosbridge and runs in memory; `flyio/swarmsim-api.fly.toml:18-19`: simulated, runs
in files), several times each: writes that overlap; a connection and a process
that end; two drones on one mission; more missions than the log holds; more runs
than are kept, with two restarts. What one of these does is independent of the
others, so they are separate initial states, not one large product. Two
requests at a time are enough to overlap, to wait for a lock and to interleave a
read with a write.

`scenario_harness` asks three questions in one run. *Flights*: three drones of
which one flies legs of two steps, two missions (a formation, two abreast), a
return, one battery that gets low and one that goes flat, losses of contact
longer and shorter than `CommsTimeout`; any three of these, at any step. The
injected planner may lead by a drone that is not the first, or return an
unusable plan. *Verdicts*: every trace of a few frames of the samples an
assertion can tell apart, with windows that miss, cover and cut the flight, grace
periods of 0 to 2 frames, formations of 2 to 4 drones. *Suites*: every
outcome of two scenarios, two seeds and two mutants, with and without an expectations
file, and the inputs that are refused.

Calls, suites and flights end, so four runs may stop (`CHECK_DEADLOCK FALSE` in
`idempotent_writes`, `writes_unreachable`, `scenario_harness` and `flight_reported`).

*Fairness.* `MissionSupervisor` assumes that the timer calls `reallocate()` and a
pass ends (a loop over a finite list); nothing about drones or operators.
`DroneFlight` assumes that the node's timer goes on with the retry interval
passing again and again, that telemetry is published over and over, that requests
repeated for ever are not refused for ever, and that the vehicle moves to a
setpoint it is given for long enough. No order, leader or pilot is obliged to
come, and `CallFails` has no fairness: any single request may be lost.
`SwarmApi` assumes that threads and the loop run, that state is published and
readings are heard again and again, that somebody reads the state, and, strongly,
that of endless attempts to connect one succeeds; no drone has to finish and
nobody has to write. In `SwarmFlight` the harness' loop goes on (it is a `while`);
no event has to happen.

Every property has a mutant in the modules (an operator named for the bug it
makes) under which TLC finds it violated; `TaskDoneNever` and `ObeyNoCommand` are the broken swarms
`never_lands` and `deaf_to_commands` of `scenarios/mutants.py`.

## 4. Proved

By TLAPS, for any number of drones, missions, plans, callers and identities:

* `MissionSupervisor_proofs`: `SupervisorInv` is inductive. It is `TypeOK`,
  `PlanSound`, `OrdersMatchPlan`, `PassLeavesNobodyBehind` and `PassBookkeeping`;
  the last says where a pass stands, without which a pass could publish nothing
  after having changed the plan. `DistinctTasks` in `PlanSound` is what makes
  "whose task is this" well defined through hand-overs. The default planner is
  proved to return sound plans (`PlanMissionIsSound`), from lemmas about ranks
  and least elements of finite sets; an injected one is covered by `Usable` and
  the assumption that its plans name their lanes and slots once.
  Theorems: `SpecInv`, `SpecTypeOK`, `SpecPlanSound`, `SpecOrdersMatchPlan`,
  `SpecActiveMatchesPlan`, `SpecPassLeavesNobodyBehind`; and, as action properties
  from the same invariant, `SpecHandOverLosesNothing` and `SpecOnlyFitDronesJoin`.
* The same module, on `TaskRoster`: the supervisor implements the roster (`SpecImplementsRoster`).
  In a sound plan a task has one holder (`HoldersOfSoundPlan`), so that the mapping,
  which chooses the holder of a task, chooses nothing; a hand-over then changes the
  roster at one task only (`HandOverMovesOneTask`), although replacing a leader
  rewrites the slots of its followers.
* `DroneFlight_proofs`: `DroneInv` is inductive. What it adds to
  `CompleteMeansDone`: a reading of the waypoint flown to that was not acted upon
  yet is of one the drone was at (`CountsWhatItReached`), without which an old
  reading could count a waypoint; `Straight` then makes the next waypoint differ
  from that reading. `Ticking` says what any tick may do, whatever was read:
  the other two theorems rest on it alone.
  Theorems: `DroneInvariance`, `SpecCompleteMeansDone`, `SpecHandoverIsFinal`,
  `SpecNeverDraggedBack`.
* `MissionPlanGate_proofs`: `GateInv` is inductive. Beyond the properties it says
  that a plan nobody has approved is untouched (no code, no dispatch, no flight,
  no approver), which is what an approval starts from. `ClaimedPlan` is the fact
  every outcome of a dispatch rests on: the caller is the only one, the code is
  gone, the plan was approved. Then each action is shown to be a step of
  `SingleUseApproval` or a stutter.
  `StoreInv` adds what the store keeps: a plan that is waiting never goes when room
  is made (`WithoutContents`), so whoever gives a code back finds the plan.
  Theorems: `SpecGateInv`, `SpecTypeOK`, `SpecCodeIsHeldOnce`,
  `SpecFliesAtMostOnce`, `SpecFliesOnlyApprovedByAnother`, `SpecWaitingPlansAreKept`,
  `SpecApprovalOutlivesFailures`, `SpecImplementsApproval`.
* `Retention_proofs`: what `Without` leaves, for sequences of any length: just the
  entries that stay, each once, in their order (`WithoutPicks`, `WithoutContents`),
  and how many (`WithoutLength`). The walk is a recursive function, so the proofs
  are by induction over how far it went. `InductionUpTo` and `RecursionUpTo` are
  drawn from the well-foundedness of `<`: they take a set and a function where the
  library's theorems take an operator.
* `IdempotentWrites_proofs`: `WriteInv` is inductive. The four parts that make it
  so: a run's key has the run's entry and no answer (`RunHoldsKey`); what took
  effect is still running or is what the store answers (`DoneIsKnown`); what a
  caller was told is what the store answers (`AnswerIsKept`); a stored success is
  of that key and fingerprint (`ResponseIsTrue`). `SoleRun` draws from them what
  the end of a run rests on: nobody else runs or was told anything under its key.
  The list of the store needs no induction: whatever it evicts is in `forgotten`.
  Theorems: `SpecWriteInv`, `SpecUnansweredIsRunning`, `SpecOneRunAtATime`,
  `SpecActsAgainOnlyInDoubt`, `SpecAnswersAgree`, `SpecResultIsTrue`.
* `SwarmApi_proofs`, first on the connection, the run store and the mission
  service, each by itself: the invariants (`ConnectionInvariance`, `StoreInvariance`,
  `ServiceInvariance`), from which publishing happens on a live socket
  (`ConnectionIsLive`), indexed runs are on disk and acknowledged ones kept
  (`StoreKeepsRuns`), and the mission log is bounded (`ServiceLogIsBounded`). The
  last needs `PlacesAreTaken`: active missions, which a trim leaves alone, and
  requests about to add one are together no more than requests there can be.
* The same module, on the whole: the composition implements the three parts
  (`ConnectionIsImplemented`, `StoreIsImplemented`, `ServiceIsImplemented`), so their
  theorems hold of it (`PublishesLive`, `IndexedAreOnDisk`, `AcknowledgedAreKept`,
  `LogStaysBounded`); `ApiInv` is
  inductive (`ApiInvariance`) and gives `CompletedMeansFlown`: every report that a
  mission is complete, in any topic, message or copy of it, is of drones that finished
  their part. `SettledMeansAgreed` is about the log: `SettledInv` follows one write
  from the moment its message may leave (`IsOrdered`) to the last change of the log, and
  compares the log with the mission the swarm is bound for (`BoundFor`), which takes
  in what is still on a topic. Nothing is claimed once writes overlapped or an answer
  was lost (`doubt`): there the code does let the two part.
* `ScenarioHarness_proofs`, on a run of the suite: `SuiteInv` is inductive (`SuiteInvariance`). A stage says
  what is so far known of the documents: no file is read twice, every one accepted
  is waiting or a scenario, and there is no error only if there is nothing to
  complain of (`Loading`, `AllLoaded`); what was flown is what the seeds' flights
  say (`Flying`, `AllFlown`). At the end the reports are those on the accepted
  scenarios (`ReportsOnAll`), and the status compares with the flights themselves
  (`SpecOkIsEarned`), the JUnit report and the traces with the reports
  (`SpecFailuresAreExplained`). Names are told apart by a count (`NamesUsedTwice`).
* The same module, on a flight: `FlightInv` is inductive (`FlightKeepsInv`), for any
  swarm, lanes, leg times, time-outs, scenario and losses of contact. It takes
  `SupervisorInv` and says what ties the parts together across the radio. A task of the
  present mission, on its way or being flown, is the one its drone has in the plan, unless
  the drone was replaced (`MessagesSuit`, `SoftwareSuits`); for that, tasks arrive in the
  order of their missions (`MissionsInOrder`) and no mission id returns
  (`NamesAreUsed`). What a drone counts of its route, and what the supervisor was told
  of it, was flown (`Covered`, `ProgressIsCovered`): a hand-over gives the rest of a
  route by the reports, which may be late but never ahead. The aggregator waits for
  every drone of the mission, or for one that is not done (`ActiveIsBehind`), also in the
  middle of a pass. From these, `FlightCompleteIsTrue`.
  `FlightLowDronesLeaveTheirTask` rests on the other half: the last order to a drone that
  missed none is still to be sent, has arrived or was carried out (`LastOrders`); a
  vehicle in OFFBOARD has a task and is not being handed over (`VehiclesObey`); and the
  steps from a low battery to the command (`LowDronesAreTold`).
  A turn of a drone is proved in layers: what a tick does to a controller (`Ticking`), what an
  order (`Obeying`), what the whole inbox, by induction over its length (`ReadingAll`),
  what the autopilot and a second of flight do to the vehicle (`Actuating`,
  `VehicleStepping`), and together `TickFlown` and `Turning`. An earlier form
  of `LowDronesLeaveTheirTask`, which let `lowFor` run on while an order was astray, passed
  its run of three events; the proof did not go through, and TLC found it violated with four.
* `ScenarioVerdicts_proofs`, on the fit, for formations of any size and any
  positions. The recursion of the search defines a function (`SearchEnds`), since a
  search within a search has seen more columns and a later turn has fewer left
  (`RecursionByRank`). A row that is given a column keeps the matching one-to-one
  (`SearchFinds`). A row that is given none, and the rows that hold the columns it looked at, are
  more than the columns they may hold (`TooFewColumns`), by counting alone and without an
  argument about paths. Hence `MatchingIsFound`; the binary search over the distinct
  costs, each half by what a matching means, is `AssignmentIsBest`; the loop over the
  apexes, `FitIsClosest`.
* The same module, on the verdicts: `VerdictInv` says that frame `i` is of time `i`
  and of every drone. An assertion's loop is then a walk over frames, with an invariant
  about those met so far (`UpTo`), and every one of the nine has a lemma
  (`MinSeparationIsJudged`, ..., `FormationErrorIsJudged`) which compares its verdict,
  its number and its violations with `Claim`, `Measure` and `Breaches`. Longest is that
  of a low flight, whose loop restarts a clock and forgets it at a recovery, while the
  meaning speaks of stretches of frames.
  Theorems, for every scenario and every recording: `EveryVerdictIsTrue`,
  `EveryMeasureIsTrue`, `EveryBreachIsReported`.

Only model-checked: liveness under fairness, out of the prover's reach
(`LowDroneIsSentHome`, `PathIsFlown`, `HandoverPrevails`, `CompletionIsNoticed`,
`EveryRequestEnds`, `MissionsAreFlown`, `EveryFlightEnds`). Every invariant and every
action property that a passing run checks is proved.

Two limits of what the proofs say. `Studies` and `Views` range over integers, so
what rounding does to a distance near its limit is not covered. That a recursive
function's value is as its equation says is itself proved, from ranks or lengths; tlapm
does not take it from the definition.

## 5. Findings

1. **A low drone is put back into the air** (`supervisor_dropped`). When a leader
   is replaced, `_hand_over` sends a slot to each of its followers, also to one
   dropped earlier, still low (`supervisor.py:318-321`; the promise is line 10).
2. **Asking PX4 after it took over** (`drone_released`). `tick()` tests the
   leader's silence and the end of the task before the sequencer's phase, so a
   drone PX4 took out of OFFBOARD asks it for AUTO.RTL or AUTO.LAND all the same
   (`drone_controller.py:119-135`; the promise is line 139).
3. **Complete with a drone in the air** (`flight_reported`). `mission_complete` goes
   by the last readings, however old (`swarm_state.py:48`; the promise is line 43).
   The leader of a formation hands over, its follower misses that and, done with the
   old leader, lands; the next hand-over sends it a new slot and it takes off; contact
   is lost before it reports; the new leader finishes, and "complete" is published. In
   `scenarios/` the same events (4 drones, legs of 30 m, contact lost for 1.5 s and 40 s) show it
   for over 4 s with the follower in the air. `CommsTimeout` is 7 steps in this run since a
   return, half a minute there, is one step here.
4. **A rejected plan flies** (`plan_gate_rejected`). `Reject` succeeds while a
   dispatch awaits the bridge; the plan ends as Dispatched
   (`MissionPlanService.cs:148-151`; docs/adr/0009, lines 61-62).
5. **Told that nothing was done** (`writes_unreachable`). When an attempt was
   received but not answered in time and its retry is refused a connection, the
   client raises `SwarmUnreachable` (`swarm_client.py:219`), which is to say
   "Nothing was received by the API, so nothing was done" (line 57).

`ActsAgainOnlyInDoubt` names the doubt that `mcp_server/BEHAVIOUR.md:33-34` ("the retry
cannot fly anything twice") does not: a write that took effect and then failed or was
cancelled is not stored, and the retry runs it again.

`FliesAtMostOnce` holds only up to `unsure`: a send that broke after the message
left is reported as unreachable and the code is given back, so a retry flies the
mission again (`RosBridgeSwarmBridge.cs:183-188` says callers must not blindly
resend).

Seen while modelling, and kept out of the runs because no line of the repository
promises otherwise, or because it lies outside the bounds:

* *Reconnection.* From a new connection to its first message the bridge reports
  the state of the old one as connected (`RosBridgeSwarmBridge.cs:148-151`).
* *Log and wire.* Overlapping dispatches may reach the wire in one order and the
  log in the other. A mission the swarm rejects stays Active in the log and its
  predecessor Aborted. An abort stops whatever flies by then; a land-all ends in
  the log a mission dispatched after it; a command may overtake a mission, which is on
  another topic. An abort in doubt leaves its mission Active.
* *Aggregator.* A reading `armed = false` older than the flight lets a mission count
  as complete before its drones have landed. A plan dispatched again under its id is
  judged by the completion of its first flight.
* *Run store.* `GetAsync` tests for the file and then opens it, with an
  eviction possible in between. A crash or a failed deletion leaves `.tmp` and
  evicted files behind. After a restart the index is in the order of names, not of
  arrival.
* *Orders lost on the radio.* With a particular order lost in each of two hand-overs,
  two drones may follow each other for ever. A grounded follower that loses its leader
  climbs in order to go home. The followers of a dropped leader follow it home.
* *Grounded follower.* A follower that never took off is reported complete when its
  leader finishes (`drone_controller.py:133`), and the mission with it.
* *Flat battery.* A drone handed over to AUTO.RTL with a flat battery is thrown to
  AUTO.LAND and asks again every second (`drone_controller.py:185`,
  `sim.py:167-170`), sooner than the 2 s after which it would be disarmed. `EveryFlightEnds`
  excepts it by `Hopping`.
* *Suite.* An expected failure of which some seeds pass is a failure in the JUnit
  report and status 0 (`runner.py:38-42` and `236-242`). Scenarios that share a name are
  reported as an error, flown all the same, and overwrite each other's traces. The
  mutation check flies the first seed only. A retried upload may say "could not be
  reached" of a run that was stored (`upload.py:49-58`).

## 6. Not modelled

*Left out of the modelled parts.* Payload parsing, coordinates and frames,
speeds, wind and sensor noise, drain rates (a battery's level changes by an event),
logging. In `sim.py` the movement is legs of whole steps; in `spec.py`, every
check of a document is one of a few ways to be refused; in the report, the wording
and layout. A route that names a waypoint twice in a row is excluded (`Straight`): places do not
tell the two visits apart. In `SwarmFlight` a mission's id is used once; sent again under
its id it would be judged by reports of its first flight. `MissionSupervisor` may get
any mission at any time.
A take-off with a flat battery asks for OFFBOARD for ever; `PathIsFlown` excludes it by
`flat`.

*Left out as parts.* Deconfliction, lane and trajectory geometry: real arithmetic
without state. Comparing and uploading runs: a pure comparison and one HTTP call.
HTTP routing, authentication, telemetry, the dashboard, MCP tool wrappers, launch and
PX4 parameters: no behaviour of their own over time.

*Simplified by composition.* In `SwarmApi` the crew of a mission is fixed, so
hand-overs do not reach the aggregator there; in `SwarmFlight` they do, in the
harness' fixed order and without rosbridge. That a drone of a superseded mission which
has no part in the next one is sent home is seen in `MissionSupervisor` only: three
events do not bring a flight there.

## 7. Plan

1. Missions sent again under the same id, in `SwarmFlight` and `SwarmApi`: which of
   two flights a report is of.
2. Hand-overs in `SwarmStateAggregator`: a crew that changes while readings of its
   former members are on the way.
3. Comparing runs and uploading them with retries, beside `ScenarioRunStore`.
4. Deconfliction on a grid of whole metres, against the definition of a conflict.
