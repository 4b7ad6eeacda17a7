-------------------------- MODULE DroneFlight_proofs --------------------------
(* Theorems about DroneFlight, for any routes, missions, leaders and orders,   *)
(* and their proofs.                                                          *)
EXTENDS DroneFlight, TLAPS

-----------------------------------------------------------------------------
(* The inductive invariant. *)

\* Of a route, the drone counts no more than it was at, and a reading that it has
\* not acted upon yet is of a waypoint it was at.
CountsWhatItReached ==
    ctl.task = "path" =>
        /\ Straight(ctl.route)
        /\ ctl.index <= reached
        /\ reached <= Len(ctl.route)
        /\ ctl.index < Len(ctl.route) /\ ctl.route[ctl.index + 1] = position
              => ctl.index < reached

HeardItsLeader == ctl.task = "slot" /\ ctl.leaderDone => ctl.mission \in landedWith

\* A part reported complete is done by the drone's own count.
CompleteIsCounted == ctl.complete => ctl.task # None /\ TaskDone(ctl)

DroneInv ==
    /\ TypeOK
    /\ CountsWhatItReached
    /\ HeardItsLeader
    /\ CompleteIsCounted

-----------------------------------------------------------------------------
(* What a tick returns. *)

\* A controller's route can be indexed as the tick does.
OnRoute(c) == c.task = "path" => c.index <= Len(c.route)

\* The task is the same, and what is complete now was or is done.
SameTask(c, d) ==
    /\ d.task = c.task /\ d.mission = c.mission /\ d.route = c.route
    /\ d.leaderDone = c.leaderDone

IsOutput(out) ==
    /\ out.setpoint \in Places \cup {None}
    /\ out.request_mode \in Modes \cup {None}
    /\ out.request_arm \in BOOLEAN

\* A step that leaves the task, its count and how it ends as they are.
GoesOn(c, r) ==
    /\ r.ctl \in Controllers
    /\ SameTask(c, r.ctl)
    /\ r.ctl.index = c.index
    /\ r.ctl.complete = c.complete
    /\ r.ctl.handover = c.handover
    /\ IsOutput(r.out)

AsksOnlyToHandOver(c, out) == out.request_mode \in {None, c.handover} /\ ~out.request_arm

LEMMA HandingOver ==
  ASSUME NEW c \in Controllers, NEW armedNow, NEW modeNow, NEW elapsed \in BOOLEAN
  PROVE  /\ GoesOn(c, KeepHandingOver(c, armedNow, modeNow, elapsed))
         /\ AsksOnlyToHandOver(c, KeepHandingOver(c, armedNow, modeNow, elapsed).out)
<1> DEFINE r == KeepHandingOver(c, armedNow, modeNow, elapsed)
           asking == [c EXCEPT !.handoverAsked = TRUE]
<1>1. /\ asking \in Controllers
      /\ SameTask(c, asking)
      /\ asking.index = c.index /\ asking.complete = c.complete
      /\ asking.handover = c.handover
  BY DEF Controllers, SameTask
<1>2. c.handover \in Modes \cup {None}
  BY DEF Controllers
<1>3. r = Result(c, Quiet) \/ r = Result(asking, Output(None, c.handover, FALSE))
  BY DEF KeepHandingOver
<1> HIDE DEF r, asking
<1>4. CASE r = Result(c, Quiet)
  <2>1. r.ctl = c /\ r.out = [setpoint |-> None, request_mode |-> None, request_arm |-> FALSE]
    BY <1>4 DEF Result, Quiet, Output
  <2>2. QED
    BY <2>1 DEF GoesOn, SameTask, IsOutput, AsksOnlyToHandOver, r
<1>5. CASE r = Result(asking, Output(None, c.handover, FALSE))
  <2>1. /\ r.ctl = asking
        /\ r.out = [setpoint |-> None, request_mode |-> c.handover, request_arm |-> FALSE]
    BY <1>5 DEF Result, Output
  <2>2. QED
    BY <1>1, <1>2, <2>1 DEF GoesOn, IsOutput, AsksOnlyToHandOver, r
<1>6. QED
  BY <1>3, <1>4, <1>5

AsksNothing(out) == out.request_mode = None /\ ~out.request_arm

\* A controller that differs in the offboard sequencer's own fields only.
Resequenced(c, d) ==
    /\ d \in Controllers
    /\ SameTask(c, d)
    /\ d.index = c.index /\ d.complete = c.complete /\ d.handover = c.handover

LEMMA Resequencing ==
  ASSUME NEW c \in Controllers, NEW p \in Phases, NEW n \in Nat, NEW b \in BOOLEAN
  PROVE  /\ Resequenced(c, [c EXCEPT !.phase = p])
         /\ [c EXCEPT !.phase = p].phase = p
         /\ Resequenced(c, [c EXCEPT !.asked = b])
         /\ Resequenced(c, [c EXCEPT !.phase = p, !.asked = b])
         /\ [c EXCEPT !.phase = p, !.asked = b].phase = p
         /\ Resequenced(c, [c EXCEPT !.streamed = n, !.phase = p])
BY DEF Resequenced, SameTask, Controllers

LEMMA Stepping ==
  ASSUME NEW c \in Controllers, NEW armedNow, NEW modeNow, NEW elapsed \in BOOLEAN,
         NEW target \in Places \cup {None}
  PROVE  /\ GoesOn(c, StepOffboard(c, armedNow, modeNow, elapsed, target))
         /\ c.phase \in {"active", "released"} =>
               AsksNothing(StepOffboard(c, armedNow, modeNow, elapsed, target).out)
<1> DEFINE r == StepOffboard(c, armedNow, modeNow, elapsed, target)
           stream == Output(target, None, FALSE)
           seen == IF c.phase = "request_mode" /\ modeNow = OFFBOARD
                   THEN [c EXCEPT !.phase = "request_arm", !.asked = FALSE] ELSE c
           due == ~seen.asked \/ elapsed
           warm == [c EXCEPT !.streamed = c.streamed + 1,
                             !.phase = IF c.streamed + 1 >= WarmupTicks
                                       THEN "request_mode" ELSE "warmup"]
           asksMode == [seen EXCEPT !.phase = "request_mode", !.asked = TRUE]
           asksArm == [seen EXCEPT !.asked = TRUE]
           letsGo == [seen EXCEPT !.phase = "released"]
           inControl == [seen EXCEPT !.phase = "active"]
<1>1. /\ Resequenced(c, seen)
      /\ seen.phase \in {"request_mode", "request_arm"} => c.phase \notin {"active", "released"}
  <2>1. CASE c.phase = "request_mode" /\ modeNow = OFFBOARD
    BY <2>1, Resequencing DEF Phases
  <2>2. CASE ~(c.phase = "request_mode" /\ modeNow = OFFBOARD)
    BY <2>2 DEF Resequenced, SameTask
  <2>3. QED
    BY <2>1, <2>2
<1> HIDE DEF seen
<1>2. /\ due \in BOOLEAN /\ seen \in Controllers
      /\ c.streamed \in Nat
  BY <1>1 DEF Resequenced, Controllers
<1>3. /\ Resequenced(c, warm)
      /\ Resequenced(seen, asksMode) /\ Resequenced(seen, asksArm)
      /\ Resequenced(seen, letsGo) /\ Resequenced(seen, inControl)
  <2>1. c.streamed + 1 \in Nat
    BY <1>2
  <2>2. QED
    BY <1>2, <2>1, Resequencing DEF Phases
<1> DEFINE quietly == Result(c, Quiet)
           warming == Result(warm, stream)
           askingMode == Result(asksMode, Output(target, IF due THEN OFFBOARD ELSE None, FALSE))
           askingArm == Result(asksArm, Output(target, None, due))
           lettingGo == Result(letsGo, Quiet)
           controlling == Result(inControl, stream)
<1>4. \/ r = quietly
      \/ c.phase = "warmup" /\ r = warming
      \/ seen.phase \in {"request_mode", "request_arm"} /\ r = askingMode
      \/ seen.phase = "request_arm" /\ r = askingArm
      \/ r = lettingGo
      \/ r = controlling
  <2>1. r = CASE c.phase \in {"idle", "released"} -> quietly
              [] c.phase = "warmup" -> warming
              [] seen.phase \in {"request_mode", "request_arm"} /\ modeNow # OFFBOARD -> askingMode
              [] seen.phase = "request_arm" /\ armedNow # "yes" -> askingArm
              [] seen.phase = "active" /\ modeNow \notin {OFFBOARD, None} -> lettingGo
              [] OTHER -> controlling
    BY DEF StepOffboard, seen
  <2> HIDE DEF r, quietly, warming, askingMode, askingArm, lettingGo, controlling
  <2>2. QED
    BY <2>1
<1> HIDE DEF warm, asksMode, asksArm, letsGo, inControl, due, r
<1>5. \E d, m, a :
         /\ Resequenced(c, d) /\ m \in Modes \cup {None} /\ a \in BOOLEAN
         /\ \E t \in Places \cup {None} : r = Result(d, Output(t, m, a))
         /\ c.phase \in {"active", "released"} => m = None /\ ~a
  <2>1. Resequenced(c, c)
    BY DEF Resequenced, SameTask
  <2>2. /\ Resequenced(c, asksMode) /\ Resequenced(c, asksArm)
        /\ Resequenced(c, letsGo) /\ Resequenced(c, inControl)
    BY <1>1, <1>3 DEF Resequenced, SameTask
  <2>3. CASE r = Result(c, Quiet)
    BY <2>1, <2>3 DEF Quiet
  <2>4. CASE r = Result(letsGo, Quiet)
    BY <2>2, <2>4 DEF Quiet
  <2>5. CASE r = Result(inControl, stream)
    BY <2>2, <2>5
  <2>6. CASE c.phase = "warmup" /\ r = Result(warm, stream)
    BY <1>3, <2>6
  <2>7. CASE seen.phase = "request_arm" /\ r = Result(asksArm, Output(target, None, due))
    BY <1>1, <1>2, <2>2, <2>7 
  <2>8. CASE /\ seen.phase \in {"request_mode", "request_arm"}
             /\ r = Result(asksMode, Output(target, IF due THEN OFFBOARD ELSE None, FALSE))
    <3>1. (IF due THEN OFFBOARD ELSE None) \in Modes \cup {None}
      BY DEF Modes
    <3>2. QED
      BY <1>1, <2>2, <2>8, <3>1
  <2>9. QED
    BY <1>4, <2>3, <2>4, <2>5, <2>6, <2>7, <2>8
<1>6. QED
  <2>1. PICK d, m, a :
           /\ Resequenced(c, d) /\ m \in Modes \cup {None} /\ a \in BOOLEAN
           /\ \E t \in Places \cup {None} : r = Result(d, Output(t, m, a))
           /\ c.phase \in {"active", "released"} => m = None /\ ~a
    BY <1>5
  <2>2. PICK t \in Places \cup {None} : r = Result(d, Output(t, m, a))
    BY <2>1
  <2>3. /\ r.ctl = d
        /\ r.out = [setpoint |-> t, request_mode |-> m, request_arm |-> a]
    BY <2>2 DEF Result, Output
  <2>4. QED
    BY <2>1, <2>3 DEF GoesOn, Resequenced, IsOutput, AsksNothing, r

LEMMA Advancing ==
  ASSUME NEW c \in Controllers, NEW read, c.index <= Len(c.route)
  PROVE  /\ Advance(c, read) \in Controllers
         /\ SameTask(c, Advance(c, read))
         /\ Advance(c, read).phase = c.phase
         /\ Advance(c, read).complete = c.complete
         /\ Advance(c, read).handover = c.handover
         /\ Advance(c, read).index <= Len(c.route)
         /\ \/ Advance(c, read).index = c.index
            \/ /\ Advance(c, read).index = c.index + 1
               /\ c.index < Len(c.route)
               /\ c.route[c.index + 1] = read
<1> DEFINE next == [c EXCEPT !.index = c.index + 1]
<1>1. c.index \in Nat /\ Len(c.route) \in Nat
  BY DEF Controllers
<1>2. /\ next \in Controllers /\ SameTask(c, next) /\ next.phase = c.phase
      /\ next.complete = c.complete /\ next.handover = c.handover
      /\ next.index = c.index + 1
  BY <1>1 DEF Controllers, SameTask
<1> HIDE DEF next
<1>3. CASE c.index < Len(c.route) /\ c.route[c.index + 1] = read
  <2>1. Advance(c, read) = next
    BY <1>3 DEF Advance, next
  <2>2. QED
    BY <1>1, <1>2, <1>3, <2>1
<1>4. CASE ~(c.index < Len(c.route) /\ c.route[c.index + 1] = read)
  <2>1. Advance(c, read) = c
    BY <1>4 DEF Advance
  <2>2. QED
    BY <2>1 DEF SameTask
<1>5. QED
  BY <1>3, <1>4

\* What a tick makes of a controller: the index may move over one waypoint, the
\* one read, and a part becomes complete only when the task is done.
Moves(c, d, read) ==
    /\ SameTask(c, d)
    /\ \/ d.index = c.index
       \/ /\ c.task = "path"
          /\ d.index = c.index + 1
          /\ c.index < Len(c.route)
          /\ c.route[c.index + 1] = read

TickOf(c, r, read) ==
    /\ r.ctl \in Controllers
    /\ Moves(c, r.ctl, read)
    /\ r.ctl.complete => c.complete \/ (c.task # None /\ TaskDone(r.ctl))
    /\ IsOutput(r.out)
    /\ c.handover # None => r.ctl.handover = c.handover /\ r.ctl.complete = c.complete
    /\ c.phase \in {"active", "released"} => r.out.request_mode # OFFBOARD /\ ~r.out.request_arm

LEMMA Ticking ==
  ASSUME NEW c \in Controllers, OnRoute(c),
         NEW read \in Places \cup {None}, NEW armedNow, NEW modeNow,
         NEW seen \in BOOLEAN, NEW quiet \in BOOLEAN, NEW elapsed \in BOOLEAN
  PROVE  TickOf(c, Tick(c, read, armedNow, modeNow, seen, quiet, elapsed), read)
<1> DEFINE r == Tick(c, read, armedNow, modeNow, seen, quiet, elapsed)
           moved == IF c.task = "path" THEN Advance(c, read) ELSE c
           target == IF c.task = "slot" THEN Elsewhere
                     ELSE IF PathDone(moved) THEN read ELSE c.route[moved.index + 1]
           lost == Handover(c, RTL)
           done == Handover([moved EXCEPT !.complete = TRUE], LAND)
<1> SUFFICES TickOf(c, r, read)
  OBVIOUS
<1>1. /\ moved \in Controllers
      /\ Moves(c, moved, read)
      /\ moved.complete = c.complete /\ moved.handover = c.handover
      /\ moved.phase = c.phase
      /\ OnRoute(moved)
  <2>1. CASE c.task = "path"
    <3>1. c.index <= Len(c.route) /\ moved = Advance(c, read)
      BY <2>1 DEF OnRoute
    <3>2. QED
      BY <2>1, <3>1, Advancing DEF OnRoute, Moves, SameTask
  <2>2. CASE c.task # "path"
    BY <2>2 DEF OnRoute, Moves, SameTask
  <2>3. QED
    BY <2>1, <2>2
<1> HIDE DEF moved
<1>2. c.task # None => target \in Places \cup {None}
  <2>1. CASE c.task = "path" /\ ~PathDone(moved)
    <3>1. moved.index + 1 \in 1 .. Len(c.route) /\ c.route \in Seq(Waypoints)
      BY <2>1, <1>1 DEF OnRoute, PathDone, Moves, SameTask, Controllers
    <3>2. c.route[moved.index + 1] \in Waypoints
      BY <3>1
    <3>3. QED
      BY <2>1, <3>2 DEF Places
  <2>2. QED
    BY <2>1 DEF Controllers, Places
<1>3. /\ lost \in Controllers /\ SameTask(c, lost)
      /\ lost.index = c.index /\ lost.complete = c.complete /\ lost.handover = RTL
  BY DEF Handover, Controllers, SameTask, Phases, Modes, RTL, OFFBOARD
<1>4. /\ done \in Controllers /\ SameTask(moved, done)
      /\ done.index = moved.index /\ done.complete /\ done.handover = LAND
  BY <1>1 DEF Handover, Controllers, SameTask, Phases, Modes, LAND, OFFBOARD
<1> HIDE DEF lost, done, target
<1>5. CASE c.handover # None
  <2>1. r = KeepHandingOver(c, armedNow, modeNow, elapsed)
    BY <1>5 DEF Tick
  <2>2. c.handover # OFFBOARD
    BY <1>5 DEF Controllers, Modes, None, OFFBOARD, LAND, RTL, LOITER
  <2> HIDE DEF r
  <2>3. GoesOn(c, r) /\ AsksOnlyToHandOver(c, r.out)
    BY <2>1, HandingOver
  <2>4. QED
    BY <2>2, <2>3 DEF TickOf, Moves, GoesOn, AsksOnlyToHandOver, None, OFFBOARD
<1>6. CASE c.handover = None /\ (read = None \/ c.task = None)
  <2>1. r = Result(c, Quiet)
    BY <1>6 DEF Tick
  <2> HIDE DEF r
  <2>2. QED
    BY <1>6, <2>1
    DEF Result, Quiet, Output, TickOf, Moves, SameTask, IsOutput, None, OFFBOARD
<1>7. CASE c.handover = None /\ read # None /\ c.task # None
  <2> DEFINE goingHome == KeepHandingOver(lost, armedNow, modeNow, elapsed)
             waiting == Result(c, Quiet)
             landing == KeepHandingOver(done, armedNow, modeNow, elapsed)
             flying == StepOffboard(moved, armedNow, modeNow, elapsed, target)
  <2>1. \/ r = goingHome
        \/ r = waiting
        \/ TaskDone(moved) /\ r = landing
        \/ r = flying
    <3>1. r = IF c.task = "slot" /\ quiet THEN goingHome
              ELSE IF c.task = "slot" /\ ~seen THEN waiting
              ELSE IF TaskDone(moved) THEN landing
              ELSE flying
      BY <1>7 DEF Tick, moved, lost, done, target
    <3> HIDE DEF r, goingHome, waiting, landing, flying
    <3>2. QED
      BY <3>1
  <2> HIDE DEF r
  <2>2. CASE r = KeepHandingOver(lost, armedNow, modeNow, elapsed)
    <3>1. GoesOn(lost, r) /\ AsksOnlyToHandOver(lost, r.out)
      BY <1>3, <2>2, HandingOver
    <3>2. QED
      BY <1>3, <1>7, <3>1
      DEF TickOf, Moves, SameTask, GoesOn, AsksOnlyToHandOver, None, OFFBOARD, RTL
  <2>3. CASE r = Result(c, Quiet)
    BY <1>7, <2>3 DEF Result, Quiet, Output, TickOf, Moves, SameTask, IsOutput, None, OFFBOARD
  <2>4. CASE TaskDone(moved) /\ r = KeepHandingOver(done, armedNow, modeNow, elapsed)
    <3>1. GoesOn(done, r) /\ AsksOnlyToHandOver(done, r.out)
      BY <1>4, <2>4, HandingOver
    <3>2. TaskDone(r.ctl)
      BY <1>1, <1>4, <2>4, <3>1 DEF TaskDone, PathDone, SameTask, GoesOn
    <3>3. Moves(c, r.ctl, read)
      BY <1>1, <1>4, <3>1 DEF Moves, SameTask, GoesOn
    <3>4. QED
      BY <1>4, <1>7, <3>1, <3>2, <3>3
      DEF TickOf, GoesOn, AsksOnlyToHandOver, None, OFFBOARD, LAND
  <2>5. CASE r = StepOffboard(moved, armedNow, modeNow, elapsed, target)
    <3>1. /\ GoesOn(moved, r)
          /\ moved.phase \in {"active", "released"} => AsksNothing(r.out)
      BY <1>1, <1>2, <1>7, <2>5, Stepping
    <3>2. Moves(c, r.ctl, read)
      BY <1>1, <3>1 DEF Moves, SameTask, GoesOn
    <3>3. r.ctl.complete => c.complete
      BY <1>1, <3>1 DEF GoesOn
    <3>4. QED
      BY <1>1, <1>7, <3>1, <3>2, <3>3
      DEF TickOf, GoesOn, AsksNothing, None, OFFBOARD
  <2>6. QED
    BY <2>1, <2>2, <2>3, <2>4, <2>5
<1>8. QED
  BY <1>5, <1>6, <1>7

-----------------------------------------------------------------------------
(* The invariant holds at the start and is kept by every step. *)

LEMMA NewControllers == NewController \in Controllers
<1>1. ASSUME NEW empty \in Seq(Waypoints)
      PROVE  [mission |-> None, task |-> None, route |-> empty, index |-> 0, leader |-> None,
              leaderDone |-> FALSE, complete |-> FALSE, phase |-> "idle", streamed |-> 0,
              asked |-> FALSE, handover |-> None, handoverAsked |-> FALSE] \in Controllers
  BY DEF Controllers, Phases
<1>2. <<>> \in Seq(Waypoints)
  OBVIOUS
<1>3. QED
  BY <1>1, <1>2 DEF NewController

LEMMA DroneStarts == Init => DroneInv
<1> SUFFICES ASSUME Init PROVE DroneInv
  OBVIOUS
<1>1. ctl \in Controllers /\ MaxEvents \in Nat
  BY NewControllers, FlightAssumption DEF Init
<1>2. TypeOK
  <2>1. /\ following \in Leaders \cup {None} /\ position \in Places \cup {None}
        /\ armedRead \in {"yes", "no", None} /\ modeRead \in Modes \cup {None}
        /\ leaderSeen \in BOOLEAN /\ silent \in BOOLEAN
        /\ landedWith \subseteq Ids /\ calls \subseteq Modes \cup {"arm"}
    BY DEF Init
  <2>2. /\ armed \in BOOLEAN /\ mode \in Modes /\ flight \in {"ground", "air", "landed"}
        /\ place \in Places /\ setpoint \in Places \cup {None}
        /\ fresh \in BOOLEAN /\ streaming \in BOOLEAN
        /\ climbing \in BOOLEAN /\ flat \in BOOLEAN
    BY DEF Init, Modes, Places
  <2>3. given \in 0 .. MaxEvents /\ piloted \in 0 .. MaxEvents /\ reached \in Nat
    BY <1>1 DEF Init
  <2>4. QED
    BY <1>1, <2>1, <2>2, <2>3 DEF TypeOK
<1>3. ctl.task = None /\ ~ctl.complete
  BY DEF Init, NewController
<1>4. QED
  BY <1>2, <1>3 DEF DroneInv, CountsWhatItReached, HeardItsLeader, CompleteIsCounted, None

\* What an order may be.
LEMMA OrderTypes ==
  ASSUME NEW o \in Orders
  PROVE  /\ o.kind = "path" => o.mission \in Ids /\ o.route \in Seq(Waypoints) /\ Straight(o.route)
         /\ o.kind = "slot" => o.mission \in Ids /\ o.leader \in Leaders
         /\ o.kind = "command" => o.command \in Commands
<1>1. o.kind = "path" => Straight(o.route)
  BY FlightAssumption
<1>2. CASE o \in [kind : {"path"}, mission : Ids, route : Seq(Waypoints)]
  BY <1>1, <1>2
<1>3. CASE o \in [kind : {"slot"}, mission : Ids, leader : Leaders]
  BY <1>1, <1>3
<1>4. CASE o \in [kind : {"command"}, command : Commands]
  BY <1>1, <1>4
<1>5. QED
  BY <1>2, <1>3, <1>4, FlightAssumption DEF Tasks

\* The controller a task or a command makes.
LEMMA Assigning ==
  ASSUME NEW c \in Controllers, NEW id \in Ids
  PROVE  /\ \A route \in Seq(Waypoints) :
              LET d == AssignPath(c, id, route)
              IN  /\ d \in Controllers /\ d.task = "path" /\ d.route = route
                  /\ d.index = 0 /\ ~d.complete
         /\ \A leader \in Leaders :
              LET d == AssignSlot(c, id, leader)
              IN  d \in Controllers /\ d.task = "slot" /\ ~d.leaderDone /\ ~d.complete
<1> DEFINE b == Begin(c, id)
<1>1. b \in Controllers /\ b.index = 0 /\ ~b.complete /\ ~b.leaderDone
  <2>1. ASSUME NEW empty \in Seq(Waypoints)
        PROVE  LET d == [c EXCEPT !.mission = id, !.task = None, !.route = empty, !.index = 0,
                                  !.leader = None, !.leaderDone = FALSE, !.handover = None,
                                  !.complete = FALSE, !.phase = "warmup", !.streamed = 0,
                                  !.asked = FALSE]
               IN  d \in Controllers /\ d.index = 0 /\ ~d.complete /\ ~d.leaderDone
    BY DEF Controllers, Phases
  <2>2. <<>> \in Seq(Waypoints)
    OBVIOUS
  <2>3. QED
    BY <2>1, <2>2 DEF Begin
<1> HIDE DEF b
<1>2. ASSUME NEW route \in Seq(Waypoints)
      PROVE  LET d == [b EXCEPT !.task = "path", !.route = route]
             IN  /\ d \in Controllers /\ d.task = "path" /\ d.route = route
                 /\ d.index = 0 /\ ~d.complete
  BY <1>1 DEF Controllers
<1>3. ASSUME NEW leader \in Leaders
      PROVE  LET d == [b EXCEPT !.task = "slot", !.leader = leader]
             IN  d \in Controllers /\ d.task = "slot" /\ ~d.leaderDone /\ ~d.complete
  BY <1>1 DEF Controllers
<1>4. QED
  BY <1>2, <1>3 DEF AssignPath, AssignSlot, b

LEMMA Commanding ==
  ASSUME NEW c \in Controllers, NEW command \in Commands
  PROVE  LET d == Command(c, command)
         IN  d \in Controllers /\ SameTask(c, d) /\ d.index = c.index /\ ~d.complete
<1>1. mode_for_command[command] \in Modes \ {OFFBOARD}
  BY DEF mode_for_command, Commands, Modes, OFFBOARD, RTL, LAND, LOITER
<1> DEFINE m == mode_for_command[command]
           d == [[c EXCEPT !.phase = "released", !.handover = m, !.handoverAsked = FALSE]
                    EXCEPT !.complete = FALSE]
<1> HIDE DEF m
<1>2. d \in Controllers /\ SameTask(c, d) /\ d.index = c.index /\ ~d.complete
  BY <1>1 DEF m, Controllers, SameTask, Phases
<1>3. QED
  BY <1>2 DEF Command, Handover, m

LEMMA LeaderFinishing ==
  ASSUME NEW c \in Controllers, NEW id \in Ids
  PROVE  LET d == LeaderFinished(c, id)
         IN  /\ d \in Controllers /\ d.task = c.task /\ d.mission = c.mission
             /\ d.route = c.route /\ d.index = c.index /\ d.complete = c.complete
             /\ d.handover = c.handover
             /\ c.task # "slot" => d = c
             /\ d.leaderDone => c.leaderDone \/ id = c.mission
             /\ c.leaderDone => d.leaderDone
<1> DEFINE told == [c EXCEPT !.leaderDone = TRUE]
<1>1. /\ told \in Controllers /\ told.task = c.task /\ told.mission = c.mission
      /\ told.route = c.route /\ told.index = c.index /\ told.complete = c.complete
      /\ told.handover = c.handover /\ told.leaderDone
  BY DEF Controllers
<1>2. CASE id = c.mission /\ c.task = "slot"
  <2>1. LeaderFinished(c, id) = told
    BY <1>2 DEF LeaderFinished
  <2> HIDE DEF told
  <2>2. QED
    BY <1>1, <1>2, <2>1
<1>3. CASE ~(id = c.mission /\ c.task = "slot")
  <2>1. LeaderFinished(c, id) = c
    BY <1>3 DEF LeaderFinished
  <2>2. QED
    BY <2>1
<1>4. QED
  BY <1>2, <1>3

\* The vehicle at a place, or a reading of it: the count is still within what was
\* reached, and a reading of the next waypoint is of one that was reached.
LEMMA PassingKeeps ==
  ASSUME TypeOK, CountsWhatItReached, UNCHANGED ctl, NEW p \in Places,
         reached' = Passing(p), position' \in {position, p}
  PROVE  CountsWhatItReached' /\ reached' \in Nat
<1>1. reached \in Nat /\ reached' \in {reached, reached + 1}
  BY DEF TypeOK, Passing
<1>2. CASE ctl.task # "path"
  BY <1>1, <1>2 DEF CountsWhatItReached
<1>3. CASE ctl.task = "path"
  <2>1. ctl.index \in Nat /\ Len(ctl.route) \in Nat
    BY DEF TypeOK, Controllers
  <2>2. /\ Straight(ctl.route) /\ ctl.index <= reached /\ reached <= Len(ctl.route)
        /\ ctl.index < Len(ctl.route) /\ ctl.route[ctl.index + 1] = position
              => ctl.index < reached
    BY <1>3 DEF CountsWhatItReached
  <2>3. IF reached < Len(ctl.route) /\ ctl.route[reached + 1] = p
        THEN reached' = reached + 1 ELSE reached' = reached
    BY <1>3 DEF Passing
  <2>4. reached' <= Len(ctl.route)
    BY <1>1, <2>1, <2>2, <2>3
  <2>5. ctl.index < Len(ctl.route) /\ ctl.route[ctl.index + 1] = position'
           => ctl.index < reached'
    BY <1>1, <2>1, <2>2, <2>3
  <2>6. QED
    BY <1>1, <1>3, <2>1, <2>2, <2>4, <2>5 DEF CountsWhatItReached
<1>4. QED
  BY <1>2, <1>3

LEMMA TickKeeps ==
  ASSUME DroneInv, NEW elapsed \in BOOLEAN, OnTick(elapsed)
  PROVE  /\ DroneInv'
         /\ ctl.handover # None => ctl'.handover = ctl.handover /\ ctl'.complete = ctl.complete
         /\ ctl.phase \in {"active", "released"} => {OFFBOARD, "arm"} \cap (calls' \ calls) = {}
<1> DEFINE r == Tick(ctl, position, armedRead, modeRead, leaderSeen, silent, elapsed)
           asked == {r.out.request_mode} \cup (IF r.out.request_arm THEN {"arm"} ELSE {})
<1>1. OnRoute(ctl)
  BY DEF DroneInv, CountsWhatItReached, OnRoute, TypeOK, Controllers
<1>2. TickOf(ctl, r, position)
  BY <1>1, Ticking DEF DroneInv, TypeOK
<1> HIDE DEF r
<1>3. /\ ctl' = r.ctl
      /\ calls' = calls \cup (asked \ {None})
      /\ streaming' = (r.out.setpoint # None)
      /\ setpoint' \in {setpoint, r.out.setpoint} /\ fresh' \in {fresh, TRUE}
      /\ UNCHANGED <<following, position, armedRead, modeRead, leaderSeen, silent,
                     armed, mode, flight, place, climbing, flat, bounds, history>>
  BY DEF OnTick, r
<1>4. IsOutput(r.out) /\ r.ctl \in Controllers /\ Moves(ctl, ctl', position)
  BY <1>2, <1>3 DEF TickOf
<1>5. TypeOK'
  <2>1. asked \ {None} \subseteq Modes \cup {"arm"}
    BY <1>4 DEF IsOutput
  <2>2. calls' \subseteq Modes \cup {"arm"} /\ setpoint' \in Places \cup {None}
    BY <1>3, <1>4, <2>1 DEF DroneInv, TypeOK, IsOutput
  <2>3. ctl' \in Controllers /\ streaming' \in BOOLEAN /\ fresh' \in BOOLEAN
    BY <1>3, <1>4 DEF DroneInv, TypeOK
  <2>4. QED
    BY <1>3, <2>2, <2>3 DEF DroneInv, TypeOK, bounds, history
<1>6. CountsWhatItReached'
  <2>1. CASE ctl.task # "path"
    BY <1>4, <2>1 DEF CountsWhatItReached, Moves, SameTask
  <2>2. CASE ctl.task = "path"
    <3>1. /\ Straight(ctl.route) /\ ctl.index <= reached /\ reached <= Len(ctl.route)
          /\ ctl.index < Len(ctl.route) /\ ctl.route[ctl.index + 1] = position
                => ctl.index < reached
          /\ ctl.index \in Nat /\ reached \in Nat /\ Len(ctl.route) \in Nat
      BY <2>2 DEF DroneInv, CountsWhatItReached, TypeOK, Controllers
    <3>2. ctl'.route = ctl.route /\ reached' = reached /\ position' = position
      BY <1>3, <1>4 DEF Moves, SameTask, history
    <3>3. CASE ctl'.index = ctl.index
      BY <2>2, <3>1, <3>2, <3>3 DEF CountsWhatItReached
    <3>4. CASE /\ ctl'.index = ctl.index + 1 /\ ctl.index < Len(ctl.route)
               /\ ctl.route[ctl.index + 1] = position
      <4>1. ctl'.index <= reached
        BY <3>1, <3>4
      <4>2. ctl'.index < Len(ctl.route) => ctl.route[ctl'.index + 1] # position
        <5> SUFFICES ASSUME ctl'.index < Len(ctl.route)
                     PROVE  ctl.route[ctl'.index + 1] # position
          OBVIOUS
        <5>1. ctl'.index \in 1 .. Len(ctl.route) - 1
          BY <3>1, <3>4
        <5>2. ctl.route[ctl'.index] # ctl.route[ctl'.index + 1]
          BY <3>1, <5>1 DEF Straight
        <5>3. QED
          BY <3>4, <5>2
      <4>3. QED
        BY <3>1, <3>2, <4>1, <4>2 DEF CountsWhatItReached
    <3>5. QED
      BY <1>4, <3>3, <3>4 DEF Moves
  <2>3. QED
    BY <2>1, <2>2
<1>7. HeardItsLeader'
  BY <1>3, <1>4 DEF DroneInv, HeardItsLeader, Moves, SameTask, history
<1>8. CompleteIsCounted'
  <2>1. CASE ctl'.complete /\ ctl.complete
    <3>1. ctl.task # None /\ TaskDone(ctl)
      BY <2>1 DEF DroneInv, CompleteIsCounted
    <3>2. ctl.index \in Nat /\ Len(ctl.route) \in Nat
      BY DEF DroneInv, TypeOK, Controllers
    <3>3. ctl'.index = ctl.index
      BY <1>4, <3>1, <3>2 DEF Moves, TaskDone, PathDone
    <3>4. QED
      BY <1>4, <3>1, <3>3 DEF CompleteIsCounted, Moves, SameTask, TaskDone, PathDone
  <2>2. CASE ctl'.complete /\ ~ctl.complete
    <3>1. ctl.task # None /\ TaskDone(ctl')
      BY <1>2, <1>3, <2>2 DEF TickOf
    <3>2. ctl'.task = ctl.task
      BY <1>4 DEF Moves, SameTask
    <3>3. QED
      BY <3>1, <3>2 DEF CompleteIsCounted, TaskDone, PathDone
  <2>3. CASE ~ctl'.complete
    BY <2>3 DEF CompleteIsCounted
  <2>4. QED
    BY <2>1, <2>2, <2>3
<1>9. ctl.handover # None => ctl'.handover = ctl.handover /\ ctl'.complete = ctl.complete
  BY <1>2, <1>3 DEF TickOf
<1>10. ctl.phase \in {"active", "released"} => {OFFBOARD, "arm"} \cap (calls' \ calls) = {}
  <2>1. "arm" \notin Modes
    BY DEF Modes, OFFBOARD, LAND, RTL, LOITER
  <2>2. r.out.request_mode # "arm"
    BY <1>4, <2>1 DEF IsOutput, None
  <2>3. ctl.phase \in {"active", "released"} => r.out.request_mode # OFFBOARD /\ ~r.out.request_arm
    BY <1>2 DEF TickOf
  <2>4. OFFBOARD # "arm"
    BY DEF OFFBOARD
  <2>5. QED
    BY <1>3, <2>2, <2>3, <2>4
<1>11. QED
  BY <1>5, <1>6, <1>7, <1>8, <1>9, <1>10 DEF DroneInv

LEMMA OrderKeeps ==
  ASSUME DroneInv, Order
  PROVE  DroneInv' /\ given' # given
<1>1. given' = given + 1 /\ given \in 0 .. MaxEvents /\ piloted \in 0 .. MaxEvents
      /\ given + piloted < MaxEvents /\ MaxEvents \in Nat
  BY FlightAssumption DEF Order, DroneInv, TypeOK
<1>2. given' \in 0 .. MaxEvents /\ given' # given
  BY <1>1
<1>3. PICK o \in Orders : OnAssignment(o) \/ OnSlot(o) \/ OnCommand(o)
  BY DEF Order
<1>4. UNCHANGED <<position, armedRead, modeRead, calls, vehicle, streaming, piloted>>
  BY DEF Order
<1>5. ctl \in Controllers /\ reached \in Nat
  BY DEF DroneInv, TypeOK
<1>6. ASSUME NEW leader \in Leaders \cup {None}, Follow(leader), ctl' \in Controllers,
             reached' \in Nat, landedWith' \subseteq Ids
      PROVE  TypeOK'
  <2>1. following' \in Leaders \cup {None} /\ leaderSeen' \in BOOLEAN /\ silent' \in BOOLEAN
    BY <1>6 DEF Follow, DroneInv, TypeOK
  <2>2. QED
    BY <1>2, <1>4, <1>6, <2>1 DEF DroneInv, TypeOK, vehicle
<1>7. CASE OnAssignment(o)
  <2>1. o.mission \in Ids /\ o.route \in Seq(Waypoints) /\ Straight(o.route)
    BY <1>7, OrderTypes DEF OnAssignment
  <2>2. /\ ctl' \in Controllers /\ ctl'.task = "path" /\ ctl'.route = o.route
        /\ ctl'.index = 0 /\ ~ctl'.complete
    BY <1>5, <1>7, <2>1, Assigning DEF OnAssignment
  <2>3. reached' = AlreadyAt(o.route) /\ landedWith' = {} /\ Follow(None)
    BY <1>7 DEF OnAssignment
  <2>4. Len(o.route) \in Nat /\ Len(o.route) >= 1
    BY <2>1 DEF Straight
  <2>5. reached' \in {0, 1} /\ (o.route[1] = position => reached' = 1)
    BY <2>3 DEF AlreadyAt
  <2>6. TypeOK'
    BY <1>6, <2>2, <2>3, <2>5
  <2>7. CountsWhatItReached'
    BY <1>4, <2>1, <2>2, <2>4, <2>5 DEF CountsWhatItReached
  <2>8. QED
    BY <1>2, <2>2, <2>6, <2>7 DEF DroneInv, HeardItsLeader, CompleteIsCounted
<1>8. CASE OnSlot(o)
  <2>1. o.mission \in Ids /\ o.leader \in Leaders
    BY <1>8, OrderTypes DEF OnSlot
  <2>2. ctl' \in Controllers /\ ctl'.task = "slot" /\ ~ctl'.leaderDone /\ ~ctl'.complete
    BY <1>5, <1>8, <2>1, Assigning DEF OnSlot
  <2>3. TypeOK'
    BY <1>6, <1>8, <2>1, <2>2 DEF OnSlot
  <2>4. QED
    BY <1>2, <2>2, <2>3 DEF DroneInv, CountsWhatItReached, HeardItsLeader, CompleteIsCounted
<1>9. CASE OnCommand(o)
  <2>1. o.command \in Commands
    BY <1>9, OrderTypes DEF OnCommand
  <2>2. /\ ctl' \in Controllers /\ SameTask(ctl, ctl') /\ ctl'.index = ctl.index /\ ~ctl'.complete
        /\ UNCHANGED history
    BY <1>5, <1>9, <2>1, Commanding DEF OnCommand
  <2>3. TypeOK'
    <3>1. reached' \in Nat /\ landedWith' \subseteq Ids
      BY <2>2 DEF DroneInv, TypeOK, history
    <3>2. QED
      BY <1>6, <1>9, <2>2, <3>1 DEF OnCommand
  <2>4. CountsWhatItReached' /\ HeardItsLeader'
    BY <1>4, <2>2 DEF DroneInv, CountsWhatItReached, HeardItsLeader, SameTask, history
  <2>5. QED
    BY <1>2, <2>2, <2>3, <2>4 DEF DroneInv, CompleteIsCounted
<1>10. QED
  BY <1>3, <1>7, <1>8, <1>9

\* What the steps of the leader, of the readings and of the autopilot leave alone.
NoOrder == given' = given /\ calls' \subseteq calls

LEMMA LeaderKeeps ==
  ASSUME DroneInv, Leader
  PROVE  /\ DroneInv' /\ NoOrder
         /\ ctl'.handover = ctl.handover /\ ctl'.complete = ctl.complete
<1>1. CASE OnLeaderPose
  <2>1. TypeOK'
    BY ZenonT(40), <1>1 DEF OnLeaderPose, DroneInv, TypeOK, vehicle, bounds, history
  <2>2. QED
    BY <1>1, <2>1 DEF OnLeaderPose, DroneInv, CountsWhatItReached, HeardItsLeader,
                      CompleteIsCounted, NoOrder, bounds, history, TaskDone, PathDone
<1>2. CASE LeaderFallsSilent
  BY <1>2 DEF LeaderFallsSilent, DroneInv, TypeOK, CountsWhatItReached, HeardItsLeader,
              CompleteIsCounted, NoOrder, vehicle, bounds, history, TaskDone, PathDone
<1>3. ASSUME NEW id \in Ids, OnLeaderProgress(id)
      PROVE  /\ DroneInv' /\ NoOrder
             /\ ctl'.handover = ctl.handover /\ ctl'.complete = ctl.complete
  <2>1. /\ ctl' \in Controllers /\ ctl'.task = ctl.task /\ ctl'.mission = ctl.mission
        /\ ctl'.route = ctl.route /\ ctl'.index = ctl.index /\ ctl'.complete = ctl.complete
        /\ ctl'.handover = ctl.handover
        /\ ctl.task # "slot" => ctl' = ctl
        /\ ctl'.leaderDone => ctl.leaderDone \/ id = ctl.mission
        /\ ctl.leaderDone => ctl'.leaderDone
    BY <1>3, LeaderFinishing DEF OnLeaderProgress, DroneInv, TypeOK
  <2>2. /\ landedWith' = landedWith \cup {id}
        /\ UNCHANGED <<following, position, armedRead, modeRead, leaderSeen, silent, calls,
                       vehicle, streaming, bounds, reached>>
    BY <1>3 DEF OnLeaderProgress
  <2>3. TypeOK'
    BY <2>1, <2>2 DEF DroneInv, TypeOK, vehicle, bounds
  <2>4. CountsWhatItReached' /\ HeardItsLeader'
    BY <2>1, <2>2 DEF DroneInv, CountsWhatItReached, HeardItsLeader
  <2>5. CompleteIsCounted'
    <3>1. CASE ctl'.complete
      <4>1. ctl.task # None /\ TaskDone(ctl)
        BY <2>1, <3>1 DEF DroneInv, CompleteIsCounted
      <4>2. QED
        BY <2>1, <4>1 DEF CompleteIsCounted, TaskDone, PathDone
    <3>2. CASE ~ctl'.complete
      BY <3>2 DEF CompleteIsCounted
    <3>3. QED
      BY <3>1, <3>2
  <2>6. QED
    BY <2>1, <2>2, <2>3, <2>4, <2>5 DEF DroneInv, NoOrder, bounds
<1>4. QED
  BY <1>1, <1>2, <1>3 DEF Leader

LEMMA ReadingKeeps ==
  ASSUME DroneInv, OnLocalPose \/ OnState
  PROVE  DroneInv' /\ NoOrder /\ ctl' = ctl
<1>1. CASE OnLocalPose
  <2>1. /\ ctl' = ctl /\ position' = place /\ place \in Places /\ reached' = Passing(place)
        /\ UNCHANGED <<following, armedRead, modeRead, leaderSeen, silent, calls, vehicle,
                       streaming, bounds, landedWith>>
    BY <1>1 DEF OnLocalPose, DroneInv, TypeOK
  <2>2. CountsWhatItReached' /\ reached' \in Nat
    BY <2>1, PassingKeeps DEF DroneInv
  <2>3. TypeOK'
    BY <2>1, <2>2 DEF DroneInv, TypeOK, vehicle, bounds
  <2>4. QED
    BY <2>1, <2>2, <2>3
    DEF DroneInv, HeardItsLeader, CompleteIsCounted, TaskDone, PathDone, NoOrder, bounds
<1>2. CASE OnState
  BY <1>2 DEF OnState, DroneInv, TypeOK, CountsWhatItReached, HeardItsLeader,
              CompleteIsCounted, NoOrder, vehicle, bounds, history, TaskDone, PathDone
<1>3. QED
  BY <1>1, <1>2

\* A step of the autopilot that moves the vehicle nowhere.
Inert ==
    /\ UNCHANGED <<controller, place, history>>
    /\ calls' \subseteq calls
    /\ armed' \in BOOLEAN /\ mode' \in Modes /\ flight' \in {"ground", "air", "landed"}
    /\ setpoint' \in Places \cup {None} /\ fresh' \in BOOLEAN /\ climbing' \in BOOLEAN
    /\ flat' \in BOOLEAN /\ streaming' = streaming /\ given' = given
    /\ piloted' \in 0 .. MaxEvents

LEMMA InertKeeps ==
  ASSUME DroneInv, Inert
  PROVE  DroneInv' /\ NoOrder /\ ctl' = ctl
BY DEF Inert, DroneInv, TypeOK, CountsWhatItReached, HeardItsLeader, CompleteIsCounted,
       NoOrder, controller, history, TaskDone, PathDone

\* A step of the autopilot that moves the vehicle.
LEMMA MovingKeeps ==
  ASSUME DroneInv, NEW p \in Places, Arrive(p), flight' \in {"air", "landed"},
         climbing' \in BOOLEAN,
         UNCHANGED <<controller, calls, armed, mode, setpoint, fresh, flat, streaming, bounds>>
  PROVE  DroneInv' /\ NoOrder /\ ctl' = ctl
<1>1. /\ ctl' = ctl /\ position' = position /\ place' \in Places
      /\ reached' = Passing(p) /\ landedWith' = landedWith
  BY DEF Arrive, controller
<1>2. CountsWhatItReached' /\ reached' \in Nat
  BY <1>1, PassingKeeps DEF DroneInv
<1>3. TypeOK'
  BY <1>1, <1>2 DEF DroneInv, TypeOK, controller, bounds
<1>4. QED
  BY <1>1, <1>2, <1>3
  DEF DroneInv, HeardItsLeader, CompleteIsCounted, TaskDone, PathDone, NoOrder, bounds

LEMMA AutopilotKeeps ==
  ASSUME DroneInv, Autopilot
  PROVE  DroneInv' /\ NoOrder /\ ctl' = ctl
<1>1. /\ armed \in BOOLEAN /\ mode \in Modes /\ flight \in {"ground", "air", "landed"}
      /\ setpoint \in Places \cup {None} /\ fresh \in BOOLEAN /\ climbing \in BOOLEAN
      /\ flat \in BOOLEAN /\ place \in Places
      /\ given \in Nat /\ piloted \in 0 .. MaxEvents /\ MaxEvents \in Nat
      /\ LAND \in Modes /\ LOITER \in Modes
  BY FlightAssumption DEF DroneInv, TypeOK, Modes
<1> USE DEF controller, vehicle, bounds, history
<1>2. ASSUME NEW m \in Modes, ServeMode(m) PROVE Inert
  BY <1>1, <1>2 DEF ServeMode, Inert, Enter
<1>3. ASSUME ServeArm PROVE Inert
  BY <1>1, <1>3 DEF ServeArm, Inert
<1>4. ASSUME NEW c \in calls, CallFails(c) PROVE Inert
  BY <1>1, <1>4 DEF CallFails, Inert
<1>5. ASSUME SetpointsGetOld PROVE Inert
  BY <1>1, <1>5 DEF SetpointsGetOld, Inert
<1>6. ASSUME OffboardLost PROVE Inert
  BY <1>1, <1>6 DEF OffboardLost, Inert, Enter
<1>7. ASSUME BatteryRunsFlat PROVE Inert
  BY <1>1, <1>7 DEF BatteryRunsFlat, Inert, Enter
<1>8. ASSUME FlatBatteryLands PROVE Inert
  BY <1>1, <1>8 DEF FlatBatteryLands, Inert, Enter
<1>9. ASSUME NEW m \in PilotModes, PilotSwitches(m) PROVE Inert
  <2>1. piloted' \in 0 .. MaxEvents
    BY <1>1, <1>9 DEF PilotSwitches
  <2>2. m \in Modes
    BY <1>9, FlightAssumption
  <2>3. QED
    BY <1>1, <1>9, <2>1, <2>2 DEF PilotSwitches, Inert, Enter
<1>10. CASE FlyToSetpoint
  <2>1. PICK p \in {Elsewhere, setpoint} : Arrive(IF place = setpoint THEN place ELSE p)
    BY <1>10 DEF FlyToSetpoint
  <2>2. (IF place = setpoint THEN place ELSE p) \in Places
    BY <1>1, <1>10 DEF FlyToSetpoint, TypeOK, Places
  <2>3. climbing' \in BOOLEAN /\ flight' \in {"air", "landed"}
    BY <1>1, <1>10 DEF FlyToSetpoint
  <2>4. QED
    BY <1>10, <2>1, <2>2, <2>3, MovingKeeps DEF FlyToSetpoint
<1>11. CASE ReturnClimbs
  BY <1>11, MovingKeeps DEF ReturnClimbs, Places
<1>12. CASE TouchDown
  <2>1. Elsewhere \in Places /\ climbing' \in BOOLEAN /\ flight' \in {"air", "landed"}
    BY <1>1, <1>12 DEF TouchDown, Places
  <2>2. QED
    BY <1>12, <2>1, MovingKeeps DEF TouchDown
<1>13. ASSUME AutoDisarm PROVE Inert
  BY <1>1, <1>13 DEF AutoDisarm, Inert
<1>14. QED
  BY <1>2, <1>3, <1>4, <1>5, <1>6, <1>7, <1>8, <1>9, <1>10, <1>11, <1>12, <1>13, InertKeeps
  DEF Autopilot

\* What every step keeps and does.
LEMMA DroneStep ==
  ASSUME DroneInv, [Next]_vars
  PROVE  /\ DroneInv'
         /\ given' = given =>
               /\ ctl.handover # None =>
                     ctl'.handover = ctl.handover /\ ctl'.complete = ctl.complete
               /\ ctl.phase \in {"active", "released"} =>
                     {OFFBOARD, "arm"} \cap (calls' \ calls) = {}
<1>1. CASE Order
  BY <1>1, OrderKeeps
<1>2. CASE Leader
  BY <1>2, LeaderKeeps DEF NoOrder
<1>3. CASE OnLocalPose \/ OnState
  BY <1>3, ReadingKeeps DEF NoOrder
<1>4. ASSUME NEW elapsed \in BOOLEAN, OnTick(elapsed)
      PROVE  /\ DroneInv'
             /\ ctl.handover # None =>
                   ctl'.handover = ctl.handover /\ ctl'.complete = ctl.complete
             /\ ctl.phase \in {"active", "released"} =>
                   {OFFBOARD, "arm"} \cap (calls' \ calls) = {}
  BY <1>4, TickKeeps
<1>5. CASE Autopilot
  BY <1>5, AutopilotKeeps DEF NoOrder
<1>6. CASE UNCHANGED vars
  BY <1>6 DEF vars, controller, vehicle, bounds, history, DroneInv, TypeOK,
              CountsWhatItReached, HeardItsLeader, CompleteIsCounted, TaskDone, PathDone
<1>7. QED
  BY <1>1, <1>2, <1>3, <1>4, <1>5, <1>6 DEF Next, Node

-----------------------------------------------------------------------------
(* The theorems. *)

\* The inductive invariant holds in every state of every behaviour.
THEOREM DroneInvariance == Spec => []DroneInv
<1>1. Init => DroneInv
  BY DroneStarts
<1>2. DroneInv /\ [Next]_vars => DroneInv'
  BY DroneStep
<1>3. QED
  BY <1>1, <1>2, PTL DEF Spec

\* A waypoint is counted only once the drone was at it, and a part is reported
\* complete only when it was flown or the leader reported it so (waypoints.py
\* advance, drone_controller.py tick).
THEOREM SpecCompleteMeansDone == Spec => []CompleteMeansDone
<1>1. DroneInv => CompleteMeansDone
  <2> SUFFICES ASSUME DroneInv PROVE CompleteMeansDone
    OBVIOUS
  <2>1. ctl.task = "path" => ctl.index <= reached /\ reached <= Len(ctl.route)
    BY DEF DroneInv, CountsWhatItReached
  <2>2. ctl.index \in Nat /\ reached \in Nat /\ Len(ctl.route) \in Nat
        /\ ctl.task \in {None, "path", "slot"}
    BY DEF DroneInv, TypeOK, Controllers
  <2>3. CASE ctl.complete
    <3>1. ctl.task # None /\ TaskDone(ctl)
      BY <2>3 DEF DroneInv, CompleteIsCounted
    <3>2. CASE ctl.task = "path"
      BY <2>1, <2>2, <3>1, <3>2 DEF TaskDone, PathDone, CompleteMeansDone
    <3>3. CASE ctl.task = "slot"
      BY <3>1, <3>3 DEF TaskDone, DroneInv, HeardItsLeader, CompleteMeansDone
    <3>4. QED
      BY <2>2, <3>1, <3>2, <3>3
  <2>4. CASE ~ctl.complete
    BY <2>1, <2>4 DEF CompleteMeansDone
  <2>5. QED
    BY <2>3, <2>4
<1>2. QED
  BY <1>1, DroneInvariance, PTL

\* What was handed over stays so until the next order (drone_controller.py tick).
THEOREM SpecHandoverIsFinal == Spec => HandoverIsFinal
<1>1. DroneInv /\ [Next]_vars =>
        [ctl.handover # None /\ given' = given =>
            ctl'.handover = ctl.handover /\ ctl'.complete = ctl.complete]_vars
  BY DroneStep
<1>2. QED
  BY <1>1, DroneInvariance, PTL DEF Spec, HandoverIsFinal

\* A drone that had control asks for neither OFFBOARD nor arming again in the same
\* task (offboard.py step).
THEOREM SpecNeverDraggedBack == Spec => NeverDraggedBack
<1>1. DroneInv /\ [Next]_vars =>
        [ctl.phase \in {"active", "released"} /\ given' = given =>
            {OFFBOARD, "arm"} \cap (calls' \ calls) = {}]_vars
  BY DroneStep
<1>2. QED
  BY <1>1, DroneInvariance, PTL DEF Spec, NeverDraggedBack
=============================================================================
