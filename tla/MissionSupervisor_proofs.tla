------------------------ MODULE MissionSupervisor_proofs ------------------------
(* Theorems about MissionSupervisor, for any number of drones, missions and    *)
(* planner, and their proofs.                                                  *)
EXTENDS MissionSupervisor, FiniteSetTheorems, WellFoundedInduction, TLAPS

-----------------------------------------------------------------------------
(* Lemmas about the operators the model is built from. *)

\* A partial function is a function on a subset of its possible arguments.
LEMMA PartialFunction ==
  ASSUME NEW S, NEW T, NEW f
  PROVE  f \in Partial(S, T) <=> DOMAIN f \subseteq S /\ f \in [DOMAIN f -> T]
  BY DEF Partial

\* The lowest id of a set of drones exists, so First is one of them.
LEMMA FirstIsLeast ==
  ASSUME NEW S \in SUBSET Drones, S # {}
  PROVE  First(S) \in S /\ \A e \in S : First(S) <= e
<1> DEFINE Below(d) == {e \in S : e <= d}
           Segments == {Below(d) : d \in S}
           R == StrictSubsetOrdering(S)
<1>1. IsFiniteSet(S)
  <2>1. IsFiniteSet(Drones)
    BY FS_Interval, SupervisorAssumption DEF Drones
  <2>2. QED
    BY <2>1, FS_Subset
<1>2. Segments \subseteq FiniteSubsetsOf(S)
  <2>1. SUFFICES ASSUME NEW d \in S PROVE Below(d) \in FiniteSubsetsOf(S)
    OBVIOUS
  <2>2. IsFiniteSet(Below(d)) /\ Below(d) \in SUBSET S
    BY <1>1, FS_Subset
  <2>3. QED
    BY <2>2 DEF FiniteSubsetsOf
<1>3. \E x \in Segments : \A y \in Segments : <<y, x>> \notin R
  <2>1. IsWellFoundedOn(R, FiniteSubsetsOf(S))
    BY FS_StrictSubsetOrderingWellFounded
  <2>2. Segments # {}
    OBVIOUS
  <2> HIDE DEF Segments, R
  <2>3. QED
    BY <1>2, <2>1, <2>2, WFMin
<1>4. PICK d \in S : \A e \in S : <<Below(e), Below(d)>> \notin R
  BY <1>3
<1>5. ASSUME NEW e \in S, ~(d <= e) PROVE FALSE
  <2>1. \A x \in S : x \in Int
    BY DEF Drones
  <2>2. e <= d /\ d <= d /\ \A x \in S : x <= e => x <= d
    BY <2>1, <1>5
  <2>3. Below(e) \subseteq Below(d) /\ d \in Below(d) /\ d \notin Below(e)
    BY <2>2, <1>5
  <2>4. <<Below(e), Below(d)>> \in R
    BY <2>3 DEF StrictSubsetOrdering
  <2>5. QED
    BY <1>4, <2>4
<1>6. QED
  BY <1>5 DEF First

\* Ranks number the members of a set of drones: from 1, and each only once.
LEMMA RankNumbers ==
  ASSUME NEW S \in SUBSET Drones
  PROVE  /\ \A d \in S : Rank(d, S) \in Drones
         /\ \A d, e \in S : d < e => Rank(d, S) < Rank(e, S)
         /\ \A d, e \in S : Rank(d, S) = Rank(e, S) => d = e
<1>1. IsFiniteSet(Drones) /\ Cardinality(Drones) = NumDrones
  BY FS_Interval, SupervisorAssumption DEF Drones
<1>2. \A x \in S : x \in Int
  BY DEF Drones
<1>3. ASSUME NEW d \in S
      PROVE  /\ IsFiniteSet({x \in S : x <= d})
             /\ Rank(d, S) \in Drones
  <2> DEFINE B == {x \in S : x <= d}
  <2>1. B \in SUBSET Drones /\ d \in B
    BY <1>2
  <2>2. IsFiniteSet(B) /\ Cardinality(B) <= NumDrones /\ Cardinality(B) \in Nat
    BY <2>1, <1>1, FS_Subset, FS_CardinalityType
  <2>3. Cardinality(B) # 0
    BY <2>1, <2>2, FS_EmptySet
  <2>4. QED
    BY <2>2, <2>3, SupervisorAssumption DEF Rank, Drones
<1>4. ASSUME NEW d \in S, NEW e \in S, d < e PROVE Rank(d, S) < Rank(e, S)
  <2> DEFINE B == {x \in S : x <= d}
             C == {x \in S : x <= e}
  <2>1. B \in SUBSET C /\ e \in C /\ e \notin B
    BY <1>2, <1>4
  <2>2. IsFiniteSet(C) /\ IsFiniteSet(B)
    BY <1>3
  <2>3. Cardinality(B) <= Cardinality(C) /\ Cardinality(B) # Cardinality(C)
    BY <2>1, <2>2, FS_Subset
  <2>4. Cardinality(B) \in Nat /\ Cardinality(C) \in Nat
    BY <2>2, FS_CardinalityType
  <2>5. QED
    BY <2>3, <2>4 DEF Rank
<1>5. ASSUME NEW d \in S, NEW e \in S, Rank(d, S) = Rank(e, S) PROVE d = e
  <2>1. \A x \in S : Rank(x, S) \in Drones
    BY <1>3
  <2>2. ~(d < e) /\ ~(e < d)
    <3>1. Rank(d, S) \in Int
      BY <2>1 DEF Drones
    <3>2. QED
      BY <1>4, <1>5, <3>1
  <2>3. QED
    BY <1>2, <2>2
<1>6. QED
  BY <1>3, <1>4, <1>5

\* The default planner makes a plan that can be flown: mission_planning.py's
\* plan_mission meets what supervisor.py asks of any planner.
LEMMA PlanMissionIsSound ==
  ASSUME NEW m \in Missions, Eligible # {}
  PROVE  /\ PlanMission(m).paths \in Partial(Drones, Routes)
         /\ PlanMission(m).followers \in Partial(Drones, Slots)
         /\ SoundPlan(PlanMission(m).paths, PlanMission(m).followers)
         /\ DOMAIN PlanMission(m).paths \cup DOMAIN PlanMission(m).followers \subseteq Eligible
<1> DEFINE names == {d \in Eligible : Rank(d, Eligible) <= m.count}
           leader == First(names)
           flying == IF m.type = "formation" THEN {leader} ELSE names
           ps == [d \in flying |-> [lane |-> Rank(d, names), left |-> NumWaypoints]]
           fs == [d \in names \ flying |->
                     [leader |-> leader, offset |-> Rank(d, names) - 1]]
<1>1. PlanMission(m).paths = ps /\ PlanMission(m).followers = fs
  BY DEF PlanMission
<1>2. Eligible \in SUBSET Drones /\ names \in SUBSET Drones
  BY DEF Eligible
<1>3. names # {}
  <2>1. First(Eligible) \in Eligible /\ \A e \in Eligible : First(Eligible) <= e
    BY <1>2, FirstIsLeast
  <2>2. {x \in Eligible : x <= First(Eligible)} = {First(Eligible)}
    <3>1. \A x \in Eligible : x \in Int
      BY <1>2 DEF Drones
    <3>2. \A x \in Eligible : x <= First(Eligible) <=> x = First(Eligible)
      BY <2>1, <3>1
    <3>3. QED
      BY <2>1, <3>2
  <2>3. Rank(First(Eligible), Eligible) = 1
    BY <2>2, FS_Singleton DEF Rank
  <2>4. m.count \in Nat \ {0}
    BY SupervisorAssumption
  <2>5. QED
    BY <2>1, <2>3, <2>4
<1>4. leader \in names /\ \A e \in names : leader <= e
  BY <1>2, <1>3, FirstIsLeast
<1>5. /\ \A d \in names : Rank(d, names) \in Drones
      /\ \A d, e \in names : d < e => Rank(d, names) < Rank(e, names)
      /\ \A d, e \in names : Rank(d, names) = Rank(e, names) => d = e
  BY <1>2, RankNumbers
<1>12. names \subseteq Eligible
  OBVIOUS
<1> HIDE DEF names, leader
<1>6. flying \subseteq names /\ leader \in flying
  BY <1>4
<1>7. \A d \in names \ flying : Rank(d, names) - 1 \in Drones
  <2>1. SUFFICES ASSUME NEW d \in names \ flying PROVE Rank(d, names) - 1 \in Drones
    OBVIOUS
  <2>2. leader < d
    BY <1>2, <1>4, <1>6 DEF Drones
  <2>3. Rank(leader, names) < Rank(d, names)
    BY <2>2, <1>4, <1>5
  <2>4. Rank(leader, names) \in Drones /\ Rank(d, names) \in Drones
    BY <1>4, <1>5
  <2>5. QED
    BY <2>3, <2>4, SupervisorAssumption DEF Drones
<1>8. ps \in Partial(Drones, Routes)
  <2>1. ps \in [flying -> Routes]
    BY <1>5, <1>6, SupervisorAssumption DEF Routes
  <2>2. QED
    BY <2>1, <1>2, <1>6 DEF Partial
<1>9. fs \in Partial(Drones, Slots)
  <2>1. fs \in [names \ flying -> Slots]
    BY <1>2, <1>4, <1>7 DEF Slots
  <2>2. QED
    BY <2>1, <1>2 DEF Partial
<1>10. SoundPlan(ps, fs)
  <2>1. \A d \in names : Rank(d, names) \in Int
    BY <1>5 DEF Drones
  <2>2. DistinctTasks(ps, fs)
    BY <2>1, <1>5, <1>6 DEF DistinctTasks
  <2>3. QED
    BY <2>2, <1>6, SupervisorAssumption DEF SoundPlan
<1>11. DOMAIN ps \cup DOMAIN fs \subseteq Eligible
  BY <1>6, <1>12
<1>13. QED
  BY <1>1, <1>8, <1>9, <1>10, <1>11

\* Every plan the supervisor flies is sound and made of eligible drones, an injected
\* planner's too.
LEMMA FlyablePlansAreSound ==
  ASSUME NEW m \in Missions, NEW p \in FlyablePlans(m)
  PROVE  /\ p.paths \in Partial(Drones, Routes)
         /\ p.followers \in Partial(Drones, Slots)
         /\ SoundPlan(p.paths, p.followers)
         /\ DOMAIN p.paths \cup DOMAIN p.followers \subseteq Eligible
<1>1. ~(Cardinality(Eligible) < m.count)
  BY DEF FlyablePlans
<1>2. CASE p = PlanMission(m)
  <2>1. Eligible # {}
    BY <1>1, FS_EmptySet, SupervisorAssumption
  <2>2. QED
    BY <1>1, <1>2, <2>1, PlanMissionIsSound DEF FlyablePlans
<1>3. CASE p \in PlannerPlans /\ Usable(p, m)
  <2>1. p \in Plans /\ Usable(p, m) /\ DistinctTasks(p.paths, p.followers)
    BY <1>1, <1>3, SupervisorAssumption DEF FlyablePlans
  <2>2. /\ p.paths \in Partial(Drones, Routes)
        /\ p.followers \in Partial(Drones, Slots)
    BY <2>1 DEF Plans
  <2>3. QED
    BY <2>1, <2>2 DEF Usable, SoundPlan
<1>4. QED
  BY <1>1, <1>2, <1>3 DEF FlyablePlans

\* What is left of a route is a route, on the same lane, of at least one
\* waypoint and at least those the drone has not reported.
LEMMA RestOfRoute ==
  ASSUME TypeOK, PlanSound, NEW d \in DOMAIN paths
  PROVE  /\ Rest(d) \in Routes
         /\ Rest(d).lane = paths[d].lane
         /\ Rest(d).left > 0
         /\ Rest(d).left <= paths[d].left
         /\ Rest(d).left >= paths[d].left - progress[d].index
<1>1. paths[d] \in Routes /\ d \in Drones
  BY PartialFunction DEF TypeOK
<1>2. paths[d].left \in 0 .. NumWaypoints /\ paths[d].left > 0
  BY <1>1 DEF Routes, PlanSound, SoundPlan
<1>3. progress[d].index \in 0 .. NumWaypoints
  BY <1>1 DEF TypeOK
<1>4. QED
  BY <1>1, <1>2, <1>3, SupervisorAssumption DEF Rest, Routes

\* What HandOverPath does to the plan and to the drones' orders, point by point.
LEMMA HandOverPathEffect ==
  ASSUME SupervisorInv, NEW d \in Drones, HandOverPath(d)
  PROVE  \E r \in Idle :
           /\ r = First(Idle) /\ r # d
           /\ DOMAIN paths' = (DOMAIN paths \ {d}) \cup {r}
           /\ paths'[r] = Rest(d)
           /\ \A x \in DOMAIN paths \ {d} : x # r /\ paths'[x] = paths[x]
           /\ DOMAIN followers' = DOMAIN followers
           /\ \A f \in DOMAIN followers :
                 /\ followers'[f] = IF followers[f].leader = d
                                    THEN [followers[f] EXCEPT !.leader = r]
                                    ELSE followers[f]
                 /\ followers'[f].leader = IF followers[f].leader = d THEN r
                                           ELSE followers[f].leader
                 /\ followers'[f].offset = followers[f].offset
                 /\ followers'[f] \in Slots
           /\ DOMAIN order' = Drones
           /\ order'[d] = GoHome
           /\ order'[r] = Assign(mission, Rest(d))
           /\ \A f \in DOMAIN followers : followers[f].leader = d =>
                 order'[f] = Slot(mission, followers'[f])
           /\ \A x \in Drones \ {d, r} : x \notin FollowersOf(d) => order'[x] = order[x]
<1> DEFINE r == First(Idle)
<1>1. r \in Idle
  BY FirstIsLeast DEF HandOverPath, Idle
<1>2. r \in Drones /\ r \notin DOMAIN paths /\ r \notin DOMAIN followers
  BY <1>1 DEF Idle, MissionDrones
<1>3. d \in DOMAIN paths /\ d \notin DOMAIN followers
  BY DEF HandOverPath, SupervisorInv, PlanSound, SoundPlan
<1>4. /\ DOMAIN followers \subseteq Drones
      /\ \A f \in DOMAIN followers : followers[f] \in Slots
      /\ DOMAIN order = Drones
  BY PartialFunction DEF SupervisorInv, TypeOK
<1> HIDE DEF r
<1>5. /\ paths' = With(Restrict(paths, DOMAIN paths \ {d}), Entry(r, Rest(d)))
      /\ followers' = Retargeted(d, r)
      /\ order' = With(order, [x \in {d, r} \cup FollowersOf(d) |->
                                 IF x = d THEN GoHome
                                 ELSE IF x = r THEN Assign(mission, Rest(d))
                                 ELSE Slot(mission, Retargeted(d, r)[x])])
  BY DEF HandOverPath, Tell, r
<1>6. /\ DOMAIN paths' = (DOMAIN paths \ {d}) \cup {r}
      /\ paths'[r] = Rest(d)
      /\ \A x \in DOMAIN paths \ {d} : x # r /\ paths'[x] = paths[x]
  BY <1>2, <1>5 DEF With, Entry, Restrict
<1>7. DOMAIN followers' = DOMAIN followers
  BY <1>5 DEF Retargeted
<1>8. \A f \in DOMAIN followers :
        /\ followers'[f] = IF followers[f].leader = d
                           THEN [followers[f] EXCEPT !.leader = r] ELSE followers[f]
        /\ followers'[f].leader = IF followers[f].leader = d THEN r ELSE followers[f].leader
        /\ followers'[f].offset = followers[f].offset
        /\ followers'[f] \in Slots
  BY <1>2, <1>4, <1>5 DEF Retargeted, FollowersOf, Slots
<1>9. FollowersOf(d) \subseteq Drones /\ d \notin FollowersOf(d) /\ r \notin FollowersOf(d)
  BY <1>2, <1>3, <1>4 DEF FollowersOf
<1>10. DOMAIN order' = Drones
  BY <1>2, <1>4, <1>5, <1>9 DEF With, Entry
<1>11. order'[d] = GoHome /\ order'[r] = Assign(mission, Rest(d))
  BY <1>2, <1>3, <1>5 DEF With, Entry
<1>12. \A f \in FollowersOf(d) : order'[f] = Slot(mission, followers'[f])
  BY <1>5, <1>9 DEF With, Entry
<1>13. \A x \in Drones \ {d, r} : x \notin FollowersOf(d) => order'[x] = order[x]
  BY <1>4, <1>5 DEF With, Entry
<1>14. r # d
  BY <1>2, <1>3
<1>15. QED
  BY <1>1, <1>6, <1>7, <1>8, <1>10, <1>11, <1>12, <1>13, <1>14 DEF FollowersOf, r

\* What HandOverSlot does to the plan and to the drones' orders, point by point.
LEMMA HandOverSlotEffect ==
  ASSUME SupervisorInv, NEW d \in Drones, HandOverSlot(d)
  PROVE  \E r \in Idle :
           /\ r = First(Idle) /\ r # d
           /\ DOMAIN followers' = (DOMAIN followers \ {d}) \cup {r}
           /\ followers'[r] = followers[d]
           /\ \A x \in DOMAIN followers \ {d} : x # r /\ followers'[x] = followers[x]
           /\ DOMAIN order' = Drones
           /\ order'[d] = GoHome
           /\ order'[r] = Slot(mission, followers[d])
           /\ \A x \in Drones \ {d, r} : order'[x] = order[x]
<1> DEFINE r == First(Idle)
<1>1. r \in Idle
  BY FirstIsLeast DEF HandOverSlot, Idle
<1>2. r \in Drones /\ r \notin DOMAIN followers /\ d \in DOMAIN followers
  BY <1>1 DEF Idle, MissionDrones, HandOverSlot
<1>3. DOMAIN order = Drones
  BY DEF SupervisorInv, TypeOK
<1> HIDE DEF r
<1>4. /\ followers' = With(Restrict(followers, DOMAIN followers \ {d}),
                           Entry(r, followers[d]))
      /\ order' = With(order, [x \in {d, r} |->
                         IF x = d THEN GoHome ELSE Slot(mission, followers[d])])
  BY DEF HandOverSlot, Tell, r
<1>5. /\ DOMAIN followers' = (DOMAIN followers \ {d}) \cup {r}
      /\ followers'[r] = followers[d]
      /\ \A x \in DOMAIN followers \ {d} : x # r /\ followers'[x] = followers[x]
  BY <1>2, <1>4 DEF With, Entry, Restrict
<1>6. /\ DOMAIN order' = Drones
      /\ order'[d] = GoHome
      /\ order'[r] = Slot(mission, followers[d])
      /\ \A x \in Drones \ {d, r} : order'[x] = order[x]
  BY <1>2, <1>3, <1>4 DEF With, Entry
<1>7. QED
  BY <1>1, <1>2, <1>5, <1>6 DEF r

-----------------------------------------------------------------------------
(* The inductive invariant, action by action. *)

LEMMA InitInv == Init => SupervisorInv
<1> SUFFICES ASSUME Init PROVE SupervisorInv
  OBVIOUS
<1>1. DOMAIN paths = {} /\ DOMAIN followers = {} /\ MissionDrones = {}
  BY DEF Init, Empty, MissionDrones
<1>2. paths \in Partial(Drones, Routes) /\ followers \in Partial(Drones, Slots)
  BY <1>1, PartialFunction DEF Init, Empty
<1>3. TypeOK
  <2>1. NoProgress \in [index : 0 .. NumWaypoints, complete : BOOLEAN]
    BY SupervisorAssumption DEF NoProgress
  <2>2. NoOrder \in Orders
    BY DEF Orders
  <2>3. QED
    BY <1>2, <2>1, <2>2 DEF Init, TypeOK, Batteries
<1>4. PlanSound
  BY <1>1 DEF Init, PlanSound, SoundPlan, DistinctTasks
<1>5. OrdersMatchPlan
  BY <1>1 DEF Init, OrdersMatchPlan, IsTask, NoOrder
<1>6. PassBookkeeping /\ PassLeavesNobodyBehind
  BY <1>1 DEF Init, PassBookkeeping, PassLeavesNobodyBehind
<1>7. QED
  BY <1>3, <1>4, <1>5, <1>6 DEF SupervisorInv

\* Reports change neither the plan nor what the drones were told.
LEMMA ObserveInv ==
  ASSUME SupervisorInv, Observe
  PROVE  SupervisorInv'
<1>1. CASE \E d \in Drones, pct \in Batteries : ObserveBattery(d, pct)
  BY <1>1 DEF ObserveBattery, SupervisorInv, TypeOK, PlanSound, OrdersMatchPlan,
     PassBookkeeping, PassLeavesNobodyBehind, TaskOf, MissionDrones, pass
<1>2. CASE \E d \in Drones, id \in MissionIds, report \in Reports :
             ObserveProgress(d, id, report)
  BY <1>2, SupervisorAssumption DEF ObserveProgress, SupervisorInv, TypeOK, PlanSound,
     OrdersMatchPlan, PassBookkeeping, PassLeavesNobodyBehind, TaskOf, MissionDrones, pass
<1>3. QED
  BY <1>1, <1>2 DEF Observe

\* A new mission: the drones of the old plan that the new one has no use for go home.
LEMMA StartInv ==
  ASSUME SupervisorInv, NEW m \in Missions, Start(m)
  PROVE  SupervisorInv'
<1>1. PICK p \in FlyablePlans(m) :
        /\ Tell(StartMessages(m, p))
        /\ mission' = m.id
        /\ paths' = p.paths
        /\ followers' = p.followers
        /\ progress' = [d \in Drones |-> NoProgress]
        /\ retired' = {}
        /\ dropped' = {}
        /\ active' = [mission |-> m.id, drones |-> DOMAIN p.paths \cup DOMAIN p.followers]
        /\ UNCHANGED <<battery, pass>>
        /\ ~scanning
  BY DEF Start
<1>2. /\ paths' \in Partial(Drones, Routes)
      /\ followers' \in Partial(Drones, Slots)
      /\ SoundPlan(paths', followers')
  BY <1>1, FlyablePlansAreSound
<1>3. m.id \in MissionIds /\ m.id # NoMission
  BY SupervisorAssumption
<1>4. /\ DOMAIN paths' \subseteq Drones
      /\ DOMAIN followers' \subseteq Drones
      /\ \A d \in DOMAIN paths' : paths'[d] \in Routes
      /\ \A d \in DOMAIN followers' : followers'[d] \in Slots
  BY <1>2, PartialFunction
<1>5. DOMAIN paths \subseteq Drones /\ DOMAIN followers \subseteq Drones /\ DOMAIN order = Drones
  BY PartialFunction DEF SupervisorInv, TypeOK
<1>6. order' = [d \in Drones |->
                  IF d \in DOMAIN paths' THEN Assign(m.id, paths'[d])
                  ELSE IF d \in DOMAIN followers' THEN Slot(m.id, followers'[d])
                  ELSE IF d \in MissionDrones THEN GoHome ELSE order[d]]
  BY <1>1, <1>4, <1>5 DEF Tell, StartMessages, With, MissionDrones
<1>7. MissionDrones' = DOMAIN paths' \cup DOMAIN followers'
  BY DEF MissionDrones
<1>8. TypeOK'
  <2>1. order' \in [Drones -> Orders]
    BY <1>3, <1>4, <1>6 DEF SupervisorInv, TypeOK, Orders, GoHome, COMMANDS
  <2>2. active' \in [mission : MissionIds \cup {NoMission}, drones : SUBSET Drones]
    BY <1>1, <1>3, <1>4
  <2>3. progress' \in [Drones -> [index : 0 .. NumWaypoints, complete : BOOLEAN]]
    BY <1>1, SupervisorAssumption DEF NoProgress
  <2>4. QED
    BY <1>1, <1>2, <1>3, <2>1, <2>2, <2>3 DEF SupervisorInv, TypeOK, pass
<1>9. PlanSound'
  BY <1>1, <1>2 DEF PlanSound
<1>10. OrdersMatchPlan'
  <2>1. DOMAIN paths' \cap DOMAIN followers' = {}
    BY <1>2 DEF SoundPlan
  <2>2. \A d \in MissionDrones' : order'[d] = TaskOf(d)'
    BY <1>1, <1>4, <1>6, <1>7, <2>1 DEF TaskOf
  <2>3. \A d \in Drones \ MissionDrones' : ~IsTask(order'[d])
    <3>1. SUFFICES ASSUME NEW d \in Drones \ MissionDrones' PROVE ~IsTask(order'[d])
      OBVIOUS
    <3>2. CASE d \in MissionDrones
      BY <1>6, <1>7, <3>2 DEF IsTask, GoHome, Command
    <3>3. CASE d \notin MissionDrones
      BY <1>6, <1>7, <3>3 DEF SupervisorInv, OrdersMatchPlan
    <3>4. QED
      BY <3>2, <3>3
  <2>4. QED
    BY <1>1, <2>2, <2>3 DEF OrdersMatchPlan
<1>11. PassBookkeeping' /\ PassLeavesNobodyBehind'
  BY <1>1, <1>3, <1>7 DEF PassBookkeeping, PassLeavesNobodyBehind, SupervisorInv, pass
<1>12. QED
  BY <1>8, <1>9, <1>10, <1>11 DEF SupervisorInv

\* A swarm-wide command leaves no mission and nobody with a task.
LEMMA SwarmCommandInv ==
  ASSUME SupervisorInv, NEW c \in COMMANDS, SwarmCommand(c)
  PROVE  SupervisorInv'
<1>1. order' = [d \in Drones |-> Command(c)]
  BY DEF SwarmCommand, Tell, With, SupervisorInv, TypeOK
<1>2. DOMAIN paths' = {} /\ DOMAIN followers' = {} /\ MissionDrones' = {}
  BY DEF SwarmCommand, Empty, MissionDrones
<1>3. paths' \in Partial(Drones, Routes) /\ followers' \in Partial(Drones, Slots)
  BY <1>2, PartialFunction DEF SwarmCommand, Empty
<1>4. TypeOK'
  BY <1>1, <1>3, SupervisorAssumption
     DEF SwarmCommand, SupervisorInv, TypeOK, Orders, NoProgress, pass
<1>5. PlanSound'
  BY <1>2 DEF SwarmCommand, PlanSound, SoundPlan, DistinctTasks
<1>6. OrdersMatchPlan'
  BY <1>1, <1>2 DEF SwarmCommand, OrdersMatchPlan, IsTask, Command
<1>7. PassBookkeeping' /\ PassLeavesNobodyBehind'
  BY <1>2 DEF SwarmCommand, PassBookkeeping, PassLeavesNobodyBehind, SupervisorInv, pass
<1>8. QED
  BY <1>4, <1>5, <1>6, <1>7 DEF SupervisorInv

\* The steps of a pass that move no task.
LEMMA QuietPassInv ==
  ASSUME SupervisorInv, BeginPass \/ EndPass \/ \E d \in Drones : LeaveAlone(d)
  PROVE  SupervisorInv'
<1>1. CASE BeginPass
  <2>1. MissionDrones \subseteq Drones
    BY PartialFunction DEF MissionDrones, SupervisorInv, TypeOK
  <2>2. UNCHANGED <<paths, followers, mission, MissionDrones>>
    BY <1>1 DEF BeginPass, MissionDrones
  <2>3. TypeOK'
    BY <1>1, <2>1 DEF BeginPass, SupervisorInv, TypeOK
  <2>4. PlanSound' /\ OrdersMatchPlan'
    BY <1>1, <2>2 DEF BeginPass, SupervisorInv, PlanSound, OrdersMatchPlan, TaskOf
  <2>5. PassBookkeeping' /\ PassLeavesNobodyBehind'
    BY <1>1, <2>2 DEF BeginPass, SupervisorInv, PassBookkeeping, PassLeavesNobodyBehind
  <2>6. QED
    BY <2>3, <2>4, <2>5 DEF SupervisorInv
<1>2. CASE EndPass
  <2>1. MissionDrones \subseteq Drones
    BY PartialFunction DEF MissionDrones, SupervisorInv, TypeOK
  <2>2. UNCHANGED <<paths, followers, mission, MissionDrones>>
    BY <1>2 DEF EndPass, MissionDrones
  <2>3. TypeOK'
    BY <1>2, <2>1 DEF EndPass, SupervisorInv, TypeOK
  <2>4. PlanSound' /\ OrdersMatchPlan'
    BY <1>2, <2>2 DEF EndPass, SupervisorInv, PlanSound, OrdersMatchPlan, TaskOf
  <2>5. PassBookkeeping' /\ PassLeavesNobodyBehind'
    BY <1>2, <2>2 DEF EndPass, SupervisorInv, PassBookkeeping, PassLeavesNobodyBehind
  <2>6. QED
    BY <2>3, <2>4, <2>5 DEF SupervisorInv
<1>3. CASE \E d \in Drones : LeaveAlone(d)
  BY <1>3 DEF LeaveAlone, Visiting, MustGoHome, SupervisorInv, TypeOK, PlanSound,
     OrdersMatchPlan, PassBookkeeping, PassLeavesNobodyBehind, TaskOf, MissionDrones,
     Low, Finished
<1>4. QED
  BY <1>1, <1>2, <1>3

\* A drone of a pass is a drone of the mission.
LEMMA VisitedIsInMission ==
  ASSUME SupervisorInv, NEW d \in Drones, Visiting(d)
  PROVE  d \in MissionDrones /\ d \in scan /\ scan \subseteq Drones
  BY FirstIsLeast DEF Visiting, SupervisorInv, TypeOK, PassBookkeeping

\* A dropped task stays with the drone that is sent home.
LEMMA DropInv ==
  ASSUME SupervisorInv, NEW d \in Drones, Drop(d)
  PROVE  SupervisorInv'
<1>1. d \in MissionDrones /\ scanning
  BY VisitedIsInMission DEF Drop, Visiting
<1>2. order' = [order EXCEPT ![d] = GoHome]
  BY DEF Drop, Tell, With, Entry, SupervisorInv, TypeOK
<1>3. UNCHANGED <<paths, followers, mission, retired, MissionDrones>>
  BY DEF Drop, MissionDrones
<1>4. TypeOK'
  BY <1>2 DEF Drop, Visiting, SupervisorInv, TypeOK, Orders, GoHome, COMMANDS
<1>5. PlanSound'
  BY <1>1, <1>3 DEF Drop, SupervisorInv, PlanSound
<1>6. OrdersMatchPlan'
  BY <1>2, <1>3, <1>4
     DEF Drop, SupervisorInv, TypeOK, OrdersMatchPlan, TaskOf, IsTask, GoHome, Command
<1>7. PassBookkeeping' /\ PassLeavesNobodyBehind'
  BY <1>1, <1>3
     DEF Drop, Visiting, SupervisorInv, PassBookkeeping, PassLeavesNobodyBehind, Low,
         Finished
<1>8. QED
  BY <1>4, <1>5, <1>6, <1>7 DEF SupervisorInv

\* A route moves to an idle drone, and the followers follow it there.
LEMMA HandOverPathInv ==
  ASSUME SupervisorInv, NEW d \in Drones, HandOverPath(d)
  PROVE  SupervisorInv'
<1>1. PICK r \in Idle :
        /\ r # d
        /\ DOMAIN paths' = (DOMAIN paths \ {d}) \cup {r}
        /\ paths'[r] = Rest(d)
        /\ \A x \in DOMAIN paths \ {d} : x # r /\ paths'[x] = paths[x]
        /\ DOMAIN followers' = DOMAIN followers
        /\ \A f \in DOMAIN followers :
              /\ followers'[f] = IF followers[f].leader = d
                                 THEN [followers[f] EXCEPT !.leader = r]
                                 ELSE followers[f]
              /\ followers'[f].leader = IF followers[f].leader = d THEN r
                                        ELSE followers[f].leader
              /\ followers'[f].offset = followers[f].offset
              /\ followers'[f] \in Slots
        /\ DOMAIN order' = Drones
        /\ order'[d] = GoHome
        /\ order'[r] = Assign(mission, Rest(d))
        /\ \A f \in DOMAIN followers : followers[f].leader = d =>
              order'[f] = Slot(mission, followers'[f])
        /\ \A x \in Drones \ {d, r} : x \notin FollowersOf(d) => order'[x] = order[x]
  BY HandOverPathEffect
<1>2. /\ d \in MissionDrones /\ d \in scan /\ scan \subseteq Drones /\ scanning
      /\ d \in DOMAIN paths /\ d \notin DOMAIN followers /\ d \notin dropped
  BY VisitedIsInMission
     DEF HandOverPath, Visiting, MustGoHome, SupervisorInv, PlanSound, SoundPlan
<1>3. /\ r \in Drones /\ r \notin DOMAIN paths /\ r \notin DOMAIN followers
      /\ r \notin MissionDrones /\ r \notin retired /\ r \notin dropped
      /\ battery[r] = "ok"
  BY <1>1 DEF Idle, MissionDrones
<1>4. /\ Rest(d) \in Routes
      /\ Rest(d).lane = paths[d].lane
      /\ Rest(d).left > 0
  BY <1>2, RestOfRoute DEF SupervisorInv
<1>5. /\ DOMAIN paths \subseteq Drones /\ \A x \in DOMAIN paths : paths[x] \in Routes
      /\ DOMAIN followers \subseteq Drones
      /\ \A f \in DOMAIN followers : followers[f] \in Slots
  BY PartialFunction DEF SupervisorInv, TypeOK
<1>6. /\ mission' = mission /\ mission \in MissionIds
      /\ scanning' = scanning /\ scan' = scan \ {d} /\ acted' = TRUE
      /\ retired' = retired \cup {d} /\ dropped' = dropped
      /\ UNCHANGED <<battery, progress, active>>
  BY <1>2 DEF HandOverPath, Visiting, SupervisorInv, TypeOK, PassBookkeeping
<1>7. MissionDrones' = (MissionDrones \ {d}) \cup {r}
  BY <1>1, <1>2 DEF MissionDrones
<1>8. TypeOK'
  <2>1. paths' \in Partial(Drones, Routes)
    <3>1. paths' = [x \in DOMAIN paths' |-> paths'[x]]
      BY DEF HandOverPath, With
    <3>2. \A x \in DOMAIN paths' : paths'[x] \in Routes
      BY <1>1, <1>4, <1>5
    <3>3. DOMAIN paths' \subseteq Drones
      BY <1>1, <1>3, <1>5
    <3>4. QED
      BY <3>1, <3>2, <3>3, PartialFunction
  <2>2. followers' \in Partial(Drones, Slots)
    <3>1. followers' = [x \in DOMAIN followers' |-> followers'[x]]
      BY DEF HandOverPath, Retargeted
    <3>2. QED
      BY <1>1, <1>5, <3>1, PartialFunction
  <2>3. order' \in [Drones -> Orders]
    <3>1. order' = [x \in DOMAIN order' |-> order'[x]]
      BY DEF HandOverPath, Tell, With
    <3>2. ASSUME NEW x \in Drones PROVE order'[x] \in Orders
      <4>1. CASE x = d
        BY <4>1, <1>1 DEF Orders, GoHome, COMMANDS
      <4>2. CASE x = r
        BY <4>2, <1>1, <1>4, <1>6 DEF Orders
      <4>3. CASE x \in FollowersOf(d)
        BY <4>3, <1>1, <1>6 DEF Orders, FollowersOf
      <4>4. CASE x \notin {d, r} /\ x \notin FollowersOf(d)
        BY <4>4, <1>1 DEF SupervisorInv, TypeOK
      <4>5. QED
        BY <4>1, <4>2, <4>3, <4>4
    <3>3. QED
      BY <1>1, <3>1, <3>2
  <2>4. QED
    BY <1>2, <1>6, <2>1, <2>2, <2>3 DEF SupervisorInv, TypeOK
<1>9. PlanSound'
  <2>1. DOMAIN paths' \cap DOMAIN followers' = {}
    BY <1>1, <1>3 DEF SupervisorInv, PlanSound, SoundPlan
  <2>2. \A x \in DOMAIN paths' : paths'[x].left > 0
    BY <1>1, <1>4 DEF SupervisorInv, PlanSound, SoundPlan
  <2>3. \A x, y \in DOMAIN paths' : paths'[x].lane = paths'[y].lane => x = y
    BY <1>1, <1>2, <1>4 DEF SupervisorInv, PlanSound, SoundPlan, DistinctTasks
  <2>4. \A f, g \in DOMAIN followers' : followers'[f].offset = followers'[g].offset => f = g
    BY <1>1 DEF SupervisorInv, PlanSound, SoundPlan, DistinctTasks
  <2>5. \A f \in DOMAIN followers' : followers'[f].leader \in DOMAIN paths'
    BY <1>1 DEF SupervisorInv, PlanSound, SoundPlan
  <2>6. retired' \cap MissionDrones' = {} /\ dropped' \subseteq MissionDrones'
    BY <1>1, <1>2, <1>3, <1>6, <1>7 DEF SupervisorInv, PlanSound
  <2>7. QED
    BY <2>1, <2>2, <2>3, <2>4, <2>5, <2>6 DEF PlanSound, SoundPlan, DistinctTasks
<1>10. OrdersMatchPlan'
  <2>1. \A x \in MissionDrones : x # d /\ x \notin FollowersOf(d) =>
           TaskOf(x)' = TaskOf(x) /\ order'[x] = order[x]
    <3>1. SUFFICES ASSUME NEW x \in MissionDrones, x # d, x \notin FollowersOf(d)
                   PROVE  TaskOf(x)' = TaskOf(x) /\ order'[x] = order[x]
      OBVIOUS
    <3>2. x # r /\ x \in Drones /\ order'[x] = order[x]
      BY <1>1, <1>3, <1>5, <3>1 DEF MissionDrones
    <3>3. CASE x \in DOMAIN paths
      BY <1>1, <1>6, <3>1, <3>2, <3>3 DEF TaskOf
    <3>4. CASE x \in DOMAIN followers /\ x \notin DOMAIN paths
      BY <1>1, <1>6, <3>1, <3>2, <3>4 DEF TaskOf, FollowersOf
    <3>5. QED
      BY <3>2, <3>3, <3>4 DEF MissionDrones
  <2>2. \A x \in FollowersOf(d) : order'[x] = TaskOf(x)'
    BY <1>1, <1>3, <1>6
       DEF FollowersOf, TaskOf, SupervisorInv, PlanSound, SoundPlan
  <2>3. order'[r] = TaskOf(r)'
    BY <1>1, <1>6 DEF TaskOf
  <2>4. \A x \in MissionDrones' \ dropped' : order'[x] = TaskOf(x)'
    BY <1>6, <1>7, <2>1, <2>2, <2>3 DEF SupervisorInv, OrdersMatchPlan
  <2>5. ASSUME NEW x \in Drones, IsTask(order'[x])
        PROVE  x \in MissionDrones' /\ order'[x] = TaskOf(x)'
    <3>1. x # d
      BY <1>1, <2>5 DEF IsTask, GoHome, Command
    <3>2. CASE x = r
      BY <1>7, <2>3, <3>2
    <3>3. CASE x \in FollowersOf(d)
      BY <1>7, <2>2, <3>1, <3>3 DEF FollowersOf, MissionDrones
    <3>4. CASE x # r /\ x \notin FollowersOf(d)
      <4>1. order'[x] = order[x]
        BY <1>1, <3>1, <3>4
      <4>2. x \in MissionDrones /\ order[x] = TaskOf(x)
        BY <2>5, <4>1 DEF SupervisorInv, OrdersMatchPlan
      <4>3. QED
        BY <1>7, <2>1, <3>1, <3>4, <4>1, <4>2
    <3>5. QED
      BY <3>2, <3>3, <3>4
  <2>6. ASSUME NEW x \in retired' PROVE order'[x] = GoHome
    <3>1. CASE x = d
      BY <1>1, <3>1
    <3>2. CASE x # d
      <4>1. x \in retired /\ x \in Drones /\ x \notin MissionDrones /\ x # r
        BY <1>3, <1>6, <2>6, <3>2 DEF SupervisorInv, TypeOK, PlanSound
      <4>2. x \notin FollowersOf(d)
        BY <4>1 DEF FollowersOf, MissionDrones
      <4>3. QED
        BY <1>1, <3>2, <4>1, <4>2 DEF SupervisorInv, OrdersMatchPlan
    <3>3. QED
      BY <3>1, <3>2
  <2>7. QED
    BY <2>4, <2>5, <2>6 DEF OrdersMatchPlan
<1>11. PassBookkeeping' /\ PassLeavesNobodyBehind'
  <2>1. scan' \subseteq MissionDrones'
    BY <1>6, <1>7 DEF SupervisorInv, PassBookkeeping
  <2>2. \A x \in MissionDrones' \ scan' : battery[x] = "low" =>
           x \in dropped \/ progress[x].complete
    BY <1>2, <1>3, <1>6, <1>7 DEF SupervisorInv, PassLeavesNobodyBehind, Low, Finished
  <2>3. mission # NoMission
    BY <1>6, SupervisorAssumption
  <2>4. QED
    BY <1>2, <1>6, <2>1, <2>2, <2>3 DEF PassBookkeeping, PassLeavesNobodyBehind, Low, Finished
<1>12. QED
  BY <1>8, <1>9, <1>10, <1>11 DEF SupervisorInv

\* A slot moves to an idle drone.
LEMMA HandOverSlotInv ==
  ASSUME SupervisorInv, NEW d \in Drones, HandOverSlot(d)
  PROVE  SupervisorInv'
<1>1. PICK r \in Idle :
        /\ r # d
        /\ DOMAIN followers' = (DOMAIN followers \ {d}) \cup {r}
        /\ followers'[r] = followers[d]
        /\ \A x \in DOMAIN followers \ {d} : x # r /\ followers'[x] = followers[x]
        /\ DOMAIN order' = Drones
        /\ order'[d] = GoHome
        /\ order'[r] = Slot(mission, followers[d])
        /\ \A x \in Drones \ {d, r} : order'[x] = order[x]
  BY HandOverSlotEffect
<1>2. /\ d \in MissionDrones /\ d \in scan /\ scan \subseteq Drones /\ scanning
      /\ d \in DOMAIN followers /\ d \notin DOMAIN paths /\ d \notin dropped
  BY VisitedIsInMission
     DEF HandOverSlot, Visiting, MustGoHome, SupervisorInv, PlanSound, SoundPlan
<1>3. /\ r \in Drones /\ r \notin DOMAIN paths /\ r \notin DOMAIN followers
      /\ r \notin MissionDrones /\ r \notin retired /\ r \notin dropped
      /\ battery[r] = "ok"
  BY <1>1 DEF Idle, MissionDrones
<1>4. /\ DOMAIN paths \subseteq Drones
      /\ DOMAIN followers \subseteq Drones
      /\ \A f \in DOMAIN followers : followers[f] \in Slots
  BY PartialFunction DEF SupervisorInv, TypeOK
<1>5. /\ mission' = mission /\ mission \in MissionIds /\ paths' = paths
      /\ scanning' = scanning /\ scan' = scan \ {d} /\ acted' = TRUE
      /\ retired' = retired \cup {d} /\ dropped' = dropped
      /\ UNCHANGED <<battery, progress, active>>
  BY <1>2 DEF HandOverSlot, Visiting, SupervisorInv, TypeOK, PassBookkeeping
<1>6. MissionDrones' = (MissionDrones \ {d}) \cup {r}
  BY <1>1, <1>2, <1>5 DEF MissionDrones
<1>7. TypeOK'
  <2>1. followers' \in Partial(Drones, Slots)
    <3>1. followers' = [x \in DOMAIN followers' |-> followers'[x]]
      BY DEF HandOverSlot, With
    <3>2. \A x \in DOMAIN followers' : followers'[x] \in Slots
      BY <1>1, <1>2, <1>4
    <3>3. DOMAIN followers' \subseteq Drones
      BY <1>1, <1>3, <1>4
    <3>4. QED
      BY <3>1, <3>2, <3>3, PartialFunction
  <2>2. order' \in [Drones -> Orders]
    <3>1. order' = [x \in DOMAIN order' |-> order'[x]]
      BY DEF HandOverSlot, Tell, With
    <3>2. GoHome \in Orders /\ Slot(mission, followers[d]) \in Orders
      BY <1>2, <1>4, <1>5 DEF Orders, GoHome, COMMANDS
    <3>3. \A x \in Drones : order'[x] \in Orders
      BY <1>1, <3>2 DEF SupervisorInv, TypeOK
    <3>4. QED
      BY <1>1, <3>1, <3>3
  <2>3. QED
    BY <1>2, <1>5, <2>1, <2>2 DEF SupervisorInv, TypeOK
<1>8. PlanSound'
  <2>1. DOMAIN paths' \cap DOMAIN followers' = {}
    BY <1>1, <1>3, <1>5 DEF SupervisorInv, PlanSound, SoundPlan
  <2>2. \A f, g \in DOMAIN followers' : followers'[f].offset = followers'[g].offset => f = g
    BY <1>1, <1>2 DEF SupervisorInv, PlanSound, SoundPlan, DistinctTasks
  <2>3. \A f \in DOMAIN followers' : followers'[f].leader \in DOMAIN paths'
    BY <1>1, <1>2, <1>5 DEF SupervisorInv, PlanSound, SoundPlan
  <2>4. retired' \cap MissionDrones' = {} /\ dropped' \subseteq MissionDrones'
    BY <1>1, <1>2, <1>3, <1>5, <1>6 DEF SupervisorInv, PlanSound
  <2>5. QED
    BY <1>5, <2>1, <2>2, <2>3, <2>4 DEF SupervisorInv, PlanSound, SoundPlan, DistinctTasks
<1>9. OrdersMatchPlan'
  <2>1. \A x \in MissionDrones \ {d} :
           x # r /\ x \in Drones /\ TaskOf(x)' = TaskOf(x) /\ order'[x] = order[x]
    BY <1>1, <1>3, <1>4, <1>5 DEF MissionDrones, TaskOf
  <2>2. order'[r] = TaskOf(r)'
    BY <1>1, <1>3, <1>5 DEF TaskOf
  <2>3. \A x \in MissionDrones' \ dropped' : order'[x] = TaskOf(x)'
    BY <1>5, <1>6, <2>1, <2>2 DEF SupervisorInv, OrdersMatchPlan
  <2>4. ASSUME NEW x \in Drones, IsTask(order'[x])
        PROVE  x \in MissionDrones' /\ order'[x] = TaskOf(x)'
    <3>1. x # d
      BY <1>1, <2>4 DEF IsTask, GoHome, Command
    <3>2. CASE x = r
      BY <1>6, <2>2, <3>2
    <3>3. CASE x # r
      BY <1>1, <1>6, <2>1, <2>4, <3>1, <3>3 DEF SupervisorInv, OrdersMatchPlan
    <3>4. QED
      BY <3>2, <3>3
  <2>5. \A x \in retired' : order'[x] = GoHome
    BY <1>1, <1>3, <1>5 DEF SupervisorInv, TypeOK, OrdersMatchPlan
  <2>6. QED
    BY <2>3, <2>4, <2>5 DEF OrdersMatchPlan
<1>10. PassBookkeeping' /\ PassLeavesNobodyBehind'
  <2>1. scan' \subseteq MissionDrones'
    BY <1>5, <1>6 DEF SupervisorInv, PassBookkeeping
  <2>2. \A x \in MissionDrones' \ scan' : battery[x] = "low" =>
           x \in dropped \/ progress[x].complete
    BY <1>2, <1>3, <1>5, <1>6 DEF SupervisorInv, PassLeavesNobodyBehind, Low, Finished
  <2>3. mission # NoMission
    BY <1>5, SupervisorAssumption
  <2>4. QED
    BY <1>2, <1>5, <2>1, <2>2, <2>3 DEF PassBookkeeping, PassLeavesNobodyBehind, Low, Finished
<1>11. QED
  BY <1>7, <1>8, <1>9, <1>10 DEF SupervisorInv

LEMMA NextInv == SupervisorInv /\ [Next]_vars => SupervisorInv'
<1> SUFFICES ASSUME SupervisorInv, [Next]_vars PROVE SupervisorInv'
  OBVIOUS
<1>1. CASE Observe
  BY <1>1, ObserveInv
<1>2. CASE Operate
  BY <1>2, StartInv, SwarmCommandInv DEF Operate
<1>3. CASE Reallocate
  <2>1. CASE \E d \in Drones : Visit(d)
    BY <2>1, QuietPassInv, DropInv, HandOverPathInv, HandOverSlotInv DEF Visit
  <2>2. QED
    BY <1>3, <2>1, QuietPassInv DEF Reallocate
<1>4. CASE UNCHANGED vars
  BY <1>4 DEF vars, SupervisorInv, TypeOK, PlanSound, OrdersMatchPlan, PassBookkeeping,
     PassLeavesNobodyBehind, TaskOf, MissionDrones, Low, Finished
<1>5. QED
  BY <1>1, <1>2, <1>3, <1>4 DEF Next

-----------------------------------------------------------------------------
(* What a step may do. *)

\* A step of a pass that hands nothing over leaves the plan as it is, and so does
\* a step that does nothing.
LEMMA PassSteps ==
  ASSUME [Next]_vars, scanning
  PROVE  \/ UNCHANGED plan
         \/ \E d \in Drones : HandOverPath(d) \/ HandOverSlot(d)
<1>1. ~Observe /\ ~Operate /\ ~BeginPass
  BY DEF Observe, ObserveBattery, ObserveProgress, Operate, Start, SwarmCommand, BeginPass
<1>2. CASE \E d \in Drones : Visit(d)
  BY <1>2 DEF Visit, LeaveAlone, Drop, plan
<1>3. CASE EndPass
  BY <1>3 DEF EndPass, plan
<1>4. CASE UNCHANGED vars
  BY <1>4 DEF vars, plan
<1>5. QED
  BY <1>1, <1>2, <1>3, <1>4 DEF Next, Reallocate

\* No step of a pass loses a slot, a lane or a waypoint that was not reported.
LEMMA PassLosesNothing ==
  ASSUME SupervisorInv, [Next]_vars, scanning
  PROVE  /\ Offsets' = Offsets
         /\ \A d \in DOMAIN paths : \E e \in DOMAIN paths' :
               /\ paths'[e].lane = paths[d].lane
               /\ paths'[e].left > 0
               /\ paths'[e].left <= paths[d].left
               /\ paths'[e].left >= paths[d].left - progress[d].index
<1>1. \A x \in DOMAIN paths :
        /\ paths[x].left > 0 /\ paths[x].left <= paths[x].left
        /\ paths[x].left >= paths[x].left - progress[x].index
  <2>1. SUFFICES ASSUME NEW x \in DOMAIN paths
                 PROVE  /\ paths[x].left > 0 /\ paths[x].left <= paths[x].left
                        /\ paths[x].left >= paths[x].left - progress[x].index
    OBVIOUS
  <2>2. x \in Drones /\ paths[x] \in Routes
    BY PartialFunction DEF SupervisorInv, TypeOK
  <2>3. paths[x].left \in 0 .. NumWaypoints /\ paths[x].left > 0
    BY <2>2 DEF Routes, SupervisorInv, PlanSound, SoundPlan
  <2>4. progress[x].index \in 0 .. NumWaypoints
    BY <2>2 DEF SupervisorInv, TypeOK
  <2>5. QED
    BY <2>3, <2>4, SupervisorAssumption
<1>2. CASE UNCHANGED plan
  <2>1. paths' = paths /\ followers' = followers
    BY <1>2 DEF plan
  <2>2. Offsets' = Offsets
    BY <2>1 DEF Offsets
  <2>3. QED
    BY <1>1, <2>1, <2>2
<1>3. ASSUME NEW d \in Drones, HandOverPath(d)
      PROVE  /\ Offsets' = Offsets
             /\ \A x \in DOMAIN paths : \E e \in DOMAIN paths' :
                   /\ paths'[e].lane = paths[x].lane
                   /\ paths'[e].left > 0
                   /\ paths'[e].left <= paths[x].left
                   /\ paths'[e].left >= paths[x].left - progress[x].index
  <2>1. PICK r \in Idle :
          /\ DOMAIN paths' = (DOMAIN paths \ {d}) \cup {r}
          /\ paths'[r] = Rest(d)
          /\ \A x \in DOMAIN paths \ {d} : x # r /\ paths'[x] = paths[x]
          /\ DOMAIN followers' = DOMAIN followers
          /\ \A f \in DOMAIN followers : followers'[f].offset = followers[f].offset
    BY <1>3, HandOverPathEffect
  <2>2. Offsets' = Offsets
    BY <2>1 DEF Offsets
  <2>3. /\ Rest(d).lane = paths[d].lane
        /\ Rest(d).left > 0
        /\ Rest(d).left <= paths[d].left
        /\ Rest(d).left >= paths[d].left - progress[d].index
    BY <1>3, RestOfRoute DEF HandOverPath, SupervisorInv
  <2>4. QED
    BY <1>1, <2>1, <2>2, <2>3
<1>4. ASSUME NEW d \in Drones, HandOverSlot(d)
      PROVE  /\ Offsets' = Offsets
             /\ \A x \in DOMAIN paths : \E e \in DOMAIN paths' :
                   /\ paths'[e].lane = paths[x].lane
                   /\ paths'[e].left > 0
                   /\ paths'[e].left <= paths[x].left
                   /\ paths'[e].left >= paths[x].left - progress[x].index
  <2>1. PICK r \in Idle :
          /\ DOMAIN followers' = (DOMAIN followers \ {d}) \cup {r}
          /\ followers'[r] = followers[d]
          /\ \A x \in DOMAIN followers \ {d} : x # r /\ followers'[x] = followers[x]
    BY <1>4, HandOverSlotEffect
  <2>2. d \in DOMAIN followers /\ paths' = paths
    BY <1>4 DEF HandOverSlot
  <2>3. Offsets' = Offsets
    BY <2>1, <2>2 DEF Offsets
  <2>4. QED
    BY <1>1, <2>2, <2>3
<1>5. QED
  BY <1>2, <1>3, <1>4, PassSteps

\* Who joins a mission was not known to be low, and in mid flight is fit, new to the
\* mission and without a task.
LEMMA JoinersAreFit ==
  ASSUME SupervisorInv, [Next]_vars, NEW d \in MissionDrones', d \notin MissionDrones
  PROVE  /\ ~Low(d)
         /\ scanning => battery[d] = "ok" /\ d \notin retired /\ ~IsTask(order[d])
<1>1. CASE scanning
  <2>1. ~UNCHANGED plan
    BY DEF plan, MissionDrones
  <2>2. d \in Idle
    <3>1. ASSUME NEW x \in Drones, HandOverPath(x) PROVE d \in Idle
      <4>1. \E r \in Idle : /\ DOMAIN paths' = (DOMAIN paths \ {x}) \cup {r}
                             /\ DOMAIN followers' = DOMAIN followers
        BY <3>1, HandOverPathEffect
      <4>2. QED
        BY <4>1 DEF MissionDrones
    <3>2. ASSUME NEW x \in Drones, HandOverSlot(x) PROVE d \in Idle
      <4>1. \E r \in Idle : DOMAIN followers' = (DOMAIN followers \ {x}) \cup {r}
        BY <3>2, HandOverSlotEffect
      <4>2. paths' = paths
        BY <3>2 DEF HandOverSlot
      <4>3. QED
        BY <4>1, <4>2 DEF MissionDrones
    <3>3. QED
      BY <1>1, <2>1, <3>1, <3>2, PassSteps
  <2>3. d \in Drones /\ battery[d] = "ok" /\ d \notin retired
    BY <2>2 DEF Idle
  <2>4. ~IsTask(order[d])
    BY <2>3 DEF SupervisorInv, OrdersMatchPlan
  <2>5. QED
    BY <2>3, <2>4 DEF Low
<1>2. CASE ~scanning
  <2>1. CASE \E m \in Missions : Start(m)
    <3>1. PICK m \in Missions : Start(m)
      BY <2>1
    <3>2. PICK p \in FlyablePlans(m) : paths' = p.paths /\ followers' = p.followers
      BY <3>1 DEF Start
    <3>3. d \in Eligible
      BY <3>2, FlyablePlansAreSound DEF MissionDrones
    <3>4. QED
      BY <1>2, <3>3 DEF Eligible
  <2>2. CASE \E c \in COMMANDS : SwarmCommand(c)
    BY <2>2 DEF SwarmCommand, Empty, MissionDrones
  <2>3. CASE Observe
    BY <2>3 DEF Observe, ObserveBattery, ObserveProgress, MissionDrones
  <2>4. CASE Reallocate
    BY <1>2, <2>4 DEF Reallocate, BeginPass, EndPass, Visit, LeaveAlone, Drop,
       HandOverPath, HandOverSlot, Visiting, MissionDrones
  <2>5. CASE UNCHANGED vars
    BY <2>5 DEF vars, MissionDrones
  <2>6. QED
    BY <2>1, <2>2, <2>3, <2>4, <2>5 DEF Next, Operate
<1>3. QED
  BY <1>1, <1>2

-----------------------------------------------------------------------------
(* The theorems. *)

\* SupervisorInv holds in every state the supervisor can reach.
THEOREM SpecInv == Spec => []SupervisorInv
  BY InitInv, NextInv, PTL DEF Spec

\* The variables of the supervisor keep their types.
THEOREM SpecTypeOK == Spec => []TypeOK
<1>1. SupervisorInv => TypeOK
  BY DEF SupervisorInv
<1>2. QED
  BY <1>1, SpecInv, PTL

\* However many hand-overs a mission goes through, its plan stays flyable.
THEOREM SpecPlanSound == Spec => []PlanSound
<1>1. SupervisorInv => PlanSound
  BY DEF SupervisorInv
<1>2. QED
  BY <1>1, SpecInv, PTL

\* What the drones were last told is what the supervisor believes.
THEOREM SpecOrdersMatchPlan == Spec => []OrdersMatchPlan
<1>1. SupervisorInv => OrdersMatchPlan
  BY DEF SupervisorInv
<1>2. QED
  BY <1>1, SpecInv, PTL

\* The drones the aggregator waits for are those of the plan between passes.
THEOREM SpecActiveMatchesPlan == Spec => []ActiveMatchesPlan
<1>1. SupervisorInv => ActiveMatchesPlan
  BY DEF SupervisorInv, PassBookkeeping, ActiveMatchesPlan
<1>2. QED
  BY <1>1, SpecInv, PTL

\* No pass leaves a low drone of the mission behind.
THEOREM SpecPassLeavesNobodyBehind == Spec => []PassLeavesNobodyBehind
<1>1. SupervisorInv => PassLeavesNobodyBehind
  BY DEF SupervisorInv
<1>2. QED
  BY <1>1, SpecInv, PTL

\* A hand-over moves a task and loses none of it, however many there are.
THEOREM SpecHandOverLosesNothing == Spec => HandOverLosesNothing
<1>1. SupervisorInv /\ [Next]_vars =>
        [scanning =>
           /\ Offsets' = Offsets
           /\ \A d \in DOMAIN paths : \E e \in DOMAIN paths' :
                 /\ paths'[e].lane = paths[d].lane
                 /\ paths'[e].left > 0
                 /\ paths'[e].left <= paths[d].left
                 /\ paths'[e].left >= paths[d].left - progress[d].index]_vars
  BY PassLosesNothing
<1>2. QED
  BY <1>1, SpecInv, PTL DEF Spec, HandOverLosesNothing

\* Nobody joins a mission that is low, sent home before, or on a task already.
THEOREM SpecOnlyFitDronesJoin == Spec => OnlyFitDronesJoin
<1>1. SupervisorInv /\ [Next]_vars =>
        [\A d \in MissionDrones' \ MissionDrones :
            /\ ~Low(d)
            /\ scanning => battery[d] = "ok" /\ d \notin retired /\ ~IsTask(order[d])]_vars
  BY JoinersAreFit
<1>2. QED
  BY <1>1, SpecInv, PTL DEF Spec, OnlyFitDronesJoin

-----------------------------------------------------------------------------
(* The supervisor implements TaskRoster, for any number of drones, missions and *)
(* planner: the refinement that MissionSupervisor states, and its proof.        *)

\* What the drones of a plan hold, and who holds each task, as functions of the plan
\* so that the same lemma speaks of the plan before and after a step.
HeldIn(ps, fs, d) == IF d \in DOMAIN ps THEN RouteTask(ps[d].lane)
                     ELSE SlotTask(fs[d].offset)
DronesIn(ps, fs) == DOMAIN ps \cup DOMAIN fs
HoldersIn(ps, fs) ==
    [t \in {HeldIn(ps, fs, d) : d \in DronesIn(ps, fs)} |->
        CHOOSE d \in DronesIn(ps, fs) : HeldIn(ps, fs, d) = t]

Abandoned == {Held(d) : d \in dropped}

\* The refinement mapping of MissionSupervisor in these terms.
LEMMA Mapping ==
  /\ \A d : Held(d) = HeldIn(paths, followers, d)
  /\ MissionDrones = DronesIn(paths, followers)
  /\ [t \in {Held(d) : d \in MissionDrones} |-> CHOOSE d \in MissionDrones : Held(d) = t]
        = HoldersIn(paths, followers)
  BY DEF Held, HeldIn, MissionDrones, DronesIn, HoldersIn

\* In a sound plan every task has one holder, and the holders make a roster.
LEMMA HoldersOfSoundPlan ==
  ASSUME NEW ps, NEW fs,
         ps \in Partial(Drones, Routes), fs \in Partial(Drones, Slots), SoundPlan(ps, fs)
  PROVE  /\ \A d, e \in DronesIn(ps, fs) : HeldIn(ps, fs, d) = HeldIn(ps, fs, e) => d = e
         /\ \A d \in DronesIn(ps, fs) : HeldIn(ps, fs, d) \in AllTasks
         /\ DronesIn(ps, fs) \subseteq Drones
         /\ DOMAIN HoldersIn(ps, fs) = {HeldIn(ps, fs, d) : d \in DronesIn(ps, fs)}
         /\ \A d \in DronesIn(ps, fs) : HoldersIn(ps, fs)[HeldIn(ps, fs, d)] = d
         /\ Roster!IsRoster(HoldersIn(ps, fs))
<1>1. /\ DOMAIN ps \subseteq Drones /\ \A d \in DOMAIN ps : ps[d] \in Routes
      /\ DOMAIN fs \subseteq Drones /\ \A d \in DOMAIN fs : fs[d] \in Slots
  BY PartialFunction
<1>2. DronesIn(ps, fs) \subseteq Drones
  BY <1>1 DEF DronesIn
<1>3. ASSUME NEW d \in DronesIn(ps, fs) PROVE HeldIn(ps, fs, d) \in AllTasks
  BY <1>1 DEF DronesIn, HeldIn, AllTasks, Routes, Slots
<1>4. ASSUME NEW d \in DronesIn(ps, fs), NEW e \in DronesIn(ps, fs),
             HeldIn(ps, fs, d) = HeldIn(ps, fs, e)
      PROVE  d = e
  <2>1. \A l, o : RouteTask(l) # SlotTask(o)
    BY DEF RouteTask, SlotTask
  <2>2. CASE d \in DOMAIN ps
    <3>1. e \in DOMAIN ps
      BY <1>4, <2>1, <2>2 DEF HeldIn
    <3>2. ps[d].lane = ps[e].lane
      BY <1>4, <2>2, <3>1 DEF HeldIn, RouteTask
    <3>3. QED
      BY <2>2, <3>1, <3>2 DEF SoundPlan, DistinctTasks
  <2>3. CASE d \notin DOMAIN ps
    <3>1. e \notin DOMAIN ps
      BY <1>4, <2>1, <2>3 DEF HeldIn
    <3>2. fs[d].offset = fs[e].offset
      BY <1>4, <2>3, <3>1 DEF HeldIn, SlotTask
    <3>3. QED
      BY <2>3, <3>1, <3>2 DEF DronesIn, SoundPlan, DistinctTasks
  <2>4. QED
    BY <2>2, <2>3
<1>5. DOMAIN HoldersIn(ps, fs) = {HeldIn(ps, fs, d) : d \in DronesIn(ps, fs)}
  BY DEF HoldersIn
<1>6. ASSUME NEW d \in DronesIn(ps, fs) PROVE HoldersIn(ps, fs)[HeldIn(ps, fs, d)] = d
  <2>1. HoldersIn(ps, fs)[HeldIn(ps, fs, d)]
          = CHOOSE e \in DronesIn(ps, fs) : HeldIn(ps, fs, e) = HeldIn(ps, fs, d)
    BY DEF HoldersIn
  <2>2. QED
    BY <1>4, <2>1
<1>7. Roster!IsRoster(HoldersIn(ps, fs))
  BY <1>2, <1>3, <1>5, <1>6 DEF Roster!IsRoster
<1>8. QED
  BY <1>2, <1>3, <1>4, <1>5, <1>6, <1>7

\* Whichever task a hand-over moves, it goes to a drone without part in the mission,
\* and every other task stays where it is.
LEMMA HandOverMovesOneTask ==
  ASSUME SupervisorInv, NEW d \in Drones, HandOverPath(d) \/ HandOverSlot(d)
  PROVE  /\ d \in MissionDrones /\ d \notin dropped
         /\ retired' = retired \cup {d} /\ dropped' = dropped
         /\ \E r \in Drones :
              /\ r \notin MissionDrones /\ r \notin retired
              /\ MissionDrones' = (MissionDrones \ {d}) \cup {r}
              /\ Held(r)' = Held(d)
              /\ \A x \in MissionDrones \ {d} : Held(x)' = Held(x)
<1>1. d \in MissionDrones
  BY DEF HandOverPath, HandOverSlot, MissionDrones
<1>2. d \notin dropped /\ retired' = retired \cup {d} /\ dropped' = dropped
  BY DEF HandOverPath, HandOverSlot, MustGoHome
<1>3. CASE HandOverPath(d)
  <2>1. PICK r \in Idle :
          /\ DOMAIN paths' = (DOMAIN paths \ {d}) \cup {r}
          /\ paths'[r] = Rest(d)
          /\ \A x \in DOMAIN paths \ {d} : x # r /\ paths'[x] = paths[x]
          /\ DOMAIN followers' = DOMAIN followers
          /\ \A f \in DOMAIN followers : followers'[f].offset = followers[f].offset
    BY <1>3, HandOverPathEffect
  <2>2. r \in Drones /\ r \notin MissionDrones /\ r \notin retired
    BY DEF Idle
  <2>3. d \in DOMAIN paths /\ d \notin DOMAIN followers /\ Rest(d).lane = paths[d].lane
    BY <1>3, RestOfRoute DEF HandOverPath, SupervisorInv, PlanSound, SoundPlan
  <2>4. MissionDrones' = (MissionDrones \ {d}) \cup {r}
    BY <2>1, <2>3 DEF MissionDrones
  <2>5. Held(r)' = Held(d)
    BY <2>1, <2>3 DEF Held
  <2>6. ASSUME NEW x \in MissionDrones \ {d} PROVE Held(x)' = Held(x)
    <3>1. x # r
      BY <2>2
    <3>2. CASE x \in DOMAIN paths
      BY <2>1, <2>6, <3>2 DEF Held
    <3>3. CASE x \notin DOMAIN paths
      BY <2>1, <2>6, <3>1, <3>3 DEF Held, MissionDrones
    <3>4. QED
      BY <3>2, <3>3
  <2>7. QED
    BY <1>1, <1>2, <2>2, <2>4, <2>5, <2>6
<1>4. CASE HandOverSlot(d)
  <2>1. PICK r \in Idle :
          /\ DOMAIN followers' = (DOMAIN followers \ {d}) \cup {r}
          /\ followers'[r] = followers[d]
          /\ \A x \in DOMAIN followers \ {d} : x # r /\ followers'[x] = followers[x]
    BY <1>4, HandOverSlotEffect
  <2>2. r \in Drones /\ r \notin MissionDrones /\ r \notin retired
    BY DEF Idle
  <2>3. d \in DOMAIN followers /\ d \notin DOMAIN paths /\ paths' = paths
    BY <1>4 DEF HandOverSlot, SupervisorInv, PlanSound, SoundPlan
  <2>4. MissionDrones' = (MissionDrones \ {d}) \cup {r}
    BY <2>1, <2>3 DEF MissionDrones
  <2>5. Held(r)' = Held(d)
    BY <2>1, <2>2, <2>3 DEF Held, MissionDrones
  <2>6. ASSUME NEW x \in MissionDrones \ {d} PROVE Held(x)' = Held(x)
    <3>1. CASE x \in DOMAIN paths
      BY <2>3, <3>1 DEF Held
    <3>2. CASE x \notin DOMAIN paths
      BY <2>1, <2>3, <2>6, <3>2 DEF Held, MissionDrones
    <3>3. QED
      BY <3>1, <3>2
  <2>7. QED
    BY <1>1, <1>2, <2>2, <2>4, <2>5, <2>6
<1>5. QED
  BY <1>3, <1>4

-----------------------------------------------------------------------------
(* Every step of the supervisor is a step of the roster, or none. *)

LEMMA StutterOfRoster ==
  ASSUME UNCHANGED <<paths, followers, retired, dropped>>
  PROVE  UNCHANGED Roster!rosterVars
  BY DEF Roster!rosterVars, Held, MissionDrones

\* A new mission, or none, is a new roster.
LEMMA BeginsRoster ==
  ASSUME SupervisorInv', dropped' = {}, retired' = {}
  PROVE  Roster!Begin
<1>1. Roster!IsRoster(HoldersIn(paths', followers'))
  BY HoldersOfSoundPlan DEF SupervisorInv, TypeOK, PlanSound
<1>2. HoldersIn(paths', followers') = HoldersIn(paths, followers)'
  BY DEF HoldersIn, HeldIn, DronesIn
<1>3. QED
  BY <1>1, <1>2 DEF Roster!Begin, Roster!IsRoster, HoldersIn, HeldIn, DronesIn, Held, MissionDrones

\* A dropped task is abandoned by the drone that held it.
LEMMA DropAbandons ==
  ASSUME SupervisorInv, NEW d \in Drones, Drop(d)
  PROVE  Roster!Abandon(Held(d))
<1>1. d \in MissionDrones /\ d \notin dropped /\ dropped \subseteq MissionDrones
  BY VisitedIsInMission DEF Drop, MustGoHome, SupervisorInv, PlanSound
<1>2. \A x, y \in MissionDrones : Held(x) = Held(y) => x = y
  BY HoldersOfSoundPlan, Mapping DEF SupervisorInv, TypeOK, PlanSound
<1>3. Held(d) \notin Abandoned
  BY <1>1, <1>2 DEF Abandoned
<1>4. dropped' = dropped \cup {d} /\ UNCHANGED <<paths, followers, retired>>
  BY DEF Drop
<1>5. \A x : Held(x)' = Held(x)
  BY <1>4 DEF Held
<1>6. Abandoned' = Abandoned \cup {Held(d)}
  BY <1>4, <1>5 DEF Abandoned
<1>7. QED
  BY <1>1, <1>3, <1>4, <1>6 DEF Roster!Abandon, Abandoned, Held, MissionDrones

\* A hand-over is a take-over of the task by a drone that had no part in the mission.
LEMMA HandOverTakesOver ==
  ASSUME SupervisorInv, SupervisorInv', NEW d \in Drones, HandOverPath(d) \/ HandOverSlot(d)
  PROVE  \E r \in Drones : Roster!TakeOver(Held(d), r)
<1> DEFINE R == HoldersIn(paths, followers)
<1>1. PICK r \in Drones :
        /\ r \notin MissionDrones /\ r \notin retired
        /\ MissionDrones' = (MissionDrones \ {d}) \cup {r}
        /\ Held(r)' = Held(d)
        /\ \A x \in MissionDrones \ {d} : Held(x)' = Held(x)
  BY HandOverMovesOneTask
<1>2. /\ d \in MissionDrones /\ d \notin dropped /\ dropped \subseteq MissionDrones
      /\ retired' = retired \cup {d} /\ dropped' = dropped
  BY HandOverMovesOneTask DEF SupervisorInv, PlanSound
<1>3. /\ \A x, y \in MissionDrones : Held(x) = Held(y) => x = y
      /\ DOMAIN R = {Held(x) : x \in MissionDrones}
      /\ \A x \in MissionDrones : R[Held(x)] = x
  BY HoldersOfSoundPlan, Mapping DEF SupervisorInv, TypeOK, PlanSound
<1>4. /\ DOMAIN R' = {Held(x)' : x \in MissionDrones'}
      /\ \A x \in MissionDrones' : R'[Held(x)'] = x
  <2>0. /\ paths' \in Partial(Drones, Routes)
        /\ followers' \in Partial(Drones, Slots)
        /\ SoundPlan(paths', followers')
    BY DEF SupervisorInv, TypeOK, PlanSound
  <2>1. /\ DOMAIN HoldersIn(paths', followers')
              = {HeldIn(paths', followers', x) : x \in DronesIn(paths', followers')}
        /\ \A x \in DronesIn(paths', followers') :
              HoldersIn(paths', followers')[HeldIn(paths', followers', x)] = x
    BY <2>0, HoldersOfSoundPlan
  <2>2. /\ R' = HoldersIn(paths', followers')
        /\ MissionDrones' = DronesIn(paths', followers')
        /\ \A x : Held(x)' = HeldIn(paths', followers', x)
    BY DEF HoldersIn, HeldIn, DronesIn, Held, MissionDrones
  <2>3. QED
    BY <2>1, <2>2
<1>5. /\ R = [t \in {Held(x) : x \in MissionDrones} |->
                CHOOSE x \in MissionDrones : Held(x) = t]
      /\ R' = [t \in {Held(x)' : x \in MissionDrones'} |->
                 CHOOSE x \in MissionDrones' : Held(x)' = t]
  BY DEF HoldersIn, HeldIn, DronesIn, Held, MissionDrones
<1> HIDE DEF R
<1>6. Held(d) \in DOMAIN R /\ Held(d) \notin Abandoned
  BY <1>2, <1>3 DEF Abandoned
<1>7. r \notin Roster!Range(R)
  BY <1>1, <1>3 DEF Roster!Range
<1>8. R' = [R EXCEPT ![Held(d)] = r]
  <2>1. DOMAIN R' = DOMAIN R
    BY <1>1, <1>2, <1>3, <1>4
  <2>2. R'[Held(d)] = r
    BY <1>1, <1>4
  <2>3. \A x \in MissionDrones \ {d} : R'[Held(x)] = x
    BY <1>1, <1>4
  <2>4. \A t \in DOMAIN R : R'[t] = IF t = Held(d) THEN r ELSE R[t]
    BY <1>2, <1>3, <2>2, <2>3
  <2>5. R' = [t \in DOMAIN R' |-> R'[t]] /\ R = [t \in DOMAIN R |-> R[t]]
    BY <1>3, <1>4, <1>5
  <2>6. QED
    BY <2>1, <2>4, <2>5
<1>9. retired' = retired \cup {R[Held(d)]}
  BY <1>2, <1>3
<1>10. Abandoned' = Abandoned
  BY <1>1, <1>2 DEF Abandoned
<1>11. Roster!TakeOver(Held(d), r)
  <2> DEFINE E == [t \in {Held(x) : x \in MissionDrones} |->
                     CHOOSE x \in MissionDrones : Held(x) = t]
  <2>1. Held(d) \in DOMAIN E \ Abandoned /\ r \notin Roster!Range(E) \cup retired
    BY <1>1, <1>5, <1>6, <1>7
  <2>2. E' = [E EXCEPT ![Held(d)] = r] /\ retired' = retired \cup {E[Held(d)]}
    BY <1>5, <1>8, <1>9
  <2>3. QED
    BY <1>10, <2>1, <2>2 DEF Roster!TakeOver, Abandoned
<1>12. QED
  BY <1>11

LEMMA NextImplementsRoster ==
  ASSUME SupervisorInv, SupervisorInv', [Next]_vars
  PROVE  [Roster!Next]_(Roster!rosterVars)
<1>1. CASE Observe \/ BeginPass \/ EndPass \/ (\E d \in Drones : LeaveAlone(d)) \/ UNCHANGED vars
  BY <1>1, StutterOfRoster
     DEF Observe, ObserveBattery, ObserveProgress, BeginPass, EndPass, LeaveAlone, vars
<1>2. CASE Operate
  BY <1>2, BeginsRoster DEF Operate, Start, SwarmCommand, Roster!Next
<1>3. ASSUME NEW d \in Drones, Drop(d) \/ HandOverPath(d) \/ HandOverSlot(d)
      PROVE  Roster!Next
  <2>1. Held(d) \in AllTasks
    <3>1. d \in MissionDrones
      BY <1>3, VisitedIsInMission DEF Drop, HandOverPath, HandOverSlot
    <3>2. QED
      BY <3>1, HoldersOfSoundPlan, Mapping DEF SupervisorInv, TypeOK, PlanSound
  <2>2. CASE Drop(d)
    BY <2>1, <2>2, DropAbandons DEF Roster!Next
  <2>3. CASE HandOverPath(d) \/ HandOverSlot(d)
    <3>1. PICK r \in Drones : Roster!TakeOver(Held(d), r)
      BY <2>3, HandOverTakesOver
    <3>2. \E t \in AllTasks, e \in Drones : Roster!TakeOver(t, e)
      BY <2>1, <3>1 DEF Roster!TakeOver
    <3>3. QED
      BY <3>2 DEF Roster!Next
  <2>4. QED
    BY <1>3, <2>2, <2>3
<1>4. QED
  BY <1>1, <1>2, <1>3 DEF Next, Reallocate, Visit

\* The supervisor implements the roster: through passes over a changing plan a task
\* changes hands once per relief, never returns to a relieved drone and never moves
\* once it was dropped.
THEOREM SpecImplementsRoster == Spec => ImplementsRoster
<1>1. Init => Roster!Init
  BY DEF Init, Roster!Init, Held, MissionDrones, Empty
<1>2. QED
  BY <1>1, SpecInv, NextImplementsRoster, PTL DEF Spec, ImplementsRoster, Roster!Spec
=============================================================================
