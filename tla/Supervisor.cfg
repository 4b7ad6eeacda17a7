CONSTANTS
    m1 = m1
    NoMission = NoMission
    NumDrones = 3
    NumWaypoints = 2
    MissionIds = {m1}
    Missions <- PairMissions
    Reports <- PairReports
    PlannerPlans <- NoPlanner
SPECIFICATION FairSpec
INVARIANTS PlanSound OrdersMatchPlan PassLeavesNobodyBehind
PROPERTIES HandOverLosesNothing OnlyFitDronesJoin ImplementsRoster LowDroneIsSentHome
