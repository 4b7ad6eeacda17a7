CONSTANTS
    m1 = m1
    a1 = a1
    NoMission = NoMission
    NumDrones = 4
    NumWaypoints = 1
    MissionIds = {m1}
    Missions <- PairMissions
    Reports = {}
    PlannerPlans = {}
    Place <- MCPlace
    Legs <- MCLegs
    WarmupTicks = 1
    CommsTimeout = 7
    OffboardTimeout = 1
    LandDisarm = 3
    PreflightDisarm = 8
    Happenings <- MCHappenings
    MaxHappenings = 5
SPECIFICATION MCSpec
INVARIANTS CompleteMeansLanded
CHECK_DEADLOCK FALSE
