SPECIFICATION MCSpec
CONSTANTS
    Studies <- MCStudies
    Views <- MCViews
    Jobs <- MCJobs
    Seeds = 2
    Mutants = {k1, k2}
    m1 = m1
    m2 = m2
    a1 = a1
    a2 = a2
    b1 = b1
    b2 = b2
    NoMission = NoMission
    NumDrones = 3
    NumWaypoints = 2
    MissionIds = {m1, m2}
    Missions <- MCMissions
    Reports = {}
    PlannerPlans <- MCPlans
    Place <- MCPlace
    Legs <- MCLegs
    WarmupTicks = 1
    CommsTimeout = 3
    OffboardTimeout = 1
    LandDisarm = 3
    PreflightDisarm = 6
    Happenings <- MCHappenings
    MaxHappenings = 3
INVARIANTS
    VerdictsAreTrue
    MeasuresAreTrue
    BreachesAreReported
    OkIsEarned
    FailuresAreExplained
    CompleteIsTrue
    LowDronesLeaveTheirTask
PROPERTIES
    MissionsAreFlown
    EveryFlightEnds
CHECK_DEADLOCK FALSE
