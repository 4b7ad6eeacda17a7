SPECIFICATION Spec
CONSTANTS
    d1 = d1
    d2 = d2
    Callers = {c1, c2}
    Sockets = {s1}
    MissionCount = 3
    Drones <- MCDrones
    SimDrones = 2
    Waypoints = 1
    LogCapacity = 1
    MaxRuns = 2
    Deployments <- MCDeployments
INVARIANTS
    PublishesOnLiveSocket
    LogIsBounded
    CompletedWasFlown
    SettledLogAgrees
    IndexedRunsAreOnDisk
    AcknowledgedRunsAreKept
PROPERTIES
    CompletionIsNoticed
    EveryRequestEnds
