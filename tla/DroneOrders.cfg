CONSTANTS
    w1 = w1
    w2 = w2
    m1 = m1
    m2 = m2
    a = a
    WarmupTicks = 1
    Waypoints = {w1, w2}
    Leaders = {a}
    Ids = {m1, m2}
    Orders <- MixedOrders
    MaxEvents = 2
    PilotModes = {"AUTO.LOITER"}
SPECIFICATION Spec
INVARIANTS CompleteMeansDone
PROPERTIES HandoverIsFinal NeverDraggedBack
