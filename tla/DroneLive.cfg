CONSTANTS
    w1 = w1
    w2 = w2
    m1 = m1
    m2 = m2
    a = a
    WarmupTicks = 1
    Waypoints = {w1}
    Leaders = {}
    Ids = {m1}
    Orders <- PathOrders
    MaxEvents = 2
    PilotModes = {}
SPECIFICATION FairSpec
PROPERTIES PathIsFlown HandoverPrevails
