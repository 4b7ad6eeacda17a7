CONSTANTS
    w1 = w1
    w2 = w2
    m1 = m1
    m2 = m2
    a = a
    WarmupTicks = 1
    Waypoints = {}
    Leaders = {a}
    Ids = {m1}
    Orders <- OneSlot
    MaxEvents = 2
    PilotModes = {"AUTO.LOITER"}
SPECIFICATION Spec
PROPERTIES NotOursToFight
