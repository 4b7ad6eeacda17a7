CONSTANTS
    agent = agent
    byHand = byHand
    other = other
    k1 = k1
    k2 = k2
    b1 = b1
    b2 = b2
    Calls = {agent, byHand, other}
    Keys = {k1, k2}
    Bodies = {b1, b2}
    Key <- Shared
    Asks <- SameOrNot
    Tries <- OneRetry
    Capacity = 1
    MaxRestarts = 0
SPECIFICATION Spec
INVARIANTS UnreachableMeansNothingDone
CHECK_DEADLOCK FALSE
