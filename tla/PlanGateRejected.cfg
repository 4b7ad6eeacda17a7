CONSTANTS
    p1 = p1
    p2 = p2
    c1 = c1
    c2 = c2
    agent = agent
    person = person
    Plans = {p1}
    Callers = {c1}
    People = {agent}
    Capacity = 1
    MaxUnsure = 1
SPECIFICATION Spec
PROPERTIES RejectedNeverFlies
