CONSTANTS
    p1 = p1
    p2 = p2
    c1 = c1
    c2 = c2
    agent = agent
    person = person
    Plans = {p1, p2}
    Callers = {c1, c2}
    People = {agent, person}
    Capacity = 1
    MaxUnsure = 1
SYMMETRY Symmetry
SPECIFICATION Spec
INVARIANTS CodeIsHeldOnce FliesAtMostOnce ApprovalOutlivesFailures FliesOnlyApprovedByAnother WaitingPlansAreKept
PROPERTIES ImplementsApproval
