SPECIFICATION Spec
CONSTANTS
    r1 = r1
    cA = cA
    cB = cB
    Workers = {w1}
    Clients = {c1}
    Rows = {r1}
    Categories = {cA, cB}
    Candidates <- BothCandidates
    Settled = {}
    Asking = {cA}
    MaxRevision = 2
    MaxQueued = 1
PROPERTIES
    RevisionIsServed
CHECK_DEADLOCK FALSE
