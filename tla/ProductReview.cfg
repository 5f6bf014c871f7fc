SPECIFICATION Spec
CONSTANTS
    r1 = r1
    cA = cA
    cB = cB
    Workers = {w1, w2}
    Clients = {c1, c2}
    Rows = {r1}
    Categories = {cA, cB}
    Candidates <- BothCandidates
    Settled = {}
    Asking = {cA}
    MaxRevision = 2
    MaxQueued = 1
SYMMETRY Symmetry
CONSTRAINT OneDisturbance
INVARIANTS
    TypeOK
    OneRunAtATime
    AppliedDecisionsWereRecorded
    CurrentRevisionIsFrozen
    CancelledRunMakesNoRevision
    StatusMatchesReviews
PROPERTIES
    DecidedOnce
CHECK_DEADLOCK FALSE
