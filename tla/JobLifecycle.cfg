SPECIFICATION Spec
CONSTANTS
    Jobs = {j1}
    Submitters = {u1}
    Clients = {c1}
    Kinds = {"cancel", "delete"}
INVARIANTS
    TypeOK
    RetentionSparesRuns
    RowGoesBeforeTree
    RunSettlesUnlessRaced
    CancelIsHonoured
PROPERTIES
    KeepsPromise
    NoOrphanObjects
CHECK_DEADLOCK FALSE
