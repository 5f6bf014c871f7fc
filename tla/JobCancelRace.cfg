SPECIFICATION Spec
CONSTANTS
    Jobs = {j1}
    Submitters = {u1}
    Clients = {c1}
    Kinds = {"cancel"}
INVARIANT
    RunSettlesJob
CHECK_DEADLOCK FALSE
