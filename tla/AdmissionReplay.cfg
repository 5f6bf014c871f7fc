SPECIFICATION Spec
CONSTANTS
    Threads = {t1, t2}
    Jobs = {j1, j2, j3}
    Keys = {k}
    NoKey = NoKey
    Prints = {p}
    Limit = 1
    Faults = {}
    Nobody = Nobody
INVARIANT
    PromisedJobsRun
CHECK_DEADLOCK FALSE
