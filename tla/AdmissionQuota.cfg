SPECIFICATION Spec
CONSTANTS
    Threads = {t1, t2, t3}
    Jobs = {j1, j2, j3}
    Keys = {}
    NoKey = NoKey
    Prints = {p}
    Limit = 1
    Faults = {"death"}
    Nobody = Nobody
INVARIANT
    QuotaHolds
CHECK_DEADLOCK FALSE
