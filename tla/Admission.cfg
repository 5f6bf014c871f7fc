SPECIFICATION Spec
CONSTANTS
    Threads = {t1, t2, t3}
    Jobs = {j1, j2, j3}
    Keys = {k}
    NoKey = NoKey
    Prints = {p, q}
    Limit = 1
    Faults = {"stall", "death", "outage"}
    Nobody = Nobody
SYMMETRY
    Symmetry
INVARIANTS
    TypeOK
    QuotaBounded
    OneJobPerKey
    AnswersTheSameRequest
CHECK_DEADLOCK FALSE
