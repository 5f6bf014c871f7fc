SPECIFICATION FairSpec
CONSTANTS
    Jobs = {j1}
    Submitters = {u1}
    Clients = {c1}
    Kinds = {"delete"}
PROPERTIES
    EventuallyPurged
CHECK_DEADLOCK FALSE
