SPECIFICATION Spec
CONSTANTS
    x = x
    y = y
    z = z
    Threads = {t1, t2}
    Versions = {"v1", "v2"}
    Contents = {x, y, z}
    VersionOf <- MCVersionOf
SYMMETRY ThreadsAlike
INVARIANTS
    TypeOK
    DatabaseServesOneContent
    FileServesOneContent
    StoresAgree
    PublishedDraftHasVersion
CHECK_DEADLOCK FALSE
