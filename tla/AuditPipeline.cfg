SPECIFICATION Spec
CONSTANTS
    Normal <- MCNormal
    Strip <- MCStrip
    Resembles <- MCResembles
    Numbers <- MCNumbers
    Number <- MCNumber
    WriteSafe <- MCWriteSafe
    Blanks <- MCBlanks
    Formulas <- MCFormulas
    Cached <- MCCached
    FormulaAt <- MCFormulaAt
    KeyOrder <- MCKeyOrder
    ScanRows = 3
    Cases <- MCCases
    MaxRows = 12
INVARIANTS
    TypeOK
    RowsAreAccountedFor
    RepairsAreAuthorised
    AuditConverges
    BackendsAgree
    RenderersAgree
    SnapshotIsComplete
CHECK_DEADLOCK FALSE
