SPECIFICATION Spec
CONSTANTS
    Token <- MCToken
    Score <- MCScore
    CategoryThreshold = 95
    MappingThreshold = 92
    ScoreMargin = 5
    MaxCandidates = 3
    Ids <- MCIds
    Parses <- MCParses
    WriteSafe <- MCWriteSafe
    InBounds <- MCInBounds
    Items <- MCItems
    HeaderRows <- MCHeaderRows
    RowLists <- MCRowLists
    Catalogues <- MCCatalogues
    FixedFields <- MCFixed
    IdField = "catid"
    NameField = "cat"
    PrimaryKey = {"key"}
    SkuMode = "when_present"
    SkuLimit = 2
    Canonical <- MCCanonical
    CrossErrors <- MCCrossErrors
    SheetName <- MCSheetName
    Casefold <- MCCasefold
    Workbooks <- MCWorkbooks
INVARIANTS
    TypeOK
    ColumnsAreKept
    NothingIsGuessed
    QuietResultIsCertain
    AnswersAreHonoured
    AnswersStayInTheirCategory
    RevisionIsComputable
    SheetsAreKept
CHECK_DEADLOCK FALSE
