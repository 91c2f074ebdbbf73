SPECIFICATION HttpSpec
CONSTANTS
    LocalTenant = "ica"
    AnyTenant = "*"
    SupportedJurisdictions = {"es", "fr"}
    SupportedSectors = {"health", "energy"}
    AnySector = AnySector
    VersionTokens = {"contract"}
    TestTokens = {"test-1"}
    AllowTestPrefix = TRUE
    ActiveResourceTypes = {"contract"}
    NoId = NoId
    AutoId = AutoId
    Generated = Generated
    LegacyDidcomm = FALSE
    LegacySearch = TRUE
    Requests <- AllRequests
    ControllerConfigured = TRUE
    MaxJobs = 1
    None = None
INVARIANTS
    HttpTypeOK
    NoShadow
    AcceptedCanBePolled
    AnswersStayWithRoute
    AnswersAsDocumented
CHECK_DEADLOCK FALSE
