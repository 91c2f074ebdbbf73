SPECIFICATION Spec
CONSTANTS
    None = None
    Creds = {c1, c2}
    Batches = 2
    Ops = {x1, x2}
    Provider = "postgres"
    Required = TRUE
    Strict = TRUE
    Anchoring = {TRUE}
    Ledger = TRUE
    LedgerRequired = TRUE
INVARIANTS
    TypeOK
    AnchoredBeforeStored
    ReportedOnLedger
    StatusHonoursRevocation
PROPERTIES
    ImplementsRevocationContract
SYMMETRY Interchangeable
