SPECIFICATION Spec
CONSTANTS
    None = None
    Creds = {c1}
    Batches = 2
    Ops = {x1, x2}
    Provider = "mem"
    Required = TRUE
    Strict = FALSE
    Anchoring = {FALSE}
    Ledger = FALSE
    LedgerRequired = FALSE
INVARIANTS
    StatusHonoursRevocation
SYMMETRY Interchangeable
