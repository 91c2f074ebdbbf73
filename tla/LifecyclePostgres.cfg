SPECIFICATION Spec
CONSTANTS
    None = None
    k1 = k1
    k2 = k2
    i1 = i1
    i2 = i2
    Orgs = {o1}
    Keys = {k1, k2}
    Ids = {i1}
    Verifs = {v1}
    Ops = {x1, x2}
    VerifyKeys <- KeysOrNone
    CreateKeys <- KeysOrNone
    ClientIds = {i1}
    Provider = "postgres"
    Required = TRUE
    AllowRebind = FALSE
INVARIANTS
    PublicationBacked
SYMMETRY AllSymmetric
