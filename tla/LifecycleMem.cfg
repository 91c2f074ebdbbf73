SPECIFICATION Spec
CONSTANTS
    None = None
    k1 = k1
    k2 = k2
    i1 = i1
    i2 = i2
    Orgs = {o1}
    Keys = {k1, k2}
    Ids = {i1}
    Verifs = {v1, v2}
    Ops = {x1, x2}
    VerifyKeys = {k1, k2}
    CreateKeys <- KeysOrNone
    ClientIds = {i1}
    Provider = "mem"
    Required = TRUE
    AllowRebind = FALSE
INVARIANTS
    TypeOK
    PublicationConsistent
PROPERTIES
    KeyGoverned
    ReopenedByVerify
    ImplementsMembershipContract
SYMMETRY AllSymmetric
