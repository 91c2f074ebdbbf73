SPECIFICATION Spec
CONSTANTS
    k1 = k1 k2 = k2 c1 = c1 c2 = c2 rsa = rsa rsa2 = rsa2 ec = ec r1 = r1 r2 = r2 o1 = o1 o2 = o2
    Scenes <- OneAtATime
    Tenants = {t1}
    Emails = {e1}
    KeyIds = {k1, k2}
    Jwks = {j1}
    CodeTtl = 1
    IdTtl = 1
    AccessTtl = 1
    Skew = 1
    MaxCodes = 1
    MaxAccess = 2
    MaxOpen = 1
    MaxNow = 3
    NoClient = NoClient
    Members = {m1}
    Calls = {c1, c2}
    MaxAge = 1
    MaxVersion = 1
    MaxClock = 2
    Absent = Absent
    Kids = {rsa, rsa2, ec}
    Algs <- Algorithms
    Default = "ES384"
    AlgsOf <- KeyTypes
    EnvKid = ec
    EnvAlg = "ES384"
    EnvChain = FALSE
    Chained = {rsa}
    DidFile <- PinnedMethods
    JwksFile <- PinnedJwks
    NoKid = NoKid
    NoAlg = NoAlg
    Records = {r1, r2}
    CollectionOf <- TwoCollections
    Objects = {o1, o2}
    MaxEdition = 1
    Missing = Missing
    NoObject = NoObject
SYMMETRY Symmetry
INVARIANTS
    TypeOK
    SignInBounded
    DisableRepeatable
    NothingOlderThanAge
    PartsFollowDid
    SignerIsPublished
    SignedStaysVerifiable
    TargetResolvable
    ReconciliationHolds
PROPERTIES
    EndedNeverRebound
    OlderOnlyByOverlap
CHECK_DEADLOCK FALSE
