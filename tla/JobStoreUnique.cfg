SPECIFICATION Spec
CONSTANTS
    s1 = s1
    s2 = s2
    s3 = s3
    t1 = t1
    t2 = t2
    r1 = r1
    r2 = r2
    None = None
    Subs = {s1, s2}
    Thids = {t1, t2}
    Routes = {r1, r2}
    ThidOf <- UniqueThidOf
    RouteOf <- UniqueRouteOf
    Ttl = 1
    MaxNow = 4
INVARIANTS
    TypeOK
    AnswerIsOwn
    OutstandingIsPending
    JobFollowsWorker
PROPERTIES
    TerminalIsFinal
    KeptForTtl
    ImplementsContract
