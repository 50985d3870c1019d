CONSTANTS
    s1 = s1
    i1 = i1
    Sessions = {s1}
    Instances = {i1}
    Reqs = {r1, r2, r3, r4}
    Route <- SingleRoute
    Replicas = {b1, b2}
    Kids = {k1, k2}
    Secrets = {a, b, c}
    Pairs = {t1, t2}
    None = None
SPECIFICATION MCSpec
SYMMETRY ReqSymmetry
INVARIANTS
    LockTableExact
    RotatedAtMostOnce
    SignOutIsFinal
    RotationSignsNobodyOut
PROPERTY ImplementsAtomicSessions
\* A handler is used once: the system stops when all have answered.
CHECK_DEADLOCK FALSE
