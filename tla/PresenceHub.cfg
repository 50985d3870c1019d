SPECIFICATION Spec
CONSTANTS
    a1 = a1  a2 = a2  b1 = b1
    ua = ua  ub = ub
    Conns = {a1, a2, b1}
    Users = {ua, ub}
    UserOf <- TwoTabs
    SendCap = 1
    QueueCap = 1
    None = None
SYMMETRY TabSymmetry
INVARIANTS OnlyConnectionIsReachable PanicHasCause
CHECK_DEADLOCK FALSE
