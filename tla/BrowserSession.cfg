CONSTANTS
    Tabs = {t1, t2}
    Calls = {c1, c2, c3}
    Sessions = {s1, s2}
    Expiring = 1
    MaxFaults = 1
    None = None
    Keep = Keep
SPECIFICATION Spec
SYMMETRY CallSymmetry
INVARIANTS
    CookiesMatch
    CookieIsCurrent
    ReuseHasCause
    NobodyWaitsInVain
\* Calls are used once: the browser falls silent.
CHECK_DEADLOCK FALSE
