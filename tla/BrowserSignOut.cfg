CONSTANTS
    Tabs = {t1}
    Calls = {c1, c2}
    Sessions = {s1}
    Expiring = 1
    MaxFaults = 0
    None = None
    Keep = Keep
SPECIFICATION Spec
INVARIANT ClearedOnlyWhenRefreshFails
CHECK_DEADLOCK FALSE
