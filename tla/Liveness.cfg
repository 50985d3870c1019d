SPECIFICATION LiveSpec
CONSTANTS
    s1 = s1  i1 = i1
    Sessions = {s1}
    Instances = {i1}
    Reqs = {r1, r2, r3}
    Route <- SingleRoute
    a1 = a1  a2 = a2  ua = ua
    Conns = {a1, a2}
    Users = {ua}
    UserOf <- OneUser
    SendCap = 1
    QueueCap = 1
    None = None
PROPERTIES EveryCallEnds SocketReleased
\* A handler and a connection are used once: in the end nothing happens.
CHECK_DEADLOCK FALSE
