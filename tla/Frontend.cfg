SPECIFICATION FrontendSpec
CONSTANTS
    None = None
    p1 = p1  p2 = p2  asker = x
    Pages = {p1, p2}
    Others <- TwoReactions
    People = {x, y}
    Notes = {n1, n2}
    Forms = {f1}
    MaxEvents = 3
    MaxFaults = 1
    MaxFetches = 1
    Objs = {o1, o2}
    MaxSockets = 5
    MaxDrops = 3
INVARIANTS
    FrontendTypeOK
    OneSocketAtATime
    StatusIsTruthful
    UndisturbedIsExact
    FriendCountSettles
PROPERTIES
    StaysConnected
    BadgeConverges
\* Signed out for good, nothing happens any more.
CHECK_DEADLOCK FALSE
