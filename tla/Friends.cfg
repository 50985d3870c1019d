CONSTANTS
    Users = {a, b}
    Reqs = {h1, h2, h3, h4}
SPECIFICATION Spec
SYMMETRY UserReqSymmetry
INVARIANTS
    FriendsConsented
    FriendCountNeverOverstates
    NotificationsAreTrue
\* A handler is used once: the system stops when all have answered.
CHECK_DEADLOCK FALSE
