CONSTANTS
    Users = {a, b}
    Reqs = {h1, h2, h3, h4}
SPECIFICATION Spec
SYMMETRY UserReqSymmetry
INVARIANT FriendCountIsExact
CHECK_DEADLOCK FALSE
