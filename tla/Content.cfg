SPECIFICATION ContentSpec
CONSTANTS
    Areas = {"presence", "posts", "communities", "library", "showcase", "streaks"}
    None = None
    a = a  b = b
    p1 = p1  p2 = p2  p3 = p3
    c1 = c1  c2 = c2  c3 = c3
    g1 = g1  g2 = g2  g3 = g3  d1 = d1
    i1 = i1  i2 = i2
    s1 = s1  s2 = s2
    Users = {a, b}
    Handlers = {h1, h2, h3}
    Players = {a}
    Games = {g1}
    Details = {d1}
    Updates <- SentPresences
    PostIds = {p1, p2, p3}
    CommentIds = {c1, c2, c3}
    Readers = {b}
    PageSize = 1
    OldPosts <- TwoPosts
    OldAuthor = a
    OldComments <- Thread
    Slugs = {s1, s2}
    Founders <- OneFounded
    SteamIds = {i1, i2}
    Owns <- Shelves
    EpicGames = {g3}
    Fans = {a}
    Titles = {t1, t2}
    MaxFeatured = 2
    People = {a, b}
    LastDay = 4
SYMMETRY HandlerSymmetry
INVARIANTS
    ContentTypeOK
    ReadsAreRegular
    PostCountAddsUp
    ReactionsAddUp
    EveryCommentIsListed
    FeedIsFaithful
    MembershipAddsUp
    OwnerIsMember
    OfficialIsProven
    LibraryIsOwn
    ShowcaseIsOrderly
    StreaksAreRuns
PROPERTIES
    ImplementsAtomicPresence
\* A handler serves one request: the system stops when all have answered.
CHECK_DEADLOCK FALSE
