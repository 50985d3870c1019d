CONSTANTS
    None = None
    u1 = u1  u2 = u2  r1 = r1  r2 = r2
    google = google  discord = discord
    g1 = g1  d1 = d1  d2 = d2
    mail = mail
    Users = {u1, u2}
    Reqs = {r1, r2}
    Handlers = {r1, r2}
    Providers = {google, discord}
    LoginProviders = {google, discord}
    DirectProviders = {discord}
    Ids = {g1, d1, d2}
    ProviderOf <- MCProviderOf
    VerifiedEmail <- MCVerifiedEmail
    Emails = {mail}
    MaxStates = 1
    Trips = {q1, q2}
    Accounts = {i1, i2}
    MaxTries = 2
    MaxFaults = 1
SPECIFICATION AccountsSpec
SYMMETRY Symmetry
PROPERTIES
    WayIn
    IdentityIsStable
INVARIANTS
    HonouredOnce
    PageIsTrue
\* Trips end; the rows do not.
CHECK_DEADLOCK FALSE
