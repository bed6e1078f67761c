\* A founder and a player, two requests in flight.
SPECIFICATION Spec
SYMMETRY Interchangeable
CONSTRAINT FewAdministrators
CHECK_DEADLOCK FALSE
CONSTANTS
    root = root
    ann = ann
    p1 = p1
    Leagues = {l1, l2}
    OldLeagues = {}
    NoLeague = NoLeague
    Players = {p1}
    NoPlayer = NoPlayer
    Users = {root, ann}
    Founder = root
    PlayerOf <- OneLinked
    Eligible = {p1}
    Passwords = {pw}
    NoPassword = NoPassword
    SessionIds = {s1}
    TokenIds = {t1, t2}
    Clients = {c1, c2}
    Unused = Unused
    Deleted = Deleted
    NoUser = NoUser
    NoSession = NoSession
    IdleTimeout = 1
    AbsoluteLifetime = 2
    SetupTokenTTL = 0
    Managed = {ann}
    Horizon = 2
    MaxRequests = 3
INVARIANTS
    ServedIsEntitled
    OneLiveToken
PROPERTIES
    RevokedForGood
