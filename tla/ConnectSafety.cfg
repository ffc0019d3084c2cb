CONSTANTS
    NetSize = 8
    Conns = {c1, c2, c3}
    SessionIds = {s1, s2}
    Tokens = {t1, t2}
    AppIds = {}
    NoSession = NoSession
    NoAddr = NoAddr
    NoConn = NoConn
    NoToken = NoToken
    NoApp = NoApp
SPECIFICATION Spec
SYMMETRY Symmetry
INVARIANTS TypeOK LeasesMatchPool ListedIsLeased LeaseNeedsLogin
PROPERTIES ListingLostOnlyToSameSession ImplementsLease
