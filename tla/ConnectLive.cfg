CONSTANTS
    NetSize = 4
    Conns = {c1, c2}
    SessionIds = {s1}
    Tokens = {t1, t2}
    AppIds = {d1}
    NoSession = NoSession
    NoAddr = NoAddr
    NoConn = NoConn
    NoToken = NoToken
    NoApp = NoApp
SPECIFICATION FairSpec
PROPERTIES RefusedOnlyWhenFull FinishedTunnelReleases
