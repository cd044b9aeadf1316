SPECIFICATION IngressSpec
CONSTANTS
    Upstreams = {u1, u2}
    Domains = {d1}
    Tables <- MCTables
    TcpSessions = {t1, t2}
    Restorers = {s1}
    MaxTcpSessions = 1
    MaxSessions = 1
    MaxQueries = 2
    MaxReloads = 1
    MaxTcpQueries = 1
    Clients = {c1, c2}
    Associating = {c1}
    Keys = {k1, k2}
    Depth = 1
    MaxDatagrams = 3
    ResponseDepth = 1
    MaxResponses = 3
INVARIANTS FakeIsLastResort DenyHolds
PROPERTIES QueryEnds  CapturedEnds
CHECK_DEADLOCK FALSE
