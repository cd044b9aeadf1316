SPECIFICATION DnsSpec
CONSTANTS
    Upstreams = {u1}
    Domains = {d1}
    Tables <- MCTables
    TcpSessions = {}
    Restorers = {s1}
    MaxTcpSessions = 1
    MaxQueries = 3
    MaxReloads = 0
    MaxTcpQueries = 0
INVARIANT FakeIsRestored
