SPECIFICATION AccessSpec
CONSTANTS
    NULL = NULL
    Messages = {m1}
    Copies = {1, 2, 3}
    Tolerance = 1
    Retention = 3
    RunTime = 1
    MaxTime = 6
    Logins = {1, 2, 3, 4}
    MaxAttempts = 2
    LockTime = 2
    LockMaxTime = 3
    Requests = {1, 2, 3}
    Clients <- MCClients
    Ip1 = ip1
    Ip2 = ip2
    Name = n1
    Limit = 1
    IpLimit = 2
    Window = 2
    KeepBuckets = 1
    MaxFaults = 1
    LimitMaxTime = 2
    Pages = {p1, p2}
    Wallets = {w1}
    Cards = {c1, c2}
    Collectible = {c2}
    MaxLinks = 1
    MaxChallenges = 2
    Users = {u1, u2, u3}
    Founders = {u1, u2}
    AdminRequests = {q1, q2}
    Agencies = {a1, a2, a3}
    TreeScopes <- MCTrees
    Agents = {u1}
    a1 = a1  a2 = a2  a3 = a3  u1 = u1
    Upserts = {1}
    None = None
    Keep = Keep
INVARIANTS
    LimitHolds
    AcceptedOnce
    WaitingIsExplained
    CyclesAreUnchecked
PROPERTIES
    LockHolds
    AdministratorsStay
CHECK_DEADLOCK FALSE
