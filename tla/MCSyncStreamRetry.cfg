SPECIFICATION FairSpec
CONSTANTS
    c1 = c1
    c2 = c2
    u1 = u1
    k1 = k1
    Consumers = {c1, c2}
    Users = {u1}
    Conns = {k1}
    Owner <- OneOwner
    NoConn = NoConn
    Count = 2
    MaxJobs = 2
    MaxFailures = 1
PROPERTIES
    PendingIsRetried
CHECK_DEADLOCK FALSE
