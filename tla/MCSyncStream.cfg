SPECIFICATION FairSpec
CONSTANTS
    c1 = c1
    c2 = c2
    u1 = u1
    u2 = u2
    k1 = k1
    k2 = k2
    Consumers = {c1, c2}
    Users = {u1, u2}
    Conns = {k1, k2}
    Owner <- OneOwner
    NoConn = NoConn
    Count = 2
    MaxJobs = 3
    MaxFailures = 1
INVARIANTS
    TypeOK
    HandsAreDisjoint
    AckedIsSynced
    RunAtMostOnce
    Inv
PROPERTIES
    EveryJobSettles
    JobQueueSpec
CHECK_DEADLOCK FALSE
