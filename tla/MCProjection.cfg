SPECIFICATION SysFairSpec
CONSTANTS
    r1 = r1
    r2 = r2
    t1 = t1
    t2 = t2
    u1 = u1
    a1 = a1
    a2 = a2
    w1 = w1
    Requests = {r1, r2}
    Ids = {t1, t2}
    Imported = {t1}
    Users = {u1}
    Amounts = {a1, a2}
    DefaultCurrency = "IDR"
    Empty = ""
    Currencies = {"IDR"}
    NumericScan = {"ok"}
    Runners = {w1}
    Names = {"default"}
    Name <- DefaultName
    BatchSize = 2
    EventIds = {1, 2}
    Rejected = {a2}
    MaxFailures = 2
INVARIANTS
    SysTypeOK
    PassedIsApplied
    DuplicatesBounded
    AppliedInOrder
    SysInv
PROPERTIES
    CursorAdvances
    EventuallyProjected
    RequestsEnd
CHECK_DEADLOCK FALSE
