SPECIFICATION SysSpec
CONSTANTS
    r1 = r1
    r2 = r2
    t1 = t1
    t2 = t2
    u1 = u1
    a1 = a1
    w1 = w1
    Requests = {r1, r2}
    Ids = {t1, t2}
    Imported = {t1, t2}
    Users = {u1}
    Amounts = {a1}
    DefaultCurrency = "IDR"
    Empty = ""
    Currencies = {"IDR"}
    NumericScan = {"error"}
    Runners = {w1}
    Names = {"default"}
    Name <- DefaultName
    BatchSize = 2
    EventIds = {1, 2}
    Rejected = {}
    MaxFailures = 0
INVARIANTS
    NothingSkipped
CHECK_DEADLOCK FALSE
