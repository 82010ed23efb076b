SPECIFICATION Spec
CONSTANTS
    r1 = r1
    r2 = r2
    t1 = t1
    t2 = t2
    u1 = u1
    a1 = a1
    Requests = {r1, r2}
    Ids = {t1, t2}
    Imported = {t1}
    Users = {u1}
    Amounts = {a1}
    DefaultCurrency = "IDR"
    Empty = ""
    Currencies = {"IDR"}
    NumericScan = {"error"}
INVARIANTS
    AmountsConvert
CHECK_DEADLOCK FALSE
