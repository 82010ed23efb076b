SPECIFICATION Spec
CONSTANTS
    r1 = r1
    r2 = r2
    r3 = r3
    t1 = t1
    t2 = t2
    t3 = t3
    u1 = u1
    u2 = u2
    Requests = {r1, r2, r3}
    Ids = {t1, t2, t3}
    Imported = {t1}
    Users = {u1, u2}
    a1 = a1
    a2 = a2
    Amounts = {a1, a2}
    DefaultCurrency = "IDR"
    Empty = ""
    Currencies = {"IDR", "USD"}
    NumericScan = {"ok", "error"}
SYMMETRY Symmetry
INVARIANTS
    TypeOK
    OutboxExact
    EventOrder
    NoLostUpdate
    AckedIsDurable
    JobsAreCovered
    Inv
PROPERTIES
    DeletedIsFinal
    LedgerSpec
CHECK_DEADLOCK FALSE
