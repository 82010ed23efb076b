SPECIFICATION Spec
CONSTANTS
    u1 = u1
    u2 = u2
    x1 = x1
    x2 = x2
    x3 = x3
    NoRow = NoRow
    Ids = {x1, x2, x3}
    Users = {u1, u2}
INVARIANTS
    TotalIsCount
CHECK_DEADLOCK FALSE
