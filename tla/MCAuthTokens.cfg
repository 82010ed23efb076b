SPECIFICATION FairSpec
CONSTANTS
    r1 = r1
    r2 = r2
    r3 = r3
    u1 = u1
    u2 = u2
    t1 = t1
    t2 = t2
    t3 = t3
    t4 = t4
    p1 = p1
    p2 = p2
    Requests = {r1, r2, r3}
    Users = {u1, u2}
    Tokens = {t1, t2, t3, t4}
    Emails = {"a", "A"}
    NormalizeEmail <- Lower
    Passwords = {p1, p2}
    NoPassword = ""
    Accounts = {u1}
    Opened = {t1}
    Schemas = {"not null", "nullable"}
    None = None
INVARIANTS
    TypeOK
    AnswersHold
    EmailIsUnique
    SessionLives
    SpentIsRefused
    Inv
PROPERTIES
    RequestsEnd
    RevokedForGood
CHECK_DEADLOCK FALSE
