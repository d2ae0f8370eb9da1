\* Calls that do not overlap: two users, four tokens, three calls.
SPECIFICATION SerialSpec
CONSTANTS
    u1 = u1
    u2 = u2
    t1 = t1
    t2 = t2
    t3 = t3
    t4 = t4
    r1 = r1
    r2 = r2
    r3 = r3
    NULL = NULL
    User = {u1, u2}
    Token = {t1, t2, t3, t4}
    Req = {r1, r2, r3}
SYMMETRY Symmetry
INVARIANTS
    SingleUse
PROPERTIES
    OnlyLoginRevives
    ReplayEndsSessions
    KeepsLogins
CHECK_DEADLOCK FALSE
