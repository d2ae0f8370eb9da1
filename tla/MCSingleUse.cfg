\* Two refreshes with one token that overlap.
SPECIFICATION Spec
CONSTANTS
    u1 = u1
    u2 = u2
    t1 = t1
    t2 = t2
    t3 = t3
    t4 = t4
    r1 = r1
    r2 = r2
    r3 = r3
    NULL = NULL
    User = {u1}
    Token = {t1, t2, t3}
    Req = {r1, r2}
INVARIANTS
    SingleUse
CHECK_DEADLOCK FALSE
