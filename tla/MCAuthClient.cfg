\* One tab: two requests at a time, a login and a rotation or two logins, two
\* calls to the auth service.
SPECIFICATION ClientSpec
CONSTANTS
    u1 = u1
    t1 = t1
    t2 = t2
    t3 = t3
    r1 = r1
    r2 = r2
    c1 = c1
    c2 = c2
    NULL = NULL
    User = {u1}
    Token = {t1, t2}
    Req = {r1, r2}
    Call = {c1, c2}
INVARIANTS
    NeverReused
    StoreIsLive
PROPERTIES
    LogoutEndsLogin
    RequestsGoOn
CHECK_DEADLOCK FALSE
